----------------------------- MODULE GrokModels -----------------------------
(***************************************************************************)
(* The models that pi offers of the Grok provider (pi-grok/models.ts): the *)
(* hardcoded ones, or those that PI_XAI_OAUTH_MODELS names, enriched with  *)
(* the catalog that GrokCatalog discovers, and routed through the proxy.   *)
(*                                                                         *)
(* Of a model are kept its id, its provider, its context window, which     *)
(* stands for all that the catalog may say of it, whether levels of        *)
(* thinking are offered, and whether it is routed.  Prices are left out.   *)
(***************************************************************************)
EXTENDS Sequences, SequencesExt

CONSTANTS
  Fallback,  \* ids of FALLBACK_MODELS, in their order
  Capable,   \* ids for which supportsReasoningEffort holds
  NoChat,    \* ids that are not of chat models
  None

Model(id, window) ==
  [id |-> id, provider |-> "xai-oauth", window |-> window, levels |-> FALSE, routed |-> FALSE]

\* An entry of the live catalog, which may leave out its window, and says
\* whether the model supports efforts.
Entry(id, window, effort) == [id |-> id, window |-> window, effort |-> effort]

Ids(seq) == {seq[k].id : k \in DOMAIN seq}
Named(models, id) == models[SelectInSeq(models, LAMBDA m : m.id = id)]

Chats(catalog) == SelectSeq(catalog, LAMBDA e : e.id \notin NoChat)

\* filterModelsByEnv, with defaults for a model that is not known.
Filtered(models, env) ==
  IF env = <<>> THEN models
  ELSE [k \in DOMAIN env |->
          IF env[k] \in Ids(models) THEN Named(models, env[k]) ELSE Model(env[k], "default")]

\* resolveModels
Resolved(env) == Filtered([k \in DOMAIN Fallback |-> Model(Fallback[k], "fallback")], env)

\* thinkingLevelMapFor, and liveThinkingMap, where the flag of the catalog wins.
LevelsFor(id)     == id \in Capable
LiveLevels(entry) == entry.effort \/ LevelsFor(entry.id)

\* What is offered of a model of the catalog: what is known of it, with what
\* the catalog says.
Enriched(models, entry) ==
  LET known == IF entry.id \in Ids(models) THEN Named(models, entry.id)
               ELSE Model(entry.id, "default")
  IN  [known EXCEPT !.window = IF entry.window = None THEN @ ELSE entry.window,
                    !.levels = @ \/ LiveLevels(entry)]

\* Mutation of MergedLive: what is known is appended whether it is listed or not.
MergedLiveTwice(models, catalog) ==
  LET live == Chats(catalog)
  IN  [k \in DOMAIN live |-> Enriched(models, live[k])] \o models

\* mergeLiveModels: in the order of the catalog, and then those it omits.
MergedLive(models, catalog) ==
  LET live == Chats(catalog)
  IN  [k \in DOMAIN live |-> Enriched(models, live[k])] \o
      SelectSeq(models, LAMBDA m : m.id \notin Ids(live))

\* applyDiscoveredModels
Applied(models, catalog, env) == Filtered(MergedLive(models, catalog), env)

\* rebuildModelsForOAuth, on the models of all providers.
Rebuilt(all, catalog, env) ==
  LET ours == Applied(SelectSeq(all, LAMBDA m : m.provider = "xai-oauth"), catalog, env)
  IN  SelectSeq(all, LAMBDA m : m.provider # "xai-oauth") \o
      [k \in DOMAIN ours |->
         [ours[k] EXCEPT !.levels = @ \/ LevelsFor(ours[k].id), !.routed = TRUE]]

=============================================================================
