---------------------------- MODULE ModelManage ----------------------------
(***************************************************************************)
(* /model-manage (model-manage/index.ts): in every pi process a user goes  *)
(* through dialogs that add, edit or delete a provider in models.json,     *)
(* which all processes and its other writers share.                        *)
(*                                                                         *)
(* An entry is reduced to what the merge of a save tells apart: "plain"    *)
(* stands for the fields that every working copy has, and for the          *)
(* properties of its models; headers may be cleared; "extra" stands for    *)
(* the fields that the dialogs do not know; models are their ids.  What a  *)
(* user may type and is asked for again is left out, and so is the         *)
(* read-only view.                                                         *)
(***************************************************************************)
EXTENDS Integers, Sequences, FiniteSets, SequencesExt

CONSTANTS
  Processes, Providers, Models,
  Values,     \* what the fields that every working copy has may hold
  Upstream,   \* the models an upstream may name
  MaxModels,  \* bound: models of a provider
  MaxFlows,   \* bound: times that a user goes through dialogs
  Overlaps,   \* whether two processes may write the file at the same time
  None

ManageConstants ==
  /\ {MaxModels, MaxFlows} \subseteq Nat /\ Upstream \subseteq Models /\ Overlaps \in BOOLEAN

VARIABLES
  modelsFile,  \* models.json: a function of providers, or None
  procs,       \* for each process the dialog it shows and what that works on
  flows        \* how often users went through dialogs

manageVars == <<modelsFile, procs, flows>>

Entries ==
  [plain : Values, headers : {None, "h"}, extra : {None, "x"}, models : SeqOf(Models, MaxModels)]
Draft == [plain |-> CHOOSE v \in Values : TRUE, headers |-> None, extra |-> None, models |-> <<>>]

\* readModelsFile: a file that is missing has no providers.
Read(f) == IF f = None THEN [i \in {} |-> Draft] ELSE f
Menu == [flow |-> None, pc |-> "menu", seen |-> {}, picked |-> None, working |-> Draft,
         wanted |-> None, kept |-> None]
At(p, pc) == procs[p].pc = pc
Goes(p, pc) == procs' = [procs EXCEPT ![p].pc = pc]
Leaves(p) == procs' = [procs EXCEPT ![p] = Menu]
Keeps == UNCHANGED <<modelsFile, flows>>

\* validateProvider, as far as models go.
Valid(entry) == entry.models # <<>>

\* The main menu and the first dialogs of a flow, which reads the file: a new
\* id, or one that is picked from those of the file.
Begins(p, flow, pc, i, entry) ==
  /\ At(p, "menu") /\ flows < MaxFlows /\ flows' = flows + 1
  /\ procs' = [procs EXCEPT ![p] =
                 [Menu EXCEPT !.flow = flow, !.pc = pc, !.seen = DOMAIN Read(modelsFile),
                              !.picked = i, !.working = entry]]
  /\ UNCHANGED modelsFile

Add(p, i)    == i \notin DOMAIN Read(modelsFile) /\ Begins(p, "add", "models", i, Draft)
Edit(p, i)   == i \in DOMAIN Read(modelsFile) /\ Begins(p, "edit", "fields", i, modelsFile[i])
Delete(p, i) == i \in DOMAIN Read(modelsFile) /\ Begins(p, "delete", "confirm", i, modelsFile[i])

\* The sub-menu of the fields of a provider.
Field(p) ==
  /\ At(p, "fields")
  /\ \/ \E v \in Values : procs' = [procs EXCEPT ![p].working.plain = v]
     \/ \E h \in {None, "h"} : procs' = [procs EXCEPT ![p].working.headers = h]
     \/ Goes(p, "models")
     \/ Leaves(p)
  /\ Keeps

-----------------------------------------------------------------------------
(* The editor of models, which works on the list of the working copy.      *)

WithModels(p, models) == procs' = [procs EXCEPT ![p].working.models = models]

\* addModelToList, and a model that is chosen from those of the upstream.
AddModel(p, m) ==
  LET models == procs[p].working.models
  IN  /\ At(p, "models") /\ Len(models) < MaxModels
      /\ ~Contains(models, m) /\ WithModels(p, Append(models, m))
      /\ Keeps

\* fetchAndFillUpstreamModels: those that are not in the list yet.
FillAll(p) ==
  LET models == procs[p].working.models
      new    == {m \in Upstream : ~Contains(models, m)}
  IN  /\ At(p, "models") /\ Len(models) + Cardinality(new) <= MaxModels
      /\ WithModels(p, models \o SetToSeq(new)) /\ Keeps

\* editModelId
RenameModel(p, k, m) ==
  /\ At(p, "models") /\ k \in DOMAIN procs[p].working.models
  /\ ~Contains(procs[p].working.models, m)
  /\ WithModels(p, [procs[p].working.models EXCEPT ![k] = m])
  /\ Keeps

\* The last one stays.
DeleteModel(p, k) ==
  /\ At(p, "models") /\ k \in DOMAIN procs[p].working.models
  /\ Len(procs[p].working.models) > 1
  /\ WithModels(p, RemoveAt(procs[p].working.models, k))
  /\ Keeps

\* editModelProperties: other properties of a model.
SetProperty(p) ==
  /\ At(p, "models") /\ procs[p].working.models # <<>>
  /\ \E v \in Values : procs' = [procs EXCEPT ![p].working.plain = v]
  /\ Keeps

\* The editor ends.  Escape gives up what is added, but leaves the models of a
\* provider that is edited as they are by then.
ModelsDone(p) ==
  /\ At(p, "models") /\ procs[p].working.models # <<>>
  /\ Goes(p, IF procs[p].flow = "add" THEN "confirm" ELSE "fields") /\ Keeps

ModelsCancelled(p) ==
  /\ At(p, "models")
  /\ IF procs[p].flow = "add" THEN Leaves(p) ELSE Goes(p, "fields")
  /\ Keeps

-----------------------------------------------------------------------------
(* Saving.                                                                 *)

Writing == {p \in Processes : procs[p].pc \in {"copying", "writing"}}

Declines(p) == At(p, "confirm") /\ Leaves(p) /\ Keeps

\* { ...fresh, ...working }
Merged(entry, working) ==
  [working EXCEPT !.headers = IF @ = None THEN entry.headers ELSE @,
                  !.extra   = IF @ = None THEN entry.extra ELSE @]

\* The file as the flow of process p wants it, from the fresh one.
Wanted(p, now) ==
  LET i == procs[p].picked
  IN  CASE procs[p].flow = "add" ->
             [j \in DOMAIN now \cup {i} |-> IF j = i THEN procs[p].working ELSE now[j]]
        [] procs[p].flow = "edit" -> [now EXCEPT ![i] = Merged(@, procs[p].working)]
        [] procs[p].flow = "delete" -> [j \in DOMAIN now \ {i} |-> now[j]]

\* Mutation of Fits: the file is not looked at again.
FitsBefore(proc, ids) == (proc.picked \in proc.seen) # (proc.flow = "add")

\* What is added is not there, and what is edited or deleted is.
Fits(proc, ids) == (proc.picked \in ids) # (proc.flow = "add")

\* The user confirms, or chooses to save what is valid, and the file is read
\* again.  An id that was added meanwhile begins the dialogs anew, with what
\* was read at their beginning; one that was deleted ends them.
Confirms(p) ==
  LET now  == Read(modelsFile)
      proc == procs[p]
  IN  /\ At(p, "confirm") \/ (At(p, "fields") /\ Valid(proc.working))
      /\ Overlaps \/ Writing = {}
      /\ IF Fits(proc, DOMAIN now)
         THEN procs' = [procs EXCEPT ![p].pc = "copying", ![p].wanted = Wanted(p, now)]
         ELSE IF proc.flow = "add"
         THEN \E i \in Providers \ proc.seen :
                procs' = [procs EXCEPT ![p].pc = "models", ![p].picked = i]
         ELSE Leaves(p)
      /\ Keeps

\* writeModelsFile copies the file, which fails if there is none,
Copies(p) ==
  /\ At(p, "copying")
  /\ \/ modelsFile # None /\ procs' = [procs EXCEPT ![p].pc = "writing", ![p].kept = modelsFile]
     \/ Leaves(p)
  /\ Keeps

\* and renames another one over it, or fails.
Writes(p) ==
  /\ At(p, "writing") /\ modelsFile' = procs[p].wanted
  /\ Leaves(p) /\ UNCHANGED flows

WriteFails(p) == At(p, "writing") /\ Leaves(p) /\ Keeps

\* Someone else adds to an entry a field that the dialogs do not know.
ByHand(i) ==
  /\ i \in DOMAIN Read(modelsFile) /\ modelsFile[i].extra = None /\ (Overlaps \/ Writing = {})
  /\ modelsFile' = [modelsFile EXCEPT ![i].extra = "x"]
  /\ UNCHANGED <<procs, flows>>

\* No file yet, or one with a provider.
Init ==
  /\ modelsFile \in
       {None} \cup [{CHOOSE i \in Providers : TRUE} ->
                     {[Draft EXCEPT !.models = <<m>>] : m \in Upstream}]
  /\ procs = [p \in Processes |-> Menu] /\ flows = 0

Next ==
  \/ \E p \in Processes, i \in Providers : Add(p, i) \/ Edit(p, i) \/ Delete(p, i)
  \/ \E p \in Processes, m \in Models : AddModel(p, m)
  \/ \E p \in Processes, k \in 1..MaxModels :
       DeleteModel(p, k) \/ \E m \in Models : RenameModel(p, k, m)
  \/ \E p \in Processes :
       \/ Field(p) \/ FillAll(p) \/ SetProperty(p) \/ ModelsDone(p) \/ ModelsCancelled(p)
       \/ Confirms(p) \/ Declines(p) \/ Copies(p) \/ Writes(p) \/ WriteFails(p)
  \/ \E i \in Providers : ByHand(i)

Spec == Init /\ [][Next]_manageVars

-----------------------------------------------------------------------------
(* Type invariant.                                                         *)
TypeOK ==
  /\ \A i \in DOMAIN Read(modelsFile) : i \in Providers /\ modelsFile[i] \in Entries
  /\ \A p \in Processes : procs[p].working \in Entries

(* Every provider of the file has a model at least, and none twice,        *)
(* whatever its users went through (index.ts:402).                         *)
ModelsListed ==
  \A i \in DOMAIN Read(modelsFile) :
    modelsFile[i].models # <<>> /\ IsInjective(modelsFile[i].models)

\* The step is the write of process p.
Written(p) == At(p, "writing") /\ procs'[p] = Menu /\ modelsFile' # modelsFile

(* A write of one process changes one provider, however long ago its       *)
(* dialogs have read the file: the other providers stay as others left     *)
(* them, an edit does not bring back a provider that was deleted, an       *)
(* addition does not replace one of the same id (index.ts:1049, :1193),    *)
(* and a provider that is edited does not lose a field that the dialogs do *)
(* not know.  Its known fields, headers and models become those of the     *)
(* dialogs, whatever others wrote there meanwhile (index.ts:1075, :1198).  *)
OthersKept ==
  [][\A p \in Processes : Written(p) =>
       LET i == procs[p].picked
       IN  /\ \A j \in Providers \ {i} :
                /\ j \in DOMAIN modelsFile' <=> j \in DOMAIN modelsFile
                /\ j \in DOMAIN modelsFile' => modelsFile'[j] = modelsFile[j]
           /\ i \in DOMAIN modelsFile <=> procs[p].flow # "add"
           /\ procs[p].flow = "edit" /\ modelsFile[i].extra # None
                => modelsFile'[i].extra # None]_manageVars

(* The file that a write replaces is the one that was copied before        *)
(* (index.ts:122).                                                         *)
ReplacedIsKept == [][\A p \in Processes : Written(p) => procs[p].kept = modelsFile]_manageVars

=============================================================================
