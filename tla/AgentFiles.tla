----------------------------- MODULE AgentFiles -----------------------------
(***************************************************************************)
(* The agents that a subagent call can name (subagent/agents.ts), and the  *)
(* settings that /subagent-model changes (subagent/index.ts).              *)
(*                                                                         *)
(* A file is the lines between the two fences of its frontmatter, each a   *)
(* key and a value, and whether the second fence stands on a line of its   *)
(* own, as it must; the text after it is left out.                         *)
(***************************************************************************)
EXTENDS Integers, Sequences, SequencesExt, FiniteSetsExt

CONSTANTS None

Line(key, value) == [key |-> key, value |-> value]
AgentFile(lines) == [lines |-> lines, closed |-> TRUE]

\* parseFrontmatter, of pi: the line with the key; no key stands twice.
Value(file, key) ==
  LET found == {k \in DOMAIN file.lines : file.lines[k].key = key}
  IN  IF ~file.closed \/ found = {} THEN None ELSE file.lines[Max(found)].value

Loadable(file) == Value(file, "name") # None /\ Value(file, "description") # None

\* loadAgentsFromDir: files that are no agents are passed over.
Agent(file, source) ==
  [name |-> Value(file, "name"), model |-> Value(file, "model"),
   tools |-> Value(file, "tools"), source |-> source]
LoadAgentsFromDir(files, source) ==
  LET agents == SelectSeq(files, Loadable)
  IN  [k \in DOMAIN agents |-> Agent(agents[k], source)]

\* findNearestProjectAgentsDir: which of the directories from the root to the
\* working directory is the last that has one of agents, 0 for none.
NearestAgentsDir(dirs) ==
  LET has == {k \in DOMAIN dirs : dirs[k] # None} IN IF has = {} THEN 0 ELSE Max(has)

\* Map.set: a name keeps its place and takes the new value.
With(agents, agent) ==
  LET same == {k \in DOMAIN agents : agents[k].name = agent.name}
  IN  IF same = {} THEN Append(agents, agent)
      ELSE [k \in DOMAIN agents |-> IF k \in same THEN agent ELSE agents[k]]

\* Mutation of DiscoverAgents: those of the user come last.
DiscoverUserLast(user, dirs, scope) ==
  LET nearest == NearestAgentsDir(dirs)
      ours    == IF scope = "project" THEN <<>> ELSE LoadAgentsFromDir(user, "user")
      theirs  == IF scope = "user" \/ nearest = 0 THEN <<>>
                 ELSE LoadAgentsFromDir(dirs[nearest], "project")
  IN  FoldLeft(With, <<>>, theirs \o ours)

DiscoverAgents(user, dirs, scope) ==
  LET nearest == NearestAgentsDir(dirs)
      ours    == IF scope = "project" THEN <<>> ELSE LoadAgentsFromDir(user, "user")
      theirs  == IF scope = "user" \/ nearest = 0 THEN <<>>
                 ELSE LoadAgentsFromDir(dirs[nearest], "project")
  IN  FoldLeft(With, <<>>, ours \o theirs)

-----------------------------------------------------------------------------
(* Settings.                                                               *)

\* setFrontmatterModel.  Without a model, the fence follows a line break; with
\* one it follows the last line at once, unless the model was appended there.
Keys(lines) == {lines[k].key : k \in DOMAIN lines}
First(lines, key) == Min({k \in DOMAIN lines : lines[k].key = key})

SetFrontmatterModel(file, model) ==
  CASE ~file.closed -> file
    [] model = None ->
         AgentFile(IF "model" \in Keys(file.lines)
                   THEN RemoveAt(file.lines, First(file.lines, "model")) ELSE file.lines)
    [] model # None /\ "model" \in Keys(file.lines) ->
         [lines  |-> ReplaceAt(file.lines, First(file.lines, "model"), Line("model", model)),
          closed |-> FALSE]
    [] model # None /\ "model" \notin Keys(file.lines) /\ "description" \in Keys(file.lines) ->
         [lines  |-> InsertAt(file.lines, First(file.lines, "description") + 1, Line("model", model)),
          closed |-> FALSE]
    [] OTHER -> AgentFile(Append(file.lines, Line("model", model)))

\* writeDefaultModel and readDefaultModel: the whole of subagent-config.json.
WriteDefaultModel(settings, model) == [s \in {"defaultModel"} |-> model]
ReadDefaultModel(settings) ==
  IF "defaultModel" \in DOMAIN settings THEN settings["defaultModel"] ELSE None

\* The model that an agent runs with: of the session, its own, or the default.
EffectiveModel(override, agent, settings) ==
  CASE override # None -> override
    [] agent.model # None -> agent.model
    [] OTHER -> ReadDefaultModel(settings)

=============================================================================
