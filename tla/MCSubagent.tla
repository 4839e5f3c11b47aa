----------------------------- MODULE MCSubagent -----------------------------
(***************************************************************************)
(* Instances of SubagentRuns for TLC.                                      *)
(***************************************************************************)
EXTENDS SubagentProps, TLC

CONSTANTS c1, c2, c3

OneCall    == {c1}
TwoCalls   == {c1, c2}
ThreeCalls == {c1, c2, c3}

Repo == <<"repo">>
Src  == <<"repo", "src">>
Docs == <<"repo", "docs">>
Other == <<"other">>
Root == <<>>

Chain(tasks) == [mode |-> "chain", tasks |-> tasks]
Pool(tasks)  == [mode |-> "parallel", tasks |-> tasks]

\* Overlaps of every kind, a read-only task, more tasks than places.
Plans1 == {Pool(<<{Src}, {Repo}, {Docs}, {}>>), Pool(<<{Src, Other}, {Docs}, {Other}>>),
           Chain(<<{Repo}, {Repo}>>), Chain(<<{Src}>>)}
Single == {Chain(<<{Repo}>>)}
Rooted == {Pool(<<{Root}, {Src}>>)}

=============================================================================
