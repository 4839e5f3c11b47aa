-------------------------- MODULE PluginQueueProps --------------------------
(***************************************************************************)
(* The properties of the plugin's queues and workers.                      *)
(***************************************************************************)
EXTENDS PluginQueue

Verdicts == Settled \cup {"expired"}

(* Type invariant: a queue holds jobs of its own alias, no more than the   *)
(* limit and none of them twice or beside the active one.                  *)
TypeOK ==
  /\ plugin \in {"up", "ending", "ended"}
  /\ Len(jobs) <= MaxJobs /\ Len(ctl) = Len(jobs)
  /\ \A j \in Ids : jobs[j].alias \in Aliases /\ ToSet(jobs[j].told) \subseteq Verdicts
  /\ \A a \in Aliases :
       /\ ToSet(queues[a]) \subseteq OfAlias(a) \ {active[a]}
       /\ IsInjective(queues[a]) /\ Len(queues[a]) <= MaxPerAlias
       /\ active[a] \in OfAlias(a) \cup {None}
       /\ workers[a] # None => workers[a].tell \subseteq Ids /\ workers[a].attempts < MaxRetries
  /\ known \subseteq Ids /\ sweep \subseteq Ids
  /\ \A p \in posts : p.job \in Ids

(* The slot of an alias is never leaked: the active job is the one its     *)
(* worker is on, through failures, timeouts and expired jobs, or the alias *)
(* would be stuck for ever (main.py:472).                                  *)
ActiveHasWorker ==
  plugin = "up" =>
    \A a \in Aliases : active[a] = IF workers[a] = None THEN None ELSE workers[a].job

(* The user gets at most one verdict on a job, whoever expires, cancels or *)
(* runs it, and none while it is still waiting.                            *)
OneVerdict ==
  \A j \in Ids : Len(jobs[j].told) <= 1 /\ (jobs[j].told # <<>> => j \notin Waiting)

(* The ids that are taken are those of the jobs that a cancel could name:  *)
(* waiting and active ones (_known_ids).                                   *)
KnownExact == known = Waiting \cup ({active[a] : a \in Aliases} \ {None})

(* A job that was cancelled or expired in the queue never comes to the     *)
(* controller, whatever the worker and the sweeper do at the same time.    *)
DroppedNeverRuns ==
  \A j \in Ids :
    plugin = "up" /\ (jobs[j].cancel \/ jobs[j].told = <<"expired">>)
      => ctl[j] = None /\ \A p \in posts : p.job # j

(* The prompt is still there whenever a submission is sent, the retries of *)
(* one whose answer was lost included (release_input).                     *)
SubmitsHaveInput == \A p \in posts : p.input

(* The queues, the ids that are taken, the workers and their calls agree.  *)
QueuesSound == TypeOK /\ KnownExact /\ ActiveHasWorker /\ SubmitsHaveInput

(* What the user is told of a job is final: told once, and not run after   *)
(* it was told to be expired or cancelled.                                 *)
VerdictsFinal == OneVerdict /\ DroppedNeverRuns

(* Every job that was queued is answered in the end unless the plugin is   *)
(* terminated: by its result, or because it is cancelled, fails, or        *)
(* expires in a queue that no worker serves any more.                      *)
Answered ==
  \A j \in 1..MaxJobs :
    (j \in Ids) ~> (plugin # "up" \/ (j \in Ids /\ jobs[j].told # <<>>))

-----------------------------------------------------------------------------
(* What the repository says and the code does not keep.                    *)

(* The command /pi cancel cancels jobs that have not begun                 *)
(* (docs/qq-bridge.md:51).                                                 *)
CancelSparesStarted ==
  [][CancelReaches => \A j \in Ids : ctl[j] = "running" => ctl'[j] = "running"]_vars

=============================================================================
