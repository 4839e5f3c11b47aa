-------------------------- MODULE JobDeliveryProps --------------------------
(***************************************************************************)
(* The properties of job delivery.                                         *)
(***************************************************************************)
EXTENDS JobDelivery

(* Type invariant: calls, controls and the ActiveJob are well formed, a    *)
(* registered waiter belongs to a waiting poll, and nothing of the TUI     *)
(* outlives it.                                                            *)
TypeOK ==
  /\ live \in BOOLEAN /\ up \in BOOLEAN /\ starts \in 1..MaxStarts
  /\ controlCount \in 0..MaxControls /\ faults \in 0..MaxFaults /\ typed \in 0..MaxLocal
  /\ control # None => control.n \in 1..controlCount /\ control.id \in 0..sequence
  /\ waiter # None => waiter \in Slots /\ InPhase(waiter, "waiting")
  /\ \A s \in Slots : calls[s] # None =>
       /\ calls[s].op \in {"poll", "ack", "result", "fail", "controlAck"}
       /\ calls[s].phase \in {"sent", "waiting", "woken"} \cup (IF s[2] = 0 THEN {"answered"} ELSE {})
       /\ s[1] = "event" => calls[s].op \in {"result", "fail"}
  /\ active # None =>
       /\ active.id \in Store!Ids /\ active.lease \in 1..leaseCount
       /\ active.dispatched \in {"no", "yes", "overdue"}
  /\ injecting \in 0..sequence
  /\ prompted \in [Jobs -> Nat]
  /\ ~up => active = None /\ inbox = <<>> /\ ~streaming

(* A job that can still be handed to a TUI was never put to an agent: a    *)
(* lease that comes back, from its timer or a stopped session, comes back  *)
(* before the prompt left the extension (server.mjs:702, index.ts:283).    *)
NoReplay ==
  \A i \in Store!Ids : jobs[i].status \in {"queued", "leased"} => prompted[i] = 0

(* A job's prompt enters a session at most once, over one lost call, one   *)
(* reload of the extension that resumes a running job, or one restart of   *)
(* the TUI (hasUserAfterMarker in acceptJob and inspectActiveWhenIdle).    *)
PromptedOnce == faults <= 1 => \A i \in Jobs : prompted[i] <= 1

(* No job of a stopped session is left running: nobody would ever settle   *)
(* it (markStopped fails the running job it finds).  Two faults leave one: *)
(* after a reload two jobs may run, of which the end of the TUI fails one. *)
StoppedHasNoRunning == ~live /\ faults <= 1 => Running = {}

(* A poll that said ready is never answered with a job after the extension *)
(* has taken up another one, so acceptJob never has to refuse a lease as   *)
(* extension-busy (index.ts:345).                                          *)
FreeWhenReady ==
  InPhase(Loop, "answered") /\ calls[Loop].reply.kind = "job" => active = None

(* The two ends agree on the session: its state is well formed, one fault  *)
(* leaves no running job with a stopped session, and a ready extension is  *)
(* free.                                                                   *)
SessionAgrees == TypeOK /\ StoppedHasNoRunning /\ FreeWhenReady

(* While nothing is lost, the poll loop and the agent_settled handler      *)
(* never have reports of the same job under way.  postingTerminal keeps    *)
(* them apart for one ActiveJob only: a job that is acknowledged in vain   *)
(* is cleared under the report of the handler, and when it is resumed its  *)
(* new object is reported beside that one.  Without a fault only a job     *)
(* that was cancelled is, and it does not come back.                       *)
Reporting(slot) == calls[slot] # None /\ calls[slot].op \in {"result", "fail"}
OnePostAtATime ==
  faults = 0 /\ Reporting(Loop) /\ Reporting(Event) => calls[Loop].id # calls[Event].id


(* While nothing was lost or reloaded, an abort that names one job never   *)
(* reaches the extension while it has another one: handleControl would     *)
(* abort the agent's work on that one, which the abort does not name.      *)
NoStrayAbort ==
  /\ faults = 0
  /\ InPhase(Loop, "answered") /\ calls[Loop].reply.kind = "control"
  /\ active # None
  => calls[Loop].reply.id \in {0, active.id}

(* Once an abort or the local user has interrupted a job, or its outcome   *)
(* is decided, its prompt is not handed to pi any more, nor is it a second *)
(* time over one fault (dispatchActive and its callers).                   *)
HandedOver == {inbox[k].who : k \in DOMAIN inbox}
HandedOverOnce ==
  [][\A i \in Jobs : i \in HandedOver' \ HandedOver =>
       /\ faults <= 1 => prompted[i] = 0
       /\ active # None /\ active.id = i => ~active.interrupted /\ active.terminal = None]_vars

(* When the extension decides on the result of a job whose own prompt was  *)
(* put to the agent, and does not flag it as interrupted, the text is the  *)
(* answer to that prompt, whatever the local user typed in between and     *)
(* whichever flags one reload has lost (harvestResult, message_end).       *)
Outcome(job) == IF job = None THEN None ELSE job.terminal
OwnAnswer ==
  [][LET outcome == Outcome(active')
     IN  faults <= 1 /\ outcome # Outcome(active) /\ outcome # None /\ prompted[active'.id] > 0
         => (outcome.op = "result" /\ ~outcome.interrupted => outcome.text = active'.id)]_active

(* The controller and the extension together keep the promise of the job   *)
(* life cycle: a job is decided at most once and its verdict stands,       *)
(* whichever of the result, the failure, the cancellation, the watchdog    *)
(* and the end of the session comes first.                                 *)
SettledIds == {i \in Store!Ids : jobs[i].status \in Store!Terminal}
Life == INSTANCE JobLifecycle WITH
  Numbers <- Jobs,
  Verdicts <- [status : Store!Terminal, text : Jobs \cup {Local, Nothing, None},
               interrupted : BOOLEAN, code : Codes \cup {None}],
  accepted <- 1..sequence,
  verdict <- [i \in SettledIds |->
                [status |-> jobs[i].status, text |-> jobs[i].resultText,
                 interrupted |-> jobs[i].interrupted, code |-> jobs[i].errorCode]],
  forgotten <- {}
Lifecycle == Life!Spec

(* A job is handed to the agent once and decided once.                     *)
DecidedOnce == HandedOverOnce /\ Lifecycle

(* Every job the controller holds for a live session is settled or its     *)
(* session stops: lost calls, dead polls that took a lease, reloads and    *)
(* aborts delay it but never leave it behind.                              *)
Settles == \A i \in Jobs : i \in Store!Ids /\ live ~> ~live \/ i \in SettledIds

-----------------------------------------------------------------------------
(* What the repository says and the code does not keep.                    *)

(* The jobs of one alias are handled serially (docs/qq-bridge.md:38).      *)
OneRunning == \A i, j \in Running : i = j

(* A job that is reported as completed, and not as interrupted, carries    *)
(* the answer to its own prompt and not that of an older job: the marker   *)
(* "prevents an old answer from being reused" (core.test.ts:161).          *)
NoOldAnswer ==
  \A i \in Store!Ids :
    jobs[i].status = "completed" /\ ~jobs[i].interrupted => jobs[i].resultText \notin Jobs \ {i}

(* Nor does it carry the answer to what the local user typed: a local      *)
(* message "marks interruption" (core.test.ts:128).                        *)
NoLocalAnswer ==
  \A i \in Store!Ids :
    jobs[i].status = "completed" /\ ~jobs[i].interrupted => jobs[i].resultText # Local

=============================================================================
