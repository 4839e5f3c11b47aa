---------------------------- MODULE JobDelivery ----------------------------
(***************************************************************************)
(* How the jobs of one alias travel between the controller                 *)
(* (controller/server.mjs) and the bridge extension inside the TUI         *)
(* (tui-extension/index.ts): long polls, leases and their timers,          *)
(* acknowledgements, abort controls, results, the watchdog, and the end    *)
(* and the restart of a session, over HTTP calls that can fail.            *)
(*                                                                         *)
(* The controller runs one handler at a time, up to its await.  The        *)
(* extension is one thread too, with two activities that await calls: its  *)
(* poll loop ("loop") and the agent_settled handler ("event").  A call     *)
(* whose caller gave up may still reach the controller later.  Prompts and *)
(* answers are abstracted to whom they come from: a job, by its sequence   *)
(* number, or the local user at the terminal.                              *)
(***************************************************************************)
EXTENDS Integers, Sequences, FiniteSetsExt, SequencesExt

CONSTANTS
  Requests, Inputs, None, MaxJobsPerAlias, MaxSequence, MaxLeases,  \* as in JobStore
  Alias,        \* the alias of this session
  Local,        \* the user at the terminal, as the author of a prompt
  Nothing,      \* the empty result text
  MaxAttempts,  \* MAX_TERMINAL_ATTEMPTS
  MaxFaults,    \* bound: lost calls, early timers, watchdog alarms, reloads
  MaxControls,  \* bound: abort controls
  MaxLocal,     \* bound: prompts typed at the terminal
  MaxStarts     \* bound: times the TUI is started

ASSUME BoundsAssumption ==
  /\ {MaxAttempts, MaxStarts} \subseteq Nat \ {0}
  /\ {MaxJobsPerAlias, MaxSequence, MaxLeases} \subseteq Nat
  /\ {MaxFaults, MaxControls, MaxLocal} \subseteq Nat

Codes == {"assistant-error", "missing-assistant-result", "dispatch-timeout", "extension-busy",
          "result-too-large", "terminal-report-failed", "session-ended", "extension-unresponsive"}

\* None is no value that stands beside it: no call, no outcome or job of the
\* extension, no segment of the session.
ASSUME NoneAssumption ==
  LET authors  == (1..MaxSequence) \cup {Local}
      outcomes == [op : {"result"}, text : authors \cup {Nothing}, interrupted : BOOLEAN]
                  \cup [op : {"fail"}, code : Codes]
      replies  == [kind : {"ok", "idle", "conflict", "tooLarge", "error"}]
                  \cup [kind : {"control"}, n : Nat, id : Nat]
                  \cup [kind : {"job", "resume"}, id : Nat, lease : Nat]
      posts    == [op : {"poll", "ack", "result", "fail", "controlAck"}, id : Nat, lease : Nat,
                   data : BOOLEAN \cup outcomes \cup Nat \cup {None}, start : Nat,
                   phase : {"sent", "waiting", "woken", "answered"}, reply : replies \cup {None}]
      actives  == [id : Nat, lease : Nat, acknowledged : BOOLEAN, dispatched : {"no", "yes", "overdue"},
                   observed : BOOLEAN, sent : BOOLEAN, interrupted : BOOLEAN, attempts : Nat,
                   terminal : outcomes \cup {None}, posting : {"no", "loop", "event"}]
      segs     == [user : BOOLEAN, text : authors \cup {None}, stop : {"stop", "error", "aborted", None},
                   cut : BOOLEAN]
  IN  None \notin authors \cup {Nothing} \cup Inputs \cup outcomes \cup posts \cup actives \cup segs

\* The local user is not a job.
ASSUME LocalAssumption == Local \notin 1..MaxSequence

VARIABLES
  jobs, requestIds, sequence, leaseCount, now,   \* the controller's job store
  live,         \* the registry's record of the alias has a live status
  control,      \* controls.get(sessionId)
  controlCount, \* the controls created
  waiter,       \* the call whose waiter pollWaiters holds
  calls,        \* the HTTP calls under way
  up, starts,   \* the TUI process is there; how often it was started
  pc,           \* where the poll loop goes on once its call is answered
  handling,     \* the control the loop is about to acknowledge, 0 for none
  active,       \* the extension's ActiveJob
  injecting,    \* injectingJobId
  segments,     \* the session's entries: what follows each job's last marker
  turn,         \* whose prompt the agent works on
  streaming,    \* the agent is at work: not isIdle()
  inbox,        \* prompts on their way into the session
  typed,        \* prompts the local user has typed
  prompted,     \* history: how often each job's prompt entered a session
  faults        \* faults so far

Store == INSTANCE JobStore WITH
  Aliases <- {Alias}, Results <- 1..MaxSequence \cup {Local, Nothing},
  TtlMs <- 0, MaxTime <- 0

H == INSTANCE Harvest

store   == <<jobs, requestIds, sequence, leaseCount, now>>
server  == <<live, control, controlCount>>
network == <<waiter, calls>>
agent   == <<segments, turn, streaming, inbox, typed, prompted>>
bridge  == <<pc, handling, active, injecting>>
process == <<up, starts>>
vars == <<store, server, network, agent, bridge, process, faults>>

NoFault == UNCHANGED faults
Fault   == faults < MaxFaults /\ faults' = faults + 1

-----------------------------------------------------------------------------
(* Calls.  The call an activity awaits is in slot <<activity, 0>>; when the *)
(* activity gives it up it moves to a slot of its own, <<activity, n>> for  *)
(* the n-th fault, and its answer goes nowhere.                            *)

Slots == {"loop", "event"} \X (0..MaxFaults)
Loop  == <<"loop", 0>>
Event == <<"event", 0>>

\* phase: "sent", "waiting" in a poll, "woken" from it, "answered".
Call(op, job, data) ==
  [op |-> op, id |-> job.id, lease |-> job.lease, data |-> data,
   start |-> starts, phase |-> "sent", reply |-> None]
Sending(slot, op, job, data) == [calls EXCEPT ![slot] = Call(op, job, data)]
NoJob == [id |-> 0, lease |-> 0]

Replied(slot, reply) ==
  [calls EXCEPT ![slot] =
     IF slot[2] = 0 THEN [@ EXCEPT !.phase = "answered", !.reply = reply] ELSE None]
InPhase(slot, phase) == calls[slot] # None /\ calls[slot].phase = phase

Ok       == [kind |-> "ok"]
Idle     == [kind |-> "idle"]
Conflict == [kind |-> "conflict"]  \* 409 lease-mismatch
TooLarge == [kind |-> "tooLarge"]  \* 413
Failure  == [kind |-> "error"]     \* any other error, or no answer at all
Carrying(kind, i, lease) == [kind |-> kind, id |-> i, lease |-> lease]

\* Nothing else of the controller runs before a woken poll has gone on.
Quiet == \A s \in Slots : ~InPhase(s, "woken")

\* wakePoll: the registered waiter resumes, and is registered no more.
WakePoll ==
  /\ waiter' = None
  /\ calls' = IF waiter = None THEN calls ELSE [calls EXCEPT ![waiter].phase = "woken"]

-----------------------------------------------------------------------------
(* The session's entries, one segment for each job (see Harvest).          *)

Jobs == 1..MaxSequence
Marking(i)            == [segments EXCEPT ![i] = H!Marked]
Recording(segs)       == [i \in Jobs |-> H!WithUser(segs[i])]
Answering(who, stop)  == [i \in Jobs |-> H!WithAnswer(segments[i], who, stop)]

\* Mutation of HasUserAfterMarker: a prompt counts once it is answered.
HasAnswerAfterMarker(i) == segments[i] # None /\ segments[i].text # None

HasUserAfterMarker(i) == H!SegmentHasUser(segments[i])
HarvestResult(i)      == H!SegmentResult(segments[i])

-----------------------------------------------------------------------------
(* The controller's handlers.                                              *)

ControllerStep == Quiet /\ UNCHANGED <<agent, bridge, process>>

\* getActive: the oldest active job.
Running == {i \in Store!ActiveOf(Alias) : jobs[i].status = "running"}
IsActive(i) == Store!IsOldest(i, Store!ActiveOf(Alias))

\* authenticateInternal: the token is the one of the current TUI.
Authentic(slot) == live /\ calls[slot].start = starts

\* A request of route op that has arrived and is let in.
Arrived(slot, op) ==
  /\ InPhase(slot, "sent")
  /\ calls[slot].op = op
  /\ Authentic(slot)
  /\ ControllerStep /\ NoFault

Refuse(slot) ==
  /\ InPhase(slot, "sent")
  /\ ~Authentic(slot)
  /\ calls' = Replied(slot, Failure)
  /\ ControllerStep /\ NoFault
  /\ UNCHANGED <<store, server, waiter>>

\* Mutation of ControlDue: an idle extension gets a job before a control.
ControlDueUnlessReady(slot) == control # None /\ ~calls[slot].data

\* A control goes before any job.
ControlDue(slot) == control # None

\* Mutation of Resumable: running jobs are not offered again.
ResumableNever(slot) == {}

Resumable(slot) == {i \in Running : IsActive(i) /\ i # calls[slot].id}

\* waitForPoll: deliver() when the poll arrives and once more when it is
\* woken or its time is over; in between the poll waits, and its waiter
\* replaces whichever the session had.
Poll(slot) ==
  /\ \/ Arrived(slot, "poll")
     \/ InPhase(slot, "woken") /\ UNCHANGED <<agent, bridge, process, faults>>
  /\ \/ /\ ControlDue(slot)
        /\ calls' = Replied(slot, control)
        /\ UNCHANGED <<store, waiter>>
     \/ /\ ~ControlDue(slot)
        /\ \E i \in Resumable(slot) : calls' = Replied(slot, Carrying("resume", i, jobs[i].leaseId))
        /\ UNCHANGED <<store, waiter>>
     \/ /\ ~ControlDue(slot) /\ Resumable(slot) = {} /\ calls[slot].data
        /\ Store!LeaseNext(Alias)
        /\ calls' = Replied(slot, Carrying("job", Min(Store!Queued(Alias)), leaseCount'))
        /\ UNCHANGED waiter
     \/ /\ ~ControlDue(slot) /\ Resumable(slot) = {} /\ (calls[slot].data => Store!Queued(Alias) = {})
        /\ IF InPhase(slot, "sent")
             THEN calls' = [calls EXCEPT ![slot].phase = "waiting"] /\ waiter' = slot
             ELSE calls' = Replied(slot, Idle) /\ UNCHANGED waiter
        /\ UNCHANGED store
  /\ UNCHANGED server

\* Mutation of PollExpires: the waiter stays registered.
PollExpiresRegistered(slot) ==
  /\ InPhase(slot, "waiting")
  /\ calls' = [calls EXCEPT ![slot].phase = "woken"]
  /\ ControllerStep /\ NoFault
  /\ UNCHANGED <<store, server, waiter>>

\* internalPollMs is over: finish() takes away whatever waiter the session
\* has by now.
PollExpires(slot) ==
  /\ InPhase(slot, "waiting")
  /\ calls' = [calls EXCEPT ![slot].phase = "woken"]
  /\ waiter' = None
  /\ ControllerStep /\ NoFault
  /\ UNCHANGED <<store, server>>

\* POST /internal/job/ack.
Ack(slot) ==
  LET i == calls[slot].id  l == calls[slot].lease
  IN  /\ Arrived(slot, "ack")
      /\ calls' = Replied(slot, IF jobs[i].leaseId = l THEN Ok ELSE Conflict)
      /\ IF jobs[i].leaseId = l /\ jobs[i].status = "leased"
           THEN Store!Acknowledge(i, l) ELSE UNCHANGED store
      /\ UNCHANGED <<server, waiter>>

\* POST /internal/job/result.
Result(slot) ==
  LET i == calls[slot].id  l == calls[slot].lease  d == calls[slot].data
  IN  /\ Arrived(slot, "result")
      /\ \/ Store!Complete(i, l, d.text, d.interrupted) /\ calls' = Replied(slot, Ok)
         \/ /\ jobs[i].status # "running" \/ jobs[i].leaseId # l
            /\ calls' = Replied(slot, Conflict) /\ UNCHANGED store
      /\ UNCHANGED <<server, waiter>>

\* readJson of a result longer than maxBodyBytes.
Oversized(slot) ==
  /\ InPhase(slot, "sent") /\ calls[slot].op = "result"
  /\ calls' = Replied(slot, TooLarge)
  /\ ControllerStep /\ Fault
  /\ UNCHANGED <<store, server, waiter>>

\* POST /internal/job/fail: a settled job is left as it is, without an error.
FailReport(slot) ==
  LET i == calls[slot].id  l == calls[slot].lease
      conflict == jobs[i].status \in Store!Active /\ jobs[i].leaseId # l
  IN  /\ Arrived(slot, "fail")
      /\ calls' = Replied(slot, IF conflict THEN Conflict ELSE Ok)
      /\ IF conflict \/ jobs[i].status \in Store!Terminal
           THEN UNCHANGED store ELSE Store!Fail(i, calls[slot].data.code, l)
      /\ UNCHANGED <<server, waiter>>

\* POST /internal/control/ack: only the control it names.
ControlAck(slot) ==
  /\ Arrived(slot, "controlAck")
  /\ control' = IF control # None /\ control.n = calls[slot].data THEN None ELSE control
  /\ calls' = Replied(slot, Ok)
  /\ UNCHANGED <<store, live, controlCount, waiter>>

\* The acknowledgement timer of a lease.  It is early when the lease is
\* still on its way to the extension or back.
OnItsWay(i) ==
  /\ calls[Loop] # None
  /\ \/ calls[Loop].op = "ack" /\ calls[Loop].lease = jobs[i].leaseId
     \/ /\ InPhase(Loop, "answered")
        /\ calls[Loop].reply.kind = "job" /\ calls[Loop].reply.lease = jobs[i].leaseId

\* Mutation of LeaseExpires: an acknowledged lease expires too.
LeaseExpiresAlways(i) ==
  /\ jobs[i].status \in Store!Active
  /\ jobs' = [jobs EXCEPT ![i] = Store!AsQueued(@)]
  /\ ControllerStep /\ Fault /\ WakePoll
  /\ UNCHANGED <<requestIds, sequence, leaseCount, now, server>>

LeaseExpires(i) ==
  /\ Store!RequeueLease(i, jobs[i].leaseId)
  /\ IF OnItsWay(i) THEN Fault ELSE NoFault
  /\ ControllerStep /\ WakePoll
  /\ UNCHANGED server

\* The watchdog: heartbeats have stopped.
Watchdog ==
  /\ live
  /\ \E i \in Running : IsActive(i) /\ Store!Fail(i, "extension-unresponsive", jobs[i].leaseId)
  /\ ControllerStep /\ Fault
  /\ UNCHANGED <<server, network>>

\* setControl(abort): a control that is already there stays as it is.
SetControl(i) ==
  IF control # None THEN UNCHANGED <<control, controlCount, network>>
  ELSE /\ controlCount < MaxControls
       /\ controlCount' = controlCount + 1
       /\ control' = [kind |-> "control", n |-> controlCount', id |-> i]
       /\ WakePoll

\* POST /v1/jobs.
Submit(requestId, input) ==
  /\ live
  /\ Store!Submit(requestId, Alias, input)
  /\ WakePoll
  /\ ControllerStep /\ NoFault
  /\ UNCHANGED server

\* POST /v1/jobs/cancel.
Cancel(i) ==
  /\ Store!Cancel(i)
  /\ IF jobs[i].status = "running" THEN SetControl(i) ELSE UNCHANGED <<control, controlCount, network>>
  /\ ControllerStep /\ NoFault
  /\ UNCHANGED live

\* POST /v1/sessions/abort: of the active job, 0 when there is none.
AbortSession ==
  /\ live /\ control = None
  /\ \/ \E i \in Store!ActiveOf(Alias) : IsActive(i) /\ SetControl(i)
     \/ Store!ActiveOf(Alias) = {} /\ SetControl(0)
  /\ ControllerStep /\ NoFault
  /\ UNCHANGED <<store, live>>

\* markStopped, from the exit of the TUI or its POST /internal/end.
MarkStopped ==
  LET requeued == Store!Updated(Store!Leased(Alias), Store!AsQueued)
  IN  /\ live /\ ~up
      /\ live' = FALSE
      /\ control' = None
      /\ WakePoll
      /\ jobs' = IF Running = {} THEN requeued
                 ELSE [requeued EXCEPT ![Min(Running)] = Store!AsFailed(@, "session-ended")]
      /\ ControllerStep /\ NoFault
      /\ UNCHANGED <<requestIds, sequence, leaseCount, now, controlCount>>

\* startSession.
StartSession ==
  /\ ~live /\ ~up
  /\ starts < MaxStarts
  /\ starts' = starts + 1
  /\ live' = TRUE /\ up' = TRUE
  /\ Quiet /\ NoFault
  /\ UNCHANGED <<store, control, controlCount, network, agent, bridge>>

-----------------------------------------------------------------------------
(* The network.                                                            *)

\* The activities give up their calls, which go on without them.
Orphaned(activities) ==
  [s \in Slots |->
     IF s[1] \notin activities THEN calls[s]
     ELSE IF s[2] = 0 THEN None
     ELSE IF s[2] = faults' /\ calls[<<s[1], 0>>] # None /\ ~InPhase(<<s[1], 0>>, "answered")
       THEN calls[<<s[1], 0>>]
     ELSE calls[s]]
Rewaited(activities) ==
  IF waiter # None /\ waiter[2] = 0 /\ waiter[1] \in activities THEN <<waiter[1], faults'>> ELSE waiter

\* An activity gets an error for its call: it was lost, its answer was lost,
\* or it timed out.
CallFails(activity) ==
  LET slot == <<activity, 0>>
  IN  /\ up /\ calls[slot] # None
      /\ Fault
      /\ calls' = [Orphaned({activity}) EXCEPT
                     ![slot] = [calls[slot] EXCEPT !.phase = "answered", !.reply = Failure]]
      /\ waiter' = Rewaited({activity})
      /\ UNCHANGED <<store, server, agent, bridge, process>>

OrphanLost(slot) ==
  /\ slot[2] # 0 /\ InPhase(slot, "sent")
  /\ calls' = [calls EXCEPT ![slot] = None]
  /\ UNCHANGED <<store, server, waiter, agent, bridge, process, faults>>
-----------------------------------------------------------------------------
(* The extension.  Its functions are operators on the ActiveJob.           *)

ResultOf(text, interrupted) == [op |-> "result", text |-> text, interrupted |-> interrupted]
FailOf(code)                == [op |-> "fail", code |-> code]

\* acceptJob: a job whose prompt the session already has counts as sent.
NewActive(reply, acknowledged) ==
  [id |-> reply.id, lease |-> reply.lease, acknowledged |-> acknowledged,
   dispatched |-> "no", observed |-> FALSE, sent |-> HasUserAfterMarker(reply.id),
   interrupted |-> FALSE, attempts |-> 0, terminal |-> None, posting |-> "no"]
MarkUnlessSent(i) ==
  IF HasUserAfterMarker(i) THEN segments ELSE Marking(i)

\* failActive and finishActive, up to their postTerminal.
FailWith(job, code) == [job EXCEPT !.terminal = FailOf(code)]
Finish(job, harvested) ==
  IF job.terminal # None THEN job
  ELSE IF harvested.status = "pending"
    THEN IF job.interrupted THEN [job EXCEPT !.terminal = ResultOf(Nothing, TRUE)] ELSE job
  ELSE IF harvested.status = "error" THEN FailWith(job, "assistant-error")
  ELSE [job EXCEPT !.terminal = ResultOf(harvested.text, harvested.interrupted \/ job.interrupted)]

\* dispatchActive: the prompt is handed to pi.
Dispatchable(job) == job.acknowledged /\ ~job.sent /\ job.dispatched = "no"
Dispatched(job)   == [job EXCEPT !.dispatched = "yes"]
\* What hasPendingMessages() may say: a prompt that pi has not recorded yet
\* may be pending in its queues.
PendingMessages   == {FALSE} \cup (IF inbox = <<>> THEN {} ELSE {TRUE})
HandsOver(job) ==
  /\ injecting' = job.id
  /\ inbox' = Append(inbox, [who |-> job.id, seen |-> FALSE])

\* What inspectActiveWhenIdle makes of a job that it neither dispatches nor
\* finds posted already.
Inspected(job) ==
  LET sent == [job EXCEPT !.sent = TRUE]
      harvested == HarvestResult(job.id)
  IN  IF job.terminal # None THEN job
      ELSE IF HasUserAfterMarker(job.id)
        THEN IF harvested.status # "pending" \/ job.interrupted THEN Finish(sent, harvested)
             ELSE IF job.dispatched # "yes" THEN FailWith(sent, "missing-assistant-result")
             ELSE sent
      ELSE IF job.dispatched = "overdue" THEN FailWith(job, "dispatch-timeout")
      ELSE job

\* Mutation of CanPost: postingTerminal is not looked at.
CanPostAgain(job) == job # None /\ job.terminal # None

\* postTerminal: there is something to post, and no activity posts for this
\* ActiveJob.  postingTerminal is a flag of the object, here with the activity
\* that has set it: a report of an object that was cleared before is not seen.
CanPost(job) == job # None /\ job.terminal # None /\ job.posting = "no"

\* The job with its flag set, and the call that an activity makes for it.
PostedFrom(activity, job) == IF CanPost(job) THEN [job EXCEPT !.posting = activity] ELSE job
Post(slot, job)           == Sending(slot, job.terminal.op, job, job.terminal)
LoopDone                  == [calls EXCEPT ![Loop] = None]

\* job is the active job now, and the loop posts what there is to post.
Report(job) ==
  /\ active' = PostedFrom("loop", job)
  /\ calls' = IF CanPost(job) THEN Post(Loop, job) ELSE LoopDone

\* inspectActiveWhenIdle on job, at the end of a step of the poll loop.
Inspect(job) ==
  IF job = None \/ streaming
    THEN /\ active' = job /\ calls' = LoopDone
         /\ UNCHANGED <<injecting, inbox>>
  ELSE \E pending \in PendingMessages :
    IF job.terminal = None /\ ~HasUserAfterMarker(job.id) /\ Dispatchable(job) /\ ~pending
      THEN /\ active' = Dispatched(job) /\ HandsOver(job)
           /\ calls' = LoopDone
      ELSE Report(Inspected(job)) /\ UNCHANGED <<injecting, inbox>>

LoopStep == up /\ NoFault /\ UNCHANGED <<store, server, process, waiter, turn, streaming, typed, prompted>>
LoopAt(place) == LoopStep /\ calls[Loop] = None /\ pc = place
LoopGets(op) == LoopStep /\ InPhase(Loop, "answered") /\ calls[Loop].op = op

\* The top of pollLoop.
InspectActive ==
  /\ LoopAt("top")
  /\ pc' = "poll"
  /\ Inspect(active)
  /\ UNCHANGED <<handling, segments>>

SendPoll ==
  /\ LoopAt("poll")
  /\ pc' = "top"
  /\ \E pending \in PendingMessages :
       calls' = Sending(Loop, "poll", IF active = None THEN NoJob ELSE active,
                        active = None /\ ~streaming /\ ~pending)
  /\ UNCHANGED <<handling, active, injecting, inbox, segments>>

PollGetsNothing ==
  /\ LoopGets("poll") /\ calls[Loop].reply.kind \in {"idle", "error"}
  /\ calls' = LoopDone
  /\ UNCHANGED <<bridge, inbox, segments>>

\* acceptJob of a leased job: it is acknowledged before anything else.  The
\* extension-busy branch is left out: FreeWhenReady shows it never runs.
PollGetsJob ==
  /\ LoopGets("poll") /\ calls[Loop].reply.kind = "job"
  /\ active = None
  /\ segments' = MarkUnlessSent(calls[Loop].reply.id)
  /\ active' = NewActive(calls[Loop].reply, FALSE)
  /\ calls' = Sending(Loop, "ack", calls[Loop].reply, None)
  /\ UNCHANGED <<pc, handling, injecting, inbox>>

\* acceptJob of a running job, which is ignored beside another one.
PollGetsResume ==
  /\ LoopGets("poll") /\ calls[Loop].reply.kind = "resume"
  /\ IF active # None
       THEN calls' = LoopDone /\ UNCHANGED <<active, injecting, inbox, segments>>
       ELSE /\ segments' = MarkUnlessSent(calls[Loop].reply.id)
            /\ Inspect(NewActive(calls[Loop].reply, TRUE))
  /\ UNCHANGED <<pc, handling>>

Cleared(job) == active' = None /\ injecting' = IF injecting = job.id THEN 0 ELSE injecting

AckAnswered ==
  /\ LoopGets("ack")
  /\ IF calls[Loop].reply = Ok
       THEN Inspect(IF active = None THEN None ELSE [active EXCEPT !.acknowledged = TRUE])
       ELSE /\ Cleared(calls[Loop])
            /\ calls' = LoopDone
            /\ UNCHANGED inbox
  /\ UNCHANGED <<pc, handling, segments>>

Aborted(job) == [job EXCEPT !.terminal = ResultOf(Nothing, TRUE)]

\* handleControl of an abort.  context.abort() makes the agent settle, which
\* it may do at any time; a job that was not sent, or not answered, settles
\* here as interrupted, and an answered one is posted first.
PollGetsControl ==
  LET c == calls[Loop].reply
      matches   == active # None /\ c.id \in {0, active.id}
      job       == [active EXCEPT !.interrupted = TRUE]
      harvested == HarvestResult(active.id)
      answered  == matches /\ ~streaming /\ active.sent /\ harvested.status # "pending"
      next      == IF ~matches \/ streaming THEN IF matches THEN job ELSE active
                   ELSE IF answered THEN Finish(job, harvested)
                   ELSE Aborted(job)
  IN  /\ LoopGets("poll") /\ c.kind = "control"
      /\ IF answered /\ CanPost(next)
           THEN /\ Report(next)
                /\ pc' = "control" /\ handling' = c.n
           ELSE /\ active' = next
                /\ calls' = Sending(Loop, "controlAck", NoJob, c.n)
                /\ UNCHANGED <<pc, handling>>
      /\ UNCHANGED <<injecting, inbox, segments>>

SendControlAck ==
  /\ LoopAt("control")
  /\ calls' = Sending(Loop, "controlAck", NoJob, handling)
  /\ pc' = "top" /\ handling' = 0
  /\ UNCHANGED <<active, injecting, inbox, segments>>

ControlAckAnswered ==
  /\ LoopGets("controlAck")
  /\ Report(active)
  /\ UNCHANGED <<pc, handling, injecting, inbox, segments>>

\* The rest of postTerminal, in either activity.  The last attempt of all
\* reports terminal-report-failed, and whatever its answer the job is done.
\* The attempts of an object that is not active any more are not kept: any of
\* its reports may be the last but one.
LastAttempt(slot)     == calls[slot].data = FailOf("terminal-report-failed")
LastResort(slot, job) == Sending(slot, "fail", job, FailOf("terminal-report-failed"))

\* The active job is the object that slot posts for.
PostsFor(slot) == active # None /\ active.posting = slot[1]

TerminalAnswered(slot) ==
  LET c == calls[slot]
      attempts == active.attempts + 1
  IN  /\ up /\ InPhase(slot, "answered") /\ c.op \in {"result", "fail"}
      /\ IF c.reply \in {Ok, Conflict} \/ LastAttempt(slot)
           THEN /\ calls' = [calls EXCEPT ![slot] = None]
                /\ IF active # None /\ active.id = c.id THEN Cleared(c) ELSE UNCHANGED <<active, injecting>>
         ELSE IF ~PostsFor(slot)
           THEN /\ calls' \in {[calls EXCEPT ![slot] = None], LastResort(slot, c)}
                /\ UNCHANGED <<active, injecting>>
         ELSE IF c.reply = TooLarge /\ active.terminal.op = "result"
           THEN /\ active' = [FailWith(active, "result-too-large") EXCEPT !.posting = "no"]
                /\ calls' = [calls EXCEPT ![slot] = None]
                /\ UNCHANGED injecting
         ELSE IF attempts < MaxAttempts
           THEN /\ active' = [active EXCEPT !.attempts = attempts, !.posting = "no"]
                /\ calls' = [calls EXCEPT ![slot] = None]
                /\ UNCHANGED injecting
         ELSE   /\ active' = [active EXCEPT !.attempts = attempts]
                /\ calls' = LastResort(slot, active)
                /\ UNCHANGED injecting
      /\ UNCHANGED <<store, server, waiter, agent, process, pc, handling, faults>>

\* DISPATCH_TIMEOUT_MS are over.  That is early while the prompt is still
\* on its way into the session or the agent works on it.
DispatchOverdue ==
  /\ up /\ active # None /\ active.dispatched = "yes"
  /\ IF streaming \/ \E k \in DOMAIN inbox : inbox[k].who = active.id THEN Fault ELSE NoFault
  /\ active' = [active EXCEPT !.dispatched = "overdue"]
  /\ UNCHANGED <<store, server, network, process, agent, pc, handling, injecting>>

-----------------------------------------------------------------------------
(* pi: the terminal, the agent and the events it raises.  pi is not part   *)
(* of the repository; it is modelled by what the extension relies on.      *)

PiStep == up /\ UNCHANGED <<store, server, process, waiter, pc, handling>>

\* The input event of a prompt that the extension handed over.
InputEvent(k) ==
  LET marks == active # None /\ injecting = active.id /\ active.dispatched # "no" /\ ~active.sent
  IN  /\ PiStep /\ NoFault
      /\ ~inbox[k].seen
      /\ inbox' = [inbox EXCEPT ![k].seen = TRUE]
      /\ segments' = IF marks THEN Marking(active.id) ELSE segments
      /\ active' = IF marks THEN [active EXCEPT !.observed = TRUE] ELSE active
      /\ UNCHANGED <<calls, turn, streaming, typed, prompted, injecting>>

\* The local user types a prompt: its input event comes at once, and
\* swallows the prompt while a job is being handed over.
TypePrompt ==
  /\ PiStep /\ NoFault
  /\ typed < MaxLocal
  /\ active # None => active.sent
  /\ typed' = typed + 1
  /\ inbox' = Append(inbox, [who |-> Local, seen |-> TRUE])
  /\ active' = IF active = None THEN None ELSE [active EXCEPT !.interrupted = TRUE]
  /\ UNCHANGED <<calls, segments, turn, streaming, prompted, injecting>>

\* A prompt enters the session, starting the agent or joining its work, of
\* which it may have given an answer; the message_end event follows.
AnsweredSoFar == {segments} \cup (IF streaming THEN {Answering(turn, "stop")} ELSE {})

RecordPrompt(k) ==
  LET who == inbox[k].who
  IN  /\ PiStep /\ NoFault
      /\ inbox[k].seen
      /\ inbox' = RemoveAt(inbox, k)
      /\ \E segs \in AnsweredSoFar : segments' = Recording(segs)
      /\ turn' = who /\ streaming' = TRUE
      /\ prompted' = IF who = Local THEN prompted ELSE [prompted EXCEPT ![who] = @ + 1]
      /\ IF active # None /\ active.observed /\ ~active.sent
           THEN /\ active' = [active EXCEPT !.sent = TRUE, !.observed = FALSE]
                /\ injecting' = IF injecting = active.id THEN 0 ELSE injecting
           ELSE /\ active' = IF active = None \/ ~active.sent THEN active
                             ELSE [active EXCEPT !.interrupted = TRUE]
                /\ UNCHANGED injecting
      /\ UNCHANGED <<calls, typed>>

\* pi fails to take a job's prompt.
PromptLost(k) ==
  /\ PiStep /\ Fault
  /\ inbox[k].who # Local
  /\ inbox' = RemoveAt(inbox, k)
  /\ UNCHANGED <<calls, segments, turn, streaming, typed, prompted, active, injecting>>

\* Mutation of Decidable: an interrupted job that was not sent is dispatched.
DecidableSent(job) == job.sent

\* A settled agent decides the job that was sent or interrupted before that.
Decidable(job) == job.sent \/ job.interrupted

\* The agent settles, with an answer or without, and the agent_settled
\* handler runs up to its first await.  One such handler awaits at a time:
\* beside it the next one leaves its report to the poll loop.
AnsweredAtLast ==
  {segments} \cup {Answering(turn, stop) : stop \in {"stop", "error", "aborted"}}

AgentSettled ==
  /\ PiStep /\ NoFault
  /\ streaming
  /\ streaming' = FALSE /\ turn' = None
  /\ \E segs \in AnsweredAtLast :
       LET sent      == active.sent \/ H!SegmentHasUser(segs[active.id])
           job       == [active EXCEPT !.sent = sent]
           harvested == H!SegmentResult(segs[active.id])
           next      == IF sent /\ harvested.status = "pending" /\ ~job.interrupted
                          THEN FailWith(job, "missing-assistant-result")
                          ELSE Finish(job, harvested)
       IN  /\ segments' = segs
           /\ IF active = None THEN UNCHANGED <<active, calls, injecting, inbox>>
              ELSE IF Decidable(job)
                THEN /\ IF CanPost(next) /\ calls[Event] = None
                          THEN active' = PostedFrom("event", next) /\ calls' = Post(Event, next)
                          ELSE active' = next /\ UNCHANGED calls
                     /\ UNCHANGED <<injecting, inbox>>
              ELSE \/ /\ Dispatchable(job)
                      /\ active' = Dispatched(job) /\ HandsOver(job)
                      /\ UNCHANGED calls
                   \/ /\ Dispatchable(job) => TRUE \in PendingMessages
                      /\ UNCHANGED <<active, calls, injecting, inbox>>
  /\ UNCHANGED <<typed, prompted>>

\* session_shutdown for a reload of the extension: its state is lost and its
\* calls are abandoned, the session and the agent go on.  A prompt that pi
\* has been handed is in the session by then.
Reload ==
  /\ up /\ Fault
  /\ inbox = <<>>
  /\ active' = None /\ injecting' = 0 /\ pc' = "top" /\ handling' = 0
  /\ calls' = Orphaned({"loop", "event"})
  /\ waiter' = Rewaited({"loop", "event"})
  /\ UNCHANGED <<store, server, process, agent>>

\* The TUI ends, and its session with it (--no-session).
TuiExits ==
  /\ up /\ Fault
  /\ up' = FALSE
  /\ active' = None /\ injecting' = 0 /\ pc' = "top" /\ handling' = 0
  /\ segments' = [i \in Jobs |-> None] /\ turn' = None /\ streaming' = FALSE /\ inbox' = <<>>
  /\ calls' = Orphaned({"loop", "event"})
  /\ waiter' = Rewaited({"loop", "event"})
  /\ UNCHANGED <<store, server, starts, typed, prompted>>

-----------------------------------------------------------------------------
Init ==
  /\ Store!Init
  /\ live = TRUE /\ control = None /\ controlCount = 0
  /\ waiter = None /\ calls = [s \in Slots |-> None]
  /\ up = TRUE /\ starts = 1
  /\ pc = "top" /\ handling = 0 /\ active = None /\ injecting = 0
  /\ segments = [i \in Jobs |-> None] /\ turn = None /\ streaming = FALSE /\ inbox = <<>>
  /\ typed = 0 /\ prompted = [i \in Jobs |-> 0]
  /\ faults = 0

Serve(slot) ==
  Refuse(slot) \/ Poll(slot) \/ Ack(slot) \/ Result(slot) \/ FailReport(slot) \/ ControlAck(slot)
Controller ==
  \/ \E s \in Slots : Serve(s) \/ PollExpires(s)
  \/ \E i \in Store!Ids : LeaseExpires(i)
  \/ MarkStopped

PollLoop ==
  \/ InspectActive \/ SendPoll \/ SendControlAck
  \/ PollGetsNothing \/ PollGetsJob \/ PollGetsResume \/ PollGetsControl
  \/ AckAnswered \/ ControlAckAnswered \/ TerminalAnswered(Loop)
Extension == PollLoop \/ TerminalAnswered(Event) \/ DispatchOverdue

Pi == (\E k \in DOMAIN inbox : InputEvent(k) \/ RecordPrompt(k)) \/ AgentSettled

Clients ==
  \/ \E r \in Requests, x \in Inputs : Submit(r, x)
  \/ \E i \in Store!Ids : Cancel(i)
  \/ AbortSession \/ StartSession \/ TypePrompt

Faults ==
  \/ \E a \in {"loop", "event"} : CallFails(a)
  \/ \E s \in Slots : OrphanLost(s) \/ Oversized(s)
  \/ \E k \in DOMAIN inbox : PromptLost(k)
  \/ Watchdog \/ Reload \/ TuiExits

Next == Controller \/ Extension \/ Pi \/ Clients \/ Faults

Spec == Init /\ [][Next]_vars

\* Handlers, timers and loops of a running process do run; pi takes up its
\* prompts and the agent settles.  Nobody has to submit, cancel or type.
Fairness ==
  /\ SF_vars(Serve(Loop)) /\ SF_vars(Serve(Event))
  /\ SF_vars(PollExpires(Loop))
  /\ WF_vars(\E s \in Slots : InPhase(s, "woken") /\ Poll(s))
  /\ SF_vars(\E i \in Store!Ids : LeaseExpires(i))
  /\ SF_vars(MarkStopped)
  /\ WF_vars(PollLoop) /\ WF_vars(TerminalAnswered(Event)) /\ WF_vars(DispatchOverdue)
  /\ WF_vars(\E k \in DOMAIN inbox : InputEvent(k) \/ RecordPrompt(k))
  /\ WF_vars(AgentSettled)

FairSpec == Spec /\ Fairness

=============================================================================
