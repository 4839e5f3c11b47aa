------------------------------ MODULE Harvest ------------------------------
(***************************************************************************)
(* Reading a job's answer off the entries of the session                   *)
(* (tui-extension/core.ts).  An entry is a marker of a job, a user message *)
(* or an assistant message with text; other entries are skipped by every   *)
(* loop below.  A text is abstracted to whose prompt it answers.           *)
(*                                                                         *)
(* The same is defined twice: on the whole sequence of entries, as the     *)
(* code does it, and entry by entry, on the segment that follows the last  *)
(* marker of one job, reduced to what the code reads in it.  JobDelivery   *)
(* keeps segments, MCFunctions shows that the two agree.                   *)
(***************************************************************************)
EXTENDS Integers, Sequences, FiniteSetsExt, SequencesExt

CONSTANT None   \* no entry, no text

Mark(job)         == [kind |-> "mark", who |-> job, stop |-> None]
User(who)         == [kind |-> "user", who |-> who, stop |-> None]
Answer(who, stop) == [kind |-> "assistant", who |-> who, stop |-> stop]

Pending                   == [status |-> "pending", text |-> None, interrupted |-> FALSE]
Harvested(text, cut, stop) ==
  IF stop \in {"toolUse", "pending", "deferred"} THEN Pending
  ELSE IF stop = "error" THEN [status |-> "error", text |-> text, interrupted |-> FALSE]
  ELSE [status |-> IF cut \/ stop = "aborted" THEN "interrupted" ELSE "done",
        text |-> text, interrupted |-> cut \/ stop = "aborted"]

-----------------------------------------------------------------------------
(* On the sequence of entries.                                             *)

\* Mutation of MarkerIndex: the first marker of the job.
FirstMarkerIndex(entries, job) == SelectInSeq(entries, LAMBDA e : e = Mark(job))

\* markerIndex; 0 stands for -1.
MarkerIndex(entries, job) == SelectLastInSeq(entries, LAMBDA e : e = Mark(job))

UsersAfter(entries, n) == {k \in (n + 1)..Len(entries) : entries[k].kind = "user"}

HasUserAfterMarker(entries, job) ==
  MarkerIndex(entries, job) > 0 /\ UsersAfter(entries, MarkerIndex(entries, job)) # {}

\* Mutation of HarvestResult: the segment has no end.
HarvestUnbounded(entries, job) ==
  LET target  == Min(UsersAfter(entries, MarkerIndex(entries, job)))
      answers == {k \in target..Len(entries) : entries[k].kind = "assistant"}
      last    == entries[Max(answers)]
  IN  IF ~HasUserAfterMarker(entries, job) \/ answers = {} THEN Pending
      ELSE Harvested(last.who, FALSE, last.stop)

\* The last text between the first user message after the marker (the job's
\* own prompt) and the second (boundaryIndex).
HarvestResult(entries, job) ==
  LET users    == UsersAfter(entries, MarkerIndex(entries, job))
      target   == Min(users)
      boundary == Min((users \ {target}) \cup {Len(entries) + 1})
      answers  == {k \in target..(boundary - 1) : entries[k].kind = "assistant"}
      last     == entries[Max(answers)]
  IN  IF ~HasUserAfterMarker(entries, job) \/ answers = {} THEN Pending
      ELSE Harvested(last.who, boundary <= Len(entries), last.stop)

-----------------------------------------------------------------------------
(* Entry by entry.  The segment of a job is None before its first marker.  *)

Marked == [user |-> FALSE, text |-> None, stop |-> None, cut |-> FALSE]

\* Mutation of WithUser: a second user message does not end the segment.
WithUserUncut(segment) == IF segment = None THEN None ELSE [segment EXCEPT !.user = TRUE]

WithUser(segment) ==
  IF segment = None THEN None
  ELSE IF segment.user THEN [segment EXCEPT !.cut = TRUE]
  ELSE [segment EXCEPT !.user = TRUE]

WithAnswer(segment, who, stop) ==
  IF segment = None THEN None
  ELSE IF segment.user /\ ~segment.cut THEN [segment EXCEPT !.text = who, !.stop = stop]
  ELSE segment

SegmentHasUser(segment) == segment # None /\ segment.user

SegmentResult(segment) ==
  IF ~SegmentHasUser(segment) \/ segment.text = None THEN Pending
  ELSE Harvested(segment.text, segment.cut, segment.stop)

=============================================================================
