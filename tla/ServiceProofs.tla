---------------------------- MODULE ServiceProofs ----------------------------
(***************************************************************************)
(* What the extensions of ServiceExtensions promise, each as it is there,  *)
(* for any searches, endpoints, tokens, callers, processes and providers   *)
(* and any bounds.                                                         *)
(***************************************************************************)
EXTENDS ServiceExtensions, Sequences, SequenceTheorems, FiniteSetTheorems, TLAPS

-----------------------------------------------------------------------------
\* The search client.

SearchFields == {"pc", "endpoint", "attempts", "left", "aborted", "outcome"}

\* A search is a record of these fields, and its times and counts are numbers.
SearchTyped ==
  /\ searches = [s \in Searches |-> searches[s]]
  /\ \A s \in Searches :
       /\ searches[s] = [f \in SearchFields |-> searches[s][f]]
       /\ searches[s].left \in Nat /\ searches[s].attempts \in Nat
  /\ rateQueue \in Seq(Searches)
  /\ nextAllowed \in Nat /\ sinceFetch \in 0..MinInterval

\* The search that waits is the first of the queue, so that there is one at
\* most, and its delay reaches beyond the interval after the last request.
FirstWaits ==
  \A s \in Searches : searches[s].pc = "waiting" =>
    /\ rateQueue # <<>> /\ rateQueue[1] = s
    /\ searches[s].left + sinceFetch >= MinInterval

\* The next search to get its turn would not be sent too early either.
NextIsApart == nextAllowed + sinceFetch >= MinInterval

SearchInv == SearchTyped /\ FirstWaits /\ NextIsApart

-----------------------------------------------------------------------------
(* A step that makes one search r keeps the invariant, if it leaves the    *)
(* first of the queue there, or no other search waits.                     *)
LEMMA OneChanges ==
  ASSUME SearchInv, NEW s \in Searches, NEW r, r = [f \in SearchFields |-> r[f]],
         r.left \in Nat, r.attempts \in Nat,
         searches' = [searches EXCEPT ![s] = r],
         rateQueue' \in Seq(Searches), nextAllowed' \in Nat, sinceFetch' \in 0..MinInterval,
         NextIsApart',
         \/ searches[s].pc = "waiting"
         \/ \A t \in Searches : searches[t].pc # "waiting"
         \/ /\ sinceFetch' = sinceFetch
            /\ rateQueue # <<>> => rateQueue' # <<>> /\ rateQueue'[1] = rateQueue[1],
         r.pc = "waiting" =>
           rateQueue' # <<>> /\ rateQueue'[1] = s /\ r.left + sinceFetch' >= MinInterval
  PROVE  SearchInv'
<1>1. searches'[s] = r /\ \A t \in Searches \ {s} : searches'[t] = searches[t]
  BY DEF SearchInv, SearchTyped
<1>2. searches' = [t \in Searches |-> searches'[t]]
  BY DEF SearchInv, SearchTyped
<1>3. SearchTyped'
  <2>1. ASSUME NEW t \in Searches
        PROVE  /\ searches'[t] = [f \in SearchFields |-> searches'[t][f]]
               /\ searches'[t].left \in Nat /\ searches'[t].attempts \in Nat
    <3>1. CASE t = s
      BY <3>1, <1>1
    <3>2. CASE t # s
      BY <3>2, <1>1 DEF SearchInv, SearchTyped
    <3>3. QED BY <3>1, <3>2
  <2>2. QED BY <1>2, <2>1 DEF SearchTyped
<1>4. ASSUME NEW t \in Searches \ {s}, searches'[t].pc = "waiting"
      PROVE  /\ rateQueue' # <<>> /\ rateQueue'[1] = t
             /\ searches'[t].left + sinceFetch' >= MinInterval
  <2>1. searches[t].pc = "waiting" /\ rateQueue[1] = t /\ rateQueue # <<>>
    BY <1>1, <1>4 DEF SearchInv, FirstWaits
  <2>2. searches[s].pc # "waiting"
    BY <2>1, <1>4 DEF SearchInv, FirstWaits
  <2>3. QED BY <1>1, <2>1, <2>2 DEF SearchInv, FirstWaits
<1>5. FirstWaits'
  BY <1>1, <1>4 DEF FirstWaits
<1>6. QED BY <1>3, <1>5 DEF SearchInv

(* What is appended to or removed from the queue leaves a queue.           *)
LEMMA SearchQueues ==
  ASSUME SearchInv, NEW s \in Searches
  PROVE  /\ Append(rateQueue, s) \in Seq(Searches) /\ Append(rateQueue, s) # <<>>
         /\ rateQueue # <<>> => Append(rateQueue, s)[1] = rateQueue[1]
         /\ rateQueue # <<>> => Tail(rateQueue) \in Seq(Searches)
<1>1. rateQueue \in Seq(Searches)
  BY DEF SearchInv, SearchTyped
<1>2. rateQueue # <<>> => 1 \in 1..Len(rateQueue)
  BY <1>1, EmptySeq
<1>3. QED BY <1>1, <1>2, AppendProperties, HeadTailProperties

(* Time that passes shortens a delay by one at most, and the distance to   *)
(* the last request grows by one until it is long enough.                  *)
LEMMA SearchTicks ==
  ASSUME SearchInv, Search!Tick
  PROVE  SearchInv'
<1>m. MinInterval \in Nat
  BY ServiceAssumption DEF Search!TavilyConstants
<1>1. \A n \in Nat : Search!Less(n) \in Nat /\ n <= Search!Less(n) + 1
  BY DEF Search!Less
<1>2. \A s \in Searches :
        /\ searches'[s] = [f \in SearchFields |-> searches'[s][f]]
        /\ searches'[s].pc = searches[s].pc /\ searches'[s].attempts = searches[s].attempts
        /\ searches'[s].left = Search!Less(searches[s].left)
  <2> TAKE s \in Searches
  <2>1. searches[s] = [f \in SearchFields |-> searches[s][f]]
    BY DEF SearchInv, SearchTyped
  <2>2. searches'[s] = [searches[s] EXCEPT !.left = Search!Less(@)]
    BY DEF Search!Tick
  <2>3. QED BY <2>1, <2>2 DEF SearchFields
<1>3. searches' = [s \in Searches |-> searches'[s]]
  BY DEF Search!Tick
<1>4. nextAllowed' = Search!Less(nextAllowed) /\ rateQueue' = rateQueue
  BY DEF Search!Tick
<1>5. sinceFetch' \in 0..MinInterval /\ (sinceFetch' = MinInterval \/ sinceFetch' = sinceFetch + 1)
  BY <1>m DEF Search!Tick, SearchInv, SearchTyped
<1>6. SearchTyped'
  BY <1>1, <1>2, <1>3, <1>4, <1>5 DEF SearchInv, SearchTyped
<1>7. NextIsApart'
  BY <1>m, <1>1, <1>4, <1>5 DEF SearchInv, SearchTyped, NextIsApart
<1>8. FirstWaits'
  <2> SUFFICES ASSUME NEW s \in Searches, searches'[s].pc = "waiting"
               PROVE  /\ rateQueue' # <<>> /\ rateQueue'[1] = s
                      /\ searches'[s].left + sinceFetch' >= MinInterval
    BY DEF FirstWaits
  <2>1. /\ rateQueue # <<>> /\ rateQueue[1] = s
        /\ searches[s].left + sinceFetch >= MinInterval /\ searches[s].left \in Nat
    BY <1>2 DEF SearchInv, SearchTyped, FirstWaits
  <2>2. searches'[s].left \in Nat /\ searches[s].left <= searches'[s].left + 1
    BY <1>1, <1>2, <2>1
  <2>3. sinceFetch \in Nat /\ sinceFetch' \in Nat
    BY <1>m, <1>5 DEF SearchInv, SearchTyped
  <2>4. searches'[s].left + sinceFetch' >= MinInterval
    BY <1>m, <1>5, <2>1, <2>2, <2>3
  <2>5. QED BY <1>4, <2>1, <2>4
<1>9. QED BY <1>6, <1>7, <1>8 DEF SearchInv

(* No step breaks the invariant.                                           *)
LEMMA SearchInductive == SearchInv /\ [Search!Next]_Search!clientVars => SearchInv'
<1> SUFFICES ASSUME SearchInv, [Search!Next]_Search!clientVars PROVE SearchInv'
  OBVIOUS
<1>m. MinInterval \in Nat /\ RetryDelays \subseteq Nat
  BY ServiceAssumption DEF Search!TavilyConstants
<1>r. \A s \in Searches :
        /\ searches[s] = [f \in SearchFields |-> searches[s][f]]
        /\ searches[s].left \in Nat /\ searches[s].attempts \in Nat
  BY DEF SearchInv, SearchTyped
<1>t. /\ nextAllowed \in Nat /\ sinceFetch \in 0..MinInterval /\ NextIsApart
      /\ rateQueue \in Seq(Searches)
  BY DEF SearchInv, SearchTyped
<1>1. ASSUME NEW s \in Searches, Search!Requests(s), searches[s].pc # "waiting",
             UNCHANGED <<nextAllowed, cooldowns, sinceFetch>>
      PROVE  SearchInv'
  <2> DEFINE r == [searches[s] EXCEPT !.pc = "queued", !.endpoint = Search!Chosen]
  <2>1. searches' = [searches EXCEPT ![s] = r] /\ rateQueue' = Append(rateQueue, s)
    BY <1>1 DEF Search!Requests
  <2>2. r = [f \in SearchFields |-> r[f]] /\ r.left \in Nat /\ r.attempts \in Nat /\ r.pc = "queued"
    BY <1>r DEF SearchFields
  <2>3. NextIsApart'
    BY <1>1, <1>t DEF NextIsApart
  <2> HIDE DEF r
  <2>4. QED BY <1>1, <1>t, <2>1, <2>2, <2>3, SearchQueues, OneChanges
<1>2. ASSUME NEW s \in Searches, NEW r, r = [f \in SearchFields |-> r[f]],
             r.left \in Nat, r.attempts \in Nat, r.pc # "waiting",
             searches' = [searches EXCEPT ![s] = r],
             UNCHANGED <<nextAllowed, sinceFetch>>,
             \/ rateQueue' = rateQueue
             \/ searches[s].pc = "waiting" /\ rateQueue' = Tail(rateQueue)
      PROVE  SearchInv'
  <2>1. rateQueue' \in Seq(Searches)
    BY <1>2, <1>t, SearchQueues DEF SearchInv, FirstWaits
  <2>2. NextIsApart'
    BY <1>2, <1>t DEF NextIsApart
  <2>3. QED BY <1>2, <1>t, <2>1, <2>2, OneChanges
<1>3. CASE UNCHANGED Search!clientVars
  BY <1>3 DEF Search!clientVars, SearchInv, SearchTyped, FirstWaits, NextIsApart
<1>4. ASSUME NEW s \in Searches, Search!Search(s) PROVE SearchInv'
  BY <1>1, <1>4 DEF Search!Search
<1>5. ASSUME NEW s \in Searches, Search!Retry(s) PROVE SearchInv'
  BY <1>1, <1>5 DEF Search!Retry
<1>6. ASSUME NEW s \in Searches, NEW ending, searches' = Search!Ended(s, ending),
             UNCHANGED <<nextAllowed, sinceFetch>>,
             \/ rateQueue' = rateQueue
             \/ searches[s].pc = "waiting" /\ rateQueue' = Tail(rateQueue)
      PROVE  SearchInv'
  <2> DEFINE r == [searches[s] EXCEPT !.pc = "done", !.outcome = ending, !.left = 0]
  <2>1. searches' = [searches EXCEPT ![s] = r]
    BY <1>6 DEF Search!Ended
  <2>2. r = [f \in SearchFields |-> r[f]] /\ r.left \in Nat /\ r.attempts \in Nat /\ r.pc = "done"
    BY <1>r DEF SearchFields
  <2> HIDE DEF r
  <2>3. QED BY <1>2, <1>6, <2>1, <2>2
<1>7. ASSUME NEW s \in Searches, Search!Failed(s), UNCHANGED <<rateQueue, nextAllowed,
             sinceFetch>>
      PROVE  SearchInv'
  <2>1. CASE searches[s].attempts = MaxAttempts
    BY <1>6, <1>7, <2>1 DEF Search!Failed
  <2>2. CASE searches[s].attempts # MaxAttempts
    <3>1. PICK d \in RetryDelays :
            searches' = [searches EXCEPT ![s].pc = "retrying", ![s].left = d]
      BY <1>7, <2>2 DEF Search!Failed
    <3> DEFINE r == [searches[s] EXCEPT !.pc = "retrying", !.left = d]
    <3>2. searches' = [searches EXCEPT ![s] = r]
      BY <3>1
    <3>3. /\ r = [f \in SearchFields |-> r[f]] /\ r.left \in Nat /\ r.attempts \in Nat
          /\ r.pc = "retrying"
      BY <1>m, <1>r DEF SearchFields
    <3> HIDE DEF r
    <3>4. QED BY <1>2, <1>7, <3>2, <3>3
  <2>3. QED BY <2>1, <2>2
<1>8. ASSUME NEW s \in Searches, NEW status \in {"ok", "trouble", "refused"}, Search!Answered(s,
             status)
      PROVE  SearchInv'
  BY <1>6, <1>7, <1>8 DEF Search!Answered
<1>9. ASSUME NEW s \in Searches, Search!Turn(s) PROVE SearchInv'
  <2>1. CASE searches[s].aborted
    \* The queue loses its first, which does not wait: then nobody does.
    <3>1. \A t \in Searches : searches[t].pc # "waiting"
      BY <1>9 DEF Search!Turn, SearchInv, FirstWaits
    <3> DEFINE r == [searches[s] EXCEPT !.pc = "done", !.outcome = "aborted", !.left = 0]
    <3>2. searches' = [searches EXCEPT ![s] = r] /\ rateQueue' = Tail(rateQueue)
      BY <1>9, <2>1 DEF Search!Turn, Search!Ended
    <3>3. r = [f \in SearchFields |-> r[f]] /\ r.left \in Nat /\ r.attempts \in Nat /\ r.pc = "done"
      BY <1>r DEF SearchFields
    <3> HIDE DEF r
    <3>4. rateQueue' \in Seq(Searches) /\ NextIsApart'
      BY <1>9, <1>t, <3>2, SearchQueues DEF Search!Turn, NextIsApart
    <3>5. QED BY <1>9, <1>t, <3>1, <3>2, <3>3, <3>4, OneChanges DEF Search!Turn
  <2>2. CASE ~searches[s].aborted
    <3> DEFINE r == [searches[s] EXCEPT !.pc = "waiting", !.left = nextAllowed]
    <3>1. searches' = [searches EXCEPT ![s] = r] /\ rateQueue' = rateQueue
      BY <1>9, <2>2 DEF Search!Turn
    <3>2. /\ r = [f \in SearchFields |-> r[f]] /\ r.left = nextAllowed /\ r.attempts \in Nat
      BY <1>r DEF SearchFields
    <3> HIDE DEF r
    <3>3. QED BY <1>9, <1>t, <3>1, <3>2, OneChanges DEF Search!Turn, NextIsApart
  <2>3. QED BY <2>1, <2>2
<1>10. ASSUME NEW s \in Searches, Search!Fetch(s) PROVE SearchInv'
  <2> DEFINE n == searches[s].attempts + 1
             r == [searches[s] EXCEPT !.pc = "fetching", !.attempts = n]
  <2>0. n \in Nat
    <3>1. searches[s].attempts \in Nat
      BY <1>r
    <3>2. QED BY <3>1
  <2>1. searches' = [searches EXCEPT ![s] = r] /\ rateQueue' = Tail(rateQueue)
    BY <1>10 DEF Search!Fetch
  <2> HIDE DEF n
  <2>2. /\ r = [f \in SearchFields |-> r[f]] /\ r.left \in Nat /\ r.attempts \in Nat
        /\ r.pc = "fetching"
    BY <1>r, <2>0 DEF SearchFields
  <2> HIDE DEF r
  <2>3. searches[s].pc = "waiting" /\ rateQueue' \in Seq(Searches)
    BY <1>10, <2>1, SearchQueues DEF Search!Fetch, SearchInv, FirstWaits
  <2>4. nextAllowed' \in Nat /\ sinceFetch' \in 0..MinInterval /\ NextIsApart'
    BY <1>10, <1>m DEF Search!Fetch, NextIsApart
  <2>5. QED BY <2>1, <2>2, <2>3, <2>4, OneChanges
<1>11. ASSUME NEW s \in Searches, Search!Abort(s) PROVE SearchInv'
  <2>1. CASE searches[s].pc = "queued"
    <3> DEFINE r == [searches[s] EXCEPT !.aborted = TRUE]
    <3>1. searches' = [searches EXCEPT ![s] = r] /\ rateQueue' = rateQueue
      BY <1>11, <2>1 DEF Search!Abort
    <3>2. /\ r = [f \in SearchFields |-> r[f]] /\ r.left \in Nat /\ r.attempts \in Nat
          /\ r.pc = "queued"
      BY <1>r, <2>1 DEF SearchFields
    <3> HIDE DEF r
    <3>3. QED BY <1>2, <1>11, <3>1, <3>2 DEF Search!Abort
  <2>2. CASE searches[s].pc # "queued"
    BY <1>6, <1>11, <2>2 DEF Search!Abort
  <2>3. QED BY <2>1, <2>2
<1>12. QED
  BY <1>3, <1>4, <1>5, <1>8, <1>9, <1>10, <1>11, SearchTicks DEF Search!Next, Search!Steps

-----------------------------------------------------------------------------
(* Two requests are never sent closer to each other than minIntervalMs,    *)
(* whichever searches they are for (tavily.mjs:258).                       *)
THEOREM SearchesApart == Search!Spec => RequestsApart
<1>1. Search!Init => SearchInv
  <2> SUFFICES ASSUME Search!Init PROVE SearchInv
    OBVIOUS
  <2>1. MinInterval \in Nat
    BY ServiceAssumption DEF Search!TavilyConstants
  <2>2. \A s \in Searches :
          /\ searches[s] = [f \in SearchFields |-> searches[s][f]] /\ searches[s].pc = "new"
          /\ searches[s].left \in Nat /\ searches[s].attempts \in Nat
    BY DEF Search!Init, SearchFields
  <2>3. searches = [s \in Searches |-> searches[s]]
    BY DEF Search!Init
  <2>4. SearchTyped
    <3>1. rateQueue \in Seq(Searches)
      BY EmptySeq DEF Search!Init
    <3>2. nextAllowed \in Nat /\ sinceFetch \in 0..MinInterval
      BY <2>1 DEF Search!Init
    <3>3. QED BY <2>2, <2>3, <3>1, <3>2 DEF SearchTyped
  <2>5. QED BY <2>1, <2>2, <2>4 DEF Search!Init, SearchInv, FirstWaits, NextIsApart
<1>2. SearchInv /\ [Search!Next]_Search!clientVars
        => [(\E s \in Searches : searches'[s].attempts > searches[s].attempts)
              => sinceFetch = MinInterval]_Search!clientVars
  <2> SUFFICES ASSUME SearchInv, [Search!Next]_Search!clientVars, NEW s \in Searches,
                      searches'[s].attempts > searches[s].attempts
               PROVE  sinceFetch = MinInterval
    OBVIOUS
  <2>m. MinInterval \in Nat
    BY ServiceAssumption DEF Search!TavilyConstants
  <2>1. \A t \in Searches :
          /\ searches[t] = [f \in SearchFields |-> searches[t][f]]
          /\ searches[t].left \in Nat /\ searches[t].attempts \in Nat
    BY DEF SearchInv, SearchTyped
  <2>2. searches = [t \in Searches |-> searches[t]]
    BY DEF SearchInv, SearchTyped
  <2>3. ASSUME NEW t \in Searches, NEW r, searches' = [searches EXCEPT ![t] = r],
               r.attempts = searches[t].attempts
        PROVE  FALSE
    <3>1. searches'[s].attempts = searches[s].attempts
      BY <2>2, <2>3
    <3>2. searches[s].attempts \in Nat
      BY <2>1
    <3>3. QED BY <3>1, <3>2
  <2>4. ASSUME NEW t \in Searches, NEW o, searches' = Search!Ended(t, o) PROVE FALSE
    <3> DEFINE r == [searches[t] EXCEPT !.pc = "done", !.outcome = o, !.left = 0]
    <3>1. searches' = [searches EXCEPT ![t] = r]
      BY <2>4 DEF Search!Ended
    <3>2. r.attempts = searches[t].attempts
      BY <2>1 DEF SearchFields
    <3> HIDE DEF r
    <3>3. QED BY <2>3, <3>1, <3>2
  <2>5. CASE \E t \in Searches : Search!Fetch(t)
    <3>1. PICK t \in Searches : Search!Fetch(t)
      BY <2>5
    <3>2. searches[t].left = 0 /\ 0 + sinceFetch >= MinInterval
      BY <3>1 DEF Search!Fetch, SearchInv, FirstWaits
    <3>3. QED BY <3>2, <2>m DEF SearchInv, SearchTyped
  <2>6. CASE Search!Tick
    <3>1. searches'[s].attempts = searches[s].attempts
      BY <2>1, <2>6 DEF Search!Tick, SearchFields
    <3>2. searches[s].attempts \in Nat
      BY <2>1
    <3>3. QED BY <3>1, <3>2
  <2>7. CASE \E t \in Searches : Search!Search(t) \/ Search!Retry(t)
    <3>1. PICK t \in Searches : Search!Requests(t)
      BY <2>7 DEF Search!Search, Search!Retry
    <3> DEFINE r == [searches[t] EXCEPT !.pc = "queued", !.endpoint = Search!Chosen]
    <3>2. searches' = [searches EXCEPT ![t] = r]
      BY <3>1 DEF Search!Requests
    <3>3. r.attempts = searches[t].attempts
      BY <2>1 DEF SearchFields
    <3> HIDE DEF r
    <3>4. QED BY <2>3, <3>2, <3>3
  <2>8. CASE \E t \in Searches : Search!Turn(t)
    <3>1. PICK t \in Searches : Search!Turn(t)
      BY <2>8
    <3> DEFINE r == [searches[t] EXCEPT !.pc = "waiting", !.left = nextAllowed]
    <3>2. searches' = [searches EXCEPT ![t] = r]
      BY <2>4, <3>1 DEF Search!Turn
    <3>3. r.attempts = searches[t].attempts
      BY <2>1 DEF SearchFields
    <3> HIDE DEF r
    <3>4. QED BY <2>3, <3>2, <3>3
  <2>9. CASE \E t \in Searches : \E status \in {"ok", "trouble", "refused"} : Search!Answered(t, status)
    <3>1. PICK t \in Searches : Search!Failed(t)
      BY <2>4, <2>9 DEF Search!Answered
    <3>2. PICK d \in RetryDelays : searches' = [searches EXCEPT ![t].pc = "retrying", ![t].left = d]
      BY <2>4, <3>1 DEF Search!Failed
    <3> DEFINE r == [searches[t] EXCEPT !.pc = "retrying", !.left = d]
    <3>3. searches' = [searches EXCEPT ![t] = r]
      BY <3>2
    <3>4. r.attempts = searches[t].attempts
      BY <2>1 DEF SearchFields
    <3> HIDE DEF r
    <3>5. QED BY <2>3, <3>3, <3>4
  <2>10. CASE \E t \in Searches : Search!Abort(t)
    <3>1. PICK t \in Searches : Search!Abort(t)
      BY <2>10
    <3> DEFINE r == [searches[t] EXCEPT !.aborted = TRUE]
    <3>2. searches' = [searches EXCEPT ![t] = r]
      BY <2>4, <3>1 DEF Search!Abort
    <3>3. r.attempts = searches[t].attempts
      BY <2>1 DEF SearchFields
    <3> HIDE DEF r
    <3>4. QED BY <2>3, <3>2, <3>3
  <2>11. CASE UNCHANGED Search!clientVars
    <3>1. searches'[s].attempts = searches[s].attempts /\ searches[s].attempts \in Nat
      BY <2>1, <2>11 DEF Search!clientVars
    <3>2. QED BY <3>1
  <2>12. QED
    BY <2>5, <2>6, <2>7, <2>8, <2>9, <2>10, <2>11 DEF Search!Next, Search!Steps
<1>3. QED BY <1>1, <1>2, SearchInductive, PTL DEF Search!Spec, RequestsApart,
                 Search!RequestsApart

-----------------------------------------------------------------------------
\* The catalog of the Grok provider.

CatalogWorker == [token : Nat, attempt : Nat, pc : {"seeding", "fetching", "waiting", "done"}]

\* The workers and their tokens: a token that was replaced does not come back,
\* and who has the present one was started for it.
CatalogWorkers ==
  /\ workers \in Seq(CatalogWorker) /\ credential \in Nat
  /\ \A w \in DOMAIN workers :
       /\ workers[w].token <= credential
       /\ workers[w].token = credential => discoveryLastToken = credential

\* Nothing was fetched later than the clock; until the file has been read, the
\* catalog is the one that was fetched last.
FileTimes(n) == {Absent} \cup [at : 0..n, age : {"fresh", "stale", "expired"}]
Fetched ==
  /\ clock \in Nat /\ discoveryFetchedAt \in 0..clock
  /\ discoveredBody \in {Absent} \cup 0..clock
  /\ writes \subseteq 0..clock /\ file \in FileTimes(clock)
  /\ disk \in [pc : {"unread", "reading", "read", "done"}, text : FileTimes(clock)]
  /\ disk.pc # "done" =>
       discoveredBody = IF discoveryFetchedAt = 0 THEN Absent ELSE discoveryFetchedAt

-----------------------------------------------------------------------------
(* Whatever wakes, ends or starts workers leaves a sequence of them.       *)
LEMMA Mapped ==
  ASSUME NEW now \in Seq(CatalogWorker), NEW next, next = [w \in DOMAIN now |-> next[w]],
         \A w \in DOMAIN now : next[w] \in CatalogWorker
  PROVE  next \in Seq(CatalogWorker) /\ DOMAIN next = DOMAIN now /\ Len(next) = Len(now)
<1>1. DOMAIN now = 1..Len(now) /\ Len(now) \in Nat
  BY LenProperties
<1>2. next \in [1..Len(now) -> CatalogWorker]
  BY <1>1
<1>3. next \in Seq(CatalogWorker)
  BY <1>1, <1>2 
<1>4. QED BY <1>1, <1>2, <1>3, LenProperties

(* Waking a worker keeps its token, and ends it only if that is not the    *)
(* token in question.                                                      *)
LEMMA Wakes ==
  ASSUME NEW worker \in CatalogWorker, NEW token
  PROVE  /\ Catalog!Woken(worker, token) \in CatalogWorker
         /\ Catalog!Woken(worker, token).token = worker.token
         /\ worker.pc = "done" => Catalog!Woken(worker, token).pc = "done"
<1>1. CASE worker.pc # "waiting"
  BY <1>1 DEF Catalog!Woken
<1>2. CASE worker.pc = "waiting" /\ worker.token # token
  BY <1>2 DEF Catalog!Woken, CatalogWorker
<1>3. CASE worker.pc = "waiting" /\ worker.token = token
  <2> DEFINE n == worker.attempt + 1
  <2>1. n \in Nat
    BY DEF CatalogWorker
  <2>2. Catalog!Woken(worker, token) = [worker EXCEPT !.pc = "fetching", !.attempt = n]
    BY <1>3 DEF Catalog!Woken
  <2> HIDE DEF n
  <2>3. QED BY <1>3, <2>1, <2>2 DEF CatalogWorker
<1>4. QED BY <1>1, <1>2, <1>3

(* A start makes its worker the one that can commit, if none that runs has *)
(* the present token.                                                      *)
LEMMA StartsOne ==
  ASSUME NEW now \in Seq(CatalogWorker), credential \in Nat, credential' = credential,
         \A w \in DOMAIN now :
           /\ now[w].token <= credential
           /\ now[w].token = credential => now[w].pc = "done",
         Absent \notin Nat, Catalog!Starts(now)
  PROVE  CatalogWorkers' /\ Catalog!OneCommitter'
<1> DEFINE next == [w \in DOMAIN now |-> Catalog!Woken(now[w], credential)]
           pc == IF disk.pc = "unread" THEN "seeding" ELSE "fetching"
           one == [token |-> credential, attempt |-> 0, pc |-> pc]
<1>1. /\ DOMAIN now = 1..Len(now) /\ Len(now) \in Nat
      /\ \A w \in DOMAIN now : now[w] \in CatalogWorker
  BY LenProperties, ElementOfSeq
<1>2. /\ one \in CatalogWorker /\ one.token = credential /\ one.pc # "done"
  BY DEF CatalogWorker
<1>3. \A w \in DOMAIN now :
        /\ next[w] \in CatalogWorker /\ next[w].token = now[w].token
        /\ now[w].pc = "done" => next[w].pc = "done"
  BY <1>1, Wakes
<1>4. next \in Seq(CatalogWorker) /\ DOMAIN next = DOMAIN now /\ Len(next) = Len(now)
  BY <1>3, Mapped
<1>5. /\ workers' = Append(next, one) /\ discoveryLastToken' = credential
      /\ discoveryInFlight' = Len(now) + 1
  BY DEF Catalog!Starts
<1> HIDE DEF next, one
<1>6. /\ workers' \in Seq(CatalogWorker) /\ Len(workers') = Len(now) + 1
      /\ \A w \in DOMAIN now : workers'[w] = next[w]
      /\ workers'[Len(now) + 1] = one
  BY <1>1, <1>2, <1>4, <1>5, AppendProperties
<1>7. DOMAIN workers' = DOMAIN now \cup {Len(now) + 1}
  <2>1. DOMAIN workers' = 1..Len(workers')
    BY <1>6, LenProperties
  <2>2. QED BY <1>1, <1>6, <2>1
<1>8. \A w \in DOMAIN now :
        workers'[w].token <= credential /\ ~(Catalog!Running(w)' /\ workers'[w].token = credential)
  BY <1>3, <1>6 DEF Catalog!Running
<1>9. LET n == Len(now) + 1 IN workers'[n].token = credential /\ Catalog!Running(n)'
  BY <1>2, <1>6 DEF Catalog!Running
<1>10. CatalogWorkers'
  BY <1>5, <1>6, <1>7, <1>8, <1>9 DEF CatalogWorkers
<1>11. Catalog!OneCommitter'
  <2>1. {w \in DOMAIN workers' : Catalog!Running(w)' /\ workers'[w].token = credential} = {Len(now) + 1}
    BY <1>7, <1>8, <1>9
  <2>2. discoveryInFlight' # Absent
    BY <1>1, <1>5
  <2>3. QED BY <1>5, <2>1, <2>2 DEF Catalog!OneCommitter
<1>12. QED BY <1>10, <1>11

(* A step after which the same workers run, with the same tokens, keeps    *)
(* the one that can commit.                                                *)
LEMMA SameRun ==
  ASSUME CatalogWorkers, Catalog!OneCommitter, workers' \in Seq(CatalogWorker),
         DOMAIN workers' = DOMAIN workers,
         \A w \in DOMAIN workers :
           workers'[w].token = workers[w].token /\ Catalog!Running(w)' = Catalog!Running(w),
         UNCHANGED <<credential, discoveryLastToken, discoveryInFlight>>
  PROVE  CatalogWorkers' /\ Catalog!OneCommitter'
<1>1. CatalogWorkers'
  BY DEF CatalogWorkers
<1>2. Catalog!OneCommitter'
  <2>1. {w \in DOMAIN workers' : Catalog!Running(w)' /\ workers'[w].token = discoveryLastToken'}
          = {w \in DOMAIN workers : Catalog!Running(w) /\ workers[w].token = discoveryLastToken}
    OBVIOUS
  <2>2. QED BY <2>1 DEF Catalog!OneCommitter
<1>3. QED BY <1>1, <1>2

(* What the end of a worker leaves.                                        *)
LEMMA EndsOne ==
  ASSUME CatalogWorkers, NEW w \in DOMAIN workers
  PROVE  /\ Catalog!Done(w) \in Seq(CatalogWorker) /\ DOMAIN Catalog!Done(w) = DOMAIN workers
         /\ Catalog!Done(w)[w].token = workers[w].token /\ Catalog!Done(w)[w].pc = "done"
         /\ \A v \in DOMAIN workers \ {w} : Catalog!Done(w)[v] = workers[v]
<1>1. workers \in Seq(CatalogWorker) /\ DOMAIN workers = 1..Len(workers)
  BY LenProperties DEF CatalogWorkers
<1> DEFINE one == [workers[w] EXCEPT !.pc = "done"]
<1>2. one \in CatalogWorker /\ one.token = workers[w].token /\ one.pc = "done"
  <2>1. workers[w] \in CatalogWorker
    BY <1>1, ElementOfSeq
  <2>2. QED BY <2>1 DEF CatalogWorker
<1>3. Catalog!Done(w) = [workers EXCEPT ![w] = one]
  BY DEF Catalog!Done
<1> HIDE DEF one
<1>4. Catalog!Done(w) \in Seq(CatalogWorker)
  BY <1>1, <1>2, <1>3, ExceptSeq
<1>5. QED BY <1>1, <1>2, <1>3, <1>4

(* A worker that ends clears the flag if it is the one in flight.          *)
LEMMA EndClears ==
  ASSUME CatalogWorkers, Catalog!OneCommitter, Absent \notin Nat, NEW w \in DOMAIN workers,
         Catalog!Running(w),
         workers' = Catalog!Done(w), discoveryInFlight' = Catalog!Cleared(w),
         UNCHANGED <<credential, discoveryLastToken>>
  PROVE  CatalogWorkers' /\ Catalog!OneCommitter'
<1>1. /\ workers' \in Seq(CatalogWorker) /\ DOMAIN workers' = DOMAIN workers
      /\ workers'[w].token = workers[w].token /\ ~Catalog!Running(w)'
      /\ \A v \in DOMAIN workers \ {w} : workers'[v] = workers[v]
  BY EndsOne DEF Catalog!Running
<1>2. CatalogWorkers'
  BY <1>1 DEF CatalogWorkers
<1>3. w # Absent
  BY LenProperties DEF CatalogWorkers
<1> DEFINE able == {v \in DOMAIN workers : Catalog!Running(v) /\ workers[v].token = discoveryLastToken}
           now  == {v \in DOMAIN workers' :
                      Catalog!Running(v)' /\ workers'[v].token = discoveryLastToken'}
<1>4. now = able \ {w}
  BY <1>1 DEF Catalog!Running
<1>5. able = IF discoveryInFlight = Absent THEN {} ELSE {discoveryInFlight}
  BY DEF Catalog!OneCommitter
<1>6. Catalog!OneCommitter'
  BY <1>3, <1>4, <1>5 DEF Catalog!OneCommitter, Catalog!Cleared
<1>7. QED BY <1>2, <1>6

(* No step lets a second worker commit.                                    *)
LEMMA OneStays ==
  ASSUME CatalogWorkers, Catalog!OneCommitter, [Catalog!Next]_Catalog!catalogVars
  PROVE  CatalogWorkers' /\ Catalog!OneCommitter'
<1>n. Absent \notin Nat
  BY ServiceAssumption DEF Catalog!CatalogConstants
<1>w. /\ workers \in Seq(CatalogWorker) /\ credential \in Nat
      /\ DOMAIN workers = 1..Len(workers) /\ \A w \in DOMAIN workers : workers[w] \in CatalogWorker
  BY LenProperties, ElementOfSeq DEF CatalogWorkers
<1>1. CASE Catalog!Trigger
  <2>1. \A w \in DOMAIN workers :
          /\ workers[w].token <= credential
          /\ workers[w].token = credential => workers[w].pc = "done"
    <3>1. CASE discoveryLastToken # credential
      BY <3>1 DEF CatalogWorkers
    <3>2. CASE discoveryLastToken = credential
      BY <3>2, <1>1 DEF Catalog!Trigger, Catalog!Enough, CatalogWorkers, Catalog!OneCommitter,
             Catalog!Running
    <3>3. QED BY <3>1, <3>2
  <2>2. QED BY <1>1, <1>n, <1>w, <2>1, StartsOne DEF Catalog!Trigger
<1>2. CASE Catalog!Rotate
  <2>1. /\ UNCHANGED <<workers, discoveryLastToken, discoveryInFlight>>
        /\ credential' = credential + 1
    BY <1>2 DEF Catalog!Rotate
  <2>2. CatalogWorkers'
    BY <1>w, <2>1 DEF CatalogWorkers, CatalogWorker
  <2>3. QED BY <2>1, <2>2 DEF Catalog!OneCommitter, Catalog!Running
<1>3. CASE Catalog!Seeded
  <2>1. /\ UNCHANGED <<credential, discoveryLastToken, discoveryInFlight>>
        /\ workers' = [w \in DOMAIN workers |->
                         IF workers[w].pc = "seeding" THEN [workers[w] EXCEPT !.pc = "fetching"]
                         ELSE workers[w]]
    BY <1>3 DEF Catalog!Seeded
  <2>2. \A w \in DOMAIN workers :
          /\ workers'[w] \in CatalogWorker /\ workers'[w].token = workers[w].token
          /\ Catalog!Running(w)' = Catalog!Running(w)
    BY <1>w, <2>1 DEF CatalogWorker, Catalog!Running
  <2>3. workers' \in Seq(CatalogWorker) /\ DOMAIN workers' = DOMAIN workers
    BY <1>w, <2>1, <2>2, Mapped
  <2>4. QED BY <2>1, <2>2, <2>3, SameRun
<1>4. ASSUME NEW w \in DOMAIN workers,
             Catalog!Superseded(w) PROVE CatalogWorkers' /\ Catalog!OneCommitter'
  <2>1. Catalog!Running(w) /\ UNCHANGED <<credential, discoveryLastToken>>
    BY <1>4 DEF Catalog!Superseded, Catalog!Running
  <2>2. QED BY <1>4, <1>n, <2>1, EndClears DEF Catalog!Superseded
<1>5. ASSUME NEW w \in DOMAIN workers,
             Catalog!Commits(w) PROVE CatalogWorkers' /\ Catalog!OneCommitter'
  <2>1. CASE credential # discoveryLastToken
    <3>1. \A v \in DOMAIN Catalog!Done(w) :
            /\ Catalog!Done(w)[v].token <= credential
            /\ Catalog!Done(w)[v].token = credential => Catalog!Done(w)[v].pc = "done"
      BY <2>1, EndsOne DEF CatalogWorkers
    <3>2. /\ Catalog!Starts(Catalog!Done(w)) /\ credential' = credential
          /\ Catalog!Done(w) \in Seq(CatalogWorker)
      BY <1>5, <2>1, EndsOne DEF Catalog!Commits
    <3>3. QED BY <1>n, <1>w, <3>1, <3>2, StartsOne
  <2>2. CASE credential = discoveryLastToken
    BY <1>5, <1>n, <2>2, EndClears DEF Catalog!Commits, Catalog!Running
  <2>3. QED BY <2>1, <2>2
<1>6. ASSUME NEW w \in DOMAIN workers, NEW retryable \in BOOLEAN, Catalog!Fails(w, retryable)
      PROVE  CatalogWorkers' /\ Catalog!OneCommitter'
  <2>1. CASE workers' = [workers EXCEPT ![w].pc = "waiting"] /\ UNCHANGED discoveryInFlight
    <3> DEFINE one == [workers[w] EXCEPT !.pc = "waiting"]
    <3>1. one \in CatalogWorker /\ one.token = workers[w].token /\ one.pc = "waiting"
      BY <1>w DEF CatalogWorker
    <3>2. workers' = [workers EXCEPT ![w] = one] /\ workers[w].pc = "fetching"
      BY <1>6, <2>1 DEF Catalog!Fails
    <3> HIDE DEF one
    <3>3. workers' \in Seq(CatalogWorker) /\ DOMAIN workers' = DOMAIN workers
      BY <1>w, <3>1, <3>2, ExceptSeq
    <3>4. \A v \in DOMAIN workers :
            workers'[v].token = workers[v].token /\ Catalog!Running(v)' = Catalog!Running(v)
      BY <1>w, <3>1, <3>2 DEF Catalog!Running
    <3>5. QED BY <1>6, <2>1, <3>3, <3>4, SameRun DEF Catalog!Fails
  <2>2. CASE workers' = Catalog!Done(w) /\ discoveryInFlight' = Catalog!Cleared(w)
    BY <1>6, <1>n, <2>2, EndClears DEF Catalog!Fails, Catalog!Running
  <2>3. QED BY <1>6, <2>1, <2>2 DEF Catalog!Fails
<1>7. ASSUME NEW w \in DOMAIN workers,
             Catalog!RetryTimer(w) PROVE CatalogWorkers' /\ Catalog!OneCommitter'
  <2>1. CASE workers[w].token # discoveryLastToken
    <3>1. workers' = Catalog!Done(w) /\ discoveryInFlight' = Catalog!Cleared(w)
      BY <1>7, <2>1, EndsOne DEF Catalog!RetryTimer
    <3>2. QED BY <1>7, <1>n, <3>1, EndClears DEF Catalog!RetryTimer, Catalog!Running
  <2>2. CASE workers[w].token = discoveryLastToken
    <3> DEFINE n   == workers[w].attempt + 1
               one == [workers[w] EXCEPT !.pc = "fetching", !.attempt = n]
    <3>0. n \in Nat
      BY <1>w DEF CatalogWorker
    <3>1. workers' = [workers EXCEPT ![w] = one] /\ workers[w].pc = "waiting"
      BY <1>7, <2>2 DEF Catalog!RetryTimer
    <3> HIDE DEF n
    <3>2. one \in CatalogWorker /\ one.token = workers[w].token /\ one.pc = "fetching"
      BY <1>w, <3>0 DEF CatalogWorker
    <3> HIDE DEF one
    <3>3. workers' \in Seq(CatalogWorker) /\ DOMAIN workers' = DOMAIN workers
      BY <1>w, <3>1, <3>2, ExceptSeq
    <3>4. \A v \in DOMAIN workers :
            workers'[v].token = workers[v].token /\ Catalog!Running(v)' = Catalog!Running(v)
      BY <1>w, <3>1, <3>2 DEF Catalog!Running
    <3>5. UNCHANGED <<credential, discoveryLastToken, discoveryInFlight>>
      BY <1>7, <1>w, <3>1, <3>2 DEF Catalog!RetryTimer
    <3>6. QED BY <3>3, <3>4, <3>5, SameRun
  <2>3. QED BY <2>1, <2>2
<1>8. CASE UNCHANGED <<workers, credential, discoveryLastToken, discoveryInFlight>>
  BY <1>8 DEF CatalogWorkers, Catalog!OneCommitter, Catalog!Running
<1>9. QED
  BY <1>1, <1>2, <1>3, <1>4, <1>5, <1>6, <1>7, <1>8
  DEF Catalog!Next, Catalog!Works, Catalog!Reads, Catalog!Written, Catalog!Ages,
      Catalog!catalogVars

-----------------------------------------------------------------------------
(* A start changes nothing of the file but that it is being read.          *)
LEMMA StartsReading ==
  ASSUME NEW now, Catalog!Starts(now), Fetched
  PROVE  /\ disk' \in [pc : {"unread", "reading", "read", "done"}, text : FileTimes(clock)]
         /\ disk'.pc # "done" => disk.pc # "done"
BY DEF Catalog!Starts, Fetched

(* What was not fetched after one moment was not after a later one.        *)
LEMMA TimesGrow ==
  ASSUME NEW n \in Nat
  PROVE  FileTimes(n) \subseteq FileTimes(n + 1)
<1>1. 0..n \subseteq 0..(n + 1)
  OBVIOUS
<1>2. QED BY <1>1 DEF FileTimes

(* No step makes a catalog older, or leaves one behind the time it says.   *)
LEMMA FetchedStays ==
  ASSUME Fetched, [Catalog!Next]_Catalog!catalogVars
  PROVE  /\ Fetched'
         /\ discoveredBody # Absent => discoveredBody' >= discoveredBody
<1>n. Absent \notin Nat
  BY ServiceAssumption DEF Catalog!CatalogConstants
<1>b. discoveredBody # Absent => discoveredBody \in Nat /\ discoveredBody >= discoveredBody
  BY DEF Fetched
<1>1. CASE Catalog!Trigger
  <2>1. /\ UNCHANGED <<discoveredBody, discoveryFetchedAt, writes, file, clock>>
        /\ Catalog!Starts(workers)
    BY <1>1 DEF Catalog!Trigger, Catalog!memory
  <2>2. QED BY <1>b, <2>1, StartsReading DEF Fetched
<1>2. CASE Catalog!Reads
  BY <1>2, <1>b DEF Catalog!Reads, Fetched, Catalog!memory
<1>3. CASE Catalog!Seeded
  <2>1. /\ UNCHANGED <<discoveryFetchedAt, writes, file, clock>> /\ disk.pc = "read"
        /\ disk' = [pc |-> "done", text |-> Absent]
        /\ discoveredBody' = IF Catalog!Adopts THEN disk.text.at ELSE discoveredBody
    BY <1>3 DEF Catalog!Seeded
  <2>2. Catalog!Adopts => disk.text.at \in 0..clock
    BY DEF Catalog!Adopts, Fetched, FileTimes
  <2>3. Fetched'
    BY <2>1, <2>2 DEF Fetched, FileTimes
  <2>4. ASSUME Catalog!Adopts, discoveredBody # Absent PROVE disk.text.at >= discoveredBody
    BY <2>1, <2>4 DEF Catalog!Adopts, Fetched
  <2>5. QED BY <1>b, <2>1, <2>3, <2>4
<1>4. ASSUME NEW w \in DOMAIN workers, Catalog!Commits(w)
      PROVE  Fetched' /\ (discoveredBody # Absent => discoveredBody' >= discoveredBody)
  <2> DEFINE now == clock + 1
  <2>1. /\ clock' = now /\ discoveredBody' = now /\ discoveryFetchedAt' = now
        /\ writes' = writes \cup {now} /\ file' = file
    BY <1>4 DEF Catalog!Commits
  <2>2. /\ disk' \in [pc : {"unread", "reading", "read", "done"}, text : FileTimes(clock)]
        /\ disk'.pc # "done" => disk.pc # "done"
    <3>1. CASE UNCHANGED disk
      BY <3>1 DEF Fetched
    <3>2. CASE Catalog!Starts(Catalog!Done(w))
      BY <3>2, StartsReading
    <3>3. QED BY <1>4, <3>1, <3>2 DEF Catalog!Commits
  <2>3. now \in Nat /\ now # 0 /\ 0..clock \subseteq 0..now /\ now \in 0..now
    BY DEF Fetched
  <2>4. FileTimes(clock) \subseteq FileTimes(now)
    BY TimesGrow DEF Fetched
  <2>5. discoveredBody # Absent => now >= discoveredBody
    BY DEF Fetched
  <2> HIDE DEF now
  <2>6. Fetched'
    <3>1. clock' \in Nat /\ discoveryFetchedAt' \in 0..clock' /\ discoveredBody' \in 0..clock'
      BY <2>1, <2>3
    <3>2. writes' \subseteq 0..clock' /\ file' \in FileTimes(clock')
      BY <2>1, <2>3, <2>4 DEF Fetched
    <3>3. disk' \in [pc : {"unread", "reading", "read", "done"}, text : FileTimes(clock')]
      BY <2>1, <2>2, <2>4
    <3>4. discoveredBody' = IF discoveryFetchedAt' = 0 THEN Absent ELSE discoveryFetchedAt'
      BY <2>1, <2>3
    <3>5. QED BY <3>1, <3>2, <3>3, <3>4 DEF Fetched
  <2>7. QED BY <2>1, <2>5, <2>6
<1>5. ASSUME NEW c \in writes, Catalog!Written(c)
      PROVE  Fetched' /\ (discoveredBody # Absent => discoveredBody' >= discoveredBody)
  <2>1. [at |-> c, age |-> "fresh"] \in FileTimes(clock)
    BY DEF Fetched, FileTimes
  <2>2. /\ UNCHANGED <<discoveredBody, discoveryFetchedAt, disk, clock>>
        /\ writes' \subseteq writes /\ file' \in {file, [at |-> c, age |-> "fresh"]}
    BY <1>5 DEF Catalog!Written, Catalog!memory
  <2>3. QED BY <1>b, <2>1, <2>2 DEF Fetched
<1>6. CASE UNCHANGED <<discoveredBody, discoveryFetchedAt, writes, file, disk, clock>>
  BY <1>6, <1>b DEF Fetched
<1>7. ASSUME NEW w \in DOMAIN workers, Catalog!Works(w)
      PROVE  Fetched' /\ (discoveredBody # Absent => discoveredBody' >= discoveredBody)
  BY <1>4, <1>6, <1>7 DEF Catalog!Works, Catalog!Superseded, Catalog!RetryTimer, Catalog!Fails,
         Catalog!memory
<1>8. QED
  BY <1>1, <1>2, <1>3, <1>5, <1>6, <1>7 DEF Catalog!Next, Catalog!Rotate, Catalog!Ages,
         Catalog!memory, Catalog!catalogVars

-----------------------------------------------------------------------------
(* The first discovery has not been triggered yet.                         *)
LEMMA CatalogInit ==
  ASSUME Catalog!Init
  PROVE  CatalogWorkers /\ Catalog!OneCommitter /\ Fetched
<1>1. workers = <<>> /\ DOMAIN workers = {} /\ workers \in Seq(CatalogWorker)
  BY EmptySeq DEF Catalog!Init
<1>2. CatalogWorkers /\ Catalog!OneCommitter
  BY <1>1 DEF Catalog!Init, CatalogWorkers, Catalog!OneCommitter
<1>3. Fetched
  BY DEF Catalog!Init, Fetched, FileTimes
<1>4. QED BY <1>2, <1>3

(* Of all workers one at most can still change the catalog, and it is the  *)
(* one said to be in flight, whatever tokens replace each other while      *)
(* workers fetch or wait (models.ts:506).                                  *)
LEMMA CatalogOneCommitter == Catalog!Spec => []Catalog!OneCommitter
<1> DEFINE Inv == CatalogWorkers /\ Catalog!OneCommitter
<1>1. Catalog!Init => Inv
  BY CatalogInit
<1>2. Inv /\ [Catalog!Next]_Catalog!catalogVars => Inv'
  BY OneStays
<1>3. QED BY <1>1, <1>2, PTL DEF Catalog!Spec

(* A catalog is never replaced by an older one, be it that of the file,    *)
(* which is read while a later discovery is ahead of it (models.ts:554).   *)
LEMMA CatalogNeverOlder == Catalog!Spec => Catalog!NeverOlder
<1>1. Catalog!Init => Fetched
  BY CatalogInit
<1>2. Fetched /\ [Catalog!Next]_Catalog!catalogVars =>
        Fetched'
        /\ [discoveredBody # Absent => discoveredBody' >= discoveredBody]_Catalog!catalogVars
  BY FetchedStays
<1>3. QED BY <1>1, <1>2, PTL DEF Catalog!Spec, Catalog!NeverOlder

-----------------------------------------------------------------------------
\* The logins and refreshes of the Grok provider.

RefreshRequest == [token : Nat, pc : {"sent", "verifying", "done", "failed", "refused"},
            new : Nat \cup {Absent}]
KeyCheck   == [pc : {"none", "look", "fetch", "good", "missing", "failed"},
            key : Nat \cup {Absent}, forced : BOOLEAN]

\* What ended the wait of a login, and where it is.
Led ==
  /\ login # "done" => result = Absent
  /\ method = "browser" => login \notin {"sleeping", "polling"}
  /\ method = "device" => login # "waiting"
  /\ method = "browser" /\ (login \in {"exchanging", "verifying"} \/ result = "credentials") =>
       first \in {"ok", "paste"}
  /\ first \in {"ok", "paste"} =>
       login \in {"exchanging", "verifying", "done"} /\ result # "cancelled"
  /\ method \in {"browser", "device"}

ChecksTyped == checks \in [0..MaxRefresh -> KeyCheck] /\ published \in Nat

\* One refresh at most is under way, with the token that pi has, and it holds
\* the lock of that; the next token, or the one to come, is the server's.
UnderWay(q) == q.pc \in {"sent", "verifying"}
OneRefresh ==
  /\ requests \in Seq(RefreshRequest) /\ stored \in Nat /\ valid \in Nat
  /\ \A r, s \in DOMAIN requests : UnderWay(requests[r]) /\ UnderWay(requests[s]) => r = s
  /\ \A r \in DOMAIN requests : UnderWay(requests[r]) =>
       requests[r].token = stored /\ <<stored, r>> \in refreshLocks
  /\ \A r \in DOMAIN requests : requests[r].pc = "verifying" => requests[r].new \in Nat
InStep ==
  ~lost =>
    /\ \A r \in DOMAIN requests : requests[r].pc = "verifying" => requests[r].new = valid
    /\ (\A r \in DOMAIN requests : requests[r].pc # "verifying") => stored = valid

AuthInv == Led /\ ChecksTyped /\ OneRefresh /\ InStep /\ Auth!NoneRefused

-----------------------------------------------------------------------------
(* A key is missing for a check only when what is published has changed    *)
(* since the token.                                                        *)
LEMMA CheckSteps ==
  ASSUME ChecksTyped, [Auth!Next]_Auth!authVars
  PROVE  /\ ChecksTyped'
         /\ \A f \in DOMAIN checks :
              checks'[f].pc = "missing" /\ checks[f].pc # "missing" => checks[f].key # published
<1> DEFINE Goal == /\ ChecksTyped'
                   /\ \A f \in DOMAIN checks :
                        checks'[f].pc = "missing" /\ checks[f].pc # "missing" =>
                          checks[f].key # published
<1>1. DOMAIN checks = 0..MaxRefresh /\ \A f \in DOMAIN checks : checks[f] \in KeyCheck
  BY DEF ChecksTyped
<1>2. ASSUME UNCHANGED <<checks, published>> PROVE Goal
  BY <1>2 DEF ChecksTyped
<1>3. ASSUME NEW f, NEW c \in KeyCheck, checks' = [checks EXCEPT ![f] = c], UNCHANGED published,
             c.pc = "missing" /\ f \in DOMAIN checks => checks[f].key # published
      PROVE  Goal
  BY <1>1, <1>3 DEF ChecksTyped
<1>4. ASSUME NEW f, Auth!Checking(f), UNCHANGED published PROVE Goal
  <2> DEFINE c == [pc |-> "look", key |-> published, forced |-> FALSE]
  <2>1. c \in KeyCheck /\ c.pc # "missing"
    BY DEF KeyCheck, ChecksTyped
  <2>2. QED BY <1>3, <1>4, <2>1 DEF Auth!Checking
<1>5. ASSUME NEW f \in DOMAIN checks, Auth!Looks(f) PROVE Goal
  <2> DEFINE c == [checks[f] EXCEPT !.pc = IF jwksCache = checks[f].key THEN "good" ELSE "fetch",
                                    !.forced = (jwksCache # Absent)]
  <2>1. checks[f] \in KeyCheck
    BY <1>1
  <2>2. c \in KeyCheck /\ c.pc # "missing"
    BY <2>1 DEF KeyCheck
  <2>3. checks' = [checks EXCEPT ![f] = c] /\ UNCHANGED published
    BY <1>1, <1>5, <2>1 DEF Auth!Looks, Auth!keyVars, KeyCheck
  <2> HIDE DEF c
  <2>4. QED BY <1>3, <2>2, <2>3
<1>6. ASSUME NEW f \in DOMAIN checks, Auth!Fetches(f) PROVE Goal
  <2>1. checks[f] \in KeyCheck
    BY <1>1
  <2>2. CASE checks' = [checks EXCEPT ![f].pc = Auth!AfterFetch(checks[f]), ![f].forced = TRUE]
    <3> DEFINE c == [checks[f] EXCEPT !.pc = Auth!AfterFetch(checks[f]), !.forced = TRUE]
    <3>1. c \in KeyCheck /\ (c.pc = "missing" => checks[f].key # published)
      BY <2>1 DEF KeyCheck, Auth!AfterFetch
    <3>2. checks' = [checks EXCEPT ![f] = c] /\ UNCHANGED published
      BY <1>1, <1>6, <2>1, <2>2 DEF Auth!Fetches, KeyCheck
    <3> HIDE DEF c
    <3>3. QED BY <1>3, <3>1, <3>2
  <2>3. CASE checks' = [checks EXCEPT ![f].pc = "failed"]
    <3> DEFINE c == [checks[f] EXCEPT !.pc = "failed"]
    <3>1. c \in KeyCheck /\ c.pc # "missing"
      BY <2>1 DEF KeyCheck
    <3>2. checks' = [checks EXCEPT ![f] = c] /\ UNCHANGED published
      BY <1>1, <1>6, <2>1, <2>3 DEF Auth!Fetches, KeyCheck
    <3> HIDE DEF c
    <3>3. QED BY <1>3, <3>1, <3>2
  <2>4. QED BY <1>6, <2>2, <2>3 DEF Auth!Fetches
<1>7. ASSUME NEW f, f \notin DOMAIN checks, Auth!Looks(f) \/ Auth!Fetches(f) PROVE Goal
  <2>1. UNCHANGED published
    BY <1>7 DEF Auth!Looks, Auth!Fetches, Auth!keyVars
  <2>2. checks' = [g \in DOMAIN checks |-> checks[g]]
    BY <1>7 DEF Auth!Looks, Auth!Fetches
  <2>3. checks' \in [0..MaxRefresh -> KeyCheck] /\ \A g \in DOMAIN checks : checks'[g] = checks[g]
    BY <1>1, <2>2
  <2>4. QED BY <2>1, <2>3 DEF ChecksTyped
<1>8. ASSUME Auth!RotatesKey PROVE Goal
  BY <1>8 DEF Auth!RotatesKey, ChecksTyped
<1>9. ASSUME Auth!Token, UNCHANGED published PROVE Goal
  BY <1>2, <1>4, <1>9 DEF Auth!Token
<1>10. ASSUME Auth!LoginWorks PROVE Goal
  BY <1>1, <1>2, <1>5, <1>6, <1>7, <1>9, <1>10
     DEF Auth!LoginWorks, Auth!Discovers, Auth!Callback, Auth!Exchange, Auth!Verified,
         Auth!Sleeps, Auth!Polls, Auth!keyVars
<1>11. ASSUME NEW r, Auth!Refreshes(r) PROVE Goal
  BY <1>2, <1>4, <1>5, <1>6, <1>7, <1>11 DEF Auth!Refreshes, Auth!Answered, Auth!Unsent,
         Auth!RefreshVerified, Auth!keyVars
<1>12. QED
  BY <1>2, <1>8, <1>10, <1>11
     DEF Auth!Next, Auth!Abort, Auth!Expires, Auth!Login, Auth!Callback, Auth!Paste,
         Auth!Refresh, Auth!authVars, Auth!keyVars

(* Every step of a login keeps what decided it.                            *)
LEMMA LoginSteps ==
  ASSUME Led, [Auth!Next]_Auth!authVars
  PROVE  Led'
<1>1. ASSUME UNCHANGED Auth!loginVars PROVE Led'
  BY <1>1 DEF Led, Auth!loginVars
<1>2. ASSUME NEW m \in {"browser", "device"}, Auth!Login(m) PROVE Led'
  BY <1>2, ServiceAssumption, AbsentAssumption DEF Led, Auth!Login, Words
<1>3. CASE Auth!Discovers
  BY <1>3 DEF Led, Auth!Discovers, Auth!Ends
<1>4. ASSUME NEW o \in {"ok", "bad", "cancelled", "timeout"}, Auth!Callback(o) PROVE Led'
  BY <1>4, ServiceAssumption, AbsentAssumption DEF Led, Auth!Callback, Auth!Ends, Words
<1>5. ASSUME NEW o \in {"paste", "bad", "escape"}, Auth!Paste(o) PROVE Led'
  BY <1>5, ServiceAssumption, AbsentAssumption DEF Led, Auth!Paste, Auth!Ends, Words
<1>6. CASE Auth!Exchange
  BY <1>6 DEF Led, Auth!Exchange, Auth!Token, Auth!Ends
<1>7. CASE Auth!Verified
  BY <1>7 DEF Led, Auth!Verified, Auth!Ends
<1>8. CASE Auth!Sleeps
  BY <1>8 DEF Led, Auth!Sleeps, Auth!Ends
<1>9. CASE Auth!Polls
  BY <1>9 DEF Led, Auth!Polls, Auth!Token, Auth!Ends
<1>10. CASE Auth!Abort
  BY <1>10 DEF Led, Auth!Abort, Auth!Ends
<1>11. ASSUME NEW f, Auth!Looks(f) \/ Auth!Fetches(f) PROVE Led'
  BY <1>1, <1>11 DEF Auth!Looks, Auth!Fetches
<1>12. ASSUME NEW r, Auth!Refreshes(r) PROVE Led'
  BY <1>1, <1>11, <1>12 DEF Auth!Refreshes, Auth!Answered, Auth!Unsent, Auth!RefreshVerified
<1>13. QED
  BY <1>1, <1>2, <1>3, <1>4, <1>5, <1>6, <1>7, <1>8, <1>9, <1>10, <1>11, <1>12
     DEF Auth!Next, Auth!LoginWorks, Auth!Expires, Auth!RotatesKey, Auth!Refresh, Auth!authVars,
         Auth!loginVars

-----------------------------------------------------------------------------
(* One request changes, the others stay.                                   *)
LEMMA RequestChanged ==
  ASSUME NEW r \in DOMAIN requests, requests \in Seq(RefreshRequest), NEW q \in RefreshRequest,
         requests' = [requests EXCEPT ![r] = q]
  PROVE  /\ requests' \in Seq(RefreshRequest) /\ DOMAIN requests' = DOMAIN requests
         /\ requests'[r] = q /\ \A s \in DOMAIN requests \ {r} : requests'[s] = requests[s]
<1>1. QED OBVIOUS

\* What the refreshes of tokens keep.
RefreshInv == OneRefresh /\ InStep /\ Auth!NoneRefused

(* A request that settles leaves none under way.                           *)
LEMMA Settling ==
  ASSUME RefreshInv, NEW r \in DOMAIN requests, UnderWay(requests[r]),
         NEW pc \in {"done", "failed", "refused"}, NEW new \in Nat \cup {Absent},
         Auth!Settles(r, pc, new), valid' \in Nat, lost' \in {lost, TRUE},
         ~lost' => pc # "refused" /\ stored' = valid'
  PROVE  RefreshInv'
<1> DEFINE q == [requests[r] EXCEPT !.pc = pc]
<1>1. requests[r] \in RefreshRequest
  BY DEF RefreshInv, OneRefresh
<1>2. q \in RefreshRequest /\ ~UnderWay(q) /\ q.pc = pc
  BY <1>1 DEF RefreshRequest, UnderWay
<1>3. requests' = [requests EXCEPT ![r] = q]
  BY <1>1 DEF Auth!Settles, RefreshInv, OneRefresh
<1> HIDE DEF q
<1>4. /\ requests' \in Seq(RefreshRequest) /\ DOMAIN requests' = DOMAIN requests
      /\ requests'[r] = q /\ \A s \in DOMAIN requests \ {r} : requests'[s] = requests[s]
  BY <1>2, <1>3, RequestChanged DEF RefreshInv, OneRefresh
<1>5. \A s \in DOMAIN requests' : ~UnderWay(requests'[s])
  BY <1>2, <1>4 DEF RefreshInv, OneRefresh
<1>6. stored' \in Nat
  BY DEF Auth!Settles, RefreshInv, OneRefresh
<1>7. OneRefresh'
  BY <1>4, <1>5, <1>6 DEF OneRefresh, UnderWay
<1>8. InStep'
  BY <1>4, <1>5 DEF InStep, UnderWay
<1>9. Auth!NoneRefused'
  BY <1>2, <1>4 DEF RefreshInv, Auth!NoneRefused
<1>10. QED BY <1>7, <1>8, <1>9 DEF RefreshInv

(* The answer of the token endpoint.                                       *)
LEMMA AnsweredKeeps ==
  ASSUME RefreshInv, NEW r \in DOMAIN requests, Auth!Answered(r)
  PROVE  RefreshInv'
<1>1. /\ requests[r] \in RefreshRequest /\ requests[r].pc = "sent" /\ UnderWay(requests[r])
      /\ requests[r].token = stored /\ stored \in Nat /\ valid \in Nat
  <2>1. requests[r].pc = "sent" /\ UnderWay(requests[r])
    BY DEF Auth!Answered, UnderWay
  <2>2. requests[r] \in RefreshRequest
    BY DEF RefreshInv, OneRefresh
  <2>3. requests[r].token = stored /\ stored \in Nat /\ valid \in Nat
    BY <2>1 DEF RefreshInv, OneRefresh
  <2>4. QED BY <2>1, <2>2, <2>3
<1>2. \A s \in DOMAIN requests : s # r => ~UnderWay(requests[s])
  BY <1>1 DEF RefreshInv, OneRefresh
<1>3. ~lost => stored = valid
  BY <1>1, <1>2 DEF RefreshInv, InStep, UnderWay
<1>4. CASE requests[r].token # valid
  <2>1. Auth!Settles(r, "refused", Absent) /\ valid' = valid /\ lost' = lost /\ lost
    BY <1>1, <1>3, <1>4 DEF Auth!Answered
  <2>2. QED BY <1>1, <2>1, Settling
<1>5. CASE requests[r].token = valid
  <2>1. valid' = valid + 1 /\ valid' \in Nat
    BY <1>1, <1>5 DEF Auth!Answered
  <2>2. CASE Auth!Settles(r, "done", valid') /\ UNCHANGED lost
    <3>1. stored' = valid'
      BY <2>1, <2>2, ServiceAssumption, AbsentAssumption DEF Auth!Settles
    <3>2. QED BY <1>1, <2>1, <2>2, <3>1, Settling
  <2>3. CASE /\ requests' = [requests EXCEPT ![r].pc = "verifying", ![r].new = valid']
             /\ UNCHANGED <<callers, refreshLocks, stored, lost>>
    <3> DEFINE q == [requests[r] EXCEPT !.pc = "verifying", !.new = valid']
    <3>1. q \in RefreshRequest /\ q.pc = "verifying" /\ q.new = valid' /\ q.token = stored
      BY <1>1, <2>1 DEF RefreshRequest
    <3>2. requests' = [requests EXCEPT ![r] = q]
      BY <1>1, <2>3 DEF RefreshInv, OneRefresh, RefreshRequest
    <3> HIDE DEF q
    <3>3. /\ requests' \in Seq(RefreshRequest) /\ DOMAIN requests' = DOMAIN requests
          /\ requests'[r] = q /\ \A s \in DOMAIN requests \ {r} : requests'[s] = requests[s]
      BY <3>1, <3>2, RequestChanged DEF RefreshInv, OneRefresh
    <3>4. OneRefresh'
      BY <1>1, <1>2, <2>1, <2>3, <3>1, <3>3 DEF RefreshInv, OneRefresh
    <3>5. InStep'
      BY <1>2, <3>1, <3>3 DEF InStep, UnderWay
    <3>6. Auth!NoneRefused'
      BY <2>3, <3>1, <3>3 DEF RefreshInv, Auth!NoneRefused
    <3>7. QED BY <3>4, <3>5, <3>6 DEF RefreshInv
  <2>4. CASE Auth!Settles(r, "failed", Absent) /\ lost' = TRUE
    BY <1>1, <2>1, <2>4, Settling
  <2>5. QED BY <1>5, <2>2, <2>3, <2>4 DEF Auth!Answered
<1>6. QED BY <1>4, <1>5

(* Every step keeps one refresh at most under way.                         *)
LEMMA RefreshSteps ==
  ASSUME RefreshInv, [Auth!Next]_Auth!authVars
  PROVE  RefreshInv'
<1>1. ASSUME UNCHANGED <<requests, stored, valid, refreshLocks, lost>> PROVE RefreshInv'
  BY <1>1 DEF RefreshInv, OneRefresh, InStep, Auth!NoneRefused
<1>2. ASSUME NEW c \in Callers, Auth!Refresh(c) PROVE RefreshInv'
  <2>1. CASE UNCHANGED <<requests, refreshLocks>>
    BY <1>1, <1>2, <2>1 DEF Auth!Refresh
  <2>2. CASE ~Auth!Joins(c)
    <3> DEFINE q == [token |-> stored, pc |-> "sent", new |-> Absent]
    <3>1. /\ requests' = Append(requests, q) /\ UNCHANGED <<stored, valid, lost>>
          /\ refreshLocks' = refreshLocks \cup {<<stored, Len(requests) + 1>>}
      BY <1>2, <2>2 DEF Auth!Refresh
    <3>2. \A l \in refreshLocks : l[1] # stored
      BY <2>2 DEF Auth!Joins, Auth!Locked
    <3>3. \A r \in DOMAIN requests : ~UnderWay(requests[r])
      BY <3>2 DEF RefreshInv, OneRefresh
    <3>4. /\ q \in RefreshRequest /\ q.pc = "sent" /\ q.token = stored
      BY DEF RefreshRequest, RefreshInv, OneRefresh
    <3> HIDE DEF q
    <3>5. /\ requests' \in Seq(RefreshRequest)
          /\ DOMAIN requests' = DOMAIN requests \cup {Len(requests) + 1}
          /\ requests'[Len(requests) + 1] = q /\ Len(requests) + 1 \notin DOMAIN requests
          /\ \A r \in DOMAIN requests : requests'[r] = requests[r]
      <4>1. requests \in Seq(RefreshRequest) /\ Len(requests) \in Nat
        BY DEF RefreshInv, OneRefresh
      <4>2. QED BY <3>1, <3>4, <4>1
    <3>6. OneRefresh'
      BY <3>1, <3>3, <3>4, <3>5 DEF RefreshInv, OneRefresh, UnderWay
    <3>7. InStep'
      BY <3>1, <3>3, <3>4, <3>5 DEF RefreshInv, InStep, UnderWay
    <3>8. Auth!NoneRefused'
      BY <3>1, <3>4, <3>5 DEF RefreshInv, Auth!NoneRefused
    <3>9. QED BY <3>6, <3>7, <3>8 DEF RefreshInv
  <2>3. QED BY <1>2, <2>1, <2>2 DEF Auth!Refresh
<1>3. ASSUME NEW r \in DOMAIN requests, Auth!Unsent(r) PROVE RefreshInv'
  <2>1. UnderWay(requests[r]) /\ valid \in Nat /\ Auth!Settles(r, "failed", Absent)
    BY <1>3 DEF RefreshInv, OneRefresh, UnderWay, Auth!Unsent
  <2>2. \A s \in DOMAIN requests : s # r => ~UnderWay(requests[s])
    BY <2>1 DEF RefreshInv, OneRefresh
  <2>3. ~lost => stored = valid
    BY <1>3, <2>2 DEF RefreshInv, InStep, UnderWay, Auth!Unsent
  <2>4. stored' = stored /\ valid' = valid /\ lost' = lost
    BY <1>3, <2>1 DEF Auth!Settles, Auth!Unsent
  <2>5. QED BY <2>1, <2>3, <2>4, Settling
<1>4. ASSUME NEW r \in DOMAIN requests, Auth!RefreshVerified(r) PROVE RefreshInv'
  <2>1. /\ UnderWay(requests[r]) /\ valid \in Nat /\ valid' = valid
        /\ requests[r].new \in Nat /\ (~lost => requests[r].new = valid)
    BY <1>4 DEF RefreshInv, OneRefresh, InStep, UnderWay, Auth!RefreshVerified
  <2>2. CASE Auth!Settles(r, "done", requests[r].new) /\ UNCHANGED lost
    <3>1. stored' = requests[r].new
      BY <2>1, <2>2, ServiceAssumption, AbsentAssumption DEF Auth!Settles
    <3>2. QED BY <2>1, <2>2, <3>1, Settling
  <2>3. CASE Auth!Settles(r, "failed", Absent) /\ lost' = TRUE
    BY <2>1, <2>3, Settling
  <2>4. QED BY <1>4, <2>2, <2>3 DEF Auth!RefreshVerified
<1>5. ASSUME NEW f, Auth!Looks(f) \/ Auth!Fetches(f) PROVE RefreshInv'
  BY <1>1, <1>5 DEF Auth!Looks, Auth!Fetches, Auth!refreshVars
<1>6. ASSUME Auth!LoginWorks PROVE RefreshInv'
  BY <1>1, <1>5, <1>6 DEF Auth!LoginWorks, Auth!Discovers, Auth!Callback, Auth!Exchange,
         Auth!Verified, Auth!Sleeps, Auth!Polls,
                          Auth!refreshVars
<1>7. QED
  BY <1>1, <1>2, <1>3, <1>4, <1>5, <1>6, AnsweredKeeps
     DEF Auth!Next, Auth!Refreshes, Auth!Abort, Auth!Expires, Auth!RotatesKey, Auth!Login,
         Auth!Callback, Auth!Paste, Auth!authVars, Auth!refreshVars

(* Nothing is under way at first.                                          *)
LEMMA AuthInit == Auth!Init => AuthInv
<1> SUFFICES ASSUME Auth!Init PROVE AuthInv
  OBVIOUS
<1>1. Led
  BY ServiceAssumption, AbsentAssumption DEF Auth!Init, Led, Words
<1>2. ChecksTyped
  BY ServiceAssumption, AbsentAssumption DEF Auth!Init, ChecksTyped, KeyCheck, Auth!NoCheck
<1>3. requests = <<>> /\ requests \in Seq(RefreshRequest) /\ DOMAIN requests = {}
  BY EmptySeq DEF Auth!Init
<1>4. OneRefresh /\ InStep /\ Auth!NoneRefused
  BY <1>3 DEF Auth!Init, OneRefresh, InStep, Auth!NoneRefused
<1>5. QED BY <1>1, <1>2, <1>4 DEF AuthInv

(* A refresh token is sent once, what ends the wait of a login first       *)
(* decides it, and a key is missing only if it is no longer published      *)
(* (oauth.ts:1284, :1238, :765).                                           *)
LEMMA AuthHolds ==
  Auth!Spec => []Auth!NoneRefused /\ []Auth!FirstOutcomeCounts /\ Auth!MissingIsGone
<1>1. AuthInv /\ [Auth!Next]_Auth!authVars =>
        /\ AuthInv'
        /\ [\A f \in DOMAIN checks :
              checks'[f].pc = "missing" /\ checks[f].pc # "missing" =>
                checks[f].key # published]_Auth!authVars
  BY CheckSteps, LoginSteps, RefreshSteps DEF AuthInv, RefreshInv
<1>2. AuthInv => Auth!NoneRefused /\ Auth!FirstOutcomeCounts
  BY DEF AuthInv, Led, Auth!FirstOutcomeCounts
<1>3. QED BY <1>1, <1>2, AuthInit, PTL DEF Auth!Spec, Auth!MissingIsGone

(* Of the Grok provider: one worker at most can change the catalog, which  *)
(* never gets older; a refresh token is sent once, what ends the wait of a *)
(* login first decides it, and a key is missing only if it is no longer    *)
(* published (models.ts:506, :554; oauth.ts:1284, :1238, :765).            *)
THEOREM GrokIsSound == Catalog!Spec /\ Auth!Spec => GrokSound
<1>1. QED BY CatalogOneCommitter, CatalogNeverOlder, AuthHolds, PTL DEF GrokSound

-----------------------------------------------------------------------------
\* The manager of models.json.

\* What a process is a record of, and a provider without bounds.
ProcFields == {"flow", "pc", "seen", "picked", "working", "wanted", "kept"}
ProviderEntry ==
  [plain : Values, headers : {Absent, "h"}, extra : {Absent, "x"}, models : Seq(Models)]

\* A file of providers that have models, none twice.
GoodFile(f) ==
  /\ f = [i \in DOMAIN f |-> f[i]]
  /\ \A i \in DOMAIN f :
       f[i] \in ProviderEntry /\ f[i].models # <<>> /\ Manage!IsInjective(f[i].models)

\* A process, and what it works on.
Proper(proc) ==
  /\ proc = [f \in ProcFields |-> proc[f]]
  /\ proc.working \in ProviderEntry /\ Manage!IsInjective(proc.working.models)
  /\ proc.pc = "menu" \/ proc.flow \in {"add", "edit", "delete"}
  /\ proc.pc = "models" => proc.flow # "delete"
  /\ proc.pc = "fields" => proc.flow = "edit"
  /\ proc.pc = "confirm" =>
       proc.flow = "delete" \/ (proc.flow = "add" /\ proc.working.models # <<>>)

\* What a process wants to write changes one provider of the file f.
Changes(proc, f) ==
  LET i == proc.picked
  IN  /\ GoodFile(proc.wanted)
      /\ \A j : j # i =>
           /\ j \in DOMAIN proc.wanted <=> j \in DOMAIN f
           /\ j \in DOMAIN f => proc.wanted[j] = f[j]
      /\ i \in DOMAIN f <=> proc.flow # "add"
      /\ proc.flow = "edit" /\ f[i].extra # Absent => proc.wanted[i].extra # Absent

\* A process that is about to write.
Saves(proc) == proc.pc \in {"copying", "writing"}

\* The file and the processes.
ManageTyped ==
  /\ GoodFile(Manage!Read(modelsFile)) /\ procs = [p \in Processes |-> procs[p]]
  /\ \A p \in Processes : Proper(procs[p])

\* One process writes at a time, and what it wants still fits the file.
OneSaves == \A p, q \in Processes : Saves(procs[p]) /\ Saves(procs[q]) => p = q
Fitting ==
  \A p \in Processes :
    /\ Saves(procs[p]) => Changes(procs[p], Manage!Read(modelsFile))
    /\ procs[p].pc = "writing" => modelsFile # Absent /\ procs[p].kept = modelsFile

ManageInv == ManageTyped /\ OneSaves /\ Fitting

-----------------------------------------------------------------------------
(* A model that is not there yet can be added,                             *)
LEMMA Appended ==
  ASSUME NEW s \in Seq(Models), Manage!IsInjective(s), NEW m \in Models, ~Manage!Contains(s, m)
  PROVE  Append(s, m) \in Seq(Models) /\ Manage!IsInjective(Append(s, m))
<1>1. /\ Len(s) \in Nat /\ DOMAIN s = 1..Len(s) /\ DOMAIN Append(s, m) = 1..(Len(s) + 1)
      /\ \A k \in 1..Len(s) : Append(s, m)[k] = s[k] /\ s[k] # m
      /\ Append(s, m)[Len(s) + 1] = m
  BY DEF Manage!Contains
<1>2. QED BY <1>1 DEF Manage!IsInjective

(* or several at once.                                                     *)
LEMMA Concatenated ==
  ASSUME NEW s \in Seq(Models), Manage!IsInjective(s), NEW t \in Seq(Models),
         Manage!IsInjective(t),
         \A k \in DOMAIN t : ~Manage!Contains(s, t[k])
  PROVE  s \o t \in Seq(Models) /\ Manage!IsInjective(s \o t)
<1>1. /\ Len(s) \in Nat /\ Len(t) \in Nat /\ DOMAIN s = 1..Len(s) /\ DOMAIN t = 1..Len(t)
  OBVIOUS
<1>2. /\ s \o t \in Seq(Models) /\ Len(s \o t) = Len(s) + Len(t)
      /\ \A k \in 1..(Len(s) + Len(t)) :
           (s \o t)[k] = IF k <= Len(s) THEN s[k] ELSE t[k - Len(s)]
  BY ConcatProperties, Zenon
<1>3. \A k \in 1..Len(s), l \in 1..Len(t) : s[k] # t[l]
  BY <1>1 DEF Manage!Contains
<1> DEFINE u == s \o t
<1>4. DOMAIN u = 1..(Len(s) + Len(t))
  BY <1>1, <1>2
<1> HIDE DEF u
<1>5. ASSUME NEW a \in DOMAIN u, NEW b \in DOMAIN u, u[a] = u[b] PROVE a = b
  <2>1. /\ u[a] = IF a <= Len(s) THEN s[a] ELSE t[a - Len(s)]
        /\ u[b] = IF b <= Len(s) THEN s[b] ELSE t[b - Len(s)]
    BY <1>2, <1>4 DEF u
  <2>2. /\ a <= Len(s) => a \in 1..Len(s)
        /\ ~(a <= Len(s)) => a - Len(s) \in 1..Len(t)
        /\ b <= Len(s) => b \in 1..Len(s)
        /\ ~(b <= Len(s)) => b - Len(s) \in 1..Len(t)
        /\ a \in Nat /\ b \in Nat
    BY <1>1, <1>4
  <2>3. (a <= Len(s)) <=> (b <= Len(s))
    BY <1>3, <1>5, <2>1, <2>2
  <2>4. CASE a <= Len(s)
    BY <1>1, <1>5, <2>1, <2>2, <2>3, <2>4 DEF Manage!IsInjective
  <2>5. CASE ~(a <= Len(s))
    <3>1. a - Len(s) = b - Len(s)
      BY <1>1, <1>5, <2>1, <2>2, <2>3, <2>5 DEF Manage!IsInjective
    <3>2. QED BY <1>1, <2>2, <3>1
  <2>6. QED BY <2>4, <2>5
<1>6. QED BY <1>2, <1>5 DEF Manage!IsInjective, u

(* The number of elements is the same wherever it is counted.              *)
LEMMA SameCount == \A S : Manage!Cardinality(S) = Cardinality(S)
BY Zenon DEF Manage!Cardinality, Cardinality

(* A finite set as a sequence has none twice.                              *)
LEMMA Listing ==
  ASSUME NEW S \in SUBSET Models, IsFiniteSet(S)
  PROVE  /\ Manage!SetToSeq(S) \in Seq(Models) /\ Manage!IsInjective(Manage!SetToSeq(S))
         /\ \A k \in DOMAIN Manage!SetToSeq(S) : Manage!SetToSeq(S)[k] \in S
<1>1. Cardinality(S) \in Nat /\ ExistsBijection(1..Cardinality(S), S)
  BY FS_CardinalityType
<1>2. \E f \in [1..Cardinality(S) -> S] : Manage!IsInjective(f)
  BY <1>1 DEF ExistsBijection, Bijection, Injection, IsInjective, Manage!IsInjective
<1>3. Manage!Cardinality(S) = Cardinality(S)
  BY SameCount
<1>4. Manage!SetToSeq(S) \in [1..Cardinality(S) -> S] /\ Manage!IsInjective(Manage!SetToSeq(S))
  BY <1>2, <1>3 DEF Manage!SetToSeq
<1>5. Manage!SetToSeq(S) \in Seq(Models)
  BY <1>1, <1>4
<1>6. QED BY <1>4, <1>5

(* A model gets another id,                                                *)
LEMMA Renamed ==
  ASSUME NEW s \in Seq(Models), Manage!IsInjective(s), NEW m \in Models, ~Manage!Contains(s, m),
         NEW k \in DOMAIN s
  PROVE  /\ [s EXCEPT ![k] = m] \in Seq(Models) /\ Manage!IsInjective([s EXCEPT ![k] = m])
         /\ [s EXCEPT ![k] = m] # <<>>
<1>1. \A j \in DOMAIN s : s[j] # m
  BY DEF Manage!Contains
<1>2. Manage!IsInjective([s EXCEPT ![k] = m])
  BY <1>1 DEF Manage!IsInjective
<1>3. QED BY <1>2

(* or is removed.                                                          *)
LEMMA Removed ==
  ASSUME NEW s \in Seq(Models), Manage!IsInjective(s), NEW k \in DOMAIN s
  PROVE  /\ Manage!RemoveAt(s, k) \in Seq(Models) /\ Manage!IsInjective(Manage!RemoveAt(s, k))
         /\ Len(s) > 1 => Manage!RemoveAt(s, k) # <<>>
<1> DEFINE head == SubSeq(s, 1, k - 1)
           tail == SubSeq(s, k + 1, Len(s))
<1>1. k \in 1..Len(s) /\ Len(s) \in Nat /\ DOMAIN s = 1..Len(s)
  OBVIOUS
<1>2. Manage!RemoveAt(s, k) = head \o tail
  BY DEF Manage!RemoveAt
<1>3. /\ head \in Seq(Models) /\ Len(head) = k - 1 /\ DOMAIN head = 1..(k - 1)
      /\ \A j \in 1..(k - 1) : head[j] = s[j]
  BY <1>1
<1>4. /\ tail \in Seq(Models) /\ Len(tail) = Len(s) - k /\ DOMAIN tail = 1..(Len(s) - k)
      /\ \A j \in 1..(Len(s) - k) : tail[j] = s[k + j]
  BY <1>1
<1> HIDE DEF head, tail
<1>5. Manage!IsInjective(head)
  BY <1>1, <1>3 DEF Manage!IsInjective
<1>6. Manage!IsInjective(tail)
  <2>1. ASSUME NEW a \in 1..(Len(s) - k), NEW b \in 1..(Len(s) - k),
               tail[a] = tail[b] PROVE a = b
    <3>1. s[k + a] = s[k + b] /\ k + a \in DOMAIN s /\ k + b \in DOMAIN s
      BY <1>1, <1>4, <2>1
    <3>2. k + a = k + b
      BY <3>1 DEF Manage!IsInjective
    <3>3. QED BY <1>1, <3>2
  <2>2. QED BY <1>4, <2>1 DEF Manage!IsInjective
<1>7. \A j \in DOMAIN tail : ~Manage!Contains(head, tail[j])
  <2>1. ASSUME NEW j \in DOMAIN tail, NEW i \in 1..Len(head), head[i] = tail[j] PROVE FALSE
    <3>1. s[i] = s[k + j] /\ i \in DOMAIN s /\ k + j \in DOMAIN s /\ i # k + j
      BY <1>1, <1>3, <1>4, <2>1
    <3>2. QED BY <3>1 DEF Manage!IsInjective
  <2>2. QED BY <2>1 DEF Manage!Contains
<1>8. head \o tail \in Seq(Models) /\ Manage!IsInjective(head \o tail)
  BY <1>3, <1>4, <1>5, <1>6, <1>7, Concatenated
<1>9. Len(s) > 1 => head \o tail # <<>>
  BY <1>1, <1>3, <1>4
<1>10. QED BY <1>2, <1>8, <1>9

-----------------------------------------------------------------------------
(* Another working copy leaves a process proper.                           *)
LEMMA WorkingSet ==
  ASSUME NEW proc, Proper(proc), proc.pc \in {"models", "fields"}, NEW e \in ProviderEntry,
         Manage!IsInjective(e.models)
  PROVE  LET q == [proc EXCEPT !.working = e]
         IN  Proper(q) /\ q.pc = proc.pc
BY DEF Proper, ProcFields

(* A step of one process that does not save then keeps the invariant.      *)
LEMMA OneQuiet ==
  ASSUME ManageInv, NEW p \in Processes, NEW q, Proper(q), ~Saves(q),
         procs' = [procs EXCEPT ![p] = q], UNCHANGED modelsFile
  PROVE  ManageInv'
<1>1. procs'[p] = q /\ \A r \in Processes \ {p} : procs'[r] = procs[r]
  BY DEF ManageInv, ManageTyped
<1>2. procs' = [r \in Processes |-> procs'[r]]
  BY DEF ManageInv, ManageTyped
<1>3. \A r \in Processes : Proper(procs'[r])
  BY <1>1 DEF ManageInv, ManageTyped
<1>4. ManageTyped'
  BY <1>2, <1>3 DEF ManageInv, ManageTyped
<1>5. OneSaves'
  BY <1>1 DEF ManageInv, OneSaves
<1>6. Fitting'
  BY <1>1 DEF ManageInv, Fitting, Saves
<1>7. QED BY <1>4, <1>5, <1>6 DEF ManageInv

(* The main menu, and a provider that is begun.                            *)
LEMMA MenuIsProper ==
  /\ Proper(Manage!Menu) /\ ~Saves(Manage!Menu)
  /\ Manage!Draft \in ProviderEntry /\ Manage!IsInjective(Manage!Draft.models)
<1>1. <<>> \in Seq(Models) /\ DOMAIN <<>> = {}
  BY EmptySeq
<1>2. Manage!Draft \in ProviderEntry /\ Manage!IsInjective(Manage!Draft.models)
  BY <1>1, ServiceAssumption, ManageAssumption DEF Manage!Draft, ProviderEntry,
         Manage!IsInjective
<1>3. QED BY <1>2 DEF Proper, Manage!Menu, ProcFields, Saves

(* A process goes back to the menu,                                        *)
LEMMA Leaving ==
  ASSUME ManageInv, NEW p \in Processes, Manage!Leaves(p), UNCHANGED modelsFile
  PROVE  ManageInv'
BY MenuIsProper, OneQuiet DEF Manage!Leaves

(* or on to another dialog.                                                *)
LEMMA Going ==
  ASSUME ManageInv, NEW p \in Processes, NEW pc \in {"models", "fields", "confirm"},
         Manage!Goes(p, pc),
         procs[p].pc # "menu", UNCHANGED modelsFile,
         pc = "models" => procs[p].flow # "delete",
         pc = "fields" => procs[p].flow = "edit",
         pc = "confirm" => procs[p].flow = "add" /\ procs[p].working.models # <<>>
  PROVE  ManageInv'
<1> DEFINE q == [procs[p] EXCEPT !.pc = pc]
<1>1. Proper(procs[p])
  BY DEF ManageInv, ManageTyped
<1>2. Proper(q) /\ ~Saves(q)
  BY <1>1 DEF Proper, ProcFields, Saves
<1>3. procs' = [procs EXCEPT ![p] = q]
  BY DEF Manage!Goes
<1> HIDE DEF q
<1>4. QED BY <1>2, <1>3, OneQuiet

(* A flow begins, with a provider of the file or a new one.                *)
LEMMA Beginning ==
  ASSUME ManageInv, NEW p \in Processes, NEW i \in Providers, Manage!Add(p, i) \/ Manage!Edit(p,
         i) \/ Manage!Delete(p, i)
  PROVE  ManageInv'
<1>1. ASSUME NEW flow, NEW pc, NEW e \in ProviderEntry, Manage!IsInjective(e.models),
             Manage!Begins(p, flow, pc, i, e),
             \/ flow = "add" /\ pc = "models"
             \/ flow = "edit" /\ pc = "fields"
             \/ flow = "delete" /\ pc = "confirm"
      PROVE  ManageInv'
  <2> DEFINE q == [Manage!Menu EXCEPT !.flow = flow, !.pc = pc, !.seen = DOMAIN Manage!Read(modelsFile),
                               !.picked = i, !.working = e]
  <2>1. Proper(q) /\ ~Saves(q)
    BY <1>1 DEF Proper, Manage!Menu, ProcFields, Saves
  <2>2. procs' = [procs EXCEPT ![p] = q] /\ UNCHANGED modelsFile
    BY <1>1 DEF Manage!Begins
  <2> HIDE DEF q
  <2>3. QED BY <2>1, <2>2, OneQuiet
<1>2. CASE Manage!Add(p, i)
  BY <1>1, <1>2, MenuIsProper DEF Manage!Add
<1>3. CASE Manage!Edit(p, i) \/ Manage!Delete(p, i)
  <2>1. i \in DOMAIN Manage!Read(modelsFile)
    BY <1>3 DEF Manage!Edit, Manage!Delete
  <2>2. modelsFile # Absent
    BY <2>1 DEF Manage!Read
  <2>3. modelsFile[i] \in ProviderEntry /\ Manage!IsInjective(modelsFile[i].models)
    BY <2>1, <2>2 DEF ManageInv, ManageTyped, GoodFile, Manage!Read
  <2>4. QED BY <1>1, <1>3, <2>3 DEF Manage!Edit, Manage!Delete
<1>4. QED BY <1>2, <1>3

(* The working copy changes.                                               *)
LEMMA Working ==
  ASSUME ManageInv, NEW p \in Processes, procs[p].pc \in {"models", "fields"},
         NEW e \in ProviderEntry,
         Manage!IsInjective(e.models), procs' = [procs EXCEPT ![p].working = e], UNCHANGED modelsFile
  PROVE  ManageInv'
<1> DEFINE q == [procs[p] EXCEPT !.working = e]
<1>1. Proper(procs[p])
  BY DEF ManageInv, ManageTyped
<1>2. Proper(q) /\ q.pc = procs[p].pc
  BY <1>1, WorkingSet
<1>3. ~Saves(q)
  BY <1>2 DEF Saves
<1>4. procs' = [procs EXCEPT ![p] = q]
  OBVIOUS
<1> HIDE DEF q
<1>5. QED BY <1>2, <1>3, <1>4, OneQuiet

(* The dialogs before a save.                                              *)
LEMMA Dialogs ==
  ASSUME ManageInv, NEW p \in Processes,
         \/ Manage!Field(p) \/ Manage!FillAll(p) \/ Manage!SetProperty(p)
         \/ Manage!ModelsDone(p) \/ Manage!ModelsCancelled(p)
         \/ \E m \in Models : Manage!AddModel(p, m)
         \/ \E k \in 1..MaxModels : Manage!DeleteModel(p, k) \/ \E m \in Models : Manage!RenameModel(p, k, m)
  PROVE  ManageInv'
<1> DEFINE models == procs[p].working.models
           With(s) == [procs[p].working EXCEPT !.models = s]
<1>1. /\ Proper(procs[p]) /\ procs[p].working \in ProviderEntry
      /\ models \in Seq(Models) /\ Manage!IsInjective(models)
  BY DEF ManageInv, ManageTyped, Proper, ProviderEntry
<1>2. ASSUME NEW s \in Seq(Models), Manage!IsInjective(s), Manage!WithModels(p, s), Manage!At(p,
             "models"),
             UNCHANGED modelsFile
      PROVE  ManageInv'
  <2>1. With(s) \in ProviderEntry /\ With(s).models = s
    BY <1>1 DEF ProviderEntry
  <2>2. procs' = [procs EXCEPT ![p].working = With(s)]
    BY <1>2 DEF Manage!WithModels
  <2> HIDE DEF With
  <2>3. QED BY <1>2, <2>1, <2>2, Working DEF Manage!At
<1>3. ASSUME NEW v \in Values, procs' = [procs EXCEPT ![p].working.plain = v],
             Manage!At(p, "models") \/ Manage!At(p, "fields"), UNCHANGED modelsFile
      PROVE  ManageInv'
  <2> DEFINE e == [procs[p].working EXCEPT !.plain = v]
  <2>1. e \in ProviderEntry /\ e.models = models
    BY <1>1 DEF ProviderEntry
  <2>2. procs' = [procs EXCEPT ![p].working = e]
    BY <1>3
  <2> HIDE DEF e
  <2>3. QED BY <1>1, <1>3, <2>1, <2>2, Working DEF Manage!At
<1>4. ASSUME NEW h \in {Absent, "h"}, procs' = [procs EXCEPT ![p].working.headers = h],
             Manage!At(p, "fields"), UNCHANGED modelsFile
      PROVE  ManageInv'
  <2> DEFINE e == [procs[p].working EXCEPT !.headers = h]
  <2>1. e \in ProviderEntry /\ e.models = models
    BY <1>1 DEF ProviderEntry
  <2>2. procs' = [procs EXCEPT ![p].working = e]
    BY <1>4
  <2> HIDE DEF e
  <2>3. QED BY <1>1, <1>4, <2>1, <2>2, Working DEF Manage!At
<1>5. CASE Manage!Field(p)
  <2>1. /\ Manage!At(p, "fields") /\ UNCHANGED modelsFile /\ procs[p].pc = "fields"
        /\ procs[p].flow = "edit"
    BY <1>1, <1>5 DEF Manage!Field, Manage!Keeps, Manage!At, Proper
  <2>2. ASSUME Manage!Goes(p, "models") PROVE ManageInv'
    BY <2>1, <2>2, Going
  <2>3. QED BY <1>3, <1>4, <1>5, <2>1, <2>2, Leaving DEF Manage!Field
<1>6. CASE Manage!FillAll(p)
  <2> DEFINE new == {m \in Upstream : ~Manage!Contains(models, m)}
  <2>1. new \in SUBSET Models /\ IsFiniteSet(new)
    BY ServiceAssumption, ManageAssumption, FS_Subset DEF Manage!ManageConstants
  <2>2. /\ Manage!SetToSeq(new) \in Seq(Models) /\ Manage!IsInjective(Manage!SetToSeq(new))
        /\ \A k \in DOMAIN Manage!SetToSeq(new) : Manage!SetToSeq(new)[k] \in new
    BY <2>1, Listing
  <2>3. /\ models \o Manage!SetToSeq(new) \in Seq(Models)
        /\ Manage!IsInjective(models \o Manage!SetToSeq(new))
    BY <1>1, <2>2, Concatenated
  <2>4. /\ Manage!WithModels(p, models \o Manage!SetToSeq(new)) /\ Manage!At(p, "models")
        /\ UNCHANGED modelsFile
    BY <1>6 DEF Manage!FillAll, Manage!Keeps
  <2>5. QED BY <1>2, <2>3, <2>4
<1>7. CASE Manage!SetProperty(p)
  BY <1>3, <1>7 DEF Manage!SetProperty, Manage!Keeps
<1>8. CASE Manage!ModelsDone(p)
  <2>1. /\ procs[p].pc = "models" /\ procs[p].flow \in {"add", "edit"} /\ models # <<>>
        /\ UNCHANGED modelsFile
        /\ Manage!Goes(p, IF procs[p].flow = "add" THEN "confirm" ELSE "fields")
    BY <1>1, <1>8 DEF Manage!ModelsDone, Manage!At, Proper, Manage!Keeps
  <2>2. QED BY <2>1, Going
<1>9. CASE Manage!ModelsCancelled(p)
  <2>1. /\ procs[p].pc = "models" /\ procs[p].flow \in {"add", "edit"} /\ UNCHANGED modelsFile
        /\ IF procs[p].flow = "add" THEN Manage!Leaves(p) ELSE Manage!Goes(p, "fields")
    BY <1>1, <1>9 DEF Manage!ModelsCancelled, Manage!At, Proper, Manage!Keeps
  <2>2. QED BY <2>1, Going, Leaving
<1>10. ASSUME NEW m \in Models, Manage!AddModel(p, m) PROVE ManageInv'
  <2>1. Append(models, m) \in Seq(Models) /\ Manage!IsInjective(Append(models, m))
    BY <1>1, <1>10, Appended DEF Manage!AddModel
  <2>2. Manage!WithModels(p, Append(models, m)) /\ Manage!At(p, "models") /\ UNCHANGED modelsFile
    BY <1>10 DEF Manage!AddModel, Manage!Keeps
  <2>3. QED BY <1>2, <2>1, <2>2
<1>11. ASSUME NEW k, Manage!DeleteModel(p, k) PROVE ManageInv'
  <2>1. Manage!RemoveAt(models, k) \in Seq(Models) /\ Manage!IsInjective(Manage!RemoveAt(models, k))
    BY <1>1, <1>11, Removed DEF Manage!DeleteModel
  <2>2. /\ Manage!WithModels(p, Manage!RemoveAt(models, k)) /\ Manage!At(p, "models")
        /\ UNCHANGED modelsFile
    BY <1>11 DEF Manage!DeleteModel, Manage!Keeps
  <2>3. QED BY <1>2, <2>1, <2>2
<1>12. ASSUME NEW k, NEW m \in Models, Manage!RenameModel(p, k, m) PROVE ManageInv'
  <2>1. [models EXCEPT ![k] = m] \in Seq(Models) /\ Manage!IsInjective([models EXCEPT ![k] = m])
    BY <1>1, <1>12, Renamed DEF Manage!RenameModel
  <2>2. /\ Manage!WithModels(p, [models EXCEPT ![k] = m]) /\ Manage!At(p, "models")
        /\ UNCHANGED modelsFile
    BY <1>12 DEF Manage!RenameModel, Manage!Keeps
  <2>3. QED BY <1>2, <2>1, <2>2
<1>13. QED BY <1>5, <1>6, <1>7, <1>8, <1>9, <1>10, <1>11, <1>12

-----------------------------------------------------------------------------
(* Saving, when one process writes at a time.                              *)
LEMMA Merging ==
  ASSUME NEW entry \in ProviderEntry, NEW working \in ProviderEntry
  PROVE  /\ Manage!Merged(entry, working) \in ProviderEntry
         /\ Manage!Merged(entry, working).models = working.models
         /\ entry.extra # Absent => Manage!Merged(entry, working).extra # Absent
BY DEF Manage!Merged, ProviderEntry

(* What a process wants when it begins to save changes one provider of the *)
(* file as it is.                                                          *)
LEMMA WantedChanges ==
  ASSUME ManageTyped, NEW p \in Processes, Manage!Fits(procs[p], DOMAIN Manage!Read(modelsFile)),
         Manage!At(p, "confirm") \/ (Manage!At(p, "fields") /\ Manage!Valid(procs[p].working)),
         NEW proc, proc = [procs[p] EXCEPT !.pc = "copying", !.wanted = Manage!Wanted(p, Manage!Read(modelsFile))]
  PROVE  Proper(proc) /\ Changes(proc, Manage!Read(modelsFile))
<1> DEFINE now == Manage!Read(modelsFile)
           i == procs[p].picked
           working == procs[p].working
           wanted == Manage!Wanted(p, now)
<1>1. /\ Proper(procs[p]) /\ GoodFile(now) /\ working \in ProviderEntry
      /\ Manage!IsInjective(working.models)
      /\ procs[p].flow \in {"add", "edit", "delete"}
      /\ procs[p].flow # "delete" => working.models # <<>>
  BY DEF ManageTyped, Proper, Manage!At, Manage!Valid
<1>2. /\ proc = [f \in ProcFields |-> proc[f]] /\ proc.working = working /\ proc.pc = "copying"
      /\ proc.flow = procs[p].flow /\ proc.picked = i /\ proc.wanted = wanted
  BY <1>1 DEF Proper, ProcFields
<1>3. Proper(proc)
  BY <1>1, <1>2 DEF Proper
<1>4. i \in DOMAIN now <=> procs[p].flow # "add"
  BY DEF Manage!Fits
<1> HIDE DEF now
<1>5. CASE procs[p].flow = "add"
  <2>1. wanted = [j \in DOMAIN now \cup {i} |-> IF j = i THEN working ELSE now[j]]
    BY <1>5 DEF Manage!Wanted
  <2> HIDE DEF wanted
  <2>2. GoodFile(wanted)
    BY <1>1, <1>5, <2>1 DEF GoodFile
  <2>3. \A j : j # i =>
          /\ j \in DOMAIN wanted <=> j \in DOMAIN now
          /\ j \in DOMAIN now => wanted[j] = now[j]
    BY <2>1
  <2>4. i \notin DOMAIN now
    BY <1>4, <1>5
  <2>5. QED BY <1>2, <1>3, <1>5, <2>2, <2>3, <2>4 DEF Changes, now
<1>6. CASE procs[p].flow = "edit"
  <2>1. wanted = [now EXCEPT ![i] = Manage!Merged(@, working)] /\ i \in DOMAIN now
    BY <1>4, <1>6 DEF Manage!Wanted
  <2>2. now[i] \in ProviderEntry
    BY <1>1, <2>1 DEF GoodFile
  <2> DEFINE merged == Manage!Merged(now[i], working)
  <2>3. /\ merged \in ProviderEntry /\ merged.models = working.models
        /\ now[i].extra # Absent => merged.extra # Absent
    BY <1>1, <2>2, Merging
  <2> HIDE DEF merged
  <2>4. /\ DOMAIN wanted = DOMAIN now /\ wanted = [j \in DOMAIN wanted |-> wanted[j]]
        /\ wanted[i] = merged /\ \A j : j # i /\ j \in DOMAIN now => wanted[j] = now[j]
    BY <2>1 DEF merged, GoodFile
  <2> HIDE DEF wanted
  <2>5. GoodFile(wanted)
    BY <1>1, <1>6, <2>1, <2>3, <2>4 DEF GoodFile
  <2>6. QED BY <1>2, <1>3, <1>4, <1>6, <2>3, <2>4, <2>5 DEF Changes, now, wanted, i
<1>7. CASE procs[p].flow = "delete"
  <2>1. wanted = [j \in DOMAIN now \ {i} |-> now[j]]
    BY <1>7 DEF Manage!Wanted
  <2> HIDE DEF wanted
  <2>2. GoodFile(wanted)
    BY <1>1, <2>1 DEF GoodFile
  <2>3. QED BY <1>2, <1>3, <1>4, <1>7, <2>1, <2>2 DEF Changes, now, wanted, i
<1>8. QED BY <1>1, <1>5, <1>6, <1>7

(* The steps of a save: the file stays as it was read until it is written. *)
LEMMA Saving ==
  ASSUME ~Overlaps, ManageInv, NEW p \in Processes,
         Manage!Confirms(p) \/ Manage!Declines(p) \/ Manage!Copies(p) \/ Manage!Writes(p)
         \/ Manage!WriteFails(p)
  PROVE  ManageInv'
<1>1. /\ Proper(procs[p])
      /\ \A proc : procs' = [procs EXCEPT ![p] = proc] =>
           procs'[p] = proc /\ \A q \in Processes \ {p} : procs'[q] = procs[q]
  BY DEF ManageInv, ManageTyped
<1>2. CASE Manage!Confirms(p)
  <2> DEFINE now == Manage!Read(modelsFile)
             copying == [procs[p] EXCEPT !.pc = "copying", !.wanted = Manage!Wanted(p, now)]
  <2>1. /\ UNCHANGED modelsFile /\ Manage!Writing = {}
        /\ Manage!At(p, "confirm") \/ (Manage!At(p, "fields") /\ Manage!Valid(procs[p].working))
    BY <1>2 DEF Manage!Confirms, Manage!Keeps
  <2>2. \A q \in Processes : ~Saves(procs[q])
    BY <2>1 DEF Manage!Writing, Saves
  <2>3. CASE Manage!Fits(procs[p], DOMAIN now)
    <3>1. procs' = [procs EXCEPT ![p] = copying]
      BY <1>2, <2>3 DEF Manage!Confirms
    <3>2. Proper(copying) /\ Changes(copying, now) /\ copying.pc = "copying"
      <4>1. Proper(copying) /\ Changes(copying, now)
        BY <2>1, <2>3, WantedChanges DEF ManageInv
      <4>2. QED BY <1>1, <4>1 DEF Proper, ProcFields
    <3> HIDE DEF copying, now
    <3>3. procs'[p] = copying /\ \A q \in Processes \ {p} : procs'[q] = procs[q]
      BY <1>1, <3>1
    <3>4. ManageTyped'
      BY <2>1, <3>1, <3>2, <3>3 DEF ManageInv, ManageTyped, now
    <3>5. OneSaves'
      BY <2>2, <3>3 DEF OneSaves
    <3>6. Fitting'
      BY <2>1, <2>2, <3>2, <3>3 DEF Fitting, Saves, now
    <3>7. QED BY <3>4, <3>5, <3>6 DEF ManageInv
  <2>4. CASE ~Manage!Fits(procs[p], DOMAIN now) /\ procs[p].flow = "add"
    <3>1. PICK i : procs' = [procs EXCEPT ![p].pc = "models", ![p].picked = i]
      BY <1>2, <2>4 DEF Manage!Confirms
    <3> DEFINE again == [procs[p] EXCEPT !.pc = "models", !.picked = i]
    <3>2. Proper(again) /\ ~Saves(again)
      BY <1>1, <2>4 DEF Proper, ProcFields, Saves
    <3>3. procs' = [procs EXCEPT ![p] = again]
      BY <3>1
    <3> HIDE DEF again
    <3>4. QED BY <2>1, <3>2, <3>3, OneQuiet
  <2>5. CASE ~Manage!Fits(procs[p], DOMAIN now) /\ procs[p].flow # "add"
    BY <1>2, <2>1, <2>5, Leaving DEF Manage!Confirms
  <2>6. QED BY <2>3, <2>4, <2>5
<1>3. CASE Manage!Declines(p) \/ Manage!WriteFails(p)
  BY <1>3, Leaving DEF Manage!Declines, Manage!WriteFails, Manage!Keeps
<1>4. CASE Manage!Copies(p)
  <2>1. UNCHANGED modelsFile /\ procs[p].pc = "copying"
    BY <1>4 DEF Manage!Copies, Manage!Keeps, Manage!At
  <2>2. CASE Manage!Leaves(p)
    BY <2>1, <2>2, Leaving
  <2>3. CASE modelsFile # Absent /\ procs' = [procs EXCEPT ![p].pc = "writing", ![p].kept = modelsFile]
    <3> DEFINE writing == [procs[p] EXCEPT !.pc = "writing", !.kept = modelsFile]
    <3>1. /\ Proper(writing) /\ writing.pc = "writing" /\ writing.kept = modelsFile
          /\ writing.flow = procs[p].flow /\ writing.picked = procs[p].picked
          /\ writing.wanted = procs[p].wanted
      BY <1>1, <2>1 DEF Proper, ProcFields
    <3>2. procs' = [procs EXCEPT ![p] = writing]
      BY <2>3
    <3> HIDE DEF writing
    <3>3. procs'[p] = writing /\ \A q \in Processes \ {p} : procs'[q] = procs[q]
      BY <1>1, <3>2
    <3>4. Saves(procs[p]) /\ Changes(procs[p], Manage!Read(modelsFile))
      BY <2>1 DEF ManageInv, Fitting, Saves
    <3>5. Changes(writing, Manage!Read(modelsFile))
      BY <3>1, <3>4 DEF Changes
    <3>6. ManageTyped'
      BY <2>1, <3>1, <3>2, <3>3 DEF ManageInv, ManageTyped
    <3>7. OneSaves'
      BY <3>3, <3>4 DEF ManageInv, OneSaves
    <3>8. Fitting'
      BY <2>1, <2>3, <3>1, <3>3, <3>5 DEF ManageInv, Fitting
    <3>9. QED BY <3>6, <3>7, <3>8 DEF ManageInv
  <2>4. QED BY <1>4, <2>2, <2>3 DEF Manage!Copies
<1>5. CASE Manage!Writes(p)
  <2>1. procs[p].pc = "writing" /\ modelsFile' = procs[p].wanted /\ Manage!Leaves(p)
    BY <1>5 DEF Manage!Writes, Manage!At
  <2>2. procs'[p] = Manage!Menu /\ \A q \in Processes \ {p} : procs'[q] = procs[q]
    BY <1>1, <2>1 DEF Manage!Leaves
  <2>3. GoodFile(modelsFile')
    BY <2>1 DEF ManageInv, Fitting, Saves, Changes
  <2>4. GoodFile(Manage!Read(modelsFile'))
    BY <2>3 DEF Manage!Read, GoodFile
  <2>5. \A q \in Processes : ~Saves(procs'[q])
    BY <2>1, <2>2, MenuIsProper DEF ManageInv, OneSaves, Saves
  <2>6. ManageTyped'
    BY <2>1, <2>2, <2>4, MenuIsProper DEF ManageInv, ManageTyped, Manage!Leaves
  <2>7. QED BY <2>5, <2>6 DEF ManageInv, OneSaves, Fitting, Saves
<1>6. QED BY <1>2, <1>3, <1>4, <1>5

(* Who writes by hand does so while nobody saves.                          *)
LEMMA Others ==
  ASSUME ~Overlaps, ManageInv, NEW i \in Providers, Manage!ByHand(i)
  PROVE  ManageInv'
<1>1. /\ i \in DOMAIN Manage!Read(modelsFile) /\ Manage!Writing = {} /\ UNCHANGED procs
      /\ modelsFile' = [modelsFile EXCEPT ![i].extra = "x"]
  BY DEF Manage!ByHand
<1>2. modelsFile # Absent /\ Manage!Read(modelsFile) = modelsFile
  BY <1>1 DEF Manage!Read
<1>3. modelsFile[i] \in ProviderEntry /\ GoodFile(modelsFile)
  BY <1>1, <1>2 DEF ManageInv, ManageTyped, GoodFile
<1> DEFINE entry == [modelsFile[i] EXCEPT !.extra = "x"]
<1>4. entry \in ProviderEntry /\ entry.models = modelsFile[i].models
  BY <1>3 DEF ProviderEntry
<1>5. modelsFile' = [modelsFile EXCEPT ![i] = entry]
  BY <1>1
<1> HIDE DEF entry
<1>6. GoodFile(modelsFile')
  BY <1>1, <1>2, <1>3, <1>4, <1>5 DEF GoodFile
<1>7. GoodFile(Manage!Read(modelsFile'))
  BY <1>6 DEF Manage!Read, GoodFile
<1>8. \A q \in Processes : ~Saves(procs[q])
  BY <1>1 DEF Manage!Writing, Saves
<1>9. QED BY <1>1, <1>7, <1>8 DEF ManageInv, ManageTyped, OneSaves, Fitting, Saves

(* Every step keeps the invariant,                                         *)
LEMMA ManageNextKeeps ==
  ASSUME ~Overlaps, ManageInv, [Manage!Next]_Manage!manageVars
  PROVE  ManageInv'
<1>1. CASE UNCHANGED Manage!manageVars
  BY <1>1 DEF Manage!manageVars, ManageInv, ManageTyped, OneSaves, Fitting
<1>2. ASSUME NEW p \in Processes, NEW i \in Providers, Manage!Add(p, i) \/ Manage!Edit(p,
             i) \/ Manage!Delete(p, i)
      PROVE  ManageInv'
  BY <1>2, Beginning
<1>3. ASSUME NEW p \in Processes,
             \/ Manage!Field(p) \/ Manage!FillAll(p) \/ Manage!SetProperty(p)
             \/ Manage!ModelsDone(p) \/ Manage!ModelsCancelled(p)
             \/ \E m \in Models : Manage!AddModel(p, m)
             \/ \E k \in 1..MaxModels :
                  Manage!DeleteModel(p, k) \/ \E m \in Models : Manage!RenameModel(p, k, m)
      PROVE  ManageInv'
  BY <1>3, Dialogs
<1>4. ASSUME NEW p \in Processes,
             Manage!Confirms(p) \/ Manage!Declines(p) \/ Manage!Copies(p) \/ Manage!Writes(p)
             \/ Manage!WriteFails(p)
      PROVE  ManageInv'
  BY <1>4, Saving
<1>5. CASE \E i \in Providers : Manage!ByHand(i)
  BY <1>5, Others
<1>6. QED BY <1>1, <1>2, <1>3, <1>4, <1>5, Zenon DEF Manage!Next

(* which holds at first.                                                   *)
LEMMA ManageInit == Manage!Init => ManageInv
<1> SUFFICES ASSUME Manage!Init PROVE ManageInv
  OBVIOUS
<1>1. ASSUME NEW m \in Upstream
      PROVE  LET e == [Manage!Draft EXCEPT !.models = <<m>>]
             IN  e \in ProviderEntry /\ e.models # <<>> /\ Manage!IsInjective(e.models)
  <2>1. m \in Models /\ Manage!Draft \in ProviderEntry
    BY MenuIsProper, ServiceAssumption, ManageAssumption DEF Manage!ManageConstants
  <2>2. <<m>> \in Seq(Models) /\ <<m>> # <<>> /\ Manage!IsInjective(<<m>>)
    BY <2>1 DEF Manage!IsInjective
  <2>3. QED BY <2>1, <2>2 DEF ProviderEntry
<1>2. GoodFile(Manage!Read(modelsFile))
  <2>1. CASE modelsFile = Absent
    BY <2>1 DEF Manage!Read, GoodFile
  <2>2. CASE modelsFile \in [{CHOOSE i \in Providers : TRUE} ->
                               {[Manage!Draft EXCEPT !.models = <<m>>] : m \in Upstream}]
    <3>1. GoodFile(modelsFile)
      BY <1>1, <2>2 DEF GoodFile
    <3>2. QED BY <3>1 DEF Manage!Read, GoodFile
  <2>3. QED BY <2>1, <2>2 DEF Manage!Init
<1>3. procs = [p \in Processes |-> Manage!Menu]
  BY DEF Manage!Init
<1>4. QED BY <1>2, <1>3, MenuIsProper DEF ManageInv, ManageTyped, OneSaves, Fitting, Saves,
                 Manage!Menu

(* The invariant implies the invariant that the run checks.                *)
LEMMA ListedInstance == ManageInv => Manage!ModelsListed
<1> SUFFICES ASSUME ManageInv, NEW i \in DOMAIN Manage!Read(modelsFile)
             PROVE  modelsFile[i].models # <<>> /\ Manage!IsInjective(modelsFile[i].models)
  BY DEF Manage!ModelsListed
<1>1. Manage!Read(modelsFile) = modelsFile
  BY DEF Manage!Read
<1>2. QED BY <1>1 DEF ManageInv, ManageTyped, GoodFile

(* Only the write of a process is one, and it fits the file it replaces.   *)
LEMMA WrittenFits ==
  ASSUME ManageInv, [Manage!Next]_Manage!manageVars, NEW p \in Processes, Manage!Written(p)
  PROVE  /\ modelsFile # Absent /\ procs[p].kept = modelsFile
         /\ modelsFile' = procs[p].wanted /\ Changes(procs[p], modelsFile)
<1>1. /\ procs[p].pc = "writing" /\ procs'[p] = Manage!Menu /\ Manage!Menu.pc = "menu"
      /\ modelsFile' # modelsFile
  BY DEF Manage!Written, Manage!At, Manage!Menu
<1>2. \A q \in Processes : Manage!Writes(q) => q = p
  <2>1. ASSUME NEW q \in Processes, Manage!Writes(q), q # p PROVE FALSE
    <3>1. procs'[p] = procs[p]
      BY <2>1 DEF Manage!Writes, Manage!Leaves, ManageInv, ManageTyped
    <3>2. QED BY <1>1, <3>1
  <2>2. QED BY <2>1
<1>3. procs' # procs
  BY <1>1
<1>4. \E q \in Processes : Manage!Writes(q)
  <2>1. Manage!Next
    BY <1>1 DEF Manage!manageVars
  <2>2. ~\E i \in Providers : Manage!ByHand(i)
    BY <1>3 DEF Manage!ByHand
  <2>3. \A q \in Processes, i \in Providers : ~(Manage!Add(q, i) \/ Manage!Edit(q, i) \/ Manage!Delete(q, i))
    BY <1>1 DEF Manage!Add, Manage!Edit, Manage!Delete, Manage!Begins
  <2>4. /\ \A q \in Processes, m \in Models : ~Manage!AddModel(q, m)
        /\ \A q \in Processes, k \in 1..MaxModels :
             ~Manage!DeleteModel(q, k) /\ \A m \in Models : ~Manage!RenameModel(q, k, m)
    BY <1>1 DEF Manage!AddModel, Manage!DeleteModel, Manage!RenameModel, Manage!Keeps
  <2>5. \A q \in Processes :
          /\ ~Manage!Field(q) /\ ~Manage!FillAll(q) /\ ~Manage!SetProperty(q)
          /\ ~Manage!ModelsDone(q) /\ ~Manage!ModelsCancelled(q)
          /\ ~Manage!Confirms(q) /\ ~Manage!Declines(q) /\ ~Manage!Copies(q)
          /\ ~Manage!WriteFails(q)
    BY <1>1 DEF Manage!Field, Manage!FillAll, Manage!SetProperty, Manage!ModelsDone,
           Manage!ModelsCancelled, Manage!Confirms, Manage!Declines,
                Manage!Copies, Manage!WriteFails, Manage!Keeps
  <2>6. QED BY <2>1, <2>2, <2>3, <2>4, <2>5, Zenon DEF Manage!Next
<1>5. modelsFile' = procs[p].wanted
  BY <1>2, <1>4 DEF Manage!Writes
<1>6. /\ modelsFile # Absent /\ procs[p].kept = modelsFile
      /\ Changes(procs[p], Manage!Read(modelsFile))
  BY <1>1 DEF ManageInv, Fitting, Saves
<1>7. QED BY <1>5, <1>6 DEF Manage!Read

(* So it changes one provider.                                             *)
LEMMA OthersInstance ==
  ASSUME ManageInv, [Manage!Next]_Manage!manageVars, NEW p \in Processes, Manage!Written(p)
  PROVE  LET i == procs[p].picked
         IN  /\ \A j \in Providers \ {i} :
                  /\ j \in DOMAIN modelsFile' <=> j \in DOMAIN modelsFile
                  /\ j \in DOMAIN modelsFile' => modelsFile'[j] = modelsFile[j]
             /\ i \in DOMAIN modelsFile <=> procs[p].flow # "add"
             /\ procs[p].flow = "edit" /\ modelsFile[i].extra # Absent
                  => modelsFile'[i].extra # Absent
BY WrittenFits DEF Changes

(* A write changes the one provider its dialogs are about, neither brings  *)
(* it back when others deleted it nor adds it over one of theirs, drops no *)
(* field of it that the dialogs do not know (its known fields become those *)
(* of the dialogs), keeps the file it replaces, and leaves every provider  *)
(* models, none twice, when one process writes at a time                   *)
(* (model-manage/index.ts:1049, :1193, :1198, :122, :402).                 *)
THEOREM ProvidersAreKept == ~Overlaps => (Manage!Spec => ProvidersKept)
<1> SUFFICES ASSUME ~Overlaps PROVE Manage!Spec => ProvidersKept
  OBVIOUS
<1>1. ManageInv /\ [Manage!Next]_Manage!manageVars => ManageInv'
  BY ManageNextKeeps
<1>2. ManageInv /\ [Manage!Next]_Manage!manageVars =>
        [\A p \in Processes : Manage!Written(p) =>
          LET i == procs[p].picked
          IN  /\ \A j \in Providers \ {i} :
                   /\ j \in DOMAIN modelsFile' <=> j \in DOMAIN modelsFile
                   /\ j \in DOMAIN modelsFile' => modelsFile'[j] = modelsFile[j]
              /\ i \in DOMAIN modelsFile <=> procs[p].flow # "add"
              /\ procs[p].flow = "edit" /\ modelsFile[i].extra # Absent
                   => modelsFile'[i].extra # Absent]_Manage!manageVars
  BY OthersInstance
<1>3. ManageInv /\ [Manage!Next]_Manage!manageVars =>
        [\A p \in Processes : Manage!Written(p) => procs[p].kept = modelsFile]_Manage!manageVars
  BY WrittenFits
<1>4. QED BY <1>1, <1>2, <1>3, ManageInit, ListedInstance, PTL DEF Manage!Spec, ProvidersKept,
                 Manage!OthersKept, Manage!ReplacedIsKept

=============================================================================
