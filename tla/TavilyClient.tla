---------------------------- MODULE TavilyClient ----------------------------
(***************************************************************************)
(* The client for the search service (controller/tavily.mjs): concurrent   *)
(* searches share a queue that keeps requests apart, a round robin of      *)
(* endpoints and their cool-downs; every search retries.                   *)
(*                                                                         *)
(* Times are those that are left, so that there is no clock; any timer may *)
(* fire late.  Requests and answers are reduced to the status of the       *)
(* answer; a client without a key or a configuration sends nothing and is  *)
(* left out.                                                               *)
(***************************************************************************)
EXTENDS Integers, Sequences

CONSTANTS
  Searches,     \* names of calls of search
  Endpoints,    \* 1..number of endpoints
  MaxAttempts,  \* maxAttempts (3 in the code)
  MinInterval,  \* minIntervalMs
  Cooldown,     \* endpointCooldownMs
  RetryDelays,  \* what retryDelay may come to, with Retry-After and jitter
  None

TavilyConstants ==
  /\ MaxAttempts \in Nat \ {0} /\ {MinInterval, Cooldown} \subseteq Nat
  /\ RetryDelays \subseteq Nat \ {0}

VARIABLES
  searches,       \* for each search where it is
  rateQueue,      \* the searches in waitForRate, first come first served
  nextAllowed,    \* time left until nextAllowedAt
  cooldowns,      \* for each endpoint the time left
  endpointIndex,  \* modulo the number of endpoints
  sinceFetch      \* history: time since the last request, up to MinInterval

clientVars == <<searches, rateQueue, nextAllowed, cooldowns, endpointIndex, sinceFetch>>

N == CHOOSE n \in Endpoints : \A e \in Endpoints : e <= n
At(pc) == {s \in Searches : searches[s].pc = pc}
Less(n) == IF n = 0 THEN 0 ELSE n - 1

\* Endpoint number (start + offset) % endpoints.length.
Nth(start, offset) == ((start + offset) % N) + 1

\* chooseEndpoint, before the search waits for its turn.
Chosen ==
  LET free == {o \in 0..(N - 1) : cooldowns[Nth(endpointIndex, o)] = 0}
  IN  IF free = {} THEN Nth(endpointIndex, 0)
      ELSE Nth(endpointIndex, CHOOSE o \in free : \A p \in free : o <= p)

\* Where a search goes from a failed attempt or an abort.
Ended(s, outcome) ==
  [searches EXCEPT ![s].pc = "done", ![s].outcome = outcome, ![s].left = 0]

\* request, up to waitForRate.
Requests(s) ==
  /\ searches' = [searches EXCEPT ![s].pc = "queued", ![s].endpoint = Chosen]
  /\ endpointIndex' = (endpointIndex + 1) % N
  /\ rateQueue' = Append(rateQueue, s)

Search(s) ==
  /\ searches[s].pc = "new" /\ Requests(s)
  /\ UNCHANGED <<nextAllowed, cooldowns, sinceFetch>>

\* Mutation of Turn: the delay is not computed after the search before.
TurnAtOnce(s) ==
  /\ searches[s].pc = "queued"
  /\ IF searches[s].aborted
     THEN searches' = Ended(s, "aborted") /\ rateQueue' = SelectSeq(rateQueue, LAMBDA t : t # s)
     ELSE /\ searches' = [searches EXCEPT ![s].pc = "waiting", ![s].left = nextAllowed]
          /\ UNCHANGED rateQueue
  /\ UNCHANGED <<nextAllowed, cooldowns, endpointIndex, sinceFetch>>

\* The turn of a search comes, when the one before it has passed or given up;
\* one that was aborted is noticed only now.
Turn(s) ==
  /\ searches[s].pc = "queued" /\ rateQueue # <<>> /\ rateQueue[1] = s
  /\ IF searches[s].aborted
     THEN searches' = Ended(s, "aborted") /\ rateQueue' = Tail(rateQueue)
     ELSE /\ searches' = [searches EXCEPT ![s].pc = "waiting", ![s].left = nextAllowed]
          /\ UNCHANGED rateQueue
  /\ UNCHANGED <<nextAllowed, cooldowns, endpointIndex, sinceFetch>>

\* The delay is over, the next search has to wait, and the request is sent.
Fetch(s) ==
  /\ searches[s].pc = "waiting" /\ searches[s].left = 0
  /\ searches' = [searches EXCEPT ![s].pc = "fetching", ![s].attempts = @ + 1]
  /\ rateQueue' = Tail(rateQueue)
  /\ nextAllowed' = MinInterval /\ sinceFetch' = 0
  /\ UNCHANGED <<cooldowns, endpointIndex>>

\* Mutation of Failed: the attempts are not counted.
FailedAgain(s) ==
  \E d \in RetryDelays : searches' = [searches EXCEPT ![s].pc = "retrying", ![s].left = d]

\* The attempt failed: another one after a delay, or none.
Failed(s) ==
  IF searches[s].attempts = MaxAttempts
  THEN searches' = Ended(s, "failed")
  ELSE \E d \in RetryDelays : searches' = [searches EXCEPT ![s].pc = "retrying", ![s].left = d]

\* An answer: a result; one that names a trouble of the endpoint (429, 5xx); one
\* that cannot be read or refuses the request, or none within the time.
Answered(s, status) ==
  /\ searches[s].pc = "fetching"
  /\ CASE status = "ok" ->
            /\ searches' = Ended(s, "result")
            /\ cooldowns' = [cooldowns EXCEPT ![searches[s].endpoint] = 0]
       [] status = "trouble" ->
            Failed(s) /\ cooldowns' = [cooldowns EXCEPT ![searches[s].endpoint] = Cooldown]
       [] status = "refused" -> Failed(s) /\ UNCHANGED cooldowns
  /\ UNCHANGED <<rateQueue, nextAllowed, endpointIndex, sinceFetch>>

\* The delay before the next attempt is over.
Retry(s) ==
  /\ searches[s].pc = "retrying" /\ searches[s].left = 0 /\ Requests(s)
  /\ UNCHANGED <<nextAllowed, cooldowns, sinceFetch>>

\* The caller aborts; a request and every delay end at once.
Abort(s) ==
  /\ searches[s].pc \notin {"new", "done"} /\ ~searches[s].aborted
  /\ searches' = IF searches[s].pc = "queued" THEN [searches EXCEPT ![s].aborted = TRUE]
                 ELSE Ended(s, "aborted")
  /\ rateQueue' = IF searches[s].pc = "waiting" THEN Tail(rateQueue) ELSE rateQueue
  /\ UNCHANGED <<nextAllowed, cooldowns, endpointIndex, sinceFetch>>

Tick ==
  /\ nextAllowed' = Less(nextAllowed)
  /\ cooldowns' = [e \in Endpoints |-> Less(cooldowns[e])]
  /\ searches' = [s \in Searches |-> [searches[s] EXCEPT !.left = Less(@)]]
  /\ sinceFetch' = IF sinceFetch = MinInterval THEN sinceFetch ELSE sinceFetch + 1
  /\ UNCHANGED <<rateQueue, endpointIndex>>

Init ==
  /\ searches = [s \in Searches |->
                   [pc |-> "new", endpoint |-> None, attempts |-> 0, left |-> 0, aborted |-> FALSE,
                    outcome |-> None]]
  /\ rateQueue = <<>> /\ nextAllowed = 0 /\ cooldowns = [e \in Endpoints |-> 0]
  /\ endpointIndex = 0 /\ sinceFetch = MinInterval

Steps(s) ==
  \/ Turn(s) \/ Fetch(s) \/ Retry(s)
  \/ \E status \in {"ok", "trouble", "refused"} : Answered(s, status)

Next == Tick \/ \E s \in Searches : Search(s) \/ Steps(s) \/ Abort(s)

Spec == Init /\ [][Next]_clientVars

\* Timers fire, and a request has a time limit.
Fairness == WF_clientVars(Tick) /\ \A s \in Searches : WF_clientVars(Steps(s))

FairSpec == Spec /\ Fairness

-----------------------------------------------------------------------------
(* Type invariant: the queue holds the searches that wait for their turn,  *)
(* each once.                                                              *)
TypeOK ==
  /\ \A s \in Searches :
       /\ searches[s].attempts \in 0..MaxAttempts
       /\ (searches[s].outcome # None) = (searches[s].pc = "done")
       /\ searches[s].outcome = "failed" => searches[s].attempts = MaxAttempts
  /\ {rateQueue[i] : i \in DOMAIN rateQueue} = At("queued") \cup At("waiting")
  /\ \A i, j \in DOMAIN rateQueue : rateQueue[i] = rateQueue[j] => i = j

(* Two requests are never sent closer to each other than minIntervalMs,    *)
(* whichever searches they are for, first or repeated ones, and whoever    *)
(* has given up in between (tavily.mjs:258).                               *)
RequestsApart ==
  [][(\E s \in Searches : searches'[s].attempts > searches[s].attempts) =>
       sinceFetch = MinInterval]_clientVars

(* Every search ends, whatever endpoints answer and other searches do: one *)
(* that is aborted or fails in the queue does not stop it.                 *)
SearchesEnd ==
  \A s \in Searches : searches[s].pc = "queued" ~> searches[s].pc = "done"

=============================================================================
