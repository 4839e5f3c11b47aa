---------------------------- MODULE GrokCatalog ----------------------------
(***************************************************************************)
(* Discovery of models (pi-grok/models.ts and catalog-cache.ts): triggers  *)
(* start workers that fetch the catalog with the token of their trigger;   *)
(* the first one also reads the file that the last fetch has left, while   *)
(* writes of the file are under way.                                       *)
(*                                                                         *)
(* A catalog is its fetchedAt, and time passes with each fetch that        *)
(* succeeds.  A token that was replaced does not come back.  How a         *)
(* catalog is merged into the list of models is left out.                  *)
(***************************************************************************)
EXTENDS Integers, Sequences

CONSTANTS
  Retries,     \* number of DISCOVERY_RETRY_DELAYS_MS (3 in the code)
  MaxTokens,   \* bound: access tokens
  MaxWorkers,  \* bound: discoveries that are started
  None

CatalogConstants == {Retries, MaxTokens, MaxWorkers} \subseteq Nat /\ None \notin Nat

VARIABLES
  credential,        \* the access token that pi has
  discoveryLastToken, discoveryInFlight, discoveryLastError,
  discoveredBody,    \* the catalog in use or None
  discoveryFetchedAt,
  fresh,             \* is discoveryFetchedAt within CATALOG_FRESH_TTL_MS
  workers,           \* the discoveries in the order they were started
  disk,              \* loadCatalogFromDisk: where it is, and the text it has read
  file,              \* the cache file: None or when it was fetched, and its age
  writes,            \* catalogs that are being written
  clock

memory == <<discoveredBody, discoveryFetchedAt, fresh>>
catalogVars ==
  <<credential, discoveryLastToken, discoveryInFlight, discoveryLastError, discoveredBody,
    discoveryFetchedAt, fresh, workers, disk, file, writes, clock>>

Running(w) == workers[w].pc # "done"

\* cancelPendingRetryWait: the worker that waits for its next attempt goes on.
Woken(worker, token) ==
  IF worker.pc # "waiting" THEN worker
  ELSE IF worker.token # token THEN [worker EXCEPT !.pc = "done"]
       ELSE [worker EXCEPT !.pc = "fetching", !.attempt = @ + 1]

\* A worker of the present token is left alone, and a fresh catalog is enough.
Enough ==
  /\ discoveryLastToken = credential
  /\ \/ discoveryInFlight # None
     \/ discoveredBody # None /\ fresh /\ discoveryLastError = None

\* triggerDiscovery, past its early returns, on workers as they are by now.
Starts(now) ==
  LET first  == disk.pc = "unread"
      worker == [token |-> credential, attempt |-> 0,
                 pc |-> IF first THEN "seeding" ELSE "fetching"]
  IN  /\ Len(now) < MaxWorkers
      /\ workers' = Append([w \in DOMAIN now |-> Woken(now[w], credential)], worker)
      /\ discoveryInFlight' = Len(now) + 1 /\ discoveryLastToken' = credential
      /\ disk' = IF first THEN [disk EXCEPT !.pc = "reading"] ELSE disk

Trigger ==
  /\ ~Enough /\ Starts(workers)
  /\ UNCHANGED <<credential, discoveryLastError, memory, file, writes, clock>>

\* A login or a refresh gives another token.
Rotate ==
  /\ credential < MaxTokens /\ credential' = credential + 1
  /\ UNCHANGED <<discoveryLastToken, discoveryInFlight, discoveryLastError, memory, workers,
                 disk, file, writes, clock>>

\* loadCatalogFromDisk reads the file,
Reads ==
  /\ disk.pc = "reading" /\ disk' = [pc |-> "read", text |-> file]
  /\ UNCHANGED <<credential, discoveryLastToken, discoveryInFlight, discoveryLastError, memory,
                 workers, file, writes, clock>>

\* loadCachedCatalog
Adopts ==
  /\ disk.text # None /\ disk.text.age # "expired"
  /\ discoveryFetchedAt = 0 \/ disk.text.at >= discoveryFetchedAt

\* and adopts it; the worker that has waited for it goes on.
Seeded ==
  /\ disk.pc = "read" /\ disk' = [pc |-> "done", text |-> None]
  /\ discoveredBody' = IF Adopts THEN disk.text.at ELSE discoveredBody
  /\ discoveryLastError' =
       IF Adopts /\ disk.text.age = "stale" THEN "cache stale" ELSE discoveryLastError
  /\ workers' = [w \in DOMAIN workers |->
                   IF workers[w].pc = "seeding" THEN [workers[w] EXCEPT !.pc = "fetching"]
                   ELSE workers[w]]
  /\ UNCHANGED <<credential, discoveryLastToken, discoveryInFlight, discoveryFetchedAt, fresh,
                 file, writes, clock>>

Done(w) == [workers EXCEPT ![w].pc = "done"]

\* finally
Cleared(w) == IF discoveryInFlight = w THEN None ELSE discoveryInFlight

\* The worker was superseded by a newer token.
Superseded(w) ==
  /\ workers[w].pc = "fetching" /\ workers[w].token # discoveryLastToken
  /\ workers' = Done(w) /\ discoveryInFlight' = Cleared(w)
  /\ UNCHANGED <<credential, discoveryLastToken, discoveryLastError, memory, disk, file, writes,
                 clock>>

\* The catalog is taken and written; the provider is registered again, which
\* triggers a discovery if there is another token by now.
Commits(w) ==
  /\ workers[w].pc = "fetching" /\ workers[w].token = discoveryLastToken
  /\ clock' = clock + 1
  /\ discoveredBody' = clock' /\ discoveryFetchedAt' = clock' /\ fresh' = TRUE
  /\ discoveryLastError' = None /\ writes' = writes \cup {clock'}
  /\ IF credential # discoveryLastToken
     THEN Starts(Done(w))
     ELSE /\ workers' = Done(w) /\ discoveryInFlight' = Cleared(w)
          /\ UNCHANGED <<discoveryLastToken, disk>>
  /\ UNCHANGED <<credential, file>>

\* The attempt failed, for good or until the next one.
Fails(w, retryable) ==
  /\ workers[w].pc = "fetching" /\ workers[w].token = discoveryLastToken
  /\ IF retryable /\ workers[w].attempt < Retries
     THEN /\ workers' = [workers EXCEPT ![w].pc = "waiting"] /\ UNCHANGED discoveryInFlight
          /\ discoveryLastError' = "retrying"
     ELSE /\ workers' = Done(w) /\ discoveryInFlight' = Cleared(w)
          /\ discoveryLastError' = "failed"
  /\ UNCHANGED <<credential, discoveryLastToken, memory, disk, file, writes, clock>>

\* The retry timer.
RetryTimer(w) ==
  /\ workers[w].pc = "waiting"
  /\ workers' = IF workers[w].token # discoveryLastToken THEN Done(w)
                ELSE [workers EXCEPT ![w].pc = "fetching", ![w].attempt = @ + 1]
  /\ discoveryInFlight' = IF workers'[w].pc = "done" THEN Cleared(w) ELSE discoveryInFlight
  /\ UNCHANGED <<credential, discoveryLastToken, discoveryLastError, memory, disk, file, writes,
                 clock>>

\* writeCachedCatalog renames its file into place, or fails.
Written(c) ==
  /\ writes' = writes \ {c}
  /\ file' \in {file, [at |-> c, age |-> "fresh"]}
  /\ UNCHANGED <<credential, discoveryLastToken, discoveryInFlight, discoveryLastError, memory,
                 workers, disk, clock>>

\* The catalog is no longer fresh.
Ages ==
  /\ fresh /\ fresh' = FALSE
  /\ UNCHANGED <<credential, discoveryLastToken, discoveryInFlight, discoveryLastError,
                 discoveredBody, discoveryFetchedAt, workers, disk, file, writes, clock>>

Init ==
  /\ credential = 1 /\ discoveryLastToken = None /\ discoveryInFlight = None
  /\ discoveryLastError = None /\ discoveredBody = None /\ discoveryFetchedAt = 0
  /\ fresh = FALSE /\ workers = <<>> /\ disk = [pc |-> "unread", text |-> None]
  /\ file \in {None} \cup [at : {1}, age : {"fresh", "stale", "expired"}]
  /\ writes = {} /\ clock = 1

Works(w) ==
  \/ Superseded(w) \/ Commits(w) \/ RetryTimer(w)
  \/ \E retryable \in BOOLEAN : Fails(w, retryable)

Next ==
  \/ Trigger \/ Rotate \/ Reads \/ Seeded \/ Ages
  \/ \E w \in DOMAIN workers : Works(w)
  \/ \E c \in writes : Written(c)

Spec == Init /\ [][Next]_catalogVars

\* Files are read, requests have a time limit, timers fire.
Fairness ==
  /\ WF_catalogVars(Reads) /\ WF_catalogVars(Seeded)
  /\ \A w \in 1..MaxWorkers : WF_catalogVars(w \in DOMAIN workers /\ Works(w))

FairSpec == Spec /\ Fairness

-----------------------------------------------------------------------------
(* Type invariant.                                                         *)
TypeOK ==
  /\ discoveredBody # None => discoveredBody \in 1..clock
  /\ discoveryFetchedAt # 0 => discoveredBody # None
  /\ \A w \in DOMAIN workers : workers[w].attempt \in 0..Retries

(* Of all workers one at most can still change the catalog, and it is the  *)
(* one that is said to be in flight: not one whose token was replaced      *)
(* while it fetched or waited (models.ts:506).                             *)
OneCommitter ==
  {w \in DOMAIN workers : Running(w) /\ workers[w].token = discoveryLastToken} =
    (IF discoveryInFlight = None THEN {} ELSE {discoveryInFlight})

(* A catalog is never replaced by an older one, be it that of the file,    *)
(* which is read while a later discovery is ahead of it (models.ts:554).   *)
NeverOlder == [][discoveredBody # None => discoveredBody' >= discoveredBody]_catalogVars

(* Every discovery ends.                                                   *)
DiscoveriesEnd ==
  \A w \in 1..MaxWorkers : w \in DOMAIN workers ~> w \in DOMAIN workers /\ ~Running(w)

=============================================================================
