------------------------------ MODULE GrokAuth ------------------------------
(***************************************************************************)
(* Logging in to xAI and refreshing tokens (pi-grok/oauth.ts): a login in  *)
(* the browser or by a device code, refreshes that share a request, and    *)
(* the key set that both verify id_tokens with.                            *)
(*                                                                         *)
(* The server is modelled by what the code expects of it: a refresh token  *)
(* is good for one refresh, and an id_token is signed with the key that is *)
(* published at that time.  Contents of requests, PKCE and the checks of   *)
(* claims are one outcome, "bad".  pi saves what a refresh returns at once.*)
(***************************************************************************)
EXTENDS Integers, Sequences

CONSTANTS
  Callers,      \* those who call refresh
  Lifetime,     \* of a device code, in units of its interval
  MaxRefresh,   \* bound: refreshes that are started
  MaxKeys,      \* bound: keys the server publishes in turn
  Faults,       \* whether answers of the token endpoint may be lost or bad
  None

AuthConstants == {Lifetime, MaxRefresh, MaxKeys} \subseteq Nat /\ Faults \in BOOLEAN

VARIABLES
  method,       \* PI_XAI_LOGIN_METHOD: browser or device
  login,        \* where the login is
  left,         \* time left until the deadline of the device code
  interval,     \* between two polls
  aborted,      \* callbacks.signal
  listening,    \* is the callback server open
  outcome,      \* of the wait for the callback
  resolved,     \* what the login goes on with
  result,       \* of the login
  first,        \* history: what ended the wait of the login
  stored,       \* the refresh token that pi has
  valid,        \* the refresh token the server takes
  callers,      \* for each caller the request it waits for
  requests,     \* refreshes in the order they were started
  refreshLocks, \* set of <<token, request>>
  lost,         \* history: was an answer with a new refresh token lost
  published,    \* the key the server signs with
  jwksCache,    \* the key in the cache, or None
  checks        \* verifyIdTokenSignature, for the login (0) and the requests

loginVars   ==
  <<method, login, left, interval, aborted, listening, outcome, resolved, result, first>>
refreshVars == <<stored, valid, callers, requests, refreshLocks, lost>>
keyVars     == <<published, jwksCache>>
authVars    ==
  <<method, login, left, interval, aborted, listening, outcome, resolved, result, first, stored,
    valid, callers, requests, refreshLocks, lost, published, jwksCache, checks>>

-----------------------------------------------------------------------------
(* Verification of id_tokens.                                              *)

NoCheck == [pc |-> "none", key |-> None, forced |-> FALSE]

\* An id_token that was just signed is looked up in the cached keys.
Checking(f) == checks' = [checks EXCEPT ![f] = [pc |-> "look", key |-> published, forced |-> FALSE]]

Looks(f) ==
  /\ checks[f].pc = "look"
  /\ checks' = [checks EXCEPT ![f].pc = IF jwksCache = checks[f].key THEN "good" ELSE "fetch",
                              ![f].forced = jwksCache # None]
  /\ UNCHANGED <<loginVars, refreshVars, keyVars>>

\* Mutation of AfterFetch: a cached set that misses the key is the last word.
AfterFetchOnce(check) == IF check.key = published /\ ~check.forced THEN "good" ELSE "missing"

\* The key is found, or fetched once more, past the cache, or missing.
AfterFetch(check) ==
  IF check.key = published THEN "good" ELSE IF check.forced THEN "missing" ELSE "fetch"

\* fetchJwks
Fetches(f) ==
  /\ checks[f].pc = "fetch"
  /\ \/ /\ jwksCache' = published
        /\ checks' = [checks EXCEPT ![f].pc = AfterFetch(checks[f]), ![f].forced = TRUE]
     \/ /\ checks' = [checks EXCEPT ![f].pc = "failed"] /\ UNCHANGED jwksCache
  /\ UNCHANGED <<loginVars, refreshVars, published>>

\* The time of the cached keys is over.
Expires ==
  /\ jwksCache # None /\ jwksCache' = None
  /\ UNCHANGED <<loginVars, refreshVars, published, checks>>

\* The server signs with another key from now on.
RotatesKey ==
  /\ published < MaxKeys /\ published' = published + 1
  /\ UNCHANGED <<loginVars, refreshVars, jwksCache, checks>>

-----------------------------------------------------------------------------
(* Login.                                                                  *)

Ends(r) == login' = "done" /\ result' = r /\ listening' = FALSE

Login(m) ==
  /\ login = "idle" /\ method' = m /\ login' = "discovering"
  /\ UNCHANGED <<left, interval, aborted, listening, outcome, resolved, result, first, refreshVars,
                 keyVars, checks>>

\* discover, and the callback server or requestDeviceCode; only the latter
\* looks at the signal, and so does the wait for the callback at once.
Discovers ==
  /\ login = "discovering"
  /\ \/ Ends("failed") /\ UNCHANGED <<left, outcome>>
     \/ method = "device" /\ IF aborted THEN Ends("failed") /\ UNCHANGED <<left, outcome>>
                             ELSE /\ login' = "sleeping" /\ left' = Lifetime
                                  /\ UNCHANGED <<result, listening, outcome>>
     \/ /\ method = "browser" /\ UNCHANGED left
        /\ IF aborted THEN Ends("cancelled") /\ outcome' = "cancelled"
           ELSE login' = "waiting" /\ listening' = TRUE /\ UNCHANGED <<result, outcome>>
  /\ UNCHANGED <<method, interval, aborted, resolved, first, refreshVars, keyVars, checks>>

\* The first redirect to the callback server, the time of the wait, an abort:
\* whichever comes first is the outcome of the callback.
Callback(o) ==
  /\ login = "waiting" /\ outcome' = o /\ first' = o
  /\ aborted' = (o = "cancelled" \/ aborted)
  /\ IF o = "ok" THEN login' = "exchanging" /\ resolved' = "ok" /\ UNCHANGED <<result, listening>>
     ELSE Ends(IF o = "cancelled" THEN "cancelled" ELSE "failed") /\ UNCHANGED resolved
  /\ UNCHANGED <<method, left, interval, refreshVars, keyVars, checks>>

\* The user pastes a code, or something else, or presses Escape; the wait for
\* the callback is cancelled, which is not what the login goes on with.
Paste(o) ==
  /\ login = "waiting" /\ first' = o /\ outcome' = "cancelled"
  /\ IF o = "paste"
     THEN login' = "exchanging" /\ resolved' = "ok" /\ UNCHANGED <<result, listening>>
     ELSE Ends("failed") /\ UNCHANGED resolved
  /\ UNCHANGED <<method, left, interval, aborted, refreshVars, keyVars, checks>>

\* exchangeCode, and shapeDeviceToken for a poll that was approved: the tokens
\* with an id_token to verify, or without, or an error.
Token ==
  \/ login' = "verifying" /\ Checking(0) /\ UNCHANGED <<result, listening>>
  \/ Ends("credentials") /\ UNCHANGED checks
  \/ Ends("failed") /\ UNCHANGED checks

Exchange ==
  /\ login = "exchanging" /\ Token
  /\ UNCHANGED <<method, left, interval, aborted, outcome, resolved, first, refreshVars, keyVars>>

Verified ==
  /\ login = "verifying" /\ checks[0].pc \in {"good", "missing", "failed"}
  /\ Ends(IF checks[0].pc = "good" THEN "credentials" ELSE "failed")
  /\ UNCHANGED <<method, left, interval, aborted, outcome, resolved, first, refreshVars, keyVars,
                 checks>>

\* The sleep of loginDeviceCode is over.
Sleeps ==
  /\ login = "sleeping"
  /\ IF interval > left THEN Ends("failed") /\ UNCHANGED left
     ELSE login' = "polling" /\ left' = left - interval /\ UNCHANGED <<result, listening>>
  /\ UNCHANGED <<method, interval, aborted, outcome, resolved, first, refreshVars, keyVars, checks>>

\* The answer to a poll: pending, to be asked less often, approved, or an error.
Polls ==
  /\ login = "polling"
  /\ \/ /\ login' = "sleeping" /\ interval' \in {interval, interval + 1}
        /\ UNCHANGED <<result, listening, checks>>
     \/ Token /\ UNCHANGED interval
  /\ UNCHANGED <<method, left, aborted, outcome, resolved, first, refreshVars, keyVars>>

\* The host aborts the login; the exchange and the verification do not notice.
Abort ==
  /\ login \notin {"idle", "waiting", "done"} /\ ~aborted /\ aborted' = TRUE
  /\ IF login \in {"sleeping", "polling"} THEN Ends("cancelled")
     ELSE UNCHANGED <<login, result, listening>>
  /\ UNCHANGED <<method, left, interval, outcome, resolved, first, refreshVars, keyVars, checks>>

-----------------------------------------------------------------------------
(* Refresh.                                                                *)

Locked == {l \in refreshLocks : l[1] = stored}
Idle(c) == callers[c] = None

\* withRefreshLock: a request for this refresh token is under way.
Joins(c) == Locked # {}

Refresh(c) ==
  /\ Idle(c)
  /\ IF Joins(c)
     THEN /\ callers' = [callers EXCEPT ![c] = (CHOOSE l \in Locked : TRUE)[2]]
          /\ UNCHANGED <<requests, refreshLocks>>
     ELSE /\ Len(requests) < MaxRefresh
          /\ requests' = Append(requests, [token |-> stored, pc |-> "sent", new |-> None])
          /\ refreshLocks' = refreshLocks \cup {<<stored, Len(requests) + 1>>}
          /\ callers' = [callers EXCEPT ![c] = Len(requests) + 1]
  /\ UNCHANGED <<loginVars, stored, valid, lost, keyVars, checks>>

\* The request r is over; those who wait for it have its result.
Settles(r, pc, new) ==
  /\ requests' = [requests EXCEPT ![r].pc = pc]
  /\ refreshLocks' = {l \in refreshLocks : l[1] # requests[r].token}
  /\ callers' = [c \in Callers |-> IF callers[c] = r THEN None ELSE callers[c]]
  /\ stored' = IF new = None THEN stored ELSE new

\* The server answers with tokens, which are usable, or have an id_token to
\* verify, or are lost; or it refuses a refresh token that was used before.
Answered(r) ==
  /\ requests[r].pc = "sent"
  /\ IF requests[r].token # valid
     THEN Settles(r, "refused", None) /\ UNCHANGED <<valid, lost, checks>>
     ELSE /\ valid' = valid + 1
          /\ \/ Settles(r, "done", valid') /\ UNCHANGED <<lost, checks>>
             \/ /\ requests' = [requests EXCEPT ![r].pc = "verifying", ![r].new = valid']
                /\ Checking(r) /\ UNCHANGED <<callers, refreshLocks, stored, lost>>
             \/ Faults /\ Settles(r, "failed", None) /\ lost' = TRUE /\ UNCHANGED checks
  /\ UNCHANGED <<loginVars, keyVars>>

\* The request does not reach the server.
Unsent(r) ==
  /\ requests[r].pc = "sent" /\ Settles(r, "failed", None)
  /\ UNCHANGED <<loginVars, valid, lost, keyVars, checks>>

\* The new refresh token is given up with an id_token that is not verified.
RefreshVerified(r) ==
  /\ requests[r].pc = "verifying" /\ checks[r].pc \in {"good", "missing", "failed"}
  /\ IF checks[r].pc = "good" THEN Settles(r, "done", requests[r].new) /\ UNCHANGED lost
     ELSE Settles(r, "failed", None) /\ lost' = TRUE
  /\ UNCHANGED <<loginVars, valid, keyVars, checks>>

Init ==
  /\ method = "device" /\ login = "idle" /\ left = 0 /\ interval = 1 /\ aborted = FALSE
  /\ listening = FALSE /\ outcome = None /\ resolved = None /\ result = None /\ first = None
  /\ stored = 1 /\ valid = 1 /\ callers = [c \in Callers |-> None] /\ requests = <<>>
  /\ refreshLocks = {} /\ lost = FALSE
  /\ published = 1 /\ jwksCache = None /\ checks = [f \in 0..MaxRefresh |-> NoCheck]

LoginWorks ==
  \/ Discovers \/ Callback("timeout") \/ Exchange \/ Verified \/ Sleeps \/ Polls
  \/ Looks(0) \/ Fetches(0)

Refreshes(r) == Answered(r) \/ Unsent(r) \/ RefreshVerified(r) \/ Looks(r) \/ Fetches(r)

Next ==
  \/ LoginWorks \/ Abort \/ Expires \/ RotatesKey
  \/ \E m \in {"browser", "device"} : Login(m)
  \/ \E o \in {"ok", "bad", "cancelled"} : Callback(o)
  \/ \E o \in {"paste", "bad", "escape"} : Paste(o)
  \/ \E c \in Callers : Refresh(c)
  \/ \E r \in DOMAIN requests : Refreshes(r)

Spec == Init /\ [][Next]_authVars

\* Timers run out, and requests have a time limit.
Fairness ==
  /\ WF_authVars(LoginWorks)
  /\ \A r \in 1..MaxRefresh : WF_authVars(r \in DOMAIN requests /\ Refreshes(r))

FairSpec == Spec /\ Fairness

-----------------------------------------------------------------------------
(* Type invariant.  The callback server is open only under a login, and a  *)
(* caller waits only for a request that is under way.                      *)
TypeOK ==
  /\ listening => login \in {"waiting", "exchanging", "verifying"}
  /\ (login = "done") = (result # None)
  /\ \A c \in Callers : ~Idle(c) => requests[callers[c]].pc \in {"sent", "verifying"}
  /\ left \in 0..Lifetime

(* While no answer was lost no refresh is refused: however many callers    *)
(* there are, a refresh token is sent once (oauth.ts:1293).                *)
NoneRefused == ~lost => \A r \in DOMAIN requests : requests[r].pc # "refused"

(* What ends the wait of a login first decides it: a code, redirected or   *)
(* pasted, is exchanged, though the callback is cancelled then; nothing    *)
(* else ends in credentials (oauth.ts:1237).                               *)
FirstOutcomeCounts ==
  /\ first \in {"ok", "paste"} => result # "cancelled"
  /\ method = "browser" /\ result = "credentials" => first \in {"ok", "paste"}

(* An id_token is refused for a missing key only if its key is no longer   *)
(* published: not because the set was cached before a rotation.            *)
MissingIsGone ==
  [][\A f \in DOMAIN checks :
       checks'[f].pc = "missing" /\ checks[f].pc # "missing" => checks[f].key # published]_authVars

(* Every login ends, whatever the user does, and so does every refresh.    *)
LoginsEnd ==
  /\ login # "idle" ~> login = "done"
  /\ \A c \in Callers : callers[c] # None ~> callers[c] = None

=============================================================================
