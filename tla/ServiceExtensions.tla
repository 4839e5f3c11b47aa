------------------------- MODULE ServiceExtensions -------------------------
(***************************************************************************)
(* The extensions that talk to a service or share a file with other        *)
(* processes: the search client, the catalog and the tokens of the Grok    *)
(* provider, and the manager of models.json.  They share nothing; what     *)
(* each promises is stated in its own module and gathered here.            *)
(***************************************************************************)
EXTENDS Integers, FiniteSets

CONSTANTS
  Absent,
  Searches, Endpoints, MaxAttempts, MinInterval, Cooldown, RetryDelays,  \* TavilyClient
  Retries, MaxAccessTokens, MaxWorkers,                                  \* GrokCatalog
  Callers, Lifetime, MaxRefresh, MaxKeys, Faults,                        \* GrokAuth
  Processes, Providers, Models, Values, Upstream, MaxModels, MaxFlows,   \* ModelManage
  Overlaps

VARIABLES
  searches, rateQueue, nextAllowed, cooldowns, endpointIndex, sinceFetch,
  credential, discoveryLastToken, discoveryInFlight, discoveryLastError, discoveredBody,
  discoveryFetchedAt, fresh, workers, disk, file, writes, clock,
  method, login, left, interval, aborted, listening, outcome, resolved, result, first, stored,
  valid, callers, requests, refreshLocks, lost, published, jwksCache, checks,
  modelsFile, procs, flows

Search  == INSTANCE TavilyClient WITH None <- Absent
Catalog == INSTANCE GrokCatalog WITH None <- Absent, MaxTokens <- MaxAccessTokens
Auth    == INSTANCE GrokAuth WITH None <- Absent
Manage  == INSTANCE ModelManage WITH None <- Absent

\* What a login may end with or be decided by.
Words == {"ok", "paste", "credentials", "cancelled"}

ASSUME ServiceAssumption ==
  /\ Search!TavilyConstants /\ Catalog!CatalogConstants /\ Auth!AuthConstants
  /\ Manage!ManageConstants

ASSUME AbsentAssumption == Absent \notin Nat \cup Words

ASSUME ManageAssumption == IsFiniteSet(Upstream) /\ Values # {}

-----------------------------------------------------------------------------
(* Two requests of the search client are never sent closer to each other   *)
(* than minIntervalMs (tavily.mjs:258).                                    *)
RequestsApart == Search!RequestsApart

(* Of the Grok provider: only the worker that is said to be in flight can  *)
(* change the catalog, which is never replaced by an older one             *)
(* (models.ts:506, :554); a refresh token is sent once, what ends the wait *)
(* of a login first decides it, and an id_token is refused for a missing   *)
(* key only if its key is no longer published (oauth.ts:1284, :1238, :765) *)
GrokSound ==
  /\ []Catalog!OneCommitter /\ Catalog!NeverOlder
  /\ []Auth!NoneRefused /\ []Auth!FirstOutcomeCounts /\ Auth!MissingIsGone

(* models.json: a write changes the one provider its dialogs are about,    *)
(* neither brings it back when others deleted it nor adds it over one of   *)
(* theirs, and drops no field of it that the dialogs do not know; what     *)
(* others wrote to its known fields meanwhile is overwritten.  The file    *)
(* that is replaced is kept, and every provider has models, none twice     *)
(* (model-manage/index.ts:1049, :1193, :1198, :122, :402).                 *)
ProvidersKept == []Manage!ModelsListed /\ Manage!OthersKept /\ Manage!ReplacedIsKept

=============================================================================
