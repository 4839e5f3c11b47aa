# A TLA+ model of the KiPSel bridge

KiPSel lets somebody who writes private messages to a QQ bot work with `pi`, a
coding agent in a terminal, on their own machine.  A message becomes a *job*; the
job travels through three programs and its answer travels back:

    QQ --> AstrBot plugin --HTTP--> controller <--HTTP long polls-- extension in the TUI
           (Python, queues          (Node, job store,               (loaded by pi, hands the
            per alias)               sessions, xterms)               prompt to the agent)

This directory holds the TLA+ modules that model the programs, the TLC
configurations that check them, and the proofs that TLAPS checks.  The source is
the reference: `PROJECT.json` gives, for every definition, the lines it stands for.

## Inventory

| Part | State | Operations | What makes it correct | Modelled by |
|---|---|---|---|---|
| Job store (`controller/registry.mjs`, `JobStore`) | jobs by id, index by `requestId`, next sequence number | submit, leaseNext, acknowledge, complete, fail, cancel, cancelAlias, requeueLease(s), prune | a job is decided once and keeps its verdict; a lease belongs to one job and a requeued lease is dead; the index is exact; order of leasing; the prompt is kept exactly until the verdict | `JobStore`, `JobStoreProps`, `JobLifecycle`, `JobStoreProofs` |
| Job delivery (`controller/server.mjs`, internal routes) | poll waiters, controls, lease timers | poll, ack, result, fail, control ack, abort, watchdog, markStopped | no prompt is put to the agent twice; every job of a live session is settled; verdicts are not lost or changed | `JobDelivery`, `JobDeliveryProps`, `JobDeliveryProofs` |
| Bridge extension (`tui-extension/index.ts`) | the one `ActiveJob`, `injectingJobId`, poll loop | acceptJob, dispatchActive, inspectActiveWhenIdle, postTerminal, handleControl, pi's events | the answer that is reported is the answer to the job's own prompt; an abort stops the job it names | `JobDelivery`, `JobDeliveryProps`, `JobDeliveryProofs` |
| Harvesting (`tui-extension/core.ts`) | none: a function of the session's entries | findMarker, hasUserAfterMarker, harvestResult | the segment of a job starts at its last marker and ends at the next user message | `Harvest`, `MCFunctions` |
| Checks of data (`main.py`, `server.mjs`, `registry.mjs`, `core.ts`) | none: functions of a job, of the configuration and of the environment of a start | submit, validateImages, validateJobPayload, readJson, mappedError; loadConfig, inCidr, parseRuntimeConfig | what one program accepts is accepted by the next; a configuration that loads can be used | `JobInput`, `ControllerConfig`, `MCFunctions` |
| Session lifecycle (`controller/server.mjs`) | registry record per alias, child processes, start queue | startSession, stopSession, exit callbacks, reconcile | at most three sessions; a signal can go astray only in the moment between a check and its kill; every request ends | `SessionLifecycle`, `SessionLifecycleProps`, `SessionLifecycleProofs` |
| Session registry (`controller/registry.mjs`, `SessionRegistry`) | records, state file | upsert, remove, load, persist, process ownership | a restarted controller adopts its own terminals only | `SessionLifecycle` |
| Plugin queues (`astrbot_plugin_kipsel/queueing.py`, `main.py`) | FIFO queue and active job per alias, ids that are taken, worker tasks, sweeper | ask, cancel, stop, terminate; take_next, submit with retries, wait, finish; sweep | every accepted message gets one verdict and is told of it; one that was dropped is not run; the slot of an alias is freed whatever happens | `PluginQueue`, `PluginQueueProps`, `PluginProofs` |
| Bridge launcher (`launcher/kipsel`, `kipsel-bridge`) | mutex file, holder files, `bridge.owner`, processes | ensure, release, status, stop | no bridge but the launcher's own is signalled, nor a later owner of its pid; it ends with its last holder; a kipsel always starts | `BridgeLifecycle`, `BridgeLifecycleProps`, `BridgeProofs` |
| Subagents (`extensions/subagent`, `subagent-deliver`) | pools of tasks with write scopes, child processes, registry of background jobs | run, schedule, abort, cancel, settle, prune, notify, deliver | tasks with overlapping scopes are kept apart; no child outlives its call; every background job is reported | `SubagentRuns`, `SubagentProps`, `SubagentProofs` |
| Agents (`subagent/agents.ts`, `/subagent-model`) | files of agents, `subagent-config.json` | discoverAgents, setFrontmatterModel, writeDefaultModel | every agent is found once, the project's before the user's; a model that is taken back leaves the agent | `AgentFiles`, `MCFunctions` |
| Plan mode (`extensions/plan-mode`) | mode, steps, tools to give back, entries in the session | commands, dialog, tool gate, agent_end, session_start | steps are those reported for this plan; the tools come back | `PlanMode`, `SessionExtensions`, `SessionProofs` |
| Session goal (`extensions/productivity`) | goal with budget, timer, snapshots | commands, update_goal, llm_query, events of runs | continued within its limits only; resumed as it was | `SessionGoal`, `SessionExtensions`, `SessionProofs` |
| Anchored standard (`extensions/anchored-standard.ts`) | phase of the session, turn anchors | turns, tool calls, requests, session_start; the read tool | promoted once, also by a later process; reading on gives the whole file | `AnchoredStandard`, `SessionExtensions`, `SessionProofs`, `ReadWindow` |
| Tavily client (`controller/tavily.mjs`) | rate queue, endpoint index, cooldowns | search with retries | requests stay apart; every search ends; tool and controller agree on requests and answers | `TavilyClient`, `ServiceExtensions`, `ServiceProofs`, `SearchData` |
| Grok provider (`extensions/pi-grok`) | catalog in memory and on disk, workers, tokens, refresh locks, key set | trigger discovery, fetch, retry, cache; log in, refresh, verify; merge models, sanitize payloads | no stale worker commits; a refresh token is sent once; what pi offers does not depend on timing; payloads hold nothing xAI refuses; answers are bounded | `GrokCatalog`, `GrokAuth`, `ServiceExtensions`, `ServiceProofs`, `GrokModels`, `GrokPayload`, `BoundedJson` |
| Model manager (`extensions/model-manage`) | `models.json`, a working copy per dialog | add, edit, delete, save with merge and backup | a save changes the one provider it is about, brings back nothing that others deleted, and keeps the fields it does not know | `ModelManage`, `ServiceExtensions`, `ServiceProofs` |
| Workflow audit, other extensions, prompts, themes | | | | not modelled, see below |

What is hard to test here: the controller runs handlers between the awaits of
others; the extension has two activities (its poll loop and the `agent_settled`
handler) that await calls while events change the `ActiveJob`; any call can be
lost, answered too late, or overtaken by the next one; long polls, lease timers
and timeouts race the answers; the extension can be reloaded and the TUI can end
at any point; and the user at the terminal types into the same session.
The extensions of the agent act on session entries, timers and dialogs whose
answers come after the state has moved on, and several processes share files.
`PROJECT.json` lists each such hazard at its line.

## Modules

| Module | Contents |
|---|---|
| `JobStore` | the store; one action per method, a throwing call is the action not being enabled |
| `JobLifecycle` | the abstract promise: accepted, decided once, forgotten after |
| `JobStoreProps` | type invariant, invariants, action property and refinement of the store |
| `JobStoreProofs` | the proofs of all of them |
| `Harvest` | reading answers off the entries, on the sequence (as the code does) and entry by entry |
| `JobDelivery` | controller, network, extension and pi for one alias; instantiates `JobStore` and `Harvest` |
| `JobDeliveryProps`, `JobDeliveryProofs` | its properties, and the proofs of those that hold over any number of faults |
| `SessionLifecycle` | terminals, registry records, state file, starts and stops, restarts of the controller |
| `SessionLifecycleProps`, `SessionLifecycleProofs` | its properties, and the proofs of those of safety |
| `PluginQueue`, `PluginQueueProps`, `PluginProofs` | the plugin against a controller of which only the status of each job is kept |
| `BridgeLifecycle`, `BridgeLifecycleProps`, `BridgeProofs` | kipsel processes and calls of the script around one bridge |
| `SubagentRuns`, `SubagentProps`, `SubagentProofs` | calls, jobs, children, registry |
| `PlanMode`, `SessionGoal`, `AnchoredStandard` | three extensions that keep their state in the session file |
| `TavilyClient`, `GrokCatalog`, `GrokAuth`, `ModelManage` | clients of services, and the editor of `models.json`; each with its properties |
| `SessionExtensions`, `SessionProofs` | the first three of these side by side, with what they promise, and the proofs of it |
| `ServiceExtensions`, `ServiceProofs` | the same for the other four |
| `GrokPayload`, `GrokModels`, `BoundedJson`, `ReadWindow`, `AgentFiles`, `JobInput`, `ControllerConfig`, `SearchData` | functions of data |
| `MCFunctions` | builds sessions, jobs, configurations, requests, answers and files step by step, and compares what the functions give with what they should |
| `MCExtensions` | composes `SessionExtensions`, `ServiceExtensions` and `SubagentRuns`, eight systems that share nothing: each behaviour is one of theirs, so that one run checks them all at the sum, not the product, of their states |
| `MCJobStore`, `MCJobDelivery`, `MCSessionLifecycle`, `MCBridgeLifecycle`, `MCSubagent` | constants for TLC, among them those of larger instances |

An operator under a comment `Mutation of X` is X with a plausible bug; `PROJECT.json` names
the property that tells the two apart.

### JobStore

A job is named by its sequence number (the code gives it a UUID too) and a lease
by the number of the lease (the code: a random secret).  Time is a counter, since
only `prune` looks at it.  Prompts, texts and error codes are model values; the
validation of images is taken to have succeeded, as a refused submission changes
nothing.

### JobDelivery

*Calls.*  `calls` holds the HTTP calls under way.  The call that an activity
awaits is in slot `<<activity, 0>>` with the phases sent, waiting (a parked long
poll), woken and answered.  A call that its activity gave up moves to a slot of its
own and can still reach the controller at any later time; its answer goes nowhere.
A poll that `wakePoll` has resumed continues before any other handler runs
(`Quiet`): in the code that is a microtask.

*The extension.*  `active` is the `ActiveJob`; its functions are operators on the
record (`Finish`, `Inspected`, `Aborted`, ...) and a step of the model runs from
one await to the next.  `postingTerminal` is a flag of each `ActiveJob` object, so
it is a field of the record (`posting`), with the activity that has set it: when a job
is cleared and resumed, its new object is free to post while a report of the old one is
still in a slot.  The answer to such a report finds that its object is not active any
more; how many attempts that object had is not kept, and either branch is taken
(`LastResort`).  One `agent_settled` handler awaits at a time.  `dispatchStartedAt` is
abstracted to whether the two minutes are over.

*The session.*  Of the session's entries the model keeps, for each job, the segment
behind its last marker as far as `harvestResult` reads it (`segments`); `MCFunctions`
shows that this gives the same results as the code's loops over all entries.

*pi* is outside the repository and modelled by what the extension relies on: a
prompt handed to pi raises the input event, later enters the session with
`message_end`, and starts the agent or joins its work; the agent settles with an
answer, an error, an abort, or nothing.  The stop of the agent and its
`agent_settled` event are one step.  A reload of the extension waits for prompts in
flight to enter the session.  `context.abort()` is not an action: the agent may
settle as aborted at any time.

*Faults* (all bounded together by `MaxFaults`): a lost call or answer or a time-out,
a result over the body limit, a lease timer or a dispatch time-out that strikes while
what it waits for is still on its way, a watchdog alarm, a prompt that pi loses, a
reload, the end of the TUI.

Left out of `JobDelivery`: `prune` (checked in `JobStore`), restarts of the
controller and `stopSession` (`SessionLifecycle`), shutdown controls,
heartbeats (the watchdog may strike whenever a fault is left), and the
`extension-busy` branch of `acceptJob`: `FreeWhenReady` shows that it is never
reached.  `markStopped` runs after the TUI is gone.

### SessionLifecycle

A terminal is named by the number of its spawn, which stands for its pid together
with the start time and owner marker that `verifyProcessOwnership` compares; its pid
alone may pass to another process (`reused`), at any moment.  A check of ownership and
the kill that follows it are two steps, and the kill of a terminal whose start time
cannot be read has no check: `struck` says which requests have hit a process that has the
pid, and `late` which were past their check when it got it.  A terminal is alive, ending (the user
has quit, or it was signalled) or dead.  `starts` and `stops` say at which await each
request is, with what it has read before.  `file` is the state file; a write under way
is a snapshot, and concurrent writes may be renamed in any order (`marks`).  The exit
of a terminal is noticed only if the controller that spawned it has come to
`child.once("exit")` (`watched`) and still runs.  A start for a live alias, a stop that
is refused and a heartbeat that finds another status than `starting` change nothing and
are no actions.  Projects and profiles are left out: they only refuse starts.

*Faults*: a failed write, an unreadable `/proc` entry, the end of the controller.  An
unhandled rejection after a failed write in an exit callback is the write's fault and
then one of the controller's.

### PluginQueue

A coroutine runs from one await to the next; jobs are numbered in the order they were
queued.  The controller is the abstract one of `JobLifecycle`, seen from outside: the
status of each job it was given and whether the session of the alias runs.  The worker of
an alias takes a job, submits it (with retries under one `requestId`), waits, finishes and
tells; the sweeper, a cancel, a forced stop and `terminate` take jobs from the same queue
across awaits of their own.  `Without` is what is left of a queue when some of its jobs
are taken out, a recursive function because the loops of `queueing.py` are.  Calls are answered, refused, lost or time out; a lost
submission may arrive later (`posts`).

### BridgeLifecycle

A run of `kipsel-bridge` is a *call* whose `pc` is the place in the script.  The lock on
descriptor 9 belongs to the *open file*, which the spawned bridge inherits: it is free
when it was unlocked, or when the call and all bridges spawned under it are gone.  Pids of
bridges are reused at any moment, told apart by start times as in the script; a look at
a start time and the kill after it are two steps.  A process that got a pid while a call
waited for it or was about to signal it is `blind`: the script cannot tell it from the
bridge.  What can happen is a set of
features (`BridgeFeatures`: killed launchers, reused pids, `stop`, `status`, a foreign
bridge, an interrupted call, a hanging bridge); one run covers several worlds.
Properties that a feature breaks say so in their antecedent (`Without`), and the break is
listed under the disagreements.

### SubagentRuns

A call runs its tasks in a pool or as a chain.  `mapWithScopedConcurrency` starts, in
order, every pending task that overlaps with no active one: `Filling` is one pass over
what is pending, in which a task is `Blocked` by those that are active and those that the
pass has started before it; a path is the sequence of its
segments, and `Scope` is where a task may write.  A child is started, ends by itself, is
terminated by an abort, or cannot be started.  The registry drops ended jobs beyond its
limit and queues notifications.

### PlanMode, SessionGoal, AnchoredStandard

They keep state in entries of the session file.  Of the entries the models hold what
`session_start` reads back: the last `plan-mode` entry and the steps tagged since the last
`plan-mode-execute`; the last snapshot of the goal; the anchors of turns.  A process can
end at any point where pi can be ended and another one resumes the session.  In
`SessionGoal` a reply costs one token; a command that waits for a dialog or for the agent
to be idle is in `waiting` and goes on with the goal it then finds.

### TavilyClient, GrokCatalog, GrokAuth, ModelManage

Times in `TavilyClient` and `GrokAuth` are the times that are left, so that no clock
grows.  A catalog in `GrokCatalog` is its `fetchedAt`; workers, reads and writes of the
cache file are each under way across awaits.  `GrokAuth` models the server by what the
code relies on: a refresh token is good for one use, and an id_token is signed with the
key published at the time.  `ModelManage` reduces an entry to what the merge of a save
tells apart: fields that a working copy has, headers that may be cleared, fields the
dialogs do not know, and the ids of the models.

### Functions of data

`GrokPayload` is the sanitizing of a payload: its input items with
text and image parts, and its other fields as a function from names to values.
`GrokModels` is the list of models, made of the built-in or configured ones and a catalog.
`BoundedJson` is the reading of an answer of xAI, whose value is reduced to its tree of
containers, and of the cache file.
`ReadWindow` is the window of a file, by lines and bytes, with the footer that says where
to go on.

`JobInput` holds the checks that a job passes in the plugin, the controller and the
extension.  A text is its length in code points, as Python counts, in UTF-16 units, as
JavaScript does, and in bytes, and says which of `strip` and `trim` leave nothing of it; an image is its type and the length of its base64.
`ControllerConfig` is `loadConfig` on a record of what the fields of the file hold; its
addresses have octets of `OctetBits` bits, so that TLC can look at all of them, and may be
written with leading zeros; words wrap as in JavaScript.  `SearchData` is what a search asks and is told, with texts as their
lengths.  `AgentFiles` is the search for agents and the writing of their models; a file is
the lines of its frontmatter and whether the second fence still stands on a line of its own.

`MCFunctions` takes one of these as its `subject` and builds what the functions are applied
to a step at a time.

## Runs

| Run | Instance | Shows |
|---|---|---|
| `job_store` | 2 aliases, 3 jobs, 3 leases, clock to 2 with a ttl of 0 | the store's invariants, `LeasedInOrder`, and that it implements `JobLifecycle` |
| `functions` | sessions of at most 5 entries by 2 jobs and the local user; jobs with 4 images and texts at their limits; configurations that differ from one that loads in 2 fields; answers of 11 results to a search; inputs of 3 items; all sets of fields; catalogs of 4 models; values of 6 nodes; files of 5 parts read with limits up to 3; 3 files of agents | `BridgeExact`, `CutIsFinal`, `ProviderExact`, `ExtensionsExact` |
| `delivery_faults` | 2 jobs, 5 leases, 1 abort, 1 fault, 2 starts | `SessionAgrees`, `NoReplay`, `PromptedOnce`, `NoStrayAbort`, and `DecidedOnce`, which holds the refinement of `JobLifecycle` |
| `delivery_local` | 1 job, 1 fault, 1 abort, 1 local prompt, 2 attempts to report | `OnePostAtATime`, `OwnAnswer` |
| `delivery_progress` | 1 job, 1 fault, 1 abort, 2 starts, with fairness | `Settles` |
| `sessions` | 2 aliases, 1 session at a time, 2 terminals, 1 stop, 2 faults, with fairness | `RegistrySound`, `StatusAdvances`, `SignalsOwned`, `RequestsEnd` |
| `plugin_jobs` | 1 alias, 2 jobs, 2 retries, 2 commands, 1 fault, with fairness | `QueuesSound`, `VerdictsFinal`, `Answered` |
| `bridge` | 2 kipsels and a `stop`, 2 pids, in three worlds of features | `BridgeSound`, `OnlyOwnSignalled`, `LastCloses` |
| `bridge_closes` | the same with killed kipsels and a foreign bridge, with fairness | `BridgeServes` |
| `subagent_calls` | 2 calls in 4 plans of up to 4 tasks, 2 at a time, a registry of 1 job | `CallsSound`, `CallScopesApart`, `EndsComplete` |
| `extensions` | see below, with fairness | what eight systems keep, each in behaviours of its own |
| `delivery_old_answer` | 2 jobs, 1 abort, no fault | violated: an answer to the aborted job completes the next one |

`extensions` uses plans of 2 steps in 3 processes; 2 goals with budgets up to 2, at most
2 automatic continuations, 2 processes; one subagent call; 2 searches over 2 endpoints
with 3 attempts; 3 discovery workers for 2 tokens; 2 callers of a refresh, 2 keys and one
login of each method; 2 users in dialogs over 2 providers; sessions of 3 turns in 3
processes.  Its `PlanKept`, `ContinuesWithinLimits`, `RequestsApart`, `GrokSound`,
`ProvidersKept` and `SessionsResume` are the properties of the modules of the same
subject; `EverythingEnds` says that whatever users ask for, the system comes to rest.
It can be stated as `<>[]Quiet` because an instance has finitely many requests.

Why the bounds are enough: two aliases at a limit of one session compete for it as four
would for three; two terminals let one replace the other, and a stop meets a start, an end
and an exit of both.  In the delivery runs, a second job is what it takes to see leases, controls or
answers of one job meet another; leases go up to the number that one fault can make
necessary; with one fault every single failure is tried at every point, and the
properties of `delivery_faults` are about what one failure does.  `MAX_TERMINAL_ATTEMPTS`
is 5 in the code; 2 already takes both branches.  In `plugin_jobs` one job waits
behind the other, which is what expiry, cancellation and a stop act on; nothing is shared
between aliases.  In `bridge` two kipsels are one that leaves and one that stays; with two
pids a bridge is succeeded by another or by a stranger that has its pid.  The plans of
`subagent_calls` overlap in every way, are read-only, or are more than may run at once.
Two workers that overlap, two tokens and one retry are all a discovery can be overtaken by; a third
worker is one that is triggered after a failure.
Requests are interchangeable and nothing distinguishes them, so they are a symmetry set in the
runs without liveness; so are the kipsels and pids of `bridge`.  Deadlock is not checked where
the instance rests when all bounds are used up.

*Fairness.*  Handlers of arrived requests, timers and the loops of a running process
do run: the event loops of Node and Python are first in first out.  The controller's handlers get
strong fairness because every woken poll (a microtask) disables them for a moment.
pi takes up its prompts and the agent settles; nobody has to submit, cancel, type or
restart.  In `SessionLifecycle` only awaits that come back are fair: file operations and
waits with a time limit.  Terminals need not ever end.  In `PluginQueue` the tasks of a running
plugin go on, the sweeper wakes up, and calls are answered or time out.  In
`BridgeLifecycle` scripts run, `flock` wakes its waiters, and a bridge that was told to
end ends (it gets SIGKILL otherwise); no kipsel has to leave.  In `SubagentRuns` children
start and end.  In `SessionGoal` the model replies and does not call tools for ever, and
timers and dialogs come back.  In `TavilyClient`, `GrokCatalog` and `GrokAuth`
requests have a time limit and timers fire.

### Disagreements found

`delivery_old_answer` shows the first of them.  The others are what the model of the code
does against a sentence of the repository; where a name is given, the definition stands in
the module of properties, unchecked by the runs, and TLC finds it violated in a small
instance.

Jobs and sessions:

* **An old answer** (`NoOldAnswer`, `core.test.ts:161`).  An abort between
  `sendUserMessage` and the entry of the prompt settles the job; the prompt then enters
  behind the marker of the next job, whose result it becomes.
* **A local answer** (`NoLocalAnswer`, `docs/qq-bridge.md:31`).  A prompt typed before
  `acceptJob` enters behind the job's marker and passes for the job's own.
* **Two jobs of one alias running** (`OneRunning`, `docs/qq-bridge.md:38`).  `leaseNext`
  does not look at the jobs that are leased or running.  If the extension is reloaded while
  its acknowledgement is on its way, the new poll loop gets the next job.
* **A terminal too many** (`TerminalLimit`, `docs/qq-bridge.md:28`).  The exit callback
  marks the session its alias has by then.  After `/internal/end` and a new start, the exit
  of the old terminal takes the new session off the registry while its terminal runs on.
* **A started job cancelled** (`CancelSparesStarted`, `docs/qq-bridge.md:51`: jobs that
  have not begun).  `_cmd_cancel` also cancels the active one at the controller.

* **A job the extension drops** (`LargerJobsPass`).  `loadConfig` allows limits on texts and
  images above those of the extension (`server.mjs:220`); a job beyond these is dropped
  without an answer (`tui-extension/index.ts:341`), and leased again and again.
* **100k characters** are code points for the plugin (`main.py:284`) and UTF-16 units for
  the controller, which refuses a text that the plugin has accepted (`PointsPass`).
* **White space.**  `strip` of Python and `trim` of JavaScript differ: a text of U+FEFF
  alone is queued by the plugin (`main.py:290`) and refused by the controller
  (`registry.mjs:378`).  `JobsPass` allows for it.
* **Leading zeros.**  `parseIpv4` (`server.mjs:35`) takes `100.064.0.1`; the plugin refuses
  such a host (`client.py:217`), and an allowed source so written equals no address of a
  socket (`server.mjs:661`).  `ConfigUsable` speaks of addresses without them.
* **Signals without ownership** (`docs/qq-bridge.md:62`: four checks before a process is
  stopped).  A terminal whose start time cannot be read is killed unchecked
  (`server.mjs:563`); elsewhere the check is awaited before the kill (`:587`, `:599`), and a
  pid that is reused between the two is struck.  `SignalsOwned` says that nobody else is.
* **"Default project or profile is unknown"** (`server.mjs:213`) is not noticed for a name
  that every object has, as `constructor` (`DefaultsKnown`).

Bridge launcher:

* `kipsel-bridge status` prunes holder files without the lock and can delete the one that
  an ensure has just created (`LastCloses` in a world with `status`; `README.md:107`).
* An ensure that is killed before `flock -u` leaves the lock to its bridge, and every later
  kipsel waits for that (`StartsAnyway` with `interrupt`; `README.md:108`).
* `spawn_bridge` compares the start time of the pid it has spawned with itself
  (`kipsel-bridge:128`, `:149`) and records whichever it finds (`:139`); a release looks at
  the pid before it signals it (`:265`, `:273`).  A process that gets the pid in these moments
  is signalled, against rule 2 (`kipsel-bridge:6`); `OnlyOwnSignalled` leaves it out.
* A bridge that misses one health check gets a second one beside it (`Singleton`,
  `README.md:105`).

Subagents:

* Each call has a scheduler of its own: scopes of different calls are not kept apart
  (`ScopesApart`, `README.md:86`).
* The scope `/` overlaps with nothing, since it is compared as `//` (`CallScopesApart` with
  `Rooted`; `subagent/index.ts:547`).
* SIGKILL is never sent: it depends on `!proc.killed`, which SIGTERM has set
  (`CancelReleases` with `Stubborn`; `subagent/index.ts:514`, `:910`).
* `deliver` writes nothing: the spool is never in the child's environment
  (`DeliveriesArrive`; `subagent/index.ts:445`, `README.md:94`).
* Setting the model of an agent joins the second fence to the last line of its frontmatter,
  so that the agent is not found any more (`ModelSet`; `subagent/index.ts:136`).
* Setting the default model erases the other settings of `subagent-config.json`
  (`SettingsKept`; `subagent/index.ts:131`).

Plan mode and goals:

* A queued `plan-mode-execute` message that is lost with its process leaves the steps of the
  plan before (`StepsAreReported` with `Interrupts`; `plan-mode/index.ts:376`).  `--plan` is
  overridden by a saved entry (`:55`, `:366`) and is not saved itself.  A resumed process
  gets the tools that were saved, whatever it was started with.
* `update_goal` makes a paused goal active (`PauseHolds`, `productivity/index.ts:411`).  A
  goal that it creates within a run is neither counted nor continued by that run.

Grok provider:

* The catalog's flag makes pi offer levels of thinking (`models.ts:284`) that the payload
  strips by its own list of models (`sanitize.ts:333`): `EffortsSent`.
* Only system and developer messages at the beginning are moved to the instructions
  (`InstructionsMoved`, `sanitize.ts:11`); their images are dropped.
* A catalog at the limit of depth is accepted and written, but not read back: its file is
  a level deeper and read with the same limits (`CatalogsKept`, `catalog-cache.ts:96`).
* A fresh cache file does not save the fetch (`catalog-cache.ts:25`), and two writes of it
  may be renamed in either order.
* One network error ends a device login; an abort during the exchange is not noticed; a
  redirect of a stale tab decides the login; a refresh token that was rotated is lost
  when the new id_token cannot be verified.

Other extensions:

* `tavily.mjs` chooses the endpoint before it waits for its turn, so that it may be cooling
  by then, and the wait counts towards the request's time limit.
* The model manager cannot save a first provider while `models.json` is missing
  (`model-manage/index.ts:93`, `:135`); cleared headers come back through the merge;
  two processes that save at the same moment can lose an update (`OthersKept` with
  `Overlaps`); a working copy overwrites changes of known fields.
* The edit tool of `anchored-standard.ts` interprets `$&` in a text it calls literal
  (`:84`, `:489`); `session_start` overrides the `--tools` of a subagent (`:548`).
* `git-checkpoint.ts` forgets its checkpoints at the end of every run (`:66`), so a fork
  finds none.

Seen while modelling: a poll whose connection is gone keeps its
waiter and can take a lease for 30 s; the `finish` of an old poll deletes the waiter of
a newer one (a wake-up is lost until that poll times out); `markStopped` fails one
running job only (`server.mjs:459`), so that of two jobs that run after a reload one stays
running with the stopped session, is resumed by the next one and its prompt enters a
second session: that takes two faults, for which reason `PromptedOnce`, `SessionAgrees` and
`HandedOverOnce` speak of one; a report that overtakes the acknowledgement of its job is
refused, and the job resumed; a resume answer that is in flight while the job is settled hands a
finished job to the agent after a reload; an abort that names a leased job whose
delivery was lost stops whichever job the agent works on; a control left over from a
stopped session stays for the next one, since `sessionId` is kept; a hand-over of more
than two minutes is reported as failed while its prompt is still on its way; concurrent
writes of the registry can be renamed in either order; a terminal that ends before
`once("exit")` is never noticed; a restarted controller adopts sessions whose jobs it has
forgotten; a cancel of a plugin job that was not submitted yet is lost; a forced stop lets
the next job be submitted to the stopping session.

## Proofs

All theorems hold for every value of the constants; the runs check the same formulas on
small instances.

`JobStoreProofs`: every property of the `job_store` run.

* `IInv` is the conjunction of `TypeOK`, `IndexExact`, `LeasesExclusive` and the facts
  about single jobs (input and outcome).  None is inductive alone: a submission keeps
  the index exact only if `sequence` bounds all ids (`TypeOK`); `prune` keeps types only
  because a forgotten job's `requestId` leads to that job (`IndexExact`).
* `StepShape` says what a step other than a submission or a prune does to the jobs:
  a change of one or of several jobs by one of five operators; the lemmas after it go by those
  shapes rather than by eleven actions.
* `StoreLeasesInOrder` and `StoreLifecycle` are action properties from the invariant;
  `StoreSettled` joins the two facts about single jobs.

Assumed: `LimitsAssumption` (bounds are natural numbers) and `NoneAssumption` (null is
no input, result or code).

`SessionLifecycleProofs`: `RegistrySound`, `SignalsOwned` and `StatusAdvances` of the run
`sessions`, for any number of aliases, requests, terminals and faults.

* `AllFit` makes one statement about the registry, its file, every snapshot that is being
  written and every mark that may be renamed late: each holds at most `MaxSessions` live
  records, and none of a terminal that is yet to be registered.  It has to be about all of
  them, because a restarted controller takes for its registry whichever was renamed last.
* `OneStart` and `Room` are the start queue: the limit is looked at long before the record
  is written, and holds then only because no other start has come between.
* `SignalsOwned` is about a pid that was reused: whoever is past its check when the pid
  passes on is `late`, and nobody gets past one later.  The invariant says so of those that
  are about to signal (`Poised`) together with those that have struck; it holds because only
  the start of a terminal goes on without a check, and its record is not registered before
  that start has looked.

Assumed: `BoundsAssumption` (bounds are natural numbers).

`BridgeProofs`: `BridgeSound`, `OnlyOwnSignalled` and `LastCloses` of the run `bridge`, for
any number of kipsels, pids and start times, and every set of worlds.

* `Mutex`: the call that is past `flock` is the one that has locked.  It cannot be proved
  without `Phases`, since the lock survives the call that took it.
* `Kept`: without interrupted calls and hanging bridges, a bridge of ours that nobody has told to end
  is recorded with its start time or waited for, and there is none while another is spawned
  or the record is deleted.  Recorded before it answers, it owes that to a foreign bridge.
* `Started`, `Awaited` and `Recorded`: pids are reused, so that a recorded pid means our
  process only together with the start time; start times only grow.
* `Held`: without `status`, a running kipsel has its holder file, and none runs beside one
  whose release has come to the closing of the bridge.

Assumed: `BridgeAssumption` (start times are counted from one, the user is no kipsel) and
`NoneAssumption` (an empty field is no value).

`PluginProofs`: `QueuesSound` and `VerdictsFinal` of the run `plugin_jobs`, for any number
of aliases, jobs, commands, retries and faults.

* `Placed`: a job that the user is yet to be told of is in one place at most: in a queue, with
  the worker of its alias, or in the list of a sweep, a cancel or a forced stop that awaits a
  message.  Each of these tells what it took out, so two places would be two verdicts.
* `Slots`, `Prompts`: where a worker stands and what it holds; a prompt is there until the
  last submission that can need it.
* `Untold` and `Unknown` relate verdicts, places and the controller: a job that waits was not
  told of, and the controller has not heard of one that was dropped, nor can it from a
  submission that is still under way.
* What `Without` gives is proved by the least counterexample (`LeastNumber`, from the
  well-founded order of the natural numbers).

Assumed: `BoundsAssumption` (bounds are numbers, of jobs per alias and tries at least one)
and `NoneAssumption`.

`SubagentProofs`: `CallsSound`, `EndsComplete` and `CallScopesApart` of the run
`subagent_calls`, for any number of calls and jobs, and any plans, scopes and limits.

* `Executions` says of each call and its children that the pool is `Proper` (places, scopes
  apart, the pending ones in order), that whoever lives is an active task, and that a chain
  is at one step, before which all went well.  The pool is sound only together
  with the children: a task leaves it when its child has ended.
* `Jobs` ties the registry to the calls: a cancelled job leaves `running` before it ends, so
  that its end is reported once, as cancelled.
* What `Filling` starts is proved, as in `PluginProofs`, by the least counterexample.

`SubagentsApart` has the hypothesis that no scope is `/`, which the code takes to overlap
with nothing (see the disagreements).  Assumed: `SubagentAssumption` (a plan has a mode and a
sequence of tasks, not empty; limits are positive) and `NoneAssumption`.

`SessionProofs`: `PlanKept`, `ContinuesWithinLimits` and `SessionsResume` of the run
`extensions`, each of its own system, for any bounds, tool sets, flags, budgets and settings.

* `ToolsKept`, `Executes`, `Reports` of plan mode relate the process to the session file: the
  file holds tools to give back exactly while it says that plan mode is on, and the
  completed steps of the plan that is executed are those of the file with what was tagged
  since and what the reply under way reports.  So the end of a process loses nothing.
* `PlanKeptHolds` has the hypothesis `~Interrupts`: a queued message that is lost with its
  process breaks the property (see the disagreements).
* `Within` of the goal: what may be continued is within its budget already when its turn is
  due, since between the timer and its turn only commands can get in, and those that leave the
  goal active ask again.  `InRow` counts an automatic turn that is due as if it were sent, and
  `Agrees` says by what the file lags behind the process.
* The attempt to prove it found a run that the small instance was too small for: with more
  commands, a reply could end before the command that waits for the end of the run before it had
  gone on.  In the code that command goes on as soon as the agent is idle, and a reply takes
  a request: `MessageEnd` waits for it now (`NoneFree`), as it did for the timer.
* `Holds` and `Led` of the phase: the anchors in the file and the events of the session lead
  to the same count and the same promotion, whoever reads them.

Assumed: `SessionAssumption` (bounds are numbers, budgets are within the bound on tokens, and a
promotion is after one turn at least) and `NoneAssumption` (an empty field is no value).

`ServiceProofs`: `RequestsApart`, `GrokSound` and `ProvidersKept` of the same run, for any
number of searches, endpoints, tokens, workers, callers, keys, processes and providers.

* `FirstWaits`: a search that waits heads the queue, so that one waits at most, and the time
  it read cannot be out of date when it sends.  `NextIsApart`: what is left of the wait, or
  else `nextAllowed`, and the time since the last request add up to `MinInterval` at least.
* `CatalogWorkers`: tokens only grow, and who has the present token was started for it.  Without
  it a rotation could bring back the token of a worker that was superseded but still fetches.
  `Fetched`: until the file has been read the catalog in use is the one of
  `discoveryFetchedAt`, the time that the file's is compared with.
* `OneRefresh`: at most one refresh is under way, with the token that pi has, and it holds the
  lock of that token; `InStep`: as long as no answer was lost, that token or the one to come is
  the one the server takes.  `Led` says what may have decided a login, wherever it is.
* `Fitting`: what a process is about to write fits the file as it is, although it was made from
  what its dialogs read long ago, and `OneSaves`: one process is at that.
  `ProvidersAreKept` therefore has the hypothesis `~Overlaps`, without which an update can be
  lost (see the disagreements).  That models stay distinct is proved from what
  `SequenceTheorems` says of sequences.

Assumed: `ServiceAssumption` (times and bounds are numbers, a first attempt is allowed, an upstream
names known models), `AbsentAssumption` (null is
no value) and `ManageAssumption` (an upstream names finitely many models).

`JobDeliveryProofs`: every property of `delivery_faults` and `delivery_local`, `DecidedOnce`
with the refinement of `JobLifecycle`, for any number of jobs, leases, faults, controls, local
prompts and starts.

* `Claimed` is about leases: the store, the extension, the calls that were given up and the
  answers on their way may all name one, and whatever names the same lease names the same
  job.  A late acknowledgement or report acts on the lease it holds, so without this it could
  begin or settle a job that nobody has taken up.
* `Handed` follows a job from the acknowledgement over the extension and pi's queue into
  the session: at each place it has begun, and what has begun never waits again.
* `Ready`: a poll is answered with a job only if it said ready, and the extension takes up
  no other job while such a poll is out.
* `Fresh`: a call that is given up moves to a slot that is free, so that no call under way is
  overwritten.
* `Moves` says what a step may do to jobs, calls, the extension's job and the prompts on
  their way.  Each of the thirty actions is shown to be such a step, and such a step to keep
  the invariant.
* `Sole` is what `SessionAgrees` needs beside these, about behaviours with one fault at most:
  `StoppedHasNoRunning` is false over two.  Without a fault the session lives (`Lives`), the
  calls of the loop are let in (`LetIn`), one job at most is leased or running, and a leased
  one's lease is on its way to the extension or back (`Alone`): so its timer cannot fire,
  and a ready poll finds a running job to resume before it leases another.  When the first
  fault ends the TUI, the acknowledgements it had given up may still arrive: one job at most
  runs or can begin to (`Ended`), and `markStopped`, which fails one running job, leaves none
  (`Left`).  Only `LeasesTo` and `Acks` make a job active; every other step is `Calm`.
* `Prompting` is what `PromptedOnce` and `HandedOverOnce` need beside both.  They hold over one
  fault and not over two, so it follows the prompt through whichever fault it was.  `Fitting`
  says of the extension's job that one marked as sent has its prompt in the session, and that
  over one fault one that is yet to be handed over is unknown to pi, or marked.  `Dropped`
  says why that survives a reload: a job that can be resumed, was handed over and is no more
  with the extension has its prompt in the session, where `acceptJob` finds it.  For that the
  extension may let go of a job early only if its report is settled or its last attempt
  failed, and the last is more than one fault can bring about (`Reported`, `LastTry`); and what
  the loop acknowledges or is about to take up was never handed over (`Offered`).
* Each action is shown to be one of six kinds of step (`StepKinds`): `Serves` for the
  controller, the network and the clients, `Attends` for the extension, `Stirs` for pi and its
  user, and a reload, an exit and a start of the TUI.  Each kind keeps each part of
  `Prompting`; a reload and an exit are where a part is at stake and `Sole` is used.
* `Apart` is what `OnePostAtATime` needs: without a fault a report of the loop is of the job
  whose flag it has set, and one of the handler too, or its job is settled, not with the
  extension and not on its way to it (`FlagsApart`, `TerminalApart`).  The flag alone does not
  give this, for a new `ActiveJob` has a flag of its own.  `Delivered` says why the old one is
  of no matter: no lease comes back (`NoRequeue`), so an acknowledgement is refused, and its
  job cleared, only when that job has been settled meanwhile, and a settled job is neither
  leased nor resumed (`ServedApart`).  Over a fault that fails, and so does the property.
* `Tied` is what `NoStrayAbort` needs beside these: without a fault the extension's job, the
  one on its way to it and the job a control is pending for are all the one active job of the
  store (`ActiveJobs`), and a control the loop was answered with names no other.
* `Own` is what `OwnAnswer` needs: over one fault at most, the segment of a job whose prompt is
  in has no text but the answer to it, and the agent works on nothing else, unless a second
  prompt has cut the segment.  The cut is what `harvestResult` sees of the local user when a
  reload has lost the flags.  Each of the ways to decide an outcome then speaks for the prompt
  or flags it (`FinishSpeaks`, `InspectSpeaks`).

Assumed: `BoundsAssumption` (bounds are natural numbers, attempts and starts at least one),
`NoneAssumption` (an empty field is no value, and in particular no input, call, outcome,
segment or job of the extension) and `LocalAssumption` (the local user is no job).

Only model-checked:

* `TypeOK` and `EverythingEnds` of `extensions`; the types the proofs need are part of their
  invariants.
* The functions of `MCFunctions`: what they compute is stated over all inputs of a size, and
  the recursive ones among them use operators that the provers do not take.
* Liveness under fairness, and whatever is about ENABLED, which is out of the provers' reach.

## Not modelled

* `workflow-audit/index.ts`: lines 588-697 are left over from an older version, so the file
  does not load at this commit.
* The reader of the delivery spool of the main session: no child ever writes to the spool.
* Of pi-grok: account, usage, privacy settings, X search, image and video requests.
* `claude-status-imitating.ts`, `locatrix-guard`, `git-checkpoint.ts`, `kipfel-ui`, prompts
  and themes: presentation, filters of strings.
* Downloads of images, and the parsing of answers of the controller.
* `src/backup` holds older copies of extensions, about a third of the repository's code.

## Plan

1. Controller restarts and `stopSession` composed with the jobs of `JobDelivery`.
2. Two aliases in `PluginQueue`; three kipsels in `BridgeLifecycle`.
