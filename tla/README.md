# A TLA+ model of browser-use-rs

This directory models the parts of browser-use-rs that hold state across
awaits, tasks, timeouts and restarts: the connection every browser command goes
through, the agent loop that decides what is sent over it, the browser session
and its watchdogs between the two, and the recorders, files and stored sessions
around them. The TLA+ modules are translated from the Rust source; paths below
are relative to `src/`, and `PROJECT.json` maps every definition to its lines.

| Modules | What they model | Checked by |
|---|---|---|
| `CdpTransport`, `CommandChannel`, `CdpTransportProofs` | the Chrome DevTools (CDP) connection and what it promises | `MCCdpTransport`, tlapm |
| `AgentRun`, `AgentRunProofs` | the agent's run loop | `MCAgentRun`, tlapm |
| `UrlPolicy`, `BrowserTargets`, `UrlPolicyWatchdog`, `BrowserSession`, `BrowserSessionProofs` | the session, its tabs and the policy that watches them | `MCBrowser`, tlapm |
| `LifecycleWatchdog`, `HarRecorder`, `VideoRecorder`, `StorageState`, `RecordersProofs` | what a session records of the browser, and how it ends | `MCParts`, tlapm |
| `PdfDownloads`, `Artifacts`, `DaemonSessions`, `SavedFilesProofs` | files several tasks save in one directory; processes and records that outlive a call | `MCParts`, tlapm |
| `ActionExecutor`, `ElementIndex`, `KeyInput`, `ManagedFiles`, `ActionReplay`, `ActionPartsProofs` | from an answer of the model to the calls on the session; from an index to an element; what actions press, write, and are replayed on | `MCParts`, `MCReplay`, tlapm |
| `PartsProofs` | that the composition of these parts keeps what each promises | tlapm |
| `TaskUrls`, `LaunchPlan`, `PlanProofs` | pure functions, as operators; the proofs, with those of `UrlPolicy` | assumptions of `MCParts`, tlapm |
| `Orders` | the order in which a loop visits what it collects, for three of these modules | with them |

## 1. The system and its parts

An embedding program (or the CLI, or an MCP client through the daemon) builds an
`Agent` with a task, a chat model and a `BrowserSession`. The agent loops: read
the state of the page, ask the model for actions, execute them one by one. The
session turns an action into CDP commands on one shared `CdpConnection`, whose
actor task owns the websocket. Background tasks, the *watchdogs*, subscribe to
the connection's events, keep buffers the session shows to the model, and send
commands of their own.

| Component | State | Operations | Talks to | Modules |
|---|---|---|---|---|
| CDP transport (`transport.rs`) | request channel (64), event broadcast (256), next id, generation, intentional-stop flag, session generations; in the actor: socket and pending map | `command`, `register_attached_session`, `mark_intentional_stop`; actor: send, read, close, reconnect | Chrome; every other CDP component | `CdpTransport` |
| Target attachment (`target.rs`) | none of its own | list, create, attach, enable domains | transport | `CdpTransport`, `BrowserSession` |
| Browser session (`session*.rs`, `browser_session_impl.rs`, `dom_session.rs`) | current page, cached elements, pending policy error, event buffers, recorders | navigate, back, tabs, click, type, keys, upload, screenshot, close | transport, watchdogs, policy | `BrowserTargets`, `BrowserSession`, `ElementIndex`, `KeyInput`, `StorageState` |
| Lifecycle watchdog (`watchdog.rs`, `lifecycle.rs`) | 32 events, active requests, network activity | one step per CDP event or tick | transport events, downloads, recorders | `LifecycleWatchdog` |
| URL policy and its watchdog (`policy.rs`, `watchdog.rs`) | 8 events, first pending error | decide per event, reset or close, report | transport, session | `UrlPolicy`, `UrlPolicyWatchdog` |
| Downloads (`watchdog/downloads.rs`, `session_helpers.rs`) | candidates, map of saved documents | observe, take, write | transport, file system | `PdfDownloads` |
| Recording, storage (`recording*.rs`, `storage.rs`) | HAR entries, frames, cookies, origins | observe, flush, save, load | transport, file system | `HarRecorder`, `VideoRecorder`, `StorageState`, `Artifacts` |
| Launch, profiles, cloud | child process, temporary directories | launch, detach, provision | OS, HTTP | `LaunchPlan`, `DaemonSessions` |
| Agent run loop (`agent.rs`, `agent/*.rs`) | history, controls, fallback model, one-time flags | `run`, `step`, stop, pause, resume, new task, checkpoint | model, executor, callbacks | `AgentRun` |
| Executor (`executor*.rs`) | file system | one action, a sequence | session | `ActionExecutor`, `Artifacts` |
| Replay (`executor.rs`, `history.rs`, `browser-use-dom/interacted.rs`) | the plan | rematch, replay | session | `ActionReplay` |
| Element capture (`dom.rs`, `dom/scripts*`) | none of its own | list, merge, number, resolve | page scripts | `ElementIndex` |
| Managed file system (`file_system*.rs`) | files in memory and on disk, extract count | read, write, replace, extract, snapshot | agent, executor | `ManagedFiles` |
| Prompts, settings, start URL (`prompt*.rs`, `settings.rs`, `urls.rs`) | none | pure | — | `TaskUrls`, in part |
| CLI, daemon, session store (`session.rs`, `mcp_daemon.rs`) | session records on disk, one runtime behind a mutex | start, use, stop, cleanup | session, OS | `DaemonSessions` |
| DOM rendering, token usage, LLM providers, fixtures | counters at most | pure or one request | — | none, see 9 |

Where it is hard:

- **Transport.** Callers, the actor, the browser and the network interleave; a
  call can be dropped at any await by a timeout; the connection can break at any
  moment and be replaced by one on which old sessions do not exist. Correct means:
  nobody waits for an answer that cannot come, no command is repeated, an answer
  reaches the command it answers, an asked-for stop is final, events tell the
  truth.
- **Agent.** One future runs at a time, but it can end at any await: step
  timeout, action timeout, refusing callback, failing browser. What survives is
  whatever was already written into the agent. Correct means: success rests on
  an answer, executed work is in the history, the controls hold, counters and
  numbers agree with the history however it was shortened or restored, every
  call returns.
- **Session and policy.** The current page and the cached elements are shared
  with the watchdogs and go stale on navigation, reconnect and tab changes; each
  call is several commands of which any may fail; the watchdog reads a lossy
  broadcast and dies when it lags. Correct means: the elements an action goes by
  are those of the current page, and a forbidden page is noticed, dealt with and
  reported.
- **Recorders.** They see events late, with gaps, and wait for commands between
  two of them. Correct means: what is written belongs together.
- **Actions.** A model answers to a page that was; an element is named by a
  number, or by a fingerprint. Correct means: the action meets the page and the
  element it was meant for, or the exact reasons are known.
- **Files and processes.** Two tasks, executors or processes use one directory
  without a lock; steps fail half way. Correct means: a file that was reported
  holds what was reported, and a browser that runs can be found and stopped.

`PROJECT.json` lists these hazards at their lines with the properties that cover
them. Where the code does run into a hazard the property excuses exactly that
case and shows that there is no other; the hazard's `note` then says what is
excused, and is not covered.

## 2. How the project is laid out

`CdpTransport` and `AgentRun` stand alone. `CdpTransport` refines
`CommandChannel`, and the other modules use what it promises in the form "a
command is answered, fails, or was sent to a connection that is gone".
`BrowserTargets` holds what the session, the policy watchdog, the transport and
Chrome share; `UrlPolicyWatchdog` extends it with the watchdog and
`BrowserSession` with the session's calls, and its `Next` interleaves all four.
`AgentRun` takes the executor as an environment that answers, fails or stays
silent; `ActionExecutor` is that executor, one answer of a model at a time.

The other modules share no variable with each other. Their instances are put
together in `MCParts`, where the variable `part` says which of them takes the
steps of a behaviour: one run checks them all, none multiplies the states of
another. Each is a specification of its own and can be instantiated alone, as
`MCReplay` does.

The proofs of a component are in a module of their own that extends it; four of
these, `RecordersProofs`, `SavedFilesProofs`, `ActionPartsProofs` and
`PlanProofs`, hold those of several small components, one section each.
`PartsProofs` extends `MCParts` and the first three of them.

Operators with a `Fault` name before a definition are mutants: `PROJECT.json`
says which definition each replaces and which property then fails.

## 3. CdpTransport

### How the module corresponds to the code

| Variables | Code |
|---|---|
| `handles` | some `Arc<CdpConnection>` is alive |
| `nextId`, `generation`, `intentionalStop`, `registered` | `next_id`, `connection_generation`, `intentional_stop`, `session_generations` |
| `queue` | the bounded mpsc channel |
| `actor`, `attempt` | where `cdp_connection_actor` and `reconnect_cdp_socket` stand |
| `pending` | the actor's pending map |
| `published` | the last websocket event broadcast |
| `caller` | where each caller stands in `command` or `attach_to_target` |
| `command`, `outcome` | the request of an id and its response oneshot |
| `linkUp`, `wire`, `replies`, `performed`, `born` | socket and Chrome, external |

An action is the code between two awaits. `Issue` is the generation check and
the id; `Enqueue` the wait for room in the channel; `SendNext`, `ReadResponse`
and `DetectClose` are the branches of the actor's `select!`; `Reconnect` to
`LastConnectFails` the reconnect loop with its three attempts. `Attach`,
`Register`, `Enable` are `attach_to_target`. `Abandon` drops a caller's future at
any await, as the timeouts around navigation, actions and steps do. `DropHandles`
needs every caller idle because a call borrows the connection.

A session is named by the id of the command that attached it. `command` records
the generation at the check and at the write and is reset when the command is
resolved: history variables that only properties read. Chrome (external)
carries out received commands in any order, answers success or failure, and
fails a command for a session of another connection. A broken link loses what
travels on it and some of the unread answers; a write to a broken link may
succeed, and is lost, or fail.

`Perform` keeps the answer on the link until it is read; an answer is never lost
while the link is up, as on a websocket.

### Runs

| Run | Bounds | Shows |
|---|---|---|
| `transport` | 2 callers, one impatient, channel of 1, 2 attempts, 3 commands, 1 reconnect | `WaitingIsHeld`, `PendingIsCurrent`, `StaleSendIsRaced`, `EventsTellConnection`, `AtMostOnce`, and `Inv`, the inductive invariant of the proofs, which contains `TypeOK` |
| `transport_live` | the same with 2 commands | `LossResolvesPending`, `CallsReturn`, `StopIsFinal`, `ImplementsChannel` |
| `stale_send` | 1 caller | `NoStaleSessionSend` fails (finding) |
| `drop` | 1 caller | `DropEndsActor` fails (finding) |

Three commands are an attach and the two domain enables that make a page, or two
callers' commands with a late third; a channel of one is full as soon as the
second caller sends; one reconnect gives two generations, which is all the stale
check compares; two attempts exercise first, middle and last. The proofs remove
all these bounds for the safety properties.

*Fairness* (`TaskFairness`): a ready Tokio task is polled eventually and
`select!` picks randomly among ready branches, so each branch of the actor and
each started call has weak fairness; connecting ends by
`CDP_CONNECT_TIMEOUT_MS`. Callers need not make calls, and Chrome need not
answer: `CallsReturn` assumes `WF(Perform)` explicitly, `LossResolvesPending`
does not.

### Proofs (`CdpTransportProofs.tla`)

Every theorem holds for every set of callers and every value of the other
constants allowed by `TransportAssumption`.

`WaitingIsHeld`, `PendingIsCurrent` and `AtMostOnce` are not inductive. A caller's oneshot is
in one place only because ids are fresh, queued once and owned by one caller; a
command is carried out once only because what travels on the link is pending on
it and not yet performed. `Inv` adds those facts: `FreshIds` (an id not handed
out is nowhere), `HeldOnce` (queue without duplicates, disjoint from pending),
`OnTheWire` (link contents are pending; one answer per command), `CallerIds` (ids
are owned), `ActorPhase` (pending and link are empty unless serving). Each
conjunct is shown to be preserved, one step per action of `Next`;
`Invariance` combines them. `TypeCorrect`, `NoLostCaller`,
`PendingStaysCurrent` and `NoRepeat` follow. `ChannelImplemented` proves
`Spec => Channel!Spec` with the refinement mapping `phaseBar`,
`carriedOutBar`: every action is one action of `CommandChannel` or a stutter,
given `Inv`.

`StaleSendsAreRaced` needs one more invariant, `SessionsAreRegistered`: a session
is registered once, by the one caller that attached it, before it is used, and
the generation a command was checked against is the one its session was
registered with. What was written to a newer connection was therefore checked
before it, or its session was registered late. `EventsTellTruth` follows step by
step from `Inv`. `StopsForGood` is a temporal property of the form
`[](P => [](generation = g))`: `Stopping` (the flag is set, generation `g` is
served or being closed for good) is kept by every step, so it holds from the
moment the flag is set.

Only checked by TLC: liveness (`LossResolvesPending`, `CallsReturn`).

## 4. AgentRun

### How the module corresponds to the code

| Variables | Code |
|---|---|
| `history`, `compactedAt`, `initialExecuted` | `AgentHistory.items` and `last_compaction_step`, `initial_actions_executed` |
| `stopped`, `paused`, `fallbackLlm`, `usingFallback` | fields of `Agent` |
| `phase`, `purpose` | the await the call stands at, and which caller wants the sequence |
| `plan`, `results`, `maxSteps`, `stepsUsed`, `failures` | locals of the call |
| `verdict` | the `Result` of the last call |
| `started`, `unseen` | history variables: executed and unrecorded actions; a follow-up no model call carried |
| `calls`, `restores`, `saved` | host: bounds and the last checkpoint |

`run` and `step` take `&mut self`: host operations happen between calls, and
during a call the host speaks through callbacks only, all of which meet in
`check_stop_requested` (`CheckPasses`, `CheckRefuses`). An item is its step
number, its actions and its results. Actions are told apart by what the loop
looks at: whether they end a sequence (`leave`, `done`) and whether they count for
loop detection (`act`, `leave`). The executor, the model, `session.state` and the
callbacks are environments that may answer, fail or stay silent. Two checks in a
row with nothing in between are one (a refusal by either is the same return).
The page changing under an action is `LookAfter` recording at once.
`FromCheckpoint` may happen at any moment: the process that made the call is
gone.

Compaction keeps its effect (retained items, clock); whether it is worthwhile
and the summary's text are a choice. The judge and usage accounting change
nothing else. Page extraction's model call is inside the executor's answer.

### Runs

| Run | Bounds | Shows |
|---|---|---|
| `agent` | 2 calls, budget up to 2, 6 plans, initial action, fallback | `SuccessIsAnswered`, `DoneStandsAlone`, `WorkIsRecorded`, `BudgetEndsInError`, `ControlsHold`, and `Inv`, the inductive invariant of the proofs, which contains `TypeOK` |
| `agent_history` | 2 calls, budget up to 3, 1 restore, compaction after every step, an excluded action, no fallback | `FailuresAreConsecutive`, `StepNumbersDistinct`, `CompactionNotAhead` |
| `agent_live` | 2 calls, 2 initial actions | `StepsEnd`, `CallsReturn` |
| `initial` | 2 calls | `InitialActionsRan` fails (finding) |
| `follow_up` | 2 calls | `FollowUpIsSeen` fails (finding) |

Two calls are the least in which one call meets what another left; two steps give
a normal and a last step, three a failure count that goes up and back; plans of up to three actions cut to two cover
truncation, a late `done` and a sequence of two executed actions. Loop detection
looks back two items, compaction keeps one or two beside the first.

*Fairness*: the agent's code runs when scheduled, and its three timers fire
(`llm_timeout_seconds`, the action timeout, `step_timeout_seconds`). Nobody
else must answer. `StepsEnd` holds with that alone. `CallsReturn` needs
`WF(Looks)`: the initial actions and the final response after failures call
`session.state` outside the step timeout (`agent.rs:319`, `agent.rs:384`), so a
silent browser keeps `run` waiting there. User callbacks and file writes are
taken to return.

`WorkIsRecorded` states the exact exception: a call that is stopped, interrupted,
refused by a failing callback or timed out in the middle of a step returns
without recording the actions it executed.
`CompactionNotAhead` is checked with `KeepLast` of two, and holds for any value
above zero; `FailuresAreConsecutive` speaks of at most the `KeepLast` items that
compaction leaves. With `keep_last_items = 0` compaction
keeps only the first item, so step numbers start again from it and the clock
stands ahead of them.

### Proofs (`AgentRunProofs.tla`)

Every theorem holds for every set of action lists and every value of the
settings and bounds allowed by `AgentAssumption`; `CompactionStaysDue` assumes
`KeepLast > 0`, for the reason above.

`Inv` strengthens the properties by what each await may rely on. `SoundMemory`
speaks of a history with its two clocks, and is asked of the agent's memory and
of the last checkpoint alike, which is why a restore at any moment keeps it: no
two items share a number, a done result stands alone, no item has number zero
before the initial actions were taken, the compaction clock is not ahead.
`PurposeFits` says which caller may stand at which await and that no call
passes its checks with a control set; `HistoryFits` that a recorded item is the
newest and that interrupted initial actions have not recorded anything;
`SequenceFits` that a sequence in progress has only succeeded so far and that a
done about to run is its first action; `BudgetFits` that the last step holds
nothing but done.

The argument: `AppendSound` and `RetainedSound` show what recording and
compaction do to a history (`MaxOfBounded` gives the largest step number, from
the well-foundedness of the naturals). Almost every action either returns
(`ReturnKeeps`), records (`RecordKeeps`, through `ErrorRecorded`,
`ResultsRecorded` or `ResultEnds`) or only moves; one lemma per group of actions
shows that it keeps `Inv`, and `StepKeeps` puts them together. `TypeCorrect`,
`NoLostWork`, `NumbersNameSteps`, `DoneIsFirst`, `SuccessRests`,
`LastStepAnswersOrFails`, `CompactionStaysDue` and the action property
`ControlsAreKept` follow from `Inv`.

`FailuresAreTheLast` needs an invariant of its own, `FailuresFit`: at each await
the failure count is that of the last items of the history, of all but the newest
once a step has recorded its item, and zero outside the loop. Compaction keeps it
because it keeps the last items; a restore returns to a state where nothing has
failed.

Only checked by TLC: the liveness of `StepsEnd` and `CallsReturn`.

## 5. The browser session

### How the modules correspond to the code

`UrlPolicy` is `is_allowed` and `block_reason` on a parsed address: labels of the
host, the octets they stand for if each is a number, the shape of a pattern. A
host is an address when its last part fits the octets left over
(`parse_non_standard_ipv4`), with `OctetBase` for 256.

| Variables | Code |
|---|---|
| `tab`, `attached` | Chrome: what each target shows, and which have a session of this connection |
| `gen` | `connection_generation`, advanced by `Reconnect` |
| `events`, `lagged` | the watchdog's receiver on the event broadcast, and whether it has dropped an event |
| `watching`, `discovering` | the watchdog's task lives; `Target.setDiscoverTargets` was sent on this connection |
| `page`, `cache`, `pending` | `page`, `last_dom_state`, `pending_url_policy_error` of `CdpBrowserSession` |
| `act`, `gaveUp` | the action the watchdog applies; actions whose command failed |
| `call`, `outcome` | the session call in progress at its await, and how the last one ended |
| `listing` | the elements `dom_state` has listed and `state` has not yet cached |
| `since` of the elements | history: what has happened since they were listed that they do not show: the page moved, the session switched to another |

A call is `state`, `navigate` (in the tab or a new one), `go_back`,
`switch_tab`, `close_tab`, or an action on the page. Between its awaits Chrome
moves pages, opens popups, closes tabs; the transport reconnects and every old
session is gone; the watchdog reads an event, decides from the page it then
sees, sends its command and waits. Every command may fail, and a call may be dropped
by the timeout of the action or the step wherever it awaits Chrome. Three stages
are there for what falls between two awaits: the new page is set and its
screencast awaited before the old elements are cleared (`SetsPage`,
`ClearsCache`; session_helpers.rs:170, browser_session_impl.rs:228-231), the
elements are listed and the accessibility tree and the frames awaited before they
are cached (`ListsElements`, `StoresElements`; dom_session.rs:219-276), and the
watchdog's reset is carried out before its answer lets it clear them
(`WatchdogCommands`, `WatchdogFinishes`). A wait for a lock alone is not taken as
a place where a call stops. `Enforce`,
`ListsTabs`, `EnforcesOnTab`, `EndsRound` and `Settles` are
`enforce_open_tab_url_policy` with its rounds.

### Run `browser`

| Property | Says |
|---|---|
| `CachedElementsAreCurrent` | between calls the cached elements are of the current page in its present session, unless the call that switched to it was dropped before it cleared them; and of the address it shows, unless the page moved after they were listed: by itself, by a command whose success no call saw, or by a reset of the watchdog while they were captured |
| `BlockedTabsAreWatched` | while the watchdog lives, has not lagged and discovery is on, no tab stays at a forbidden address unnoticed. These are exactly the three ways it goes blind: `connect` never starts it, the task ends when it lags (`watchdog.rs:615`), and a reconnect ends discovery (`:606`) |
| `PageIsAttached` | commands go only to sessions whose domains were enabled |
| `PendingIsReported` | a blocked navigation kept for the next call is never overwritten and goes away only when a call fails with it or has dealt with it |
| `OkMeansEnforced` | under a policy with any rule, a call that ends well left no tab at a forbidden address, except one that went there after the tabs were listed |
| `BrowserTypeOK` | types |

Bounds: two tabs (the current one and another, which a new tab, a popup or a
closed current tab need), three addresses of which one is forbidden, two calls
(one meets what the other left) beside any number of calls of `state`, one
reconnect (two generations) or one move of a page by itself, an event buffer of
two: the third unread event makes the watchdog lag. What a dropped call's command
does to the page later is a move by itself. Of the tabs a call lists only the
forbidden ones are kept, as it looks at no other.
`OctetBase` of 4 only matters for addresses.

### Proofs (`BrowserSessionProofs.tla`)

Every theorem holds for all targets, addresses, policies, event buffers, and
numbers of calls, reconnects and moves allowed by `TargetsAssumption`: the first target is one of the targets, the blank
page is allowed, and the marks for "none", "closed" and "unborn" are no
addresses.

None of the properties is inductive: each speaks of the moment between calls, and
its reason lies in what a call or the watchdog knew at an earlier await.
`BrowserInv` has one part per kind of knowledge. `CallInv`: the stage of a call
says that it works on the current page, which of the tabs it has listed it still
has to deal with, and, from the capture on, that no listed tab was forbidden; a
call that finds its page stale goes through `"page"` and comes back, so these
facts are stated of the stage it is *heading* for. `PageInv`: the page is
attached on the connection it names, and so is the one a call is about to make
the current one. `CacheInv`: the cached elements are of the current page and of
the address the tab shows, or carry the mark that says why not, or the call is
between `SetsPage` and `ClearsCache`; the same holds of the elements being captured,
which a call caches without another look; and a watchdog whose reset was answered
is about to clear them. `WatchInv`: for every tab at a
forbidden address there is the unread event, the action or the failed command
that is about this very address, while the watchdog reads, has not lagged and
discovery is on. The four parts are shown to be kept one by one (one lemma per
group of actions), because an action of Chrome, of the watchdog or of a call
disturbs mostly one or two of them. `BrowserInvHolds` combines them; `BrowserIsTyped`,
`PageStaysAttached`, `ElementsStayCurrent` and `ForbiddenTabsAreWatched` follow,
and so do, step by step, the action properties `PendingErrorsAreReported` and
`WellEndedCallsEnforce`.

The attempt to prove `OkMeansEnforced` for every policy failed, and rightly:
`validate` refuses an address without a host under any policy, but
`enforce_open_tab_url_policy` returns at once when the policy has no rule
(`IsUnrestricted`), so a call then ends well with such a tab open. The instance
TLC checks has a rule. The property now says so.

## 6. The parts of `MCParts`

Every module keeps the code between two awaits as one action, makes each
command able to fail, and lets the environment move in between.

| Module | State and steps in the code | Property | Bounds |
|---|---|---|---|
| `LifecycleWatchdog` | `lwEvents` is its receiver, `lwBusy` the command a handler waits for (a dialog, `watchdog.rs:499`; a response body, for a PDF or a HAR entry; a screencast frame), `lwActive` the request table, `lwNet`/`lwLast` `NetworkActivityState`, `lwLog` the event log; ticks for time | `EarlyIdleIsTrue`: a wait for network idle that ends early is right about every request of which no event is unread or lost | 2 requests, one of them http; buffer 2, log 1, idle after 1 tick, timeout 2, 3 ticks, 1 other event: the buffer overflows, a request times out and a wait still ends |
| `PdfDownloads` | the watchdog and the session, each look up, choose a free name, write and remember (`DlChooses`, `DlWrites`, `DlRemembers`) | `CachedFileHoldsDocument`: the remembered file holds its document unless both tasks chose before either wrote, or a deleted name was taken again | 2 documents of one name, 3 downloads: names with and without suffix |
| `HarRecorder` | `hrEntries`, `hrPage` of `CdpHarState`; a redirect is a new hop of a request; events may be lost | `WrittenAnswersAreOfTheirUrls`: an entry's answer is of its URL unless the redirect was lost, or led to a URL that is not https | 2 requests with 2 hops: a document at two origins, an icon redirected to http; all content modes |
| `VideoRecorder` | `start_screencast_for_page` stops, starts and sets the session in three awaits while frames are read | `VideoFollowsTheTabs`: no frame of an earlier page after one of a later | 3 pages, 3 frames, 2 unacknowledged |
| `StorageState` | load, launch, save and `close_browser` await by await, with and without a `storage_state_path` (`stPath`); cookies, the page's own origin and those of its frames are read one by one while the page goes on; a write that fails, or a crash in it, tears the file | `SavedStateWasHeld`: what a save writes the browser had after the save was asked for, no origin of another time, the page's own included if it shows one document throughout; a close with a path ends Chrome only over such a file of its own | 2 origins, 1 change of each item, 2 calls: a save or load and the close or launch that meets what it left |
| `KeyInput` | key names, combinations and clicks as lists of input commands | `KeysAreReleased`: between calls only what a failed call left is held, and a key goes down with the modifiers of its mask | 4 texts: a combination of one and of two modifiers, a special key, text; 3 calls |
| `ElementIndex` | capture (list, enrich, merge, number), the cache, resolution by node id, the fallback by place in a fresh list, uploads | `ActsOnShownElement`: an indexed action meets the element that was shown under the index, unless the document changed or the two lists count differently | 4 elements in page and cross-origin frame, one suppressed; 1 change, 2 captures or actions |
| `ActionExecutor` | the calls of every action (`CallsOf`), refusals and fallbacks, the timeout, the rules of the sequence (`XeGuards`, `XeAfter`) | `ActsOnSeenPage`: an action begins on the page the model chose it by, unless the page moved between the model's state and the first action or between two | 2 URLs, all actions alone and some before others, 2 answers, 1 move by itself |
| `ActionReplay` | `rpMode` is `replay_history`, `execute_replay_plan` or `execute_sequence`; fingerprints, five levels of matching | `ActsOnOriginalElement`: a replayed action meets the recorded element while it is there, can be told by an attribute, and the capture has not changed since | 6 looks: with and without id, two of one name, two alike; 1 change |
| `ManagedFiles` | `mfFiles` memory, `mfDisk` directory; disk first; a failed write, absolute paths, `nuke`, checkpoint and restore | `ManagedFilesAgree`: memory and disk agree except for touched names; an extract stays under the name the model was given; an upload sends what reading shows | 2 names, one of an extract; 2 pieces, 4 operations |
| `DaemonSessions` | the record (`dsRecord`, which may be torn), `DevToolsActivePort` (`dsPort`), the daemon's runtime (`dsMemory`), processes | `RunningBrowsersAreRecorded`: when no command runs, a running browser has a record that leads to it, unless commands overlapped, one was killed, or a browser outlived the wait | daemon and one command, 2 browsers, 3 commands |
| `Artifacts` | choose a name, make the file, rename (trace), fall back (video) | `ReportedFilesHold`: a file a caller was told of holds that artifact whole, and no torn trace has its name, unless two writers shared a name or the tries ran out | 2 writers, 3 artifacts, a last try of 1 for 1000 |

`PartsTypeOK` is the conjunction of their types. Every exception in a property
names a behaviour the code has: without it TLC shows the behaviour. A bound of
one change or move is enough for these exceptions to arise and for the property to be
needed after them; the suffixes and indices go one beyond the first.

*Pure functions.* `TaskUrls` models the shortening of URLs in a request and its
undoing in the answer (`ShorteningHolds`: undone for every request unless two
URLs share their short form; a rewritten URL is shorter), and the start URL of a
task (`StartUrlHolds`). `LaunchPlan` models the command line
(`LaunchHolds`: no switch twice, the last value wins, one merged
`--disable-features`; headless excludes devtools and no viewport), the executable
(`ExecutableHolds`) and the endpoints (`PortFileHolds`). They are named
assumptions of `MCParts`, evaluated by TLC over all inputs the bounds give:
requests of two messages with up to one URL each out of ten, tasks of one or two
mentions, profiles with up to two of five arguments. `PlanProofs` proves the same
operators for every input (below).

### Proofs about the parts

Each part has a specification of its own (`XeSpec`, `DsSpec`, ...: its `Init` and
its steps), and each theorem holds for every value of its constants that the
named assumption of its module allows. The bounds on steps are constants too, so
a theorem speaks of behaviours of any length. Each inductive invariant was
checked by TLC on the instance of `MCParts` before it was proved.

| Invariant | What it adds to the property, and why it is needed | Theorems |
|---|---|---|
| `XeInv` (`ActionPartsProofs`) | an action that may leave the page ends its sequence, so the URL the rules compare with is always the one the model saw (`LeaversEnd`, `ComparesWithSeen`) | `ActionsMeetSeenPage` |
| `DsInv` (`SavedFilesProofs`) | as long as nothing odd has happened one client at most is at work, and what it has launched, read from the port file or is about to close covers every running browser (`ClientKnows`); between commands the record does (`BrowserRecorded`) | `BrowsersAreRecorded` |
| `DlInv` (`SavedFilesProofs`) | a chosen name is free, and chosen by nobody else, until it is written (`FreeUntilWritten`), and holds the document until it is remembered (`WrittenIsThere`) | `DownloadsHold` |
| `ArInv` (`SavedFilesProofs`) | the same between the choice of a name and the report, per stage of a writer, for the temporary name of a trace too, and of two writers at a time | `ArtifactsHold` |
| `LwInv` (`RecordersProofs`) | a request Chrome is loading counts for network idle, or its start is unread, or an event of it was dropped (`LoadingIsKnown`); what was published as an end has ended (`EndsAreEnds`) | `EarlyIdleHolds` |
| `HrInv` (`RecordersProofs`) | until it is answered an entry has the URL of the hop Chrome is at and no answer (`EntryIsUpToDate`); an answer is then of that URL (`EntryIsRight`) | `WrittenAnswersHold` |
| `VrInv` (`RecordersProofs`) | no frame is of a page after the one that is cast (`FramesAreOfActive`) | `VideosFollowTheTabs` |
| `StInv` (`RecordersProofs`) | what the browser holds counts as held while a save is at work (`HeldNow`), so each piece captured was held when it was read and still counts (`CapturedWasHeld`); past the write a close with a path stands over its own file (`EndsOverItsFile`) | `SavedStatesWereHeld` |
| `KiInv` (`ActionPartsProofs`) | in the commands still to send every press has its release after it (`PressesEnd`), every mask is held or pressed before (`MasksAreHeld`), and what is held is let go (`HeldEnds`), for a list of any length | `KeysAreLetGo` |
| `MfInv` (`ActionPartsProofs`) | promised extracts have numbers already given out (`PromisesKept`), for the file system and for the checkpoint, so a restore keeps them | `ManagedFilesHold` |
| `RpInv` (`ActionPartsProofs`) | the actions still to do have the index their element was found at (`Matched`) or chosen by (`Chosen`) in the capture they are to be compared with, for all of them in a plan and a sequence, for the first in a replay | `ActionsFindTheirElement` |
| `EiInv` (`ActionPartsProofs`) | each stage of a capture is right for the documents as listed: a list is the script's (`ListedRight`), an enriched target and the cache have each element where its number counts among the numbers of its target (`NumberedRight`, `CacheRight`), and an action at work holds such an entry (`ActionRight`) | `ElementsAreShown` |

Behind `ActionsFindTheirElement` is a fact about the five levels of matching,
`RematchFindsOriginal`: an element with an attribute to tell it by has the same
XPath wherever it stands, so it is a candidate at the second level at the latest;
the strongest level with candidates is then the first or the second, a single
candidate at either has its looks, and so it is the element itself, unless its
class changed and another now looks as it did. That last case is the exception
`Confused` of the property.

Behind `ElementsAreShown` is what it means to count. The k-th entry of a list is
the one whose position has k listed positions up to it (`Place`, `InOrder`). Two
positions have not one place (`PlaceInjective`), every place up to the size is
taken (`PlaceOnto`), and where nothing is left out the place is the position
(`PlaceOfPrefix`): so as far as a document is "clean" (`CleanTo`) the capture, what
is left after the AX tree, the numbering merged with a frame's and the fallback's
fresh list all count alike, and the place kept for an index leads back to its
element.

*Types.* The types of the parts (`LifecycleIsTyped`, `HarIsTyped`, ...,
`ElementsAreTyped`) say more than which set a variable is in, and four of them
need an invariant beside the one of the table. That no screencast session has
more frames unacknowledged than Chrome sends ahead needs `UnreadIsUnacked`: every
frame the watchdog has not read, and the one it is acknowledging, is counted by
Chrome, so no acknowledgement is one too many. That the indices of a capture stay
within those there are needs, stage by stage, how many entries each list can have
left (`EiBounds`, from `CaptureListFits`, `EnrichedFits` and `MergedFits`). That a
file has no more pieces than may be written must hold of the checkpoint as well
(`FilesFit`), because a restore brings it back. That every name in the directory is
of a kind some writer makes rests on what each writer is at (`ArBounds`).

*Composition.* In `MCParts` the parts take steps side by side. `PartsAreImplemented`
proves that its behaviours are behaviours of each part: they share no variable, so
a step of one is a stutter of the others. `PartsAreTyped` (the `PartsTypeOK` of the
run) and `PartsAreSafe` (its other twelve properties) follow for the composition,
for any constants.

*Assumptions.* `ManagedFilesAssumption` takes it that two numbers give two names
(`extracted_content_N.md`): a fact about decimal numerals that the provers have no
theory of, and that TLC evaluates up to the bound; and that what a torn write
leaves is no text anybody writes. `KeyInputAssumption` says that a text of keys has
a part, `LifecycleAssumption` that the event buffer holds an event and that
requests are finite in number, `VideoAssumption` that there is a page,
`StorageAssumption` that the first origin is one of the origins,
`TaskUrlsAssumption` that the mark of a shortened URL has a length. The others say
that a bound is a number, or that a mark for "none" is not among what it marks.
TLC evaluates all of them on the instance it checks.

### Proofs about the pure functions (`PlanProofs.tla`)

| Theorem | For every input |
|---|---|
| `ShortUrlsAreRestored` | the `ShorteningIsUndone` of the assumption: of any request, of any number of messages and URLs |
| `TheOneUrlIsOpened`, `DisagreementsAreMisread` | `OpensTheOneUrl` of any task whose mentions the two patterns agree on; `Misread` of any mention they do not agree on |
| `ArgumentsAreNormal` | `ArgsAreNormal` of any list of arguments, those no profile builds included |
| `ChannelIsResolved` | `ResolvesWithinChannel`: any channel, whatever is installed and whatever `BROWSER_USE_CHROME` names |
| `PortFilesAgree` | `PortFileAgrees` of a port file of any lines |
| `PatternsOnlyAdd` | of two policies that differ in the length of a list: a longer block list forbids only more, a longer allow list only less, and beside an allow list the block list is not looked at |
| `ReasonsAreTrue` | `block_reason` decides again, in another order than `is_allowed`; the reason it gives is why the URL was refused. A URL without a host is refused under any policy and blamed on the block list, empty or not |
| `SubdomainsGoTogether` | a `*.domain` pattern matches whatever is under a host it matches |

The functions are loops in the code: they collect from a list, skip what they have
seen, keep the last. Written as folds they are out of the provers' reach, so the
modules say what such a loop ends with: `Orders` gives each spot of a list of lists
its place, the number of spots up to it, and the result of the loop is the
function from places to what stands there. `RanksAreTheirs` is the fact behind it:
in a finite, strictly ordered set the numbers of predecessors are exactly `1` to
the size, each once. It is proved by counting (an injection into a set of the same
size is onto), without induction, and `SpotsHavePlaces` and `NumbersEnd` apply it.
From it follow that a merged list names the features of all lists, each once
(`FeaturesAreMentioned`), that merging and removing duplicates keep the order and
the last of each switch (`MergeKeepsTheOrder`, `LastOfASwitchStays`), and that a
normal form normalises to itself (`CleanIsNormal`). What replaces a
short form is a URL of the request that has that form
(`ReplacementsAreOfTheRequest`), and unless two clash there is only one.


No fairness is assumed here and `browser` and `parts` check no liveness: Chrome
need not answer, and no timer of these parts bounds a call; the agent's timers,
with their fairness, are in `AgentRun`. Both runs turn off the deadlock check
because their bounds end a behaviour.

## 7. What the code does and its documents do not say

- `stale_send`: the generation check of `command` (transport.rs:158) precedes two
  waits; a command can be written to a connection newer than its session, against
  transport.rs:148-151. `StaleSendIsRaced` shows that this needs a reconnect
  between check and write, or a session registered after one. Chrome refuses such a
  command, so the effect is a less helpful error.
- `drop`: the actor does not end with its last handle (transport.rs:317), against
  docs/ARCHITECTURE.md:24-25.
- `initial`: initial actions interrupted by a refused check are lost (agent.rs:710),
  against docs/CODEBASE_GUIDE.md:41.
- `follow_up`: `run` after `add_new_task` on a finished agent returns the old
  answer (agent.rs:320), against agent.rs:312 and callbacks.rs:145.
- `replay_identity` (`MCReplay`): an element with nothing to tell it by has an
  XPath made of its index, which both hashes contain (interacted.rs:302); with an
  unrelated element inserted before it replay acts on another element, against
  the comment on the hash.

Behaviour the models show, which no document denies:

- *Watchdogs.* The policy watchdog's echo of a navigation that arrives after the
  settle wait makes the next call fail again (lib.rs:328-330). Screencast frames
  that arrive between the answer of startScreencast and `active_session_id`
  being set are dropped unacknowledged (recording.rs:214, :228).
- *Policy.* A policy without any rule refuses a navigation to an address without
  a host, but no round over the open tabs looks for one.
- *Recordings.* A redirect to a URL that is not https leaves an entry with the
  answer of another URL. A deleted PDF whose name is taken again leaves a stale
  entry in the map of downloads.
- *Storage.* Without a `storage_state_path`, which `connect_with_profile` never
  sets (session.rs:94), `close_browser` saves nothing. A save is no snapshot: cookies
  and origins are of different moments, and it drops origins the current page does
  not show. When it fails, `close_browser` returns before HAR, video and trace are
  written (session.rs:246). The file is written in place (storage.rs:414): a failed
  write tears it while the session goes on, as a crash does, and then the next
  launch and every load fail. Restored items are applied to each new document
  (storage.rs:340) and overwrite newer ones.
- *Elements of another page.* A switch, new tab or reattach dropped while the
  screencast of the new page is started leaves the old page's elements cached; the
  next indexed action attaches to that page's tab (`page_for_element`) and acts
  there. A watchdog's reset that falls into a capture is overwritten by it: the
  elements of the page that was reset are cached, and shown to the model.
- *Elements and keys.* The fallback by place counts elements the capture left
  out. Text with a `+` is always pressed as a combination.
- *Sequences.* `state(false)` before each action (executor.rs:224, agent.rs:615),
  and in an extract, numbers the elements anew, so later indices of the answer
  are read in a capture the model has not seen. The page guard sees no move
  between two actions. The parts of an extract may be of different pages;
  `save_as_pdf` names a PDF by a title read after printing.
- *Replay.* A changed class can make an exact match pick a twin. An error of a
  plan discards the record of the actions already carried out.
- *Files.* `save_extracted_content` overwrites a file the model wrote under that
  name. A screenshot overwrites an earlier one of its name, and one that fails
  half way destroys it. Names of PDFs, traces and videos are looked for, then
  created without a lock; after 1000 tries the name is taken unseen; two writers
  of a trace share its `.tmp`.
- *Processes.* The daemon forgets the session of a dead browser only on stop. A
  stale DevToolsActivePort makes a start connect to a dead browser. A launch
  dropped in the middle leaves Chrome running (no kill_on_drop). A record is
  written in place: one torn by a failed write makes every later start refuse
  the session, and stop and cleanup cannot read it.
- *Start URLs.* With `http://`, a port or a bare query a URL is found twice, as
  two URLs, and none is opened. A negation 13 to 20 characters before
  `https://` hides the URL from one pattern only, and it is opened. An excluded
  file behind a port or a bare query opens its host. Extensions are looked for
  anywhere, so `docs.python.org` is excluded; "not" is found in "note".
- *Usage* (not modelled). A step timeout that drops `summary()` leaves the
  history's usage one answer behind; `pricing_loaded` is set before the load it
  announces (usage.rs:125-137), so a dropped load leaves costs at zero.

## 8. What is proved and what is only checked

Proved for every value of the constants, from the assumptions the modules name:
every invariant and every action property of the runs (the types, the inductive
invariants, the safety properties), the refinement of `CommandChannel`, the
composition of the parts, and the assumptions of `MCParts` about `TaskUrls` and
`LaunchPlan`, with three facts about `UrlPolicy`. `PROJECT.json` lists the main
theorems with the property each states.

Only checked by TLC:

- The liveness of `LossResolvesPending`, `StepsEnd` and `CallsReturn`: fairness
  and ENABLED are out of this prover's reach.
- That `LaunchPlanOf` refuses a headless profile with devtools or no viewport: the
  theorem is about the arguments, whatever profile they come from.
- That two extract numbers give two names, up to the bound: an assumption of the
  proofs about managed files.

Neither checked nor proved are `UrlPolicy`'s matcher against the patterns as they
are written (globs are abstracted to what they match; `BrowserSession`'s proofs use
only that `IsAllowed` is a predicate) and the regular expressions of `TaskUrls`, of
which the model keeps what they tell apart.

What is proved is proved of each specification alone, but for the parts. The
session uses what `CommandChannel` promises, and that `CdpTransport` keeps the
promise is `ChannelImplemented`; that the two fit together is an argument of
section 2, not a theorem.

## 9. Not modelled

- DOM rendering, prompt text, schemas, provider formats: pure conversions into
  text or JSON, by which nothing branches.
- LLM providers: one HTTP request without retries; a model answers, fails or
  stays silent in `AgentRun`.
- Token usage: sums of counts and prices nothing else reads.
- The cloud's HTTP calls, environment variables and fields of a profile, copies
  of a user's profile, MCP message dispatch and HTTP framing: input and output
  without state of their own.
- Permission grants, emulation and highlight overlays of a session: set once on
  attachment and not read again.
- Windows and macOS paths of `LaunchPlan`: the Linux tables stand for all.
- CDP events in `CdpTransport`: the actor republishes them without touching its
  state; the watchdogs' modules have their own buffers.
- The browser session and the lifecycle watchdog are not composed with the
  transport's actor: they use what `CommandChannel` promises, and a reconnect.
- Fixtures, release tooling.

## 10. Running

    tlc -workers 2 -config MCCdpTransport.cfg MCCdpTransport.tla
    tlc -workers 2 -config MCBrowser.cfg MCBrowser.tla
    tlc -workers 2 -config MCParts.cfg MCParts.tla
    tlapm CdpTransportProofs.tla
    tlapm BrowserSessionProofs.tla
    tlapm PlanProofs.tla

Each run is a `.cfg` of an MC module; every `*Proofs` module is checked alone.
