# Foundry transaction simulator: TLA+ models and proofs

This directory models the transaction simulator of this repository: a Go backend
that runs transactions with Foundry against forked chains, and a React frontend
that submits them and shows what happened. Each module is translated from the
code under `src/`; the model checker TLC runs the modules on small instances, and
the proof system TLAPS checks theorems that hold for every value of their
constants. `PROJECT.json` names, for every definition, the lines it models.

    tlc -config service_pool.cfg MCSimulationService.tla
    tlapm SimulationServiceProofs.tla

## 1. The system

A user fills in a transaction in the browser. The frontend posts it to the
backend. The backend takes one of a fixed number of workers, forks the chain in
the Anvil process of that worker, runs `forge test` with a Solidity harness that
executes the transaction, reads the trace, asks price providers about the tokens
that moved, computes balance changes, saves request and response in SQLite and
answers. The frontend fetches the saved record, and shows trace, balances and fund
flow; a link with `?requestId=` brings them back.

| Component | Code | State it keeps | Operations |
|---|---|---|---|
| simulation service | `backend/internal/simulation/service.go`, `validation.go` | channel of idle workers, mutex of the default project, reference counts of harness copies, per run: temporary files, cleanup list, `runStarted` | `Simulate`, `ReplayTx`, `AddDefaultProjectSourceFile`, `Close` |
| server lifecycle | `backend/cmd/server/main.go` | none beyond the process | serve, `Shutdown` with 5 s, `Close`, `os.Exit` |
| Anvil worker process | `simulation/anvil.go` | `cmd`, `done`, `exited`, the child process, its port | `Fork`, `Stop` |
| record database | `simulation/records.go` | table `simulation_records` | `SaveRecord`, `LoadRecord`, schema migration |
| project cache | `internal/projectcache` | `projects.json`, temporary files, mutex | `Add`, `List` |
| HTTP API | `internal/httpapi` | none | routes to the above |
| trace parser | `internal/traceparser` | none (a function of the arena) | `ParseOutput` |
| price providers | `internal/prices` | none that is written | `FetchTokenPrices` of four providers, merge, fallback |
| fund flow | `internal/fundflow` | none | `AnalyzeBalanceChanges`, token amounts |
| frontend request lifecycle | `app/App.tsx`, `api/client.ts`, `lib/persistence.ts`, `lib/simulationExchange.ts` | form, answer, record, id, address, lookup and its abort controller, run in flight | submit, abort, open, edit, import, export, reload |
| request form | `app/form.ts`, `api/schemas.ts`, `features/request`, `components/OverrideGroup.tsx` | the values of the form, the open panels, the chains the backend has | edit, build a request, open a record as a form, restore, import and export panels |
| project selection | `features/request/ProjectHistoryDropdown.tsx`, `App.tsx` | path, default project, past projects, menu | type, browse, add a source, select, list |
| trace view and search | `features/trace/TraceTree.tsx`, `features/output/OutputPanel.tsx` | open rows, query, active match, depth | expand, collapse, toggle, search, step through matches |
| output views, flow tab | `features/output/OutputPanel.tsx`, `features/fund-flow`, `features/balances` | view, places of scrolling, width of the graph | choose, scroll, group transfers |
| cards and names | `components/useFloatingCard.ts`, `AddressReference.tsx`, `FunctionReference.tsx`, `lib/labels.ts`, `lib/forgeTrace.ts` | open card, focus, mark of a copy | press, tab, copy; name an address, find it by name |
| Solidity harness | `contracts/test` | per test | preparation, then the call of the target |
| development supervisor | `backend/cmd/dev/main.go` | two child processes | start, wait, stop, kill, return |
| forge runner, configuration, Solidity rendering, types, ids, API documents, dialogs, scripts | see `PROJECT.json` | none | process I/O, parsing, text |

How they interact:

- handlers of one server share the worker channel, the default project's mutex,
  the map of harness copies, the work directory and the project directories;
- a worker owns one Anvil process, and that process has a goroutine that waits for
  its exit and reports over a channel;
- the backend and the operating system share ports, files and processes, which
  survive a server that ends without cleaning up;
- backend and frontend agree on the arena of the trace (both look for the
  transaction among the calls of the harness), on transfers (backend sums them
  to balances, frontend to edges) and on the stored request (normalised by the
  backend before it is stored);
- in the browser a run, a lookup, a file import and a reload may be in flight
  together, and each writes the same state of the window;
- the parts of the page read one response and one form, and each keeps state of its
  own that outlives a response: rows that are open, a query, places of scrolling.

What is hard here: handlers that interleave on shared files and locks, early returns
and their deferred calls, requests cut short at any await by a deadline or by a
client that goes away, a shutdown that gives up, processes that die or take their
time, a schema migrated by several handlers at once, continuations that arrive
after the user did something else, effects of the page that run on some changes and not
on others, and one fact computed in two languages. `hazards`
in `PROJECT.json` lists each at its line.

What makes the components correct, in short: a worker serves one run at a
time and is never lost; a started run is kept, and a refused one is not; the
harness copy is there as long as some run of the project uses it, and goes with the last; the
sources a run was prepared for are those it tests; a clean stop leaves nothing; a
fork serves the chain that was asked for; a stored record is found; the project list
is the recent projects; the transfers, balances, edges and trace shown are those of
the transaction that ran; what the window shows, exports and names in its address
is one request; what a form shows is what a run sends, also of a record that is
opened and run again; a search hides no match; a name leads to its address;
everything that waits is answered, and a supervisor that ends leaves no command running.

## 2. The modules

| Module | Models | Relation |
|---|---|---|
| `RunLifecycle` | what the service promises its callers: wait, run in one of `Capacity` places, be kept, be answered | abstract specification |
| `SimulationService` | `service.go`, the handlers and `main.go` | implements `RunLifecycle` (`ImplementsRunLifecycle`) |
| `SimulationServiceProofs` | the theorems on the pool (`PoolInv`), the project files (`LockInv`, `CopyInv`), the life of a run (`RunInv`, `FilesInv`), the stop, and the refinement of `RunLifecycle` | extends `SimulationService` |
| `AnvilInstance` | `anvil.go`, one worker's process | the detail of `Fork` and of the stop in `SimulationService` |
| `WorkDirectory` | `records.go` composed with `projectcache` | the detail of the save in `Finish`, and of what a handler does after it |
| `WorkDirectoryProofs` | `TypeInv`, `RecordInv`, `ListInv` and their theorems | extends `WorkDirectory` and `Rounds` |
| `Rounds` | induction over the rounds of a loop, as lemmas | |
| `TransactionTrace` | execution, trace parser, Trace tab | |
| `FundFlow` | price providers, balance analysis, Flow tab | extends `TransactionTrace`, whose transfers it reads |
| `TransactionProofs` | `TraceInv` and the theorems on the transfers and the Trace tab | extends `FundFlow` and `Rounds` |
| `FlowProofs` | `ChangesInv`, `TraceBounds` and the theorems on prices, balance changes, the Flow tab and the bounds | extends `TransactionProofs` |
| `RequestWindow` | one window of the frontend, over the backend's records | |
| `RequestWindowProofs` | `WindowInv` and the window theorems | extends `RequestWindow` |
| `RequestForm` | the form, the request it makes, the form a record opens as | the detail of the form in `RequestWindow` |
| `ExchangePanels` | the panels of imports and exports | the detail of the import and export buttons |
| `ProjectHistory` | the project of a simulation and the list of past projects | |
| `TraceSearch` | the rows of the trace that are open, and the search | shows the rows of `TransactionTrace` |
| `OutputViews` | the view chosen, where each is scrolled, the measured graph | |
| `FloatingCard` | the cards of the trace and their copy buttons | |
| `AddressLabels` | the names of addresses and what a query finds by them | |
| `PresentationProofs` | theorems on views, panels, cards, search, form, past projects and names, and on the page they make with the flow | extends `MCPresentation` and `FlowProofs` |
| `DevSupervisor` | `cmd/dev/main.go` and the two commands | |
| `ChildProcessProofs` | `AnvilInv`, `DevInv` and their theorems | extends `AnvilInstance` and `DevSupervisor` |

`MC*` modules hold the values of constants and the symmetry sets of the runs. Two of them,
`MCPresentation` and `MCChildProcesses`, put side by side parts that share no state: a
behaviour is one of one part (`part`), so no interleaving of unrelated steps is
explored.

### SimulationService

A handler is a program counter (`pc[r]`), and one action is the code between two
points where another goroutine, another process or the clock can intervene. For
`Simulate`: `BeginSimulation`, `LockDefaultProjectIfUsed`, `ValidateRequest`,
`AcquireWorker` or `AcquireTimeout`, `PrepareLocal` or `PrepareExternal`
(`prepareFoundryExecution` with `retainTestCopy`), `BuildProjectSrc`,
`ReadStateOverride` or `WriteStateOverrideSource`, `CompileStateOverride`,
`WriteSimulationInput`, `Fork`, `ForgeTest`, `Analyze`, `Finish`, and then the deferred
calls in the order Go runs them: `Cleanup`, `ReleaseWorker`, `Unlock`. `ReplayTx`
has no worker and no lock: `BeginReplay`, `CastRun`, `Analyze`, `Finish`. An addition is
`BeginAddition`, `LockDefaultProject`, `EnsureDefaultProject`, `ForgeInit`,
`ResetDefaultProjectDirs`, `WriteSource`, `Unlock`. The server itself is `Shutdown`,
`Drained` or `ShutdownTimeout`, `CloseWorker`, `Closed` and `Restart` on the disk that
was left; `ServeFails` is an error of `ListenAndServe`, which exits like a deadline that passes
(`Exit`). Of the files of a run that is dropped so, nothing is promised, and no property speaks of
them: `NoResidue` and `CleanStop` are about runs that end and stops that drain. What is checked
is that the next server is right on what was left.

Every step that a context can cut short has a failing outcome that is always
possible, so there is no clock. The contents of requests are abstracted: a request is
refused or accepted. Statuses 500 and 504 are one. The source of the
harness does not change while the server runs, so a project has one copy of
it. `os.Exit` leaves Anvil processes behind as `"orphan"` on the port, where they make the
next server's start of that worker fail. Paths are modelled in three steps: the
spelling the caller sends (`Paths`), the absolute path the code makes of it (`Root`)
and the directory behind it (`Dir`). The lock is decided on the first, the
reference counts on the second, and files exist in the third.

### RunLifecycle

Six phases and the set of kept calls. The refinement maps program counters to
phases (`Phase`) and `recorded` to `kept`. A run gives its place away only
when it is kept, and is answered after that; with a faulty disk
(`Reliable = FALSE`) a record can be lost, as the code only logs a failing save.

### AnvilInstance

The caller (`at`) goes through `Fork` (check, reset, start, launch, poll, recheck) or
`Stop`. Beside it act the processes (`Listen`, `Exit`), the goroutine of each
(`Deliver`), and another program on the port (`ForeignProgram`). `a.cmd` and `a.done`
are set together, so the channel of a process is named after the process. `Deliver`
chooses between the process's own channel and the current one, since the goroutine
reads the field `a.done` without the lock. `server` is a history variable: who answered the
last RPC call.

### WorkDirectory

Runs save (`OpenToSave`, `EnsureRecordSchema`, `InspectColumns`, `AddKindColumn`,
`InsertRecord`) and then remember their project (`RememberProjectPath`, `Lock`,
`ReadForAdd`, `WriteTemp`, `Rename`); lookups and listings read. Every SQLite statement is
atomic, and a save is several of them, each handler on its own connection. `Kill`
ends the server anywhere, and it starts again on the same files. The table may be missing,
current or of an earlier version at first. `modern`, `known` and `uses` are history
variables.

### TransactionTrace and FundFlow

The execution is a state machine of its own: the harness prepares (`Override`), calls
the target (`CallTarget`), frames call, delegate, log transfers, return and revert. It
records the arena as Foundry does, and beside it `effects`, the transfers that really took
place, and `history`, the order of calls and logs. The arena read is that of the harness. `ParseOutput` (Go) and
`ShowTrace` (TypeScript) then read the arena alone, and the properties compare their
readings with `effects` and `history`, not with one another. `CALL` stands for every kind of
frame that is not a delegate call. `FundFlow` goes on with the transfers: a provider
answers what it knows or nothing; a payload of DefiLlama or DexScreener may lack fields (`Payloads`), and
DefiLlama without decimals is read as having none. Where two of them name a symbol it is the same one,
so first and later are told apart by price, logo and decimals, and by a symbol that is missing. `MergeTokenPrice` merges in the order of the code,
`AnalyzeBalanceChanges` sums, `Grouped` makes the edges of the Flow tab. `Net` is the
reference definition of a balance change.

### RequestWindow

Handlers run to their end in the browser's event loop, so the steps are the user's
events and the answers of the network. Lookups have their abort controller and their
timer, a run has its two calls (the run, then its record), a file import has the time
it takes to read the file, and `Load` is a reload or a link: it restores what the page saved
(`RestoreUIState`; a save that fails even without the answer is left out). `typed` and
`origin` are history variables.

### RequestForm, ExchangePanels, ProjectHistory

A text of the form is blank, well formed (with or without blanks around it) or malformed;
that is what trimming, the schema and the checks of `buildSimulationRequest` tell apart.
`BuildRunRequest` makes the request or refuses, `FormFromRecord` goes back, `AsStored` is
what the backend does to the request on the way: the latest block gets its number. What else it does
there (resolving the path, trimming hexadecimal data, writing amounts in decimal) changes only how a
value is written, and not again the second time; values are compared here up to that.
`OfferedChain` is the effect of `App` that keeps the chain to those of the backend's list, run
after every change of the form and every answer of the chain query, and so one step with it. Records of other
clients, with options left out, are the constant `Foreign`.

`ProjectHistory` has Browse and Add Source as two steps, question and answer, since the form may
change between. `Suggestions` is the list as shown, computed as the code does from
the optimistic list and the backend's; `chosen`, a history variable, is what the
property computes it from instead.

### TraceSearch, OutputViews, FloatingCard, AddressLabels

The first three are components with effects. React runs the effects of a change before the next
event, so an action is the handler followed by the effects that its changes cause (`Settle` and
`ClampIndex`, `ShowView`), and an effect runs only when what it depends on has changed
(`RowLooksAgain`, `Measured`). A row of the trace is known by its key, and one of another
trace with the same key is the same component and keeps its state. `hidden`, `press` and, in
`OutputViews`, `place`, `changed`, `again` and `astray` are history variables.

`OutputViews` has one scroll position per view, kept in `saved` and asked for in `pending`, as
the two refs of `OutputPanel` do. `place` is where the user scrolled or the search brought the view
(`BringMatch`, the animation frame that `TraceTree` asks for when the active match is mounted or
changes), where it stood when the user left it by a tab, and the top for a trace that is new; what a
view is shown at does not set it. A view that is drawn otherwise (`Redraw`, or a response) may be shorter than its
place, and the element then clamps. Pressing the tab of the view that is shown sets
`pending` without a change of view, so the effect does not run, and the place stays pending for
the next change: if a response comes first, its trace starts there, not at its top. `again` and
`astray` mark that case, which `ViewsComeBack` names as its one exception; the repository does not say
what should happen there.

In `FloatingCard` a press is pointerdown, blur and
click in their order, with the timers after them.

`AddressLabels` is one step: any inputs, and
the functions of `lib/labels.ts` on them. A call has besides its address and its label the
names that occur in the rest of its row, in arguments, value and raw line (`mentions`), all of which a
search looks through: a name finds the calls to its address and the calls that mention it or its
address. A label that forge decoded for one call, of an address that the labels already
name otherwise, is in the row of that call alone and leads to no address (`BookNames` are the others).
A `Map` that is only looked up is a function with the keys as its domain (`Put`); the labels of the trace are read in the order of their keys, so
they are a list (`SetName`).

### DevSupervisor

`stage` is where `run()` is. The goroutines that wait (`WaitProcess`), the processes
(`MemberExits`), the user (`Interrupt`) and the five seconds (`Deadline`) act beside it. A
command may run the server as a process of its own, as `go run` and `yarn` do: a group has
two members, of which one is waited for. An interrupt before `signal.Notify` ends the
program at once.

## 3. The runs

Each checked property has a mutant in `PROJECT.json`: a plausible mistake in a
definition of the model under which TLC finds that property violated. In the modules
these stand as operators commented `Mistake:`, next to the definition they replace.

| Run | Instance | What it shows |
|---|---|---|
| `service_pool` | 3 local simulations, 2 workers, one stop; 433,670 states | workers are exclusive, and the service implements `RunLifecycle` |
| `service_projects` | 2 simulations, each in an external or the default project, an addition, a disk that may fail, one stop; 3.1 million states | the copy stays while used and goes with the last user, the sources stay, no file of a run is left, the pool keeps its size and the stop is clean |
| `service_answers` | 2 simulations, each of the default project or local, a replay, an addition, 1 worker, fairness; 507,879 states | exactly the started calls are recorded, and every call is answered, whoever has the worker and whoever the lock |
| `service_unlocked` | one spelling of the default project that does not lock | `StableSources` is violated (finding 1) |
| `service_half_init` | two additions, the first cut short | `AddedToResetProject` is violated (finding 2) |
| `child_processes` | 2 process ids, 2 forks, a foreign program; or the supervisor with two commands of two processes; fairness; 21,154 states | the Anvil stays tracked, its exit is its own, the fork is fresh, no goroutine is stuck, every call returns; the supervisor ends and leaves no command |
| `anvil_late_exit` | 3 process ids, a kill may outlast its wait | `OwnProcessTracked` is violated (finding 3) |
| `work_directory` | 3 runs, 3 projects, a lookup, a listing, a list of 2, one kill; 2.1 million states | records are kept and found, the list is recent, temporary files go |
| `work_directory_legacy` | 2 runs on a table of an earlier version | `EveryRunKept` is violated (finding 4) |
| `presentation` | eight parts, one per behaviour; for the trace 2 parties, 2 tokens, amounts 0 and 1, up to 4 frames and 2 transfers; 4.2 million states | both readers of the trace agree with the execution, balances, edges and prices are right; what is sent is what is shown; the list of past projects, the search, the views, the cards and the names keep what section 1 asks of them |
| `request_window` | 3 requests (one stored in another form), 1 stored id, 2 runs, 1 file, 2 controllers, 1 reload; 1.7 million states | answer, record and address belong together, an edit ends its lookup, a lookup ends |
| `request_window_abort` | 1 run | `AbortCancels` is violated (finding 5) |

### Why the bounds are enough

- Two workers and three simulations are the smallest pool with a run that waits while
  others finish in either order. One worker, with a run that takes the lock, a run that does not, and
  an addition that does, is the smallest that can block in a circle, if there were one: the holder of
  the lock waits for the worker while the other run has it, and only if that one came to
  want the lock too, as in the mutant, would neither go on. Two users and two
  projects are what reference counts, and a lock that covers one of the projects, can tell
  apart. A second stop repeats the first on a disk that the model already
  reaches.
- `child_processes` reuses process ids once reaped, so two ids give any number of
  starts; the violated run needs a third, because its first process never leaves.
- Three projects overflow a list of two. One kill reaches every state a handler can
  be left in.
- Four frames are the harness, the target, and a call or delegate call under it
  with another beside or below; two transfers are enough to cancel out, to be grouped
  into an edge, to surround a call, or to fall on the two sides of a revert. The two tokens
  differ in decimals and in being a stablecoin; the amounts hold nothing and something.
- Two runs and a stored id let a run, a lookup and an import be of three
  requests; one reload is enough to restore an answer that is then replaced.
- `MaxEdits` = 2 changes of fields, from the empty form or from any record, with chains
  arriving, records opened and reloads as often as one likes between them. A request
  that two edits of the empty form cannot make, with sender, target and a row, is reached from a
  record of another client.
- `MaxChoices` = 3 projects overflow a list of `HistorySize` = 2 and let one come
  back. The two traces of the search share the keys of two rows; a depth of up to
  `DepthLimit` = 2 is below, at and above where matches are. `Positions` are the top and one other
  place. Two cards are one and another; `MaxWrites` = 2 lets the timer of an earlier copy run
  into a later one.
- `MaxOverrides` = 2 labels of the user are enough to name one address twice, or two addresses alike;
  `MaxCalls` = 2 to call one address twice, or two; `MaxItems` = 1 label of the trace and token with
  a symbol lets each of the sources come before and after the others. `Mentions` lets the rest of a row
  hold nothing, an address or a label.
- In `presentation` the payloads about one token, the stablecoin, may lack decimals and symbol.

The bounds in the modules are `MaxStops`, `MaxKills`, `MaxNodes`, `MaxLogs`, `MaxLoads`,
`MaxDecimals`, `MaxEdits`, `MaxRows`, `HistorySize`, `MaxChoices`, `DepthLimit`,
`MaxWrites`, `MaxOverrides`, `MaxCalls`, `MaxItems` and the sizes of the sets of calls, runs, controllers and cards (`HistorySize`
and `DepthLimit` are 20 in the code). `CHECK_DEADLOCK FALSE` stands where the calls come to an
end and the system has nothing left to do, in `presentation` because an execution ends and names
are made once, in `child_processes` because the supervisor ends; the runs of
`RequestWindow` keep the deadlock check, since a user can always type.

Symmetry is used only where no liveness property is checked. `ImplementsRunLifecycle`
and `LastUserRemovesCopy`, which runs check under symmetry, are of the form
`Init /\ [][A]_v` and treat all simulations alike.

### Fairness

- `SimulationService!Fairness`: weak fairness on the steps of each handler. Every
  process a handler waits for runs under the request's timeout and is killed by it. Waiting for
  the mutex has no limit, and follows only from its holder going on. Waiting for a worker has one
  (`AcquireTimeout`), but that step is no part of the fairness: it may be taken, and calls are
  answered without it, so it hides no circle of waits. `ForgeInit` has a conjunct of its own: it runs under the context of
  the call without a time limit, so it ends when `forge init` does or the client goes away.
  Arrivals and stops of the server are not fair.
- `AnvilInstance!Fairness`: the caller goes on (RPC calls have 2 s, `waitReady` 15 s),
  a killed process exits, the waiting goroutine sends. A process may start for ever.
- `DevSupervisor!DevFairness`: the supervisor goes on, its goroutines see an exit, and a
  process that was sent SIGKILL ends. One that was sent SIGTERM need not, and nobody has to
  interrupt.
- `RequestWindow!Fairness`: only the timer of a lookup. Nothing is assumed of the
  network or of the user.

## 4. The proofs

All theorems are for arbitrary sets of calls, workers, paths, requests and ids, and
under the named assumptions of the modules alone unless said otherwise.

**Worker pool** (`SimulationServiceProofs`): `TypeCorrect` and `WorkerExclusive`
(`OneRunPerWorker`). That workers are exclusive is not inductive by itself: the
channel could hold a worker twice, or a run could reach its release with no worker to give back.
`PoolInv` adds where a handler has a worker (`HasWorker`: from `AcquireWorker` to
`ReleaseWorker`, and nowhere else) and what is left when the server is down
(`ServerDown`: no handler is under way, and `Close` alone holds workers). The
proof has one lemma per group of actions, and sequence lemmas on `Head`, `Tail` and
`Append` for lists without repetition.

**Default project** (`SimulationServiceProofs`): `SourcesStable` from `LocksCover`, which says
that every spelling of the default project is in `LockingPaths`. `LockInv` adds that a run of the
project, or an addition, that is between its lock and its unlock *is* the holder of
the mutex (`LockHeld`). Finding 1 is the code without that assumption: the theorem says
it is the only way the property fails.

**Harness copies** (`SimulationServiceProofs`): `CountExact`, the count of a copy is the number of its
users, without an assumption on paths: `CountInv` adds to it that whoever owns a count is an
external run with a worker, between its preparation and its cleanup (`CleanupOwner`). From it the
action property `CopyGoesWithLastUser` (`LastUserRemovesCopy`). `CopyKept` needs `LocksCover` and
`OnePathPerDir` (distinct absolute paths are distinct directories; symbolic links
break it). A reset of the default project removes `test/`, and the lock is what keeps it from
a run that uses the copy: so `LockInv` is needed here too.

**Life of a run** (`SimulationServiceProofs`). The handlers are first reduced to what they do to the
variables of one call (`RunMoves` and its like), so that each theorem looks at a few kinds of step:

- `PoolComplete` (`PoolKeepsItsSize`), from `PoolInv`: each step that moves a worker moves exactly
  one, which is a fact on cardinalities of the sets of holders.
- `RecordBeforeAnswer` (`RecordedIffStarted`), from `RunInv`: at each stage of a handler, whether
  the call has started, has its record, and which statuses it may carry to `finish`.
- `FilesRemoved` (`NoResidue`), from `FilesInv`: at each stage, the files of a run that are there
  and those in its list, in which order. The order matters, because `cleanup` removes in reverse and
  a directory goes only when it is empty.
- `StopsClean` (`CleanStop`), from `PoolInv`, the size of the pool, who may hold the mutex
  (`MutexOwner`) and which Anvils are down while `Close` takes workers (`AnvilsDown`): `Close` stops
  when it has taken as many workers as there are, so it stops with all of them.
- `ImplementsLifecycle` (`ImplementsRunLifecycle`), the refinement: `Init` maps to the initial state
  of `RunLifecycle`, and under `RefinementInv` each step maps to one of its actions or to a
  stutter, one lemma per kind of step.
- `CapacityNeverExceeded` and `AnswersSettle` are what the refinement is for. They are proved of
  `RunLifecycle` alone (`WithinCapacity` is its invariant) and so hold of the service: no more
  simulations run than there are workers, a run leaves for its answer with its record kept, and what
  is kept or answered stays so.

**Work directory** (`WorkDirectoryProofs`): `DirectoryTypeCorrect`; `ModernRunsAlwaysKept` and
`KnownAlwaysFound`, from `RecordInv` (where a handler is tells what the table is, and neither a run that
found the present table nor a lookup of a kept record comes to add a column); `ListAlwaysRecent` and `TempsAlwaysRemoved`, from `ListInv`: the
one that holds the cache's mutex is the only one between its read and its rename, what it read
is the list on disk, and what is on disk is the most recent projects. The last needs what the loop of
`Cache.Add` makes of such a list, by induction over its rounds (`RoundsOfAdd` and the lemmas after it).

**Induction over rounds** (`Rounds`). Loops of the code are recursive functions from the number
of rounds done to what has been gathered (`Updates`, `Compacted`, `Merged`, `RawAfter`,
`GroupedAfter`, `AddedAfter`), and so is a recursion over the arena, whose children have higher indices than their
parents (`Collected`, `Rows`). That such a function exists and that a property kept by every round holds after the last is proved in `Rounds` from the
library's least-element fact, for sets in place of predicates; so the theorems on these loops are
for lists of every length.

**Frontend window** (`RequestWindowProofs`): `WindowTypeCorrect`, `OpeningExact`,
`ExportRight` (`RecordIsWhatRan`), `AddressRight` (`UrlNamesShown`) and the action property
`EditIsFinal` (`EditEndsLookup`). `RecordIsWhatRan` needs that a run whose record is
being fetched is stored as it was sent, that stored requests are normalised, and that
what is shown is stored or foreign, so that no later run takes its id (`StoredAsSent`).
`EditIsFinal` follows from `EditedIsFree`: after an edit there is no lookup.

**Anvil** (`ChildProcessProofs`): `ProcessTracked`, `ExitsDelivered` and `ForkIsFresh`, from
`~ KillTimesOut`: a killed process exits within the two seconds of `stopLocked`. Finding 3 is
the code without that assumption. `AnvilInv` says why it is enough: every process but the
one `cmd` holds is reaped and its channel empty (`ProcessInv`), so the goroutine that reads
`a.done` without the lock finds its own channel there; and between start and answer the
process serves what was asked for (`ForkInv`).

`ProcessesTypeCorrect` is the type of both child-process parts, without an assumption.

**Supervisor** (`ChildProcessProofs`): `SupervisorLeavesNone`, the safety half of `StopEndsBoth`.
`DevInv` adds that whatever lives once the stop has begun was told to end, and that a command whose
exit was sent does not live.

**Page** (`PresentationProofs`): the types of the views, cards, search and past projects
(`ViewsTypeCorrect`, `CardsTypeCorrect`, `SearchTypeCorrect`, `HistoryTypeCorrect`),
`ViewsAlwaysComeBack` (a view that is not shown is saved
where it was left, and a place is pending exactly when the tab of the view was pressed again,
`ViewsInv`), `PanelsExclusive`, `CardsAlwaysFollow` and `SearchAlwaysReveals`. The last
needs that the number of matches, the active one and the open rows agree with the trace that
is mounted (`SearchInv`); it holds because the effect of a row also looks again when the row
begins to lead to a match, which is what its mutant takes away.

The parts share no variable, so the page they make implements the specification of each
(`PageRunsItsParts`): the theorems on the parts hold on the page, and their types together are
`PartsTypeCorrect`.

**Form** (`PresentationProofs`): `FormTypeCorrect`, `SentAlwaysShown` (`SentIsShown`) and
`ReopenedAlwaysRunTheSame` (`ReopenedRunsTheSame`), from `FormInv`: every form is one of the texts,
flags and rows there are, its chain is on the list of the backend once that is known, and every
request that was sent is one a form can make (`Sendable`, `SendableTx`). The lemmas are about the conversions: `CompactRows` of
compacted rows changes nothing, trimming twice is trimming once, `WithSenderLabel` labels once, and a
request made of a form opens as a form that makes it again. `FormAssumption` says that other
clients' records are requests, and that a list of chains is not empty.

**Past projects** (`PresentationProofs`): `PastAlwaysLatestFirst` (`PastListsLatestFirst`), from
`HistoryInv`, which relates the optimistic list to all choices made so far. The lemmas are about
`MergeProjects`: nothing twice, nothing lost, in the order of the first occurrences.

**Names** (`PresentationProofs`): `LabelsAlwaysFindTheirAddress` (`LabelsFindTheirAddress`). What
`addAddressLabel` keeps is `Sound`: each name that is known or shown is one of the address it stands
for, and what is shown is known, so a name that is replaced is still found. `AddAllKeepsSound` is that
for a list, by induction over its rounds, with what a list leaves of the names shown (all but those
it names, all if it does not prefer its own, and its last where it does). `BuiltSound` puts the four
sources together. Searching needs `NamesDistinct` besides, the condition in the property: without it
a name leads to the address that took it last. `BookNamesLead` says that a name in the labels leads to
its address, `NamesFind` that a call is found by every name of its address, and `FoundIsNamed`
that a call that is found is to the address or mentions it or a name of it. `LabelAssumption` says that "Sender" is no address.

**Transfers and trace** (`TransactionProofs`): `TransfersAlwaysHappened` (`TransfersHappened`) and
`ShownAlwaysExecution` (`ShownIsExecution`), for executions of any length and depth. `TraceInv` relates
the arena that has been recorded so far to the execution, frame by frame:

- The arena is a tree whose children come after their parents (`Tree`), with entries that point at
  existing calls and logs, and the open frames are a path in it (`Path`). A step changes only the nodes
  on that path, so what is read of every other node stays (`SameRows`, `SameCollected`, `Apart`).
- For each open frame, what the parser would collect from its node is what took effect since the frame
  began (`Balanced`, `Marked`). Two lists of transfers are compared by their weight under every function
  `mu` from transfers to integers (`Weight`): weights add up under concatenation, so one statement covers
  the order in which the parser visits logs and calls, and the function that is 1 at one transfer and 0
  elsewhere gives back how often it occurs (`TraceInvTransfers`). A revert removes from both sides what
  came since the mark of the frame.
- The rows of the transaction's node are the history of calls and logs, a log or a call at the end of a
  frame being at the end of the rows of all open frames (`ShowsCall`, `ShowsLog`). Reverts keep them.

**Bounds of the flow** (`FlowProofs`): `FlowTypeCorrect`, that all the lists of the trace and the flow stay
within their bounds. That the transfers in effect are at most `MaxLogs` is not inductive: a guard compares the
logs recorded so far with `MaxLogs`, and a revert takes transfers back but no logs. `TraceBounds`
counts the logs of the arena, node by node, as they are made (`LogsCounted`, `EmitKeepsBounds`); what is in
effect is never more. `EdgesAtMostTransfers` is that grouping makes an edge of a transfer or
adds to one. It assumes that an execution has room for its first frame (`MaxNodes` at least 1).

**Balances and Flow tab** (`FlowProofs`): `FlowAlwaysAgrees` (`FlowAgreesWithBalances`) and
`ChangesAlwaysNet` (`ChangesAreNet`). `FlowInv`: the listed changes are the users and tokens with a net
that is not zero (`ListsMoves`), and the edges move what the transfers do (`MovesAlike`); both come from
the rounds of the two loops (`RawIsNet`, `GroupedNet`), and the net of the surviving transfers is that of
the execution because it is a weight. That the USD totals cancel out needs finite sums, proved from
the recursion that defines them (`SumChange`, `SumOfGroups` and the lemmas before): a transfer takes from
one account what it brings another in the same token, so with any value of a unit the sum of all
accounts stays zero (`TransferKeepsWorth`, `WorthStays`), and the totals are that sum taken user
by user (`TotalsCancel`). It also needs that every transfer is of the token of a contract
(`TokenInv`) and that known decimals are at most `MaxDecimals` (`ValuesInv`), so that a unit has an
integer value. Floats and their rounding are left out, as in the model.

**Prices** (`FlowProofs`): `PricesAlwaysFirstKnown` (`PricesAreFirstKnown`), from
`PricesInv`: after each provider the merged price of a token is what the first that knew said,
before the stablecoin fallback. `MergeTokenPrice` appends one answer to that fact.

The invariants of the service, the processes, the directory and the page were first checked by TLC.
What stays with the model checker is the liveness: `EveryCallAnswered`, `EveryCallReturns`,
`OpeningEnds` and the second half of `StopEndsBoth`, which hold under fairness and are out of this
prover's reach. Every safety property that a passing run checks is a theorem.

## 5. What the models found

1. **The lock misses spellings of the default project** (`service_unlocked`).
   `Simulate` decides on the lock before the path is resolved the way the README
   promises (relative to the repository root, `~` expanded). A default project named
   that way runs without the lock, and an addition changes `src/` under the run.
2. **A half-finished `forge init` counts as initialised** (`service_half_init`).
   `foundry.toml` is the marker, and is there before `resetDefaultProjectDirs` ran.
3. **A late exit is taken for that of the successor** (`anvil_late_exit`). The goroutine
   reads the field `a.done` when the process exits; after a kill that took more than two
   seconds it is the next process's channel.
4. **Two concurrent migrations lose a record** (`work_directory_legacy`). Both handlers find the
   column missing, both add it, one fails, and the failed save is only logged.
5. **An abort between the two calls of a run is swallowed** (`request_window_abort`). The
   second call's `catch` takes it for a missing record, and the run is shown as a success.

## 6. Not modelled

- `forge` runner: starts one command and reads it to its end; the modules use it as a
  step that succeeds or fails.
- Configuration, Solidity rendering, data types, run ids: parsing and text without
  state; their results are constants of the modules.
- Field checks of requests in the backend, decimal strings and float rounding, the decoding of
  arguments, results and logs, and how a row or a table is printed.
- Layout: where cards, nodes, edges and tooltips are placed, how far a row is scrolled into view,
  highlighting, the theme, and the health query.
- The replacement of names inside arguments (`replaceLabelAliases`), queries that are a
  part of a name, and the case of letters.
- The API document, debug logging, native dialogs, containers and scripts.
- SQLite disk faults (a failing statement other than the duplicate column), and what `cast run`
  records when a transaction is replayed: it goes through the same parser with another arena, which depends on the version of the tool.

## 7. Plan

The order was: the service and its abstract specification, because everything a user
relies on passes through it; then the process and the files under it; then what is computed
from a trace; then the window, the rest of the page and the supervisor. Done: all modules of
section 2 and the theorems of section 4. What is left are the hazards that no property covers
yet: links in project paths, a lookup that is open when a run starts, dialogs that outlive an
edit of the form, and transactions replayed without a harness.
