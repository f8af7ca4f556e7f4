------------------------- MODULE SimulationService -------------------------
(***************************************************************************)
(* The simulation service of the backend (internal/simulation/service.go): *)
(* the handlers of POST /simulation, POST /tx and POST                       *)
(* /projects/default/source running side by side over the pool of          *)
(* simulation workers, the lock of the default Foundry project, the        *)
(* reference-counted copies of the test harness, the temporary files and   *)
(* the record database; and the shutdown of the server around them.        *)
(*                                                                         *)
(* A handler is a program counter.  One action is the code between two     *)
(* points where another goroutine, another process or the clock can        *)
(* intervene.  A step that the request context can cut short has a failing *)
(* outcome that is always possible: a run stops at its first failure, so   *)
(* the model needs no clock and no "expired" flag.                         *)
(***************************************************************************)
EXTENDS Integers, Sequences, FiniteSets

CONSTANTS
    Simulations,      \* the calls of POST /simulation
    Replays,          \* the calls of POST /tx
    Additions,        \* the calls of POST /projects/default/source
    MaxConcurrent,    \* max_concurrent_runs of the configuration
    None,             \* no worker, no request, no root
    Paths,            \* the spellings of projectPath the callers send
    NoPath,           \* projectPath left empty: the run uses the local harness
    Root,             \* Root[p]: the absolute path normalizeProjectPath returns for p
    Dir,              \* Dir[root]: the directory behind an absolute path
    DefaultDir,       \* the directory of the default project
    DefaultRoots,     \* the absolute paths inside default_project_root
    LockingPaths,     \* the spellings lockDefaultProjectIfUsed takes for the default project
    DiskFaults,       \* whether a write to the disk may fail
    MaxStops          \* bound: how often the server is stopped, or fails

Requests == Simulations \cup Replays \cup Additions
Roots == {Root[p] : p \in Paths \ {NoPath}}
Dirs == {Dir[root] : root \in Roots} \cup {DefaultDir}

ASSUME CallsAssumption ==
    /\ IsFiniteSet(Simulations)
    /\ Simulations \cap Replays = {}
    /\ Simulations \cap Additions = {}
    /\ Replays \cap Additions = {}
    /\ None \notin Requests

ASSUME PoolAssumption ==
    /\ MaxConcurrent \in Int
    /\ None \notin Nat

ASSUME PathAssumption ==
    /\ Root \in [Paths \ {NoPath} -> Roots]
    /\ Dir \in [Roots -> Dirs]
    /\ None \notin Roots
    /\ DefaultRoots \subseteq Roots
    /\ \A root \in DefaultRoots : Dir[root] = DefaultDir
    /\ LockingPaths \subseteq Paths \ {NoPath}

ASSUME BoundsAssumption == DiskFaults \in BOOLEAN /\ MaxStops \in Nat

(* newSimulationWorkers: at least one worker; worker i gets port start + i. *)
WorkerCount == IF MaxConcurrent <= 0 THEN 1 ELSE MaxConcurrent
Workers == 0 .. (WorkerCount - 1)

VARIABLES
    server,          \* main: serving, draining (Shutdown), closing (Close), stopped, killed
    stops,           \* how often it was told to stop, or failed by itself
    pc,              \* where each handler is
    path,            \* the projectPath of each simulation
    status,          \* the HTTP status finish() was called with, 0 before
    runStarted,      \* the calls whose runStarted is true
    recorded,        \* the calls with a row in records.sqlite
    idle,            \* the buffered channel s.workers
    held,            \* the workers Close has taken out of the channel
    worker,          \* the worker each simulation has acquired
    anvil,           \* the Anvil process of each worker: stopped, running or orphan
    mutex,           \* the holder of defaultProjectMu
    testCopies,      \* the map testCopies: reference count per absolute path
    cleanupFuncs,    \* the root whose copy the run's cleanup releases
    copyOnDisk,      \* the copied harness in each project directory
    tempFiles,       \* execution.tempFiles of each run, in the order of the appends
    files,           \* the run's own temporary files and directories on disk
    defaultProject,  \* the default project on disk: missing, dir, template or ready
    sources,         \* version of the default project's src/
    seen             \* the version of src/ each run found when it was prepared

callVars    == <<pc, path, status>>
recordVars  == <<runStarted, recorded>>
poolVars    == <<idle, held, worker>>
copyVars    == <<testCopies, cleanupFuncs, copyOnDisk>>
tempVars    == <<tempFiles, files>>
projectVars == <<defaultProject, sources>>
vars == <<server, stops, callVars, recordVars, poolVars, anvil, mutex, copyVars,
          tempVars, projectVars, seen>>

(***************************************************************************)
(* The temporary files of a run: writeStateOverrideSource makes a          *)
(* directory and a file in a local run, a file under test/ otherwise;      *)
(* writeSimulationInput makes a directory and a file.                      *)
(***************************************************************************)
TempFiles == {"stateDir", "state", "inputDir", "input"}
Parent(f) == CASE f = "state" -> "stateDir" [] f = "input" -> "inputDir" [] OTHER -> "none"

(* What os.Remove over list from its end leaves of disk: a directory goes   *)
(* only once nothing is left in it.                                         *)
RemovedInReverse(list, disk) ==
    {f \in disk :
        ~ \E i \in DOMAIN list :
            /\ list[i] = f
            /\ \A child \in disk :
                  Parent(child) = f => \E j \in DOMAIN list : j > i /\ list[j] = child}

External(r) == path[r] # NoPath
RootOf(r) == Root[path[r]]
DirOf(r) == Dir[RootOf(r)]
Active(r) == pc[r] \notin {"new", "done", "dropped"}
Alive == server \in {"serving", "draining"}

(* The handler r moves from one place to another. *)
Go(r, from, to) ==
    /\ Alive
    /\ pc[r] = from
    /\ pc' = [pc EXCEPT ![r] = to]

(* return finish(code): the handler goes on to finish with its status. *)
FinishWith(r, from, code) ==
    /\ Go(r, from, "finish")
    /\ status' = [status EXCEPT ![r] = code]

InMemory ==
    [workers |-> [i \in 1 .. WorkerCount |-> i - 1],
     worker  |-> [r \in Simulations |-> None],
     copies  |-> [root \in Roots |-> 0],
     cleanup |-> [r \in Simulations |-> None],
     temp    |-> [r \in Simulations |-> <<>>]]

Init ==
    /\ server = "serving"
    /\ stops = 0
    /\ pc = [r \in Requests |-> "new"]
    /\ path = [r \in Simulations |-> NoPath]
    /\ status = [r \in Requests |-> 0]
    /\ runStarted = {}
    /\ recorded = {}
    /\ idle = InMemory.workers
    /\ held = <<>>
    /\ worker = InMemory.worker
    /\ anvil = [w \in Workers |-> "stopped"]
    /\ mutex = None
    /\ testCopies = InMemory.copies
    /\ cleanupFuncs = InMemory.cleanup
    /\ copyOnDisk = [d \in Dirs |-> "absent"]
    /\ tempFiles = InMemory.temp
    /\ files = [r \in Simulations |-> {}]
    /\ defaultProject \in {"missing", "ready"}
    /\ sources = 0
    /\ seen = [r \in Simulations |-> 0]

-----------------------------------------------------------------------------
(* Simulate. *)

(* A call arrives with some projectPath. *)
BeginSimulation(r) ==
    /\ server = "serving"
    /\ Go(r, "new", "lock")
    /\ \E p \in Paths : path' = [path EXCEPT ![r] = p]
    /\ UNCHANGED <<server, stops, status, recordVars, poolVars, anvil, mutex, copyVars,
                   tempVars, projectVars, seen>>

(* lockDefaultProjectIfUsed: decided on the spelling the caller sent; the   *)
(* wait for the mutex has no time limit.                                    *)
LockDefaultProjectIfUsed(r) ==
    /\ Go(r, "lock", "validate")
    /\ \/ path[r] \in LockingPaths /\ mutex = None /\ mutex' = r
       \/ path[r] \notin LockingPaths /\ UNCHANGED mutex
    /\ UNCHANGED <<server, stops, path, status, recordVars, poolVars, anvil, copyVars,
                   tempVars, projectVars, seen>>

(* validateRequest: refused, or the directory exists and the run goes on.   *)
ValidateRequest(r) ==
    /\ \/ /\ External(r) /\ DirOf(r) = DefaultDir => defaultProject # "missing"
          /\ Go(r, "validate", "acquire")
          /\ UNCHANGED status
       \/ FinishWith(r, "validate", 400)
    /\ UNCHANGED <<server, stops, path, recordVars, poolVars, anvil, mutex, copyVars,
                   tempVars, projectVars, seen>>

(* Mistake: the worker is read from a list and left in it. *)
AcquireShared(r) ==
    /\ Go(r, "acquire", "prepare")
    /\ idle # <<>>
    /\ worker' = [worker EXCEPT ![r] = Head(idle)]
    /\ runStarted' = runStarted \cup {r}
    /\ UNCHANGED <<server, stops, path, status, recorded, idle, held, anvil, mutex, copyVars,
                   tempVars, projectVars, seen>>

(* acquireWorker receives a worker from the channel ... *)
AcquireWorker(r) ==
    /\ Go(r, "acquire", "prepare")
    /\ idle # <<>>
    /\ worker' = [worker EXCEPT ![r] = Head(idle)]
    /\ idle' = Tail(idle)
    /\ runStarted' = runStarted \cup {r}
    /\ UNCHANGED <<server, stops, path, status, recorded, held, anvil, mutex, copyVars,
                   tempVars, projectVars, seen>>

(* ... or the context is done; select may take this branch with a worker    *)
(* ready too.                                                               *)
AcquireTimeout(r) ==
    /\ FinishWith(r, "acquire", 429)
    /\ UNCHANGED <<server, stops, path, recordVars, poolVars, anvil, mutex, copyVars,
                   tempVars, projectVars, seen>>

(* shouldBuildProjectSrc: the default project is built only once it has     *)
(* Solidity files under src/.                                               *)
BuildsSrc(root) ==
    root \in DefaultRoots => sources > 0 \/ defaultProject = "template"

(* retainTestCopy, under testCopiesMu: the first user writes the copy. *)
RetainTestCopy(r) ==
    /\ testCopies' = [testCopies EXCEPT ![RootOf(r)] = @ + 1]
    /\ cleanupFuncs' = [cleanupFuncs EXCEPT ![r] = RootOf(r)]
    /\ copyOnDisk' = IF testCopies[RootOf(r)] = 0
                     THEN [copyOnDisk EXCEPT ![DirOf(r)] = "whole"]
                     ELSE copyOnDisk

(* Mistake: a local run locks the default project too, with its worker.     *)
PrepareLocalLocking(r) ==
    /\ ~ External(r)
    /\ Go(r, "prepare", "override")
    /\ mutex = None /\ mutex' = r
    /\ UNCHANGED <<server, stops, path, status, recordVars, poolVars, anvil, copyVars,
                   tempVars, projectVars, seen>>

(* prepareFoundryExecution of a local run, and of an external project. *)
PrepareLocal(r) ==
    /\ ~ External(r)
    /\ Go(r, "prepare", "override")
    /\ UNCHANGED <<server, stops, path, status, recordVars, poolVars, anvil, mutex, copyVars,
                   tempVars, projectVars, seen>>

PrepareExternal(r) ==
    /\ External(r)
    /\ Go(r, "prepare", IF BuildsSrc(RootOf(r)) THEN "build" ELSE "override")
    /\ RetainTestCopy(r)
    /\ seen' = [seen EXCEPT ![r] = sources]
    /\ UNCHANGED <<server, stops, path, status, recordVars, poolVars, anvil, mutex,
                   tempVars, projectVars>>

(* The harness cannot be read, the test directory not be made, or the first *)
(* user's write of the copy stops halfway.                                  *)
PrepareFails(r) ==
    /\ DiskFaults
    /\ FinishWith(r, "prepare", 500)
    /\ \/ UNCHANGED copyOnDisk
       \/ /\ External(r) /\ testCopies[RootOf(r)] = 0
          /\ copyOnDisk' = [copyOnDisk EXCEPT ![DirOf(r)] = "torn"]
    /\ UNCHANGED <<server, stops, path, recordVars, poolVars, anvil, mutex, testCopies,
                   cleanupFuncs, tempVars, projectVars, seen>>

(* buildProjectSrc. *)
BuildProjectSrc(r) ==
    /\ \/ Go(r, "build", "override") /\ UNCHANGED status
       \/ FinishWith(r, "build", 500)
    /\ UNCHANGED <<server, stops, path, recordVars, poolVars, anvil, mutex, copyVars,
                   tempVars, projectVars, seen>>

(* No state override, or one whose source names no contract. *)
ReadStateOverride(r) ==
    /\ \/ Go(r, "override", "input") /\ UNCHANGED status
       \/ FinishWith(r, "override", 400)
    /\ UNCHANGED <<server, stops, path, recordVars, poolVars, anvil, mutex, copyVars,
                   tempVars, projectVars, seen>>

(* Mistake: the file under test/ of an external project is not listed. *)
OverrideFilesOfLocalRuns(r) == IF External(r) THEN <<>> ELSE <<"stateDir", "state">>

(* writeStateOverrideSource: an external run lists its file only after the  *)
(* write succeeded, a local run lists directory and file before it.         *)
OverrideFiles(r) == IF External(r) THEN <<"state">> ELSE <<"stateDir", "state">>

WriteStateOverrideSource(r) ==
    /\ Go(r, "override", "compile")
    /\ tempFiles' = [tempFiles EXCEPT ![r] = @ \o OverrideFiles(r)]
    /\ files' = [files EXCEPT
         ![r] = @ \cup (IF External(r) THEN {"state"} ELSE {"stateDir", "state"})]
    /\ UNCHANGED <<server, stops, path, status, recordVars, poolVars, anvil, mutex, copyVars,
                   projectVars, seen>>

WriteStateOverrideSourceFails(r) ==
    /\ DiskFaults
    /\ FinishWith(r, "override", 500)
    /\ \/ UNCHANGED tempVars
       \/ /\ External(r)
          /\ files' = [files EXCEPT ![r] = @ \cup {"state"}]
          /\ UNCHANGED tempFiles
       \/ /\ ~ External(r)
          /\ tempFiles' = [tempFiles EXCEPT ![r] = @ \o OverrideFiles(r)]
          /\ \E torn \in SUBSET {"state"} :
                files' = [files EXCEPT ![r] = @ \cup {"stateDir"} \cup torn]
    /\ UNCHANGED <<server, stops, path, recordVars, poolVars, anvil, mutex, copyVars,
                   projectVars, seen>>

(* compileStateOverride. *)
CompileStateOverride(r) ==
    /\ \/ Go(r, "compile", "input") /\ UNCHANGED status
       \/ FinishWith(r, "compile", 500)
    /\ UNCHANGED <<server, stops, path, recordVars, poolVars, anvil, mutex, copyVars,
                   tempVars, projectVars, seen>>

(* writeSimulationInput. *)
WriteSimulationInput(r) ==
    /\ Go(r, "input", "fork")
    /\ tempFiles' = [tempFiles EXCEPT ![r] = @ \o <<"inputDir", "input">>]
    /\ files' = [files EXCEPT ![r] = @ \cup {"inputDir", "input"}]
    /\ UNCHANGED <<server, stops, path, status, recordVars, poolVars, anvil, mutex, copyVars,
                   projectVars, seen>>

WriteSimulationInputFails(r) ==
    /\ DiskFaults
    /\ FinishWith(r, "input", 500)
    /\ \/ UNCHANGED tempVars
       \/ /\ tempFiles' = [tempFiles EXCEPT ![r] = @ \o <<"inputDir", "input">>]
          /\ \E torn \in SUBSET {"input"} :
                files' = [files EXCEPT ![r] = @ \cup {"inputDir"} \cup torn]
    /\ UNCHANGED <<server, stops, path, recordVars, poolVars, anvil, mutex, copyVars,
                   projectVars, seen>>

(* worker.anvil.Fork: AnvilInstance has its detail.  A process of an        *)
(* earlier server keeps the port of its worker, so the start is refused.    *)
Fork(r) ==
    /\ Go(r, "fork", "test")
    /\ anvil[worker[r]] # "orphan"
    /\ anvil' = [anvil EXCEPT ![worker[r]] = "running"]
    /\ UNCHANGED <<server, stops, path, status, recordVars, poolVars, mutex, copyVars,
                   tempVars, projectVars, seen>>

ForkFails(r) ==
    /\ FinishWith(r, "fork", 502)
    /\ anvil' = [anvil EXCEPT ![worker[r]] = IF @ = "orphan" THEN @ ELSE "stopped"]
    /\ UNCHANGED <<server, stops, path, recordVars, poolVars, mutex, copyVars,
                   tempVars, projectVars, seen>>

(* forge test and traceparser.ParseOutput: a passing test needs the copied  *)
(* harness and its input; a failing one still answers 200 when its trace    *)
(* parses.                                                                  *)
ForgeTest(r) ==
    /\ \/ /\ External(r) => copyOnDisk[DirOf(r)] = "whole"
          /\ "input" \in files[r]
          /\ Go(r, "test", "analyze")
          /\ UNCHANGED status
       \/ \E code \in {200, 502} : FinishWith(r, "test", code)
    /\ UNCHANGED <<server, stops, path, recordVars, poolVars, anvil, mutex, copyVars,
                   tempVars, projectVars, seen>>

(* fetchTokenPrices, EnrichERC20Transfers and AnalyzeBalanceChanges: a      *)
(* failing price provider leaves the prices out.                            *)
Analyze(r) ==
    /\ FinishWith(r, "analyze", 200)
    /\ UNCHANGED <<server, stops, path, recordVars, poolVars, anvil, mutex, copyVars,
                   tempVars, projectVars, seen>>

(* Mistake: the release is deferred before the worker is there. *)
FinishWithoutWorker(r) ==
    /\ Go(r, "finish", IF r \in Replays THEN "done" ELSE "cleanup")
    /\ \/ recorded' = IF r \in runStarted THEN recorded \cup {r} ELSE recorded
       \/ DiskFaults /\ UNCHANGED recorded
    /\ UNCHANGED <<server, stops, path, status, runStarted, poolVars, anvil, mutex, copyVars,
                   tempVars, projectVars, seen>>

(* Mistake: only a run that succeeded is saved. *)
FinishKeepsSuccess(r) ==
    /\ Go(r, "finish", IF r \in Replays THEN "done"
                       ELSE IF worker[r] = None THEN "unlock" ELSE "cleanup")
    /\ recorded' = IF r \in runStarted /\ status[r] = 200 THEN recorded \cup {r} ELSE recorded
    /\ UNCHANGED <<server, stops, path, status, runStarted, poolVars, anvil, mutex, copyVars,
                   tempVars, projectVars, seen>>

(* finish(): a started run is saved; a failing save is only logged. *)
Finish(r) ==
    /\ Go(r, "finish", IF r \in Replays THEN "done"
                       ELSE IF worker[r] = None THEN "unlock" ELSE "cleanup")
    /\ \/ recorded' = IF r \in runStarted THEN recorded \cup {r} ELSE recorded
       \/ DiskFaults /\ UNCHANGED recorded
    /\ UNCHANGED <<server, stops, path, status, runStarted, poolVars, anvil, mutex, copyVars,
                   tempVars, projectVars, seen>>

(* Mistake: every user removes the copy. *)
ReleaseRemovesAlways(root) ==
    /\ testCopies' = [testCopies EXCEPT ![root] = IF @ <= 1 THEN 0 ELSE @ - 1]
    /\ copyOnDisk' = [copyOnDisk EXCEPT ![Dir[root]] = "absent"]

(* Mistake: off by one, the copy of the last user stays. *)
ReleaseKeepsLast(root) ==
    IF testCopies[root] < 1
    THEN /\ testCopies' = [testCopies EXCEPT ![root] = 0]
         /\ copyOnDisk' = [copyOnDisk EXCEPT ![Dir[root]] = "absent"]
    ELSE /\ testCopies' = [testCopies EXCEPT ![root] = @ - 1]
         /\ UNCHANGED copyOnDisk

(* releaseTestCopy, under testCopiesMu: the last user removes the copy. *)
ReleaseTestCopy(root) ==
    IF testCopies[root] <= 1
    THEN /\ testCopies' = [testCopies EXCEPT ![root] = 0]
         /\ copyOnDisk' = [copyOnDisk EXCEPT ![Dir[root]] = "absent"]
    ELSE /\ testCopies' = [testCopies EXCEPT ![root] = @ - 1]
         /\ UNCHANGED copyOnDisk

(* execution.cleanup, the first deferred call: the temporary files in       *)
(* reverse, then the copy.                                                  *)
Cleanup(r) ==
    /\ Go(r, "cleanup", "release")
    /\ files' = [files EXCEPT ![r] = RemovedInReverse(tempFiles[r], @)]
    /\ tempFiles' = [tempFiles EXCEPT ![r] = <<>>]
    /\ \/ cleanupFuncs[r] = None /\ UNCHANGED <<testCopies, copyOnDisk>>
       \/ cleanupFuncs[r] # None /\ ReleaseTestCopy(cleanupFuncs[r])
    /\ cleanupFuncs' = [cleanupFuncs EXCEPT ![r] = None]
    /\ UNCHANGED <<server, stops, path, status, recordVars, poolVars, anvil, mutex,
                   projectVars, seen>>

(* The deferred release: the send blocks while the channel is full. *)
ReleaseWorker(r) ==
    /\ Go(r, "release", "unlock")
    /\ Len(idle) < WorkerCount
    /\ idle' = Append(idle, worker[r])
    /\ worker' = [worker EXCEPT ![r] = None]
    /\ UNCHANGED <<server, stops, path, status, recordVars, held, anvil, mutex, copyVars,
                   tempVars, projectVars, seen>>

(* releaseDefaultProject, the last deferred call; the answer is written.    *)
(* AddDefaultProjectSourceFile ends the same way.                           *)
Unlock(r) ==
    /\ Go(r, "unlock", "done")
    /\ mutex' = IF mutex = r THEN None ELSE mutex
    /\ UNCHANGED <<server, stops, path, status, recordVars, poolVars, anvil, copyVars,
                   tempVars, projectVars, seen>>

-----------------------------------------------------------------------------
(* ReplayTx: no worker and no lock. *)

(* Mistake: runStarted is not set. *)
BeginReplayUnmarked(r) ==
    /\ server = "serving"
    /\ \/ Go(r, "new", "cast") /\ UNCHANGED status
       \/ FinishWith(r, "new", 400)
    /\ UNCHANGED <<server, stops, path, recordVars, poolVars, anvil, mutex, copyVars,
                   tempVars, projectVars, seen>>

(* validateTxRequest, and cast run about to start. *)
BeginReplay(r) ==
    /\ server = "serving"
    /\ \/ /\ Go(r, "new", "cast")
          /\ runStarted' = runStarted \cup {r}
          /\ UNCHANGED status
       \/ FinishWith(r, "new", 400) /\ UNCHANGED runStarted
    /\ UNCHANGED <<server, stops, path, recorded, poolVars, anvil, mutex, copyVars,
                   tempVars, projectVars, seen>>

CastRun(r) ==
    /\ \/ Go(r, "cast", "analyze") /\ UNCHANGED status
       \/ \E code \in {200, 502} : FinishWith(r, "cast", code)
    /\ UNCHANGED <<server, stops, path, recordVars, poolVars, anvil, mutex, copyVars,
                   tempVars, projectVars, seen>>

-----------------------------------------------------------------------------
(* AddDefaultProjectSourceFile. *)

FailWith(r, from, to, code) ==
    /\ Go(r, from, to)
    /\ status' = [status EXCEPT ![r] = code]

(* validateProjectSourceFileRequest comes before the lock. *)
BeginAddition(r) ==
    /\ server = "serving"
    /\ \/ Go(r, "new", "lock") /\ UNCHANGED status
       \/ FailWith(r, "new", "done", 400)
    /\ UNCHANGED <<server, stops, path, recordVars, poolVars, anvil, mutex, copyVars,
                   tempVars, projectVars, seen>>

(* Mistake: a source is added without the lock. *)
AddWithoutLock(r) ==
    /\ Go(r, "lock", "ensure")
    /\ UNCHANGED <<server, stops, path, status, recordVars, poolVars, anvil, mutex, copyVars,
                   tempVars, projectVars, seen>>

LockDefaultProject(r) ==
    /\ Go(r, "lock", "ensure")
    /\ mutex = None
    /\ mutex' = r
    /\ UNCHANGED <<server, stops, path, status, recordVars, poolVars, anvil, copyVars,
                   tempVars, projectVars, seen>>

(* ensureDefaultProject: foundry.toml marks an initialised project. *)
EnsureDefaultProject(r) ==
    /\ \/ /\ defaultProject \in {"template", "ready"}
          /\ Go(r, "ensure", "write")
          /\ UNCHANGED <<status, defaultProject>>
       \/ /\ defaultProject \in {"missing", "dir"}
          /\ Go(r, "ensure", "init")
          /\ defaultProject' = "dir"
          /\ UNCHANGED status
       \/ /\ DiskFaults
          /\ FailWith(r, "ensure", "unlock", 400)
          /\ UNCHANGED defaultProject
    /\ UNCHANGED <<server, stops, path, recordVars, poolVars, anvil, mutex, copyVars,
                   tempVars, sources, seen>>

(* forge init under the context of the call, which has no time limit of its *)
(* own; a run of it that is cut short may have written foundry.toml.        *)
ForgeInit(r) ==
    /\ \/ /\ Go(r, "init", "reset")
          /\ defaultProject' = "template"
          /\ UNCHANGED status
       \/ /\ FailWith(r, "init", "unlock", 500)
          /\ defaultProject' \in {"dir", "template"}
    /\ UNCHANGED <<server, stops, path, recordVars, poolVars, anvil, mutex, copyVars,
                   tempVars, sources, seen>>

(* resetDefaultProjectDirs removes src, test and script with all they hold: *)
(* what forge init put there, and whatever a run has under test/.  It may   *)
(* fail before or after test/ is gone.                                      *)
InDefaultProject(r) == External(r) /\ DirOf(r) = DefaultDir

TestDirRemoved ==
    /\ copyOnDisk' = [copyOnDisk EXCEPT ![DefaultDir] = "absent"]
    /\ files' = [s \in Simulations |->
                    IF InDefaultProject(s) THEN files[s] \ {"state"} ELSE files[s]]

ResetDefaultProjectDirs(r) ==
    /\ \/ /\ Go(r, "reset", "write") /\ UNCHANGED status
          /\ defaultProject' = "ready" /\ TestDirRemoved
       \/ /\ DiskFaults
          /\ FailWith(r, "reset", "unlock", 400)
          /\ UNCHANGED defaultProject
          /\ TestDirRemoved \/ UNCHANGED <<copyOnDisk, files>>
    /\ UNCHANGED <<server, stops, path, recordVars, poolVars, anvil, mutex, testCopies,
                   cleanupFuncs, tempFiles, sources, seen>>

(* The source file is written under src/; a failing write may leave part. *)
WriteSource(r) ==
    /\ \/ FailWith(r, "write", "unlock", 200) /\ sources' = sources + 1
       \/ /\ DiskFaults
          /\ FailWith(r, "write", "unlock", 400)
          /\ sources' \in {sources, sources + 1}
    /\ UNCHANGED <<server, stops, path, recordVars, poolVars, anvil, mutex, copyVars,
                   tempVars, defaultProject, seen>>

-----------------------------------------------------------------------------
(* cmd/server: a signal, Shutdown with its five seconds, Close, os.Exit. *)

Shutdown ==
    /\ server = "serving"
    /\ stops < MaxStops
    /\ server' = "draining"
    /\ stops' = stops + 1
    /\ UNCHANGED <<callVars, recordVars, poolVars, anvil, mutex, copyVars, tempVars,
                   projectVars, seen>>

(* Mistake: Close without waiting for the handlers. *)
CloseAtOnce ==
    /\ server = "draining"
    /\ server' = "closing"
    /\ UNCHANGED <<stops, callVars, recordVars, poolVars, anvil, mutex, copyVars, tempVars,
                   projectVars, seen>>

(* Shutdown returns nil: no handler is left, the deferred Close runs. *)
Drained ==
    /\ server = "draining"
    /\ \A r \in Requests : ~ Active(r)
    /\ server' = "closing"
    /\ UNCHANGED <<stops, callVars, recordVars, poolVars, anvil, mutex, copyVars, tempVars,
                   projectVars, seen>>

(* os.Exit(1) skips Close; the disk stays as it is and the Anvil processes  *)
(* go on without their parent.                                              *)
Exit ==
    /\ server' = "killed"
    /\ pc' = [r \in Requests |-> IF Active(r) THEN "dropped" ELSE pc[r]]
    /\ idle' = InMemory.workers
    /\ held' = <<>>
    /\ worker' = InMemory.worker
    /\ anvil' = [w \in Workers |-> IF anvil[w] = "running" THEN "orphan" ELSE anvil[w]]
    /\ mutex' = None
    /\ testCopies' = InMemory.copies
    /\ cleanupFuncs' = InMemory.cleanup
    /\ tempFiles' = InMemory.temp
    /\ UNCHANGED <<path, status, recordVars, copyOnDisk, files, projectVars, seen>>

(* ListenAndServe returns an error by itself. *)
ServeFails ==
    /\ server = "serving"
    /\ stops < MaxStops
    /\ stops' = stops + 1
    /\ Exit

(* Shutdown's deadline passes. *)
ShutdownTimeout ==
    /\ server = "draining"
    /\ \E r \in Requests : Active(r)
    /\ Exit
    /\ UNCHANGED stops

(* Close takes the workers out of the channel and stops their Anvil ... *)
CloseWorker ==
    /\ server = "closing"
    /\ idle # <<>>
    /\ held' = Append(held, Head(idle))
    /\ idle' = Tail(idle)
    /\ anvil' = [anvil EXCEPT ![Head(idle)] = IF @ = "orphan" THEN @ ELSE "stopped"]
    /\ UNCHANGED <<server, stops, callVars, recordVars, worker, mutex, copyVars, tempVars,
                   projectVars, seen>>

(* ... and puts them back once the channel is empty. *)
Closed ==
    /\ server = "closing"
    /\ idle = <<>>
    /\ idle' = held
    /\ held' = <<>>
    /\ server' = "stopped"
    /\ UNCHANGED <<stops, callVars, recordVars, worker, anvil, mutex, copyVars, tempVars,
                   projectVars, seen>>

(* The operator starts the server again on the same disk. *)
Restart ==
    /\ server \in {"killed", "stopped"}
    /\ server' = "serving"
    /\ idle' = InMemory.workers
    /\ UNCHANGED <<stops, callVars, recordVars, held, worker, anvil, mutex, copyVars, tempVars,
                   projectVars, seen>>

-----------------------------------------------------------------------------
Simulate(r) ==
    \/ LockDefaultProjectIfUsed(r) \/ ValidateRequest(r)
    \/ AcquireWorker(r)
    \/ PrepareLocal(r) \/ PrepareExternal(r) \/ PrepareFails(r)
    \/ BuildProjectSrc(r) \/ ReadStateOverride(r)
    \/ WriteStateOverrideSource(r) \/ WriteStateOverrideSourceFails(r)
    \/ CompileStateOverride(r)
    \/ WriteSimulationInput(r) \/ WriteSimulationInputFails(r)
    \/ Fork(r) \/ ForkFails(r) \/ ForgeTest(r)
    \/ Cleanup(r) \/ ReleaseWorker(r)

Run(r) == Analyze(r) \/ Finish(r)

AddSourceBeforeInit(r) ==
    \/ LockDefaultProject(r) \/ EnsureDefaultProject(r)
    \/ ResetDefaultProjectDirs(r) \/ WriteSource(r)

Server == Shutdown \/ Drained \/ ServeFails \/ ShutdownTimeout \/ CloseWorker \/ Closed \/ Restart

Next ==
    \/ \E r \in Simulations : BeginSimulation(r) \/ Simulate(r) \/ AcquireTimeout(r)
    \/ \E r \in Replays : BeginReplay(r) \/ CastRun(r)
    \/ \E r \in Additions : BeginAddition(r) \/ AddSourceBeforeInit(r) \/ ForgeInit(r)
    \/ \E r \in Simulations \cup Replays : Run(r)
    \/ \E r \in Simulations \cup Additions : Unlock(r)
    \/ Server

Spec == Init /\ [][Next]_vars

(***************************************************************************)
(* Fairness.  Every step of a handler is taken: the commands of a run end, *)
(* or its context kills them when timeout_seconds are over; the calls to   *)
(* RPC nodes and price services have time limits of their own.  The wait   *)
(* for a worker is left to end by a worker that comes back: its timeout    *)
(* may happen and is not relied on.  ForgeInit is apart: nothing limits it *)
(* but the client going away.  New calls, the signal, the deadline and the *)
(* restart are never forced.                                               *)
(***************************************************************************)
SimulationStep(r) == Simulate(r) \/ Run(r) \/ Unlock(r)
ReplayStep(r) == CastRun(r) \/ Run(r)
AdditionStep(r) == AddSourceBeforeInit(r) \/ Unlock(r)

Fairness ==
    /\ \A r \in Simulations : WF_vars(SimulationStep(r))
    /\ \A r \in Replays : WF_vars(ReplayStep(r))
    /\ \A r \in Additions : WF_vars(AdditionStep(r)) /\ WF_vars(ForgeInit(r))

FairSpec == Spec /\ Fairness

-----------------------------------------------------------------------------
Stages == {"new", "lock", "validate", "acquire", "prepare", "build", "override",
           "compile", "input", "fork", "test", "cast", "analyze", "finish",
           "cleanup", "release", "unlock", "done", "dropped",
           "ensure", "init", "reset", "write"}

Codes == {0, 200, 400, 429, 500, 502}

(* Every variable has its type. *)
TypeOK ==
    /\ server \in {"serving", "draining", "closing", "stopped", "killed"}
    /\ pc \in [Requests -> Stages]
    /\ path \in [Simulations -> Paths \cup {NoPath}]
    /\ stops \in 0 .. MaxStops
    /\ status \in [Requests -> Codes]
    /\ runStarted \subseteq Requests
    /\ recorded \subseteq Requests
    /\ idle \in Seq(Workers)
    /\ held \in Seq(Workers)
    /\ worker \in [Simulations -> Workers \cup {None}]
    /\ anvil \in [Workers -> {"stopped", "running", "orphan"}]
    /\ mutex \in Requests \cup {None}
    /\ testCopies \in [Roots -> Nat]
    /\ cleanupFuncs \in [Simulations -> Roots \cup {None}]
    /\ copyOnDisk \in [Dirs -> {"absent", "whole", "torn"}]
    /\ tempFiles \in [Simulations -> Seq(TempFiles)]
    /\ files \in [Simulations -> SUBSET TempFiles]
    /\ defaultProject \in {"missing", "dir", "template", "ready"}
    /\ sources \in Nat
    /\ seen \in [Simulations -> Nat]

InChannel(w) == \E i \in DOMAIN idle : idle[i] = w

(* A worker, and the Anvil process behind it, serves one run at a time: it  *)
(* is once in the channel, or with one run, or with Close, never in two of  *)
(* these places (acquireWorker, its release function, Close).               *)
OneRunPerWorker ==
    /\ \A i, j \in DOMAIN idle : idle[i] = idle[j] => i = j
    /\ \A i, j \in DOMAIN held : held[i] = held[j] => i = j
    /\ \A i \in DOMAIN held : ~ InChannel(held[i])
    /\ \A r \in Simulations : worker[r] # None =>
         /\ ~ InChannel(worker[r])
         /\ \A i \in DOMAIN held : held[i] # worker[r]
         /\ \A s \in Simulations \ {r} : worker[s] # worker[r]

(* No path through a handler loses a worker: every early return, with its   *)
(* deferred calls, brings it back, so at any time the channel, Close and    *)
(* the runs in flight have all the workers between them.                    *)
Holders == {r \in Simulations : Active(r) /\ worker[r] # None}

PoolKeepsItsSize == Len(idle) + Len(held) + Cardinality(Holders) = WorkerCount

(* A run that answers 200 or 502 is in the record database by the time the  *)
(* caller can ask for it; one refused while waiting for a worker is not     *)
(* (finish and runStarted).  With a faulty disk only the second half holds. *)
RecordedIffStarted ==
    \A r \in Simulations \cup Replays :
        /\ r \in recorded => r \in runStarted /\ status[r] # 429
        /\ ~ DiskFaults /\ pc[r] = "done" /\ (r \in runStarted \/ status[r] \in {200, 502})
              => r \in recorded

(* From the moment a run has its copy of the harness until its cleanup, the *)
(* copy is in the project, whatever the other runs of the project do        *)
(* (retainTestCopy, releaseTestCopy, resetDefaultProjectDirs).              *)
CopyStaysWhileUsed ==
    \A r \in Simulations :
        cleanupFuncs[r] # None => copyOnDisk[Dir[cleanupFuncs[r]]] = "whole"

Users(root) == {r \in Simulations : cleanupFuncs[r] = root}

(* The reference count of a copy is the number of runs that use it. *)
CountIsUsers == \A root \in Roots : testCopies[root] = Cardinality(Users(root))

(* The copy goes with the last run that used it, as backend/README.md says. *)
LastUserRemovesCopy ==
    [][\A root \in Roots :
          Alive' /\ Users(root) # {} /\ Users(root)' = {} =>
              copyOnDisk'[Dir[root]] = "absent"]_vars

(* A finished run leaves none of its own temporary files, on no path,       *)
(* whatever failed (the order of tempFiles and its reversal in cleanup);    *)
(* the one exception is the state override of an external run whose write   *)
(* stopped halfway, which is not in the list yet.                           *)
NoResidue ==
    \A r \in Simulations :
        pc[r] = "done" /\ files[r] # {} =>
            External(r) /\ files[r] = {"state"} /\ status[r] = 500

(* The sources of the default project that a run found when it was prepared *)
(* are those it builds and tests: no source file is added in between        *)
(* (defaultProjectMu).                                                      *)
UsingSources(r) ==
    pc[r] \in {"build", "override", "compile", "input", "fork", "test"}

StableSources ==
    \A r \in Simulations :
        UsingSources(r) /\ InDefaultProject(r) => seen[r] = sources

(* No worker is lost, so that Close does not wait for one that never comes; *)
(* and when the server has stopped by itself it has stopped every Anvil it  *)
(* started, and nothing is held or counted any more.                        *)
CleanStop ==
    /\ PoolKeepsItsSize
    /\ server = "stopped" =>
          /\ \A w \in Workers : anvil[w] # "running"
          /\ Len(idle) = WorkerCount
          /\ mutex = None
          /\ \A root \in Roots : testCopies[root] = 0

(* A source file was added to a default project that has been reset: its    *)
(* src/, test/ and script/ hold nothing of the template of forge init.      *)
AddedToResetProject ==
    \A r \in Additions : status[r] = 200 => defaultProject = "ready"

(* Every call is answered, or dropped with the server: no handler waits for *)
(* ever on the lock, on the pool or on a full channel.  A run that waits    *)
(* for a worker may hold the lock (service.go:190, acquireWorker); the run  *)
(* that has the worker never waits for the lock in its turn, so the wait    *)
(* ends without its time limit.  Said of all calls at once: each comes once *)
(* and stays answered, so the time when none is in flight is that of the    *)
(* last answer.                                                             *)
EveryCallAnswered == (\E r \in Requests : Active(r)) ~> (\A r \in Requests : ~ Active(r))

(***************************************************************************)
(* The service implements RunLifecycle.  A simulation runs from the moment *)
(* it has its worker until it gives it back, and is answered when the last *)
(* deferred call has returned.                                             *)
(***************************************************************************)
Calls == Simulations \cup Replays

Phase(r) ==
    CASE pc[r] = "new" -> "absent"
      [] pc[r] = "dropped" -> "dropped"
      [] pc[r] = "unlock" -> "leaving"
      [] pc[r] = "done" -> "answered"
      [] OTHER -> IF r \in runStarted THEN "running" ELSE "waiting"

Lifecycle == INSTANCE RunLifecycle WITH
    Limited <- Simulations,
    Capacity <- WorkerCount,
    Reliable <- ~ DiskFaults,
    phase <- [r \in Calls |-> Phase(r)],
    kept <- recorded

(* The promise of RunLifecycle, kept by every step of the code: no more     *)
(* runs than workers, no answer of a run before its record.                 *)
ImplementsRunLifecycle == Lifecycle!Spec
=============================================================================
