---------------------- MODULE SimulationServiceProofs ----------------------
(***************************************************************************)
(* Theorems about SimulationService, for every value of its constants:     *)
(* types, the pool and its lock, the project files, and what a caller      *)
(* relies on.                                                              *)
(***************************************************************************)
EXTENDS SimulationService, FiniteSetTheorems, TLAPS

(* The pool has a worker, whatever max_concurrent_runs says. *)
LEMMA WorkerCountType == WorkerCount \in Nat \ {0}
  BY PoolAssumption DEF WorkerCount

(* The paths a run is given lead to a root and a directory. *)
LEMMA PathTypes ==
    /\ \A p \in Paths \ {NoPath} : Root[p] \in Roots
    /\ \A root \in Roots : Dir[root] \in Dirs
    /\ DefaultDir \in Dirs
  BY PathAssumption DEF Roots, Dirs

(* A handler that moves to a stage stays a handler. *)
LEMMA GoType ==
  ASSUME TypeOK, NEW r \in Requests, NEW from, NEW to \in Stages, Go(r, from, to)
  PROVE  pc' \in [Requests -> Stages]
  BY DEF TypeOK, Go

(* The same with the status of a finish, *)
LEMMA FinishType ==
  ASSUME TypeOK, NEW r \in Requests, NEW from, NEW code \in Codes,
         FinishWith(r, from, code)
  PROVE  pc' \in [Requests -> Stages] /\ status' \in [Requests -> Codes]
  BY GoType DEF TypeOK, FinishWith, Stages

(* or with the status of an addition. *)
LEMMA FailType ==
  ASSUME TypeOK, NEW r \in Requests, NEW from, NEW to \in Stages, NEW code \in Codes,
         FailWith(r, from, to, code)
  PROVE  pc' \in [Requests -> Stages] /\ status' \in [Requests -> Codes]
  BY GoType DEF TypeOK, FailWith

(* Every variable has its type, in every state of the service. *)
LEMMA TypeInit == Init => TypeOK
  BY WorkerCountType, BoundsAssumption
     DEF Init, TypeOK, InMemory, Workers, Stages, Codes

(* A simulation has a worker from the receive in acquireWorker to the send  *)
(* of its release function.                                                 *)
Served == {"prepare", "build", "override", "compile", "input", "fork", "test",
           "analyze", "cleanup", "release"}

HasWorker ==
    \A r \in Simulations :
        /\ pc[r] \in Served => worker[r] # None
        /\ worker[r] # None => pc[r] \in Served \cup {"finish"}

(* The files a state override lists are temporary files, *)
LEMMA OverrideFilesType ==
    \A r \in Simulations : OverrideFiles(r) \in Seq(TempFiles)
<1> TAKE r \in Simulations
<1>1. <<"state">> \in Seq(TempFiles) /\ <<"stateDir", "state">> \in Seq(TempFiles)
  BY DEF TempFiles
<1> QED
  BY <1>1 DEF OverrideFiles

(* and so are those of the simulation input. *)
LEMMA InputFilesType == <<"inputDir", "input">> \in Seq(TempFiles)
  BY DEF TempFiles

(* Every step keeps the types; ReleaseWorker and Fork need the worker. *)
LEMMA TypeStep == TypeOK /\ HasWorker /\ [Next]_vars => TypeOK'
<1> SUFFICES ASSUME TypeOK, HasWorker, [Next]_vars PROVE TypeOK'
  OBVIOUS
<1> USE WorkerCountType, PathTypes DEF callVars, recordVars, poolVars, copyVars, tempVars,
        projectVars
<1>0. Simulations \subseteq Requests /\ Replays \subseteq Requests /\ Additions \subseteq Requests
  BY DEF Requests
<1>1. ASSUME NEW r \in Simulations, BeginSimulation(r) PROVE TypeOK'
  <2>1. pc' \in [Requests -> Stages] /\ status' \in [Requests -> Codes]
    BY <1>0, <1>1, GoType, FinishType, FailType DEF BeginSimulation, TypeOK, Stages, Codes
  <2> QED
    BY <1>0, <1>1, <2>1 DEF BeginSimulation, TypeOK
<1>2. ASSUME NEW r \in Simulations, LockDefaultProjectIfUsed(r) PROVE TypeOK'
  <2>1. pc' \in [Requests -> Stages] /\ status' \in [Requests -> Codes]
    BY <1>0, <1>2, GoType, FinishType, FailType DEF LockDefaultProjectIfUsed, TypeOK, Stages, Codes
  <2> QED
    BY <1>0, <1>2, <2>1 DEF LockDefaultProjectIfUsed, TypeOK
<1>3. ASSUME NEW r \in Simulations, ValidateRequest(r) PROVE TypeOK'
  <2>1. pc' \in [Requests -> Stages] /\ status' \in [Requests -> Codes]
    BY <1>0, <1>3, GoType, FinishType, FailType DEF ValidateRequest, TypeOK, Stages, Codes
  <2> QED
    BY <1>0, <1>3, <2>1 DEF ValidateRequest, TypeOK
<1>4. ASSUME NEW r \in Simulations, AcquireWorker(r) PROVE TypeOK'
  <2>1. pc' \in [Requests -> Stages] /\ status' \in [Requests -> Codes]
    BY <1>0, <1>4, GoType, FinishType, FailType DEF AcquireWorker, TypeOK, Stages, Codes
  <2> QED
    BY <1>0, <1>4, <2>1 DEF AcquireWorker, TypeOK
<1>5. ASSUME NEW r \in Simulations, AcquireTimeout(r) PROVE TypeOK'
  <2>1. pc' \in [Requests -> Stages] /\ status' \in [Requests -> Codes]
    BY <1>0, <1>5, GoType, FinishType, FailType DEF AcquireTimeout, TypeOK, Stages, Codes
  <2> QED
    BY <1>0, <1>5, <2>1 DEF AcquireTimeout, TypeOK
<1>6. ASSUME NEW r \in Simulations, PrepareLocal(r) PROVE TypeOK'
  <2>1. pc' \in [Requests -> Stages] /\ status' \in [Requests -> Codes]
    BY <1>0, <1>6, GoType, FinishType, FailType DEF PrepareLocal, TypeOK, Stages, Codes
  <2> QED
    BY <1>0, <1>6, <2>1 DEF PrepareLocal, TypeOK
<1>7. ASSUME NEW r \in Simulations, PrepareExternal(r) PROVE TypeOK'
  <2>1. pc' \in [Requests -> Stages] /\ status' \in [Requests -> Codes]
    BY <1>0, <1>7, GoType, FinishType, FailType DEF PrepareExternal, TypeOK, Stages, Codes
  <2> QED
    BY <1>0, <1>7, <2>1 DEF PrepareExternal, TypeOK, RetainTestCopy, RootOf, DirOf, External
<1>8. ASSUME NEW r \in Simulations, PrepareFails(r) PROVE TypeOK'
  <2>1. pc' \in [Requests -> Stages] /\ status' \in [Requests -> Codes]
    BY <1>0, <1>8, GoType, FinishType, FailType DEF PrepareFails, TypeOK, Stages, Codes
  <2> QED
    BY <1>0, <1>8, <2>1 DEF PrepareFails, TypeOK, RootOf, DirOf, External
<1>9. ASSUME NEW r \in Simulations, BuildProjectSrc(r) PROVE TypeOK'
  <2>1. pc' \in [Requests -> Stages] /\ status' \in [Requests -> Codes]
    BY <1>0, <1>9, GoType, FinishType, FailType DEF BuildProjectSrc, TypeOK, Stages, Codes
  <2> QED
    BY <1>0, <1>9, <2>1 DEF BuildProjectSrc, TypeOK
<1>10. ASSUME NEW r \in Simulations, ReadStateOverride(r) PROVE TypeOK'
  <2>1. pc' \in [Requests -> Stages] /\ status' \in [Requests -> Codes]
    BY <1>0, <1>10, GoType, FinishType, FailType DEF ReadStateOverride, TypeOK, Stages, Codes
  <2> QED
    BY <1>0, <1>10, <2>1 DEF ReadStateOverride, TypeOK
<1>11. ASSUME NEW r \in Simulations, WriteStateOverrideSource(r) PROVE TypeOK'
  <2>1. pc' \in [Requests -> Stages] /\ status' \in [Requests -> Codes]
    BY <1>0, <1>11, GoType DEF WriteStateOverrideSource, TypeOK, Stages
  <2>2. tempFiles' \in [Simulations -> Seq(TempFiles)]
    BY <1>11, OverrideFilesType DEF WriteStateOverrideSource, TypeOK
  <2> QED
    BY <1>11, <2>1, <2>2 DEF WriteStateOverrideSource, TypeOK, TempFiles
<1>12. ASSUME NEW r \in Simulations, WriteStateOverrideSourceFails(r) PROVE TypeOK'
  <2>1. pc' \in [Requests -> Stages] /\ status' \in [Requests -> Codes]
    BY <1>0, <1>12, FinishType DEF WriteStateOverrideSourceFails, Codes
  <2> DEFINE Typed == /\ tempFiles' \in [Simulations -> Seq(TempFiles)]
                      /\ files' \in [Simulations -> SUBSET TempFiles]
  <2>2. ASSUME UNCHANGED tempVars PROVE Typed
    BY <2>2 DEF TypeOK
  <2>3. ASSUME files' = [files EXCEPT ![r] = @ \cup {"state"}], UNCHANGED tempFiles
        PROVE  Typed
    BY <2>3 DEF TypeOK, TempFiles
  <2>4. ASSUME NEW torn \in SUBSET {"state"},
               tempFiles' = [tempFiles EXCEPT ![r] = @ \o OverrideFiles(r)],
               files' = [files EXCEPT ![r] = @ \cup {"stateDir"} \cup torn]
        PROVE  Typed
    <3>1. tempFiles[r] \o OverrideFiles(r) \in Seq(TempFiles)
      BY OverrideFilesType DEF TypeOK
    <3>2. files[r] \cup {"stateDir"} \cup torn \in SUBSET TempFiles
      BY DEF TypeOK, TempFiles
    <3> QED
      BY <2>4, <3>1, <3>2 DEF TypeOK
  <2>5. Typed
    BY <1>12, <2>2, <2>3, <2>4 DEF WriteStateOverrideSourceFails
  <2> QED
    BY <1>12, <2>1, <2>5 DEF WriteStateOverrideSourceFails, TypeOK
<1>13. ASSUME NEW r \in Simulations, CompileStateOverride(r) PROVE TypeOK'
  <2>1. pc' \in [Requests -> Stages] /\ status' \in [Requests -> Codes]
    BY <1>0, <1>13, GoType, FinishType, FailType DEF CompileStateOverride, TypeOK, Stages, Codes
  <2> QED
    BY <1>0, <1>13, <2>1 DEF CompileStateOverride, TypeOK
<1>14. ASSUME NEW r \in Simulations, WriteSimulationInput(r) PROVE TypeOK'
  <2>1. pc' \in [Requests -> Stages] /\ status' \in [Requests -> Codes]
    BY <1>0, <1>14, GoType, FinishType, FailType DEF WriteSimulationInput, TypeOK, Stages, Codes
  <2> QED
    BY <1>0, <1>14, <2>1 DEF WriteSimulationInput, TypeOK, TempFiles
<1>15. ASSUME NEW r \in Simulations, WriteSimulationInputFails(r) PROVE TypeOK'
  <2>1. pc' \in [Requests -> Stages] /\ status' \in [Requests -> Codes]
    BY <1>0, <1>15, FinishType DEF WriteSimulationInputFails, Codes
  <2> DEFINE Typed == /\ tempFiles' \in [Simulations -> Seq(TempFiles)]
                      /\ files' \in [Simulations -> SUBSET TempFiles]
  <2>2. ASSUME UNCHANGED tempVars PROVE Typed
    BY <2>2 DEF TypeOK
  <2>3. ASSUME NEW torn \in SUBSET {"input"},
               tempFiles' = [tempFiles EXCEPT ![r] = @ \o <<"inputDir", "input">>],
               files' = [files EXCEPT ![r] = @ \cup {"inputDir"} \cup torn]
        PROVE  Typed
    <3>1. tempFiles[r] \o <<"inputDir", "input">> \in Seq(TempFiles)
      BY InputFilesType DEF TypeOK
    <3>2. files[r] \cup {"inputDir"} \cup torn \in SUBSET TempFiles
      BY DEF TypeOK, TempFiles
    <3> QED
      BY <2>3, <3>1, <3>2 DEF TypeOK
  <2>4. Typed
    BY <1>15, <2>2, <2>3 DEF WriteSimulationInputFails
  <2> QED
    BY <1>15, <2>1, <2>4 DEF WriteSimulationInputFails, TypeOK
<1>16. ASSUME NEW r \in Simulations, Fork(r) PROVE TypeOK'
  <2>1. pc' \in [Requests -> Stages] /\ status' \in [Requests -> Codes]
    BY <1>0, <1>16, GoType, FinishType, FailType DEF Fork, TypeOK, Stages, Codes
  <2> QED
    BY <1>0, <1>16, <2>1 DEF Fork, TypeOK
<1>17. ASSUME NEW r \in Simulations, ForkFails(r) PROVE TypeOK'
  <2>1. pc' \in [Requests -> Stages] /\ status' \in [Requests -> Codes]
    BY <1>0, <1>17, GoType, FinishType, FailType DEF ForkFails, TypeOK, Stages, Codes
  <2> QED
    BY <1>0, <1>17, <2>1 DEF ForkFails, TypeOK
<1>18. ASSUME NEW r \in Simulations, ForgeTest(r) PROVE TypeOK'
  <2>1. pc' \in [Requests -> Stages] /\ status' \in [Requests -> Codes]
    BY <1>0, <1>18, GoType, FinishType, FailType DEF ForgeTest, TypeOK, Stages, Codes
  <2> QED
    BY <1>0, <1>18, <2>1 DEF ForgeTest, TypeOK
<1>19. ASSUME NEW r \in Simulations, Cleanup(r) PROVE TypeOK'
  <2>1. pc' \in [Requests -> Stages] /\ status' \in [Requests -> Codes]
    BY <1>0, <1>19, GoType DEF Cleanup, TypeOK, Stages
  <2>2. RemovedInReverse(tempFiles[r], files[r]) \subseteq files[r]
    BY DEF RemovedInReverse
  <2>3. /\ files' \in [Simulations -> SUBSET TempFiles]
        /\ tempFiles' \in [Simulations -> Seq(TempFiles)]
        /\ cleanupFuncs' \in [Simulations -> Roots \cup {None}]
    BY <1>19, <2>2 DEF Cleanup, TypeOK
  <2>4. /\ testCopies' \in [Roots -> Nat]
        /\ copyOnDisk' \in [Dirs -> {"absent", "whole", "torn"}]
    <3>1. CASE cleanupFuncs[r] = None
      BY <1>19, <3>1 DEF Cleanup, TypeOK
    <3>2. CASE cleanupFuncs[r] # None
      <4> DEFINE root == cleanupFuncs[r]
      <4>1. root \in Roots /\ ReleaseTestCopy(root)
        BY <1>19, <3>2 DEF Cleanup, TypeOK
      <4>2. CASE testCopies[root] <= 1
        <5>1. /\ testCopies' = [testCopies EXCEPT ![root] = 0]
              /\ copyOnDisk' = [copyOnDisk EXCEPT ![Dir[root]] = "absent"]
          BY <4>1, <4>2 DEF ReleaseTestCopy
        <5> QED
          BY <4>1, <5>1 DEF TypeOK
      <4>3. CASE ~ (testCopies[root] <= 1)
        <5>1. testCopies[root] - 1 \in Nat
          BY <4>1, <4>3 DEF TypeOK
        <5> QED
          BY <4>1, <4>3, <5>1 DEF ReleaseTestCopy, TypeOK
      <4> QED
        BY <4>2, <4>3
    <3> QED
      BY <3>1, <3>2
  <2> QED
    BY <1>19, <2>1, <2>3, <2>4 DEF Cleanup, TypeOK
<1>20. ASSUME NEW r \in Simulations, ReleaseWorker(r) PROVE TypeOK'
  <2>1. pc' \in [Requests -> Stages] /\ status' \in [Requests -> Codes]
    BY <1>0, <1>20, GoType DEF ReleaseWorker, TypeOK, Stages
  <2>2. worker[r] \in Workers
    BY <1>20 DEF ReleaseWorker, Go, HasWorker, Served, TypeOK
  <2> QED
    BY <1>20, <2>1, <2>2 DEF ReleaseWorker, TypeOK
<1>21. ASSUME NEW r \in Simulations \cup Replays, Analyze(r) PROVE TypeOK'
  <2>1. pc' \in [Requests -> Stages] /\ status' \in [Requests -> Codes]
    BY <1>0, <1>21, GoType, FinishType, FailType DEF Analyze, TypeOK, Stages, Codes
  <2> QED
    BY <1>0, <1>21, <2>1 DEF Analyze, TypeOK
<1>22. ASSUME NEW r \in Simulations \cup Replays, Finish(r) PROVE TypeOK'
  <2>1. pc' \in [Requests -> Stages] /\ status' \in [Requests -> Codes]
    BY <1>0, <1>22, GoType, FinishType, FailType DEF Finish, TypeOK, Stages, Codes
  <2> QED
    BY <1>0, <1>22, <2>1 DEF Finish, TypeOK
<1>23. ASSUME NEW r \in Simulations \cup Additions, Unlock(r) PROVE TypeOK'
  <2>1. pc' \in [Requests -> Stages] /\ status' \in [Requests -> Codes]
    BY <1>0, <1>23, GoType, FinishType, FailType DEF Unlock, TypeOK, Stages, Codes
  <2> QED
    BY <1>0, <1>23, <2>1 DEF Unlock, TypeOK
<1>24. ASSUME NEW r \in Replays, BeginReplay(r) PROVE TypeOK'
  <2>1. pc' \in [Requests -> Stages] /\ status' \in [Requests -> Codes]
    BY <1>0, <1>24, GoType, FinishType, FailType DEF BeginReplay, TypeOK, Stages, Codes
  <2> QED
    BY <1>0, <1>24, <2>1 DEF BeginReplay, TypeOK
<1>25. ASSUME NEW r \in Replays, CastRun(r) PROVE TypeOK'
  <2>1. pc' \in [Requests -> Stages] /\ status' \in [Requests -> Codes]
    BY <1>0, <1>25, GoType, FinishType, FailType DEF CastRun, TypeOK, Stages, Codes
  <2> QED
    BY <1>0, <1>25, <2>1 DEF CastRun, TypeOK
<1>26. ASSUME NEW r \in Additions, BeginAddition(r) PROVE TypeOK'
  <2>1. pc' \in [Requests -> Stages] /\ status' \in [Requests -> Codes]
    BY <1>0, <1>26, GoType, FinishType, FailType DEF BeginAddition, TypeOK, Stages, Codes
  <2> QED
    BY <1>0, <1>26, <2>1 DEF BeginAddition, TypeOK
<1>27. ASSUME NEW r \in Additions, LockDefaultProject(r) PROVE TypeOK'
  <2>1. pc' \in [Requests -> Stages] /\ status' \in [Requests -> Codes]
    BY <1>0, <1>27, GoType, FinishType, FailType DEF LockDefaultProject, TypeOK, Stages, Codes
  <2> QED
    BY <1>0, <1>27, <2>1 DEF LockDefaultProject, TypeOK
<1>28. ASSUME NEW r \in Additions, EnsureDefaultProject(r) PROVE TypeOK'
  <2>1. pc' \in [Requests -> Stages] /\ status' \in [Requests -> Codes]
    BY <1>0, <1>28, GoType, FinishType, FailType DEF EnsureDefaultProject, TypeOK, Stages, Codes
  <2> QED
    BY <1>0, <1>28, <2>1 DEF EnsureDefaultProject, TypeOK
<1>29. ASSUME NEW r \in Additions, ForgeInit(r) PROVE TypeOK'
  <2>1. pc' \in [Requests -> Stages] /\ status' \in [Requests -> Codes]
    BY <1>0, <1>29, GoType, FinishType, FailType DEF ForgeInit, TypeOK, Stages, Codes
  <2> QED
    BY <1>0, <1>29, <2>1 DEF ForgeInit, TypeOK
<1>30. ASSUME NEW r \in Additions, ResetDefaultProjectDirs(r) PROVE TypeOK'
  <2>1. pc' \in [Requests -> Stages] /\ status' \in [Requests -> Codes]
    BY <1>0, <1>30, GoType, FailType DEF ResetDefaultProjectDirs, TestDirRemoved, TypeOK, Stages, Codes
  <2>2. files' \in [Simulations -> SUBSET TempFiles]
    <3>1. CASE UNCHANGED files
      BY <3>1 DEF TypeOK
    <3>2. CASE files' = [s \in Simulations |->
                 IF InDefaultProject(s) THEN files[s] \ {"state"} ELSE files[s]]
      <4>1. \A s \in Simulations : files[s] \ {"state"} \in SUBSET TempFiles
        BY DEF TypeOK
      <4> QED
        BY <3>2, <4>1 DEF TypeOK
    <3> QED
      BY <1>30, <3>1, <3>2 DEF ResetDefaultProjectDirs, TestDirRemoved
  <2>3. copyOnDisk' \in [Dirs -> {"absent", "whole", "torn"}]
    BY <1>30 DEF ResetDefaultProjectDirs, TestDirRemoved, TypeOK
  <2> QED
    BY <1>30, <2>1, <2>2, <2>3 DEF ResetDefaultProjectDirs, TestDirRemoved, TypeOK
<1>31. ASSUME NEW r \in Additions, WriteSource(r) PROVE TypeOK'
  <2>1. pc' \in [Requests -> Stages] /\ status' \in [Requests -> Codes]
    BY <1>0, <1>31, GoType, FinishType, FailType DEF WriteSource, TypeOK, Stages, Codes
  <2> QED
    BY <1>0, <1>31, <2>1 DEF WriteSource, TypeOK
<1>32. ASSUME Shutdown PROVE TypeOK'
  BY <1>32, BoundsAssumption DEF Shutdown, TypeOK
<1>33. ASSUME Drained PROVE TypeOK'
  BY <1>33, BoundsAssumption DEF Drained, TypeOK
<1>34. ASSUME ServeFails \/ ShutdownTimeout PROVE TypeOK'
  <2>1. Exit /\ stops' \in 0 .. MaxStops
    BY <1>34, BoundsAssumption DEF ServeFails, ShutdownTimeout, TypeOK
  <2> QED
    BY <2>1, BoundsAssumption DEF Exit, TypeOK, InMemory, Workers, Stages
<1>35. ASSUME CloseWorker PROVE TypeOK'
  BY <1>35, BoundsAssumption DEF CloseWorker, TypeOK
<1>36. ASSUME Closed PROVE TypeOK'
  BY <1>36, BoundsAssumption DEF Closed, TypeOK
<1>37. ASSUME Restart PROVE TypeOK'
  BY <1>37, BoundsAssumption DEF Restart, TypeOK, InMemory, Workers
<1>38. ASSUME UNCHANGED vars PROVE TypeOK'
  BY <1>38 DEF vars, TypeOK
<1> QED
  BY <1>1, <1>2, <1>3, <1>4, <1>5, <1>6, <1>7, <1>8, <1>9, <1>10, <1>11, <1>12, <1>13, <1>14, <1>15, <1>16, <1>17, <1>18, <1>19, <1>20, <1>21, <1>22, <1>23, <1>24, <1>25, <1>26, <1>27, <1>28, <1>29, <1>30, <1>31, <1>32, <1>33, <1>34, <1>35, <1>36, <1>37, <1>38 DEF Next, Simulate, Run,
     AddSourceBeforeInit, Server

-----------------------------------------------------------------------------
(* The pool. *)

(* Once Shutdown has returned, or given up, no handler is under way; the    *)
(* workers Close holds are back in the channel when it returns.             *)
ServerDown ==
    /\ server \in {"closing", "stopped", "killed"} =>
          \A r \in Requests : ~ Active(r)
    /\ server # "closing" => held = <<>>

(* Sequences: what a receive and a send make of the channel. *)
LEMMA TailFacts ==
  ASSUME NEW S, NEW q \in Seq(S), q # <<>>
  PROVE  /\ Tail(q) \in Seq(S)
         /\ Len(Tail(q)) = Len(q) - 1
         /\ Head(q) = q[1] /\ 1 \in DOMAIN q /\ Head(q) \in S
         /\ \A i \in DOMAIN Tail(q) : i + 1 \in DOMAIN q /\ Tail(q)[i] = q[i + 1]
  OBVIOUS

(* What a send adds to the channel. *)
LEMMA AppendFacts ==
  ASSUME NEW S, NEW q \in Seq(S), NEW e \in S
  PROVE  /\ Append(q, e) \in Seq(S)
         /\ Len(Append(q, e)) = Len(q) + 1
         /\ \A i \in DOMAIN Append(q, e) :
               \/ i \in DOMAIN q /\ Append(q, e)[i] = q[i]
               \/ i = Len(q) + 1 /\ Append(q, e)[i] = e
  OBVIOUS

(* Moves that leave the workers alone: of another handler, of a simulation  *)
(* that has its worker, of one that has none.                               *)
LEMMA HasWorkerMove ==
  ASSUME TypeOK, HasWorker, NEW r \in Requests, NEW from, NEW to,
         Go(r, from, to), UNCHANGED worker,
         \/ r \notin Simulations
         \/ from \in Served /\ to \in Served \cup {"finish"}
         \/ from \notin Served \cup {"finish"} /\ to \notin Served
  PROVE  HasWorker'
  BY DEF Go, HasWorker, Served, TypeOK, Requests

(* Every step keeps workers and stages in agreement. *)
LEMMA HasWorkerStep == TypeOK /\ HasWorker /\ [Next]_vars => HasWorker'
<1> SUFFICES ASSUME TypeOK, HasWorker, [Next]_vars PROVE HasWorker'
  OBVIOUS
<1> USE DEF callVars, recordVars, poolVars, copyVars, tempVars, projectVars
<1>0. /\ Simulations \subseteq Requests /\ Replays \subseteq Requests
      /\ Additions \subseteq Requests
      /\ Simulations \cap Replays = {} /\ Simulations \cap Additions = {}
  BY CallsAssumption DEF Requests
<1>1. ASSUME NEW r \in Simulations, BeginSimulation(r) PROVE HasWorker'
  BY <1>0, <1>1, HasWorkerMove DEF BeginSimulation, FinishWith, FailWith, Served
<1>2. ASSUME NEW r \in Simulations, LockDefaultProjectIfUsed(r) PROVE HasWorker'
  BY <1>0, <1>2, HasWorkerMove DEF LockDefaultProjectIfUsed, FinishWith, FailWith, Served
<1>3. ASSUME NEW r \in Simulations, ValidateRequest(r) PROVE HasWorker'
  BY <1>0, <1>3, HasWorkerMove DEF ValidateRequest, FinishWith, FailWith, Served
<1>4. ASSUME NEW r \in Simulations, AcquireWorker(r) PROVE HasWorker'
  <2>1. Head(idle) # None
    BY <1>4, TailFacts, PoolAssumption, WorkerCountType DEF AcquireWorker, TypeOK, Workers
  <2> QED
    BY <1>0, <1>4, <2>1 DEF AcquireWorker, Go, HasWorker, Served, TypeOK
<1>5. ASSUME NEW r \in Simulations, AcquireTimeout(r) PROVE HasWorker'
  BY <1>0, <1>5, HasWorkerMove DEF AcquireTimeout, FinishWith, FailWith, Served
<1>6. ASSUME NEW r \in Simulations, PrepareLocal(r) PROVE HasWorker'
  BY <1>0, <1>6, HasWorkerMove DEF PrepareLocal, FinishWith, FailWith, Served
<1>7. ASSUME NEW r \in Simulations, PrepareExternal(r) PROVE HasWorker'
  BY <1>0, <1>7, HasWorkerMove DEF PrepareExternal, FinishWith, FailWith, Served
<1>8. ASSUME NEW r \in Simulations, PrepareFails(r) PROVE HasWorker'
  BY <1>0, <1>8, HasWorkerMove DEF PrepareFails, FinishWith, FailWith, Served
<1>9. ASSUME NEW r \in Simulations, BuildProjectSrc(r) PROVE HasWorker'
  BY <1>0, <1>9, HasWorkerMove DEF BuildProjectSrc, FinishWith, FailWith, Served
<1>10. ASSUME NEW r \in Simulations, ReadStateOverride(r) PROVE HasWorker'
  BY <1>0, <1>10, HasWorkerMove DEF ReadStateOverride, FinishWith, FailWith, Served
<1>11. ASSUME NEW r \in Simulations, WriteStateOverrideSource(r) PROVE HasWorker'
  BY <1>0, <1>11, HasWorkerMove DEF WriteStateOverrideSource, FinishWith, FailWith, Served
<1>12. ASSUME NEW r \in Simulations, WriteStateOverrideSourceFails(r) PROVE HasWorker'
  BY <1>0, <1>12, HasWorkerMove DEF WriteStateOverrideSourceFails, FinishWith, FailWith, Served
<1>13. ASSUME NEW r \in Simulations, CompileStateOverride(r) PROVE HasWorker'
  BY <1>0, <1>13, HasWorkerMove DEF CompileStateOverride, FinishWith, FailWith, Served
<1>14. ASSUME NEW r \in Simulations, WriteSimulationInput(r) PROVE HasWorker'
  BY <1>0, <1>14, HasWorkerMove DEF WriteSimulationInput, FinishWith, FailWith, Served
<1>15. ASSUME NEW r \in Simulations, WriteSimulationInputFails(r) PROVE HasWorker'
  BY <1>0, <1>15, HasWorkerMove DEF WriteSimulationInputFails, FinishWith, FailWith, Served
<1>16. ASSUME NEW r \in Simulations, Fork(r) PROVE HasWorker'
  BY <1>0, <1>16, HasWorkerMove DEF Fork, FinishWith, FailWith, Served
<1>17. ASSUME NEW r \in Simulations, ForkFails(r) PROVE HasWorker'
  BY <1>0, <1>17, HasWorkerMove DEF ForkFails, FinishWith, FailWith, Served
<1>18. ASSUME NEW r \in Simulations, ForgeTest(r) PROVE HasWorker'
  BY <1>0, <1>18, HasWorkerMove DEF ForgeTest, FinishWith, FailWith, Served
<1>19. ASSUME NEW r \in Simulations, Cleanup(r) PROVE HasWorker'
  BY <1>0, <1>19, HasWorkerMove DEF Cleanup, FinishWith, FailWith, Served
<1>20. ASSUME NEW r \in Simulations, ReleaseWorker(r) PROVE HasWorker'
  BY <1>0, <1>20 DEF ReleaseWorker, Go, FinishWith, FailWith, HasWorker, Served, TypeOK
<1>21. ASSUME NEW r \in Simulations \cup Replays, Analyze(r) PROVE HasWorker'
  BY <1>0, <1>21, HasWorkerMove DEF Analyze, FinishWith, FailWith, Served
<1>22. ASSUME NEW r \in Simulations \cup Replays, Finish(r) PROVE HasWorker'
  BY <1>0, <1>22 DEF Finish, Go, HasWorker, Served, TypeOK
<1>23. ASSUME NEW r \in Simulations \cup Additions, Unlock(r) PROVE HasWorker'
  BY <1>0, <1>23, HasWorkerMove DEF Unlock, FinishWith, FailWith, Served
<1>24. ASSUME NEW r \in Replays, BeginReplay(r) PROVE HasWorker'
  BY <1>0, <1>24, HasWorkerMove DEF BeginReplay, FinishWith, FailWith, Served
<1>25. ASSUME NEW r \in Replays, CastRun(r) PROVE HasWorker'
  BY <1>0, <1>25, HasWorkerMove DEF CastRun, FinishWith, FailWith, Served
<1>26. ASSUME NEW r \in Additions, BeginAddition(r) PROVE HasWorker'
  BY <1>0, <1>26, HasWorkerMove DEF BeginAddition, FinishWith, FailWith, Served
<1>27. ASSUME NEW r \in Additions, LockDefaultProject(r) PROVE HasWorker'
  BY <1>0, <1>27, HasWorkerMove DEF LockDefaultProject, FinishWith, FailWith, Served
<1>28. ASSUME NEW r \in Additions, EnsureDefaultProject(r) PROVE HasWorker'
  BY <1>0, <1>28, HasWorkerMove DEF EnsureDefaultProject, FinishWith, FailWith, Served
<1>29. ASSUME NEW r \in Additions, ForgeInit(r) PROVE HasWorker'
  BY <1>0, <1>29, HasWorkerMove DEF ForgeInit, FinishWith, FailWith, Served
<1>30. ASSUME NEW r \in Additions, ResetDefaultProjectDirs(r) PROVE HasWorker'
  BY <1>0, <1>30, HasWorkerMove DEF ResetDefaultProjectDirs, FinishWith, FailWith, Served
<1>31. ASSUME NEW r \in Additions, WriteSource(r) PROVE HasWorker'
  BY <1>0, <1>31, HasWorkerMove DEF WriteSource, FinishWith, FailWith, Served
<1>32. ASSUME Shutdown PROVE HasWorker'
  BY <1>0, <1>32 DEF Shutdown, Active, HasWorker, Served, TypeOK, InMemory
<1>33. ASSUME Drained PROVE HasWorker'
  BY <1>0, <1>33 DEF Drained, Active, HasWorker, Served, TypeOK, InMemory
<1>34. ASSUME ServeFails \/ ShutdownTimeout PROVE HasWorker'
  <2>1. Exit
    BY <1>34 DEF ServeFails, ShutdownTimeout
  <2> QED
    BY <1>0, <2>1 DEF Exit, Active, HasWorker, Served, TypeOK, InMemory
<1>35. ASSUME CloseWorker PROVE HasWorker'
  BY <1>0, <1>35 DEF CloseWorker, Active, HasWorker, Served, TypeOK, InMemory
<1>36. ASSUME Closed PROVE HasWorker'
  BY <1>0, <1>36 DEF Closed, Active, HasWorker, Served, TypeOK, InMemory
<1>37. ASSUME Restart PROVE HasWorker'
  BY <1>0, <1>37 DEF Restart, Active, HasWorker, Served, TypeOK, InMemory
<1>38. ASSUME UNCHANGED vars PROVE HasWorker'
  BY <1>38 DEF vars, HasWorker, Served
<1> QED
  BY <1>1, <1>2, <1>3, <1>4, <1>5, <1>6, <1>7, <1>8, <1>9, <1>10, <1>11, <1>12, <1>13, <1>14, <1>15, <1>16, <1>17, <1>18, <1>19, <1>20, <1>21, <1>22, <1>23, <1>24, <1>25, <1>26, <1>27, <1>28, <1>29, <1>30, <1>31, <1>32, <1>33, <1>34, <1>35, <1>36, <1>37, <1>38 DEF Next, Simulate, Run,
     AddSourceBeforeInit, Server
(* A step of a handler, as opposed to one of the server. *)
Handler ==
    \/ \E r \in Simulations : BeginSimulation(r) \/ Simulate(r) \/ AcquireTimeout(r)
    \/ \E r \in Replays : BeginReplay(r) \/ CastRun(r)
    \/ \E r \in Additions : BeginAddition(r) \/ AddSourceBeforeInit(r) \/ ForgeInit(r)
    \/ \E r \in Simulations \cup Replays : Run(r)
    \/ \E r \in Simulations \cup Additions : Unlock(r)

(* Handlers move only while the server is up, and leave Close alone. *)
LEMMA HandlerFacts == Handler => Alive /\ UNCHANGED <<server, stops, held>>
  BY DEF Handler, Simulate, Run, AddSourceBeforeInit, Go, FinishWith, FailWith, poolVars,
         BeginSimulation, LockDefaultProjectIfUsed, ValidateRequest, AcquireWorker,
         AcquireTimeout, PrepareLocal, PrepareExternal, PrepareFails, BuildProjectSrc,
         ReadStateOverride, WriteStateOverrideSource, WriteStateOverrideSourceFails,
         CompileStateOverride, WriteSimulationInput, WriteSimulationInputFails, Fork,
         ForkFails, ForgeTest, Cleanup, ReleaseWorker, Analyze, Finish, Unlock,
         BeginReplay, CastRun, BeginAddition, LockDefaultProject, EnsureDefaultProject,
         ForgeInit, ResetDefaultProjectDirs, WriteSource

(* The steps that move workers. *)
LEMMA PoolSteps ==
  [Next]_vars =>
    \/ UNCHANGED poolVars
    \/ \E r \in Simulations : AcquireWorker(r) \/ ReleaseWorker(r)
    \/ ServeFails \/ ShutdownTimeout \/ CloseWorker \/ Closed \/ Restart
  BY DEF Next, Simulate, Run, AddSourceBeforeInit, Server, vars, Shutdown, Drained,
         BeginSimulation, LockDefaultProjectIfUsed, ValidateRequest, AcquireTimeout,
         PrepareLocal, PrepareExternal, PrepareFails, BuildProjectSrc,
         ReadStateOverride, WriteStateOverrideSource, WriteStateOverrideSourceFails,
         CompileStateOverride, WriteSimulationInput, WriteSimulationInputFails, Fork,
         ForkFails, ForgeTest, Cleanup, Analyze, Finish, Unlock, BeginReplay, CastRun,
         BeginAddition, LockDefaultProject, EnsureDefaultProject, ForgeInit,
         ResetDefaultProjectDirs, WriteSource

(* Every step keeps what is said of the server that is down. *)
LEMMA ServerDownStep == TypeOK /\ ServerDown /\ [Next]_vars => ServerDown'
<1> SUFFICES ASSUME TypeOK, ServerDown, [Next]_vars PROVE ServerDown'
  OBVIOUS
<1> USE DEF callVars, poolVars
<1>1. CASE Handler
  BY <1>1, HandlerFacts DEF ServerDown, Alive
<1>2. CASE Shutdown \/ Drained
  BY <1>2 DEF Shutdown, Drained, ServerDown, Active
<1>3. CASE ServeFails \/ ShutdownTimeout
  BY <1>3 DEF ServeFails, ShutdownTimeout, Exit, ServerDown, Active
<1>4. CASE CloseWorker \/ Closed \/ Restart
  BY <1>4 DEF CloseWorker, Closed, Restart, ServerDown, Active
<1>5. CASE UNCHANGED vars
  BY <1>5 DEF vars, ServerDown, Active
<1> QED
  BY <1>1, <1>2, <1>3, <1>4, <1>5 DEF Next, Handler, Server

PoolInv == TypeOK /\ HasWorker /\ ServerDown /\ OneRunPerWorker

(* The channel as newSimulationWorkers makes it has every worker once. *)
LEMMA FreshChannel ==
    /\ \A i, j \in DOMAIN InMemory.workers :
          InMemory.workers[i] = InMemory.workers[j] => i = j
    /\ \A r \in Simulations : InMemory.worker[r] = None
  BY WorkerCountType DEF InMemory

(* Every step keeps the worker in one place only. *)
LEMMA OneRunPerWorkerStep == PoolInv /\ [Next]_vars => OneRunPerWorker'
<1> SUFFICES ASSUME PoolInv, [Next]_vars PROVE OneRunPerWorker'
  OBVIOUS
<1> USE DEF PoolInv, poolVars
<1>1. CASE UNCHANGED poolVars
  BY <1>1 DEF OneRunPerWorker, InChannel
<1>2. ASSUME NEW r \in Simulations, AcquireWorker(r) PROVE OneRunPerWorker'
  <2>1. idle \in Seq(Workers) /\ idle # <<>> /\ worker \in [Simulations -> Workers \cup {None}]
    BY <1>2 DEF AcquireWorker, TypeOK
  <2>2. /\ idle' = Tail(idle) /\ held' = held
        /\ worker' = [worker EXCEPT ![r] = Head(idle)]
    BY <1>2 DEF AcquireWorker
  <2>3. /\ \A i \in DOMAIN idle' : i + 1 \in DOMAIN idle /\ idle'[i] = idle[i + 1]
        /\ 1 \in DOMAIN idle /\ Head(idle) = idle[1]
    BY <2>1, <2>2, TailFacts
  <2>4. \A i \in DOMAIN idle' : i \in Nat /\ i + 1 # 1
    BY <2>1, <2>2
  <2>5. \A i \in DOMAIN idle' : idle'[i] # Head(idle)
    BY <2>3, <2>4 DEF OneRunPerWorker
  <2>6. \A i, j \in DOMAIN idle' : idle'[i] = idle'[j] => i = j
    <3> SUFFICES ASSUME NEW i \in DOMAIN idle', NEW j \in DOMAIN idle', idle'[i] = idle'[j]
                 PROVE  i = j
      OBVIOUS
    <3>1. i + 1 = j + 1
      BY <2>3 DEF OneRunPerWorker
    <3> QED
      BY <2>4, <3>1
  <2>7. \A i \in DOMAIN held : /\ held[i] # Head(idle)
                                /\ \A j \in DOMAIN idle' : idle'[j] # held[i]
    BY <2>2, <2>3 DEF OneRunPerWorker, InChannel
  <2>8. \A s \in Simulations \ {r} : worker'[s] = worker[s] /\ worker[s] # Head(idle)
    <3>1. Head(idle) # None
      BY <2>1, TailFacts, PoolAssumption, WorkerCountType DEF Workers
    <3> QED
      BY <2>1, <2>2, <2>3, <3>1 DEF OneRunPerWorker, InChannel
  <2>9. worker'[r] = Head(idle)
    BY <2>1, <2>2
  <2>10. \A s \in Simulations \ {r} : worker[s] # None =>
            \A j \in DOMAIN idle' : idle'[j] # worker[s]
    BY <2>2, <2>3 DEF OneRunPerWorker, InChannel
  <2> QED
    BY <2>2, <2>5, <2>6, <2>7, <2>8, <2>9, <2>10 DEF OneRunPerWorker, InChannel
<1>3. ASSUME NEW r \in Simulations, ReleaseWorker(r) PROVE OneRunPerWorker'
  <2>1. idle \in Seq(Workers) /\ worker \in [Simulations -> Workers \cup {None}]
    BY DEF TypeOK
  <2>2. /\ idle' = Append(idle, worker[r]) /\ held' = held
        /\ worker' = [worker EXCEPT ![r] = None]
    BY <1>3 DEF ReleaseWorker
  <2>3. worker[r] \in Workers /\ worker[r] # None
    BY <1>3, <2>1 DEF ReleaseWorker, Go, HasWorker, Served
  <2>4. \A i \in DOMAIN idle' :
           \/ i \in DOMAIN idle /\ idle'[i] = idle[i]
           \/ i = Len(idle) + 1 /\ idle'[i] = worker[r]
    BY <2>1, <2>2, <2>3, AppendFacts
  <2>5. \A i \in DOMAIN idle : idle[i] # worker[r]
    BY <2>3 DEF OneRunPerWorker, InChannel
  <2>6. \A i, j \in DOMAIN idle' : idle'[i] = idle'[j] => i = j
    BY <2>4, <2>5 DEF OneRunPerWorker
  <2>7. \A i \in DOMAIN held' : \A j \in DOMAIN idle' : idle'[j] # held[i]
    BY <2>2, <2>3, <2>4 DEF OneRunPerWorker, InChannel
  <2>8. \A s \in Simulations \ {r} : worker'[s] = worker[s] /\ worker'[r] = None
    BY <2>1, <2>2
  <2>9. \A s \in Simulations \ {r} : worker[s] # None =>
            \A j \in DOMAIN idle' : idle'[j] # worker[s]
    BY <2>3, <2>4 DEF OneRunPerWorker, InChannel
  <2>10. \A s \in Simulations : worker'[s] # None => s # r /\ worker'[s] = worker[s]
    BY <2>1, <2>2
  <2>11. \A s \in Simulations : worker'[s] # None =>
            /\ \A j \in DOMAIN idle' : idle'[j] # worker'[s]
            /\ \A i \in DOMAIN held' : held'[i] # worker'[s]
            /\ \A t \in Simulations \ {s} : worker'[t] # worker'[s]
    BY <2>2, <2>8, <2>9, <2>10 DEF OneRunPerWorker
  <2>12. /\ \A i, j \in DOMAIN held' : held'[i] = held'[j] => i = j
         /\ \A i \in DOMAIN held' : \A j \in DOMAIN idle' : idle'[j] # held'[i]
    BY <2>2, <2>7 DEF OneRunPerWorker
  <2> QED
    BY <2>6, <2>11, <2>12 DEF OneRunPerWorker, InChannel
<1>4. CASE ServeFails \/ ShutdownTimeout
  BY <1>4, FreshChannel DEF ServeFails, ShutdownTimeout, Exit, OneRunPerWorker
<1>5. CASE CloseWorker
  <2>1. idle \in Seq(Workers) /\ held \in Seq(Workers) /\ idle # <<>>
    BY <1>5 DEF CloseWorker, TypeOK
  <2>2. idle' = Tail(idle) /\ held' = Append(held, Head(idle)) /\ worker' = worker
    BY <1>5 DEF CloseWorker
  <2>3. /\ \A i \in DOMAIN idle' : i + 1 \in DOMAIN idle /\ idle'[i] = idle[i + 1]
        /\ 1 \in DOMAIN idle /\ Head(idle) = idle[1] /\ Head(idle) \in Workers
    BY <2>1, <2>2, TailFacts
  <2>4. \A i \in DOMAIN held' :
           \/ i \in DOMAIN held /\ held'[i] = held[i]
           \/ i = Len(held) + 1 /\ held'[i] = Head(idle)
    BY <2>1, <2>2, <2>3, AppendFacts
  <2>5. \A i \in DOMAIN idle' : i \in Nat /\ i + 1 # 1
    BY <2>1, <2>2
  <2>6. \A i, j \in DOMAIN idle' : idle'[i] = idle'[j] => i = j
    <3> SUFFICES ASSUME NEW i \in DOMAIN idle', NEW j \in DOMAIN idle', idle'[i] = idle'[j]
                 PROVE  i = j
      OBVIOUS
    <3>1. i + 1 = j + 1
      BY <2>3 DEF OneRunPerWorker
    <3> QED
      BY <2>5, <3>1
  <2>7. \A i \in DOMAIN idle' : idle'[i] # Head(idle)
    BY <2>3, <2>5 DEF OneRunPerWorker
  <2>8. \A i \in DOMAIN held : /\ held[i] # Head(idle)
                                /\ \A j \in DOMAIN idle' : idle'[j] # held[i]
    BY <2>2, <2>3 DEF OneRunPerWorker, InChannel
  <2>9. \A i, j \in DOMAIN held' : held'[i] = held'[j] => i = j
    BY <2>4, <2>8 DEF OneRunPerWorker
  <2>10. \A i \in DOMAIN held' : \A j \in DOMAIN idle' : idle'[j] # held'[i]
    BY <2>4, <2>7, <2>8
  <2>11. \A r \in Simulations : worker[r] # None => worker[r] # Head(idle)
    BY <2>3 DEF OneRunPerWorker, InChannel
  <2>12. \A r \in Simulations : worker[r] # None =>
            \A j \in DOMAIN idle' : idle'[j] # worker[r]
    BY <2>3 DEF OneRunPerWorker, InChannel
  <2> QED
    BY <2>2, <2>4, <2>6, <2>9, <2>10, <2>11, <2>12 DEF OneRunPerWorker, InChannel
<1>6. CASE Closed
  <2>1. /\ held' = <<>> /\ idle' = held /\ worker' = worker
    BY <1>6 DEF Closed
  <2>2. DOMAIN held' = {}
    BY <2>1
  <2> QED
    BY <2>1, <2>2 DEF OneRunPerWorker, InChannel
<1>7. CASE Restart
  <2>1. \A r \in Simulations : worker'[r] = None
    BY <1>7, CallsAssumption DEF Restart, ServerDown, HasWorker, Served, Active, TypeOK, Requests
  <2>2. held' = <<>> /\ idle' = InMemory.workers
    BY <1>7 DEF Restart, ServerDown
  <2> QED
    BY <2>1, <2>2, FreshChannel DEF OneRunPerWorker
<1> QED
  BY <1>1, <1>2, <1>3, <1>4, <1>5, <1>6, <1>7, PoolSteps

(* The pool invariant holds at the start, *)
LEMMA PoolInit == Init => PoolInv
<1> SUFFICES ASSUME Init PROVE PoolInv
  OBVIOUS
<1>1. TypeOK
  BY TypeInit
<1>2. HasWorker /\ ServerDown
  BY DEF Init, HasWorker, ServerDown, Served, InMemory, Requests
<1>3. OneRunPerWorker
  BY FreshChannel DEF Init, OneRunPerWorker
<1> QED
  BY <1>1, <1>2, <1>3 DEF PoolInv

(* and every step keeps it. *)
LEMMA PoolStep == PoolInv /\ [Next]_vars => PoolInv'
  BY TypeStep, HasWorkerStep, ServerDownStep, OneRunPerWorkerStep DEF PoolInv

(* Every variable has its type in every reachable state. *)
THEOREM TypeCorrect == Spec => []TypeOK
<1>1. PoolInv => TypeOK
  BY DEF PoolInv
<1> QED
  BY <1>1, PoolInit, PoolStep, PTL DEF Spec

(* A worker serves one run at a time and is never in two places, whatever   *)
(* the number of workers, of calls, of restarts, and whatever fails.        *)
THEOREM WorkerExclusive == Spec => []OneRunPerWorker
<1>1. PoolInv => OneRunPerWorker
  BY DEF PoolInv
<1> QED
  BY <1>1, PoolInit, PoolStep, PTL DEF Spec

-----------------------------------------------------------------------------
(***************************************************************************)
(* Theorems about the project files of SimulationService: the sources of   *)
(* the default project under its lock, and the counted copies of the test  *)
(* harness.  They hold where every spelling of the default project is      *)
(* recognised before the lock is taken, and where a project directory has  *)
(* one absolute path; the runs of TLC show what goes wrong elsewhere.      *)
(***************************************************************************)

(* lockDefaultProjectIfUsed knows every spelling of the default project. *)
LocksCover ==
    \A p \in Paths \ {NoPath} : Dir[Root[p]] = DefaultDir => p \in LockingPaths

(* No links: two absolute paths are two directories. *)
OnePathPerDir == \A root1, root2 \in Roots : Dir[root1] = Dir[root2] => root1 = root2

NeedsLock(r) == r \in Additions \/ (r \in Simulations /\ path[r] \in LockingPaths)

(* The stages of a handler from its Lock to just before its Unlock. *)
LockedStages == Served \cup {"validate", "acquire", "finish", "ensure", "init", "reset", "write"}
SourceStages == {"build", "override", "compile", "input", "fork", "test"}

(* Whoever needs the lock of the default project has it. *)
LockHeld == \A r \in Requests : pc[r] \in LockedStages /\ NeedsLock(r) => mutex = r

LockInv == TypeOK /\ LockHeld /\ StableSources

(* The calls are of three different kinds. *)
LEMMA CallKinds ==
    /\ Simulations \subseteq Requests /\ Replays \subseteq Requests
    /\ Additions \subseteq Requests
    /\ Simulations \cap Replays = {} /\ Simulations \cap Additions = {}
    /\ Replays \cap Additions = {}
    /\ None \notin Requests
  BY CallsAssumption DEF Requests

(* A step that only moves a handler on, inside or out of what the lock      *)
(* covers, keeps the lock invariant.                                        *)
LEMMA LockMove ==
  ASSUME LockInv, NEW r \in Requests, NEW from, NEW to, Go(r, from, to), TypeOK',
         UNCHANGED <<path, mutex, sources, seen>>,
         to \in LockedStages => from \in LockedStages \/ r \in Replays,
         to \in SourceStages => from \in SourceStages \/ r \notin Simulations
  PROVE  LockInv'
<1>1. pc' = [pc EXCEPT ![r] = to] /\ pc[r] = from
  BY DEF Go
<1>2. LockHeld'
  BY <1>1, CallKinds DEF LockInv, LockHeld, NeedsLock, TypeOK
<1>3. StableSources'
  BY <1>1, CallKinds DEF LockInv, StableSources, UsingSources, SourceStages, TypeOK,
     InDefaultProject, External, DirOf, RootOf
<1> QED
  BY <1>2, <1>3 DEF LockInv

(* Every step keeps the lock invariant. *)
LEMMA LockStep == ASSUME LocksCover PROVE LockInv /\ HasWorker /\ [Next]_vars => LockInv'
<1> SUFFICES ASSUME LockInv, HasWorker, [Next]_vars PROVE LockInv'
  OBVIOUS
<1>0. TypeOK /\ TypeOK'
  BY TypeStep DEF LockInv
<1> USE DEF callVars, recordVars, poolVars, copyVars, tempVars, projectVars
<1>1. ASSUME NEW r \in Simulations, BeginSimulation(r) PROVE LockInv'
  <2>1. /\ pc' = [pc EXCEPT ![r] = "lock"] /\ mutex' = mutex
        /\ \A s \in Simulations \ {r} : path'[s] = path[s]
        /\ UNCHANGED <<sources, seen>>
    BY <1>0, <1>1 DEF BeginSimulation, Go, TypeOK
  <2>2. LockHeld'
    BY <1>0, <2>1, CallKinds DEF LockInv, LockHeld, NeedsLock, LockedStages, Served, TypeOK
  <2>3. StableSources'
    BY <1>0, <2>1, CallKinds DEF LockInv, StableSources, UsingSources, TypeOK,
       InDefaultProject, External, DirOf, RootOf
  <2> QED
    BY <1>0, <2>2, <2>3 DEF LockInv
<1>2. ASSUME NEW r \in Simulations, LockDefaultProjectIfUsed(r) PROVE LockInv'
  <2>1. /\ pc' = [pc EXCEPT ![r] = "validate"] /\ pc[r] = "lock"
        /\ UNCHANGED <<path, sources, seen>>
        /\ \/ path[r] \in LockingPaths /\ mutex = None /\ mutex' = r
           \/ path[r] \notin LockingPaths /\ mutex' = mutex
    BY <1>2 DEF LockDefaultProjectIfUsed, Go
  <2>2. LockHeld'
    BY <1>0, <2>1, CallKinds DEF LockInv, LockHeld, NeedsLock, TypeOK
  <2>3. StableSources'
    BY <1>0, <2>1, CallKinds DEF LockInv, StableSources, UsingSources, TypeOK,
       InDefaultProject, External, DirOf, RootOf
  <2> QED
    BY <1>0, <2>2, <2>3 DEF LockInv
<1>3. ASSUME NEW r \in Simulations, ValidateRequest(r) PROVE LockInv'
  BY <1>0, <1>3, LockMove, CallKinds
     DEF ValidateRequest, FinishWith, FailWith, LockedStages, SourceStages, Served
<1>4. ASSUME NEW r \in Simulations, AcquireWorker(r) PROVE LockInv'
  BY <1>0, <1>4, LockMove, CallKinds
     DEF AcquireWorker, FinishWith, FailWith, LockedStages, SourceStages, Served
<1>5. ASSUME NEW r \in Simulations, AcquireTimeout(r) PROVE LockInv'
  BY <1>0, <1>5, LockMove, CallKinds
     DEF AcquireTimeout, FinishWith, FailWith, LockedStages, SourceStages, Served
<1>6. ASSUME NEW r \in Simulations, PrepareLocal(r) PROVE LockInv'
  <2>1. /\ pc' = [pc EXCEPT ![r] = "override"] /\ pc[r] = "prepare" /\ ~ External(r)
        /\ UNCHANGED <<path, mutex, sources, seen>>
    BY <1>6 DEF PrepareLocal, Go
  <2>2. LockHeld'
    BY <1>0, <2>1, CallKinds DEF LockInv, LockHeld, NeedsLock, LockedStages, Served, TypeOK
  <2>3. StableSources'
    BY <1>0, <2>1, CallKinds DEF LockInv, StableSources, UsingSources, TypeOK,
       InDefaultProject, External, DirOf, RootOf
  <2> QED
    BY <1>0, <2>2, <2>3 DEF LockInv
<1>7. ASSUME NEW r \in Simulations, PrepareExternal(r) PROVE LockInv'
  <2>1. /\ pc[r] = "prepare" /\ \A s \in Requests \ {r} : pc'[s] = pc[s]
        /\ seen' = [seen EXCEPT ![r] = sources]
        /\ UNCHANGED <<path, mutex, sources>>
    BY <1>0, <1>7 DEF PrepareExternal, Go, TypeOK
  <2>2. LockHeld'
    BY <1>0, <2>1, CallKinds DEF LockInv, LockHeld, NeedsLock, LockedStages, Served, TypeOK
  <2>3. StableSources'
    BY <1>0, <2>1, CallKinds DEF LockInv, StableSources, UsingSources, TypeOK,
       InDefaultProject, External, DirOf, RootOf
  <2> QED
    BY <1>0, <2>2, <2>3 DEF LockInv
<1>8. ASSUME NEW r \in Simulations, PrepareFails(r) PROVE LockInv'
  BY <1>0, <1>8, LockMove, CallKinds
     DEF PrepareFails, FinishWith, FailWith, LockedStages, SourceStages, Served
<1>9. ASSUME NEW r \in Simulations, BuildProjectSrc(r) PROVE LockInv'
  BY <1>0, <1>9, LockMove, CallKinds
     DEF BuildProjectSrc, FinishWith, FailWith, LockedStages, SourceStages, Served
<1>10. ASSUME NEW r \in Simulations, ReadStateOverride(r) PROVE LockInv'
  BY <1>0, <1>10, LockMove, CallKinds
     DEF ReadStateOverride, FinishWith, FailWith, LockedStages, SourceStages, Served
<1>11. ASSUME NEW r \in Simulations, WriteStateOverrideSource(r) PROVE LockInv'
  BY <1>0, <1>11, LockMove, CallKinds
     DEF WriteStateOverrideSource, FinishWith, FailWith, LockedStages, SourceStages, Served
<1>12. ASSUME NEW r \in Simulations, WriteStateOverrideSourceFails(r) PROVE LockInv'
  BY <1>0, <1>12, LockMove, CallKinds
     DEF WriteStateOverrideSourceFails, FinishWith, FailWith, LockedStages, SourceStages, Served
<1>13. ASSUME NEW r \in Simulations, CompileStateOverride(r) PROVE LockInv'
  BY <1>0, <1>13, LockMove, CallKinds
     DEF CompileStateOverride, FinishWith, FailWith, LockedStages, SourceStages, Served
<1>14. ASSUME NEW r \in Simulations, WriteSimulationInput(r) PROVE LockInv'
  BY <1>0, <1>14, LockMove, CallKinds
     DEF WriteSimulationInput, FinishWith, FailWith, LockedStages, SourceStages, Served
<1>15. ASSUME NEW r \in Simulations, WriteSimulationInputFails(r) PROVE LockInv'
  BY <1>0, <1>15, LockMove, CallKinds
     DEF WriteSimulationInputFails, FinishWith, FailWith, LockedStages, SourceStages, Served
<1>16. ASSUME NEW r \in Simulations, Fork(r) PROVE LockInv'
  BY <1>0, <1>16, LockMove, CallKinds
     DEF Fork, FinishWith, FailWith, LockedStages, SourceStages, Served
<1>17. ASSUME NEW r \in Simulations, ForkFails(r) PROVE LockInv'
  BY <1>0, <1>17, LockMove, CallKinds
     DEF ForkFails, FinishWith, FailWith, LockedStages, SourceStages, Served
<1>18. ASSUME NEW r \in Simulations, ForgeTest(r) PROVE LockInv'
  BY <1>0, <1>18, LockMove, CallKinds
     DEF ForgeTest, FinishWith, FailWith, LockedStages, SourceStages, Served
<1>19. ASSUME NEW r \in Simulations, Cleanup(r) PROVE LockInv'
  BY <1>0, <1>19, LockMove, CallKinds
     DEF Cleanup, FinishWith, FailWith, LockedStages, SourceStages, Served
<1>20. ASSUME NEW r \in Simulations, ReleaseWorker(r) PROVE LockInv'
  BY <1>0, <1>20, LockMove, CallKinds
     DEF ReleaseWorker, FinishWith, FailWith, LockedStages, SourceStages, Served
<1>21. ASSUME NEW r \in Simulations \cup Replays, Analyze(r) PROVE LockInv'
  BY <1>0, <1>21, LockMove, CallKinds
     DEF Analyze, FinishWith, FailWith, LockedStages, SourceStages, Served
<1>22. ASSUME NEW r \in Simulations \cup Replays, Finish(r) PROVE LockInv'
  BY <1>0, <1>22, LockMove, CallKinds
     DEF Finish, FinishWith, FailWith, LockedStages, SourceStages, Served
<1>23. ASSUME NEW r \in Simulations \cup Additions, Unlock(r) PROVE LockInv'
  <2>1. /\ pc' = [pc EXCEPT ![r] = "done"] /\ pc[r] = "unlock"
        /\ mutex' = IF mutex = r THEN None ELSE mutex
        /\ UNCHANGED <<path, sources, seen>>
    BY <1>23 DEF Unlock, Go
  <2>2. LockHeld'
    BY <1>0, <2>1, CallKinds DEF LockInv, LockHeld, NeedsLock, LockedStages, Served, TypeOK
  <2>3. StableSources'
    BY <1>0, <2>1, CallKinds DEF LockInv, StableSources, UsingSources, TypeOK,
       InDefaultProject, External, DirOf, RootOf
  <2> QED
    BY <1>0, <2>2, <2>3 DEF LockInv
<1>24. ASSUME NEW r \in Replays, BeginReplay(r) PROVE LockInv'
  BY <1>0, <1>24, LockMove, CallKinds
     DEF BeginReplay, FinishWith, FailWith, LockedStages, SourceStages, Served
<1>25. ASSUME NEW r \in Replays, CastRun(r) PROVE LockInv'
  BY <1>0, <1>25, LockMove, CallKinds
     DEF CastRun, FinishWith, FailWith, LockedStages, SourceStages, Served
<1>26. ASSUME NEW r \in Additions, BeginAddition(r) PROVE LockInv'
  BY <1>0, <1>26, LockMove, CallKinds
     DEF BeginAddition, FinishWith, FailWith, LockedStages, SourceStages, Served
<1>27. ASSUME NEW r \in Additions, LockDefaultProject(r) PROVE LockInv'
  <2>1. /\ pc' = [pc EXCEPT ![r] = "ensure"] /\ mutex = None /\ mutex' = r
        /\ UNCHANGED <<path, sources, seen>>
    BY <1>27 DEF LockDefaultProject, Go
  <2>2. LockHeld'
    BY <1>0, <2>1, CallKinds DEF LockInv, LockHeld, NeedsLock, TypeOK
  <2>3. StableSources'
    BY <1>0, <2>1, CallKinds DEF LockInv, StableSources, UsingSources, TypeOK,
       InDefaultProject, External, DirOf, RootOf
  <2> QED
    BY <1>0, <2>2, <2>3 DEF LockInv
<1>28. ASSUME NEW r \in Additions, EnsureDefaultProject(r) PROVE LockInv'
  BY <1>0, <1>28, LockMove, CallKinds
     DEF EnsureDefaultProject, FinishWith, FailWith, LockedStages, SourceStages, Served
<1>29. ASSUME NEW r \in Additions, ForgeInit(r) PROVE LockInv'
  BY <1>0, <1>29, LockMove, CallKinds
     DEF ForgeInit, FinishWith, FailWith, LockedStages, SourceStages, Served
<1>30. ASSUME NEW r \in Additions, ResetDefaultProjectDirs(r) PROVE LockInv'
  BY <1>0, <1>30, LockMove, CallKinds
     DEF ResetDefaultProjectDirs, FinishWith, FailWith, LockedStages, SourceStages, Served
<1>31. ASSUME NEW r \in Additions, WriteSource(r) PROVE LockInv'
  <2>1. /\ pc' = [pc EXCEPT ![r] = "unlock"] /\ pc[r] = "write"
        /\ UNCHANGED <<path, mutex, seen>>
    BY <1>31 DEF WriteSource, FailWith, Go
  <2>2. LockHeld'
    BY <1>0, <2>1, CallKinds DEF LockInv, LockHeld, NeedsLock, LockedStages, Served, TypeOK
  (* A run of the default project would have the lock that r has. *)
  <2>3. mutex = r
    BY <2>1, CallKinds DEF LockInv, LockHeld, NeedsLock, LockedStages
  <2>4. \A s \in Simulations : pc[s] \in SourceStages => ~ InDefaultProject(s)
    <3> SUFFICES ASSUME NEW s \in Simulations, pc[s] \in SourceStages, InDefaultProject(s)
                 PROVE  FALSE
      OBVIOUS
    <3>1. path[s] \in LockingPaths
      BY <1>0 DEF LocksCover, InDefaultProject, External, DirOf, RootOf, TypeOK
    <3>2. mutex = s
      BY <3>1, CallKinds
         DEF LockInv, LockHeld, NeedsLock, LockedStages, SourceStages, Served
    <3> QED
      BY <2>3, <3>2, CallKinds
  <2>5. StableSources'
    BY <1>0, <2>1, <2>4, CallKinds DEF StableSources, UsingSources, SourceStages, TypeOK,
       InDefaultProject, External, DirOf, RootOf
  <2> QED
    BY <1>0, <2>2, <2>5 DEF LockInv
<1>32. CASE Shutdown \/ Drained \/ CloseWorker \/ Closed \/ Restart \/ UNCHANGED vars
  <2>1. UNCHANGED <<pc, path, mutex, sources, seen>>
    BY <1>32 DEF Shutdown, Drained, CloseWorker, Closed, Restart, vars
  <2>2. LockHeld'
    BY <2>1 DEF LockInv, LockHeld, NeedsLock
  <2>3. StableSources'
    BY <2>1 DEF LockInv, StableSources, UsingSources, InDefaultProject, External, DirOf, RootOf
  <2> QED
    BY <1>0, <2>2, <2>3 DEF LockInv
<1>33. CASE ServeFails \/ ShutdownTimeout
  <2>1. /\ \A r \in Requests : pc'[r] \notin LockedStages \cup SourceStages
        /\ UNCHANGED <<path, sources, seen>>
    BY <1>0, <1>33 DEF ServeFails, ShutdownTimeout, Exit, Active, LockedStages, SourceStages, Served
  <2>2. LockHeld'
    BY <2>1 DEF LockHeld
  <2>3. StableSources'
    BY <2>1, CallKinds DEF StableSources, UsingSources, SourceStages
  <2> QED
    BY <1>0, <2>2, <2>3 DEF LockInv
<1> QED
  BY <1>1, <1>2, <1>3, <1>4, <1>5, <1>6, <1>7, <1>8, <1>9, <1>10, <1>11, <1>12, <1>13, <1>14, <1>15, <1>16, <1>17, <1>18, <1>19, <1>20, <1>21, <1>22, <1>23, <1>24, <1>25, <1>26, <1>27, <1>28, <1>29, <1>30, <1>31, <1>32, <1>33
     DEF Next, Simulate, Run, AddSourceBeforeInit, Server

(* It holds at the start. *)
LEMMA LockInit == Init => LockInv
<1> SUFFICES ASSUME Init PROVE LockInv
  OBVIOUS
<1>1. TypeOK
  BY TypeInit
<1>2. LockHeld /\ StableSources
  BY CallKinds DEF Init, LockHeld, LockedStages, Served, StableSources, UsingSources
<1> QED
  BY <1>1, <1>2 DEF LockInv

(* The sources of the default project do not change between the moment a    *)
(* run is prepared in it and the end of its forge test, for any number of   *)
(* runs and additions: defaultProjectMu separates them, provided that every *)
(* spelling of the default project takes it.                                *)
THEOREM SourcesStable ==
  ASSUME LocksCover PROVE Spec => []StableSources
<1>1. Init => PoolInv /\ LockInv
  BY PoolInit, LockInit
<1>2. PoolInv /\ LockInv /\ [Next]_vars => (PoolInv /\ LockInv)'
  BY PoolStep, LockStep DEF PoolInv
<1>3. PoolInv /\ LockInv => StableSources
  BY DEF LockInv
<1> QED
  BY <1>1, <1>2, <1>3, PTL DEF Spec

(* A copy belongs to the run that has its release among its cleanup         *)
(* functions: an external run, with a worker, that has not cleaned up.      *)
CopyStages == SourceStages \cup {"analyze", "finish", "cleanup"}

CleanupOwner ==
    \A r \in Simulations : cleanupFuncs[r] # None =>
        /\ External(r) /\ cleanupFuncs[r] = RootOf(r)
        /\ pc[r] \in CopyStages /\ worker[r] # None

CountInv == TypeOK /\ CleanupOwner /\ CountIsUsers
CopyInv == CountInv /\ CopyStaysWhileUsed

(* The users of a copy are finitely many, so their number is 0 only when    *)
(* there is none.                                                           *)
LEMMA UsersFinite ==
  ASSUME NEW root
  PROVE  /\ IsFiniteSet(Users(root))
         /\ Cardinality(Users(root)) \in Nat
         /\ Cardinality(Users(root)) = 0 <=> Users(root) = {}
<1>1. IsFiniteSet(Users(root))
  BY CallsAssumption, FS_Subset DEF Users
<1> QED
  BY <1>1, FS_CardinalityType, FS_EmptySet

(* Paths and directories of the runs that have a copy. *)
LEMMA OwnerPaths ==
  ASSUME TypeOK, CleanupOwner, NEW r \in Simulations, cleanupFuncs[r] # None
  PROVE  /\ path[r] \in Paths \ {NoPath} /\ cleanupFuncs[r] \in Roots
         /\ cleanupFuncs[r] = Root[path[r]] /\ Dir[cleanupFuncs[r]] \in Dirs
<1>1. path[r] \in Paths \ {NoPath} /\ cleanupFuncs[r] = Root[path[r]]
  BY DEF CleanupOwner, External, RootOf, TypeOK
<1>2. Root[path[r]] \in Roots
  BY <1>1, PathAssumption
<1> QED
  BY <1>1, <1>2, PathAssumption

(* An external run's path leads to a root and a directory. *)
LEMMA ExternalPaths ==
  ASSUME TypeOK, NEW r \in Simulations, External(r)
  PROVE  RootOf(r) \in Roots /\ DirOf(r) \in Dirs /\ RootOf(r) # None
  BY PathAssumption DEF TypeOK, External, RootOf, DirOf

(* A step that leaves copies, paths and workers alone keeps the owners and  *)
(* the counts, as long as no run leaves its copy behind.                    *)
LEMMA CountMove ==
  ASSUME CountInv, NEW r \in Requests, NEW from, NEW to, Go(r, from, to), TypeOK',
         UNCHANGED <<path, worker, testCopies, cleanupFuncs>>,
         r \in Simulations /\ from \in CopyStages => to \in CopyStages
  PROVE  CountInv'
<1>1. pc' = [pc EXCEPT ![r] = to] /\ pc[r] = from
  BY DEF Go
<1>2. CleanupOwner'
  BY <1>1, CallKinds DEF CountInv, CleanupOwner, External, RootOf, TypeOK
<1>3. CountIsUsers'
  BY DEF CountInv, CountIsUsers, Users
<1> QED
  BY <1>2, <1>3 DEF CountInv

(* What the preparation of an external run does: it adds a user and finds   *)
(* or writes its copy.                                                      *)
LEMMA PreparedFacts ==
  ASSUME CountInv, HasWorker, NEW r \in Simulations, PrepareExternal(r)
  PROVE  \E root \in Roots, to \in {"build", "override"} :
            /\ root = RootOf(r) /\ root # None /\ Dir[root] = DirOf(r) /\ DirOf(r) \in Dirs
            /\ External(r) /\ pc[r] = "prepare" /\ pc' = [pc EXCEPT ![r] = to]
            /\ testCopies' = [testCopies EXCEPT ![root] = @ + 1]
            /\ cleanupFuncs[r] = None /\ worker[r] # None
            /\ cleanupFuncs' = [cleanupFuncs EXCEPT ![r] = root]
            /\ copyOnDisk' = IF testCopies[root] = 0
                             THEN [copyOnDisk EXCEPT ![Dir[root]] = "whole"]
                             ELSE copyOnDisk
            /\ UNCHANGED <<path, worker>>
<1>1. External(r) /\ RootOf(r) \in Roots /\ RootOf(r) # None /\ DirOf(r) \in Dirs
  BY ExternalPaths DEF PrepareExternal, CountInv
<1>2. PICK to \in {"build", "override"} : Go(r, "prepare", to)
  BY DEF PrepareExternal
<1>3. pc[r] = "prepare" /\ pc' = [pc EXCEPT ![r] = to]
  BY <1>2 DEF Go
<1>4. cleanupFuncs[r] = None
  BY <1>3 DEF CountInv, CleanupOwner, CopyStages, SourceStages
<1>5. worker[r] # None
  BY <1>3 DEF HasWorker, Served
<1> QED
  BY <1>1, <1>3, <1>4, <1>5 DEF PrepareExternal, RetainTestCopy, poolVars, DirOf

(* The new user is counted. *)
LEMMA CountPrepared ==
  ASSUME CountInv, NEW r \in Simulations, PrepareExternal(r), TypeOK', HasWorker
  PROVE  CountInv'
<1>0. TypeOK /\ CleanupOwner /\ CountIsUsers
  BY DEF CountInv
<1>1. PICK root \in Roots, to \in {"build", "override"} :
            /\ root = RootOf(r) /\ root # None
            /\ External(r) /\ pc[r] = "prepare" /\ pc' = [pc EXCEPT ![r] = to]
            /\ testCopies' = [testCopies EXCEPT ![root] = @ + 1]
            /\ cleanupFuncs[r] = None /\ worker[r] # None
            /\ cleanupFuncs' = [cleanupFuncs EXCEPT ![r] = root]
            /\ UNCHANGED <<path, worker>>
  BY PreparedFacts
<1>2. CleanupOwner'
  <2>1. pc'[r] \in CopyStages /\ cleanupFuncs'[r] = root
    BY <1>0, <1>1, CallKinds DEF TypeOK, CopyStages, SourceStages
  <2>2. External(r)' /\ RootOf(r)' = root
    BY <1>1 DEF External, RootOf
  <2>3. \A s \in Simulations \ {r} : pc'[s] = pc[s] /\ cleanupFuncs'[s] = cleanupFuncs[s]
    BY <1>0, <1>1, CallKinds DEF TypeOK
  <2> QED
    BY <1>0, <1>1, <2>1, <2>2, <2>3 DEF CleanupOwner, External, RootOf
<1>3. CountIsUsers'
  <2>1. Users(root)' = Users(root) \cup {r} /\ r \notin Users(root)
    BY <1>0, <1>1 DEF Users, TypeOK
  <2>2. Cardinality(Users(root)') = Cardinality(Users(root)) + 1
    BY <2>1, UsersFinite, FS_AddElement
  <2>3. \A other \in Roots \ {root} : Users(other)' = Users(other)
    BY <1>0, <1>1, PathAssumption DEF Users, TypeOK
  <2>4. testCopies'[root] = testCopies[root] + 1
    BY <1>0, <1>1 DEF TypeOK
  <2>5. \A other \in Roots \ {root} : testCopies'[other] = testCopies[other]
    BY <1>0, <1>1 DEF TypeOK
  <2>6. \A other \in Roots : testCopies'[other] = Cardinality(Users(other)')
    BY <1>0, <2>2, <2>3, <2>4, <2>5 DEF CountIsUsers
  <2> QED
    BY <2>6 DEF CountIsUsers
<1> QED
  BY <1>2, <1>3 DEF CountInv

(* It has a whole copy, and the others keep theirs. *)
LEMMA CopyPrepared ==
  ASSUME CopyInv, NEW r \in Simulations, PrepareExternal(r), HasWorker
  PROVE  CopyStaysWhileUsed'
<1>0. TypeOK /\ CountInv /\ CleanupOwner /\ CountIsUsers /\ CopyStaysWhileUsed
  BY DEF CopyInv, CountInv
<1>1. PICK root \in Roots :
            /\ Dir[root] \in Dirs
            /\ cleanupFuncs' = [cleanupFuncs EXCEPT ![r] = root]
            /\ copyOnDisk' = IF testCopies[root] = 0
                             THEN [copyOnDisk EXCEPT ![Dir[root]] = "whole"]
                             ELSE copyOnDisk
  BY <1>0, PreparedFacts
<1>2. root # None
  BY PathAssumption
<1>3. copyOnDisk'[Dir[root]] = "whole"
  <2>1. CASE testCopies[root] = 0
    BY <1>0, <1>1, <2>1 DEF TypeOK
  <2>2. CASE testCopies[root] # 0
    <3>1. Users(root) # {}
      BY <1>0, <2>2, UsersFinite DEF CountIsUsers
    <3>2. PICK s \in Simulations : cleanupFuncs[s] = root
      BY <3>1 DEF Users
    <3> QED
      BY <1>0, <1>1, <1>2, <2>2, <3>2 DEF CopyStaysWhileUsed
  <2> QED
    BY <2>1, <2>2
<1>4. \A d \in Dirs : copyOnDisk[d] = "whole" => copyOnDisk'[d] = "whole"
  BY <1>0, <1>1 DEF TypeOK
<1>5. /\ \A s \in Simulations \ {r} : cleanupFuncs'[s] = cleanupFuncs[s]
      /\ cleanupFuncs'[r] = root
  BY <1>0, <1>1 DEF TypeOK
<1>6. \A s \in Simulations : cleanupFuncs'[s] # None =>
          copyOnDisk'[Dir[cleanupFuncs'[s]]] = "whole"
  <2> SUFFICES ASSUME NEW s \in Simulations \ {r}, cleanupFuncs[s] # None
               PROVE  copyOnDisk'[Dir[cleanupFuncs[s]]] = "whole"
    BY <1>3, <1>5
  <2>1. Dir[cleanupFuncs[s]] \in Dirs
    BY <1>0, OwnerPaths
  <2> QED
    BY <1>0, <1>4, <2>1 DEF CopyStaysWhileUsed
<1> QED
  BY <1>6 DEF CopyStaysWhileUsed

(* A copy that is spoiled or removed while nobody uses it disturbs nobody. *)
LEMMA CopySpoiled ==
  ASSUME OnePathPerDir, CopyInv, NEW root \in Roots, Users(root) = {},
         \A d \in Dirs \ {Dir[root]} : copyOnDisk'[d] = copyOnDisk[d],
         UNCHANGED cleanupFuncs
  PROVE  CopyStaysWhileUsed'
<1>0. TypeOK /\ CleanupOwner /\ CopyStaysWhileUsed
  BY DEF CopyInv, CountInv
<1>1. SUFFICES ASSUME NEW s \in Simulations, cleanupFuncs[s] # None
               PROVE  copyOnDisk'[Dir[cleanupFuncs[s]]] = "whole"
  BY DEF CopyStaysWhileUsed
<1>2. cleanupFuncs[s] \in Roots /\ Dir[cleanupFuncs[s]] \in Dirs
  BY <1>0, <1>1, OwnerPaths
<1>3. cleanupFuncs[s] # root
  BY DEF Users
<1>4. Dir[cleanupFuncs[s]] # Dir[root]
  BY <1>2, <1>3 DEF OnePathPerDir
<1> QED
  BY <1>0, <1>1, <1>2, <1>4 DEF CopyStaysWhileUsed

(* A write of the copy that stops halfway happens with no user only. *)
LEMMA CopyTorn ==
  ASSUME OnePathPerDir, CopyInv, NEW r \in Simulations, PrepareFails(r)
  PROVE  CopyStaysWhileUsed'
<1>0. TypeOK /\ CleanupOwner /\ CountIsUsers /\ CopyStaysWhileUsed
  BY DEF CopyInv, CountInv
<1>1. /\ UNCHANGED cleanupFuncs
      /\ \/ UNCHANGED copyOnDisk
         \/ /\ External(r) /\ testCopies[RootOf(r)] = 0
            /\ copyOnDisk' = [copyOnDisk EXCEPT ![DirOf(r)] = "torn"]
  BY DEF PrepareFails
<1>2. CASE UNCHANGED copyOnDisk
  BY <1>0, <1>1, <1>2 DEF CopyStaysWhileUsed
<1>3. ASSUME External(r), testCopies[RootOf(r)] = 0,
             copyOnDisk' = [copyOnDisk EXCEPT ![DirOf(r)] = "torn"]
      PROVE  CopyStaysWhileUsed'
  <2>1. RootOf(r) \in Roots /\ DirOf(r) = Dir[RootOf(r)]
    BY <1>0, <1>3, ExternalPaths DEF DirOf
  <2>2. Users(RootOf(r)) = {}
    BY <1>0, <1>3, <2>1, UsersFinite DEF CountIsUsers
  <2>3. \A d \in Dirs \ {Dir[RootOf(r)]} : copyOnDisk'[d] = copyOnDisk[d]
    BY <1>0, <1>3, <2>1 DEF TypeOK
  <2> QED
    BY <1>1, <2>1, <2>2, <2>3, CopySpoiled
<1> QED
  BY <1>1, <1>2, <1>3

(* What the cleanup of a run that has a copy does: the count goes down by   *)
(* one, and the copy goes with the last user.                               *)
LEMMA ReleasedFacts ==
  ASSUME CountInv, NEW r \in Simulations, Cleanup(r), NEW root, root = cleanupFuncs[r],
         root # None
  PROVE  /\ root \in Roots /\ Dir[root] \in Dirs
         /\ Users(root)' = Users(root) \ {r}
         /\ Cardinality(Users(root)') = testCopies[root] - 1
         /\ testCopies[root] \in Nat \ {0}
         /\ testCopies' = [testCopies EXCEPT ![root] = @ - 1]
         /\ copyOnDisk' = IF testCopies[root] = 1
                          THEN [copyOnDisk EXCEPT ![Dir[root]] = "absent"]
                          ELSE copyOnDisk
<1>0. TypeOK /\ CleanupOwner /\ CountIsUsers
  BY DEF CountInv
<1>1. ReleaseTestCopy(root) /\ cleanupFuncs' = [cleanupFuncs EXCEPT ![r] = None]
  BY DEF Cleanup
<1>2. root \in Roots /\ Dir[root] \in Dirs
  BY <1>0, OwnerPaths
<1>3. testCopies[root] = Cardinality(Users(root)) /\ testCopies[root] \in Nat
  BY <1>0, <1>2 DEF CountIsUsers, TypeOK
<1>4. r \in Users(root) /\ testCopies[root] # 0
  BY <1>3, UsersFinite DEF Users
<1>5. Users(root)' = Users(root) \ {r}
  BY <1>0, <1>1 DEF Users, TypeOK
<1>6. Cardinality(Users(root)') = testCopies[root] - 1
  BY <1>3, <1>4, <1>5, UsersFinite, FS_RemoveElement
<1>7. /\ testCopies' = [testCopies EXCEPT ![root] = @ - 1]
      /\ copyOnDisk' = IF testCopies[root] = 1
                       THEN [copyOnDisk EXCEPT ![Dir[root]] = "absent"]
                       ELSE copyOnDisk
  <2>1. CASE testCopies[root] = 1
    BY <1>1, <2>1 DEF ReleaseTestCopy
  <2>2. CASE testCopies[root] # 1
    <3>1. ~ (testCopies[root] <= 1)
      BY <1>3, <1>4, <2>2
    <3> QED
      BY <1>1, <2>2, <3>1 DEF ReleaseTestCopy
  <2> QED
    BY <2>1, <2>2
<1> QED
  BY <1>2, <1>3, <1>4, <1>5, <1>6, <1>7

(* The count stays exact, *)
LEMMA CountReleased ==
  ASSUME CountInv, NEW r \in Simulations, Cleanup(r), TypeOK'
  PROVE  CountInv'
<1>0. TypeOK /\ CleanupOwner /\ CountIsUsers
  BY DEF CountInv
<1>a. PICK root : root = cleanupFuncs[r]
  OBVIOUS
<1>1. /\ pc[r] = "cleanup" /\ pc' = [pc EXCEPT ![r] = "release"]
      /\ cleanupFuncs' = [cleanupFuncs EXCEPT ![r] = None]
      /\ UNCHANGED <<path, worker>>
      /\ root = None => UNCHANGED testCopies
  BY <1>a DEF Cleanup, Go, poolVars
<1>2. \A s \in Simulations \ {r} : pc'[s] = pc[s] /\ cleanupFuncs'[s] = cleanupFuncs[s]
  BY <1>0, <1>1, CallKinds DEF TypeOK
<1>3. cleanupFuncs'[r] = None
  BY <1>0, <1>1 DEF TypeOK
<1>4. CleanupOwner'
  BY <1>0, <1>1, <1>2, <1>3 DEF CleanupOwner, External, RootOf
<1>5. CASE root = None
  <2>1. cleanupFuncs' = cleanupFuncs
    BY <1>0, <1>1, <1>5, <1>a DEF TypeOK
  <2>2. CountIsUsers'
    BY <1>0, <1>1, <1>5, <2>1 DEF CountIsUsers, Users
  <2> QED
    BY <1>4, <2>2 DEF CountInv
<1>6. CASE root # None
  <2>1. /\ root \in Roots /\ Cardinality(Users(root)') = testCopies[root] - 1
        /\ testCopies' = [testCopies EXCEPT ![root] = @ - 1]
    BY <1>6, <1>a, ReleasedFacts
  <2>2. \A other \in Roots \ {root} : Users(other)' = Users(other)
    BY <1>2, <1>3, <1>a, PathAssumption DEF Users
  <2>3. testCopies \in [Roots -> Nat]
    BY <1>0 DEF TypeOK
  <2>4. \A other \in Roots : testCopies'[other] = Cardinality(Users(other)')
    BY <1>0, <2>1, <2>2, <2>3 DEF CountIsUsers
  <2> QED
    BY <1>4, <2>4 DEF CountInv, CountIsUsers
<1> QED
  BY <1>5, <1>6

(* and a copy somebody still uses is not removed. *)
LEMMA CopyReleased ==
  ASSUME OnePathPerDir, CopyInv, NEW r \in Simulations, Cleanup(r)
  PROVE  CopyStaysWhileUsed'
<1>0. TypeOK /\ CountInv /\ CleanupOwner /\ CopyStaysWhileUsed
  BY DEF CopyInv, CountInv
<1>a. PICK root : root = cleanupFuncs[r]
  OBVIOUS
<1>1. /\ cleanupFuncs' = [cleanupFuncs EXCEPT ![r] = None]
      /\ root = None => UNCHANGED copyOnDisk
  BY <1>a DEF Cleanup
<1>2. SUFFICES ASSUME NEW s \in Simulations, s # r, cleanupFuncs[s] # None
               PROVE  copyOnDisk'[Dir[cleanupFuncs[s]]] = "whole"
  BY <1>0, <1>1 DEF CopyStaysWhileUsed, TypeOK
<1>3. /\ cleanupFuncs[s] \in Roots /\ Dir[cleanupFuncs[s]] \in Dirs
      /\ copyOnDisk[Dir[cleanupFuncs[s]]] = "whole"
  BY <1>0, <1>2, OwnerPaths DEF CopyStaysWhileUsed
<1>4. CASE root = None
  BY <1>1, <1>3, <1>4
<1>5. CASE root # None
  <2>1. /\ root \in Roots
        /\ Users(root)' = Users(root) \ {r}
        /\ Cardinality(Users(root)') = testCopies[root] - 1
        /\ testCopies[root] \in Nat \ {0}
        /\ copyOnDisk' = IF testCopies[root] = 1
                         THEN [copyOnDisk EXCEPT ![Dir[root]] = "absent"]
                         ELSE copyOnDisk
    BY <1>0, <1>5, <1>a, ReleasedFacts
  <2>2. CASE cleanupFuncs[s] = root
    <3>1. s \in Users(root)'
      BY <1>2, <2>1, <2>2 DEF Users
    <3>2. Cardinality(Users(root)') # 0
      BY <2>1, <3>1, UsersFinite, FS_RemoveElement, FS_EmptySet
    <3> QED
      BY <1>3, <2>1, <3>2
  <2>3. CASE cleanupFuncs[s] # root
    <3>1. Dir[cleanupFuncs[s]] # Dir[root]
      BY <1>3, <2>1, <2>3 DEF OnePathPerDir
    <3> QED
      BY <1>0, <1>3, <2>1, <3>1 DEF TypeOK
  <2> QED
    BY <2>2, <2>3
<1> QED
  BY <1>4, <1>5

(* The reset of the default project's test directory finds no copy in use:  *)
(* its owner would have the lock that the addition holds.                   *)
LEMMA CopyReset ==
  ASSUME LocksCover, CopyInv, LockHeld, NEW r \in Additions,
         ResetDefaultProjectDirs(r)
  PROVE  CopyStaysWhileUsed'
<1>0. TypeOK /\ CleanupOwner /\ CopyStaysWhileUsed
  BY DEF CopyInv, CountInv
<1>1. /\ pc[r] = "reset"
      /\ UNCHANGED cleanupFuncs
      /\ \/ UNCHANGED copyOnDisk
         \/ copyOnDisk' = [copyOnDisk EXCEPT ![DefaultDir] = "absent"]
  BY DEF ResetDefaultProjectDirs, TestDirRemoved, FailWith, Go
<1>2. mutex = r
  BY <1>1, CallKinds DEF LockHeld, NeedsLock, LockedStages
<1>3. \A s \in Simulations : cleanupFuncs[s] # None => Dir[cleanupFuncs[s]] # DefaultDir
  <2> SUFFICES ASSUME NEW s \in Simulations, cleanupFuncs[s] # None,
                      Dir[cleanupFuncs[s]] = DefaultDir
               PROVE  FALSE
    OBVIOUS
  <2>1. path[s] \in LockingPaths
    BY <1>0, OwnerPaths DEF LocksCover
  <2>2. pc[s] \in LockedStages
    BY <1>0 DEF CleanupOwner, CopyStages, SourceStages, LockedStages, Served
  <2> QED
    BY <1>2, <2>1, <2>2, CallKinds DEF LockHeld, NeedsLock
<1>4. SUFFICES ASSUME NEW s \in Simulations, cleanupFuncs[s] # None
               PROVE  copyOnDisk'[Dir[cleanupFuncs[s]]] = "whole"
  BY <1>1 DEF CopyStaysWhileUsed
<1>5. Dir[cleanupFuncs[s]] \in Dirs /\ copyOnDisk[Dir[cleanupFuncs[s]]] = "whole"
  BY <1>0, <1>4, OwnerPaths DEF CopyStaysWhileUsed
<1> QED
  BY <1>0, <1>1, <1>3, <1>4, <1>5 DEF TypeOK

(* The steps that touch copies or the list of their users. *)
LEMMA CopySteps ==
  [Next]_vars =>
    \/ UNCHANGED copyVars
    \/ \E r \in Simulations : PrepareExternal(r) \/ PrepareFails(r) \/ Cleanup(r)
    \/ \E r \in Additions : ResetDefaultProjectDirs(r)
    \/ ServeFails \/ ShutdownTimeout
  BY DEF Next, Simulate, Run, AddSourceBeforeInit, Server, vars, Shutdown, Drained,
         CloseWorker, Closed, Restart,
         BeginSimulation, LockDefaultProjectIfUsed, ValidateRequest, AcquireWorker,
         AcquireTimeout, PrepareLocal, BuildProjectSrc,
         ReadStateOverride, WriteStateOverrideSource, WriteStateOverrideSourceFails,
         CompileStateOverride, WriteSimulationInput, WriteSimulationInputFails, Fork,
         ForkFails, ForgeTest, ReleaseWorker, Analyze, Finish, Unlock, BeginReplay, CastRun,
         BeginAddition, LockDefaultProject, EnsureDefaultProject, ForgeInit, WriteSource

(* Every step keeps owners and counts, *)
LEMMA CountStep == CountInv /\ HasWorker /\ [Next]_vars => CountInv'
<1> SUFFICES ASSUME CountInv, HasWorker, [Next]_vars PROVE CountInv'
  OBVIOUS
<1>0. TypeOK /\ TypeOK'
  BY TypeStep DEF CountInv
<1> USE DEF callVars, recordVars, poolVars, copyVars, tempVars, projectVars
<1>1. ASSUME NEW r \in Simulations, BeginSimulation(r) PROVE CountInv'
  <2>1. /\ pc[r] = "new" /\ pc' = [pc EXCEPT ![r] = "lock"] /\ UNCHANGED <<worker, copyVars>>
        /\ \A s \in Simulations \ {r} : path'[s] = path[s]
    BY <1>0, <1>1 DEF BeginSimulation, Go, TypeOK
  <2>2. CleanupOwner'
    BY <1>0, <2>1, CallKinds
       DEF CountInv, CleanupOwner, External, RootOf, CopyStages, SourceStages, TypeOK
  <2>3. CountIsUsers'
    BY <2>1 DEF CountInv, CountIsUsers, Users
  <2> QED
    BY <1>0, <2>2, <2>3 DEF CountInv
<1>2. ASSUME NEW r \in Simulations, LockDefaultProjectIfUsed(r) PROVE CountInv'
  BY <1>0, <1>2, CountMove, CallKinds
     DEF LockDefaultProjectIfUsed, FinishWith, FailWith, CopyStages, SourceStages
<1>3. ASSUME NEW r \in Simulations, ValidateRequest(r) PROVE CountInv'
  BY <1>0, <1>3, CountMove, CallKinds
     DEF ValidateRequest, FinishWith, FailWith, CopyStages, SourceStages
<1>4. ASSUME NEW r \in Simulations, AcquireWorker(r) PROVE CountInv'
  <2>1. /\ pc[r] = "acquire" /\ pc' = [pc EXCEPT ![r] = "prepare"] /\ UNCHANGED <<path, copyVars>>
        /\ \A s \in Simulations \ {r} : worker'[s] = worker[s]
    BY <1>0, <1>4 DEF AcquireWorker, Go, TypeOK
  <2>2. CleanupOwner'
    BY <1>0, <2>1, CallKinds
       DEF CountInv, CleanupOwner, External, RootOf, CopyStages, SourceStages, TypeOK
  <2>3. CountIsUsers'
    BY <2>1 DEF CountInv, CountIsUsers, Users
  <2> QED
    BY <1>0, <2>2, <2>3 DEF CountInv
<1>5. ASSUME NEW r \in Simulations, AcquireTimeout(r) PROVE CountInv'
  BY <1>0, <1>5, CountMove, CallKinds
     DEF AcquireTimeout, FinishWith, FailWith, CopyStages, SourceStages
<1>6. ASSUME NEW r \in Simulations, PrepareLocal(r) PROVE CountInv'
  BY <1>0, <1>6, CountMove, CallKinds
     DEF PrepareLocal, FinishWith, FailWith, CopyStages, SourceStages
<1>7. ASSUME NEW r \in Simulations, PrepareExternal(r) PROVE CountInv'
  BY <1>0, <1>7, CountPrepared
<1>8. ASSUME NEW r \in Simulations, PrepareFails(r) PROVE CountInv'
  <2>1. /\ pc[r] = "prepare" /\ pc' = [pc EXCEPT ![r] = "finish"]
        /\ UNCHANGED <<path, worker, testCopies, cleanupFuncs>>
    BY <1>8 DEF PrepareFails, FinishWith, Go
  <2> QED
    BY <1>0, <1>8, CountMove, CallKinds DEF PrepareFails, FinishWith, CopyStages, SourceStages
<1>9. ASSUME NEW r \in Simulations, BuildProjectSrc(r) PROVE CountInv'
  BY <1>0, <1>9, CountMove, CallKinds
     DEF BuildProjectSrc, FinishWith, FailWith, CopyStages, SourceStages
<1>10. ASSUME NEW r \in Simulations, ReadStateOverride(r) PROVE CountInv'
  BY <1>0, <1>10, CountMove, CallKinds
     DEF ReadStateOverride, FinishWith, FailWith, CopyStages, SourceStages
<1>11. ASSUME NEW r \in Simulations, WriteStateOverrideSource(r) PROVE CountInv'
  BY <1>0, <1>11, CountMove, CallKinds
     DEF WriteStateOverrideSource, FinishWith, FailWith, CopyStages, SourceStages
<1>12. ASSUME NEW r \in Simulations, WriteStateOverrideSourceFails(r) PROVE CountInv'
  BY <1>0, <1>12, CountMove, CallKinds
     DEF WriteStateOverrideSourceFails, FinishWith, FailWith, CopyStages, SourceStages
<1>13. ASSUME NEW r \in Simulations, CompileStateOverride(r) PROVE CountInv'
  BY <1>0, <1>13, CountMove, CallKinds
     DEF CompileStateOverride, FinishWith, FailWith, CopyStages, SourceStages
<1>14. ASSUME NEW r \in Simulations, WriteSimulationInput(r) PROVE CountInv'
  BY <1>0, <1>14, CountMove, CallKinds
     DEF WriteSimulationInput, FinishWith, FailWith, CopyStages, SourceStages
<1>15. ASSUME NEW r \in Simulations, WriteSimulationInputFails(r) PROVE CountInv'
  BY <1>0, <1>15, CountMove, CallKinds
     DEF WriteSimulationInputFails, FinishWith, FailWith, CopyStages, SourceStages
<1>16. ASSUME NEW r \in Simulations, Fork(r) PROVE CountInv'
  BY <1>0, <1>16, CountMove, CallKinds
     DEF Fork, FinishWith, FailWith, CopyStages, SourceStages
<1>17. ASSUME NEW r \in Simulations, ForkFails(r) PROVE CountInv'
  BY <1>0, <1>17, CountMove, CallKinds
     DEF ForkFails, FinishWith, FailWith, CopyStages, SourceStages
<1>18. ASSUME NEW r \in Simulations, ForgeTest(r) PROVE CountInv'
  BY <1>0, <1>18, CountMove, CallKinds
     DEF ForgeTest, FinishWith, FailWith, CopyStages, SourceStages
<1>19. ASSUME NEW r \in Simulations, Cleanup(r) PROVE CountInv'
  BY <1>0, <1>19, CountReleased
<1>20. ASSUME NEW r \in Simulations, ReleaseWorker(r) PROVE CountInv'
  <2>1. /\ pc[r] = "release" /\ pc' = [pc EXCEPT ![r] = "unlock"] /\ UNCHANGED <<path, copyVars>>
        /\ \A s \in Simulations \ {r} : worker'[s] = worker[s]
    BY <1>0, <1>20 DEF ReleaseWorker, Go, TypeOK
  <2>2. CleanupOwner'
    BY <1>0, <2>1, CallKinds
       DEF CountInv, CleanupOwner, External, RootOf, CopyStages, SourceStages, TypeOK
  <2>3. CountIsUsers'
    BY <2>1 DEF CountInv, CountIsUsers, Users
  <2> QED
    BY <1>0, <2>2, <2>3 DEF CountInv
<1>21. ASSUME NEW r \in Simulations \cup Replays, Analyze(r) PROVE CountInv'
  BY <1>0, <1>21, CountMove, CallKinds
     DEF Analyze, FinishWith, FailWith, CopyStages, SourceStages
<1>22. ASSUME NEW r \in Simulations \cup Replays, Finish(r) PROVE CountInv'
  <2>1. /\ pc[r] = "finish" /\ UNCHANGED <<path, worker, copyVars>>
        /\ \A s \in Simulations \ {r} : pc'[s] = pc[s]
        /\ r \in Simulations /\ worker[r] # None => pc'[r] = "cleanup"
    BY <1>0, <1>22, CallKinds DEF Finish, Go, TypeOK
  <2>2. CleanupOwner'
    BY <1>0, <2>1, CallKinds
       DEF CountInv, CleanupOwner, External, RootOf, CopyStages, SourceStages, TypeOK
  <2>3. CountIsUsers'
    BY <2>1 DEF CountInv, CountIsUsers, Users
  <2> QED
    BY <1>0, <2>2, <2>3 DEF CountInv
<1>23. ASSUME NEW r \in Simulations \cup Additions, Unlock(r) PROVE CountInv'
  BY <1>0, <1>23, CountMove, CallKinds
     DEF Unlock, FinishWith, FailWith, CopyStages, SourceStages
<1>24. ASSUME NEW r \in Replays, BeginReplay(r) PROVE CountInv'
  BY <1>0, <1>24, CountMove, CallKinds
     DEF BeginReplay, FinishWith, FailWith, CopyStages, SourceStages
<1>25. ASSUME NEW r \in Replays, CastRun(r) PROVE CountInv'
  BY <1>0, <1>25, CountMove, CallKinds
     DEF CastRun, FinishWith, FailWith, CopyStages, SourceStages
<1>26. ASSUME NEW r \in Additions, BeginAddition(r) PROVE CountInv'
  BY <1>0, <1>26, CountMove, CallKinds
     DEF BeginAddition, FinishWith, FailWith, CopyStages, SourceStages
<1>27. ASSUME NEW r \in Additions, LockDefaultProject(r) PROVE CountInv'
  BY <1>0, <1>27, CountMove, CallKinds
     DEF LockDefaultProject, FinishWith, FailWith, CopyStages, SourceStages
<1>28. ASSUME NEW r \in Additions, EnsureDefaultProject(r) PROVE CountInv'
  BY <1>0, <1>28, CountMove, CallKinds
     DEF EnsureDefaultProject, FinishWith, FailWith, CopyStages, SourceStages
<1>29. ASSUME NEW r \in Additions, ForgeInit(r) PROVE CountInv'
  BY <1>0, <1>29, CountMove, CallKinds
     DEF ForgeInit, FinishWith, FailWith, CopyStages, SourceStages
<1>30. ASSUME NEW r \in Additions, ResetDefaultProjectDirs(r) PROVE CountInv'
  <2>1. /\ pc[r] = "reset" /\ UNCHANGED <<path, worker, testCopies, cleanupFuncs>>
        /\ \A s \in Simulations : pc'[s] = pc[s]
    BY <1>0, <1>30, CallKinds DEF ResetDefaultProjectDirs, FailWith, Go, TypeOK
  <2>2. CleanupOwner' /\ CountIsUsers'
    BY <2>1 DEF CountInv, CleanupOwner, External, RootOf, CountIsUsers, Users
  <2> QED
    BY <1>0, <2>2 DEF CountInv
<1>31. ASSUME NEW r \in Additions, WriteSource(r) PROVE CountInv'
  BY <1>0, <1>31, CountMove, CallKinds
     DEF WriteSource, FinishWith, FailWith, CopyStages, SourceStages
<1>32. CASE Shutdown \/ Drained \/ CloseWorker \/ Closed \/ Restart \/ UNCHANGED vars
  <2>1. UNCHANGED <<pc, path, worker, copyVars>>
    BY <1>32 DEF Shutdown, Drained, CloseWorker, Closed, Restart, vars
  <2>2. CleanupOwner' /\ CountIsUsers'
    BY <2>1 DEF CountInv, CleanupOwner, External, RootOf, CountIsUsers, Users
  <2> QED
    BY <1>0, <2>2 DEF CountInv
<1>33. CASE ServeFails \/ ShutdownTimeout
  <2>1. /\ \A r \in Simulations : cleanupFuncs'[r] = None
        /\ \A root \in Roots : testCopies'[root] = 0
    BY <1>33 DEF ServeFails, ShutdownTimeout, Exit, InMemory
  <2>2. CleanupOwner'
    BY <2>1 DEF CleanupOwner
  <2>3. \A root \in Roots : Users(root)' = {}
    BY <2>1, PathAssumption DEF Users
  <2>4. CountIsUsers'
    BY <2>1, <2>3, FS_EmptySet DEF CountIsUsers
  <2> QED
    BY <1>0, <2>2, <2>4 DEF CountInv
<1> QED
  BY <1>1, <1>2, <1>3, <1>4, <1>5, <1>6, <1>7, <1>8, <1>9, <1>10, <1>11, <1>12, <1>13, <1>14, <1>15, <1>16, <1>17, <1>18, <1>19, <1>20, <1>21, <1>22, <1>23, <1>24, <1>25, <1>26, <1>27, <1>28, <1>29, <1>30, <1>31, <1>32, <1>33
     DEF Next, Simulate, Run, AddSourceBeforeInit, Server

(* and copies that are in use. *)
LEMMA CopyStep ==
  ASSUME LocksCover, OnePathPerDir
  PROVE  CopyInv /\ LockInv /\ HasWorker /\ [Next]_vars => CopyInv'
<1> SUFFICES ASSUME CopyInv, LockInv, HasWorker, [Next]_vars PROVE CopyInv'
  OBVIOUS
<1>0. CountInv' /\ LockHeld
  BY CountStep DEF CopyInv, LockInv
<1>1. ASSUME UNCHANGED copyVars PROVE CopyStaysWhileUsed'
  BY <1>1 DEF copyVars, CopyInv, CopyStaysWhileUsed
<1>2. ASSUME ServeFails \/ ShutdownTimeout PROVE CopyStaysWhileUsed'
  BY <1>2 DEF ServeFails, ShutdownTimeout, Exit, InMemory, CopyStaysWhileUsed
<1>3. CopyStaysWhileUsed'
  BY <1>0, <1>1, <1>2, CopySteps, CopyPrepared, CopyTorn, CopyReleased, CopyReset
<1> QED
  BY <1>0, <1>3 DEF CopyInv

(* It holds at the start. *)
LEMMA CopyInit == Init => CopyInv
<1> SUFFICES ASSUME Init PROVE CopyInv
  OBVIOUS
<1>1. TypeOK
  BY TypeInit
<1>2. /\ \A r \in Simulations : cleanupFuncs[r] = None
      /\ \A root \in Roots : testCopies[root] = 0
  BY DEF Init, InMemory
<1>3. CleanupOwner /\ CopyStaysWhileUsed
  BY <1>2 DEF CleanupOwner, CopyStaysWhileUsed
<1>4. \A root \in Roots : Users(root) = {}
  BY <1>2, PathAssumption DEF Users
<1>5. CountIsUsers
  BY <1>2, <1>4, FS_EmptySet DEF CountIsUsers
<1> QED
  BY <1>1, <1>3, <1>5 DEF CopyInv, CountInv

(* A run's copy of the harness is whole on disk from its preparation to its *)
(* cleanup, for any number of runs, projects and additions: the count of a  *)
(* copy is the number of its users, and neither another run's cleanup, nor  *)
(* a failing write, nor the reset of the default project reaches a copy in  *)
(* use, where no two paths lead to one directory.                           *)
THEOREM CopyKept ==
  ASSUME LocksCover, OnePathPerDir PROVE Spec => []CopyStaysWhileUsed
<1>1. Init => PoolInv /\ LockInv /\ CopyInv
  BY PoolInit, LockInit, CopyInit
<1>2. PoolInv /\ LockInv /\ CopyInv /\ [Next]_vars => (PoolInv /\ LockInv /\ CopyInv)'
  BY PoolStep, LockStep, CopyStep DEF PoolInv
<1>3. PoolInv /\ LockInv /\ CopyInv => CopyStaysWhileUsed
  BY DEF CopyInv
<1> QED
  BY <1>1, <1>2, <1>3, PTL DEF Spec

(* The reference count that decides when a copy is removed is exact,       *)
(* whatever the paths are, whatever fails and however the calls interleave. *)
THEOREM CountExact == Spec => []CountIsUsers
<1>1. Init => PoolInv /\ CountInv
  BY PoolInit, CopyInit DEF CopyInv
<1>2. PoolInv /\ CountInv /\ [Next]_vars => (PoolInv /\ CountInv)'
  BY PoolStep, CountStep DEF PoolInv
<1>3. PoolInv /\ CountInv => CountIsUsers
  BY DEF CountInv
<1> QED
  BY <1>1, <1>2, <1>3, PTL DEF Spec

(* While the server goes on, the step after which nobody uses a copy any    *)
(* more removes it from the project: the cleanup of the last user.          *)
THEOREM CopyGoesWithLastUser == Spec => LastUserRemovesCopy
<1>1. Init => PoolInv /\ CountInv
  BY PoolInit, CopyInit DEF CopyInv
<1>2. PoolInv /\ CountInv /\ [Next]_vars => (PoolInv /\ CountInv)'
  BY PoolStep, CountStep DEF PoolInv
<1>3. PoolInv /\ CountInv /\ [Next]_vars =>
         [\A root \in Roots :
            Alive' /\ Users(root) # {} /\ Users(root)' = {} =>
                copyOnDisk'[Dir[root]] = "absent"]_vars
  <2> SUFFICES ASSUME PoolInv, CountInv, [Next]_vars, NEW root \in Roots,
                      Alive', Users(root) # {}, Users(root)' = {}
               PROVE  copyOnDisk'[Dir[root]] = "absent"
    OBVIOUS
  <2>0. TypeOK /\ HasWorker
    BY DEF PoolInv
  <2>1. ~ UNCHANGED cleanupFuncs
    BY DEF Users
  <2>2. ~ (ServeFails \/ ShutdownTimeout)
    BY DEF ServeFails, ShutdownTimeout, Exit, Alive
  <2>3. ASSUME NEW r \in Simulations, PrepareExternal(r) PROVE FALSE
    <3>1. PICK mine \in Roots : /\ cleanupFuncs[r] = None
                                /\ cleanupFuncs' = [cleanupFuncs EXCEPT ![r] = mine]
      BY <2>0, <2>3, PreparedFacts
    <3>2. PICK s \in Simulations : cleanupFuncs[s] = root
      BY DEF Users
    <3>3. s # r
      BY <3>1, <3>2, PathAssumption
    <3>4. s \in Users(root)'
      BY <2>0, <3>1, <3>2, <3>3 DEF Users, TypeOK
    <3> QED
      BY <3>4
  <2>4. PICK r \in Simulations : Cleanup(r)
    BY <2>1, <2>2, <2>3, CopySteps DEF copyVars, PrepareFails, ResetDefaultProjectDirs
  <2>5. cleanupFuncs' = [cleanupFuncs EXCEPT ![r] = None]
    BY <2>4 DEF Cleanup
  <2>6. cleanupFuncs[r] = root
    BY <2>0, <2>5 DEF Users, TypeOK
  <2>7. /\ Dir[root] \in Dirs
        /\ Cardinality(Users(root)') = testCopies[root] - 1
        /\ testCopies[root] \in Nat \ {0}
        /\ copyOnDisk' = IF testCopies[root] = 1
                         THEN [copyOnDisk EXCEPT ![Dir[root]] = "absent"]
                         ELSE copyOnDisk
    BY <2>4, <2>6, PathAssumption, ReleasedFacts
  <2>8. testCopies[root] = 1
    BY <2>7, FS_EmptySet
  <2> QED
    BY <2>0, <2>7, <2>8 DEF TypeOK
<1> QED
  BY <1>1, <1>2, <1>3, PTL DEF Spec, LastUserRemovesCopy

-----------------------------------------------------------------------------
(***************************************************************************)
(* Theorems about what a caller of SimulationService relies on: the pool   *)
(* keeps its size, a run that was started has its record before its        *)
(* answer, a finished run leaves none of its files, a server that stops by *)
(* itself leaves nothing behind, and the service implements RunLifecycle.  *)
(***************************************************************************)

(***************************************************************************)
(* The steps of the handlers, seen through the variables that belong to    *)
(* one call: where it is, its status, its record, its worker, its files.   *)
(***************************************************************************)
WaitStages == {"new", "lock", "validate", "acquire"}
RunStages == {"prepare", "build", "override", "compile", "input", "fork", "test", "analyze"}
ReplayStages == {"new", "cast", "analyze", "finish", "done", "dropped"}
SimulationStages ==
    WaitStages \cup RunStages \cup {"finish", "cleanup", "release", "unlock", "done", "dropped"}

ownVars == <<path, worker, runStarted, recorded, tempFiles, files>>

(* The handler goes on, and only its place changes, *)
Advances(r, from, to) == Go(r, from, to) /\ UNCHANGED <<status, ownVars>>

(* or it calls finish with its status. *)
Ends(r, from, code) == FinishWith(r, from, code) /\ UNCHANGED ownVars

(* A simulation that has its worker goes on inside the run; files are       *)
(* written only by the two steps that are not in this list.                 *)
RunMoves ==
    {<<"prepare", "build">>, <<"prepare", "override">>, <<"build", "override">>,
     <<"override", "input">>, <<"compile", "input">>, <<"fork", "test">>,
     <<"test", "analyze">>}

SimulationSteps(r) ==
    \/ BeginSimulation(r)
    \/ Advances(r, "lock", "validate") \/ Advances(r, "validate", "acquire")
    \/ Ends(r, "validate", 400) \/ Ends(r, "acquire", 429)
    \/ AcquireWorker(r)
    \/ \E move \in RunMoves : Advances(r, move[1], move[2])
    \/ WriteStateOverrideSource(r) \/ WriteSimulationInput(r)
    \/ \E from \in RunStages, code \in {200, 400, 500, 502} : Ends(r, from, code)
    \/ WriteStateOverrideSourceFails(r) \/ WriteSimulationInputFails(r)
    \/ Finish(r) \/ Cleanup(r) \/ ReleaseWorker(r)
    \/ Advances(r, "unlock", "done")

ReplaySteps(r) ==
    \/ BeginReplay(r)
    \/ Advances(r, "cast", "analyze")
    \/ \E from \in {"cast", "analyze"}, code \in {200, 502} : Ends(r, from, code)
    \/ Finish(r)

(* An addition has no record, worker or files; the reset of the default     *)
(* project may remove the override files of others.                         *)
AdditionSteps(r) ==
    /\ pc' = [pc EXCEPT ![r] = pc'[r]]
    /\ status' = [status EXCEPT ![r] = status'[r]]
    /\ UNCHANGED <<path, worker, runStarted, recorded, tempFiles>>
    /\ UNCHANGED files \/ TestDirRemoved

(* What the other steps of the server leave alone. *)
ServerSteps == UNCHANGED <<pc, status, ownVars>>

(* The steps of a simulation, as Next has them, have those shapes, ... *)
LEMMA SimulateSteps ==
  ASSUME NEW r \in Simulations, BeginSimulation(r) \/ Simulate(r) \/ AcquireTimeout(r)
                               \/ Run(r) \/ Unlock(r)
  PROVE  SimulationSteps(r)
<1> USE DEF recordVars, poolVars, tempVars, ownVars, Advances, Ends, RunMoves, RunStages
<1>1. CASE LockDefaultProjectIfUsed(r) \/ ValidateRequest(r) \/ AcquireTimeout(r)
  BY <1>1 DEF LockDefaultProjectIfUsed, ValidateRequest, AcquireTimeout, SimulationSteps
<1>2. CASE PrepareLocal(r) \/ PrepareExternal(r)
  BY <1>2 DEF PrepareLocal, PrepareExternal, SimulationSteps
<1>3. CASE PrepareFails(r) \/ BuildProjectSrc(r) \/ ReadStateOverride(r)
  BY <1>3 DEF PrepareFails, BuildProjectSrc, ReadStateOverride, SimulationSteps
<1>4. CASE CompileStateOverride(r) \/ Fork(r) \/ ForkFails(r)
  BY <1>4 DEF CompileStateOverride, Fork, ForkFails, SimulationSteps
<1>5. CASE ForgeTest(r) \/ Analyze(r)
  BY <1>5 DEF ForgeTest, Analyze, SimulationSteps
<1>6. CASE Unlock(r)
  BY <1>6 DEF Unlock, SimulationSteps
<1> QED
  BY <1>1, <1>2, <1>3, <1>4, <1>5, <1>6 DEF Simulate, Run, SimulationSteps

(* ... and those of a replay and ... *)
LEMMA ReplaySimple ==
  ASSUME NEW r \in Replays, BeginReplay(r) \/ CastRun(r) \/ Run(r)
  PROVE  ReplaySteps(r)
<1> USE DEF recordVars, poolVars, tempVars, ownVars, Advances, Ends
<1> QED
  BY DEF ReplaySteps, CastRun, Run, Analyze

(* ... of an added source. *)
LEMMA AddSteps ==
  ASSUME NEW r \in Additions, TypeOK,
         BeginAddition(r) \/ AddSourceBeforeInit(r) \/ ForgeInit(r) \/ Unlock(r)
  PROVE  AdditionSteps(r)
<1> USE CallKinds DEF recordVars, poolVars, tempVars, Go, FailWith, AdditionSteps, TypeOK
<1>1. CASE BeginAddition(r) \/ LockDefaultProject(r)
  BY <1>1 DEF BeginAddition, LockDefaultProject
<1>2. CASE EnsureDefaultProject(r) \/ ForgeInit(r)
  BY <1>2 DEF EnsureDefaultProject, ForgeInit
<1>3. CASE ResetDefaultProjectDirs(r)
  BY <1>3 DEF ResetDefaultProjectDirs
<1>4. CASE WriteSource(r) \/ Unlock(r)
  BY <1>4 DEF WriteSource, Unlock
<1> QED
  BY <1>1, <1>2, <1>3, <1>4 DEF AddSourceBeforeInit

(* Every step is one of a call, or leaves the calls alone, or drops them.   *)
LEMMA Steps ==
  ASSUME TypeOK, [Next]_vars
  PROVE  \/ \E r \in Simulations : SimulationSteps(r)
         \/ \E r \in Replays : ReplaySteps(r)
         \/ \E r \in Additions : AdditionSteps(r)
         \/ ServeFails \/ ShutdownTimeout
         \/ ServerSteps
<1>1. CASE Shutdown \/ Drained \/ CloseWorker \/ Closed \/ Restart
  BY <1>1 DEF Shutdown, Drained, CloseWorker, Closed, Restart, ServerSteps, ownVars,
     callVars, recordVars, tempVars, poolVars
<1>2. CASE UNCHANGED vars
  BY <1>2 DEF vars, ServerSteps, ownVars, callVars, recordVars, tempVars, poolVars
<1> QED
  BY <1>1, <1>2, SimulateSteps, ReplaySimple, AddSteps DEF Next, Server

-----------------------------------------------------------------------------
(* The pool keeps its size. *)

(* The holders are finitely many, and being one is a matter of the worker   *)
(* alone: who has a worker is active.                                       *)
LEMMA HoldersAre ==
  ASSUME HasWorker
  PROVE  /\ Holders = {r \in Simulations : worker[r] # None}
         /\ IsFiniteSet(Holders) /\ Cardinality(Holders) \in Nat
<1>1. Holders = {r \in Simulations : worker[r] # None}
  BY DEF Holders, HasWorker, Active, Served
<1>2. IsFiniteSet(Holders)
  BY CallsAssumption, FS_Subset DEF Holders
<1> QED
  BY <1>1, <1>2, FS_CardinalityType

(* Without a holder, the channel a server starts with has all the workers.  *)
LEMMA FreshPool ==
  ASSUME HasWorker, \A r \in Simulations : worker[r] = None,
         idle = InMemory.workers, held = <<>>
  PROVE  PoolKeepsItsSize
<1>1. Len(InMemory.workers) = WorkerCount
  BY WorkerCountType DEF InMemory
<1>2. Holders = {}
  BY HoldersAre
<1> QED
  BY <1>1, <1>2, FS_EmptySet, WorkerCountType DEF PoolKeepsItsSize

(* Every step keeps the size: a worker that leaves the channel goes to a    *)
(* run or to Close, and comes back from there.                              *)
LEMMA SizeStep ==
  PoolInv /\ PoolKeepsItsSize /\ [Next]_vars => PoolKeepsItsSize'
<1> SUFFICES ASSUME PoolInv, PoolKeepsItsSize, [Next]_vars PROVE PoolKeepsItsSize'
  OBVIOUS
<1>0. /\ HasWorker /\ HasWorker' /\ ServerDown
      /\ idle \in Seq(Workers) /\ held \in Seq(Workers)
      /\ worker \in [Simulations -> Workers \cup {None}]
  BY PoolStep DEF PoolInv, TypeOK
<1>a. /\ Holders = {r \in Simulations : worker[r] # None}
      /\ Holders' = {r \in Simulations : worker'[r] # None}
      /\ IsFiniteSet(Holders) /\ Cardinality(Holders) \in Nat
  BY <1>0, HoldersAre DEF Holders, HasWorker, Active, Served
<1>1. CASE UNCHANGED poolVars
  <2>1. Holders' = Holders
    BY <1>1, <1>a DEF poolVars
  <2> QED
    BY <1>1, <2>1 DEF poolVars, PoolKeepsItsSize
<1>2. ASSUME NEW r \in Simulations, AcquireWorker(r) PROVE PoolKeepsItsSize'
  <2>1. /\ idle # <<>> /\ idle' = Tail(idle) /\ held' = held
        /\ worker' = [worker EXCEPT ![r] = Head(idle)] /\ pc[r] = "acquire"
    BY <1>2 DEF AcquireWorker, Go
  <2>2. worker[r] = None
    BY <1>0, <2>1 DEF HasWorker, Served
  <2>3. Head(idle) # None
    BY <1>0, <2>1, TailFacts, PoolAssumption, WorkerCountType DEF Workers
  <2>4. Holders' = Holders \cup {r} /\ r \notin Holders
    BY <1>0, <1>a, <2>1, <2>2, <2>3
  <2>5. Cardinality(Holders') = Cardinality(Holders) + 1
    BY <1>a, <2>4, FS_AddElement
  <2>6. Len(idle') = Len(idle) - 1
    BY <1>0, <2>1, TailFacts
  <2> QED
    BY <1>0, <1>a, <2>1, <2>5, <2>6 DEF PoolKeepsItsSize
<1>3. ASSUME NEW r \in Simulations, ReleaseWorker(r) PROVE PoolKeepsItsSize'
  <2>1. /\ idle' = Append(idle, worker[r]) /\ held' = held
        /\ worker' = [worker EXCEPT ![r] = None] /\ pc[r] = "release"
    BY <1>3 DEF ReleaseWorker, Go
  <2>2. worker[r] # None /\ worker[r] \in Workers
    BY <1>0, <2>1 DEF HasWorker, Served
  <2>3. Holders' = Holders \ {r} /\ r \in Holders
    <3>1. worker'[r] = None /\ \A s \in Simulations \ {r} : worker'[s] = worker[s]
      BY <1>0, <2>1
    <3> QED
      BY <1>a, <2>2, <3>1
  <2>4. Cardinality(Holders') = Cardinality(Holders) - 1
    BY <1>a, <2>3, FS_RemoveElement
  <2>5. Len(idle') = Len(idle) + 1
    BY <1>0, <2>1, <2>2, AppendFacts
  <2> QED
    BY <1>0, <1>a, <2>1, <2>4, <2>5 DEF PoolKeepsItsSize
<1>4. CASE ServeFails \/ ShutdownTimeout
  <2>1. idle' = InMemory.workers /\ held' = <<>> /\ \A r \in Simulations : worker'[r] = None
    BY <1>4 DEF ServeFails, ShutdownTimeout, Exit, InMemory
  <2>2. Len(idle') = WorkerCount
    BY <2>1, WorkerCountType DEF InMemory
  <2>3. Holders' = {}
    BY <1>a, <2>1
  <2>4. Cardinality(Holders)' = 0
    BY <2>3, FS_EmptySet
  <2> QED
    BY <2>1, <2>2, <2>4, WorkerCountType DEF PoolKeepsItsSize
<1>5. CASE CloseWorker
  <2>1. /\ idle # <<>> /\ idle' = Tail(idle) /\ held' = Append(held, Head(idle))
        /\ worker' = worker
    BY <1>5 DEF CloseWorker
  <2>2. Holders' = Holders
    BY <1>a, <2>1
  <2>3. Len(Tail(idle)) = Len(idle) - 1 /\ Head(idle) \in Workers
    BY <1>0, <2>1, TailFacts
  <2>4. Len(Append(held, Head(idle))) = Len(held) + 1
    BY <1>0, <2>3, AppendFacts
  <2> QED
    BY <1>0, <1>a, <2>1, <2>2, <2>3, <2>4 DEF PoolKeepsItsSize
<1>6. CASE Closed
  <2>1. idle = <<>> /\ idle' = held /\ held' = <<>> /\ worker' = worker
    BY <1>6 DEF Closed
  <2>2. Holders' = Holders
    BY <1>a, <2>1
  <2> QED
    BY <1>0, <1>a, <2>1, <2>2 DEF PoolKeepsItsSize
<1>7. CASE Restart
  <2>1. /\ idle' = InMemory.workers /\ UNCHANGED <<held, worker, pc>>
        /\ server \in {"killed", "stopped"}
    BY <1>7 DEF Restart, callVars
  <2>2. held' = <<>> /\ \A r \in Simulations : ~ Active(r)
    BY <1>0, <2>1, CallKinds DEF ServerDown
  <2>3. Holders' = {}
    BY <1>0, <1>a, <2>1, <2>2 DEF Holders
  <2>4. Cardinality(Holders)' = 0
    BY <2>3, FS_EmptySet
  <2>5. Len(idle') = WorkerCount
    BY <2>1, WorkerCountType DEF InMemory
  <2> QED
    BY <2>2, <2>4, <2>5, WorkerCountType DEF PoolKeepsItsSize
<1> QED
  BY <1>1, <1>2, <1>3, <1>4, <1>5, <1>6, <1>7, PoolSteps

(* No worker is ever lost or made: whatever a handler returns early from,   *)
(* whatever is interrupted, the channel, the runs and Close have all of     *)
(* them between them, for any number of workers and calls.                  *)
THEOREM PoolComplete == Spec => []PoolKeepsItsSize
<1>1. Init => PoolInv /\ PoolKeepsItsSize
  <2> SUFFICES ASSUME Init PROVE PoolInv /\ PoolKeepsItsSize
    OBVIOUS
  <2>1. PoolInv
    BY PoolInit
  <2>2. \A r \in Simulations : worker[r] = None
    BY DEF Init, InMemory
  <2> QED
    BY <2>1, <2>2, FreshPool DEF Init, PoolInv
<1>2. PoolInv /\ PoolKeepsItsSize /\ [Next]_vars => (PoolInv /\ PoolKeepsItsSize)'
  BY PoolStep, SizeStep
<1> QED
  BY <1>1, <1>2, PTL DEF Spec

-----------------------------------------------------------------------------
(* The record of a run. *)

(* What the place of a call says of its run: it has not started before it   *)
(* has its worker (a replay: its command), has no status while it runs, has *)
(* been started if it fails with a status of a run, and is saved once it is *)
(* past finish.                                                             *)
RunOK(r) ==
    /\ r \in recorded => r \in runStarted
    /\ r \in runStarted => status[r] # 429
    /\ r \notin runStarted => status[r] \in {0, 400, 429}
    /\ pc[r] \in WaitStages => r \notin runStarted
    /\ pc[r] \in WaitStages \cup RunStages \cup {"cast"} => status[r] = 0
    /\ pc[r] \in RunStages \cup {"cast", "cleanup", "release"} => r \in runStarted
    /\ ~ DiskFaults /\ pc[r] \in {"cleanup", "release", "unlock", "done"} /\ r \in runStarted
          => r \in recorded

(* Simulations and replays have stages of their own; a simulation has its   *)
(* worker from the start of its run until it gives it back.                 *)
SimulationOK(r) ==
    /\ pc[r] \in SimulationStages
    /\ worker[r] # None => r \in runStarted
    /\ pc[r] = "finish" /\ r \in runStarted => worker[r] # None

RunInv ==
    /\ \A r \in Simulations : RunOK(r) /\ SimulationOK(r)
    /\ \A r \in Replays : RunOK(r) /\ pc[r] \in ReplayStages

(* A call whose variables a step leaves alone stays as it was. *)
LEMMA RunUntouched ==
  ASSUME NEW r, RunOK(r), pc'[r] = pc[r], status'[r] = status[r],
         r \in runStarted' <=> r \in runStarted, r \in recorded' <=> r \in recorded
  PROVE  RunOK(r)'
  BY DEF RunOK

(* The same for its place in the pool. *)
LEMMA SimulationUntouched ==
  ASSUME NEW r, SimulationOK(r), pc'[r] = pc[r], worker'[r] = worker[r],
         r \in runStarted' <=> r \in runStarted
  PROVE  SimulationOK(r)'
  BY DEF SimulationOK

(* A step of one call, and what it leaves of the others. *)
LEMMA OthersUntouched ==
  ASSUME TypeOK, NEW r \in Requests, SimulationSteps(r) \/ ReplaySteps(r) \/ AdditionSteps(r)
  PROVE  \A s \in Requests \ {r} :
            /\ pc'[s] = pc[s] /\ status'[s] = status[s]
            /\ s \in runStarted' <=> s \in runStarted
            /\ s \in recorded' <=> s \in recorded
            /\ s \in Simulations => worker'[s] = worker[s]
<1> USE DEF recordVars, poolVars, ownVars, Go, FinishWith, TypeOK
<1>1. CASE SimulationSteps(r)
  BY <1>1 DEF SimulationSteps, Advances, Ends, BeginSimulation, AcquireWorker,
     WriteStateOverrideSource, WriteSimulationInput, WriteStateOverrideSourceFails,
     WriteSimulationInputFails, Finish, Cleanup, ReleaseWorker
<1>2. CASE ReplaySteps(r)
  BY <1>2 DEF ReplaySteps, Advances, Ends, BeginReplay, Finish
<1>3. CASE AdditionSteps(r)
  BY <1>3 DEF AdditionSteps
<1> QED
  BY <1>1, <1>2, <1>3

(* The simulation that takes the step. *)
LEMMA SimulationRunStep ==
  ASSUME TypeOK, HasWorker, NEW r \in Simulations, RunOK(r), SimulationOK(r),
         SimulationSteps(r)
  PROVE  RunOK(r)' /\ SimulationOK(r)'
<1>0. /\ r \in Requests /\ r \notin Replays
      /\ pc \in [Requests -> Stages] /\ status \in [Requests -> Codes]
      /\ worker \in [Simulations -> Workers \cup {None}]
  BY CallKinds DEF TypeOK
<1>a. /\ worker[r] # None => pc[r] \in Served \cup {"finish"}
      /\ pc[r] \in RunStages => worker[r] # None
  BY DEF HasWorker, Served, RunStages
<1> USE <1>0 DEF recordVars, poolVars, ownVars, Go, FinishWith, RunOK, SimulationOK,
        WaitStages, RunStages, SimulationStages, Served
<1>1. CASE \/ BeginSimulation(r) \/ Advances(r, "lock", "validate")
           \/ Advances(r, "validate", "acquire")
  BY <1>1, <1>a DEF BeginSimulation, Advances
<1>2. CASE Ends(r, "validate", 400) \/ Ends(r, "acquire", 429)
  BY <1>2, <1>a DEF Ends
<1>3. CASE AcquireWorker(r)
  BY <1>3, <1>a DEF AcquireWorker
<1>4. ASSUME NEW move \in RunMoves, Advances(r, move[1], move[2])
      PROVE  RunOK(r)' /\ SimulationOK(r)'
  BY <1>4, <1>a DEF Advances, RunMoves
<1>5. CASE WriteStateOverrideSource(r) \/ WriteSimulationInput(r)
  BY <1>5, <1>a DEF WriteStateOverrideSource, WriteSimulationInput
<1>6. ASSUME NEW from \in RunStages, NEW code \in {200, 400, 500, 502}, Ends(r, from, code)
      PROVE  RunOK(r)' /\ SimulationOK(r)'
  BY <1>6, <1>a DEF Ends
<1>7. CASE WriteStateOverrideSourceFails(r) \/ WriteSimulationInputFails(r)
  BY <1>7, <1>a DEF WriteStateOverrideSourceFails, WriteSimulationInputFails
<1>8. CASE Finish(r)
  BY <1>8, <1>a DEF Finish
<1>9. CASE Cleanup(r) \/ ReleaseWorker(r) \/ Advances(r, "unlock", "done")
  BY <1>9, <1>a DEF Cleanup, ReleaseWorker, Advances
<1> QED
  BY <1>1, <1>2, <1>3, <1>4, <1>5, <1>6, <1>7, <1>8, <1>9 DEF SimulationSteps

(* The replay that takes the step. *)
LEMMA ReplayRunStep ==
  ASSUME TypeOK, NEW r \in Replays, RunOK(r), pc[r] \in ReplayStages, ReplaySteps(r)
  PROVE  RunOK(r)' /\ pc'[r] \in ReplayStages
<1>0. /\ r \in Requests
      /\ pc \in [Requests -> Stages] /\ status \in [Requests -> Codes]
  BY CallKinds DEF TypeOK
<1> USE <1>0 DEF recordVars, ownVars, Go, FinishWith, RunOK, WaitStages, RunStages,
        ReplayStages
<1>1. CASE BeginReplay(r)
  BY <1>1 DEF BeginReplay
<1>2. CASE Advances(r, "cast", "analyze")
  BY <1>2 DEF Advances
<1>3. ASSUME NEW from \in {"cast", "analyze"}, NEW code \in {200, 502}, Ends(r, from, code)
      PROVE  RunOK(r)' /\ pc'[r] \in ReplayStages
  BY <1>3 DEF Ends
<1>4. CASE Finish(r)
  BY <1>4 DEF Finish
<1> QED
  BY <1>1, <1>2, <1>3, <1>4 DEF ReplaySteps

(* Every step keeps the run invariant. *)
LEMMA RunStep == TypeOK /\ HasWorker /\ RunInv /\ [Next]_vars => RunInv'
<1> SUFFICES ASSUME TypeOK, HasWorker, RunInv, [Next]_vars PROVE RunInv'
  OBVIOUS
<1>1. ASSUME NEW r \in Requests, SimulationSteps(r) \/ ReplaySteps(r) \/ AdditionSteps(r)
      PROVE  /\ \A s \in Simulations \ {r} : RunOK(s)' /\ SimulationOK(s)'
             /\ \A s \in Replays \ {r} : RunOK(s)' /\ pc'[s] \in ReplayStages
  <2>1. ASSUME NEW s \in Simulations \ {r} PROVE RunOK(s)' /\ SimulationOK(s)'
    BY <1>1, <2>1, OthersUntouched, RunUntouched, SimulationUntouched, CallKinds DEF RunInv
  <2>2. ASSUME NEW s \in Replays \ {r} PROVE RunOK(s)' /\ pc'[s] \in ReplayStages
    BY <1>1, <2>2, OthersUntouched, RunUntouched, CallKinds DEF RunInv
  <2> QED
    BY <2>1, <2>2
<1>2. ASSUME NEW r \in Simulations, SimulationSteps(r) PROVE RunInv'
  BY <1>1, <1>2, SimulationRunStep, CallKinds DEF RunInv
<1>3. ASSUME NEW r \in Replays, ReplaySteps(r) PROVE RunInv'
  BY <1>1, <1>3, ReplayRunStep, CallKinds DEF RunInv
<1>4. ASSUME NEW r \in Additions, AdditionSteps(r) PROVE RunInv'
  BY <1>1, <1>4, CallKinds DEF RunInv
<1>5. CASE ServeFails \/ ShutdownTimeout
  <2>1. /\ \A r \in Requests : pc'[r] \in {"dropped", "new", "done"} /\
              (pc'[r] # "dropped" => pc'[r] = pc[r])
        /\ \A r \in Simulations : worker'[r] = None
        /\ UNCHANGED <<status, runStarted, recorded>>
    BY <1>5 DEF ServeFails, ShutdownTimeout, Exit, Active, InMemory, recordVars
  <2>2. ASSUME NEW r \in Requests, RunOK(r) PROVE RunOK(r)'
    BY <2>1, <2>2 DEF RunOK, WaitStages, RunStages
  <2>3. \A r \in Simulations : SimulationOK(r)'
    BY <2>1, CallKinds DEF SimulationOK, SimulationStages, WaitStages
  <2>4. \A r \in Replays : pc'[r] \in ReplayStages
    BY <2>1, CallKinds DEF ReplayStages
  <2> QED
    BY <2>2, <2>3, <2>4, CallKinds DEF RunInv
<1>6. CASE ServerSteps
  BY <1>6 DEF ServerSteps, ownVars, RunInv, RunOK, SimulationOK
<1> QED
  BY <1>2, <1>3, <1>4, <1>5, <1>6, Steps

(* Before any call arrives, nothing has run. *)
LEMMA RunInit == Init => RunInv
<1> SUFFICES ASSUME Init PROVE RunInv
  OBVIOUS
<1>1. /\ \A r \in Requests : pc[r] = "new" /\ status[r] = 0
      /\ runStarted = {} /\ recorded = {}
      /\ \A r \in Simulations : worker[r] = None
  BY DEF Init, InMemory
<1> QED
  BY <1>1, CallKinds
     DEF RunInv, RunOK, SimulationOK, SimulationStages, ReplayStages, WaitStages, RunStages

(* By the time a caller can ask for it, a run that answered 200 or 502 is   *)
(* in the record database; one that was refused before it had a worker      *)
(* never is.  With a faulty disk only the second half holds.                *)
THEOREM RecordBeforeAnswer == Spec => []RecordedIffStarted
<1>1. Init => PoolInv /\ RunInv
  BY PoolInit, RunInit
<1>2. PoolInv /\ RunInv /\ [Next]_vars => (PoolInv /\ RunInv)'
  BY PoolStep, RunStep DEF PoolInv
<1>3. PoolInv /\ RunInv => RecordedIffStarted
  BY DEF RunInv, RunOK, RecordedIffStarted
<1> QED
  BY <1>1, <1>2, <1>3, PTL DEF Spec

-----------------------------------------------------------------------------
(* The temporary files of a run. *)

(* The file f is removed by the cleanup: it is in the list, and what lies   *)
(* in it comes later in the list, so goes first.                            *)
Listed(f, list, disk) ==
    \E i \in DOMAIN list :
        /\ list[i] = f
        /\ \A child \in disk :
              Parent(child) = f => \E j \in DOMAIN list : j > i /\ list[j] = child

(* The one file that is not: the override of an external run whose write    *)
(* stopped halfway.                                                         *)
Torn(r, f) == f = "state" /\ External(r) /\ status[r] = 500

NoFilesYet == WaitStages \cup {"prepare", "build", "override"}

FilesOK(r) ==
    /\ pc[r] # "dropped" =>
          \A f \in files[r] : Torn(r, f) \/ Listed(f, tempFiles[r], files[r])
    /\ pc[r] \in NoFilesYet => files[r] = {} /\ tempFiles[r] = <<>>
    /\ pc[r] \in {"compile", "input"} => files[r] \subseteq {"stateDir", "state"}
    /\ pc[r] \in {"release", "unlock", "done"} \/ r \notin runStarted => tempFiles[r] = <<>>

FilesInv == \A r \in Simulations : FilesOK(r)

(* What a run adds to its list does not disturb what is in it already, as   *)
(* long as the new files lie in no directory of the old ones, or are listed.*)
LEMMA ListedGrows ==
  ASSUME NEW S, NEW list \in Seq(S), NEW more \in Seq(S), NEW disk, NEW new, NEW f,
         Listed(f, list, disk),
         \A child \in new : Parent(child) # f
  PROVE  Listed(f, list \o more, disk \cup new)
<1>1. PICK i \in DOMAIN list :
        /\ list[i] = f
        /\ \A child \in disk :
              Parent(child) = f => \E j \in DOMAIN list : j > i /\ list[j] = child
  BY DEF Listed
<1>2. \A j \in DOMAIN list : j \in DOMAIN (list \o more) /\ (list \o more)[j] = list[j]
  OBVIOUS
<1> QED
  BY <1>1, <1>2 DEF Listed

(* A directory and its file are removed together when they are listed in    *)
(* this order, whatever else is on the disk outside of the directory.       *)
LEMMA ListedPair ==
  ASSUME NEW S, NEW list \in Seq(S), NEW dir \in S, NEW file \in S, NEW disk,
         \A child \in disk : Parent(child) = dir => child = file,
         \A child \in disk : Parent(child) # file
  PROVE  /\ Listed(dir, list \o <<dir, file>>, disk)
         /\ Listed(file, list \o <<dir, file>>, disk)
<1> DEFINE longer == list \o <<dir, file>>
<1>1. /\ Len(list) + 1 \in DOMAIN longer /\ longer[Len(list) + 1] = dir
      /\ Len(list) + 2 \in DOMAIN longer /\ longer[Len(list) + 2] = file
      /\ Len(list) \in Nat
  OBVIOUS
<1>2. Len(list) + 2 > Len(list) + 1
  BY <1>1
<1> HIDE DEF longer
<1>3. Listed(dir, longer, disk) /\ Listed(file, longer, disk)
  BY <1>1, <1>2 DEF Listed
<1> QED
  BY <1>3 DEF longer

(* The directories of the files. *)
LEMMA Parents ==
    /\ Parent("state") = "stateDir" /\ Parent("input") = "inputDir"
    /\ Parent("stateDir") = "none" /\ Parent("inputDir") = "none"
  BY DEF Parent

(* A run whose variables a step leaves alone, or that loses a file to the   *)
(* reset of the default project, stays as it was.                           *)
LEMMA FilesUntouched ==
  ASSUME NEW r, FilesOK(r), pc'[r] = pc[r], status'[r] = status[r], path'[r] = path[r],
         r \in runStarted' <=> r \in runStarted, tempFiles'[r] = tempFiles[r],
         files'[r] \subseteq files[r]
  PROVE  FilesOK(r)'
<1>1. \A f : Torn(r, f)' <=> Torn(r, f)
  BY DEF Torn, External
<1>2. \A f : Listed(f, tempFiles[r], files[r]) => Listed(f, tempFiles[r], files[r])'
  BY DEF Listed
<1> QED
  BY <1>1, <1>2 DEF FilesOK

(* The step of a handler leaves the files of other runs, except that the    *)
(* reset of the default project may remove some.                            *)
LEMMA OthersFiles ==
  ASSUME TypeOK, NEW r \in Requests, SimulationSteps(r) \/ ReplaySteps(r) \/ AdditionSteps(r)
  PROVE  \A s \in Simulations \ {r} : /\ path'[s] = path[s]
                                      /\ tempFiles'[s] = tempFiles[s]
                                      /\ files'[s] \subseteq files[s]
<1> USE CallKinds DEF recordVars, poolVars, tempVars, ownVars, Go, FinishWith, TypeOK
<1>1. CASE SimulationSteps(r)
  BY <1>1 DEF SimulationSteps, Advances, Ends, BeginSimulation, AcquireWorker,
     WriteStateOverrideSource, WriteSimulationInput, WriteStateOverrideSourceFails,
     WriteSimulationInputFails, Finish, Cleanup, ReleaseWorker
<1>2. CASE ReplaySteps(r)
  BY <1>2 DEF ReplaySteps, Advances, Ends, BeginReplay, Finish
<1>3. CASE AdditionSteps(r)
  <2>1. CASE UNCHANGED files
    BY <1>3, <2>1 DEF AdditionSteps
  <2>2. CASE TestDirRemoved
    BY <1>3, <2>2 DEF AdditionSteps, TestDirRemoved
  <2> QED
    BY <1>3, <2>1, <2>2 DEF AdditionSteps
<1> QED
  BY <1>1, <1>2, <1>3

(* The state override: the list and the disk were empty. *)
LEMMA OverrideWritten ==
  ASSUME TypeOK, NEW r \in Simulations, RunOK(r), FilesOK(r),
         WriteStateOverrideSource(r) \/ WriteStateOverrideSourceFails(r)
  PROVE  FilesOK(r)'
<1>0. /\ r \in Requests /\ pc[r] = "override" /\ files[r] = {} /\ tempFiles[r] = <<>>
      /\ pc \in [Requests -> Stages] /\ status \in [Requests -> Codes]
      /\ tempFiles \in [Simulations -> Seq(TempFiles)]
      /\ files \in [Simulations -> SUBSET TempFiles]
      /\ r \in runStarted
  BY CallKinds
     DEF TypeOK, WriteStateOverrideSource, WriteStateOverrideSourceFails, Go, FinishWith,
         FilesOK, NoFilesYet, RunOK, RunStages
<1>1. UNCHANGED <<path, runStarted>>
  BY DEF WriteStateOverrideSource, WriteStateOverrideSourceFails, recordVars
<1>2. /\ <<>> \o <<"stateDir", "state">> = <<"stateDir", "state">>
      /\ <<>> \o <<"state">> = <<"state">>
  OBVIOUS
<1>3. /\ Listed("state", <<"state">>, {"state"})
      /\ \A disk \in {{"stateDir"}, {"stateDir", "state"}} :
            \A f \in disk : Listed(f, <<"stateDir", "state">>, disk)
  <2>1. Listed("state", <<"state">>, {"state"})
    <3>1. 1 \in DOMAIN <<"state">> /\ <<"state">>[1] = "state"
      OBVIOUS
    <3> QED
      BY <3>1, Parents DEF Listed
  <2>2. ASSUME NEW disk \in {{"stateDir"}, {"stateDir", "state"}}
        PROVE  \A f \in disk : Listed(f, <<"stateDir", "state">>, disk)
    <3>1. <<>> \in Seq(TempFiles) /\ "stateDir" \in TempFiles /\ "state" \in TempFiles
      BY DEF TempFiles
    <3>2. \A child \in disk : /\ Parent(child) = "stateDir" => child = "state"
                              /\ Parent(child) # "state"
      BY Parents
    <3>3. /\ Listed("stateDir", <<>> \o <<"stateDir", "state">>, disk)
          /\ Listed("state", <<>> \o <<"stateDir", "state">>, disk)
      BY <3>1, <3>2, ListedPair
    <3> QED
      BY <1>2, <3>3
  <2> QED
    BY <2>1, <2>2
<1>4. ASSUME WriteStateOverrideSource(r) PROVE FilesOK(r)'
  <2>1. /\ pc'[r] = "compile"
        /\ \/ tempFiles'[r] = <<"state">> /\ files'[r] = {"state"}
           \/ tempFiles'[r] = <<"stateDir", "state">> /\ files'[r] = {"stateDir", "state"}
    BY <1>0, <1>2, <1>4 DEF WriteStateOverrideSource, Go, OverrideFiles
  <2> QED
    BY <1>0, <1>1, <1>3, <2>1 DEF FilesOK, NoFilesYet, WaitStages
<1>5. ASSUME WriteStateOverrideSourceFails(r) PROVE FilesOK(r)'
  <2>1. /\ pc'[r] = "finish" /\ status'[r] = 500
        /\ \/ files'[r] = {}
           \/ External(r) /\ files'[r] = {"state"}
           \/ /\ tempFiles'[r] = <<"stateDir", "state">>
              /\ files'[r] \in {{"stateDir"}, {"stateDir", "state"}}
    <3>1. pc'[r] = "finish" /\ status'[r] = 500
      BY <1>0, <1>5 DEF WriteStateOverrideSourceFails, FinishWith, Go
    <3>2. CASE UNCHANGED tempVars
      BY <1>0, <3>1, <3>2 DEF tempVars
    <3>3. CASE External(r) /\ files' = [files EXCEPT ![r] = @ \cup {"state"}]
      BY <1>0, <3>1, <3>3
    <3>4. ASSUME ~ External(r), NEW torn \in SUBSET {"state"},
                 tempFiles' = [tempFiles EXCEPT ![r] = @ \o OverrideFiles(r)],
                 files' = [files EXCEPT ![r] = @ \cup {"stateDir"} \cup torn]
          PROVE  /\ tempFiles'[r] = <<"stateDir", "state">>
                 /\ files'[r] \in {{"stateDir"}, {"stateDir", "state"}}
      BY <1>0, <1>2, <3>4 DEF OverrideFiles
    <3> QED
      BY <1>5, <3>1, <3>2, <3>3, <3>4 DEF WriteStateOverrideSourceFails
  <2>2. \A f \in files'[r] : Torn(r, f)' \/ Listed(f, tempFiles'[r], files'[r])
    BY <1>1, <1>3, <2>1 DEF Torn, External
  <2> QED
    BY <1>0, <1>1, <2>1, <2>2 DEF FilesOK, NoFilesYet, WaitStages
<1> QED
  BY <1>4, <1>5

(* The input: what is on the disk by then is of the state override. *)
LEMMA InputWritten ==
  ASSUME TypeOK, NEW r \in Simulations, RunOK(r), FilesOK(r),
         WriteSimulationInput(r) \/ WriteSimulationInputFails(r)
  PROVE  FilesOK(r)'
<1>0. /\ r \in Requests /\ pc[r] = "input" /\ files[r] \subseteq {"stateDir", "state"}
      /\ pc \in [Requests -> Stages] /\ status \in [Requests -> Codes]
      /\ tempFiles \in [Simulations -> Seq(TempFiles)]
      /\ files \in [Simulations -> SUBSET TempFiles]
      /\ r \in runStarted /\ status[r] = 0
  BY CallKinds
     DEF TypeOK, WriteSimulationInput, WriteSimulationInputFails, Go, FinishWith,
         FilesOK, RunOK, RunStages
<1>1. UNCHANGED <<path, runStarted>>
  BY DEF WriteSimulationInput, WriteSimulationInputFails, recordVars
<1>2. pc'[r] \in {"fork", "finish"}
  BY <1>0 DEF WriteSimulationInput, WriteSimulationInputFails, FinishWith, Go
<1>3. \A f \in files[r] : Listed(f, tempFiles[r], files[r])
  BY <1>0 DEF FilesOK, Torn
<1>4. \/ tempFiles'[r] = tempFiles[r] /\ files'[r] = files[r]
      \/ /\ tempFiles'[r] = tempFiles[r] \o <<"inputDir", "input">>
         /\ \E new \in {{"inputDir"}, {"inputDir", "input"}} : files'[r] = files[r] \cup new
  <2>1. CASE WriteSimulationInput(r)
    BY <1>0, <2>1 DEF WriteSimulationInput
  <2>2. ASSUME NEW torn \in SUBSET {"input"},
               tempFiles' = [tempFiles EXCEPT ![r] = @ \o <<"inputDir", "input">>],
               files' = [files EXCEPT ![r] = @ \cup {"inputDir"} \cup torn]
        PROVE  /\ tempFiles'[r] = tempFiles[r] \o <<"inputDir", "input">>
               /\ \E new \in {{"inputDir"}, {"inputDir", "input"}} :
                     files'[r] = files[r] \cup new
    BY <1>0, <2>2
  <2>3. CASE WriteSimulationInputFails(r)
    BY <2>2, <2>3 DEF WriteSimulationInputFails, tempVars
  <2> QED
    BY <2>1, <2>3
<1>5. \A f \in files'[r] : Listed(f, tempFiles'[r], files'[r])
  <2>1. CASE tempFiles'[r] = tempFiles[r] /\ files'[r] = files[r]
    BY <1>3, <2>1
  <2>2. ASSUME tempFiles'[r] = tempFiles[r] \o <<"inputDir", "input">>,
               NEW new \in {{"inputDir"}, {"inputDir", "input"}},
               files'[r] = files[r] \cup new
        PROVE  \A f \in files'[r] : Listed(f, tempFiles'[r], files'[r])
    <3>1. /\ tempFiles[r] \in Seq(TempFiles) /\ <<"inputDir", "input">> \in Seq(TempFiles)
          /\ "inputDir" \in TempFiles /\ "input" \in TempFiles
      BY <1>0, InputFilesType DEF TempFiles
    <3>2. /\ \A child \in files[r] \cup new :
                (Parent(child) = "inputDir" => child = "input") /\ Parent(child) # "input"
          /\ \A child \in new, f \in files[r] : Parent(child) # f
      BY <1>0, Parents
    <3>3. /\ Listed("inputDir", tempFiles'[r], files'[r])
          /\ Listed("input", tempFiles'[r], files'[r])
      BY <2>2, <3>1, <3>2, ListedPair
    <3>4. ASSUME NEW f \in files[r] PROVE Listed(f, tempFiles'[r], files'[r])
      <4>1. Listed(f, tempFiles[r], files[r]) /\ \A child \in new : Parent(child) # f
        BY <1>3, <3>2
      <4>2. Listed(f, tempFiles[r] \o <<"inputDir", "input">>, files[r] \cup new)
        BY <3>1, <4>1, ListedGrows
      <4> QED
        BY <2>2, <4>2
    <3> QED
      BY <2>2, <3>3, <3>4
  <2> QED
    BY <1>4, <2>1, <2>2
<1> QED
  BY <1>0, <1>1, <1>2, <1>5 DEF FilesOK, NoFilesYet, WaitStages

(* The cleanup removes every file that is listed. *)
LEMMA CleanedUp ==
  ASSUME TypeOK, NEW r \in Simulations, RunOK(r), FilesOK(r), Cleanup(r)
  PROVE  FilesOK(r)'
<1>1. /\ r \in Requests /\ pc[r] = "cleanup" /\ pc'[r] = "release" /\ tempFiles'[r] = <<>>
      /\ UNCHANGED <<status, path, runStarted>>
      /\ files'[r] = RemovedInReverse(tempFiles[r], files[r])
  <2>1. /\ Go(r, "cleanup", "release") /\ tempFiles' = [tempFiles EXCEPT ![r] = <<>>]
        /\ files' = [files EXCEPT ![r] = RemovedInReverse(tempFiles[r], @)]
        /\ UNCHANGED <<status, path, runStarted>>
    BY DEF Cleanup, recordVars
  <2>2. /\ r \in Requests /\ pc \in [Requests -> Stages]
        /\ tempFiles \in [Simulations -> Seq(TempFiles)]
        /\ files \in [Simulations -> SUBSET TempFiles]
    BY CallKinds DEF TypeOK
  <2> QED
    BY <2>1, <2>2 DEF Go
<1>2. \A f \in files'[r] : f \in files[r] /\ ~ Listed(f, tempFiles[r], files[r])
  <2>1. \A f \in files[r] : Listed(f, tempFiles[r], files[r]) =>
            f \notin RemovedInReverse(tempFiles[r], files[r])
    BY DEF Listed, RemovedInReverse
  <2> QED
    BY <1>1, <2>1 DEF RemovedInReverse
<1>3. \A f \in files'[r] : Torn(r, f)'
  BY <1>1, <1>2 DEF FilesOK, Torn, External
<1> QED
  BY <1>1, <1>3 DEF FilesOK, NoFilesYet, WaitStages

(* The simulation that takes the step. *)
LEMMA SimulationFilesStep ==
  ASSUME TypeOK, NEW r \in Simulations, RunOK(r), SimulationOK(r), FilesOK(r),
         SimulationSteps(r)
  PROVE  FilesOK(r)'
<1>0. /\ r \in Requests /\ r \notin Replays
      /\ pc \in [Requests -> Stages] /\ status \in [Requests -> Codes]
      /\ path \in [Simulations -> Paths \cup {NoPath}]
  BY CallKinds DEF TypeOK
<1> DEFINE Quiet(to) ==
      /\ pc'[r] = to /\ UNCHANGED <<path, tempFiles, files>>
      /\ pc[r] # "dropped" /\ (files[r] # {} => status'[r] = status[r] \/ status[r] = 0)
      /\ to \in NoFilesYet => pc[r] \in NoFilesYet
      /\ to \in {"compile", "input"} => pc[r] \in {"compile", "input"} \cup NoFilesYet
      /\ to \in {"release", "unlock", "done"} \/ r \notin runStarted' =>
            pc[r] \in {"release", "unlock", "done"} \/ r \notin runStarted
<1>1. ASSUME NEW to, Quiet(to) PROVE FilesOK(r)'
  <2>1. \A f \in files[r] : Torn(r, f) => Torn(r, f)'
    BY <1>1 DEF Torn, External
  <2>2. \A f \in files'[r] : Torn(r, f)' \/ Listed(f, tempFiles'[r], files'[r])
    BY <1>1, <2>1 DEF FilesOK
  <2> QED
    BY <1>1, <2>2 DEF FilesOK
<1> HIDE DEF Quiet
<1>2. CASE BeginSimulation(r)
  <2>1. /\ pc[r] = "new" /\ pc'[r] = "lock" /\ UNCHANGED <<tempFiles, files, runStarted>>
    BY <1>0, <1>2 DEF BeginSimulation, Go, tempVars, recordVars
  <2>2. files[r] = {} /\ tempFiles[r] = <<>>
    BY <2>1 DEF FilesOK, NoFilesYet, WaitStages
  <2> QED
    BY <2>1, <2>2 DEF FilesOK, NoFilesYet, WaitStages
<1>3. CASE Advances(r, "lock", "validate") \/ Advances(r, "validate", "acquire")
  <2>1. Quiet("validate") \/ Quiet("acquire")
    BY <1>0, <1>3 DEF Quiet, Advances, Go, ownVars, NoFilesYet, WaitStages
  <2> QED
    BY <1>1, <2>1
<1>4. CASE Ends(r, "validate", 400) \/ Ends(r, "acquire", 429)
  <2>1. Quiet("finish")
    BY <1>0, <1>4 DEF Quiet, Ends, FinishWith, Go, ownVars, NoFilesYet, WaitStages, FilesOK
  <2> QED
    BY <1>1, <2>1
<1>5. CASE AcquireWorker(r)
  <2>1. Quiet("prepare")
    BY <1>0, <1>5
       DEF Quiet, AcquireWorker, Go, tempVars, NoFilesYet, WaitStages
  <2> QED
    BY <1>1, <2>1
<1>6. ASSUME NEW move \in RunMoves, Advances(r, move[1], move[2]) PROVE FilesOK(r)'
  <2>1. Quiet(move[2])
    BY <1>0, <1>6 DEF Quiet, Advances, Go, ownVars, NoFilesYet, WaitStages, RunMoves
  <2> QED
    BY <1>1, <2>1
<1>7. ASSUME NEW from \in RunStages, NEW code, Ends(r, from, code) PROVE FilesOK(r)'
  <2>1. status[r] = 0 /\ pc[r] = from
    BY <1>7 DEF RunOK, Ends, FinishWith, Go
  <2>2. r \in runStarted /\ r \in runStarted'
    BY <1>7, <2>1 DEF RunOK, Ends, ownVars
  <2>3. Quiet("finish")
    BY <1>0, <1>7, <2>1, <2>2
       DEF Quiet, Ends, FinishWith, Go, ownVars, NoFilesYet, WaitStages, RunStages
  <2> QED
    BY <1>1, <2>3
<1>8. CASE Finish(r)
  <2>1. pc[r] = "finish" /\ pc'[r] \in {"cleanup", "unlock"}
    BY <1>0, <1>8 DEF Finish, Go
  <2>2. pc'[r] = "unlock" => r \notin runStarted
    BY <1>0, <1>8, <2>1 DEF Finish, Go, SimulationOK
  <2>3. Quiet(pc'[r])
    BY <1>8, <2>1, <2>2
       DEF Quiet, Finish, recordVars, tempVars, NoFilesYet, WaitStages
  <2> QED
    BY <1>1, <2>3
<1>9. CASE ReleaseWorker(r) \/ Advances(r, "unlock", "done")
  <2>1. Quiet("unlock") \/ Quiet("done")
    BY <1>0, <1>9
       DEF Quiet, ReleaseWorker, Advances, Go, ownVars, recordVars, tempVars, NoFilesYet,
           WaitStages
  <2> QED
    BY <1>1, <2>1
<1> QED
  BY <1>2, <1>3, <1>4, <1>5, <1>6, <1>7, <1>8, <1>9, OverrideWritten, InputWritten,
     CleanedUp DEF SimulationSteps

(* Every step keeps the files as they should be. *)
LEMMA FilesStep == TypeOK /\ HasWorker /\ RunInv /\ FilesInv /\ [Next]_vars => FilesInv'
<1> SUFFICES ASSUME TypeOK, HasWorker, RunInv, FilesInv, [Next]_vars PROVE FilesInv'
  OBVIOUS
<1>1. ASSUME NEW r \in Requests, SimulationSteps(r) \/ ReplaySteps(r) \/ AdditionSteps(r),
             NEW s \in Simulations \ {r}
      PROVE  FilesOK(s)'
  BY <1>1, OthersUntouched, OthersFiles, FilesUntouched, CallKinds DEF FilesInv
<1>2. ASSUME NEW r \in Simulations, SimulationSteps(r) PROVE FilesInv'
  BY <1>1, <1>2, SimulationFilesStep, CallKinds DEF RunInv, FilesInv
<1>3. ASSUME NEW r \in Replays \cup Additions, ReplaySteps(r) \/ AdditionSteps(r)
      PROVE  FilesInv'
  BY <1>1, <1>3, CallKinds DEF FilesInv
<1>4. CASE ServeFails \/ ShutdownTimeout
  <2>1. /\ \A r \in Requests : pc'[r] \in {"dropped", "new", "done"} /\
              (pc'[r] # "dropped" => pc'[r] = pc[r])
        /\ \A r \in Simulations : tempFiles'[r] = <<>>
        /\ UNCHANGED <<status, path, runStarted, files>>
    BY <1>4 DEF ServeFails, ShutdownTimeout, Exit, Active, InMemory, recordVars
  <2>2. ASSUME NEW r \in Simulations PROVE FilesOK(r)'
    <3>1. FilesOK(r) /\ r \in Requests
      BY CallKinds DEF FilesInv
    <3>2. CASE pc'[r] = "dropped"
      BY <2>1, <3>2 DEF FilesOK, NoFilesYet, WaitStages
    <3>3. CASE pc'[r] # "dropped"
      <4>1. pc'[r] = pc[r] /\ tempFiles[r] = <<>> /\ tempFiles'[r] = tempFiles[r]
        BY <2>1, <3>1, <3>3 DEF FilesOK, NoFilesYet, WaitStages
      <4> QED
        BY <2>1, <3>1, <4>1, FilesUntouched
    <3> QED
      BY <3>2, <3>3
  <2> QED
    BY <2>2 DEF FilesInv
<1>5. CASE ServerSteps
  BY <1>5, FilesUntouched DEF ServerSteps, ownVars, FilesInv
<1> QED
  BY <1>2, <1>3, <1>4, <1>5, Steps

(* A finished run leaves none of its own temporary files on the disk, on no *)
(* path through the handler, whatever failed and whatever other calls did   *)
(* meanwhile; the one exception is a state override of an external run      *)
(* whose write stopped halfway.                                             *)
THEOREM FilesRemoved == Spec => []NoResidue
<1>1. Init => PoolInv /\ RunInv /\ FilesInv
  <2> SUFFICES ASSUME Init PROVE FilesInv
    BY PoolInit, RunInit
  <2>1. \A r \in Simulations : files[r] = {} /\ tempFiles[r] = <<>>
    BY DEF Init, InMemory
  <2>2. \A r \in Simulations : pc[r] = "new"
    BY CallKinds DEF Init
  <2> QED
    BY <2>1, <2>2 DEF FilesInv, FilesOK, NoFilesYet, WaitStages
<1>2. PoolInv /\ RunInv /\ FilesInv /\ [Next]_vars => (PoolInv /\ RunInv /\ FilesInv)'
  BY PoolStep, RunStep, FilesStep DEF PoolInv
<1>3. PoolInv /\ RunInv /\ FilesInv => NoResidue
  <2> SUFFICES ASSUME FilesInv, NEW r \in Simulations, pc[r] = "done", files[r] # {}
               PROVE  External(r) /\ files[r] = {"state"} /\ status[r] = 500
    BY DEF NoResidue
  <2>1. FilesOK(r) /\ tempFiles[r] = <<>>
    BY DEF FilesInv, FilesOK
  <2>2. \A f \in files[r] : Torn(r, f)
    BY <2>1 DEF FilesOK, Listed
  <2> QED
    BY <2>2 DEF Torn
<1> QED
  BY <1>1, <1>2, <1>3, PTL DEF Spec

-----------------------------------------------------------------------------
(* The server that stops by itself. *)

(* As many different workers as there are, are all of them. *)
LEMMA AllWorkers ==
  ASSUME NEW q \in Seq(Workers), Len(q) = WorkerCount,
         \A i, j \in DOMAIN q : q[i] = q[j] => i = j
  PROVE  \A w \in Workers : \E i \in DOMAIN q : q[i] = w
<1> DEFINE places == 1 .. WorkerCount
<1>1. q \in Injection(places, Workers)
  BY WorkerCountType DEF Injection, IsInjective
<1>2. IsFiniteSet(Workers) /\ Cardinality(Workers) = WorkerCount
  BY WorkerCountType, FS_Interval DEF Workers
<1>3. Cardinality(places) = WorkerCount
  BY WorkerCountType, FS_Interval
<1>4. q \in Surjection(places, Workers)
  BY <1>1, <1>2, <1>3, FS_Injection
<1> QED
  BY <1>4, WorkerCountType DEF Surjection

(* The lock belongs to a handler that is under way and that unlocks it. *)
MutexOwner == mutex # None => mutex \in Simulations \cup Additions /\ Active(mutex)

(* What Close has in hand is stopped; once it is through, everything is. *)
AnvilsDown ==
    /\ server = "closing" => \A i \in DOMAIN held : anvil[held[i]] # "running"
    /\ server = "stopped" => \A w \in Workers : anvil[w] # "running"

(* A handler that may hold the lock ends with Unlock, or with the server. *)
LEMMA UnlockEnds ==
  ASSUME TypeOK, [Next]_vars, NEW r \in Simulations \cup Additions, Active(r), ~ Active(r)'
  PROVE  Unlock(r) \/ ServeFails \/ ShutdownTimeout
<1>0. pc \in [Requests -> Stages] /\ r \in Requests /\ r \notin Replays
  BY CallKinds DEF TypeOK
<1>a. pc'[r] \in {"new", "done", "dropped"} /\ pc[r] \notin {"new", "done", "dropped"}
  BY DEF Active
<1>b. Simulations \subseteq Requests /\ Replays \subseteq Requests /\ Additions \subseteq Requests
  BY CallKinds
<1>1. \A s \in Requests \ {r} : \A from, to : ~ Go(s, from, to)
  BY <1>0, <1>a DEF Go
<1>2. \A from, to : Go(r, from, to) => \/ to = "done" /\ from # "new"
                                      \/ to \in {"new", "dropped"}
  BY <1>0, <1>a DEF Go
<1>3. \A s \in Requests : \A from, code : ~ FinishWith(s, from, code)
  BY <1>1, <1>2 DEF FinishWith
<1>4. ASSUME NEW s \in Simulations, BeginSimulation(s) \/ Simulate(s) \/ AcquireTimeout(s)
      PROVE  FALSE
  BY <1>b, <1>1, <1>2, <1>3, <1>4
     DEF BeginSimulation, Simulate, LockDefaultProjectIfUsed, ValidateRequest,
         AcquireWorker, AcquireTimeout, PrepareLocal, PrepareExternal, PrepareFails,
         BuildProjectSrc, ReadStateOverride, WriteStateOverrideSource,
         WriteStateOverrideSourceFails, CompileStateOverride, WriteSimulationInput,
         WriteSimulationInputFails, Fork, ForkFails, ForgeTest, Cleanup, ReleaseWorker
<1>5. ASSUME NEW s \in Replays, BeginReplay(s) \/ CastRun(s) PROVE FALSE
  BY <1>0, <1>b, <1>1, <1>3, <1>5 DEF BeginReplay, CastRun
<1>6. ASSUME NEW s \in Additions, BeginAddition(s) \/ AddSourceBeforeInit(s) \/ ForgeInit(s)
      PROVE  FALSE
  BY <1>b, <1>1, <1>2, <1>6
     DEF BeginAddition, AddSourceBeforeInit, LockDefaultProject, EnsureDefaultProject,
         ForgeInit, ResetDefaultProjectDirs, WriteSource, FailWith
<1>7. ASSUME NEW s \in Simulations \cup Replays, Run(s) PROVE FALSE
  BY <1>0, <1>b, <1>1, <1>2, <1>3, <1>7 DEF Run, Analyze, Finish
<1>8. ASSUME NEW s \in Simulations \cup Additions, Unlock(s) PROVE s = r
  BY <1>b, <1>1, <1>8 DEF Unlock
<1>9. ~ UNCHANGED pc
  BY <1>a
<1> QED
  BY <1>4, <1>5, <1>6, <1>7, <1>8, <1>9
     DEF Next, Server, Shutdown, Drained, CloseWorker, Closed, Restart, callVars, vars

(* The steps that move the lock. *)
LEMMA MutexSteps ==
  [Next]_vars =>
    \/ UNCHANGED mutex
    \/ \E r \in Simulations : LockDefaultProjectIfUsed(r)
    \/ \E r \in Additions : LockDefaultProject(r)
    \/ mutex' = None
  BY DEF Next, Simulate, Run, AddSourceBeforeInit, Server, vars, Shutdown, Drained,
         CloseWorker, Closed, Restart, ServeFails, ShutdownTimeout, Exit,
         BeginSimulation, ValidateRequest, AcquireWorker, AcquireTimeout, PrepareLocal,
         PrepareExternal, PrepareFails, BuildProjectSrc, ReadStateOverride,
         WriteStateOverrideSource, WriteStateOverrideSourceFails, CompileStateOverride,
         WriteSimulationInput, WriteSimulationInputFails, Fork, ForkFails, ForgeTest,
         Cleanup, ReleaseWorker, Analyze, Finish, Unlock, BeginReplay, CastRun,
         BeginAddition, EnsureDefaultProject, ForgeInit, ResetDefaultProjectDirs, WriteSource

(* Every step keeps the lock with a handler that gives it back. *)
LEMMA MutexStep == TypeOK /\ MutexOwner /\ [Next]_vars => MutexOwner'
<1> SUFFICES ASSUME TypeOK, MutexOwner, [Next]_vars, mutex' # None
             PROVE  mutex' \in Simulations \cup Additions /\ Active(mutex)'
  BY DEF MutexOwner
<1>1. CASE mutex' = mutex
  <2>1. mutex \in Simulations \cup Additions /\ Active(mutex)
    BY <1>1 DEF MutexOwner
  <2>2. ~ Unlock(mutex)
    BY <1>1 DEF Unlock
  <2>3. ~ (ServeFails \/ ShutdownTimeout)
    BY DEF ServeFails, ShutdownTimeout, Exit
  <2>4. pc'[mutex] \notin {"new", "done", "dropped"}
    BY <2>1, <2>2, <2>3, UnlockEnds DEF Active
  <2> QED
    BY <1>1, <2>1, <2>4 DEF Active
<1>2. ASSUME NEW r \in Simulations \cup Additions, mutex' = r,
             LockDefaultProjectIfUsed(r) \/ LockDefaultProject(r)
      PROVE  mutex' \in Simulations \cup Additions /\ Active(mutex)'
  <2>1. pc'[r] \in {"validate", "ensure"}
    BY <1>2, CallKinds DEF LockDefaultProjectIfUsed, LockDefaultProject, Go, TypeOK
  <2> QED
    BY <1>2, <2>1 DEF Active
<1> QED
  BY <1>1, <1>2, MutexSteps DEF LockDefaultProjectIfUsed, LockDefaultProject

(* Every step keeps what Close has stopped. *)
LEMMA AnvilsStep ==
  PoolInv /\ PoolKeepsItsSize /\ AnvilsDown /\ [Next]_vars => AnvilsDown'
<1> SUFFICES ASSUME PoolInv, PoolKeepsItsSize, AnvilsDown, [Next]_vars PROVE AnvilsDown'
  OBVIOUS
<1>0. /\ ServerDown /\ OneRunPerWorker /\ HasWorker
      /\ idle \in Seq(Workers) /\ held \in Seq(Workers)
      /\ anvil \in [Workers -> {"stopped", "running", "orphan"}]
  BY DEF PoolInv, TypeOK
<1>1. CASE Handler
  BY <1>1, HandlerFacts DEF AnvilsDown, Alive
<1>2. CASE Shutdown \/ ServeFails \/ ShutdownTimeout \/ Restart
  BY <1>2 DEF Shutdown, ServeFails, ShutdownTimeout, Exit, Restart, AnvilsDown
<1>3. CASE Drained
  <2>1. server' = "closing" /\ held' = <<>>
    BY <1>0, <1>3 DEF Drained, ServerDown, poolVars
  <2> QED
    BY <2>1 DEF AnvilsDown
<1>4. CASE CloseWorker
  <2>1. /\ server = "closing" /\ server' = "closing" /\ idle # <<>>
        /\ held' = Append(held, Head(idle))
        /\ anvil' = [anvil EXCEPT ![Head(idle)] = IF @ = "orphan" THEN @ ELSE "stopped"]
    BY <1>4 DEF CloseWorker
  <2>2. Head(idle) \in Workers
    BY <1>0, <2>1, TailFacts
  <2>3. \A i \in DOMAIN held' : \/ i \in DOMAIN held /\ held'[i] = held[i]
                                \/ held'[i] = Head(idle)
    BY <1>0, <2>1, <2>2, AppendFacts
  <2>4. anvil'[Head(idle)] # "running"
    BY <1>0, <2>1, <2>2
  <2>5. \A i \in DOMAIN held : held[i] \in Workers
    BY <1>0
  <2>6. \A w \in Workers : anvil[w] # "running" => anvil'[w] # "running"
    BY <1>0, <2>1, <2>2
  <2> QED
    BY <2>1, <2>3, <2>4, <2>5, <2>6 DEF AnvilsDown
<1>5. CASE Closed
  <2>1. /\ server = "closing" /\ server' = "stopped" /\ idle = <<>> /\ anvil' = anvil
    BY <1>5 DEF Closed
  <2>2. Holders = {}
    BY <1>0, <2>1, CallKinds DEF ServerDown, Holders
  <2>3. Len(held) = WorkerCount
    BY <1>0, <2>1, <2>2, FS_EmptySet, WorkerCountType DEF PoolKeepsItsSize
  <2>4. \A w \in Workers : \E i \in DOMAIN held : held[i] = w
    BY <1>0, <2>3, AllWorkers DEF OneRunPerWorker
  <2> QED
    BY <2>1, <2>4 DEF AnvilsDown
<1>6. CASE UNCHANGED vars
  BY <1>6 DEF vars, poolVars, AnvilsDown
<1> QED
  BY <1>1, <1>2, <1>3, <1>4, <1>5, <1>6 DEF Next, Handler, Server

(* A server that stops by itself has stopped every Anvil it started, has    *)
(* its workers back, and holds no lock and counts no user of a copy any     *)
(* more, for any number of workers, calls, signals and restarts.            *)
THEOREM StopsClean == Spec => []CleanStop
<1> DEFINE Inv == PoolInv /\ PoolKeepsItsSize /\ MutexOwner /\ AnvilsDown /\ CountInv
<1>1. Init => Inv
  <2> SUFFICES ASSUME Init PROVE Inv
    OBVIOUS
  <2>1. PoolInv /\ CountInv
    BY PoolInit, CopyInit DEF CopyInv
  <2>2. \A r \in Simulations : worker[r] = None
    BY DEF Init, InMemory
  <2>3. PoolKeepsItsSize
    BY <2>1, <2>2, FreshPool DEF Init, PoolInv
  <2>4. MutexOwner /\ AnvilsDown
    BY DEF Init, MutexOwner, AnvilsDown
  <2> QED
    BY <2>1, <2>3, <2>4
<1>2. Inv /\ [Next]_vars => Inv'
  BY PoolStep, SizeStep, MutexStep, AnvilsStep, CountStep DEF PoolInv
<1>3. Inv => CleanStop
  <2> SUFFICES ASSUME Inv, server = "stopped"
               PROVE  /\ \A w \in Workers : anvil[w] # "running"
                      /\ Len(idle) = WorkerCount
                      /\ mutex = None
                      /\ \A root \in Roots : testCopies[root] = 0
    BY DEF CleanStop
  <2>1. held = <<>> /\ \A r \in Requests : ~ Active(r)
    BY DEF PoolInv, ServerDown
  <2>2. Holders = {}
    BY <2>1, CallKinds DEF Holders
  <2>3. Len(idle) = WorkerCount
    BY <2>1, <2>2, FS_EmptySet, WorkerCountType DEF PoolKeepsItsSize, PoolInv, TypeOK
  <2>4. mutex = None
    BY <2>1, CallKinds DEF MutexOwner
  <2>5. \A r \in Simulations : cleanupFuncs[r] = None
    BY <2>1, CallKinds DEF CountInv, CleanupOwner, CopyStages, SourceStages, Active
  <2>6. \A root \in Roots : Users(root) = {}
    BY <2>5, PathAssumption DEF Users
  <2>7. \A root \in Roots : testCopies[root] = 0
    BY <2>6, FS_EmptySet DEF CountInv, CountIsUsers
  <2> QED
    BY <2>3, <2>4, <2>7 DEF AnvilsDown
<1> HIDE DEF Inv
<1> QED
  BY <1>1, <1>2, <1>3, PTL DEF Spec

-----------------------------------------------------------------------------
(* The refinement of RunLifecycle. *)

phases == [r \in Calls |-> Phase(r)]

RefinementInv == PoolInv /\ PoolKeepsItsSize /\ RunInv

(* The phase of a simulation, by its place, *)
PlaceTells(r) ==
    /\ pc[r] = "new" => Phase(r) = "absent"
    /\ pc[r] \in {"lock", "validate", "acquire"} => Phase(r) = "waiting"
    /\ pc[r] \in RunStages \cup {"cleanup", "release"} => Phase(r) = "running"
    /\ pc[r] = "unlock" => Phase(r) = "leaving"

(* The bookkeeping of the code is enough to read it off, ... *)
LEMMA PhaseOfSimulation ==
  \A r \in Simulations : RunOK(r) /\ SimulationOK(r) => PlaceTells(r)
<1> SUFFICES ASSUME NEW r \in Simulations, RunOK(r), SimulationOK(r) PROVE PlaceTells(r)
  OBVIOUS
<1>1. CASE pc[r] = "new"
  BY <1>1 DEF Phase, RunStages, PlaceTells
<1>2. CASE pc[r] \in {"lock", "validate", "acquire"}
  BY <1>2 DEF Phase, RunStages, RunOK, WaitStages, PlaceTells
<1>3. CASE pc[r] \in RunStages \cup {"cleanup", "release"}
  BY <1>3 DEF Phase, RunStages, RunOK, PlaceTells
<1>4. CASE pc[r] \in {"finish", "unlock", "done", "dropped"}
  BY <1>4 DEF Phase, RunStages, PlaceTells
<1> QED
  BY <1>1, <1>2, <1>3, <1>4 DEF SimulationOK, SimulationStages, WaitStages

(* ... before and after a step. *)
LEMMA PhaseOfSimulationNext ==
  (\A r \in Simulations : RunOK(r) /\ SimulationOK(r) => PlaceTells(r))'
  BY PhaseOfSimulation, PTL

(* The phase of a call that calls finish or is over. *)
LEMMA PhaseAtTheEnd ==
  ASSUME NEW r
  PROVE  /\ pc[r] = "finish" => Phase(r) = IF r \in runStarted THEN "running" ELSE "waiting"
         /\ pc[r] = "done" => Phase(r) = "answered"
         /\ pc'[r] = "finish" =>
               Phase(r)' = IF r \in runStarted' THEN "running" ELSE "waiting"
         /\ pc'[r] = "done" => Phase(r)' = "answered"
         /\ pc'[r] = "unlock" => Phase(r)' = "leaving"
  BY DEF Phase

(* A step of one call moves the phase of that call alone. *)
LEMMA PhaseMove ==
  ASSUME TypeOK, NEW r \in Calls, SimulationSteps(r) \/ ReplaySteps(r)
  PROVE  /\ phases[r] = Phase(r)
         /\ phases' = [phases EXCEPT ![r] = Phase(r)']
<1>1. \A s \in Calls \ {r} : Phase(s)' = Phase(s)
  BY OthersUntouched, CallKinds DEF Calls, Phase
<1>2. Calls' = Calls
  BY DEF Calls
<1> QED
  BY <1>1, <1>2 DEF phases

(* Who runs has a worker. *)
LEMMA RunningHolds ==
  ASSUME HasWorker, RunInv
  PROVE  {r \in Simulations : phases[r] = "running"} \subseteq Holders
<1> SUFFICES ASSUME NEW r \in Simulations, phases[r] = "running" PROVE r \in Holders
  OBVIOUS
<1>1. Phase(r) = "running"
  BY DEF phases, Calls
<1>2. pc[r] \notin {"new", "dropped", "unlock", "done"} /\ r \in runStarted
  BY <1>1 DEF Phase
<1>3. pc[r] \in RunStages \cup {"finish", "cleanup", "release"}
  BY <1>2 DEF RunInv, RunOK, SimulationOK, SimulationStages
<1>4. worker[r] # None
  BY <1>2, <1>3 DEF RunInv, SimulationOK, HasWorker, Served, RunStages
<1> QED
  BY <1>3, <1>4 DEF Holders, Active, RunStages

(* While a worker is idle, fewer simulations run than there are workers. *)
LEMMA RoomForOne ==
  ASSUME RefinementInv, idle # <<>>
  PROVE  Cardinality({r \in Simulations : phases[r] = "running"}) < WorkerCount
<1>0. /\ HasWorker /\ RunInv /\ PoolKeepsItsSize
      /\ idle \in Seq(Workers) /\ held \in Seq(Workers)
  BY DEF RefinementInv, PoolInv, TypeOK
<1> DEFINE running == {r \in Simulations : phases[r] = "running"}
<1>1. IsFiniteSet(Holders) /\ Cardinality(Holders) \in Nat
  BY <1>0, HoldersAre
<1>2. running \in SUBSET Holders
  BY <1>0, RunningHolds
<1>3. IsFiniteSet(running) /\ Cardinality(running) <= Cardinality(Holders)
  BY <1>1, <1>2, FS_Subset
<1>4. Cardinality(running) \in Nat
  BY <1>3, FS_CardinalityType
<1>5. Len(idle) > 0 /\ Len(held) >= 0
  BY <1>0
<1> HIDE DEF running
<1>6. Cardinality(running) < WorkerCount
  BY <1>0, <1>1, <1>3, <1>4, <1>5, WorkerCountType DEF PoolKeepsItsSize
<1> QED
  BY <1>6 DEF running

(* The step of a simulation is a step of the abstract run, or none. *)
LEMMA SimulationRefines ==
  ASSUME RefinementInv, RefinementInv', NEW r \in Simulations, SimulationSteps(r)
  PROVE  Lifecycle!Next \/ UNCHANGED <<phases, recorded>>
<1>0. /\ TypeOK /\ RunOK(r) /\ SimulationOK(r) /\ RunOK(r)' /\ SimulationOK(r)'
      /\ r \in Calls /\ r \in Requests /\ r \notin Replays
      /\ pc \in [Requests -> Stages]
  BY CallKinds DEF RefinementInv, PoolInv, RunInv, Calls, TypeOK
<1>a. PlaceTells(r) /\ PlaceTells(r)'
  BY <1>0, PhaseOfSimulation, PhaseOfSimulationNext
<1>1. phases[r] = Phase(r) /\ phases' = [phases EXCEPT ![r] = Phase(r)']
  BY <1>0, PhaseMove
<1>2. ASSUME Phase(r)' = Phase(r) PROVE UNCHANGED phases
  BY <1>1, <1>2 DEF phases
<1>3. ASSUME NEW from, NEW to, Phase(r) = from, Phase(r)' = to
      PROVE  Lifecycle!Move(r, from, to)
  BY <1>1, <1>3 DEF Lifecycle!Move, phases
<1> USE DEF Lifecycle!Next
<1>4. CASE BeginSimulation(r)
  <2>1. pc[r] = "new" /\ pc'[r] = "lock" /\ recorded' = recorded
    BY <1>0, <1>4 DEF BeginSimulation, Go, recordVars
  <2>2. Lifecycle!Move(r, "absent", "waiting")
    BY <1>a, <1>3, <2>1 DEF PlaceTells
  <2> QED
    BY <1>0, <2>1, <2>2 DEF Lifecycle!Arrive
<1>5. CASE Advances(r, "lock", "validate") \/ Advances(r, "validate", "acquire")
  <2>1. /\ pc[r] \in {"lock", "validate", "acquire"} /\ recorded' = recorded
        /\ pc'[r] \in {"lock", "validate", "acquire"}
    BY <1>0, <1>5 DEF Advances, Go, ownVars
  <2> QED
    BY <1>a, <1>2, <2>1 DEF PlaceTells
<1>6. CASE Ends(r, "validate", 400) \/ Ends(r, "acquire", 429)
  <2>1. /\ pc[r] \in {"lock", "validate", "acquire"} /\ pc'[r] = "finish"
        /\ recorded' = recorded /\ runStarted' = runStarted
    BY <1>0, <1>6 DEF Ends, FinishWith, Go, ownVars
  <2>2. r \notin runStarted
    BY <1>0, <2>1 DEF RunOK, WaitStages
  <2> QED
    BY <1>a, <1>2, <2>1, <2>2, PhaseAtTheEnd DEF PlaceTells
<1>7. CASE AcquireWorker(r)
  <2>1. pc[r] = "acquire" /\ pc'[r] = "prepare" /\ idle # <<>> /\ recorded' = recorded
    BY <1>0, <1>7 DEF AcquireWorker, Go
  <2>2. Lifecycle!Move(r, "waiting", "running")
    BY <1>a, <1>3, <2>1 DEF PlaceTells, RunStages
  <2>3. Cardinality(Lifecycle!Running) < WorkerCount
    BY <2>1, RoomForOne DEF Lifecycle!Running, phases
  <2>4. Lifecycle!Cardinality(Lifecycle!Running) = Cardinality(Lifecycle!Running)
    BY DEF Cardinality, Lifecycle!Cardinality
  <2>5. Lifecycle!Start(r)
    BY <1>0, <2>1, <2>2, <2>3, <2>4 DEF Lifecycle!Start
  <2> QED
    BY <1>0, <2>5
<1>8. ASSUME pc[r] \in RunStages \cup {"cleanup"}, recorded' = recorded,
             pc'[r] \in RunStages \cup {"cleanup", "release"}
      PROVE  UNCHANGED <<phases, recorded>>
  BY <1>a, <1>2, <1>8 DEF PlaceTells
<1>9. CASE (\E move \in RunMoves : Advances(r, move[1], move[2])) \/ Cleanup(r)
  <2>1. ASSUME NEW move \in RunMoves, Advances(r, move[1], move[2])
        PROVE  UNCHANGED <<phases, recorded>>
    BY <1>0, <1>8, <2>1 DEF RunMoves, RunStages, Advances, Go, ownVars
  <2>2. CASE Cleanup(r)
    BY <1>0, <1>8, <2>2 DEF Cleanup, Go, recordVars
  <2> QED
    BY <1>9, <2>1, <2>2
<1>10. CASE WriteStateOverrideSource(r) \/ WriteSimulationInput(r)
  BY <1>0, <1>8, <1>10
     DEF WriteStateOverrideSource, WriteSimulationInput, RunStages, Go, recordVars
<1>11. ASSUME NEW from \in RunStages, NEW code, FinishWith(r, from, code),
              UNCHANGED <<recorded, runStarted>>
       PROVE  UNCHANGED <<phases, recorded>>
  <2>1. pc[r] \in RunStages /\ pc'[r] = "finish" /\ r \in runStarted'
    BY <1>0, <1>11 DEF FinishWith, Go, RunOK
  <2> QED
    BY <1>a, <1>2, <1>11, <2>1, PhaseAtTheEnd DEF PlaceTells
<1>12. CASE \/ \E from \in RunStages, code \in {200, 400, 500, 502} : Ends(r, from, code)
            \/ WriteStateOverrideSourceFails(r) \/ WriteSimulationInputFails(r)
  BY <1>11, <1>12
     DEF Ends, ownVars, recordVars, WriteStateOverrideSourceFails,
         WriteSimulationInputFails, RunStages
<1>13. CASE Finish(r)
  <2>1. /\ pc[r] = "finish" /\ runStarted' = runStarted
        /\ pc'[r] = IF worker[r] = None THEN "unlock" ELSE "cleanup"
        /\ \/ recorded' = IF r \in runStarted THEN recorded \cup {r} ELSE recorded
           \/ recorded' = recorded
    BY <1>0, <1>13 DEF Finish, Go
  <2>2. worker[r] = None <=> r \notin runStarted
    BY <1>0, <2>1 DEF SimulationOK
  <2>3. CASE r \in runStarted
    <3>1. Phase(r) = "running" /\ Phase(r)' = "running"
      BY <1>a, <2>1, <2>2, <2>3, PhaseAtTheEnd DEF PlaceTells
    <3>2. UNCHANGED phases /\ phases[r] = "running"
      BY <1>1, <1>2, <3>1
    <3>3. recorded' = recorded \/ Lifecycle!Keep(r)
      BY <2>1, <2>3, <3>2 DEF Lifecycle!Keep, phases
    <3> QED
      BY <1>0, <3>2, <3>3
  <2>4. CASE r \notin runStarted
    <3>1. Phase(r) = "waiting" /\ Phase(r)' = "leaving" /\ recorded' = recorded
      BY <2>1, <2>2, <2>4, PhaseAtTheEnd
    <3> QED
      BY <1>0, <1>3, <3>1 DEF Lifecycle!Refuse
  <2> QED
    BY <2>3, <2>4
<1>14. CASE ReleaseWorker(r)
  <2>1. pc[r] = "release" /\ pc'[r] = "unlock" /\ recorded' = recorded
    BY <1>0, <1>14 DEF ReleaseWorker, Go, recordVars
  <2>2. Lifecycle!Move(r, "running", "leaving")
    BY <1>a, <1>3, <2>1, PhaseAtTheEnd DEF PlaceTells
  <2>3. ~ DiskFaults => r \in recorded
    BY <1>0, <2>1 DEF RunOK
  <2> QED
    BY <1>0, <2>1, <2>2, <2>3 DEF Lifecycle!Leave
<1>15. CASE Advances(r, "unlock", "done")
  <2>1. pc[r] = "unlock" /\ pc'[r] = "done" /\ recorded' = recorded
    BY <1>0, <1>15 DEF Advances, Go, ownVars
  <2>2. Lifecycle!Move(r, "leaving", "answered")
    BY <1>a, <1>3, <2>1, PhaseAtTheEnd DEF PlaceTells
  <2> QED
    BY <1>0, <2>1, <2>2 DEF Lifecycle!Answer
<1> QED
  BY <1>4, <1>5, <1>6, <1>7, <1>9, <1>10, <1>12, <1>13, <1>14, <1>15 DEF SimulationSteps

(* The step of a replay is one too: it starts as it arrives, and is kept    *)
(* and answered at once.                                                    *)
LEMMA ReplayRefines ==
  ASSUME RefinementInv, RefinementInv', NEW r \in Replays, ReplaySteps(r)
  PROVE  Lifecycle!Next \/ UNCHANGED <<phases, recorded>>
<1>0. /\ TypeOK /\ RunOK(r) /\ RunOK(r)'
      /\ r \in Calls /\ r \in Requests /\ r \notin Simulations
      /\ pc \in [Requests -> Stages]
  BY CallKinds DEF RefinementInv, PoolInv, RunInv, Calls, TypeOK
<1>1. phases[r] = Phase(r) /\ phases' = [phases EXCEPT ![r] = Phase(r)']
  BY <1>0, PhaseMove
<1>2. ASSUME Phase(r)' = Phase(r) PROVE UNCHANGED phases
  BY <1>1, <1>2 DEF phases
<1>3. ASSUME NEW from, NEW to, Phase(r) = from, Phase(r)' = to
      PROVE  Lifecycle!Move(r, from, to)
  BY <1>1, <1>3 DEF Lifecycle!Move, phases
<1>a. pc[r] = "new" => Phase(r) = "absent"
  BY DEF Phase
<1>b. /\ pc[r] \in {"cast", "analyze"} => r \in runStarted /\ Phase(r) = "running"
      /\ pc'[r] \in {"cast", "analyze"} => Phase(r)' = "running"
  BY <1>0 DEF Phase, RunOK, RunStages
<1> USE DEF Lifecycle!Next
<1>4. CASE BeginReplay(r)
  <2>1. /\ pc[r] = "new" /\ recorded' = recorded
        /\ \/ pc'[r] = "cast"
           \/ pc'[r] = "finish" /\ runStarted' = runStarted
    BY <1>0, <1>4 DEF BeginReplay, FinishWith, Go
  <2>2. r \notin runStarted
    BY <1>0, <2>1 DEF RunOK, WaitStages
  <2>3. Lifecycle!Move(r, "absent", "running") \/ Lifecycle!Move(r, "absent", "waiting")
    BY <1>a, <1>b, <1>3, <2>1, <2>2, PhaseAtTheEnd
  <2> QED
    BY <1>0, <2>1, <2>3 DEF Lifecycle!Arrive
<1>5. CASE Advances(r, "cast", "analyze")
  <2>1. pc[r] = "cast" /\ pc'[r] = "analyze" /\ recorded' = recorded
    BY <1>0, <1>5 DEF Advances, Go, ownVars
  <2> QED
    BY <1>b, <1>2, <2>1
<1>6. ASSUME NEW from \in {"cast", "analyze"}, NEW code \in {200, 502}, Ends(r, from, code)
      PROVE  UNCHANGED <<phases, recorded>>
  <2>1. /\ pc[r] = from /\ pc'[r] = "finish"
        /\ recorded' = recorded /\ runStarted' = runStarted
    BY <1>0, <1>6 DEF Ends, FinishWith, Go, ownVars
  <2> QED
    BY <1>b, <1>2, <2>1, PhaseAtTheEnd
<1>7. CASE Finish(r)
  <2>1. /\ pc[r] = "finish" /\ pc'[r] = "done"
        /\ \/ recorded' = IF r \in runStarted THEN recorded \cup {r} ELSE recorded
           \/ DiskFaults /\ recorded' = recorded
    BY <1>0, <1>7 DEF Finish, Go
  <2>2. CASE r \in runStarted
    <3>1. Lifecycle!Move(r, "running", "answered")
      BY <1>3, <2>1, <2>2, PhaseAtTheEnd
    <3> QED
      BY <1>0, <2>1, <2>2, <3>1 DEF Lifecycle!KeepAndAnswer
  <2>3. CASE r \notin runStarted
    <3>1. Lifecycle!Move(r, "waiting", "answered") /\ recorded' = recorded
      BY <1>3, <2>1, <2>3, PhaseAtTheEnd
    <3> QED
      BY <1>0, <3>1 DEF Lifecycle!Refuse
  <2> QED
    BY <2>2, <2>3
<1> QED
  BY <1>4, <1>5, <1>6, <1>7 DEF ReplaySteps

(* Every step of the service is a step of RunLifecycle, or leaves its       *)
(* variables alone.                                                         *)
LEMMA StepRefines ==
  ASSUME RefinementInv, RefinementInv', [Next]_vars
  PROVE  Lifecycle!Next \/ UNCHANGED <<phases, recorded>>
<1>0. TypeOK
  BY DEF RefinementInv, PoolInv
<1>1. ASSUME NEW r \in Additions, AdditionSteps(r)
      PROVE  UNCHANGED <<phases, recorded>>
  <2>1. \A s \in Calls : pc'[s] = pc[s]
    BY <1>0, <1>1, CallKinds DEF AdditionSteps, TypeOK, Calls
  <2> QED
    BY <1>1, <2>1 DEF AdditionSteps, phases, Phase, Calls
<1>2. CASE ServeFails \/ ShutdownTimeout
  <2>1. \A r \in Calls : phases[r] \in {"waiting", "running", "leaving"} <=> Active(r)
    BY DEF phases, Phase, Active
  <2>2. \A r \in Calls : Phase(r)' = IF Active(r) THEN "dropped" ELSE Phase(r)
    BY <1>2, CallKinds DEF ServeFails, ShutdownTimeout, Exit, Phase, Calls, Active, recordVars
  <2>3. phases' = [r \in Calls |-> IF phases[r] \in {"waiting", "running", "leaving"}
                                   THEN "dropped" ELSE phases[r]]
    BY <2>1, <2>2 DEF phases, Calls
  <2>4. recorded' = recorded
    BY <1>2 DEF ServeFails, ShutdownTimeout, Exit, recordVars
  <2> QED
    BY <2>3, <2>4 DEF Lifecycle!Next, Lifecycle!Drop, phases
<1>3. CASE ServerSteps
  BY <1>3 DEF ServerSteps, ownVars, phases, Phase, Calls
<1> QED
  BY <1>0, <1>1, <1>2, <1>3, Steps, SimulationRefines, ReplayRefines

(* The service implements RunLifecycle: for any number of calls, workers,   *)
(* signals and restarts, no more simulations run than there are workers,    *)
(* and no run gives its place to another, or is answered, before its record *)
(* is kept (on a disk without faults).                                      *)
THEOREM ImplementsLifecycle == Spec => ImplementsRunLifecycle
<1>1. Init => RefinementInv /\ Lifecycle!Init
  <2> SUFFICES ASSUME Init PROVE RefinementInv /\ Lifecycle!Init
    OBVIOUS
  <2>1. PoolInv /\ RunInv
    BY PoolInit, RunInit
  <2>2. \A r \in Simulations : worker[r] = None
    BY DEF Init, InMemory
  <2>3. PoolKeepsItsSize
    BY <2>1, <2>2, FreshPool DEF Init, PoolInv
  <2>4. \A r \in Calls : Phase(r) = "absent"
    BY CallKinds DEF Init, Calls, Phase
  <2>5. Lifecycle!Init
    BY <2>4 DEF Init, Lifecycle!Init
  <2> QED
    BY <2>1, <2>3, <2>5 DEF RefinementInv
<1>2. RefinementInv /\ [Next]_vars => RefinementInv'
  BY PoolStep, SizeStep, RunStep DEF RefinementInv, PoolInv
<1>3. RefinementInv /\ RefinementInv' /\ [Next]_vars
         => [Lifecycle!Next]_<<[r \in Calls |-> Phase(r)], recorded>>
  BY StepRefines DEF phases
<1> QED
  BY <1>1, <1>2, <1>3, PTL DEF Spec, ImplementsRunLifecycle, Lifecycle!Spec

-----------------------------------------------------------------------------
(* What RunLifecycle promises, and with it the service.                      *)

(* The simulations that run, and the phases, are within their bounds.        *)
WithinCapacity ==
    /\ phases \in [Calls -> Lifecycle!Phases]
    /\ IsFiniteSet(Lifecycle!Running)
    /\ Cardinality(Lifecycle!Running) <= WorkerCount

(* A step that lets no simulation begin to run leaves fewer, or as many.     *)
LEMMA FewerRun ==
  ASSUME WithinCapacity, (phases \in [Calls -> Lifecycle!Phases])',
         Lifecycle!Running' \subseteq Lifecycle!Running
  PROVE  WithinCapacity'
<1>1. /\ IsFiniteSet(Lifecycle!Running')
      /\ Cardinality(Lifecycle!Running') <= Cardinality(Lifecycle!Running)
  BY FS_Subset DEF WithinCapacity
<1>2. Cardinality(Lifecycle!Running') \in Nat /\ Cardinality(Lifecycle!Running) \in Nat
  BY <1>1, FS_CardinalityType DEF WithinCapacity
<1> QED
  BY <1>1, <1>2, WorkerCountType DEF WithinCapacity, WorkerCount

(* A simulation begins to run only when there is room for it.                *)
LEMMA CapacityStep ==
  ASSUME WithinCapacity, [Lifecycle!Next]_<<phases, recorded>>
  PROVE  WithinCapacity'
<1> DEFINE Moves(c, from, to) == phases[c] = from /\ phases' = [phases EXCEPT ![c] = to]
<1>0. /\ Simulations \subseteq Calls
      /\ Lifecycle!Running = {c \in Simulations : phases[c] = "running"}
      /\ Lifecycle!Running' = {c \in Simulations : phases'[c] = "running"}
  BY DEF Calls, phases, Lifecycle!Running
<1>1. ASSUME NEW c \in Calls, NEW from \in Lifecycle!Phases, NEW to \in Lifecycle!Phases,
             Moves(c, from, to), c \in Simulations => to # "running"
      PROVE  WithinCapacity'
  <2>1. phases' \in [Calls -> Lifecycle!Phases]
    BY <1>1 DEF WithinCapacity
  <2>2. Lifecycle!Running' \subseteq Lifecycle!Running
    BY <1>0, <1>1 DEF WithinCapacity
  <2> QED
    BY <2>1, <2>2, FewerRun
<1>2. ASSUME NEW c \in Calls, Lifecycle!Start(c) PROVE WithinCapacity'
  <2>1. /\ c \in Simulations /\ Cardinality(Lifecycle!Running) < WorkerCount
        /\ Moves(c, "waiting", "running")
    <3>1. /\ c \in Simulations /\ Cardinality(Lifecycle!Running) < WorkerCount
          /\ Lifecycle!Move(c, "waiting", "running")
      <4>1. Lifecycle!Cardinality(Lifecycle!Running) = Cardinality(Lifecycle!Running)
        BY DEF Cardinality, Lifecycle!Cardinality
      <4> QED
        BY <1>2, <4>1 DEF Lifecycle!Start
    <3> QED
      BY <3>1 DEF Lifecycle!Move, phases
  <2>2. phases' \in [Calls -> Lifecycle!Phases]
    BY <2>1 DEF WithinCapacity, Lifecycle!Phases
  <2>3. Lifecycle!Running' = Lifecycle!Running \cup {c} /\ c \notin Lifecycle!Running
    BY <1>0, <2>1 DEF WithinCapacity
  <2>4. /\ IsFiniteSet(Lifecycle!Running')
        /\ Cardinality(Lifecycle!Running') = Cardinality(Lifecycle!Running) + 1
    BY <2>3, FS_AddElement DEF WithinCapacity
  <2>5. Cardinality(Lifecycle!Running) \in Nat
    BY FS_CardinalityType DEF WithinCapacity
  <2>6. Cardinality(Lifecycle!Running') <= WorkerCount
    BY <2>1, <2>4, <2>5, WorkerCountType
  <2> QED
    BY <2>2, <2>4, <2>6 DEF WithinCapacity, WorkerCount
<1>3. ASSUME NEW c \in Calls,
             \/ Lifecycle!Arrive(c) \/ Lifecycle!Refuse(c) \/ Lifecycle!Leave(c)
             \/ Lifecycle!Answer(c) \/ Lifecycle!KeepAndAnswer(c)
      PROVE  WithinCapacity'
  <2>1. \E from \in Lifecycle!Phases, to \in Lifecycle!Phases :
          Moves(c, from, to) /\ (c \in Simulations => to # "running")
    BY <1>3 DEF Lifecycle!Arrive, Lifecycle!Refuse, Lifecycle!Leave, Lifecycle!Answer,
                Lifecycle!KeepAndAnswer, Lifecycle!Move, Lifecycle!Phases, phases
  <2> QED
    BY <1>1, <2>1
<1>4. CASE phases' = phases
  BY <1>4 DEF WithinCapacity, Lifecycle!Running, phases, WorkerCount
<1>5. ASSUME NEW c \in Calls, Lifecycle!Keep(c) PROVE WithinCapacity'
  BY <1>4, <1>5 DEF Lifecycle!Keep, phases
<1>6. CASE Lifecycle!Drop
  <2>1. phases' = [c \in Calls |-> IF phases[c] \in {"waiting", "running", "leaving"}
                                   THEN "dropped" ELSE phases[c]]
    BY <1>6 DEF Lifecycle!Drop, phases
  <2>2. phases' \in [Calls -> Lifecycle!Phases]
    BY <2>1 DEF WithinCapacity, Lifecycle!Phases
  <2>3. Lifecycle!Running' \subseteq Lifecycle!Running
    BY <1>0, <2>1
  <2> QED
    BY <2>2, <2>3, FewerRun
<1> QED
  BY <1>2, <1>3, <1>4, <1>5, <1>6 DEF Lifecycle!Next

(* These bounds hold in every behaviour that RunLifecycle allows, and so in  *)
(* any of the service.                                                       *)
LEMMA AlwaysWithinCapacity == Spec => []WithinCapacity
<1>1. Lifecycle!Init => WithinCapacity
  <2> SUFFICES ASSUME Lifecycle!Init PROVE WithinCapacity
    OBVIOUS
  <2>1. phases = [c \in Calls |-> "absent"]
    BY DEF Lifecycle!Init, phases
  <2>2. Lifecycle!Running = {}
    BY <2>1 DEF Lifecycle!Running, phases, Calls
  <2>3. phases \in [Calls -> Lifecycle!Phases]
    BY <2>1 DEF Lifecycle!Phases
  <2> QED
    BY <2>2, <2>3, FS_EmptySet, WorkerCountType DEF WithinCapacity
<1>2. WithinCapacity /\ [Lifecycle!Next]_<<[r \in Calls |-> Phase(r)], recorded>>
         => WithinCapacity'
  BY CapacityStep DEF phases
<1> QED
  BY <1>1, <1>2, ImplementsLifecycle, PTL DEF ImplementsRunLifecycle, Lifecycle!Spec

(* No more simulations run at the same time than there are workers.          *)
THEOREM CapacityNeverExceeded ==
  Spec => [](Cardinality({r \in Simulations : Phase(r) = "running"}) <= WorkerCount)
<1>1. WithinCapacity => Cardinality({r \in Simulations : Phase(r) = "running"}) <= WorkerCount
  <2>1. Lifecycle!Running = {r \in Simulations : Phase(r) = "running"}
    BY DEF Lifecycle!Running, Calls
  <2> QED
    BY <2>1 DEF WithinCapacity
<1> QED
  BY <1>1, AlwaysWithinCapacity, PTL

(* A call that goes from running to its answer has its record by then, on a  *)
(* disk that does not fail; a record is never lost again, not with the       *)
(* server either; and a call that was answered or dropped stays so.          *)
Settles ==
    /\ \A c \in Calls : phases[c] = "running" /\ phases'[c] \in {"leaving", "answered"}
                           => DiskFaults \/ c \in recorded'
    /\ recorded \subseteq recorded'
    /\ \A c \in Calls : phases[c] \in {"answered", "dropped"} => phases'[c] = phases[c]

(* Every step settles what it answers, and no more is taken back.            *)
THEOREM AnswersSettle == Spec => [][Settles]_<<phases, recorded>>
<1>1. ASSUME [Lifecycle!Next]_<<phases, recorded>>, WithinCapacity
      PROVE  [Settles]_<<phases, recorded>>
  <2>0. phases \in [Calls -> Lifecycle!Phases]
    BY <1>1 DEF WithinCapacity
  <2> DEFINE Moves(c, from, to) == phases[c] = from /\ phases' = [phases EXCEPT ![c] = to]
  <2>1. ASSUME NEW c \in Calls, NEW from \in {"absent", "waiting", "running", "leaving"},
               NEW to, Moves(c, from, to), recorded \subseteq recorded',
               from = "running" /\ to \in {"leaving", "answered"}
                  => DiskFaults \/ c \in recorded'
        PROVE  Settles
    BY <2>0, <2>1 DEF Settles
  <2>2. ASSUME NEW c \in Calls,
               \/ Lifecycle!Arrive(c) \/ Lifecycle!Refuse(c) \/ Lifecycle!Start(c)
               \/ Lifecycle!Leave(c) \/ Lifecycle!Answer(c) \/ Lifecycle!KeepAndAnswer(c)
        PROVE  Settles
    <3>1. \E from \in {"absent", "waiting", "running", "leaving"},
             to \in Lifecycle!Phases :
            /\ Moves(c, from, to) /\ recorded \subseteq recorded'
            /\ from = "running" /\ to \in {"leaving", "answered"}
                  => DiskFaults \/ c \in recorded'
      BY <2>2 DEF Lifecycle!Arrive, Lifecycle!Refuse, Lifecycle!Start, Lifecycle!Leave,
                  Lifecycle!Answer, Lifecycle!KeepAndAnswer, Lifecycle!Move,
                  Lifecycle!Phases, phases
    <3> QED
      BY <2>1, <3>1
  <2>3. ASSUME NEW c \in Calls, Lifecycle!Keep(c) PROVE Settles
    BY <2>3 DEF Lifecycle!Keep, phases, Settles
  <2>4. CASE Lifecycle!Drop
    <3>1. /\ phases' = [c \in Calls |-> IF phases[c] \in {"waiting", "running", "leaving"}
                                        THEN "dropped" ELSE phases[c]]
          /\ recorded' = recorded
      BY <2>4 DEF Lifecycle!Drop, phases
    <3> QED
      BY <3>1 DEF Settles
  <2> QED
    BY <1>1, <2>2, <2>3, <2>4 DEF Lifecycle!Next
<1>2. WithinCapacity /\ [Lifecycle!Next]_<<[r \in Calls |-> Phase(r)], recorded>>
         => [Settles]_<<phases, recorded>>
  BY <1>1 DEF phases
<1> QED
  BY <1>2, AlwaysWithinCapacity, ImplementsLifecycle, PTL
     DEF ImplementsRunLifecycle, Lifecycle!Spec
=============================================================================
