------------------------- MODULE ChildProcessProofs -------------------------
(***************************************************************************)
(* What holds of the Anvil of a worker for any number of processes and     *)
(* forks, when a killed process exits within the two seconds stopLocked    *)
(* waits; and what the development supervisor leaves behind.               *)
(***************************************************************************)
EXTENDS MCChildProcesses, TLAPS

Busy == {"starting", "listening", "dead"}

(* Where the caller has a process, and where it has none. *)
CallerInv ==
    /\ at \in {"start", "launch"} => cmd = None
    /\ at \in {"reset", "ready", "recheck", "wait"} => cmd # None
    /\ at # "idle" => outcome # "ok"

(* The process a.cmd holds is the only one that has not been reaped, and its *)
(* channel the only one that may hold an exit: its own, once it is reaped.   *)
ProcessInv ==
    /\ \A p \in Procs : p # cmd => proc[p] \in {"none", "reaped"} /\ inbox[p] = None
    /\ cmd # None => /\ proc[cmd] \in Busy \cup {"reaped"}
                     /\ inbox[cmd] = IF proc[cmd] = "reaped" THEN cmd ELSE None
    /\ exited = FALSE
    /\ listener \in Procs => proc[listener] = "listening"

(* What the process serves is what was asked for, from its start on and      *)
(* after a reset that succeeded.                                             *)
ForkInv ==
    /\ at \in {"ready", "recheck"} => forkOf[cmd] = request
    /\ at = "recheck" /\ server \in Procs => server = cmd
    /\ FreshFork

AnvilInv == TypeOK /\ CallerInv /\ ProcessInv /\ ForkInv

(* It holds of a worker that was never started. *)
LEMMA AnvilInit == Init => AnvilInv
BY InstanceAssumption DEF Init, AnvilInv, TypeOK, CallerInv, ProcessInv, ForkInv, FreshFork

(* A process that answers is that of the worker. *)
LEMMA AnswersFromOwn == ASSUME AnvilInv, listener \in Procs PROVE listener = cmd
BY InstanceAssumption DEF AnvilInv, ProcessInv

(* The process that has exited, as far as the worker knows, is its own. *)
LEMMA ExitedIsReaped == ASSUME AnvilInv, ProcessExited PROVE cmd \in Procs /\ proc[cmd] = "reaped"
BY InstanceAssumption DEF AnvilInv, ProcessInv, ProcessExited, TypeOK

(* stopLocked forgets a process only when nothing is left of it. *)
LEMMA ForgetKeeps ==
    ASSUME AnvilInv, Forget, cmd = None \/ proc[cmd] = "reaped",
           UNCHANGED <<proc, listener>>
    PROVE  ProcessInv' /\ cmd' = None /\ inbox' \in [Procs -> Procs \cup {None}]
BY InstanceAssumption DEF AnvilInv, ProcessInv, Forget, TypeOK, Busy

(* Every step of a handler of the worker keeps the invariant, *)
LEMMA AnvilCaller == ASSUME AnvilInv, ~ KillTimesOut, Caller PROVE AnvilInv'
<1> USE InstanceAssumption
<1>1. CASE CheckRunning
  <2>1. CASE RunningLocked /\ Step("check", "reset") /\ UNCHANGED cmdVars
      BY <1>1, <2>1 DEF CheckRunning, Step, RunningLocked, cmdVars, procVars,
           AnvilInv, TypeOK, CallerInv, ProcessInv, ForkInv, FreshFork
  <2>2. CASE ~ RunningLocked /\ Step("check", "start") /\ Forget
    <3>1. ProcessInv' /\ cmd' = None /\ inbox' \in [Procs -> Procs \cup {None}]
        BY <1>1, <2>2, ForgetKeeps, ExitedIsReaped DEF CheckRunning, RunningLocked, procVars
    <3> QED
        BY <1>1, <2>2, <3>1 DEF CheckRunning, Step, Forget, procVars,
             AnvilInv, TypeOK, CallerInv, ForkInv, FreshFork
  <2> QED
      BY <1>1, <2>1, <2>2 DEF CheckRunning
<1>2. CASE ResetLocked
  <2>1. listener \in Procs => listener = cmd
      BY AnswersFromOwn
  <2> QED
      BY <1>2, <2>1 DEF ResetLocked, Return, Step, cmdVars,
           AnvilInv, TypeOK, CallerInv, ProcessInv, ForkInv, FreshFork
<1>3. CASE ResetFails
    BY <1>3 DEF ResetFails, Step, cmdVars, AnvilInv, TypeOK, CallerInv, ProcessInv, ForkInv, FreshFork
<1>4. CASE EnsurePortAvailable \/ StartFails
    BY <1>4 DEF EnsurePortAvailable, StartFails, Return, Step, cmdVars, procVars,
         AnvilInv, TypeOK, CallerInv, ProcessInv, ForkInv, FreshFork
<1>5. ASSUME NEW p \in Procs, StartLocked(p) PROVE AnvilInv'
  <2>1. cmd = None /\ listener # p
      BY <1>5 DEF StartLocked, Step, AnvilInv, CallerInv, ProcessInv
  <2>2. ProcessInv'
      BY <1>5, <2>1 DEF StartLocked, Step, AnvilInv, TypeOK, ProcessInv, Busy
  <2> QED
      BY <1>5, <2>2 DEF StartLocked, Step, AnvilInv, TypeOK, CallerInv, ForkInv, FreshFork
<1>6. CASE ExitNoticed
  <2>1. ProcessInv' /\ cmd' = None /\ inbox' \in [Procs -> Procs \cup {None}]
      BY <1>6, ForgetKeeps, ExitedIsReaped DEF ExitNoticed, procVars
  <2> QED
      BY <1>6, <2>1 DEF ExitNoticed, Return, Step, Forget, procVars,
           AnvilInv, TypeOK, CallerInv, ForkInv, FreshFork
<1>7. CASE ChainIdAnswered
  <2>1. listener \in Procs => listener = cmd
      BY AnswersFromOwn
  <2> QED
      BY <1>7, <2>1 DEF ChainIdAnswered, Step, cmdVars, procVars,
           AnvilInv, TypeOK, CallerInv, ProcessInv, ForkInv, FreshFork
<1>8. CASE Ready
    BY <1>8 DEF Ready, Return, Step, cmdVars, procVars,
         AnvilInv, TypeOK, CallerInv, ProcessInv, ForkInv, FreshFork
<1>9. CASE ReadyTimeout
    BY <1>9 DEF ReadyTimeout, Step, cmdVars, procVars,
         AnvilInv, TypeOK, CallerInv, ProcessInv, ForkInv, FreshFork
<1>10. CASE Kill
    BY <1>10 DEF Kill, Step, RunningLocked, cmdVars,
         AnvilInv, TypeOK, CallerInv, ProcessInv, ForkInv, FreshFork
<1>11. CASE StopNotRunning \/ KillAnswered
  <2>1. /\ cmd = None \/ proc[cmd] = "reaped"
        /\ Forget /\ at' = after /\ at # "idle"
        /\ UNCHANGED <<after, request, outcome, server, procVars>>
      BY <1>11, ExitedIsReaped DEF StopNotRunning, KillAnswered, Step, RunningLocked, ProcessExited,
           AnvilInv, CallerInv
  <2>2. ProcessInv' /\ cmd' = None /\ inbox' \in [Procs -> Procs \cup {None}]
      BY <2>1, ForgetKeeps DEF procVars
  <2> QED
      BY <2>1, <2>2 DEF Forget, procVars, AnvilInv, TypeOK, CallerInv, ForkInv, FreshFork
<1> QED
    BY <1>1, <1>2, <1>3, <1>4, <1>5, <1>6, <1>7, <1>8, <1>9, <1>10, <1>11 DEF Caller

(* and so does every step of the processes and their goroutines, *)
LEMMA AnvilInvInductive == AnvilInv /\ ~ KillTimesOut /\ [Next]_vars => AnvilInv'
<1> SUFFICES ASSUME AnvilInv, ~ KillTimesOut, [Next]_vars PROVE AnvilInv'
    OBVIOUS
<1> USE InstanceAssumption
<1>1. ASSUME NEW f \in Forks, BeginFork(f) PROVE AnvilInv'
    BY <1>1 DEF BeginFork, Step, cmdVars, procVars,
         AnvilInv, TypeOK, CallerInv, ProcessInv, ForkInv, FreshFork
<1>2. CASE Stop
    BY <1>2 DEF Stop, Step, cmdVars, procVars,
         AnvilInv, TypeOK, CallerInv, ProcessInv, ForkInv, FreshFork
<1>3. CASE Caller
    BY <1>3, AnvilCaller
<1>4. ASSUME NEW p \in Procs, Listen(p) \/ Exit(p) PROVE AnvilInv'
  <2>1. p = cmd
      BY <1>4 DEF Listen, Exit, AnvilInv, ProcessInv
  <2>2. ProcessInv'
      BY <1>4, <2>1 DEF Listen, Exit, callVars, cmdVars, AnvilInv, TypeOK, ProcessInv, Busy
  <2> QED
      BY <1>4, <2>2 DEF Listen, Exit, callVars, cmdVars, AnvilInv, TypeOK, CallerInv, ForkInv, FreshFork
<1>5. ASSUME NEW p \in Procs, Deliver(p) PROVE AnvilInv'
  <2>1. p = cmd /\ inbox[p] = None
      BY <1>5 DEF Deliver, AnvilInv, ProcessInv
  <2>2. inbox' = [inbox EXCEPT ![p] = p] /\ proc' = [proc EXCEPT ![p] = "reaped"]
      BY <1>5, <2>1 DEF Deliver
  <2>3. listener # p
      BY <1>5 DEF Deliver, AnvilInv, ProcessInv
  <2> QED
      BY <1>5, <2>1, <2>2, <2>3 DEF Deliver, callVars,
           AnvilInv, TypeOK, CallerInv, ProcessInv, ForkInv, FreshFork, Busy
<1>6. CASE ForeignProgram
    BY <1>6 DEF ForeignProgram, callVars, cmdVars,
         AnvilInv, TypeOK, CallerInv, ProcessInv, ForkInv, FreshFork
<1>7. CASE UNCHANGED vars
    BY <1>7 DEF vars, callVars, cmdVars, procVars,
         AnvilInv, TypeOK, CallerInv, ProcessInv, ForkInv, FreshFork
<1> QED
    BY <1>1, <1>2, <1>3, <1>4, <1>5, <1>6, <1>7 DEF Next

(* so that it always holds. *)
LEMMA AnvilInvAlways == ASSUME ~ KillTimesOut PROVE Spec => []AnvilInv
<1>1. AnvilInv /\ [Next]_vars => AnvilInv'
    BY AnvilInvInductive
<1> QED
    BY <1>1, AnvilInit, PTL DEF Spec

(* A process that lives and was not killed is the one the instance has       *)
(* (anvil.go): none is lost, whoever dies or answers when.                   *)
THEOREM ProcessTracked == ASSUME ~ KillTimesOut PROVE Spec => []OwnProcessTracked
<1>1. AnvilInv => OwnProcessTracked
    BY DEF AnvilInv, ProcessInv, OwnProcessTracked, Alive
<1> QED
    BY <1>1, AnvilInvAlways, PTL

(* The exit that is acted upon is that of the process, and every goroutine   *)
(* that waits for one can send it.                                           *)
THEOREM ExitsDelivered == ASSUME ~ KillTimesOut PROVE Spec => []ExitsReachTheirOwn
<1>1. AnvilInv => ExitsReachTheirOwn
  <2> SUFFICES ASSUME AnvilInv PROVE ExitsReachTheirOwn
      OBVIOUS
  <2>1. ProcessExited => proc[cmd] = "reaped"
      BY ExitedIsReaped
  <2>2. ASSUME NEW p \in Procs PROVE proc[p] # "stuck"
    <3>1. CASE p = cmd
      <4>1. cmd # None
          BY <3>1, InstanceAssumption
      <4>2. proc[cmd] \in Busy \cup {"reaped"}
          BY <4>1 DEF AnvilInv, ProcessInv
      <4> QED
          BY <3>1, <4>2 DEF Busy
    <3>2. CASE p # cmd
        BY <3>2 DEF AnvilInv, ProcessInv
    <3> QED
        BY <3>1, <3>2
  <2> QED
      BY <2>1, <2>2 DEF ExitsReachTheirOwn
<1> QED
    BY <1>1, AnvilInvAlways, PTL

(* A fork that was answered by a process of the worker serves what the run   *)
(* asked for, and can be reset later.                                        *)
THEOREM ForkIsFresh == ASSUME ~ KillTimesOut PROVE Spec => []FreshFork
<1>1. AnvilInv => FreshFork
    BY DEF AnvilInv, ForkInv
<1> QED
    BY <1>1, AnvilInvAlways, PTL

-----------------------------------------------------------------------------
(* The supervisor.  No process starts after both were told to stop, and a    *)
(* command whose exit has been sent does not live.                           *)
DevInv ==
    /\ stage \in {"off", "backend"} => live = {}
    /\ stage \in {"wait", "killed"} => live \subseteq told
    /\ stage \in {"off", "backend", "frontend", "announced", "select"} => cause = "none"
    /\ stage \in {"off", "backend", "frontend", "announced"} => results = {} /\ received = {}
    /\ \A c \in results \cup received : <<c, "command">> \notin live
    /\ NoneLeftBehind

(* Every step of the supervisor and of what it started keeps it. *)
LEMMA DevInvInductive == DevInv /\ [DevNext]_devVars => DevInv'
<1> SUFFICES ASSUME DevInv, [DevNext]_devVars PROVE DevInv'
    OBVIOUS
<1> USE DEF DevInv, NoneLeftBehind, Go
<1>1. CASE Launch \/ StartBackend \/ StartBackendFails
    BY <1>1 DEF Launch, StartBackend, StartBackendFails, Group
<1>2. CASE StartFrontend \/ StartFrontendFails \/ Notify
    BY <1>2 DEF StartFrontend, StartFrontendFails, Notify
<1>3. ASSUME NEW c \in Commands, FirstExit(c) \/ Receive(c) PROVE DevInv'
    BY <1>3 DEF FirstExit, Receive
<1>4. CASE FirstSignal \/ Deadline
    BY <1>4 DEF FirstSignal, Deadline
<1>5. CASE BothExited
    BY <1>5 DEF BothExited
<1>6. CASE Interrupt
    BY <1>6 DEF Interrupt
<1>7. ASSUME NEW p \in Members, MemberExits(p) PROVE DevInv'
    BY <1>7 DEF MemberExits
<1>8. ASSUME NEW c \in Commands, WaitProcess(c) PROVE DevInv'
    BY <1>8 DEF WaitProcess
<1>9. CASE UNCHANGED devVars
    BY <1>9 DEF devVars
<1> QED
    BY <1>1, <1>2, <1>3, <1>4, <1>5, <1>6, <1>7, <1>8, <1>9 DEF DevNext, Supervisor

(* When the supervisor has ended (cmd/dev/main.go), other than by a signal   *)
(* before it asked for signals, no command lives and every server was told.  *)
THEOREM SupervisorLeavesNone == DevSpec => []NoneLeftBehind
<1>1. DevInit => DevInv
    BY DEF DevInit, DevInv, NoneLeftBehind
<1>2. DevInv => NoneLeftBehind
    BY DEF DevInv
<1> QED
    BY <1>1, <1>2, DevInvInductive, PTL DEF DevSpec

-----------------------------------------------------------------------------
(* Types, for every behaviour: also when a killed process takes longer than  *)
(* stopLocked waits.                                                         *)

(* Every step of the caller, of a process and of other programs keeps the    *)
(* types of the Anvil of a worker.                                           *)
LEMMA AnvilTypes == TypeOK /\ [Next]_vars => TypeOK'
<1> SUFFICES ASSUME TypeOK, [Next]_vars PROVE TypeOK'
    OBVIOUS
<1> USE InstanceAssumption DEF TypeOK, Step, Return, Forget, callVars, cmdVars, procVars
<1>1. ASSUME NEW f \in Forks, BeginFork(f) PROVE TypeOK'
    BY <1>1 DEF BeginFork
<1>2. CASE Stop
    BY <1>2 DEF Stop
<1>3. CASE Caller
  <2>1. CASE CheckRunning
      BY <2>1 DEF CheckRunning
  <2>2. CASE ResetLocked \/ ResetFails
      BY <2>2 DEF ResetLocked, ResetFails
  <2>3. CASE EnsurePortAvailable
      BY <2>3 DEF EnsurePortAvailable
  <2>4. ASSUME NEW p \in Procs, StartLocked(p) PROVE TypeOK'
      BY <2>4 DEF StartLocked
  <2>5. CASE StartFails \/ Ready \/ ReadyTimeout
      BY <2>5 DEF StartFails, Ready, ReadyTimeout
  <2>6. CASE ExitNoticed
      BY <2>6 DEF ExitNoticed
  <2>7. CASE ChainIdAnswered
      BY <2>7 DEF ChainIdAnswered
  <2>8. CASE StopNotRunning \/ KillAnswered
      BY <2>8 DEF StopNotRunning, KillAnswered
  <2>9. CASE Kill
      BY <2>9 DEF Kill, RunningLocked
  <2> QED
      BY <1>3, <2>1, <2>2, <2>3, <2>4, <2>5, <2>6, <2>7, <2>8, <2>9 DEF Caller
<1>4. ASSUME NEW p \in Procs, Listen(p) \/ Exit(p) PROVE TypeOK'
    BY <1>4 DEF Listen, Exit
<1>5. ASSUME NEW p \in Procs, Deliver(p) PROVE TypeOK'
  <2>1. /\ inbox' \in [Procs -> Procs \cup {None}]
        /\ proc' \in [Procs -> {"none", "starting", "listening", "dead", "reaped", "stuck"}]
      BY <1>5 DEF Deliver
  <2> QED
      BY <1>5, <2>1 DEF Deliver
<1>6. CASE ForeignProgram
    BY <1>6 DEF ForeignProgram
<1>7. CASE UNCHANGED vars
    BY <1>7 DEF vars
<1> QED
    BY <1>1, <1>2, <1>3, <1>4, <1>5, <1>6, <1>7 DEF Next

(* Every step of the supervisor, of a signal and of its children keeps its   *)
(* types: an exit is never both sent and received.                           *)
LEMMA DevTypes == DevTypeOK /\ [DevNext]_devVars => DevTypeOK'
<1> SUFFICES ASSUME DevTypeOK, [DevNext]_devVars PROVE DevTypeOK'
    OBVIOUS
<1> USE DEF DevTypeOK, Go, Members, Commands
<1>1. CASE Launch \/ StartBackendFails \/ StartFrontendFails \/ Notify
    BY <1>1 DEF Launch, StartBackendFails, StartFrontendFails, Notify
<1>2. CASE StartBackend \/ StartFrontend
    BY <1>2 DEF StartBackend, StartFrontend, Group
<1>3. CASE FirstSignal \/ Deadline \/ BothExited \/ Interrupt
    BY <1>3 DEF FirstSignal, Deadline, BothExited, Interrupt
<1>4. ASSUME NEW c \in Commands, FirstExit(c) \/ Receive(c) PROVE DevTypeOK'
    BY <1>4 DEF FirstExit, Receive
<1>5. ASSUME NEW p \in Members, MemberExits(p) PROVE DevTypeOK'
    BY <1>5 DEF MemberExits
<1>6. ASSUME NEW c \in Commands, WaitProcess(c) PROVE DevTypeOK'
    BY <1>6 DEF WaitProcess
<1>7. CASE UNCHANGED devVars
    BY <1>7 DEF devVars
<1> QED
    BY <1>1, <1>2, <1>3, <1>4, <1>5, <1>6, <1>7 DEF DevNext, Supervisor

(* The Anvil of a worker and the supervisor keep their types, whichever of   *)
(* the two a behaviour is one of.                                            *)
THEOREM ProcessesTypeCorrect == MCSpec => []ProcessesTypeOK
<1>1. MCInit => ProcessesTypeOK
    BY InstanceAssumption DEF MCInit, Init, DevInit, ProcessesTypeOK, TypeOK, DevTypeOK
<1>2. ProcessesTypeOK /\ [MCNext]_MCVars => ProcessesTypeOK'
  <2>1. [MCNext]_MCVars => [Next]_vars /\ [DevNext]_devVars
      BY DEF MCNext, MCVars
  <2> QED
      BY <2>1, AnvilTypes, DevTypes DEF ProcessesTypeOK
<1> QED
    BY <1>1, <1>2, PTL DEF MCSpec
=============================================================================
