--------------------------- MODULE AnvilInstance ---------------------------
(***************************************************************************)
(* The Anvil process of one simulation worker                              *)
(* (internal/simulation/anvil.go).  The worker calls Fork, and Close calls *)
(* Stop, one at a time under a.mu; beside the caller run the processes it  *)
(* has started, one goroutine per process that waits for its exit and      *)
(* sends it to a.done, and another program that may take the port.         *)
(*                                                                         *)
(* a.cmd and a.done are set and cleared together, so the channel made for  *)
(* process p is named p, and cmd stands for both fields.  The RPC client   *)
(* is HTTP and keeps nothing a call depends on; it is left out.            *)
(***************************************************************************)
EXTENDS Integers

CONSTANTS
    Procs,         \* process ids; one that has been reaped is used again
    Forks,         \* the upstream RPC and block a run asks for
    None,
    Foreign,       \* another program on the port
    KillTimesOut   \* whether a killed process may take more than two seconds to exit

ASSUME InstanceAssumption ==
    /\ Foreign \notin Procs
    /\ None \notin Procs \cup Forks \cup {Foreign}
    /\ KillTimesOut \in BOOLEAN

VARIABLES
    at,         \* where the caller is in Fork or Stop, "idle" outside
    after,      \* where it goes on when stopLocked returns
    request,    \* what the last Fork asked for
    outcome,    \* what the last call returned: "ok", "error" or "none"
    server,     \* who answered the last RPC call that succeeded
    cmd,        \* a.cmd and a.done
    exited,     \* a.exited
    inbox,      \* the exit in the channel of each process: whose it is
    proc,       \* none, starting, listening, dead, reaped (exit sent), stuck
    killed,     \* the processes that have been sent SIGKILL
    forkOf,     \* what each process serves
    listener    \* who has the port

callVars == <<at, after, request, outcome, server>>
cmdVars  == <<cmd, exited, inbox>>
procVars == <<proc, killed, forkOf, listener>>
vars == <<callVars, cmdVars, procVars>>

Init ==
    /\ at = "idle" /\ after = "idle" /\ request = None /\ outcome = "none" /\ server = None
    /\ cmd = None /\ exited = FALSE /\ inbox = [p \in Procs |-> None]
    /\ proc = [p \in Procs |-> "none"]
    /\ killed = {}
    /\ forkOf = [p \in Procs |-> None]
    /\ listener \in {None, Foreign}

Step(from, to) == at = from /\ at' = to

Return(from, result) ==
    /\ Step(from, "idle")
    /\ outcome' = result

(* processExitedLocked: remembered, or found in the channel now. *)
ProcessExited == cmd # None /\ (exited \/ inbox[cmd] # None)
RunningLocked == cmd # None /\ ~ ProcessExited

(* The end of stopLocked: the process is forgotten, whatever became of it. *)
Forget ==
    /\ cmd' = None
    /\ exited' = FALSE
    /\ inbox' = IF cmd = None THEN inbox ELSE [inbox EXCEPT ![cmd] = None]

-----------------------------------------------------------------------------
(* Fork. *)

BeginFork(f) ==
    /\ Step("idle", "check")
    /\ request' = f
    /\ outcome' = "none"
    /\ UNCHANGED <<after, server, cmdVars, procVars>>

(* Not running: stopLocked finds nothing to kill, and a process is started. *)
CheckRunning ==
    /\ \/ RunningLocked /\ Step("check", "reset") /\ UNCHANGED cmdVars
       \/ ~ RunningLocked /\ Step("check", "start") /\ Forget
    /\ UNCHANGED <<after, request, outcome, server, procVars>>

(* anvil_reset, answered by whoever has the port. *)
ResetLocked ==
    /\ listener # None
    /\ Return("reset", "ok")
    /\ server' = listener
    /\ forkOf' = IF listener \in Procs THEN [forkOf EXCEPT ![listener] = request] ELSE forkOf
    /\ UNCHANGED <<after, request, cmdVars, proc, killed, listener>>

(* Mistake: a reset that fails is logged only. *)
ResetIgnored ==
    /\ Return("reset", "ok")
    /\ server' = cmd
    /\ UNCHANGED <<after, request, cmdVars, procVars>>

(* The reset fails, or its answer is lost, and the process is replaced. *)
ResetFails ==
    /\ Step("reset", "stop")
    /\ after' = "start"
    /\ \/ UNCHANGED forkOf
       \/ listener \in Procs /\ forkOf' = [forkOf EXCEPT ![listener] = request]
    /\ UNCHANGED <<request, outcome, server, cmdVars, proc, killed, listener>>

(* ensurePortAvailable listens on the port and lets go of it again. *)
EnsurePortAvailable ==
    /\ \/ listener = None /\ Step("start", "launch") /\ UNCHANGED outcome
       \/ listener # None /\ Return("start", "error")
    /\ UNCHANGED <<after, request, server, cmdVars, procVars>>

(* cmd.Start, and the goroutine that waits for the exit. *)
StartLocked(p) ==
    /\ proc[p] \in {"none", "reaped"}
    /\ Step("launch", "ready")
    /\ cmd' = p /\ exited' = FALSE /\ inbox' = [inbox EXCEPT ![p] = None]
    /\ proc' = [proc EXCEPT ![p] = "starting"]
    /\ killed' = killed \ {p}
    /\ forkOf' = [forkOf EXCEPT ![p] = request]
    /\ UNCHANGED <<after, request, outcome, server, listener>>

StartFails ==
    /\ Return("launch", "error")
    /\ UNCHANGED <<after, request, server, cmdVars, procVars>>

(* waitReady: the exit is noticed at the head of the loop or in its select; *)
(* stopLocked then has nothing to kill.                                     *)
ExitNoticed ==
    /\ at \in {"ready", "recheck"}
    /\ ProcessExited
    /\ Return(at, "error")
    /\ Forget
    /\ UNCHANGED <<after, request, server, procVars>>

(* eth_chainId is answered, by whoever has the port; the process is looked  *)
(* at once more.                                                            *)
ChainIdAnswered ==
    /\ listener # None
    /\ Step("ready", "recheck")
    /\ server' = listener
    /\ UNCHANGED <<after, request, outcome, cmdVars, procVars>>

Ready ==
    /\ ~ ProcessExited
    /\ Return("recheck", "ok")
    /\ UNCHANGED <<after, request, server, cmdVars, procVars>>

(* Mistake: nothing limits the wait. *)
WaitForEver == FALSE /\ UNCHANGED vars

(* The context of the run, or the fifteen seconds, are over. *)
ReadyTimeout ==
    /\ Step("ready", "stop")
    /\ after' = "idle"
    /\ outcome' = "error"
    /\ UNCHANGED <<request, server, cmdVars, procVars>>

-----------------------------------------------------------------------------
(* stopLocked. *)

Stop ==
    /\ Step("idle", "stop")
    /\ after' = "idle"
    /\ outcome' = "none"
    /\ UNCHANGED <<request, server, cmdVars, procVars>>

StopNotRunning ==
    /\ ~ RunningLocked
    /\ Step("stop", after)
    /\ Forget
    /\ UNCHANGED <<after, request, outcome, server, procVars>>

(* Mistake: the process is forgotten and lives on. *)
ForgetWithoutKill ==
    /\ RunningLocked
    /\ Step("stop", after)
    /\ Forget
    /\ UNCHANGED <<after, request, outcome, server, procVars>>

(* Mistake: the exit is not waited for. *)
KillWithoutWait ==
    /\ RunningLocked
    /\ Step("stop", after)
    /\ killed' = killed \cup {cmd}
    /\ Forget
    /\ UNCHANGED <<after, request, outcome, server, proc, forkOf, listener>>

(* Mistake: without the guard, there may be no process. *)
KillAnyway ==
    /\ Step("stop", "wait")
    /\ killed' = killed \cup {cmd}
    /\ UNCHANGED <<after, request, outcome, server, cmdVars, proc, forkOf, listener>>

Kill ==
    /\ RunningLocked
    /\ Step("stop", "wait")
    /\ killed' = killed \cup {cmd}
    /\ UNCHANGED <<after, request, outcome, server, cmdVars, proc, forkOf, listener>>

(* The exit has arrived, or the two seconds are over. *)
KillAnswered ==
    /\ Step("wait", after)
    /\ inbox[cmd] # None \/ KillTimesOut
    /\ Forget
    /\ UNCHANGED <<after, request, outcome, server, procVars>>

-----------------------------------------------------------------------------
(* The processes, their goroutines and the port. *)

Listen(p) ==
    /\ proc[p] = "starting"
    /\ \/ listener = None /\ listener' = p /\ proc' = [proc EXCEPT ![p] = "listening"]
       \/ listener # None /\ UNCHANGED listener /\ proc' = [proc EXCEPT ![p] = "dead"]
    /\ UNCHANGED <<callVars, cmdVars, killed, forkOf>>

(* A process ends, killed or by itself. *)
Exit(p) ==
    /\ proc[p] \in {"starting", "listening"}
    /\ proc' = [proc EXCEPT ![p] = "dead"]
    /\ listener' = IF listener = p THEN None ELSE listener
    /\ UNCHANGED <<callVars, cmdVars, killed, forkOf>>

(* go func() { a.done <- cmd.Wait() }(): the field is read before or after  *)
(* Wait returns, which the language leaves open and the lock does not       *)
(* protect; after stopLocked it may be nil, or the channel of a later       *)
(* process.                                                                 *)
Deliver(p) ==
    /\ proc[p] = "dead"
    /\ \E channel \in {p, cmd} :
          \/ /\ channel = None
             /\ proc' = [proc EXCEPT ![p] = "stuck"]
             /\ UNCHANGED inbox
          \/ /\ channel # None
             /\ inbox[channel] = None
             /\ inbox' = [inbox EXCEPT ![channel] = p]
             /\ proc' = [proc EXCEPT ![p] = "reaped"]
    /\ UNCHANGED <<callVars, cmd, exited, killed, forkOf, listener>>

(* Another program takes the port, or leaves it. *)
ForeignProgram ==
    /\ \/ listener = None /\ listener' = Foreign
       \/ listener = Foreign /\ listener' = None
    /\ UNCHANGED <<callVars, cmdVars, proc, killed, forkOf>>

-----------------------------------------------------------------------------
Caller ==
    \/ CheckRunning \/ ResetLocked \/ ResetFails \/ EnsurePortAvailable
    \/ \E p \in Procs : StartLocked(p)
    \/ StartFails \/ ExitNoticed \/ ChainIdAnswered \/ Ready \/ ReadyTimeout
    \/ StopNotRunning \/ Kill \/ KillAnswered

Next ==
    \/ \E f \in Forks : BeginFork(f)
    \/ Stop
    \/ Caller
    \/ \E p \in Procs : Listen(p) \/ Exit(p) \/ Deliver(p)
    \/ ForeignProgram

Spec == Init /\ [][Next]_vars

(***************************************************************************)
(* Fairness.  The caller goes on: its RPC calls have a limit of two        *)
(* seconds, and waitReady one of fifteen.  A killed process ends, and the  *)
(* goroutine that waits for it sends.  Nothing else has to happen: a       *)
(* process may start for ever.                                             *)
(***************************************************************************)
Fairness ==
    /\ WF_vars(Caller)
    /\ \A p \in Procs : WF_vars(p \in killed /\ Exit(p)) /\ WF_vars(Deliver(p))

FairSpec == Spec /\ Fairness

-----------------------------------------------------------------------------
(* Every variable has its type. *)
TypeOK ==
    /\ at \in {"idle", "check", "reset", "start", "launch", "ready", "recheck", "stop", "wait"}
    /\ after \in {"idle", "start"}
    /\ request \in Forks \cup {None}
    /\ outcome \in {"none", "ok", "error"}
    /\ server \in Procs \cup {None, Foreign}
    /\ cmd \in Procs \cup {None}
    /\ exited \in BOOLEAN
    /\ inbox \in [Procs -> Procs \cup {None}]
    /\ proc \in [Procs -> {"none", "starting", "listening", "dead", "reaped", "stuck"}]
    /\ killed \subseteq Procs
    /\ forkOf \in [Procs -> Forks \cup {None}]
    /\ listener \in Procs \cup {None, Foreign}

Alive(p) == proc[p] \in {"starting", "listening"}

(* The one Anvil of the worker: a process that lives and has not been       *)
(* killed is the one a.cmd holds, so that a later Fork can reset it and     *)
(* Stop can end it.                                                         *)
OwnProcessTracked == \A p \in Procs : Alive(p) /\ p \notin killed => cmd = p

(* The exit the instance acts upon is that of its own process, and no        *)
(* goroutine is left behind on a channel nobody has.                         *)
ExitsReachTheirOwn ==
    /\ ProcessExited => proc[cmd] = "reaped"
    /\ \A p \in Procs : proc[p] # "stuck"

(* A Fork that returned its URL because a process of the worker answered    *)
(* has the process it may reset later, and that process serves the upstream *)
(* and block the run asked for.  (Another program that takes the port just  *)
(* after ensurePortAvailable may answer in its place: the code cannot tell.)*)
FreshFork ==
    at = "idle" /\ outcome = "ok" /\ server \in Procs =>
        server = cmd /\ forkOf[server] = request

(* Fork and Stop return, with a.mu free again. *)
EveryCallReturns == at # "idle" ~> at = "idle"
=============================================================================
