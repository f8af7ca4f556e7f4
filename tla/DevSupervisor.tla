---------------------------- MODULE DevSupervisor ----------------------------
(***************************************************************************)
(* The program that runs both servers for development (cmd/dev/main.go):   *)
(* it starts the backend and then the frontend, each a command in a        *)
(* process group of its own, waits for the first of them to exit or for an *)
(* interrupt, stops both groups and waits for both commands.               *)
(*                                                                         *)
(* A command may run the server as a process beside it, as go run and yarn *)
(* do; only the command is waited for, and signals are sent to the group.  *)
(***************************************************************************)
EXTENDS Naturals

Commands == {"backend", "frontend"}
Members == Commands \X {"command", "server"}

VARIABLES
    stage,        \* where run() is: off, backend, frontend, announced, select,
                  \* wait, killed, gone
    live,         \* the processes that live
    told,         \* those a SIGTERM was sent to
    doomed,       \* those a SIGKILL was sent to
    results,      \* resultCh: commands whose exit has been sent
    received,     \* received
    interrupted,  \* interruptCh holds a signal
    cause         \* for the property: what ended run()

devVars == <<stage, live, told, doomed, results, received, interrupted, cause>>

DevInit ==
    /\ stage = "off" /\ live = {} /\ told = {} /\ doomed = {}
    /\ results = {} /\ received = {} /\ interrupted = FALSE /\ cause = "none"

Go(from, to) == stage = from /\ stage' = to

Group(c) == {c} \X {"command", "server"}

-----------------------------------------------------------------------------
Launch ==
    /\ Go("off", "backend")
    /\ UNCHANGED <<live, told, doomed, results, received, interrupted, cause>>

(* startProcess: the processes of the command live from here on. *)
StartBackend ==
    /\ Go("backend", "frontend")
    /\ live' = Group("backend")
    /\ UNCHANGED <<told, doomed, results, received, interrupted, cause>>

StartBackendFails ==
    /\ Go("backend", "gone")
    /\ cause' = "start"
    /\ UNCHANGED <<live, told, doomed, results, received, interrupted>>

(* The URLs are printed, and how to stop the servers. *)
StartFrontend ==
    /\ Go("frontend", "announced")
    /\ live' = live \cup Group("frontend")
    /\ UNCHANGED <<told, doomed, results, received, interrupted, cause>>

(* The backend is told to stop, and not waited for. *)
StartFrontendFails ==
    /\ Go("frontend", "gone")
    /\ told' = live
    /\ cause' = "start"
    /\ UNCHANGED <<live, doomed, results, received, interrupted>>

(* The goroutines that wait, and signal.Notify. *)
Notify ==
    /\ Go("announced", "select")
    /\ UNCHANGED <<live, told, doomed, results, received, interrupted, cause>>

(* The select of run(): an exit or a signal, either one if both are there.   *)
FirstExit(c) ==
    /\ c \in results
    /\ Go("select", "wait")
    /\ results' = results \ {c} /\ received' = {c}
    /\ told' = live
    /\ cause' = "exit"
    /\ UNCHANGED <<live, doomed, interrupted>>

FirstSignal ==
    /\ interrupted
    /\ Go("select", "wait")
    /\ interrupted' = FALSE
    /\ told' = live
    /\ cause' = "signal"
    /\ UNCHANGED <<live, doomed, results, received>>

(* waitForProcesses, before and after its five seconds. *)
Receive(c) ==
    /\ stage \in {"wait", "killed"}
    /\ c \in results
    /\ results' = results \ {c} /\ received' = received \cup {c}
    /\ UNCHANGED <<stage, live, told, doomed, interrupted, cause>>

(* Mistake: the second signal is a SIGTERM too. *)
AskedTwice ==
    /\ received # Commands
    /\ Go("wait", "killed")
    /\ told' = live
    /\ UNCHANGED <<live, doomed, results, received, interrupted, cause>>

Deadline ==
    /\ received # Commands
    /\ Go("wait", "killed")
    /\ doomed' = live
    /\ UNCHANGED <<live, told, results, received, interrupted, cause>>

BothExited ==
    /\ received = Commands
    /\ stage \in {"wait", "killed"} /\ stage' = "gone"
    /\ UNCHANGED <<live, told, doomed, results, received, interrupted, cause>>

-----------------------------------------------------------------------------
(* Ctrl-C, or a SIGTERM: it ends the program until signal.Notify, and waits  *)
(* in interruptCh from there on, where a second one is dropped.  The         *)
(* children are in groups of their own and do not get it.                    *)
Interrupt ==
    /\ \/ /\ stage \in {"backend", "frontend", "announced"}
          /\ stage' = "gone" /\ cause' = "early"
          /\ UNCHANGED interrupted
       \/ /\ stage \in {"select", "wait", "killed"}
          /\ interrupted' = TRUE
          /\ UNCHANGED <<stage, cause>>
    /\ UNCHANGED <<live, told, doomed, results, received>>

(* A process ends: by itself, when it is told to, or killed. *)
MemberExits(p) ==
    /\ p \in live
    /\ live' = live \ {p}
    /\ UNCHANGED <<stage, told, doomed, results, received, interrupted, cause>>

(* waitProcess: the exit of the command is sent.  resultCh has room for both. *)
WaitProcess(c) ==
    /\ stage \in {"select", "wait", "killed"}
    /\ <<c, "command">> \notin live /\ c \notin results \cup received
    /\ results' = results \cup {c}
    /\ UNCHANGED <<stage, live, told, doomed, received, interrupted, cause>>

Supervisor ==
    \/ StartBackend \/ StartBackendFails \/ StartFrontend \/ StartFrontendFails
    \/ Notify \/ FirstSignal \/ Deadline \/ BothExited
    \/ \E c \in Commands : FirstExit(c) \/ Receive(c)

DevNext ==
    \/ Launch \/ Interrupt \/ Supervisor
    \/ \E p \in Members : MemberExits(p)
    \/ \E c \in Commands : WaitProcess(c)

(***************************************************************************)
(* Fairness.  The program goes on, and its goroutines; a process that was  *)
(* sent SIGKILL ends.  One that was only told to stop need not.            *)
(***************************************************************************)
DevFairness ==
    /\ WF_devVars(Supervisor)
    /\ \A c \in Commands : WF_devVars(WaitProcess(c))
    /\ \A p \in Members : WF_devVars(p \in doomed /\ MemberExits(p))

DevSpec == DevInit /\ [][DevNext]_devVars /\ DevFairness

-----------------------------------------------------------------------------
DevTypeOK ==
    /\ stage \in {"off", "backend", "frontend", "announced", "select", "wait", "killed", "gone"}
    /\ live \subseteq Members /\ told \subseteq Members /\ doomed \subseteq Members
    /\ results \subseteq Commands /\ received \subseteq Commands
    /\ results \cap received = {}
    /\ interrupted \in BOOLEAN
    /\ cause \in {"none", "start", "early", "exit", "signal"}

(* When the program has ended, no command lives and no server that was not   *)
(* told to stop: unless a signal came before the program asked for signals,  *)
(* though it had announced that Ctrl-C stops both servers.                   *)
NoneLeftBehind ==
    stage = "gone" /\ cause # "early" =>
        /\ live \subseteq told
        /\ cause # "start" => live \cap (Commands \X {"command"}) = {}

(* Once a command has exited or a signal has come, the program ends, however *)
(* the exits, the five seconds and further signals fall; and it leaves no    *)
(* command behind.                                                           *)
StopEndsBoth ==
    /\ []NoneLeftBehind
    /\ (stage = "select" /\ (interrupted \/ results # {})) ~> stage = "gone"
=============================================================================
