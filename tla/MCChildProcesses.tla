-------------------------- MODULE MCChildProcesses --------------------------
(***************************************************************************)
(* The two places where the repository's programs run others, the Anvil of *)
(* a worker and the servers of the development supervisor, on small        *)
(* instances.  Each behaviour is one of one of them.                       *)
(***************************************************************************)
EXTENDS AnvilInstance, DevSupervisor

VARIABLE part

MCInit == part \in {"anvil", "dev"} /\ Init /\ DevInit

MCNext ==
    \/ part = "anvil" /\ Next /\ UNCHANGED <<part, devVars>>
    \/ part = "dev" /\ DevNext /\ UNCHANGED <<part, vars>>

MCVars == <<part, vars, devVars>>
MCSpec == MCInit /\ [][MCNext]_MCVars /\ Fairness /\ DevFairness

(* Every variable has its type. *)
ProcessesTypeOK == TypeOK /\ DevTypeOK
=============================================================================
