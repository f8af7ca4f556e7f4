--------------------------- MODULE RunLifecycle ---------------------------
(***************************************************************************)
(* What the simulation service promises its callers, without its workers,  *)
(* locks and files: a call waits, then leaves without having run, or runs, *)
(* is kept in the record database and leaves; then it is answered.  At     *)
(* most Capacity of the limited calls run at the same time.                *)
(***************************************************************************)
EXTENDS Integers, FiniteSets

CONSTANTS
    Calls,       \* the calls of POST /simulation and POST /tx
    Limited,     \* those that need one of the Capacity places
    Capacity,
    Reliable     \* whether keeping a record always succeeds

VARIABLES
    phase,       \* absent, waiting, running, leaving, answered, or dropped with the server
    kept         \* the calls whose record can be loaded

Phases == {"absent", "waiting", "running", "leaving", "answered", "dropped"}

Running == {c \in Limited : phase[c] = "running"}

Init ==
    /\ phase = [c \in Calls |-> "absent"]
    /\ kept = {}

Move(c, from, to) ==
    /\ phase[c] = from
    /\ phase' = [phase EXCEPT ![c] = to]

(* A limited call arrives and waits; an unlimited one that is not refused   *)
(* runs at once.                                                            *)
Arrive(c) ==
    /\ \/ Move(c, "absent", "waiting")
       \/ c \notin Limited /\ Move(c, "absent", "running")
    /\ UNCHANGED kept

Refuse(c) ==
    /\ \/ Move(c, "waiting", "leaving")
       \/ c \notin Limited /\ Move(c, "waiting", "answered")
    /\ UNCHANGED kept

Start(c) ==
    /\ c \in Limited
    /\ Cardinality(Running) < Capacity
    /\ Move(c, "waiting", "running")
    /\ UNCHANGED kept

Keep(c) ==
    /\ phase[c] = "running"
    /\ kept' = kept \cup {c}
    /\ UNCHANGED phase

(* A run gives its place to another only once it is kept, unless records    *)
(* can be lost.                                                             *)
Leave(c) ==
    /\ Reliable => c \in kept
    /\ Move(c, "running", "leaving")
    /\ UNCHANGED kept

Answer(c) == Move(c, "leaving", "answered") /\ UNCHANGED kept

(* An unlimited call is kept and answered at once. *)
KeepAndAnswer(c) ==
    /\ c \notin Limited
    /\ Move(c, "running", "answered")
    /\ kept' = kept \cup {c} \/ (~ Reliable /\ UNCHANGED kept)

(* The server goes down with the calls it has not answered. *)
Drop ==
    /\ phase' = [c \in Calls |-> IF phase[c] \in {"waiting", "running", "leaving"}
                                 THEN "dropped" ELSE phase[c]]
    /\ UNCHANGED kept

Next ==
    \/ \E c \in Calls : \/ Arrive(c) \/ Refuse(c) \/ Start(c) \/ Keep(c) \/ Leave(c)
                        \/ Answer(c) \/ KeepAndAnswer(c)
    \/ Drop

Spec == Init /\ [][Next]_<<phase, kept>>
=============================================================================
