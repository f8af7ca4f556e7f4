-------------------------- MODULE TransactionTrace --------------------------
(***************************************************************************)
(* From the execution of a transaction to what the program says of it:     *)
(* Foundry records an arena of call frames while the harness runs          *)
(* (contracts/test/SimulateTxRunner.t.sol), the backend reads the ERC20    *)
(* transfers from the arena (internal/traceparser/parser.go), and the      *)
(* Trace tab of the frontend draws it (lib/forgeTrace.ts, TraceTree.tsx).  *)
(*                                                                         *)
(* The execution is a state machine of its own, so that the two readers,   *)
(* written in two languages, are compared with what happened and not with  *)
(* one another's reading of the record.                                    *)
(***************************************************************************)
EXTENDS Integers, Sequences, SequencesExt

CONSTANTS
    Accounts,     \* the parties of a transfer
    Contracts,    \* the addresses that are called, delegated to or created
    Amounts,      \* the amounts of a transfer
    Harness,      \* the address of the test contract
    MaxNodes,     \* bound: frames of one execution, the harness included
    MaxLogs       \* bound: transfers logged in one execution

ASSUME TraceAssumption ==
    /\ Amounts \subseteq Nat
    /\ Harness \notin Contracts
    /\ MaxNodes \in Nat \ {0} /\ MaxLogs \in Nat

VARIABLES
    stage,        \* executing, recorded, and the stages of those who read the trace
    arena,        \* the nodes of the trace in the order they were entered; the harness is first
    frames,       \* the call stack: node, address whose storage it runs on, effects before it
    started,      \* whether the harness has called the target of the request
    effects,      \* the transfers that have happened and are not rolled back
    history,      \* calls and logs of the transaction in the order they happened
    transfers,    \* erc20Transfers of the response
    shown         \* the rows of the Trace tab, from top to bottom

traceVars == <<arena, frames, started, effects, history>>

(* The sum of a sequence of numbers. *)
Total(numbers) ==
    LET total[n \in 0 .. Len(numbers)] == IF n = 0 THEN 0 ELSE total[n - 1] + numbers[n]
    IN  total[Len(numbers)]

(* One frame of the arena (parser.go forgeArenaNode): children and logs are *)
(* two lists, ordering says how they interleave.  Of the kinds of a frame   *)
(* the program tells a delegate call from the rest, which is CALL here: it  *)
(* stands for creations and static calls too.                               *)
Node(parent, kind, address) ==
    [parent |-> parent, kind |-> kind, address |-> address, success |-> TRUE,
     children |-> <<>>, logs |-> <<>>, ordering |-> <<>>]

InitTrace ==
    /\ stage = "executing"
    /\ arena = <<Node(0, "CALL", Harness)>>
    /\ frames = <<[node |-> 1, context |-> Harness, mark |-> 0]>>
    /\ started = FALSE
    /\ effects = <<>>
    /\ history = <<>>
    /\ transfers = <<>>
    /\ shown = <<>>

-----------------------------------------------------------------------------
(* The execution. *)

Top == Last(frames)
Logged == Total([i \in DOMAIN arena |-> Len(arena[i].logs)])

Enter(kind, address, transaction) ==
    LET id == Len(arena) + 1
        context == IF kind = "DELEGATECALL" THEN Top.context ELSE address
    IN  /\ stage = "executing"
        /\ Len(arena) < MaxNodes
        /\ arena' = Append(
              [arena EXCEPT ![Top.node].children = Append(@, id),
                            ![Top.node].ordering =
                                Append(@, [kind |-> "Call",
                                           index |-> Len(arena[Top.node].children) + 1])],
              Node(Top.node, kind, address))
        /\ frames' = Append(frames, [node |-> id, context |-> context, mark |-> Len(effects)])
        /\ history' = IF transaction THEN Append(history, <<"call", id>>) ELSE history

(* _simulate: approvals and the state override contract come first ... *)
Override(address) ==
    /\ Len(frames) = 1
    /\ ~ started
    /\ Enter("CALL", address, FALSE)
    /\ UNCHANGED <<stage, started, effects, transfers, shown>>

(* ... and the call of the target last. *)
CallTarget(address) ==
    /\ Len(frames) = 1
    /\ ~ started
    /\ started' = TRUE
    /\ Enter("CALL", address, TRUE)
    /\ UNCHANGED <<stage, effects, transfers, shown>>

CallInside(kind, address) ==
    /\ Len(frames) > 1
    /\ Enter(kind, address, started)
    /\ UNCHANGED <<stage, started, effects, transfers, shown>>

(* The frame on top logs a Transfer for the address it runs on. *)
EmitTransfer(from, to, amount) ==
    LET n == Top.node
        log == [from |-> from, to |-> to, amount |-> amount]
    IN  /\ stage = "executing"
        /\ Len(frames) > 1
        /\ Logged < MaxLogs
        /\ arena' = [arena EXCEPT
              ![n].logs = Append(@, log),
              ![n].ordering = Append(@, [kind |-> "Log", index |-> Len(arena[n].logs) + 1])]
        /\ IF started
           THEN /\ effects' = Append(effects, [token |-> Top.context, from |-> from,
                                               to |-> to, amount |-> amount])
                /\ history' = Append(history, <<"log", log>>)
           ELSE UNCHANGED <<effects, history>>
        /\ UNCHANGED <<stage, frames, started, transfers, shown>>

(* A frame returns, or reverts and takes its effects with it.  The harness  *)
(* ends after the call of the target, and when one of its calls reverts.    *)
Leave(success) ==
    LET ends == Len(frames) = 2 /\ (started \/ ~ success)
        left == IF success THEN arena ELSE [arena EXCEPT ![Top.node].success = FALSE]
    IN  /\ stage = "executing"
        /\ Len(frames) > 1
        /\ arena' = IF ends /\ ~ success THEN [left EXCEPT ![1].success = FALSE] ELSE left
        /\ effects' = IF success THEN effects ELSE SubSeq(effects, 1, Top.mark)
        /\ frames' = IF ends THEN <<>> ELSE Front(frames)
        /\ stage' = IF ends THEN "recorded" ELSE stage
        /\ UNCHANGED <<started, history, transfers, shown>>

-----------------------------------------------------------------------------
(* The backend: traceparser. *)

(* transactionRoot: the last node of the arena whose parent is the harness. *)
TransactionRoot(nodes) == CHOOSE i \in DOMAIN nodes :
    nodes[i].parent = 1 /\ \A j \in DOMAIN nodes : nodes[j].parent = 1 => j <= i

(* Mistake: only the status of the transaction itself is looked at. *)
IsRevertedTransaction(nodes, i) == i = TransactionRoot(nodes) /\ ~ nodes[i].success

(* isRevertedTrace. *)
IsReverted(nodes, i) == ~ nodes[i].success

(* A frame other than a delegate call becomes the token of its logs and of  *)
(* those of the delegate calls below it.                                    *)
TokenContext(node, context) == IF node.kind = "DELEGATECALL" THEN context ELSE node.address

(* collectERC20Transfers: the logs of a frame, then those of its children;  *)
(* nothing of a reverted frame nor of what is below it.                     *)
Collected(nodes) ==
    LET collected[i \in DOMAIN nodes] == [context \in Contracts \cup {Harness} |->
          LET token == TokenContext(nodes[i], context)
              own == [k \in DOMAIN nodes[i].logs |->
                        [token |-> token, from |-> nodes[i].logs[k].from,
                         to |-> nodes[i].logs[k].to, amount |-> nodes[i].logs[k].amount]]
          IN  IF IsReverted(nodes, i)
              THEN <<>>
              ELSE own \o FlattenSeq([k \in DOMAIN nodes[i].children |->
                                         collected[nodes[i].children[k]][token]])]
    IN  collected

CollectERC20Transfers == Collected(arena)[TransactionRoot(arena)][Harness]

(* Of a run that failed the response keeps the trace alone. *)
ParseOutput ==
    /\ stage = "recorded"
    /\ stage' = "parsed"
    /\ transfers' = IF arena[1].success THEN CollectERC20Transfers ELSE <<>>
    /\ UNCHANGED <<traceVars, shown>>

-----------------------------------------------------------------------------
(* The frontend: the Trace tab.  It reads the trace of the response and      *)
(* nothing else, so a behaviour that shows it ends there.                   *)

(* callIDFromOrdering: an index into the children of the node. *)
CallIDFromOrdering(node, index) == node.children[index]

(* Mistake: the logs of a frame are shown before its calls. *)
LogsFirst(node) ==
    LET Of(kind) == SelectSeq(node.ordering, LAMBDA entry : entry.kind = kind)
    IN  Of("Log") \o Of("Call")

(* orderedEntries: the calls and logs of a frame as they interleaved. *)
OrderedEntries(node) == node.ordering

(* orderedChildren, read from top to bottom: the node, then what is in it. *)
Rows(nodes) ==
    LET below[i \in DOMAIN nodes] ==
          <<<<"call", i>>>> \o
          FlattenSeq([k \in DOMAIN OrderedEntries(nodes[i]) |->
              LET entry == OrderedEntries(nodes[i])[k]
              IN  IF entry.kind = "Log"
                  THEN <<<<"log", nodes[i].logs[entry.index]>>>>
                  ELSE below[CallIDFromOrdering(nodes[i], entry.index)]])
    IN  below

(* lastCallWithParent(nodes, 0): the last of the calls of the harness, in   *)
(* the order of the tree.                                                   *)
MainCall(nodes) ==
    LET entries == OrderedEntries(nodes[1])
        last == CHOOSE k \in DOMAIN entries :
                  entries[k].kind = "Call"
                  /\ \A j \in DOMAIN entries : entries[j].kind = "Call" => j <= k
    IN  CallIDFromOrdering(nodes[1], entries[last].index)

ShowTrace ==
    /\ stage = "parsed"
    /\ stage' = "shown"
    /\ shown' = Rows(arena)[MainCall(arena)]
    /\ UNCHANGED <<traceVars, transfers>>

-----------------------------------------------------------------------------
Execute ==
    \/ \E c \in Contracts : Override(c) \/ CallTarget(c)
    \/ \E kind \in {"CALL", "DELEGATECALL"}, c \in Contracts : CallInside(kind, c)
    \/ \E from, to \in Accounts, amount \in Amounts : EmitTransfer(from, to, amount)
    \/ \E success \in BOOLEAN : Leave(success)

NextTrace == Execute \/ ParseOutput \/ ShowTrace

-----------------------------------------------------------------------------
Times(x, list) == Total([i \in DOMAIN list |-> IF list[i] = x THEN 1 ELSE 0])
SameBag(s, t) == \A x \in ToSet(s) \cup ToSet(t) : Times(x, s) = Times(x, t)

(* The transfers of the response are those that happened: each as often as  *)
(* it was logged, under the address whose storage ran, none of a reverted   *)
(* call or of the preparation (ParseOutput).  The response lists the logs   *)
(* of a frame before those of its calls, so the order is not promised.      *)
TransfersHappened == stage # "executing" /\ stage # "recorded" => SameBag(transfers, effects)

(* The Trace tab shows the calls and logs of the transaction, reverted or   *)
(* not, in the order they happened, and nothing of the preparation; when    *)
(* the preparation failed it shows the call that failed.                    *)
ShownIsExecution ==
    stage = "shown" => IF started THEN shown = history ELSE ~ arena[shown[1][2]].success
=============================================================================
