--------------------------- MODULE MCPresentation ---------------------------
(***************************************************************************)
(* The parts of the page that share no state with one another, on small    *)
(* instances: the flow of funds and the trace it comes from, the form, its *)
(* panels and its project, the search of the trace, the views, the cards   *)
(* and the names of addresses.  Each behaviour is one of one part.         *)
(***************************************************************************)
EXTENDS FundFlow, RequestForm, ExchangePanels, ProjectHistory, TraceSearch, OutputViews,
        FloatingCard, AddressLabels, TLC

VARIABLE part

Symmetry == Permutations(Accounts)
MCDecimals == [c \in Contracts |-> IF c = "dai" THEN 1 ELSE 2]
MCSymbols == [c \in Contracts |-> IF c = "dai" THEN "DAI" ELSE "WETH"]
MCPayloads == [c \in Contracts |->
                 {{"decimals", "symbol"}} \cup (IF c = "dai" THEN {{}} ELSE {})]

(* A request with every field, but for the flags, and one of a transaction. *)
FullRequest ==
    [kind |-> "simulation", chain |-> "base",
     text |-> [x \in TextFields \ {"txHash"} |-> IF x = "data" THEN "0x" ELSE "v"],
     flags |-> [x \in FlagFields \ {"useLatestBlock", "quick"} |-> "none"],
     rows |-> [g \in Groups |-> IF g = "labelOverrides"
                                THEN <<[account |-> "w", label |-> "v"]>> ELSE <<>>]]
TxRequest ==
    [kind |-> "tx", chain |-> "mainnet", text |-> [txHash |-> "v"],
     flags |-> [decodeInternal |-> "on", quick |-> "none"]]
MCForeign == {FullRequest, TxRequest}
MCChainLists == {<<"op", "base">>}

MCLists == {<<"p", "d">>}

(* Two traces whose first two rows have the same keys. *)
Row(key, depth) == [key |-> key, depth |-> depth]
MCTraces == {<<>>, <<Row("a", 0), Row("b", 1), Row("c", 2), Row("d", 1)>>,
             <<Row("a", 0), Row("b", 1), Row("e", 1), Row("f", 2)>>}
MCHits == [l1 |-> [q |-> {"c", "d"}, r |-> {"b", "f"}], l2 |-> [q |-> {"c", "f"}, r |-> {"d"}]]

MCInit ==
    /\ part \in {"flow", "form", "panels", "projects", "search", "views", "cards", "labels"}
    /\ Init /\ FormInit /\ PanelInit /\ HistoryInit /\ SearchInit
    /\ ViewsInit /\ CardInit /\ LabelsInit
    /\ part # "form" => form.apiUrl = "u1"
    /\ part # "views" => view = "trace" /\ ~ hasTransfers

Only(p) == part = p /\ UNCHANGED part

MCNext ==
    \/ /\ Only("flow") /\ Next
       /\ UNCHANGED <<formVars, panelVars, historyVars, searchVars, viewVars, cardVars, inputs>>
    \/ /\ Only("form") /\ FormNext
       /\ UNCHANGED <<vars, panelVars, historyVars, searchVars, viewVars, cardVars, inputs>>
    \/ /\ Only("panels") /\ PanelNext
       /\ UNCHANGED <<vars, formVars, historyVars, searchVars, viewVars, cardVars, inputs>>
    \/ /\ Only("projects") /\ HistoryNext
       /\ UNCHANGED <<vars, formVars, panelVars, searchVars, viewVars, cardVars, inputs>>
    \/ /\ Only("search") /\ SearchNext
       /\ UNCHANGED <<vars, formVars, panelVars, historyVars, viewVars, cardVars, inputs>>
    \/ /\ Only("views") /\ ViewsNext
       /\ UNCHANGED <<vars, formVars, panelVars, historyVars, searchVars, cardVars, inputs>>
    \/ /\ Only("cards") /\ CardNext
       /\ UNCHANGED <<vars, formVars, panelVars, historyVars, searchVars, viewVars, inputs>>
    \/ /\ Only("labels") /\ LabelsNext
       /\ UNCHANGED <<vars, formVars, panelVars, historyVars, searchVars, viewVars, cardVars>>

MCVars == <<part, vars, formVars, panelVars, historyVars, searchVars, viewVars, cardVars, inputs>>
MCSpec == MCInit /\ [][MCNext]_MCVars

(* The types of every part, with what the parts keep to besides: one panel   *)
(* at a time, no export without a record, every mark of a copy with a timer. *)
PartsTypeOK ==
    /\ TypeOK /\ FormTypeOK /\ PanelTypeOK /\ HistoryTypeOK
    /\ SearchTypeOK /\ ViewsTypeOK /\ CardTypeOK
=============================================================================
