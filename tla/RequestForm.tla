----------------------------- MODULE RequestForm -----------------------------
(***************************************************************************)
(* The values of the request form (app/form.ts, RequestForm.tsx,           *)
(* ScriptOverridesTab.tsx, OverrideGroup.tsx): what the user may change,   *)
(* the request a run would send, and the form a stored request opens as.   *)
(*                                                                         *)
(* A text is blank, well formed or not; two well formed texts, with or     *)
(* without blanks around them, are enough to tell fields from one another. *)
(* The letter case of addresses is left out.                               *)
(***************************************************************************)
EXTENDS Naturals, Sequences, SequencesExt

CONSTANTS
    Urls,         \* API URLs
    ChainLists,   \* the lists of chains a backend may answer
    Foreign,      \* requests of records that other clients made
    Typed,        \* what the user may type
    MaxEdits,     \* bound: changes of a field by the user
    MaxRows       \* bound: rows of one group of overrides

TextFields == {"txHash", "blockNumber", "sender", "target", "data", "value", "projectPath",
               "stateContractName", "stateSource", "compilerUse", "optimizerRuns",
               "evmVersion", "revertStrings"}
FlagFields == {"useLatestBlock", "viaIR", "optimize", "offline", "noMetadata",
               "decodeInternal", "quick"}

(* The four groups of the Override Options tab and their columns. *)
Columns ==
    [labelOverrides |-> {"account", "label"},
     erc20BalanceOverrides |-> {"token", "account", "balance"},
     erc20ApprovalOverrides |-> {"token", "owner", "spender", "amount"},
     erc721ApprovalOverrides |-> {"token", "owner", "spender", "tokenId"}]
Groups == DOMAIN Columns

Proper == {"v", "w"}
Trim(t) == CASE t = " v " -> "v" [] t = " " -> "" [] OTHER -> t
Blank(t) == Trim(t) = ""

Refused == [kind |-> "refused"]
NotLoaded == <<>>             \* also a list of no chains, which is handled alike

(* The texts and the chains there are. *)
Texts == {"", " ", "v", " v ", "w", "bad", "0x", "Sender"}
Chains == {"mainnet"} \cup UNION {ToSet(list) : list \in ChainLists}
                    \cup {request.chain : request \in Foreign}

RowsOf(g) == Seq([Columns[g] -> Texts])
RowGroups ==
    [labelOverrides : RowsOf("labelOverrides"),
     erc20BalanceOverrides : RowsOf("erc20BalanceOverrides"),
     erc20ApprovalOverrides : RowsOf("erc20ApprovalOverrides"),
     erc721ApprovalOverrides : RowsOf("erc721ApprovalOverrides")]

(* The requests of either kind.  A flag that is left out is "none", a text   *)
(* that is left out is "".                                                   *)
Flags == {"on", "off", "none"}
SimulationRequests ==
    [kind : {"simulation"}, chain : Chains, text : [TextFields \ {"txHash"} -> Texts],
     flags : [FlagFields \ {"useLatestBlock", "quick"} -> Flags], rows : RowGroups]
TxRequests ==
    [kind : {"tx"}, chain : Chains, text : [{"txHash"} -> Texts],
     flags : [{"decodeInternal", "quick"} -> Flags]]
Requests == SimulationRequests \cup TxRequests

ASSUME FormAssumption ==
    /\ Urls # {} /\ MaxEdits \in Nat /\ MaxRows \in Nat
    /\ \A list \in ChainLists : list \in Seq(Chains) /\ Len(list) > 0
    /\ Typed \subseteq {"", " ", "v", " v ", "w", "bad"}
    /\ Foreign \subseteq Requests

VARIABLES
    form,             \* FormState
    chainData,        \* chainQuery.data for each API URL
    defaultApiUrl,    \* the API URL of the configuration the page was loaded with
    sent,             \* the last request this window has sent, if any
    edits             \* changes of a field so far

formVars == <<form, chainData, defaultApiUrl, sent, edits>>

Defaults(url) ==
    [apiUrl |-> url, requestKind |-> "simulation", chain |-> "mainnet",
     text |-> [x \in TextFields |-> ""],
     flags |-> [x \in FlagFields |-> x \in {"viaIR", "optimize"}],
     rows |-> [g \in Groups |-> <<>>]]

-----------------------------------------------------------------------------
(* The request a run sends. *)

Sides(b) == IF b THEN "on" ELSE "off"

TrimmedRow(row) == [c \in DOMAIN row |-> Trim(row[c])]

HasAnyValue(row) == \E c \in DOMAIN row : row[c] # ""

(* compactRows, row after row: blank rows are dropped, and a row filled in   *)
(* part is an error.                                                         *)
Compacted(rows) ==
    LET compacted[n \in 0 .. Len(rows)] ==
          IF n = 0 THEN <<>>
          ELSE IF HasAnyValue(TrimmedRow(rows[n]))
          THEN Append(compacted[n - 1], TrimmedRow(rows[n]))
          ELSE compacted[n - 1]
    IN  compacted

CompactRows(rows) == Compacted(rows)[Len(rows)]
Partial(row) == \E c, d \in DOMAIN row : row[c] = "" /\ row[d] # ""

(* Mistake: the sender is labelled whatever labels it has. *)
AlwaysLabelled(sender, labels) ==
    IF Trim(sender) \notin Proper THEN labels
    ELSE <<[account |-> Trim(sender), label |-> "Sender"]>> \o labels

(* withSenderLabel: the sender is labelled unless the user has done it. *)
WithSenderLabel(sender, labels) ==
    IF Trim(sender) \notin Proper
       \/ \E i \in DOMAIN labels : labels[i].account = Trim(sender)
    THEN labels
    ELSE <<[account |-> Trim(sender), label |-> "Sender"]>> \o labels

BlockSent(f) == IF f.flags.useLatestBlock THEN "" ELSE Trim(f.text.blockNumber)

(* simulateRequestSchema, for what the controls of the form can hold. *)
RowsMatch(g, rows) ==
    \A i \in DOMAIN rows : \A c \in Columns[g] \ {"label"} : rows[i][c] \in Proper

MatchesSchema(request) ==
    LET text == request.text
    IN  /\ text.blockNumber \in Proper \cup {""}
        /\ {text.sender, text.target} \subseteq Proper
        /\ text.data \in Proper \cup {"0x"}
        /\ text.value \in Proper \cup {""}
        /\ \A g \in Groups : RowsMatch(g, request.rows[g])

(* A state override without a source is left out, with its contract. *)
SentText(f, x) ==
    LET text == f.text
        override == ~ Blank(text.stateSource)
    IN  CASE x = "blockNumber" -> BlockSent(f)
          [] x = "data" -> IF Blank(text.data) THEN "0x" ELSE Trim(text.data)
          [] x = "stateSource" -> IF override THEN text.stateSource ELSE ""
          [] x = "stateContractName" -> IF override THEN Trim(text[x]) ELSE ""
          [] OTHER -> Trim(text[x])

SentFlag(f, x) ==
    IF x \in {"offline", "noMetadata"} /\ ~ f.flags[x] THEN "none" ELSE Sides(f.flags[x])

SentRows(f, g) ==
    IF g = "labelOverrides" THEN WithSenderLabel(f.text.sender, CompactRows(f.rows[g]))
    ELSE CompactRows(f.rows[g])

SimulationRequest(f) ==
    [kind |-> "simulation", chain |-> f.chain,
     text |-> [x \in TextFields \ {"txHash"} |-> SentText(f, x)],
     flags |-> [x \in FlagFields \ {"useLatestBlock", "quick"} |-> SentFlag(f, x)],
     rows |-> [g \in Groups |-> SentRows(f, g)]]

Complete(f) ==
    /\ ~ Blank(f.text.sender) /\ ~ Blank(f.text.target)
    /\ f.flags.useLatestBlock \/ ~ Blank(f.text.blockNumber)
    /\ Trim(f.text.optimizerRuns) \in Proper \cup {""}
    /\ \A g \in Groups : \A i \in DOMAIN CompactRows(f.rows[g]) :
          ~ Partial(CompactRows(f.rows[g])[i])

BuildSimulationRequest(f) ==
    IF Complete(f) /\ MatchesSchema(SimulationRequest(f)) THEN SimulationRequest(f) ELSE Refused

BuildTxRequest(f) ==
    IF Trim(f.text.txHash) \notin Proper THEN Refused
    ELSE [kind |-> "tx", chain |-> f.chain,
          text |-> [txHash |-> Trim(f.text.txHash)],
          flags |-> [x \in {"decodeInternal", "quick"} |-> Sides(f.flags[x])]]

BuildRunRequest(f) ==
    IF f.requestKind = "tx" THEN BuildTxRequest(f) ELSE BuildSimulationRequest(f)

-----------------------------------------------------------------------------
(* The form a stored request opens as. *)

FlagOpened(x, v) == IF v = "none" THEN Defaults("").flags[x] ELSE v = "on"

FormFromSimulationRequest(request, url) ==
    [Defaults(url) EXCEPT
       !.chain = request.chain,
       !.text = [x \in TextFields |-> IF x = "txHash" THEN "" ELSE request.text[x]],
       !.flags = [x \in FlagFields |->
           CASE x = "useLatestBlock" -> request.text.blockNumber = ""
             [] x = "quick" -> FALSE
             [] OTHER -> FlagOpened(x, request.flags[x])],
       !.rows = request.rows]

FormFromTxRequest(request, url) ==
    [Defaults(url) EXCEPT
       !.requestKind = "tx",
       !.chain = request.chain,
       !.text.txHash = request.text.txHash,
       !.flags.decodeInternal = FlagOpened("decodeInternal", request.flags.decodeInternal),
       !.flags.quick = FlagOpened("quick", request.flags.quick)]

FormFromRecord(request, url) ==
    IF request.kind = "tx" THEN FormFromTxRequest(request, url)
    ELSE FormFromSimulationRequest(request, url)

(* What the backend stores of a request: the latest block has got a number. *)
AsStored(request) ==
    IF request.kind = "simulation" /\ request.text.blockNumber = ""
    THEN [request EXCEPT !.text.blockNumber = "w"] ELSE request

-----------------------------------------------------------------------------
(* The chains offered, and the effect that keeps the form to them. *)

Options(url, data) == IF data[url] = NotLoaded THEN <<"mainnet">> ELSE data[url]

(* Mistake: the effect runs when a list arrives, not when the form changes. *)
OfferedOnArrival(f, data) ==
    IF data = chainData \/ data[f.apiUrl] = NotLoaded \/ f.chain \in ToSet(data[f.apiUrl])
    THEN f ELSE [f EXCEPT !.chain = Head(data[f.apiUrl])]

(* App's effect on chainQuery.data and form.chain, run after every change:   *)
(* a chain that is not on the list is replaced by the first that is.         *)
OfferedChain(f, data) ==
    IF data[f.apiUrl] = NotLoaded \/ f.chain \in ToSet(data[f.apiUrl])
    THEN f ELSE [f EXCEPT !.chain = Head(data[f.apiUrl])]

SetForm(f) == form' = OfferedChain(f, chainData)

-----------------------------------------------------------------------------
FormInit ==
    /\ \E url \in Urls : form = Defaults(url) /\ defaultApiUrl = url
    /\ chainData = [url \in Urls |-> NotLoaded]
    /\ sent = {}
    /\ edits = 0

(* The fields of a form of the kind chosen, on its tabs: those of a          *)
(* simulation, with the number of the block unless the latest is asked for,  *)
(* or those of a transaction.                                                *)
ShownText(f) ==
    IF f.requestKind = "tx" THEN {"txHash"}
    ELSE TextFields \ ({"txHash"} \cup IF f.flags.useLatestBlock THEN {"blockNumber"} ELSE {})
ShownFlags(f) ==
    IF f.requestKind = "tx" THEN {"decodeInternal", "quick"} ELSE FlagFields \ {"quick"}

Edit(f) ==
    /\ edits < MaxEdits
    /\ edits' = edits + 1
    /\ SetForm(f)
    /\ UNCHANGED <<chainData, defaultApiUrl, sent>>

EditText(x, t) ==
    /\ x \in ShownText(form)
    /\ x = "revertStrings" => t \in {"", "v"}      \* a menu
    /\ Edit([form EXCEPT !.text[x] = t])

Check(x) == x \in ShownFlags(form) /\ Edit([form EXCEPT !.flags[x] = ~ @])

ChooseKind(kind) == Edit([form EXCEPT !.requestKind = kind])

ChooseChain(chain) ==
    /\ chain \in ToSet(Options(form.apiUrl, chainData))
    /\ Edit([form EXCEPT !.chain = chain])

EditApiUrl(url) == Edit([form EXCEPT !.apiUrl = url])

EditRows(g, rows) == form.requestKind = "simulation" /\ Edit([form EXCEPT !.rows[g] = rows])

AddRow(g) ==
    /\ Len(form.rows[g]) < MaxRows
    /\ EditRows(g, Append(form.rows[g], [c \in Columns[g] |-> ""]))

RemoveRow(g, i) == EditRows(g, RemoveAt(form.rows[g], i))

UpdateRow(g, i, c, t) == EditRows(g, [form.rows[g] EXCEPT ![i][c] = t])

(* The query of a list of chains is answered, first or again. *)
ChainsFetched(url, list) ==
    /\ chainData' = [chainData EXCEPT ![url] = list]
    /\ form' = OfferedChain(form, chainData')
    /\ UNCHANGED <<defaultApiUrl, sent, edits>>

Submit ==
    /\ BuildRunRequest(form) # Refused
    /\ sent' = {BuildRunRequest(form)}
    /\ UNCHANGED <<form, chainData, defaultApiUrl, edits>>

(* A stored request is opened, or one from a file: with the API URL the      *)
(* form had when the lookup began.                                           *)
OpenRecord(request, url) ==
    /\ SetForm(FormFromRecord(request, url))
    /\ UNCHANGED <<chainData, defaultApiUrl, sent, edits>>

(* The page is loaded again, perhaps with another configuration.  The form   *)
(* is restored; the API URL follows the configuration if it came from it.    *)
RestoreForm(url) ==
    /\ form' = [form EXCEPT !.apiUrl = IF @ = defaultApiUrl THEN url ELSE @]
    /\ defaultApiUrl' = url
    /\ chainData' = [u \in Urls |-> NotLoaded]
    /\ UNCHANGED <<sent, edits>>

FormNext ==
    \/ \E x \in TextFields, t \in Typed : EditText(x, t)
    \/ \E x \in FlagFields : Check(x)
    \/ \E kind \in {"simulation", "tx"} : ChooseKind(kind)
    \/ \E list \in ChainLists \cup {<<"mainnet">>} : \E chain \in ToSet(list) : ChooseChain(chain)
    \/ \E url \in Urls : EditApiUrl(url) \/ RestoreForm(url)
    \/ \E url \in Urls, list \in ChainLists : ChainsFetched(url, list)
    \/ \E g \in Groups :
         \/ AddRow(g)
         \/ \E i \in DOMAIN form.rows[g] :
              RemoveRow(g, i) \/ \E c \in Columns[g], t \in Typed : UpdateRow(g, i, c, t)
    \/ Submit
    \/ \E url \in Urls, request \in Foreign \cup {AsStored(r) : r \in sent} :
         OpenRecord(request, url)

FormSpec == FormInit /\ [][FormNext]_formVars

-----------------------------------------------------------------------------
(* The values a form can have. *)
Forms ==
    [apiUrl : Urls, requestKind : {"simulation", "tx"}, chain : Chains,
     text : [TextFields -> Texts], flags : [FlagFields -> BOOLEAN], rows : RowGroups]

(* A form holds values of its fields alone, and a run sends a request.       *)
FormTypeOK ==
    /\ form \in Forms /\ defaultApiUrl \in Urls
    /\ chainData \in [Urls -> ChainLists \cup {NotLoaded}]
    /\ sent \subseteq Requests
    /\ edits \in 0 .. MaxEdits

(* What the user sees: hidden fields are as if they had never been filled,   *)
(* and the menu of chains shows its first line for a chain it does not have. *)
Shown(f) ==
    LET options == Options(f.apiUrl, chainData)
    IN  [f EXCEPT
           !.chain = IF @ \in ToSet(options) THEN @ ELSE Head(options),
           !.text = [x \in TextFields |-> IF x \in ShownText(f) THEN @[x] ELSE ""],
           !.flags = [x \in FlagFields |-> IF x \in ShownFlags(f) THEN @[x] ELSE FALSE],
           !.rows = IF f.requestKind = "tx" THEN [g \in Groups |-> <<>>] ELSE @]

(* What a run sends is what the form shows: no text typed before the kind of *)
(* the request or the latest block was chosen, no chain but the one in the   *)
(* menu, once the backend has said which chains it has.                      *)
SentIsShown ==
    chainData[form.apiUrl] # NotLoaded => BuildRunRequest(form) = BuildRunRequest(Shown(form))

(* A request that this window sent, opened from the record the backend made  *)
(* of it and run again, is the same request: blanks, defaults, the label of  *)
(* the sender and the number of the latest block do not drift.               *)
ReopenedRunsTheSame ==
    \A r \in sent : \A stored \in {r, AsStored(r)} :
        BuildRunRequest(FormFromRecord(stored, form.apiUrl)) = stored
=============================================================================
