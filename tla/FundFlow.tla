------------------------------ MODULE FundFlow ------------------------------
(***************************************************************************)
(* What the program makes of the transfers of a transaction: the prices    *)
(* and metadata of their tokens, asked of four providers in turn           *)
(* (internal/prices), the signed balance changes with their USD values     *)
(* (internal/fundflow), and the edges of the Flow tab                      *)
(* (features/fund-flow/transferGrouping.ts).                               *)
(*                                                                         *)
(* Amounts are exact: the code uses big integers and decimal strings, and  *)
(* only a USD value is a float, whose rounding is left out.                *)
(***************************************************************************)
EXTENDS TransactionTrace

CONSTANTS
    DecimalsOf,       \* what decimals() of a token returns
    SymbolOf,         \* what symbol() of a token returns
    Payloads,         \* which of "decimals" and "symbol" a payload about a token may have
    StableSymbols,    \* the symbols IsStablecoinSymbol knows
    LlamaPrice,       \* the price DefiLlama has for a token
    GeckoPrice,       \* the price CoinGecko has for a token
    MaxDecimals       \* bound on DecimalsOf

Unknown == -1         \* HasDecimals is false
NoSymbol == ""
NoLogo == ""

ASSUME PriceAssumption ==
    /\ MaxDecimals \in Nat
    /\ DecimalsOf \in [Contracts -> 0 .. MaxDecimals]
    /\ DOMAIN SymbolOf = Contracts /\ \A token \in Contracts : SymbolOf[token] # NoSymbol
    /\ DOMAIN Payloads = Contracts
    /\ LlamaPrice \in Nat \ {0} /\ GeckoPrice \in Nat \ {0}

VARIABLES
    answers,      \* what each provider asked so far answered for each token
    prices,       \* the merged TokenPrice of each token
    changes,      \* balanceAnalysis.changes
    userTotals,   \* balanceAnalysis.userTotals, as a function
    edges         \* the grouped transfers of the Flow tab

flowVars == <<answers, prices, changes, userTotals, edges>>
vars == <<stage, traceVars, transfers, shown, flowVars>>

Price(usd, decimals, symbol, logo) ==
    [usd |-> usd, decimals |-> decimals, symbol |-> symbol, logo |-> logo]

(* A token nobody has answered for is absent from the map of the code; the  *)
(* zero TokenPrice it yields when it is read is what is kept here.          *)
NoPrice == Price(0, Unknown, NoSymbol, NoLogo)

Tokens == {transfers[i].token : i \in DOMAIN transfers}

Init ==
    /\ InitTrace
    /\ answers = <<>>
    /\ prices = <<>>
    /\ changes = {}
    /\ userTotals = <<>>
    /\ edges = <<>>

-----------------------------------------------------------------------------
(* The providers: what each may answer for a token. *)

(* RPCMetadataProvider: decimals() and symbol() may each fail; the logo of  *)
(* the Trust Wallet repository follows from the address.                    *)
RPCMetadata(token) ==
    {Price(0, decimals, symbol, "trust") :
        decimals \in {Unknown, DecimalsOf[token]}, symbol \in {NoSymbol, SymbolOf[token]}}

(* DefiLlamaProvider: price, decimals, symbol and the same logo; a payload  *)
(* without decimals is taken to say that there are none.                    *)
DefiLlama(token) ==
    {Price(LlamaPrice,
           IF "decimals" \in payload THEN DecimalsOf[token] ELSE 0,
           IF "symbol" \in payload THEN SymbolOf[token] ELSE NoSymbol, "trust") :
        payload \in Payloads[token]}

(* CoinGeckoProvider: a price alone. *)
CoinGecko(token) == {Price(GeckoPrice, Unknown, NoSymbol, NoLogo)}

(* DexScreenerProvider: a symbol, and the image of the most liquid pair. *)
DexScreener(token) ==
    {Price(0, Unknown, IF "symbol" \in payload THEN SymbolOf[token] ELSE NoSymbol, logo) :
        payload \in Payloads[token], logo \in {NoLogo, "dex"}}

(* DefaultProvider. *)
Providers == 4

(* The RPC provider has a logo for every token; another one whose request   *)
(* fails (fetchJSON), or that does not know the token or the chain, says    *)
(* nothing.                                                                 *)
Answers(k, token) ==
    CASE k = 1 -> RPCMetadata(token)
      [] k = 2 -> DefiLlama(token) \cup {NoPrice}
      [] k = 3 -> CoinGecko(token) \cup {NoPrice}
      [] k = 4 -> DexScreener(token) \cup {NoPrice}

(* Mistake: a later provider replaces what an earlier one knew. *)
LaterWins(existing, next) ==
    [existing EXCEPT
       !.usd = IF next.usd > 0 THEN next.usd ELSE @,
       !.decimals = IF next.decimals # Unknown THEN next.decimals ELSE @,
       !.symbol = IF next.symbol # NoSymbol THEN next.symbol ELSE @,
       !.logo = IF next.logo # NoLogo THEN next.logo ELSE @]

(* mergeTokenPrice: what is known stays, but for the Trust Wallet logo. *)
MergeTokenPrice(existing, next) ==
    [existing EXCEPT
       !.usd = IF @ <= 0 /\ next.usd > 0 THEN next.usd ELSE @,
       !.decimals = IF @ = Unknown THEN next.decimals ELSE @,
       !.symbol = IF @ = NoSymbol THEN next.symbol ELSE @,
       !.logo = IF next.logo # NoLogo /\ @ \in {NoLogo, "trust"} THEN next.logo ELSE @]

(* applyStablecoinFallback, after the last provider. *)
WithStablecoinFallback(price) ==
    IF price.usd > 0 \/ price.symbol \notin StableSymbols THEN price
    ELSE [price EXCEPT !.usd = 1]

(* fetchTokenPrices asks for nothing when there is no transfer.  The arena  *)
(* and the history are left behind: nothing below reads them.               *)
FetchTokenPrices ==
    /\ stage = "parsed"
    /\ stage' = IF transfers = <<>> THEN "priced" ELSE "pricing"
    /\ prices' = [token \in Tokens |-> NoPrice]
    /\ arena' = <<>> /\ history' = <<>> /\ frames' = <<>>
    /\ UNCHANGED <<started, effects, transfers, shown, answers, changes, userTotals, edges>>

(* One turn of the loop of MultiProvider.Fetch. *)
AskProvider ==
    /\ stage = "pricing"
    /\ \E answer \in {f \in [Tokens -> UNION {Answers(Len(answers) + 1, t) : t \in Tokens}] :
                        \A token \in Tokens : f[token] \in Answers(Len(answers) + 1, token)} :
         LET merged == [token \in Tokens |-> MergeTokenPrice(prices[token], answer[token])]
             last == Len(answers) + 1 = Providers
         IN  /\ answers' = Append(answers, answer)
             /\ prices' = IF last
                          THEN [token \in Tokens |-> WithStablecoinFallback(merged[token])]
                          ELSE merged
             /\ stage' = IF last THEN "priced" ELSE stage
    /\ UNCHANGED <<traceVars, transfers, shown, changes, userTotals, edges>>

-----------------------------------------------------------------------------
(* The balance analysis. *)

(* What a sequence of transfers adds to the balance of a user in a token:   *)
(* the reference the code is compared with.                                 *)
Moved(t, user, token) ==
    IF t.token # token \/ t.from = t.to THEN 0
    ELSE IF t.to = user THEN t.amount ELSE IF t.from = user THEN - t.amount ELSE 0

Net(list, user, token) == Total([i \in DOMAIN list |-> Moved(list[i], user, token)])

(* Mistake: a transfer to oneself is counted on one side. *)
AddedOnce(raw, t) ==
    IF t.from = t.to THEN [raw EXCEPT ![<<t.to, t.token>>] = @ + t.amount]
    ELSE [raw EXCEPT ![<<t.from, t.token>>] = @ - t.amount, ![<<t.to, t.token>>] = @ + t.amount]

(* addRawChange, for the sender and for the receiver. *)
AddRawChange(raw, t) ==
    LET debited == [raw EXCEPT ![<<t.from, t.token>>] = @ - t.amount]
    IN  [debited EXCEPT ![<<t.to, t.token>>] = @ + t.amount]

(* The changes after each of the transfers, and after all. *)
RawAfter ==
    LET raw[n \in 0 .. Len(transfers)] ==
          IF n = 0 THEN [key \in Accounts \X Tokens |-> 0]
          ELSE AddRawChange(raw[n - 1], transfers[n])
    IN  raw

RawChanges == RawAfter[Len(transfers)]

(* A stablecoin without a price is worth a dollar here too. *)
PriceUSD(price) ==
    IF price.usd <= 0 /\ price.symbol \in StableSymbols THEN 1 ELSE price.usd

(* A change has a USD value when price and decimals are there. *)
Valued(price) == price.decimals # Unknown /\ PriceUSD(price) > 0

(* USD values are kept in units of 10^-MaxDecimals. *)
USDValue(raw, price) == raw * PriceUSD(price) * 10 ^ (MaxDecimals - price.decimals)

Change(user, token, raw) ==
    LET price == prices[token]
    IN  [user |-> user, token |-> token, rawAmount |-> raw,
         valued |-> Valued(price),
         usdValue |-> IF Valued(price) THEN USDValue(raw, price) ELSE 0]

(* What changed: the users and tokens whose change is not zero. *)
ChangedKeys == {key \in Accounts \X Tokens : RawChanges[key] # 0}

(* The sum of f over a set. *)
SumOver(f, S) == MapThenSumSet(LAMBDA x : f[x], S)

(* AnalyzeBalanceChanges: the changes that are not zero, and per user the   *)
(* sum of those that have a value.                                          *)
AnalyzeBalanceChanges ==
    LET listed == {Change(key[1], key[2], RawChanges[key]) : key \in ChangedKeys}
        valued == {c \in listed : c.valued}
    IN  /\ stage = "priced"
        /\ stage' = "analyzed"
        /\ changes' = listed
        /\ userTotals' = [user \in {c.user : c \in valued} |->
               SumOver([c \in valued |-> c.usdValue], {c \in valued : c.user = user})]
        /\ UNCHANGED <<traceVars, transfers, shown, answers, prices, edges>>

-----------------------------------------------------------------------------
(* The Flow tab. *)

(* Mistake: edges of different tokens are drawn as one. *)
SameParties(edge, t) == edge.from = t.from /\ edge.to = t.to

SameEdge(edge, t) == edge.from = t.from /\ edge.to = t.to /\ edge.token = t.token

(* One transfer more on an edge. *)
AddToEdge(edge, t, n) == [edge EXCEPT !.amount = @ + t.amount, !.indices = Append(@, n)]

(* The n-th transfer joins the edge of its sender, receiver and token, or   *)
(* makes one.                                                               *)
GroupTransfer(groups, t, n) ==
    LET at == {k \in DOMAIN groups : SameEdge(groups[k], t)}
    IN  IF at = {}
        THEN Append(groups, [from |-> t.from, to |-> t.to, token |-> t.token,
                             amount |-> t.amount, indices |-> <<n>>])
        ELSE [groups EXCEPT ![CHOOSE k \in at : TRUE] = AddToEdge(@, t, n)]

(* groupGraphTransfers: one edge for each sender, receiver and token, in    *)
(* the order of first appearance, with the sum and the places in the list.  *)
GroupedAfter ==
    LET groups[n \in 0 .. Len(transfers)] ==
          IF n = 0 THEN <<>> ELSE GroupTransfer(groups[n - 1], transfers[n], n)
    IN  groups

Grouped == GroupedAfter[Len(transfers)]

(* The frontend has the response alone: the price map stays in the backend. *)
ShowFlow ==
    /\ stage = "analyzed"
    /\ stage' = "drawn"
    /\ edges' = Grouped
    /\ answers' = <<>> /\ prices' = <<>>
    /\ UNCHANGED <<traceVars, transfers, shown, changes, userTotals>>

-----------------------------------------------------------------------------
Next ==
    \/ NextTrace /\ UNCHANGED flowVars
    \/ FetchTokenPrices \/ AskProvider \/ AnalyzeBalanceChanges \/ ShowFlow

Spec == Init /\ [][Next]_vars

-----------------------------------------------------------------------------
Analyzed == stage \in {"analyzed", "drawn"}

(* The listed changes are what the transaction did to the balances: for     *)
(* each user and token what the surviving transfers bring and take, and no  *)
(* line where that is nothing (the parser and AnalyzeBalanceChanges).       *)
(* Value is moved, not made: the totals of the users cancel out, whatever   *)
(* providers failed.                                                        *)
ChangesAreNet ==
    Analyzed =>
      /\ \A user \in Accounts, token \in Contracts :
           LET lines == {c \in changes : c.user = user /\ c.token = token}
           IN  IF Net(effects, user, token) = 0
               THEN lines = {}
               ELSE {c.rawAmount : c \in lines} = {Net(effects, user, token)}
      /\ SumOver(userTotals, DOMAIN userTotals) = 0

(* What the Flow tab draws adds up to what the Balances tab lists, though   *)
(* the two are computed apart, in two languages.                            *)
FlowAgreesWithBalances ==
    stage = "drawn" => \A user \in Accounts, token \in Tokens :
        LET lines == {c \in changes : c.user = user /\ c.token = token}
        IN  IF Net(edges, user, token) = 0
            THEN lines = {}
            ELSE {c.rawAmount : c \in lines} = {Net(edges, user, token)}

(* What the first provider that knew it said of a field of a token. *)
FirstKnown(list, token, field, unknown) ==
    LET known == {k \in DOMAIN list : list[k][token][field] # unknown}
    IN  IF known = {} THEN unknown
        ELSE list[CHOOSE k \in known : \A j \in known : k <= j][token][field]

(* The price of a token is the first one a provider knows, or one dollar    *)
(* for a stablecoin without a price; decimals and symbol are the first      *)
(* known; a logo of DexScreener displaces that of Trust Wallet, whichever   *)
(* providers failed (mergeTokenPrice, applyStablecoinFallback).  A change   *)
(* has a USD value if some provider knew the decimals of its token, and a   *)
(* price or a stablecoin's symbol.                                          *)
PricesAreFirstKnown ==
    stage \in {"priced", "analyzed"} =>
        \A token \in Tokens :
            LET usd == FirstKnown(answers, token, "usd", 0)
                decimals == FirstKnown(answers, token, "decimals", Unknown)
                symbol == FirstKnown(answers, token, "symbol", NoSymbol)
                logos == {answers[k][token].logo : k \in DOMAIN answers}
            IN  /\ prices[token].decimals = decimals
                /\ \A c \in {c \in changes : c.token = token} :
                     c.valued <=> decimals # Unknown /\ (usd > 0 \/ symbol \in StableSymbols)
                /\ prices[token].symbol = symbol
                /\ prices[token].usd =
                     IF usd = 0 /\ symbol \in StableSymbols THEN 1 ELSE usd
                /\ prices[token].logo =
                     IF "dex" \in logos THEN "dex" ELSE IF "trust" \in logos THEN "trust" ELSE NoLogo

(* Every variable has its type. *)
TypeOK ==
    /\ stage \in {"executing", "recorded", "parsed", "shown", "pricing", "priced",
                  "analyzed", "drawn"}
    /\ Len(arena) <= MaxNodes
    /\ Len(effects) <= MaxLogs
    /\ \A i \in DOMAIN transfers : transfers[i] \in
          [token : Contracts, from : Accounts, to : Accounts, amount : Amounts]
    /\ Len(answers) <= Providers
    /\ DOMAIN prices \subseteq Contracts
    /\ \A c \in changes : c.rawAmount \in Int \ {0}
    /\ Len(edges) <= Len(transfers)
=============================================================================
