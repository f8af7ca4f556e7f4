\* Every part of the page that is not the life of a request.
SPECIFICATION MCSpec
SYMMETRY Symmetry
CONSTANTS
    Accounts = {u1, u2}
    Contracts = {"dai", "weth"}
    Amounts = {0, 1}
    Harness = "harness"
    MaxNodes = 4
    MaxLogs = 2
    DecimalsOf <- MCDecimals
    SymbolOf <- MCSymbols
    Payloads <- MCPayloads
    StableSymbols = {"DAI"}
    LlamaPrice = 3
    GeckoPrice = 5
    MaxDecimals = 2
    Urls = {"u1", "u2"}
    ChainLists <- MCChainLists
    Foreign <- MCForeign
    Typed = {"", " v ", "bad"}
    MaxEdits = 2
    MaxRows = 1
    Projects = {"p", "q", "d"}
    DefaultProject = "d"
    NoProject = ""
    Lists <- MCLists
    HistorySize = 2
    MaxChoices = 3
    Traces <- MCTraces
    Labellings = {"l1", "l2"}
    Queries = {"q", "r"}
    Hits <- MCHits
    NoQuery = ""
    DepthLimit = 2
    Positions = {0, 1}
    Cards = {c1, c2}
    MaxWrites = 2
    Addresses = {a, b}
    Labels = {l, m}
    Sender = s
    Mentions = {{}, {a}, {l}}
    MaxOverrides = 2
    MaxCalls = 2
    MaxItems = 1
    None = n
INVARIANTS
    PartsTypeOK
    TransfersHappened
    ShownIsExecution
    ChangesAreNet
    FlowAgreesWithBalances
    PricesAreFirstKnown
    SentIsShown
    ReopenedRunsTheSame
    PastListsLatestFirst
    SearchRevealsMatches
    ViewsComeBack
    CardsFollowPresses
    LabelsFindTheirAddress
CHECK_DEADLOCK FALSE
