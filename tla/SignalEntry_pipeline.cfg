\* One hypothesis from its import to a simulated entry, two commands at a time.
CONSTANTS
    Whole = 200
    OnePercent = 2
    Unit = 4
    Bps = 10
    Workers = {w1, w2}
    Signals = {"sig"}
    Approvals = {"grant"}
    Contents = {"first", "second"}
    Specs <- MCSpecs
    Datasets = {"whole", "gap", "sparse"}
    Stored <- MCStored
    Requests <- MCRequests
    WindowEnd = 6
    GatePolicy <- MCGatePolicy
    RiskPolicy <- MCRiskPolicy
    SelectionPolicy <- MCSelectionPolicy
    StrategyConfig <- MCStrategyConfig
    StrategyNames = {"trend", "breakout"}
    Scopes = {"btc"}
    Markets <- MCMarkets
    RiskContexts <- MCRiskContexts
    Executions <- MCExecutions
    MinApprovalTrades = 1
    MaxQuantity = 5
    MaxClock = 1
    MaxChanges = 2
SPECIFICATION Spec
SYMMETRY WorkerSymmetry
INVARIANT IInv
INVARIANT TradesAreHonest
INVARIANT EntriesAreBounded
PROPERTY NoEntryAfterRevocation
PROPERTY EntryImplemented
CHECK_DEADLOCK FALSE
