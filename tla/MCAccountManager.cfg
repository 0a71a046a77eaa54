SPECIFICATION Spec
CONSTANTS
    Alias <- NamedAndEmpty
    Commands <- AllCommands
    GenesisAccountAlias = "genesis-account"
    FaucetRequestsAlias = "faucet-requests"
    EmptyAlias = ""
    MaxInputs = 2
    MaxOutputs = 4
    MaxProcesses = 2
INVARIANTS TypeOK DelegationsSignable
PROPERTIES KeysLostUnsaved DelegationsLeaveByClaim CommandsEnd
CHECK_DEADLOCK FALSE
