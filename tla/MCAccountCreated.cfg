SPECIFICATION Spec
CONSTANTS
    Alias <- Named
    Commands <- AllCommands
    GenesisAccountAlias = "genesis-account"
    FaucetRequestsAlias = "faucet-requests"
    EmptyAlias = ""
    MaxInputs = 1
    MaxOutputs = 3
    MaxProcesses = 2
PROPERTIES CreatedIsStored
CHECK_DEADLOCK FALSE
