SPECIFICATION Spec
CONSTANTS
    Configs <- MCConfigs
    Callers = {"main", "other"}
    Main = "main"
    MaxConns = 1
INVARIANTS ResourcesOutliveWorkers PoolFreedLast EalGuarded FlowsHaveWorkers
PROPERTY ShutdownCompletes
CHECK_DEADLOCK FALSE
