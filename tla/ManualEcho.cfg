SPECIFICATION Spec
CONSTANTS
    NumRounds = 2
    Length = 11
    BufSize = 2
INVARIANT EchoExact
PROPERTIES EchoCompletes ServerListensAgain
CHECK_DEADLOCK FALSE
