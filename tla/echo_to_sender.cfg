SPECIFICATION Spec
CONSTANTS
    c1 = c1
    c2 = c2
    c3 = c3
    None = None
    Conns <- MCConns
    MaxFd = 2
    MaxSends <- MCMaxSends
CHECK_DEADLOCK FALSE
INVARIANT EchoToSender
