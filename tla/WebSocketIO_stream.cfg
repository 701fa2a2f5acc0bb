\* Send and Recv implement a byte stream, and Send returns while the peer reads.
CONSTANTS
    Msgs <- MCMsgs
    MaxBuffer = 2
    SockCap = 2
    RcvCap = 2
    MaxRecv = 2
SPECIFICATION Spec
INVARIANT TypeOK
INVARIANT StreamIntact
PROPERTY StreamSpec
PROPERTY SendCompletes
\* The caller may stop: after the sender closed and the receiver made its
\* MaxRecv calls nothing is left to do.
CHECK_DEADLOCK FALSE
