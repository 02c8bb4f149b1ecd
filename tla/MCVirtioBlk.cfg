\* Two blocks and one past the end; the indices wrap at every second request;
\* any request may time out.
CONSTANTS
    Lbas = {0, 1, 2}
    InRange = {0, 1}
    Blocks = {x, y}
    IdxMod = 2
    NoReq = NoReq
    NoReply = NoReply
    NoJob = NoJob
SPECIFICATION FairSpec
INVARIANTS NoConcurrentAccess
PROPERTIES ImplementsBlockDevice CallReturns
