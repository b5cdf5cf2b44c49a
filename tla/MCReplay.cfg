CONSTANTS
    A = A  B = B  a1 = a1  a2 = a2  a3 = a3  b1 = b1  b2 = b2  b3 = b3  x = x  y = y
    Cores = {A, B}
    GlobalIla = GlobalIla
    InitStep = InitStep
    FinalStep = FinalStep
    Ordered = {B}
    Shared = {x, y}
    FinalRead = {x}
    Inst <- MixInst
    CoreOf <- MixCoreOf
    Pos <- MixPos
    InstRead <- MixRead
    InstWrite <- MixWrite
    FENCE_list <- MixFence
    RMW_list <- MixRmw
    Models = {"SC", "TSO"}
    MaxTime = 5
    i1 = i1  i2 = i2  i3 = i3  r = r  q = q
    CoreInst <- LocalInst
    InstPos <- LocalPos
    Regs = {r, q}
    RegRead <- LocalRead
    RegWrite <- LocalWrite
    InitVal = InitVal
    MayNotDecode <- LocalMayNotDecode
    MaxStamp = 3
    Addrs = {1, 2}
    Data = {0, 1}
    MaxTrace = 4
SPECIFICATION EitherSpec
INVARIANTS
    Replayable
    ReadsLatestDefinition
    LoadsLatestStore
