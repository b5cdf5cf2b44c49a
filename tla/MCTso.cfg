CONSTANTS
    A = A  B = B  a1 = a1  a2 = a2  a3 = a3  b1 = b1  b2 = b2  b3 = b3  x = x  y = y
    Cores = {A, B}
    GlobalIla = GlobalIla
    InitStep = InitStep
    FinalStep = FinalStep
    Ordered = {B}
    Shared = {x, y}
    FinalRead = {x}
    Inst <- Mix3Inst
    CoreOf <- Mix3CoreOf
    Pos <- Mix3Pos
    InstRead <- Mix3Read
    InstWrite <- Mix3Write
    FENCE_list <- MixFence
    RMW_list <- MixRmw
SPECIFICATION Spec
INVARIANTS
    TypeOK
    TsoSound
    CoherentReads
