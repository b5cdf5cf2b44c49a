CONSTANTS
    s0 = s0  s1 = s1  s2 = s2  inc = inc  rst = rst  nop = nop
    State = {s0, s1, s2}
    Instr = {inc, rst, nop}
    Decode <- MCDecode
    Update <- MCUpdate
    NoDecode = {nop}
    Preds <- MCPreds
    Seqs <- MCSeqs
    Tops <- MCTops
    Poss = {0}
    MaxLen = 2
    MaxPreds = 2
SPECIFICATION Spec
INVARIANTS
    SwitchExact
