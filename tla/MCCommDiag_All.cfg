CONSTANTS
    s0 = s0  s1 = s1  s2 = s2
    State = {s0, s1, s2}
    RefinesA <- MCStable3
    RefinesB <- MCSpec3
    Relation <- MCEqual
    MinStep <- MCMethods
    MaxStep = 2
    IncStep = 1
SPECIFICATION Spec
INVARIANTS
    EqExact
    FirstRoundSound
    NoFalseAlarm
