------------------------------ MODULE MCReplay ------------------------------
(***************************************************************************)
(* The replay of solutions, of one part of the constraints: the shared     *)
(* states of the program templates of MCLitmus (McmReplay), the private    *)
(* states of one core (LocalState), where i1 defines r, i2 increments r    *)
(* (it reads what it writes) and i3 copies r to q, or the addresses and    *)
(* the data of one shared state (AddrData).                                *)
(***************************************************************************)
EXTENDS McmReplay, MCLitmus, LocalState, AddrData

CONSTANTS i1, i2, i3, r, q

LocalInst == {i1, i2, i3}
LocalPos == i1 :> 1 @@ i2 :> 2 @@ i3 :> 3
LocalRead == i1 :> {} @@ i2 :> {r} @@ i3 :> {r}
LocalWrite == i1 :> {r} @@ i2 :> {r} @@ i3 :> {q}
\* In order, a step may fail to decode if it reads what it writes.
LocalMayNotDecode == TRUE :> {i2} @@ FALSE :> LocalInst

VARIABLE part  \* which of the three is replayed

EitherInit ==
    \/ part = "shared" /\ Init /\ LocalIdle /\ AddrIdle
    \/ part = "private" /\ Idle /\ LocalInit /\ AddrIdle
    \/ part = "address" /\ Idle /\ LocalIdle /\ AddrInit
EitherNext ==
    \/ part = "shared" /\ Next /\ UNCHANGED <<part, localVars, addrVars>>
    \/ part = "private" /\ LocalNext /\ UNCHANGED <<part, vars, addrVars>>
    \/ part = "address" /\ AddrNext /\ UNCHANGED <<part, vars, localVars>>
EitherSpec == EitherInit /\ [][EitherNext]_<<part, vars, localVars, addrVars>>
=============================================================================
