---------------------------- MODULE TargetProofs ----------------------------
(***************************************************************************)
(* The generated programs compute what the ILA says, for every design,     *)
(* configuration and test bench that TargetRun admits: the Verilog module  *)
(* and its internal counter (VlgCorrect, CounterCorrect), and compute() of *)
(* the simulators with internal and with external memories (SimCorrect).   *)
(***************************************************************************)
EXTENDS TargetRun, FiniteSetTheorems, TLAPS

-----------------------------------------------------------------------------
(* Recursion up to a number.  An induction is a set of numbers that holds 0 *)
(* and, with a number, the next one.                                        *)

\* A set of natural numbers that is not empty has a least one.
LEMMA LeastNumber ==
    ASSUME NEW T \in SUBSET Nat, T # {}
    PROVE  \E n \in T : \A m \in T : n <= m
<1> DEFINE R == OpToRel(<, Nat)
<1>1. R = {ss \in Nat \X Nat : ss[1] < ss[2]}
  BY DEF OpToRel
<1>2. \E n \in T : \A m \in T : ~ (<<m, n>> \in R)
  <2>1. IsWellFoundedOn(R, Nat)
    BY NatLessThanWellFounded, Zenon
  <2> HIDE DEF R
  <2> QED
    BY <2>1, WFMin
<1>3. \A m, n \in T : ~ (<<m, n>> \in R) => n <= m
  <2> HIDE DEF R
  <2> QED
    BY <1>1
<1> HIDE DEF R
<1> QED
  BY <1>2, <1>3

\* Induction up to N over a set of numbers.
LEMMA UpTo ==
    ASSUME NEW N \in Nat, NEW T, 0 \in T, \A n \in 1 .. N : n - 1 \in T => n \in T
    PROVE  \A n \in 0 .. N : n \in T
<1> DEFINE Bad == {n \in 0 .. N : n \notin T}
<1> SUFFICES ASSUME Bad # {} PROVE FALSE
  OBVIOUS
<1>1. PICK n \in Bad : \A m \in Bad : n <= m
  <2> HIDE DEF Bad
  <2>1. Bad \in SUBSET Nat
    BY DEF Bad
  <2> QED
    BY <2>1, LeastNumber
<1>2. n \in 1 .. N /\ n - 1 \in 0 .. N /\ n - 1 \notin Bad
  BY <1>1
<1> QED
  BY <1>2

\* A step function has a run of any length.
RunsOf(F, base, N, r) == r[0] = base /\ \A n \in 1 .. N : r[n] = F[<<n, r[n - 1]>>]

\* A function on the states of a recursion has a run from every start.
LEMMA RecursionExists ==
    ASSUME NEW S, NEW base \in S, NEW N \in Nat, NEW F \in [(1 .. N) \X S -> S]
    PROVE  \E r \in [0 .. N -> S] : RunsOf(F, base, N, r)
<1> DEFINE T == {m \in 0 .. N : \E r \in [0 .. m -> S] : RunsOf(F, base, m, r)}
<1>1. 0 \in T
  <2> DEFINE r == [n \in 0 .. 0 |-> base]
  <2>1. r \in [0 .. 0 -> S] /\ RunsOf(F, base, 0, r)
    BY DEF RunsOf
  <2> QED
    BY <2>1
<1>2. ASSUME NEW m \in 1 .. N, m - 1 \in T PROVE m \in T
  <2>1. PICK p \in [0 .. m - 1 -> S] : RunsOf(F, base, m - 1, p)
    BY <1>2
  <2> DEFINE r == [i \in 0 .. m |-> IF i = m THEN F[<<m, p[m - 1]>>] ELSE p[i]]
  <2>2. r \in [0 .. m -> S]
    BY <2>1
  <2>3. r[0] = base
    BY <2>1 DEF RunsOf
  <2>4. ASSUME NEW n \in 1 .. m PROVE r[n] = F[<<n, r[n - 1]>>]
    <3>1. n - 1 \in 0 .. m /\ n - 1 # m /\ n \in 0 .. m
      OBVIOUS
    <3>2. r[n - 1] = p[n - 1]
      BY <3>1
    <3>3. CASE n = m
      BY <3>1, <3>2, <3>3
    <3>4. CASE n # m
      <4>1. n \in 1 .. m - 1
        BY <3>4
      <4> QED
        BY <2>1, <3>1, <3>2, <3>4, <4>1 DEF RunsOf
    <3> QED
      BY <3>3, <3>4
  <2> HIDE DEF r
  <2>5. RunsOf(F, base, m, r)
    BY <2>3, <2>4 DEF RunsOf
  <2> QED
    BY <2>2, <2>5
<1> HIDE DEF T
<1>3. N \in T
  BY <1>1, <1>2, UpTo
<1> QED
  BY <1>3 DEF T

-----------------------------------------------------------------------------
(* The memory after a chain of stores and after the write ports.            *)

Memories == [Addrs -> Data]
Entries == Seq(Addrs \X Data)

\* Of the entries of st the one number n is the first, or the last, to its address.
FirstTo(st, n) == \A m \in 1 .. n - 1 : st[m][1] # st[n][1]
LastTo(st, n) == \A m \in n + 1 .. Len(st) : st[m][1] # st[n][1]

\* A chain of stores leaves at every address the data of its outermost store.
LEMMA StoredMeans ==
    ASSUME NEW mem \in Memories, NEW st \in Entries
    PROVE  /\ Stored(mem, st) \in Memories
           /\ \A n \in 1 .. Len(st) :
                FirstTo(st, n) => Stored(mem, st)[st[n][1]] = st[n][2]
           /\ \A a \in Addrs :
                (\A n \in 1 .. Len(st) : st[n][1] # a) => Stored(mem, st)[a] = mem[a]
<1> DEFINE N == Len(st)
           E(n, m) == LET w == st[N + 1 - n] IN [m EXCEPT ![w[1]] = w[2]]
           Rec(r) == r = [n \in 0 .. N |-> IF n = 0 THEN mem ELSE E(n, r[n - 1])]
           F == [x \in (1 .. N) \X Memories |-> E(x[1], x[2])]
           q == CHOOSE r : Rec(r)
<1>1. N \in Nat /\ \A n \in 1 .. N : st[n] \in Addrs \X Data /\ N + 1 - n \in 1 .. N
  BY DEF Entries
<1>2. \A n \in 1 .. N, m \in Memories : E(n, m) \in Memories
  BY <1>1 DEF Memories
<1>3. Stored(mem, st) = q[N]
  BY DEF Stored
<1>4. Rec(q)
  <2>1. F \in [(1 .. N) \X Memories -> Memories]
    BY <1>2
  <2>2. \A n \in 1 .. N, m \in Memories : F[<<n, m>>] = E(n, m)
    OBVIOUS
  <2> HIDE DEF E, F, N
  <2>3. PICK r \in [0 .. N -> Memories] : RunsOf(F, mem, N, r)
    BY <1>1, <2>1, RecursionExists
  <2>4. Rec(r)
    <3>1. ASSUME NEW n \in 0 .. N, n # 0 PROVE r[n] = E(n, r[n - 1])
      <4>1. n \in 1 .. N /\ n - 1 \in 0 .. N
        BY <1>1, <3>1
      <4> QED
        BY <2>2, <2>3, <4>1 DEF RunsOf
    <3>2. r[0] = mem
      BY <2>3 DEF RunsOf
    <3> QED
      BY <2>3, <3>1, <3>2
  <2> HIDE DEF Rec
  <2> QED
    BY <2>4
<1> HIDE DEF q
<1>5. q[0] = mem /\ \A n \in 1 .. N : q[n] = E(n, q[n - 1])
  <2> HIDE DEF E
  <2> QED
    BY <1>1, <1>4
<1>6. \A n \in 0 .. N : q[n] \in Memories
  <2> DEFINE T == {n \in 0 .. N : q[n] \in Memories}
  <2> HIDE DEF E, N
  <2>1. 0 \in T /\ \A n \in 1 .. N : n - 1 \in T => n \in T
    BY <1>1, <1>2, <1>5
  <2> HIDE DEF T
  <2>2. \A n \in 0 .. N : n \in T
    BY <1>1, <2>1, UpTo
  <2> QED
    BY <2>2 DEF T
<1>7. \A n \in 0 .. N, a \in Addrs :
         (\A j \in 1 .. N : j > N - n => st[j][1] # a) => q[n][a] = mem[a]
  <2> DEFINE T == {n \in 0 .. N : \A a \in Addrs :
                     (\A j \in 1 .. N : j > N - n => st[j][1] # a) => q[n][a] = mem[a]}
  <2> HIDE DEF N
  <2>1. 0 \in T
    BY <1>1, <1>5
  <2>2. ASSUME NEW n \in 1 .. N, n - 1 \in T PROVE n \in T
    <3> SUFFICES ASSUME NEW a \in Addrs, \A j \in 1 .. N : j > N - n => st[j][1] # a
                 PROVE  q[n][a] = mem[a]
      BY <1>1
    <3>1. q[n - 1] \in Memories /\ q[n] = E(n, q[n - 1]) /\ q[n - 1][a] = mem[a]
      BY <1>1, <1>5, <1>6, <2>2
    <3>2. st[N + 1 - n][1] # a
      BY <1>1
    <3> QED
      BY <1>1, <3>1, <3>2 DEF Memories
  <2> HIDE DEF T
  <2>3. \A n \in 0 .. N : n \in T
    BY <1>1, <2>1, <2>2, UpTo
  <2> QED
    BY <2>3 DEF T
<1>8. \A n \in 0 .. N, j \in 1 .. N :
         j > N - n /\ (\A m \in 1 .. N : N - n < m /\ m < j => st[m][1] # st[j][1])
            => q[n][st[j][1]] = st[j][2]
  <2> DEFINE T == {n \in 0 .. N : \A j \in 1 .. N :
               j > N - n /\ (\A m \in 1 .. N : N - n < m /\ m < j => st[m][1] # st[j][1])
                  => q[n][st[j][1]] = st[j][2]}
  <2> HIDE DEF N
  <2>1. 0 \in T
    BY <1>1
  <2>2. ASSUME NEW n \in 1 .. N, n - 1 \in T PROVE n \in T
    <3> SUFFICES ASSUME NEW j \in 1 .. N, j > N - n,
                        \A m \in 1 .. N : N - n < m /\ m < j => st[m][1] # st[j][1]
                 PROVE  q[n][st[j][1]] = st[j][2]
      BY <1>1
    <3>1. q[n - 1] \in Memories /\ q[n] = E(n, q[n - 1])
      BY <1>1, <1>5, <1>6
    <3>2. CASE j = N + 1 - n
      BY <1>1, <3>1, <3>2 DEF Memories
    <3>3. CASE j # N + 1 - n
      <4>1. j > N - (n - 1) /\ st[N + 1 - n][1] # st[j][1]
        BY <1>1, <3>3
      <4>2. q[n - 1][st[j][1]] = st[j][2]
        BY <1>1, <2>2, <4>1
      <4> QED
        BY <1>1, <3>1, <4>1, <4>2 DEF Memories
    <3> QED
      BY <3>2, <3>3
  <2> HIDE DEF T
  <2>3. \A n \in 0 .. N : n \in T
    BY <1>1, <2>1, <2>2, UpTo
  <2> QED
    BY <2>3 DEF T
<1> HIDE DEF E
<1> QED
  BY <1>1, <1>3, <1>6, <1>7, <1>8 DEF FirstTo

\* The ports write elements that the module declares.
Inside(d, c, ports) == \A n \in 1 .. Len(ports) : HasElement(d, c, ports[n][1])

\* The memory after holds the data of the last port to an address, and mem elsewhere.
LastWins(mem, ports, after) ==
    /\ after \in Memories
    /\ \A n \in 1 .. Len(ports) : LastTo(ports, n) => after[ports[n][1]] = ports[n][2]
    /\ \A a \in Addrs : (\A n \in 1 .. Len(ports) : ports[n][1] # a) => after[a] = mem[a]

\* Write ports within the memory leave the data of the last port to an address.
LEMMA PortsMean ==
    ASSUME NEW d, NEW c, NEW junk, NEW mem \in Memories, NEW ports \in Entries,
           Inside(d, c, ports)
    PROVE  LastWins(mem, ports, PortsWritten(d, c, mem, ports, junk))
<1> USE DEF Inside
<1> DEFINE N == Len(ports)
           E(n, after) == LET p == ports[n]
                              m == after
                          IN  IF HasElement(d, c, p[1]) THEN [m EXCEPT ![p[1]] = p[2]]
                              ELSE IF IsArray(d, c) THEN m ELSE [m EXCEPT ![0] = junk]
           Rec(r) == r = [n \in 0 .. N |-> IF n = 0 THEN mem ELSE E(n, r[n - 1])]
           F == [x \in (1 .. N) \X Memories |-> E(x[1], x[2])]
           q == CHOOSE r : Rec(r)
<1>1. N \in Nat /\ \A n \in 1 .. N : ports[n] \in Addrs \X Data
  BY DEF Entries
<1>2. \A n \in 1 .. N, m \in Memories :
         E(n, m) \in Memories /\ E(n, m) = [m EXCEPT ![ports[n][1]] = ports[n][2]]
  BY <1>1 DEF Memories
<1>3. PortsWritten(d, c, mem, ports, junk) = q[N]
  BY DEF PortsWritten
<1>4. Rec(q)
  <2>1. F \in [(1 .. N) \X Memories -> Memories]
    BY <1>2
  <2>2. \A n \in 1 .. N, m \in Memories : F[<<n, m>>] = E(n, m)
    OBVIOUS
  <2> HIDE DEF E, F, N
  <2>3. PICK r \in [0 .. N -> Memories] : RunsOf(F, mem, N, r)
    BY <1>1, <2>1, RecursionExists
  <2>4. Rec(r)
    <3>1. ASSUME NEW n \in 0 .. N, n # 0 PROVE r[n] = E(n, r[n - 1])
      <4>1. n \in 1 .. N /\ n - 1 \in 0 .. N
        BY <1>1, <3>1
      <4> QED
        BY <2>2, <2>3, <4>1 DEF RunsOf
    <3>2. r[0] = mem
      BY <2>3 DEF RunsOf
    <3> QED
      BY <2>3, <3>1, <3>2
  <2> HIDE DEF Rec
  <2> QED
    BY <2>4
<1> HIDE DEF q
<1>5. q[0] = mem /\ \A n \in 1 .. N : q[n] = E(n, q[n - 1])
  <2> HIDE DEF E
  <2> QED
    BY <1>1, <1>4
<1> HIDE DEF E, Rec, F
<1>6. \A n \in 0 .. N : q[n] \in Memories
  <2> DEFINE T == {n \in 0 .. N : q[n] \in Memories}
  <2> HIDE DEF N
  <2>1. 0 \in T /\ \A n \in 1 .. N : n - 1 \in T => n \in T
    BY <1>1, <1>2, <1>5
  <2> HIDE DEF T
  <2>2. \A n \in 0 .. N : n \in T
    BY <1>1, <2>1, UpTo
  <2> QED
    BY <2>2 DEF T
<1>7. ASSUME NEW n \in 1 .. N
      PROVE  q[n - 1] \in Memories /\ q[n] = [q[n - 1] EXCEPT ![ports[n][1]] = ports[n][2]]
  BY <1>1, <1>2, <1>5, <1>6
<1>8. \A n \in 0 .. N, a \in Addrs :
         (\A j \in 1 .. n : ports[j][1] # a) => q[n][a] = mem[a]
  <2> DEFINE T == {n \in 0 .. N : \A a \in Addrs :
                     (\A j \in 1 .. n : ports[j][1] # a) => q[n][a] = mem[a]}
  <2> HIDE DEF N
  <2>1. 0 \in T
    BY <1>1, <1>5
  <2>2. ASSUME NEW n \in 1 .. N, n - 1 \in T PROVE n \in T
    <3> SUFFICES ASSUME NEW a \in Addrs, \A j \in 1 .. n : ports[j][1] # a
                 PROVE  q[n][a] = mem[a]
      BY <1>1
    <3>1. q[n - 1][a] = mem[a] /\ ports[n][1] # a
      BY <1>1, <2>2
    <3> QED
      BY <1>1, <1>7, <3>1 DEF Memories
  <2> HIDE DEF T
  <2>3. \A n \in 0 .. N : n \in T
    BY <1>1, <2>1, <2>2, UpTo
  <2> QED
    BY <2>3 DEF T
<1>9. \A n \in 0 .. N, j \in 1 .. N :
         j <= n /\ (\A m \in 1 .. N : j < m /\ m <= n => ports[m][1] # ports[j][1])
            => q[n][ports[j][1]] = ports[j][2]
  <2> DEFINE T == {n \in 0 .. N : \A j \in 1 .. N :
               j <= n /\ (\A m \in 1 .. N : j < m /\ m <= n => ports[m][1] # ports[j][1])
                  => q[n][ports[j][1]] = ports[j][2]}
  <2> HIDE DEF N
  <2>1. 0 \in T
    BY <1>1
  <2>2. ASSUME NEW n \in 1 .. N, n - 1 \in T PROVE n \in T
    <3> SUFFICES ASSUME NEW j \in 1 .. N, j <= n,
                        \A m \in 1 .. N : j < m /\ m <= n => ports[m][1] # ports[j][1]
                 PROVE  q[n][ports[j][1]] = ports[j][2]
      BY <1>1
    <3>1. CASE j = n
      BY <1>1, <1>7, <3>1 DEF Memories
    <3>2. CASE j # n
      <4>1. /\ q[n - 1][ports[j][1]] = ports[j][2]
            /\ ports[n][1] # ports[j][1] /\ ports[j][1] \in Addrs
        BY <1>1, <2>2, <3>2
      <4>2. /\ q[n - 1] \in Memories
            /\ q[n] = [q[n - 1] EXCEPT ![ports[n][1]] = ports[n][2]]
        BY <1>7
      <4>3. q[n][ports[j][1]] = q[n - 1][ports[j][1]]
        BY <4>1, <4>2 DEF Memories
      <4> QED
        BY <4>1, <4>3
    <3> QED
      BY <3>1, <3>2
  <2> HIDE DEF T
  <2>3. \A n \in 0 .. N : n \in T
    BY <1>1, <2>1, <2>2, UpTo
  <2> QED
    BY <2>3 DEF T
<1> QED
  BY <1>1, <1>3, <1>6, <1>8, <1>9 DEF LastTo, LastWins

\* Entries to distinct addresses: no two are to the same one.
LEMMA DistinctMeans ==
    ASSUME NEW st \in Entries, DistinctAddresses(st)
    PROVE  \A n, m \in 1 .. Len(st) : st[n][1] = st[m][1] => n = m
<1> DEFINE N == Len(st)
           f == [n \in 1 .. N |-> st[n][1]]
<1>1. N \in Nat /\ st \in [1 .. N -> Addrs \X Data]
  BY DEF Entries
<1>2. AddressesOf(st) = {f[n] : n \in 1 .. N}
  BY <1>1 DEF AddressesOf, Range
<1>3. f \in Surjection(1 .. N, AddressesOf(st))
  BY <1>1, <1>2 DEF Surjection
<1>4. IsFiniteSet(1 .. N) /\ Cardinality(1 .. N) = N
  <2>1. IsFiniteSet(1 .. N) /\ Cardinality(1 .. N) = IF 1 > N THEN 0 ELSE N - 1 + 1
    <3> HIDE DEF N
    <3> QED
      BY <1>1, FS_Interval
  <2> QED
    BY <1>1, <2>1
<1>5. Cardinality(AddressesOf(st)) = N
  BY DEF DistinctAddresses
<1>6. f \in Injection(1 .. N, AddressesOf(st))
  <2> HIDE DEF f, N
  <2> QED
    BY <1>3, <1>4, <1>5, FS_Surjection
<1> QED
  BY <1>6 DEF Injection, IsInjective

\* To distinct addresses, the write ports do what the chain of stores does.
LEMMA PortsAreStores ==
    ASSUME NEW d, NEW c, NEW junk, NEW mem \in Memories, NEW ports \in Entries,
           DistinctAddresses(ports), \A a \in AddressesOf(ports) : HasElement(d, c, a)
    PROVE  PortsWritten(d, c, mem, ports, junk) = Stored(mem, ports)
<1>1. \A n \in 1 .. Len(ports) : ports[n] \in Addrs \X Data /\ HasElement(d, c, ports[n][1])
  BY DEF Entries, AddressesOf, Range
<1>2. \A n \in 1 .. Len(ports) : FirstTo(ports, n) /\ LastTo(ports, n)
  <2>1. \A n, m \in 1 .. Len(ports) : ports[n][1] = ports[m][1] => n = m
    BY DistinctMeans
  <2>2. Len(ports) \in Nat
    BY DEF Entries
  <2> QED
    BY <2>1, <2>2 DEF FirstTo, LastTo
<1> DEFINE P == PortsWritten(d, c, mem, ports, junk)
           S == Stored(mem, ports)
<1>3. /\ P \in Memories
      /\ \A n \in 1 .. Len(ports) : P[ports[n][1]] = ports[n][2]
      /\ \A a \in Addrs : (\A n \in 1 .. Len(ports) : ports[n][1] # a) => P[a] = mem[a]
  <2>1. Inside(d, c, ports)
    BY <1>1 DEF Inside
  <2>2. LastWins(mem, ports, P)
    BY <2>1, PortsMean
  <2> QED
    BY <1>2, <2>2 DEF LastWins
<1>4. /\ S \in Memories
      /\ \A n \in 1 .. Len(ports) : S[ports[n][1]] = ports[n][2]
      /\ \A a \in Addrs : (\A n \in 1 .. Len(ports) : ports[n][1] # a) => S[a] = mem[a]
  BY <1>1, <1>2, StoredMeans
<1> HIDE DEF P, S
<1>5. ASSUME NEW a \in Addrs PROVE P[a] = S[a]
  BY <1>3, <1>4
<1>6. P = S
  BY <1>3, <1>4, <1>5 DEF Memories
<1> QED
  BY <1>6 DEF P, S

\* Without stores the memory stays as it is.
LEMMA NothingStored ==
    ASSUME NEW mem \in Memories
    PROVE  Stored(mem, <<>>) = mem
<1> DEFINE e == <<>>
           S == Stored(mem, e)
<1>1. e \in Entries /\ \A n \in 1 .. Len(e) : FALSE
  BY DEF Entries
<1> HIDE DEF e
<1>2. S \in Memories /\ \A a \in Addrs : S[a] = mem[a]
  BY <1>1, StoredMeans
<1> HIDE DEF S
<1>3. S = mem
  BY <1>2 DEF Memories
<1> QED
  BY <1>3 DEF S, e

\* Without ports too.
LEMMA NothingWritten ==
    ASSUME NEW d, NEW c, NEW junk, NEW mem \in Memories
    PROVE  PortsWritten(d, c, mem, <<>>, junk) = mem
<1> DEFINE e == <<>>
           P == PortsWritten(d, c, mem, e, junk)
<1>1. e \in Entries /\ \A n \in 1 .. Len(e) : FALSE
  BY DEF Entries
<1> HIDE DEF e
<1>2. Inside(d, c, e)
  BY <1>1 DEF Inside
<1>3. P \in Memories /\ \A a \in Addrs : P[a] = mem[a]
  <2>1. LastWins(mem, e, P)
    BY <1>1, <1>2, PortsMean
  <2> QED
    BY <1>1, <2>1 DEF LastWins
<1> HIDE DEF P
<1>4. P = mem
  BY <1>3 DEF Memories
<1> QED
  BY <1>4 DEF P, e

-----------------------------------------------------------------------------
(* Instructions and the sets of them that decode.                           *)

\* What DesignAssumption says of one design.
LEMMA DesignFacts ==
    ASSUME NEW d \in Designs
    PROVE  /\ d.top \in Seq(Instructions) /\ d.top # <<>> /\ d.kid \in Seq(Instructions)
           /\ d.init \in BOOLEAN /\ d.size \in Nat
           /\ d.valid \subseteq Regs /\ d.kvalid \subseteq Regs
BY DesignAssumption

\* What an instruction does to registers and memory is of the right sort.
LEMMA InstrFacts ==
    ASSUME NEW i \in Instructions, NEW s \in Regs
    PROVE  /\ i.ld = NoLoad \/ (i.ld \in Addrs /\ i.ld # NoLoad)
           /\ StoresOf(i, s) \in Entries
           /\ \A v \in Data : Updated(i, s, v) \in Regs
           /\ \A v \in Data : ~ HasUpdate(i) => Updated(i, s, v) = s
           /\ \A v \in Data : i.to = <<>> => Updated(i, s, v)[2] = s[2]
<1>1. /\ i.to = <<>> \/ i.to \in [Regs -> Regs]
      /\ i.ld = NoLoad \/ i.ld \in Addrs
      /\ i.st = <<>> \/ i.st \in [Regs -> Seq(Addrs \X Data)]
  BY DEF Instructions
<1>2. StoresOf(i, s) \in Entries
  BY <1>1 DEF StoresOf, HasStore, Entries
<1>3. ASSUME NEW v \in Data
      PROVE  /\ Updated(i, s, v) \in Regs
             /\ ~ HasUpdate(i) => Updated(i, s, v) = s
             /\ i.to = <<>> => Updated(i, s, v)[2] = s[2]
  BY <1>1 DEF Updated, Regs, HasUpdate
<1>4. NoLoad \notin Addrs
  BY DesignAssumption DEF NoLoad
<1> QED
  BY <1>1, <1>2, <1>3, <1>4

\* An instruction leaves registers and memory of the right sorts.
LEMMA ExecuteTyped ==
    ASSUME NEW i \in Instructions, NEW x, x.s \in Regs, x.mem \in Memories
    PROVE  /\ LoadedData(i, x.mem) \in Data
           /\ Execute(i, x) \in [s : Regs, mem : Memories]
<1>1. LoadedData(i, x.mem) \in Data
  BY InstrFacts, DesignAssumption DEF LoadedData, Memories
<1>2. Updated(i, x.s, LoadedData(i, x.mem)) \in Regs
  BY <1>1, InstrFacts
<1>3. Stored(x.mem, StoresOf(i, x.s)) \in Memories
  BY InstrFacts, StoredMeans
<1> QED
  BY <1>1, <1>2, <1>3 DEF Execute

\* A set of at most one number that holds i is {i}.
LEMMA AtMostOne ==
    ASSUME NEW S, NEW n \in Nat, S \subseteq 1 .. n, Cardinality(S) <= 1, NEW i \in S
    PROVE  S = {i}
<1>1. IsFiniteSet(S)
  <2>1. IsFiniteSet(1 .. n)
    BY FS_Interval
  <2> QED
    BY <2>1, FS_Subset
<1>2. Cardinality(S) \in Nat /\ (Cardinality(S) = 0 <=> S = {})
  BY <1>1, FS_EmptySet, FS_CardinalityType
<1>3. Cardinality(S) = 1
  BY <1>2
<1> QED
  BY <1>1, <1>3, FS_Singleton

\* The choices that the models make, of a single number.
LEMMA Singletons ==
    ASSUME NEW i \in Nat
    PROVE  Only({i}) = i /\ FirstOf({i}) = i /\ LastOf({i}) = i /\ LeastOf({i}) = i
BY DEF Only, FirstOf, LastOf, LeastOf

-----------------------------------------------------------------------------
(* A clock edge.                                                            *)

\* Instruction i alone decodes at the edge and is granted, and what it loads exists.
Alone(d, c, x, w, i) ==
    /\ x.s \in Regs /\ x.mem \in Memories
    /\ i \in DOMAIN d.top /\ DecodedBy(d, c, x.s, w.in) = {i}
    /\ c.mode = "ila" => i \in w.grant
    /\ d.top[i].ld # NoLoad
         => ReadElement(d, c, x.mem, d.top[i].ld, w.junk) = x.mem[d.top[i].ld]

\* The registers of the module at an active edge of one instruction.
LEMMA EdgeRegisters ==
    ASSUME NEW d \in Designs, NEW c, NEW x, NEW w, NEW i, Alone(d, c, x, w, i)
    PROVE  <<RegNext(d, c, x, w, 1), RegNext(d, c, x, w, 2)>>
             = Updated(d.top[i], x.s, LoadedData(d.top[i], x.mem))
<1> USE DEF Alone
<1> DEFINE ins == d.top[i]
           u == Updated(ins, x.s, LoadedData(ins, x.mem))
<1>1. ins \in Instructions /\ i \in Nat
  BY DesignFacts
<1>2. LoadedData(ins, x.mem) \in Data
  BY <1>1, ExecuteTyped
<1>3. /\ u \in Regs /\ (~ HasUpdate(ins) => u = x.s)
      /\ (ins.to = <<>> => u[2] = x.s[2])
  BY <1>1, <1>2, InstrFacts
<1>4. /\ WritersOf(d, c, x.s, w, 1) = IF HasUpdate(ins) THEN {i} ELSE {}
      /\ WritersOf(d, c, x.s, w, 2) = IF ins.to # <<>> THEN {i} ELSE {}
  BY DEF WritersOf
<1>5. ASSUME NEW reg \in {1, 2}
      PROVE  RegNext(d, c, x, w, reg) =
               IF WritersOf(d, c, x.s, w, reg) = {i} THEN u[reg] ELSE x.s[reg]
  <2>1. CASE WritersOf(d, c, x.s, w, reg) = {i}
    BY <1>1, <2>1, Singletons DEF RegNext, LoadedData
  <2>2. CASE WritersOf(d, c, x.s, w, reg) = {}
    BY <2>2 DEF RegNext
  <2> QED
    BY <1>4, <2>1, <2>2
<1>6. RegNext(d, c, x, w, 1) = u[1] /\ RegNext(d, c, x, w, 2) = u[2]
  BY <1>3, <1>4, <1>5
<1> QED
  BY <1>3, <1>6 DEF Regs

\* The ILA's side of an edge.
Granted(d, c, s, w) ==
    {i \in TopOn(d, s, w.in) \cap Exported(d, c) : c.mode = "ila" => i \in w.grant}
IlaEdge(d, c, x, w) ==
    IF ~ w.rst /\ (c.start => w.start) /\ Granted(d, c, x.s, w) # {}
    THEN Execute(d.top[Only(Granted(d, c, x.s, w))], x)
    ELSE IF w.rst /\ c.rand THEN [x EXCEPT !.s = w.randinit] ELSE x

\* At an edge of a supported shape the module does what the ILA does.
LEMMA EdgeIsStep ==
    ASSUME NEW d \in Designs, NEW c \in Targets, NEW x \in [s : Regs, mem : Memories],
           NEW w, w.rst \in BOOLEAN, w.start \in BOOLEAN, w.randinit \in Regs,
           FaithfulEdge(d, c, x.s, w)
    PROVE  /\ EdgeOf(d, c, x, w) = IlaEdge(d, c, x, w)
           /\ IlaEdge(d, c, x, w) \in [s : Regs, mem : Memories]
<1> DEFINE on == DecodedBy(d, c, x.s, w.in)
           live == Active(d, c, x.s, w)
           open == c.start => w.start
           ports == WritePorts(d, c, x.s, w.in)
           granted == Granted(d, c, x.s, w)
<1>0. /\ x.s \in Regs /\ x.mem \in Memories /\ x = [s |-> x.s, mem |-> x.mem]
      /\ c.mode \in Modes /\ c.ext \in BOOLEAN /\ c.start \in BOOLEAN /\ c.rand \in BOOLEAN
  BY DesignAssumption
<1>1. /\ on \subseteq DOMAIN d.top /\ DOMAIN d.top = 1 .. Len(d.top) /\ Len(d.top) \in Nat
      /\ \A i \in DOMAIN d.top : d.top[i] \in Instructions
  BY DesignFacts DEF DecodedBy, Enabled
<1>2. /\ Cardinality(on) <= 1
      /\ \A i \in on : d.top[i].ld = NoLoad \/ HasElement(d, c, d.top[i].ld)
  <2>1. Cardinality(on) <= 1
    BY DEF FaithfulEdge
  <2>2. ASSUME NEW i \in on PROVE d.top[i].ld = NoLoad \/ HasElement(d, c, d.top[i].ld)
    BY <2>2 DEF FaithfulEdge, HasElement, IsArray
  <2> QED
    BY <2>1, <2>2
<1>3. \A i \in on : on = {i} /\ i \in Nat
  <2> HIDE DEF on
  <2> QED
    BY <1>1, <1>2, AtMostOne
<1>4. /\ granted \subseteq on
      /\ x.s \notin d.valid => granted = {}
      /\ x.s \in d.valid => granted = {i \in on : c.mode = "ila" => i \in w.grant}
  BY DEF Granted, TopOn, DecodedBy
<1>5. live = (~ w.rst /\ open /\ x.s \in d.valid)
  BY DEF Active
<1> DEFINE stores == {i \in on : HasStore(d.top[i])}
<1>6. ports = IF stores = {} THEN <<>> ELSE d.top[LastOf(stores)].st[x.s]
  BY DEF WritePorts
<1>7. \A i \in on : /\ ports = StoresOf(d.top[i], x.s) /\ ports \in Entries
                    /\ (ports # <<>> /\ c.mode = "ila" => i \in w.grant)
  <2> SUFFICES ASSUME NEW i \in on
               PROVE  /\ ports = StoresOf(d.top[i], x.s) /\ ports \in Entries
                      /\ (ports # <<>> /\ c.mode = "ila" => i \in w.grant)
    OBVIOUS
  <2>1. ports = StoresOf(d.top[i], x.s)
    <3>1. CASE HasStore(d.top[i])
      <4>1. stores = {i}
        BY <1>3, <3>1
      <4>2. LastOf(stores) = i
        BY <1>3, <4>1, Singletons
      <4> QED
        BY <1>6, <3>1, <4>1, <4>2 DEF StoresOf
    <3>2. CASE ~ HasStore(d.top[i])
      <4>1. stores = {}
        BY <1>3, <3>2
      <4> QED
        BY <1>6, <3>2, <4>1 DEF StoresOf
    <3> QED
      BY <3>1, <3>2
  <2>2. ports \in Entries
    BY <1>0, <1>1, <2>1, InstrFacts
  <2>3. ports # <<>> /\ c.mode = "ila" => i \in w.grant
    BY DEF FaithfulEdge
  <2> QED
    BY <2>1, <2>2, <2>3
<1>8. on = {} => ports = <<>>
  BY <1>6
<1>9. ports # <<>> =>
         /\ DistinctAddresses(ports) /\ \A a \in AddressesOf(ports) : HasElement(d, c, a)
         /\ (c.ext /\ open => live)
  BY <1>5 DEF FaithfulEdge
<1>10. IlaEdge(d, c, x, w) \in [s : Regs, mem : Memories]
  <2>1. \A i \in granted : Execute(d.top[i], x) \in [s : Regs, mem : Memories]
    BY <1>0, <1>1, <1>4, ExecuteTyped
  <2>2. granted # {} => Only(granted) \in granted
    BY DEF Only
  <2>3. [x EXCEPT !.s = w.randinit] \in [s : Regs, mem : Memories]
    OBVIOUS
  <2> HIDE DEF granted
  <2> QED
    BY <2>1, <2>2, <2>3 DEF IlaEdge, granted
<1>11. ASSUME ~ (live /\ granted # {}) PROVE EdgeOf(d, c, x, w) = IlaEdge(d, c, x, w)
  <2>1. IlaEdge(d, c, x, w) = IF w.rst /\ c.rand THEN [x EXCEPT !.s = w.randinit] ELSE x
    BY <1>4, <1>5, <1>11 DEF IlaEdge
  <2>2. RegsNext(d, c, x, w) = IF w.rst /\ c.rand THEN w.randinit ELSE x.s
    <3>1. CASE w.rst
      BY <3>1 DEF RegsNext
    <3>2. CASE ~ w.rst /\ live
      <4>1. granted = {}
        BY <1>11, <3>2
      <4>2. \A reg \in {1, 2} : WritersOf(d, c, x.s, w, reg) \subseteq granted
        BY <1>4, <1>5, <3>2 DEF WritersOf
      <4>3. \A reg \in {1, 2} : RegNext(d, c, x, w, reg) = x.s[reg]
        BY <4>1, <4>2 DEF RegNext
      <4> QED
        BY <1>0, <3>2, <4>3 DEF RegsNext, Regs
    <3>3. CASE ~ w.rst /\ ~ live
      BY <3>3 DEF RegsNext
    <3> QED
      BY <3>1, <3>2, <3>3 DEF Active
  <2>3. MemNext(d, c, x, w) = x.mem
    <3>1. CASE ports = <<>>
      BY <1>0, <3>1, NothingWritten DEF MemNext
    <3>2. CASE ports # <<>>
      <4>1. PICK i \in on : on = {i}
        BY <1>3, <1>8, <3>2
      <4>2. ~ live
        BY <1>4, <1>5, <1>7, <1>11, <3>2, <4>1
      <4>3. ~ WriteEnable(c, w, live)
        BY <1>0, <1>9, <3>2, <4>2 DEF WriteEnable
      <4> QED
        BY <4>3 DEF MemNext
    <3> QED
      BY <3>1, <3>2
  <2> QED
    BY <1>0, <2>1, <2>2, <2>3 DEF EdgeOf
<1>12. ASSUME live, granted # {} PROVE EdgeOf(d, c, x, w) = IlaEdge(d, c, x, w)
  <2>1. PICK i \in granted : TRUE
    BY <1>12
  <2>2. i \in on /\ on = {i} /\ granted = {i} /\ i \in DOMAIN d.top /\ i \in Nat
    BY <1>1, <1>3, <1>4, <2>1
  <2>3. Only(granted) = i
    BY <2>2, Singletons
  <2>4. IlaEdge(d, c, x, w) = Execute(d.top[i], x)
    BY <1>5, <1>12, <2>3 DEF IlaEdge
  <2>5. RegsNext(d, c, x, w) = Updated(d.top[i], x.s, LoadedData(d.top[i], x.mem))
    <3>1. c.mode = "ila" => i \in w.grant
      BY <2>1 DEF Granted
    <3>2. RegsNext(d, c, x, w) = <<RegNext(d, c, x, w, 1), RegNext(d, c, x, w, 2)>>
      BY <1>5, <1>12 DEF RegsNext
    <3>3. d.top[i].ld # NoLoad
            => ReadElement(d, c, x.mem, d.top[i].ld, w.junk) = x.mem[d.top[i].ld]
      BY <1>2, <2>2 DEF ReadElement
    <3>4. DecodedBy(d, c, x.s, w.in) = {i}
      BY <2>2
    <3> HIDE DEF on, granted, live, ports
    <3>5. <<RegNext(d, c, x, w, 1), RegNext(d, c, x, w, 2)>>
            = Updated(d.top[i], x.s, LoadedData(d.top[i], x.mem))
      <4>1. Alone(d, c, x, w, i)
        BY <1>0, <2>2, <3>1, <3>3, <3>4 DEF Alone
      <4> QED
        BY <4>1, EdgeRegisters
    <3> QED
      BY <3>2, <3>5
  <2>6. MemNext(d, c, x, w) = PortsWritten(d, c, x.mem, ports, w.junk)
    BY <1>5, <1>12 DEF MemNext, WriteEnable
  <2>7. PortsWritten(d, c, x.mem, ports, w.junk) = Stored(x.mem, ports)
    <3>1. CASE ports = <<>>
      BY <1>0, <3>1, NothingStored, NothingWritten
    <3>2. CASE ports # <<>>
      BY <1>0, <1>7, <1>9, <2>2, <3>2, PortsAreStores
    <3> QED
      BY <3>1, <3>2
  <2>8. ports = StoresOf(d.top[i], x.s)
    BY <1>7, <2>2
  <2> QED
    BY <2>4, <2>5, <2>6, <2>7, <2>8 DEF EdgeOf, Execute
<1> QED
  BY <1>10, <1>11, <1>12

-----------------------------------------------------------------------------
(* The runs of a Verilog module.                                            *)

\* What no step changes.
Setting == design \in Designs /\ target \in Targets /\ Supports(target, design)

\* The design and the target of a run are ones that go together ...
LEMMA SettingInit == Init => Setting
BY DEF Init, Setting

\* ... no step changes them ...
LEMMA SettingStep == [Next]_vars => UNCHANGED <<design, target>>
BY DEF Next, vars, Compute, ComputeSends, ComputeAwaits, ComputeRuns, Edge

\* ... and so they always are.
LEMMA SettingKept == Setting /\ [Next]_vars => Setting'
BY SettingStep DEF Setting, Supports, Elaborates, Storing, Loading, Instrs

\* As long as all edges were of a supported shape the module and the ILA have
\* the same registers and memory, of the right sorts.
VlgInv ==
    target.kind = "vlg" /\ faithful =>
        /\ ref \in [s : Regs, mem : Memories]
        /\ {"s", "mem"} \subseteq DOMAIN k
        /\ k.s = ref.s /\ k.mem = ref.mem

\* The module starts in the state of the ILA.
LEMMA VlgInit == Init => VlgInv
<1> SUFFICES ASSUME Init PROVE VlgInv
  OBVIOUS
<1>1. PICK s \in Regs, junk \in {0, 1} :
         LET mem == [a \in Addrs |-> 0]
         IN  k = Kernel(design, s, mem, junk) /\ ref = [s |-> s, mem |-> mem]
  BY DEF Init
<1>2. [a \in Addrs |-> 0] \in Memories
  BY DesignAssumption DEF Memories
<1> QED
  BY <1>1, <1>2 DEF VlgInv, Kernel

\* An edge of a supported shape keeps it there.
LEMMA VlgStep == Setting /\ VlgInv /\ [Next]_vars => VlgInv'
<1> SUFFICES ASSUME Setting, VlgInv, [Next]_vars, target.kind = "vlg", faithful'
             PROVE  VlgInv'
  BY SettingStep DEF VlgInv
<1>1. CASE UNCHANGED vars
  BY <1>1 DEF VlgInv, vars
<1>2. ASSUME NEW w \in Edges, Edge(w) PROVE VlgInv'
  <2>1. /\ w.rst \in BOOLEAN /\ w.start \in BOOLEAN /\ w.randinit \in Regs
    BY DEF Edges, Regs
  <2>2. faithful /\ FaithfulEdge(design, target, k.s, w)
    BY <1>2 DEF Edge
  <2>3. /\ ref \in [s : Regs, mem : Memories]
        /\ {"s", "mem"} \subseteq DOMAIN k
        /\ k.s = ref.s /\ k.mem = ref.mem
    BY <2>2 DEF VlgInv
  <2>4. /\ EdgeOf(design, target, ref, w) = IlaEdge(design, target, ref, w)
        /\ IlaEdge(design, target, ref, w) \in [s : Regs, mem : Memories]
    BY <2>1, <2>2, <2>3, EdgeIsStep DEF Setting
  <2>5. EdgeOf(design, target, k, w) = EdgeOf(design, target, ref, w)
    BY <2>3 DEF EdgeOf, RegsNext, MemNext, RegNext
  <2>6. ref' = IlaEdge(design, target, ref, w)
    BY <1>2 DEF Edge, IlaEdge, Granted
  <2>7. k' = [k EXCEPT !.s = EdgeOf(design, target, k, w).s,
                       !.mem = EdgeOf(design, target, k, w).mem]
    BY <1>2 DEF Edge
  <2>8. /\ k'.s = EdgeOf(design, target, k, w).s /\ k'.mem = EdgeOf(design, target, k, w).mem
        /\ DOMAIN k' = DOMAIN k
    BY <2>3, <2>7
  <2> QED
    BY <2>3, <2>4, <2>5, <2>6, <2>8 DEF VlgInv
<1>3. Next => \E w \in Edges : Edge(w)
  BY DEF Next, Compute, ComputeSends, ComputeAwaits, ComputeRuns
<1> QED
  BY <1>1, <1>2, <1>3

\* As long as every edge had a supported shape the registers and the memory of
\* the generated module are those of the ILA, for every design, configuration,
\* reset, start signal and grant.
THEOREM VlgCorrect == Spec => []VlgExact
<1>1. Init => Setting /\ VlgInv
  BY SettingInit, VlgInit
<1>2. Setting /\ VlgInv /\ [Next]_vars => (Setting /\ VlgInv)'
  BY SettingKept, VlgStep
<1>3. VlgInv => VlgExact
  BY DEF VlgInv, VlgExact
<1> QED
  BY <1>1, <1>2, <1>3, PTL DEF Spec

-----------------------------------------------------------------------------
(* The internal counter.                                                    *)

\* The counter has a largest value, and it is not 0.
LEMMA CounterMaxPositive == CounterMax(Width) \in Nat /\ CounterMax(Width) >= 1
<1> DEFINE Rec(r) == r = [n \in 0 .. Width |-> IF n = 0 THEN 1 ELSE 2 * r[n - 1]]
           F == [x \in (1 .. Width) \X Nat |-> 2 * x[2]]
           q == CHOOSE r : Rec(r)
<1>1. Width \in Nat /\ Width # 0
  BY BoundsAssumption
<1>2. CounterMax(Width) = q[Width] - 1
  BY DEF CounterMax
<1>3. Rec(q)
  <2>1. F \in [(1 .. Width) \X Nat -> Nat]
    OBVIOUS
  <2>2. \A n \in 1 .. Width, m \in Nat : F[<<n, m>>] = 2 * m
    OBVIOUS
  <2> HIDE DEF F
  <2>3. PICK r \in [0 .. Width -> Nat] : RunsOf(F, 1, Width, r)
    BY <1>1, <2>1, RecursionExists
  <2>4. Rec(r)
    <3>1. ASSUME NEW n \in 0 .. Width, n # 0 PROVE r[n] = 2 * r[n - 1]
      <4>1. n \in 1 .. Width /\ n - 1 \in 0 .. Width
        BY <1>1, <3>1
      <4> QED
        BY <2>2, <2>3, <4>1 DEF RunsOf
    <3>2. r[0] = 1
      BY <2>3 DEF RunsOf
    <3> QED
      BY <2>3, <3>1, <3>2
  <2> HIDE DEF Rec
  <2> QED
    BY <2>4
<1> HIDE DEF q
<1>4. q[0] = 1 /\ \A n \in 1 .. Width : q[n] = 2 * q[n - 1]
  BY <1>1, <1>3
<1> DEFINE T == {n \in 0 .. Width : q[n] \in Nat /\ q[n] >= 1 /\ (n > 0 => q[n] >= 2)}
<1>5. 0 \in T /\ \A n \in 1 .. Width : n - 1 \in T => n \in T
  BY <1>1, <1>4
<1> HIDE DEF T
<1>6. \A n \in 0 .. Width : n \in T
  BY <1>1, <1>5, UpTo
<1>7. Width \in T
  BY <1>1, <1>6
<1> QED
  BY <1>1, <1>2, <1>7 DEF T

CounterInv == since \in Nat /\ CounterExact

\* The counter is the number of active edges since the last decode, cut off at
\* its largest value, for every width, design, configuration and test bench:
\* it never returns to the values that say "never" and "just decoded".
THEOREM CounterCorrect == Spec => []CounterExact
<1> DEFINE Top == CounterMax(Width)
<1>0. Top \in Nat /\ Top >= 1
  BY CounterMaxPositive
<1> HIDE DEF Top
<1>1. Init => CounterInv
  BY <1>0 DEF Init, CounterInv, CounterExact, Top
<1>2. CounterInv /\ [Next]_vars => CounterInv'
  <2> SUFFICES ASSUME CounterInv, [Next]_vars PROVE CounterInv'
    OBVIOUS
  <2>1. CASE UNCHANGED <<cnt, since>>
    BY <2>1 DEF CounterInv, CounterExact
  <2>2. ASSUME NEW w \in Edges, Edge(w), target.mode # "ila" PROVE CounterInv'
    <3>1. cnt' = CounterNext(design, target, k.s, w, cnt, Width)
      BY <2>2 DEF Edge
    <3>2. since' = IF w.rst THEN 0
                   ELSE IF ~((target.start => w.start) /\ k.s \in design.valid) THEN since
                   ELSE IF Decodes(design.top[1], k.s, w.in) THEN 1
                   ELSE IF since > 0 /\ since <= Top THEN since + 1 ELSE since
      BY <2>2 DEF Edge, Top
    <3>3. cnt = (IF since > Top THEN Top ELSE since) /\ since \in Nat
      BY DEF CounterInv, CounterExact, Top
    <3>4. cnt' = IF w.rst THEN 0
                 ELSE IF ~((target.start => w.start) /\ k.s \in design.valid) THEN cnt
                 ELSE IF Decodes(design.top[1], k.s, w.in) THEN 1
                 ELSE IF cnt >= 1 /\ cnt < Top THEN cnt + 1 ELSE cnt
      BY <3>1 DEF CounterNext, CounterStep, Active, Top
    <3>5. since' \in Nat /\ cnt' = IF since' > Top THEN Top ELSE since'
      BY <1>0, <3>2, <3>3, <3>4
    <3> QED
      BY <3>5 DEF CounterInv, CounterExact, Top
  <2>3. UNCHANGED <<cnt, since>> \/ \E w \in Edges : Edge(w) /\ target.mode # "ila"
    BY DEF Next, vars, Compute, ComputeSends, ComputeAwaits, ComputeRuns, Edge
  <2> QED
    BY <2>1, <2>2, <2>3
<1>3. CounterInv => CounterExact
  BY DEF CounterInv
<1> QED
  BY <1>1, <1>2, <1>3, PTL DEF Spec

-----------------------------------------------------------------------------
(* One instruction of a simulator.                                          *)

StoreMaps == UNION {[A -> Data] : A \in SUBSET Addrs}
Kernels(d) ==
    [s : Regs, mem : Memories, in : Data, booted : BOOLEAN, hung : BOOLEAN, fired : Nat,
     maps : [DOMAIN Instrs(d) -> StoreMaps], iter : [DOMAIN Instrs(d) -> Nat],
     ctrl : [DOMAIN Instrs(d) -> 0 .. 2], data : [DOMAIN Instrs(d) -> Data]]
StateOf(K) == [s |-> K.s, mem |-> K.mem]

\* std::map: an address has the data of the outermost store to it.
LEMMA StoreMapMeans ==
    ASSUME NEW st \in Entries
    PROVE  /\ StoreMap(st) \in StoreMaps /\ DOMAIN StoreMap(st) = AddressesOf(st)
           /\ \A a \in Addrs : a \in AddressesOf(st) <=> \E n \in 1 .. Len(st) : st[n][1] = a
           /\ \A a \in AddressesOf(st) :
                \E n \in 1 .. Len(st) : /\ st[n][1] = a /\ FirstTo(st, n)
                                        /\ StoreMap(st)[a] = st[n][2]
<1>1. Len(st) \in Nat /\ DOMAIN st = 1 .. Len(st) /\ \A n \in 1 .. Len(st) : st[n] \in Addrs \X Data
  BY DEF Entries
<1>2. AddressesOf(st) = {st[n][1] : n \in 1 .. Len(st)}
  BY <1>1 DEF AddressesOf, Range
<1>3. ASSUME NEW a \in AddressesOf(st)
      PROVE  \E n \in 1 .. Len(st) : /\ st[n][1] = a /\ FirstTo(st, n)
                                     /\ StoreMap(st)[a] = st[n][2]
  <2> DEFINE First(n) == st[n][1] = a /\ \A m \in 1 .. (n - 1) : st[m][1] # a
             T == {n \in 1 .. Len(st) : st[n][1] = a}
  <2>1. T \in SUBSET Nat /\ T # {}
    BY <1>1, <1>2
  <2>2. PICK n \in T : \A m \in T : n <= m
    <3> HIDE DEF T
    <3> QED
      BY <2>1, LeastNumber
  <2>3. n \in DOMAIN st /\ First(n)
    BY <1>1, <2>2
  <2> DEFINE first == CHOOSE j \in DOMAIN st : First(j)
  <2>4. StoreMap(st)[a] = st[first][2]
    BY DEF StoreMap
  <2>5. first \in DOMAIN st /\ First(first)
    <3> HIDE DEF First
    <3> QED
      BY <2>3
  <2> HIDE DEF first
  <2> QED
    BY <1>1, <2>4, <2>5 DEF FirstTo
<1>4. DOMAIN StoreMap(st) = AddressesOf(st)
  BY DEF StoreMap
<1>5. StoreMap(st) \in [AddressesOf(st) -> Data]
  <2>1. \A a \in AddressesOf(st) : StoreMap(st)[a] \in Data
    BY <1>1, <1>3
  <2>2. StoreMap(st) = [a \in AddressesOf(st) |-> StoreMap(st)[a]]
    BY DEF StoreMap
  <2> QED
    BY <2>1, <2>2
<1>6. AddressesOf(st) \in SUBSET Addrs
  BY <1>1, <1>2
<1> QED
  BY <1>2, <1>3, <1>4, <1>5, <1>6 DEF StoreMaps

\* Committing the map does what the chain of stores does.
LEMMA CommitIsStored ==
    ASSUME NEW mem \in Memories, NEW st \in Entries
    PROVE  CommitMap(mem, StoreMap(st)) = Stored(mem, st)
<1> DEFINE m == StoreMap(st)
           S == Stored(mem, st)
<1>1. /\ S \in Memories
      /\ \A n \in 1 .. Len(st) : FirstTo(st, n) => S[st[n][1]] = st[n][2]
      /\ \A a \in Addrs : (\A n \in 1 .. Len(st) : st[n][1] # a) => S[a] = mem[a]
  BY StoredMeans
<1>2. /\ DOMAIN m = AddressesOf(st)
      /\ \A a \in Addrs : a \in AddressesOf(st) <=> \E n \in 1 .. Len(st) : st[n][1] = a
      /\ \A a \in AddressesOf(st) :
           \E n \in 1 .. Len(st) : st[n][1] = a /\ FirstTo(st, n) /\ m[a] = st[n][2]
  BY StoreMapMeans
<1>3. CommitMap(mem, m) = [a \in Addrs |-> IF a \in DOMAIN m THEN m[a] ELSE mem[a]]
  BY DEF CommitMap, Memories
<1> HIDE DEF m, S
<1>4. ASSUME NEW a \in Addrs PROVE CommitMap(mem, m)[a] = S[a]
  BY <1>1, <1>2, <1>3
<1>5. CommitMap(mem, m) = S
  BY <1>1, <1>3, <1>4 DEF Memories
<1> QED
  BY <1>5 DEF m, S

\* The instructions of a simulator are those of the top and then of the child.
LEMMA InstrsFacts ==
    ASSUME NEW d \in Designs
    PROVE  /\ Instrs(d) \in Seq(Instructions)
           /\ DOMAIN Instrs(d) = 1 .. Len(d.top) + Len(d.kid)
           /\ Len(d.top) \in Nat /\ Len(d.kid) \in Nat
           /\ \A i \in 1 .. Len(d.top) : Instrs(d)[i] = d.top[i]
           /\ \A j \in 1 .. Len(d.kid) : Instrs(d)[Len(d.top) + j] = d.kid[j]
           /\ DOMAIN d.top = 1 .. Len(d.top) /\ DOMAIN d.kid = 1 .. Len(d.kid)
           /\ \A i \in DOMAIN Instrs(d) : Instrs(d)[i] \in Instructions
<1> DEFINE t == d.top
           q == d.kid
           all == t \o q
<1>1. t \in Seq(Instructions) /\ q \in Seq(Instructions)
  BY DesignFacts
<1>2. Instrs(d) = all
  BY DEF Instrs
<1> HIDE DEF t, q
<1>3. /\ all \in Seq(Instructions) /\ Len(all) = Len(t) + Len(q)
      /\ Len(t) \in Nat /\ Len(q) \in Nat
      /\ DOMAIN t = 1 .. Len(t) /\ DOMAIN q = 1 .. Len(q)
  BY <1>1
<1>4. DOMAIN all = 1 .. Len(t) + Len(q) /\ \A i \in DOMAIN all : all[i] \in Instructions
  <2> HIDE DEF all
  <2> QED
    BY <1>3
<1>5. \A i \in 1 .. Len(t) : all[i] = t[i]
  BY <1>1, <1>3
<1>6. \A j \in 1 .. Len(q) : all[Len(t) + j] = q[j]
  BY <1>1, <1>3
<1> HIDE DEF all
<1> QED
  BY <1>2, <1>3, <1>4, <1>5, <1>6 DEF t, q

\* The instruction decodes and its host is valid.
Ready(d, K, i) == HostValid(d, i, K.s) /\ Decodes(Instrs(d)[i], K.s, K.in)

\* execute_instruction of a simulator with internal memories is the instruction.
LEMMA RunInternalMeans ==
    ASSUME NEW d \in Designs, NEW K \in Kernels(d), NEW ins \in Instructions
    PROVE  /\ RunInternal(K, ins) \in Kernels(d)
           /\ StateOf(RunInternal(K, ins)) = Execute(ins, StateOf(K))
           /\ RunInternal(K, ins) = [K EXCEPT !.s = RunInternal(K, ins).s,
                                              !.mem = RunInternal(K, ins).mem]
<1> DEFINE s2 == Updated(ins, K.s, LoadedData(ins, K.mem))
           m2 == CommitMap(K.mem, StoreMap(StoresOf(ins, K.s)))
<1>1. K.s \in Regs /\ K.mem \in Memories
  BY DEF Kernels
<1>2. StoresOf(ins, K.s) \in Entries
  BY <1>1, InstrFacts
<1>3. m2 = Stored(K.mem, StoresOf(ins, K.s)) /\ m2 \in Memories
  BY <1>1, <1>2, CommitIsStored, StoredMeans
<1>4. s2 \in Regs
  BY <1>1, ExecuteTyped, InstrFacts
<1>5. RunInternal(K, ins) = [K EXCEPT !.s = s2, !.mem = m2]
  BY DEF RunInternal
<1> HIDE DEF s2, m2
<1>6. /\ RunInternal(K, ins) \in Kernels(d)
      /\ RunInternal(K, ins).s = s2 /\ RunInternal(K, ins).mem = m2
  BY <1>3, <1>4, <1>5 DEF Kernels
<1> QED
  BY <1>1, <1>3, <1>5, <1>6 DEF StateOf, Execute, s2

\* An instruction of a simulator with internal memories: it runs if it is ready.
LEMMA RunInstrInternal ==
    ASSUME NEW d \in Designs, NEW kind, kind # "ext", NEW K \in Kernels(d),
           NEW i \in DOMAIN Instrs(d)
    PROVE  LET L == RunInstr(d, kind, K, i)
               ins == Instrs(d)[i]
           IN  /\ L \in Kernels(d)
               /\ L.in = K.in /\ L.booted = K.booted /\ L.hung = K.hung
               /\ ~ Ready(d, K, i) => L = K
               /\ Ready(d, K, i) => StateOf(L) = Execute(ins, StateOf(K))
               /\ L.fired = K.fired \/ L.fired = K.fired + 1
               /\ L.fired = K.fired => StateOf(L) = StateOf(K)
<1> DEFINE L == RunInstr(d, kind, K, i)
           ins == Instrs(d)[i]
           M == RunInternal(K, ins)
<1>1. ins \in Instructions
  BY InstrsFacts
<1>2. /\ M \in Kernels(d) /\ StateOf(M) = Execute(ins, StateOf(K))
      /\ M = [K EXCEPT !.s = M.s, !.mem = M.mem]
  BY <1>1, RunInternalMeans
<1>3. L = IF Skipped(kind, ins) \/ ~ Ready(d, K, i) THEN K ELSE [M EXCEPT !.fired = @ + 1]
  BY DEF RunInstr, Ready, Commits
<1>4. Skipped(kind, ins) => Execute(ins, StateOf(K)) = StateOf(K)
  <2> SUFFICES ASSUME Skipped(kind, ins) PROVE Execute(ins, StateOf(K)) = StateOf(K)
    OBVIOUS
  <2>1. ~ HasUpdate(ins) /\ ~ HasStore(ins)
    BY DEF Skipped
  <2>2. K.s \in Regs /\ K.mem \in Memories
    BY DEF Kernels
  <2>3. StoresOf(ins, K.s) = <<>>
    BY <2>1 DEF StoresOf
  <2>4. Stored(K.mem, <<>>) = K.mem
    BY <2>2, NothingStored
  <2>5. LoadedData(ins, K.mem) \in Data
    BY <1>1, <2>2, ExecuteTyped
  <2>6. Updated(ins, K.s, LoadedData(ins, K.mem)) = K.s
    BY <1>1, <2>1, <2>2, <2>5, InstrFacts
  <2> QED
    BY <2>3, <2>4, <2>6 DEF Execute, StateOf
<1>5. CASE Skipped(kind, ins) \/ ~ Ready(d, K, i)
  <2>1. L = K
    BY <1>3, <1>5
  <2> HIDE DEF L, ins
  <2> QED
    BY <1>4, <1>5, <2>1 DEF L, ins
<1>6. CASE ~ (Skipped(kind, ins) \/ ~ Ready(d, K, i))
  <2>1. L = [M EXCEPT !.fired = @ + 1]
    BY <1>3, <1>6
  <2> HIDE DEF L, M
  <2>2. /\ L \in Kernels(d) /\ L.s = M.s /\ L.mem = M.mem /\ L.fired = M.fired + 1
        /\ L.in = M.in /\ L.booted = M.booted /\ L.hung = M.hung
    BY <1>2, <2>1 DEF Kernels
  <2>3. /\ M.fired = K.fired /\ M.in = K.in /\ M.booted = K.booted /\ M.hung = K.hung
        /\ K.fired \in Nat
    BY <1>2 DEF Kernels
  <2>4. StateOf(L) = StateOf(M)
    BY <2>2 DEF StateOf
  <2> QED
    BY <1>2, <1>6, <2>2, <2>3, <2>4 DEF L
<1> QED
  BY <1>5, <1>6

\* With an external memory: the stores are mapped, the load is asked for, and the
\* registers are updated unless the load waits.
LEMMA RunExternalMeans ==
    ASSUME NEW d \in Designs, NEW K \in Kernels(d), NEW i \in DOMAIN Instrs(d),
           NEW ins, ins = Instrs(d)[i], NEW L, L = RunExternal(K, i, ins)
    PROVE  /\ L \in Kernels(d) /\ LoadControl(K, i, ins) \in 0 .. 2
           /\ L.mem = K.mem /\ L.iter = K.iter /\ L.data = K.data /\ L.in = K.in
           /\ L.booted = K.booted /\ L.hung = K.hung /\ L.fired = K.fired
           /\ L.ctrl[i] = LoadControl(K, i, ins)
           /\ HasStore(ins) => L.maps[i] = StoreMap(ins.st[K.s])
           /\ ~ HasStore(ins) => L.maps[i] = K.maps[i]
           /\ \A j \in DOMAIN Instrs(d) : j # i => L.ctrl[j] = K.ctrl[j] /\ L.maps[j] = K.maps[j]
           /\ LoadControl(K, i, ins) = 1 /\ ins.ld # NoLoad => L.s = K.s
           /\ ~ (LoadControl(K, i, ins) = 1 /\ ins.ld # NoLoad)
                => L.s = Updated(ins, K.s, K.data[i])
<1> DEFINE lc == LoadControl(K, i, ins)
           m == IF HasStore(ins) THEN StoreMap(ins.st[K.s]) ELSE K.maps[i]
           M == [K EXCEPT !.ctrl[i] = lc, !.maps[i] = m]
           s2 == Updated(ins, K.s, K.data[i])
<1>1. ins \in Instructions /\ K.s \in Regs /\ K.data[i] \in Data /\ K.ctrl[i] \in 0 .. 2
  BY InstrsFacts DEF Kernels
<1>2. lc \in 0 .. 2
  BY <1>1 DEF LoadControl
<1>3. m \in StoreMaps
  <2>1. CASE HasStore(ins)
    <3>1. StoresOf(ins, K.s) \in Entries
      BY <1>1, InstrFacts
    <3> QED
      BY <2>1, <3>1, StoreMapMeans DEF StoresOf
  <2>2. CASE ~ HasStore(ins)
    BY <2>2 DEF Kernels
  <2> QED
    BY <2>1, <2>2
<1>4. s2 \in Regs
  BY <1>1, InstrFacts
<1>5. L = IF M.ctrl[i] = 1 /\ ins.ld # NoLoad THEN M ELSE [M EXCEPT !.s = s2]
  BY DEF RunExternal
<1> HIDE DEF lc, m, s2
<1>6. /\ M \in Kernels(d) /\ M.s = K.s /\ M.mem = K.mem /\ M.iter = K.iter /\ M.data = K.data
      /\ M.in = K.in /\ M.booted = K.booted /\ M.hung = K.hung /\ M.fired = K.fired
      /\ M.ctrl = [K.ctrl EXCEPT ![i] = lc] /\ M.maps = [K.maps EXCEPT ![i] = m]
      /\ M.ctrl[i] = lc
  BY <1>2, <1>3 DEF Kernels
<1> HIDE DEF M
<1> DEFINE N == [M EXCEPT !.s = s2]
<1>7. /\ N \in Kernels(d) /\ N.s = s2 /\ N.mem = M.mem /\ N.iter = M.iter /\ N.data = M.data
      /\ N.in = M.in /\ N.booted = M.booted /\ N.hung = M.hung /\ N.fired = M.fired
      /\ N.ctrl = M.ctrl /\ N.maps = M.maps
  BY <1>4, <1>6 DEF Kernels
<1> HIDE DEF N
<1>8. L = IF lc = 1 /\ ins.ld # NoLoad THEN M ELSE N
  BY <1>5, <1>6 DEF N
<1>9. /\ L \in Kernels(d) /\ lc \in 0 .. 2
      /\ L.mem = K.mem /\ L.iter = K.iter /\ L.data = K.data /\ L.in = K.in
      /\ L.booted = K.booted /\ L.hung = K.hung /\ L.fired = K.fired
      /\ L.ctrl = [K.ctrl EXCEPT ![i] = lc] /\ L.maps = [K.maps EXCEPT ![i] = m]
      /\ L.s = IF lc = 1 /\ ins.ld # NoLoad THEN K.s ELSE s2
  BY <1>2, <1>6, <1>7, <1>8
<1>10. /\ L.ctrl[i] = lc /\ L.maps[i] = m
       /\ \A j \in DOMAIN Instrs(d) : j # i => L.ctrl[j] = K.ctrl[j] /\ L.maps[j] = K.maps[j]
  BY <1>9 DEF Kernels
<1> QED
  BY <1>9, <1>10 DEF lc, m, s2

\* An instruction keeps a simulator of the right sort, its inputs and its flags.
LEMMA RunInstrTyped ==
    ASSUME NEW d \in Designs, NEW kind, NEW K \in Kernels(d), NEW i \in DOMAIN Instrs(d)
    PROVE  LET L == RunInstr(d, kind, K, i)
           IN  /\ L \in Kernels(d)
               /\ L.in = K.in /\ L.booted = K.booted /\ L.hung = K.hung
               /\ L.fired = K.fired \/ L.fired = K.fired + 1
<1>1. CASE kind # "ext"
  BY <1>1, RunInstrInternal
<1>2. CASE kind = "ext"
  <2> DEFINE ins == Instrs(d)[i]
             M == RunExternal(K, i, ins)
             L == RunInstr(d, kind, K, i)
             N == [M EXCEPT !.fired = IF Commits(kind, K, i, ins) THEN @ + 1 ELSE @]
  <2>1. /\ M \in Kernels(d) /\ M.in = K.in /\ M.booted = K.booted /\ M.hung = K.hung
        /\ M.fired = K.fired
    BY RunExternalMeans
  <2>2. L = K \/ L = N
    BY <1>2 DEF RunInstr
  <2> HIDE DEF M, L
  <2>3. /\ N \in Kernels(d) /\ N.in = M.in /\ N.booted = M.booted /\ N.hung = M.hung
        /\ N.fired = M.fired \/ N.fired = M.fired + 1
    BY <2>1 DEF Kernels
  <2> HIDE DEF N
  <2>4. /\ L \in Kernels(d)
        /\ L.in = K.in /\ L.booted = K.booted /\ L.hung = K.hung
        /\ L.fired = K.fired \/ L.fired = K.fired + 1
    BY <2>1, <2>2, <2>3
  <2> QED
    BY <2>4 DEF L
<1> QED
  BY <1>1, <1>2

\* What a child does not change.
Book(K) == <<K.maps, K.iter, K.ctrl, K.data>>

\* The instruction touches the memory only where the memory is internal.
Plain(kind, ins) == kind # "ext" \/ (ins.ld = NoLoad /\ ~ HasStore(ins))

\* Such an instruction does the same whether the memory is internal or external.
LEMMA RunInstrPlain ==
    ASSUME NEW d \in Designs, NEW kind, NEW K \in Kernels(d), NEW i \in DOMAIN Instrs(d),
           Plain(kind, Instrs(d)[i])
    PROVE  LET L == RunInstr(d, kind, K, i)
               ins == Instrs(d)[i]
           IN  /\ L \in Kernels(d) /\ Book(L) = Book(K)
               /\ ~ Ready(d, K, i) => L = K
               /\ Ready(d, K, i) => StateOf(L) = Execute(ins, StateOf(K))
               /\ L.fired = K.fired => StateOf(L) = StateOf(K)
<1> DEFINE L == RunInstr(d, kind, K, i)
           ins == Instrs(d)[i]
<1>1. CASE kind # "ext"
  <2> DEFINE M == RunInternal(K, ins)
             N == [M EXCEPT !.fired = @ + 1]
  <2>1. ins \in Instructions
    BY InstrsFacts
  <2>2. /\ M \in Kernels(d) /\ M = [K EXCEPT !.s = M.s, !.mem = M.mem]
    BY <2>1, RunInternalMeans
  <2>3. L = K \/ L = N
    BY <1>1 DEF RunInstr, Commits
  <2> HIDE DEF M, L
  <2>4. M.maps = K.maps /\ M.iter = K.iter /\ M.ctrl = K.ctrl /\ M.data = K.data
    BY <2>2 DEF Kernels
  <2>5. N.maps = M.maps /\ N.iter = M.iter /\ N.ctrl = M.ctrl /\ N.data = M.data
    BY <2>2 DEF Kernels
  <2> HIDE DEF N
  <2>6. Book(L) = Book(K)
    BY <2>3, <2>4, <2>5 DEF Book
  <2> QED
    BY <1>1, <2>6, RunInstrInternal DEF L
<1>2. CASE kind = "ext"
  <2> DEFINE M == RunExternal(K, i, ins)
             N == [M EXCEPT !.fired = @ + 1]
  <2>0. ins \in Instructions /\ ins.ld = NoLoad /\ ~ HasStore(ins)
    BY <1>2, InstrsFacts DEF Plain
  <2>1. /\ M \in Kernels(d) /\ M.mem = K.mem /\ M.iter = K.iter /\ M.data = K.data
        /\ M.fired = K.fired /\ M.ctrl[i] = LoadControl(K, i, ins) /\ M.maps[i] = K.maps[i]
        /\ \A j \in DOMAIN Instrs(d) : j # i => M.ctrl[j] = K.ctrl[j] /\ M.maps[j] = K.maps[j]
        /\ M.s = Updated(ins, K.s, K.data[i])
    BY <2>0, RunExternalMeans
  <2>2. M.ctrl = K.ctrl /\ M.maps = K.maps
    <3> HIDE DEF M
    <3>1. M.ctrl[i] = K.ctrl[i]
      BY <2>0, <2>1 DEF LoadControl
    <3>2. \A j \in DOMAIN Instrs(d) : M.ctrl[j] = K.ctrl[j] /\ M.maps[j] = K.maps[j]
      BY <2>1, <3>1
    <3> QED
      BY <2>1, <3>2 DEF Kernels
  <2>3. /\ K.s \in Regs /\ K.mem \in Memories /\ K.data[i] \in Data /\ K.fired \in Nat
    BY DEF Kernels
  <2>4. StateOf(M) = Execute(ins, StateOf(K))
    <3>1. StoresOf(ins, K.s) = <<>>
      BY <2>0 DEF StoresOf
    <3>2. Stored(K.mem, <<>>) = K.mem
      BY <2>3, NothingStored
    <3>3. M.s = Updated(ins, K.s, LoadedData(ins, K.mem))
      BY <2>0, <2>1 DEF Updated
    <3> HIDE DEF M
    <3> QED
      BY <2>1, <3>1, <3>2, <3>3 DEF Execute, StateOf
  <2>5. Commits(kind, K, i, ins)
    BY <2>0 DEF Commits
  <2>6. L = IF Skipped(kind, ins) \/ ~ Ready(d, K, i) THEN K ELSE N
    BY <1>2, <2>5 DEF RunInstr, Ready
  <2>7. Skipped(kind, ins) => Execute(ins, StateOf(K)) = StateOf(K)
    <3> SUFFICES ASSUME Skipped(kind, ins) PROVE Execute(ins, StateOf(K)) = StateOf(K)
      OBVIOUS
    <3>1. Updated(ins, K.s, K.data[i]) = K.s
      BY <2>0, <2>3, InstrFacts DEF Skipped
    <3> HIDE DEF M
    <3> QED
      BY <2>1, <2>4, <3>1 DEF StateOf
  <2> HIDE DEF M, L, ins
  <2>8. /\ N \in Kernels(d) /\ N.s = M.s /\ N.mem = M.mem /\ N.fired = M.fired + 1
        /\ N.maps = M.maps /\ N.iter = M.iter /\ N.ctrl = M.ctrl /\ N.data = M.data
    BY <2>1 DEF Kernels
  <2> HIDE DEF N
  <2>9. StateOf(N) = StateOf(M) /\ Book(N) = Book(K)
    BY <2>1, <2>2, <2>8 DEF StateOf, Book
  <2>10. /\ L \in Kernels(d) /\ Book(L) = Book(K)
         /\ ~ Ready(d, K, i) => L = K
         /\ Ready(d, K, i) => StateOf(L) = Execute(ins, StateOf(K))
         /\ L.fired = K.fired => StateOf(L) = StateOf(K)
    BY <2>1, <2>3, <2>4, <2>6, <2>7, <2>8, <2>9
  <2> QED
    BY <2>10 DEF L, ins
<1> QED
  BY <1>1, <1>2

-----------------------------------------------------------------------------
(* All the instructions of a list, one after the other.                     *)

\* r is the run of the instructions is from K.
RunFrom(d, kind, K, is, r) ==
    /\ r \in [0 .. Len(is) -> Kernels(d)] /\ r[0] = K
    /\ \A n \in 1 .. Len(is) : r[n] = RunInstr(d, kind, r[n - 1], is[n])
    /\ \A n \in 0 .. Len(is) : /\ r[n].in = K.in /\ r[n].booted = K.booted
                               /\ r[n].hung = K.hung
    /\ \A n \in 1 .. Len(is) : r[n].fired = r[n - 1].fired \/ r[n].fired = r[n - 1].fired + 1

\* The instructions of a list have a run, and it ends where RunAll does.
LEMMA RunAllMeans ==
    ASSUME NEW d \in Designs, NEW kind, NEW K \in Kernels(d),
           NEW is \in Seq(DOMAIN Instrs(d))
    PROVE  \E r : RunFrom(d, kind, K, is, r) /\ RunAll(d, kind, K, is) = r[Len(is)]
<1> DEFINE N == Len(is)
           S == Kernels(d)
           E(n, L) == RunInstr(d, kind, L, is[n])
           Rec(r) == r = [n \in 0 .. N |-> IF n = 0 THEN K ELSE E(n, r[n - 1])]
           F == [x \in (1 .. N) \X S |-> E(x[1], x[2])]
           q == CHOOSE r : Rec(r)
<1>1. N \in Nat /\ \A n \in 1 .. N : is[n] \in DOMAIN Instrs(d)
  OBVIOUS
<1>2. \A n \in 1 .. N, L \in S :
         /\ E(n, L) \in S /\ E(n, L).in = L.in /\ E(n, L).booted = L.booted
         /\ E(n, L).hung = L.hung
         /\ E(n, L).fired = L.fired \/ E(n, L).fired = L.fired + 1
  BY <1>1, RunInstrTyped
<1>3. RunAll(d, kind, K, is) = q[N]
  BY DEF RunAll
<1>4. Rec(q)
  <2> HIDE DEF E, N, S
  <2>1. F \in [(1 .. N) \X S -> S]
    BY <1>2
  <2>2. \A n \in 1 .. N, L \in S : F[<<n, L>>] = E(n, L)
    OBVIOUS
  <2> HIDE DEF F
  <2>3. PICK r \in [0 .. N -> S] : RunsOf(F, K, N, r)
    <3>1. K \in S
      BY DEF S
    <3> QED
      BY <1>1, <2>1, <3>1, RecursionExists
  <2>4. Rec(r)
    <3>1. ASSUME NEW n \in 0 .. N, n # 0 PROVE r[n] = E(n, r[n - 1])
      <4>1. n \in 1 .. N /\ n - 1 \in 0 .. N
        BY <1>1, <3>1
      <4> QED
        BY <2>2, <2>3, <4>1 DEF RunsOf
    <3>2. r[0] = K
      BY <2>3 DEF RunsOf
    <3> QED
      BY <2>3, <3>1, <3>2
  <2> HIDE DEF Rec
  <2> QED
    BY <2>4
<1> HIDE DEF q
<1>5. /\ q[0] = K /\ DOMAIN q = 0 .. N /\ \A n \in 1 .. N : q[n] = E(n, q[n - 1])
      /\ q = [n \in 0 .. N |-> q[n]]
  <2> HIDE DEF E
  <2> QED
    BY <1>1, <1>4
<1> HIDE DEF E, Rec, F
<1>6. \A n \in 0 .. N : q[n] \in S /\ q[n].in = K.in /\ q[n].booted = K.booted /\ q[n].hung = K.hung
  <2> DEFINE T == {n \in 0 .. N : /\ q[n] \in S /\ q[n].in = K.in
                                  /\ q[n].booted = K.booted /\ q[n].hung = K.hung}
  <2> HIDE DEF N
  <2>1. 0 \in T
    BY <1>1, <1>5
  <2>2. ASSUME NEW n \in 1 .. N, n - 1 \in T PROVE n \in T
    <3>1. /\ q[n - 1] \in S /\ q[n - 1].in = K.in
          /\ q[n - 1].booted = K.booted /\ q[n - 1].hung = K.hung
      BY <2>2
    <3>2. q[n] = E(n, q[n - 1]) /\ n \in 0 .. N
      BY <1>1, <1>5
    <3> HIDE DEF S
    <3>3. /\ E(n, q[n - 1]) \in S /\ E(n, q[n - 1]).in = q[n - 1].in
          /\ E(n, q[n - 1]).booted = q[n - 1].booted /\ E(n, q[n - 1]).hung = q[n - 1].hung
      BY <1>2, <3>1
    <3> QED
      BY <3>1, <3>2, <3>3
  <2> HIDE DEF T
  <2>3. \A n \in 0 .. N : n \in T
    BY <1>1, <2>1, <2>2, UpTo
  <2> QED
    BY <2>3 DEF T
<1>7. q \in [0 .. N -> S]
  <2> HIDE DEF S, N
  <2> QED
    BY <1>5, <1>6
<1>8. RunFrom(d, kind, K, is, q)
  <2>1. \A n \in 1 .. N : n - 1 \in 0 .. N
    BY <1>1
  <2>2. \A n \in 1 .. N : q[n] = RunInstr(d, kind, q[n - 1], is[n])
    BY <1>5 DEF E
  <2>3. \A n \in 1 .. N : q[n].fired = q[n - 1].fired \/ q[n].fired = q[n - 1].fired + 1
    <3> SUFFICES ASSUME NEW n \in 1 .. N
                 PROVE  q[n].fired = q[n - 1].fired \/ q[n].fired = q[n - 1].fired + 1
      OBVIOUS
    <3> HIDE DEF S, N
    <3>1. q[n - 1] \in S /\ q[n] = E(n, q[n - 1])
      BY <1>5, <1>6, <2>1
    <3> QED
      BY <1>2, <3>1
  <2> QED
    BY <1>5, <1>6, <1>7, <2>2, <2>3 DEF RunFrom
<1> QED
  BY <1>3, <1>8

\* An instruction that does not decode, or of an invalid host, changes nothing.
LEMMA NotReadyKept ==
    ASSUME NEW d, NEW kind, NEW K, NEW i, ~ Ready(d, K, i)
    PROVE  RunInstr(d, kind, K, i) = K
BY DEF Ready, RunInstr

\* Up to the first instruction that is ready nothing happens.
LEMMA NoneRuns ==
    ASSUME NEW d, NEW kind, NEW K, NEW is, NEW r, NEW i, RunFrom(d, kind, K, is, r),
           Len(is) \in Nat, i \in 0 .. Len(is), \A n \in 1 .. i : ~ Ready(d, K, is[n])
    PROVE  r[i] = K
<1> DEFINE T == {n \in 0 .. i : r[n] = K}
<1>1. i \in Nat /\ 0 \in T
  BY DEF RunFrom
<1>2. ASSUME NEW n \in 1 .. i, n - 1 \in T PROVE n \in T
  <2>1. n \in 1 .. Len(is) /\ r[n - 1] = K
    BY <1>2
  <2> QED
    BY <2>1, NotReadyKept DEF RunFrom
<1> HIDE DEF T
<1>3. \A n \in 0 .. i : n \in T
  BY <1>1, <1>2, UpTo
<1>4. i \in T
  BY <1>1, <1>3
<1> QED
  BY <1>4 DEF T

\* Of a list in which one instruction is ready and makes no later one ready, it
\* alone runs.
LEMMA OneRuns ==
    ASSUME NEW d \in Designs, NEW kind, NEW K \in Kernels(d),
           NEW is \in Seq(DOMAIN Instrs(d)), NEW i \in 1 .. Len(is),
           \A n \in 1 .. i - 1 : ~ Ready(d, K, is[n]),
           \A n \in i + 1 .. Len(is) : ~ Ready(d, RunInstr(d, kind, K, is[i]), is[n])
    PROVE  RunAll(d, kind, K, is) = RunInstr(d, kind, K, is[i])
<1> DEFINE N == Len(is)
           L == RunInstr(d, kind, K, is[i])
<1>1. PICK r : RunFrom(d, kind, K, is, r) /\ RunAll(d, kind, K, is) = r[N]
  BY RunAllMeans
<1>2. i - 1 \in 0 .. Len(is) /\ N \in Nat
  OBVIOUS
<1>3. r[i - 1] = K
  <2> DEFINE j == i - 1
  <2>1. j \in 0 .. Len(is) /\ \A n \in 1 .. j : ~ Ready(d, K, is[n])
    BY <1>2
  <2> HIDE DEF j
  <2>2. r[j] = K
    BY <1>1, <1>2, <2>1, NoneRuns, Zenon
  <2> QED
    BY <2>2 DEF j
<1>4. r[i] = L
  BY <1>1, <1>3 DEF RunFrom
<1> DEFINE T == {n \in 0 .. N : n >= i => r[n] = L}
<1> HIDE DEF L
<1>5. 0 \in T
  BY <1>2
<1>6. ASSUME NEW n \in 1 .. N, n - 1 \in T PROVE n \in T
  <2>1. CASE n <= i
    BY <1>4, <2>1
  <2>2. CASE n > i
    <3>1. r[n - 1] = L /\ n \in i + 1 .. N
      BY <1>6, <2>2
    <3>2. ~ Ready(d, L, is[n])
      BY <3>1 DEF L
    <3>3. r[n] = L
      BY <1>1, <3>1, <3>2, NotReadyKept DEF RunFrom
    <3> QED
      BY <3>3
  <2> QED
    BY <2>1, <2>2
<1> HIDE DEF T
<1>7. \A n \in 0 .. N : n \in T
  BY <1>2, <1>5, <1>6, UpTo
<1>8. N \in T
  BY <1>2, <1>7
<1> QED
  BY <1>1, <1>8 DEF T, L

\* A list in which no instruction is ready changes nothing.
LEMMA NoneRunsAll ==
    ASSUME NEW d \in Designs, NEW kind, NEW K \in Kernels(d),
           NEW is \in Seq(DOMAIN Instrs(d)), \A n \in 1 .. Len(is) : ~ Ready(d, K, is[n])
    PROVE  RunAll(d, kind, K, is) = K
<1>1. PICK r : RunFrom(d, kind, K, is, r) /\ RunAll(d, kind, K, is) = r[Len(is)]
  BY RunAllMeans
<1>2. Len(is) \in 0 .. Len(is) /\ Len(is) \in Nat
  OBVIOUS
<1>3. r[Len(is)] = K
  BY <1>1, <1>2, NoneRuns, Zenon
<1> QED
  BY <1>1, <1>3

-----------------------------------------------------------------------------
(* The instructions of the top, then those of the child.                    *)

\* The orders in which a simulator tries the instructions of top and child.
LEMMA OrderFacts ==
    ASSUME NEW d \in Designs
    PROVE  /\ TopOrder(d) \in Seq(DOMAIN Instrs(d)) /\ Len(TopOrder(d)) = Len(d.top)
           /\ \A n \in 1 .. Len(d.top) : TopOrder(d)[n] = n
           /\ KidOrder(d) \in Seq(DOMAIN Instrs(d)) /\ Len(KidOrder(d)) = Len(d.kid)
           /\ \A n \in 1 .. Len(d.kid) : KidOrder(d)[n] = Len(d.top) + n
<1> DEFINE t == Len(d.top)
           q == Len(d.kid)
<1>1. /\ t \in Nat /\ q \in Nat /\ DOMAIN d.top = 1 .. t /\ DOMAIN d.kid = 1 .. q
      /\ DOMAIN Instrs(d) = 1 .. t + q
  BY InstrsFacts
<1>2. TopOrder(d) = [n \in 1 .. t |-> n] /\ KidOrder(d) = [n \in 1 .. q |-> t + n]
  BY <1>1 DEF TopOrder, KidOrder
<1> HIDE DEF t, q
<1>3. /\ [n \in 1 .. t |-> n] \in [1 .. t -> 1 .. t + q]
      /\ [n \in 1 .. q |-> t + n] \in [1 .. q -> 1 .. t + q]
  BY <1>1
<1>4. ASSUME NEW S, NEW n \in Nat, NEW f \in [1 .. n -> S]
      PROVE  f \in Seq(S) /\ Len(f) = n
  BY <1>4
<1> DEFINE S == 1 .. t + q
           f == [n \in 1 .. t |-> n]
           g == [n \in 1 .. q |-> t + n]
<1>5. f \in [1 .. t -> S] /\ g \in [1 .. q -> S]
  BY <1>3
<1>6. /\ \A n \in 1 .. t : f[n] = n
      /\ \A n \in 1 .. q : g[n] = t + n
  OBVIOUS
<1>7. DOMAIN Instrs(d) = S /\ TopOrder(d) = f /\ KidOrder(d) = g
  BY <1>1, <1>2
<1> HIDE DEF S, f, g
<1>8. f \in Seq(S) /\ Len(f) = t /\ g \in Seq(S) /\ Len(g) = q
  BY <1>1, <1>4, <1>5
<1> QED
  BY <1>6, <1>7, <1>8 DEF t, q

\* The instructions that are ready are those that decode where the host is valid.
LEMMA ReadyMeans ==
    ASSUME NEW d \in Designs, NEW K
    PROVE  /\ \A n \in 1 .. Len(d.top) : Ready(d, K, n) <=> n \in TopOn(d, K.s, K.in)
           /\ \A n \in 1 .. Len(d.kid) :
                 Ready(d, K, Len(d.top) + n) <=> n \in KidOn(d, K.s, K.in)
           /\ TopOn(d, K.s, K.in) \subseteq 1 .. Len(d.top)
           /\ KidOn(d, K.s, K.in) \subseteq 1 .. Len(d.kid)
<1> DEFINE t == d.top
           q == d.kid
           all == Instrs(d)
<1>1. /\ Len(t) \in Nat /\ Len(q) \in Nat
      /\ \A i \in 1 .. Len(t) : all[i] = t[i]
      /\ \A j \in 1 .. Len(q) : all[Len(t) + j] = q[j]
      /\ DOMAIN t = 1 .. Len(t) /\ DOMAIN q = 1 .. Len(q)
  BY InstrsFacts, Zenon
<1>2. \A n : Ready(d, K, n) <=> /\ n <= Len(t) => K.s \in d.valid
                                /\ ~ (n <= Len(t)) => K.s \in d.kvalid
                                /\ Decodes(all[n], K.s, K.in)
  BY DEF Ready, HostValid
<1>3. /\ TopOn(d, K.s, K.in)
           = IF K.s \in d.valid THEN {n \in 1 .. Len(t) : Decodes(t[n], K.s, K.in)} ELSE {}
      /\ KidOn(d, K.s, K.in)
           = IF K.s \in d.kvalid THEN {n \in 1 .. Len(q) : Decodes(q[n], K.s, K.in)} ELSE {}
  BY <1>1 DEF TopOn, KidOn, Enabled
<1> HIDE DEF all, t, q
<1>4. ASSUME NEW n \in 1 .. Len(t)
      PROVE  Ready(d, K, n) <=> K.s \in d.valid /\ Decodes(t[n], K.s, K.in)
  BY <1>1, <1>2
<1>5. ASSUME NEW n \in 1 .. Len(q)
      PROVE  Ready(d, K, Len(t) + n) <=> K.s \in d.kvalid /\ Decodes(q[n], K.s, K.in)
  <2>1. all[Len(t) + n] = q[n] /\ ~ (Len(t) + n <= Len(t))
    BY <1>1
  <2> QED
    BY <1>2, <2>1
<1> QED
  BY <1>3, <1>4, <1>5 DEF t, q

\* Where no instruction of the top decodes nothing happens.
LEMMA TopsNone ==
    ASSUME NEW d \in Designs, NEW kind, NEW K \in Kernels(d), TopOn(d, K.s, K.in) = {}
    PROVE  RunAll(d, kind, K, TopOrder(d)) = K
<1> DEFINE is == TopOrder(d)
<1>1. is \in Seq(DOMAIN Instrs(d)) /\ Len(is) = Len(d.top) /\ \A n \in 1 .. Len(d.top) : is[n] = n
  BY OrderFacts, Zenon
<1>2. \A n \in 1 .. Len(d.top) : ~ Ready(d, K, n)
  BY ReadyMeans
<1>3. \A n \in 1 .. Len(is) : ~ Ready(d, K, is[n])
  BY <1>1, <1>2
<1> HIDE DEF is
<1>4. RunAll(d, kind, K, is) = K
  BY <1>1, <1>3, NoneRunsAll, Zenon
<1> QED
  BY <1>4 DEF is

\* An instruction of the top that decodes, as an instruction of the simulator.
LEMMA TopFacts ==
    ASSUME NEW d \in Designs, NEW K, NEW i \in TopOn(d, K.s, K.in)
    PROVE  /\ i \in 1 .. Len(d.top) /\ i \in DOMAIN d.top /\ Len(d.top) \in Nat
           /\ i \in DOMAIN Instrs(d) /\ Instrs(d)[i] = d.top[i]
           /\ Ready(d, K, i)
<1> DEFINE N == Len(d.top)
           q == Len(d.kid)
<1>1. i \in 1 .. N /\ Ready(d, K, i)
  BY ReadyMeans
<1>2. /\ N \in Nat /\ q \in Nat /\ \A n \in 1 .. N : Instrs(d)[n] = d.top[n]
      /\ DOMAIN Instrs(d) = 1 .. N + q /\ DOMAIN d.top = 1 .. N
  BY InstrsFacts, Zenon
<1> HIDE DEF N, q
<1>3. i \in DOMAIN Instrs(d) /\ i \in DOMAIN d.top /\ Instrs(d)[i] = d.top[i]
  BY <1>1, <1>2
<1> QED
  BY <1>1, <1>2, <1>3 DEF N

\* Where one of them decodes and makes no later one decode, it alone runs.
LEMMA TopsOne ==
    ASSUME NEW d \in Designs, NEW kind, NEW K \in Kernels(d), NEW i,
           TopOn(d, K.s, K.in) = {i}, NEW L, L = RunInstr(d, kind, K, i), L.in = K.in,
           \A j \in TopOn(d, L.s, K.in) : j <= i
    PROVE  RunAll(d, kind, K, TopOrder(d)) = L
<1> DEFINE is == TopOrder(d)
           N == Len(d.top)
<1>1. is \in Seq(DOMAIN Instrs(d)) /\ Len(is) = N /\ \A n \in 1 .. N : is[n] = n
  BY OrderFacts, Zenon
<1>2. i \in 1 .. N /\ N \in Nat
  BY TopFacts
<1>3. \A n \in i + 1 .. N : ~ Ready(d, L, n)
  <2>1. \A n \in 1 .. N : Ready(d, L, n) <=> n \in TopOn(d, L.s, L.in)
    BY ReadyMeans, Zenon
  <2> HIDE DEF N
  <2> QED
    BY <1>2, <2>1
<1>4. \A n \in 1 .. i - 1 : ~ Ready(d, K, n)
  <2>1. \A n \in 1 .. N : Ready(d, K, n) <=> n \in TopOn(d, K.s, K.in)
    BY ReadyMeans, Zenon
  <2> HIDE DEF N
  <2> QED
    BY <1>2, <2>1
<1> HIDE DEF is
<1>5. /\ i \in 1 .. Len(is) /\ is[i] = i
      /\ \A n \in 1 .. i - 1 : is[n] = n
      /\ \A n \in i + 1 .. Len(is) : is[n] = n
  BY <1>1, <1>2
<1>6. \A n \in 1 .. i - 1 : ~ Ready(d, K, is[n])
  BY <1>4, <1>5
<1>7. \A n \in i + 1 .. Len(is) : ~ Ready(d, RunInstr(d, kind, K, is[i]), is[n])
  BY <1>1, <1>3, <1>5
<1>8. is \in Seq(DOMAIN Instrs(d)) /\ i \in 1 .. Len(is)
  BY <1>1, <1>5
<1>9. RunAll(d, kind, K, is) = RunInstr(d, kind, K, is[i])
  BY <1>6, <1>7, <1>8, OneRuns, Zenon
<1> QED
  BY <1>5, <1>9 DEF is

\* The step of the top, in the words of the simulator.
LEMMA TopStepMeans ==
    ASSUME NEW d \in Designs, NEW K, OneHot(d.top, K.s, K.in), NEW i \in TopOn(d, K.s, K.in)
    PROVE  /\ TopOn(d, K.s, K.in) = {i}
           /\ TopStep(d, StateOf(K), K.in) = Execute(d.top[i], StateOf(K))
<1> DEFINE on == TopOn(d, K.s, K.in)
<1>1. Cardinality(on) <= 1
  BY DEF OneHot, TopOn
<1>2. on \subseteq 1 .. Len(d.top) /\ Len(d.top) \in Nat /\ i \in 1 .. Len(d.top)
  BY ReadyMeans, TopFacts
<1>3. on = {i}
  BY <1>1, <1>2, AtMostOne
<1>4. Only(on) = i
  BY <1>2, <1>3, Singletons
<1>5. StateOf(K).s = K.s
  BY DEF StateOf
<1> QED
  BY <1>3, <1>4, <1>5 DEF TopStep

\* With internal memories the instructions of the top are a step of the top.
LEMMA TopsMean ==
    ASSUME NEW d \in Designs, NEW kind, kind # "ext", NEW K \in Kernels(d),
           OneHot(d.top, K.s, K.in), NoLaterInstr(d, StateOf(K), K.in)
    PROVE  LET L == RunAll(d, kind, K, TopOrder(d))
           IN  /\ L \in Kernels(d)
               /\ L.in = K.in /\ L.booted = K.booted /\ L.hung = K.hung
               /\ StateOf(L) = TopStep(d, StateOf(K), K.in)
<1> DEFINE on == TopOn(d, K.s, K.in)
           x == StateOf(K)
<1>1. x.s = K.s
  BY DEF StateOf
<1>2. CASE on = {}
  <2>1. RunAll(d, kind, K, TopOrder(d)) = K
    BY <1>2, TopsNone
  <2>2. TopStep(d, x, K.in) = x
    BY <1>1, <1>2 DEF TopStep
  <2> QED
    BY <2>1, <2>2
<1>3. CASE on # {}
  <2>1. PICK i \in on : TRUE
    BY <1>3
  <2>2. on = {i} /\ TopStep(d, x, K.in) = Execute(d.top[i], x)
    BY <2>1, TopStepMeans
  <2>3. i \in DOMAIN Instrs(d) /\ Instrs(d)[i] = d.top[i] /\ Ready(d, K, i)
    BY <2>1, TopFacts
  <2> DEFINE L == RunInstr(d, kind, K, i)
  <2>4. /\ L \in Kernels(d) /\ L.in = K.in /\ L.booted = K.booted /\ L.hung = K.hung
        /\ StateOf(L) = Execute(d.top[i], x)
    BY <2>3, RunInstrInternal
  <2>5. \A j \in TopOn(d, L.s, K.in) : j <= i
    <3> HIDE DEF L
    <3>1. TopStep(d, x, K.in).s = L.s
      BY <2>2, <2>4 DEF StateOf
    <3> QED
      BY <1>1, <2>1, <3>1 DEF NoLaterInstr
  <2>6. RunAll(d, kind, K, TopOrder(d)) = L
    <3> DEFINE M == L
    <3>1. M = RunInstr(d, kind, K, i) /\ M.in = K.in /\ \A j \in TopOn(d, M.s, K.in) : j <= i
      BY <2>4, <2>5
    <3> HIDE DEF M
    <3>2. RunAll(d, kind, K, TopOrder(d)) = M
      BY <2>2, <3>1, TopsOne, Zenon
    <3> QED
      BY <3>2 DEF M
  <2> QED
    BY <2>2, <2>4, <2>6
<1> QED
  BY <1>2, <1>3

-----------------------------------------------------------------------------
(* The run of a child.                                                      *)

States == [s : Regs, mem : Memories]

\* r is the run of the child from x, over n steps.
KidRun(d, x, in, n, r) ==
    /\ r \in [0 .. n -> States] /\ r[0] = x
    /\ \A m \in 1 .. n : r[m] = KidStep(d, r[m - 1], in)

\* A step of the child keeps registers and memory of the right sorts.
LEMMA KidStepTyped ==
    ASSUME NEW d \in Designs, NEW x \in States, NEW in
    PROVE  KidStep(d, x, in) \in States
<1> DEFINE on == KidOn(d, x.s, in)
           j == Only(on)
<1>1. CASE on = {}
  BY <1>1 DEF KidStep
<1>2. CASE on # {}
  <2>1. on \subseteq DOMAIN d.kid
    BY DEF KidOn, Enabled
  <2>2. j \in on
    BY <1>2 DEF Only
  <2> HIDE DEF j
  <2>3. d.kid[j] \in Instructions
    BY <2>1, <2>2, DesignFacts
  <2>4. Execute(d.kid[j], x) \in States
    BY <2>3, ExecuteTyped DEF States
  <2> QED
    BY <1>2, <2>4 DEF KidStep, j
<1> QED
  BY <1>1, <1>2

\* The child has a run of N steps, and ChildRun is its end.
LEMMA ChildRunMeans ==
    ASSUME NEW d \in Designs, NEW x \in States, NEW in, NEW N \in Nat
    PROVE  \E r : KidRun(d, x, in, N, r) /\ ChildRun(d, x, in, N) = r[N]
<1> DEFINE E(y) == KidStep(d, y, in)
           Rec(r) == r = [n \in 0 .. N |-> IF n = 0 THEN x ELSE E(r[n - 1])]
           F == [y \in (1 .. N) \X States |-> E(y[2])]
           q == CHOOSE r : Rec(r)
<1>1. \A y \in States : E(y) \in States
  BY KidStepTyped
<1>2. ChildRun(d, x, in, N) = q[N]
  BY DEF ChildRun
<1> HIDE DEF E
<1>3. F \in [(1 .. N) \X States -> States] /\ \A n \in 1 .. N, y \in States : F[<<n, y>>] = E(y)
  BY <1>1
<1> HIDE DEF F
<1>4. PICK r \in [0 .. N -> States] : RunsOf(F, x, N, r)
  BY <1>3, RecursionExists
<1>5. \A n \in 1 .. N : n - 1 \in 0 .. N
  OBVIOUS
<1>6. /\ r[0] = x /\ \A n \in 1 .. N : r[n] = E(r[n - 1])
  BY <1>3, <1>4, <1>5 DEF RunsOf
<1>7. Rec(r)
  <2>1. ASSUME NEW n \in 0 .. N, n # 0 PROVE r[n] = E(r[n - 1])
    <3>1. n \in 1 .. N
      BY <2>1
    <3> QED
      BY <1>6, <3>1
  <2> QED
    BY <1>4, <1>6, <2>1
<1>8. Rec(q)
  <2> HIDE DEF Rec
  <2> QED
    BY <1>7
<1> HIDE DEF q
<1>9. q[0] = x /\ DOMAIN q = 0 .. N /\ \A n \in 1 .. N : q[n] = E(q[n - 1])
  BY <1>5, <1>8
<1> DEFINE T == {n \in 0 .. N : q[n] = r[n]}
<1>10. 0 \in T /\ \A n \in 1 .. N : n - 1 \in T => n \in T
  BY <1>5, <1>6, <1>9
<1> HIDE DEF T
<1>11. N \in T
  BY <1>10, UpTo
<1>12. KidRun(d, x, in, N, r)
  BY <1>4, <1>6 DEF KidRun, E
<1> QED
  BY <1>2, <1>11, <1>12 DEF T

\* A step that changes nothing is the last.
LEMMA Stuck ==
    ASSUME NEW d, NEW x, NEW in, NEW N \in Nat, NEW r, KidRun(d, x, in, N, r),
           NEW c \in 0 .. N, KidStep(d, r[c], in) = r[c]
    PROVE  r[N] = r[c]
<1> DEFINE T == {n \in 0 .. N : n >= c => r[n] = r[c]}
<1>1. 0 \in T
  OBVIOUS
<1>2. ASSUME NEW n \in 1 .. N, n - 1 \in T PROVE n \in T
  <2>1. CASE n <= c
    BY <2>1
  <2>2. CASE n > c
    BY <1>2, <2>2 DEF KidRun
  <2> QED
    BY <2>1, <2>2
<1> HIDE DEF T
<1>3. N \in T
  BY <1>1, <1>2, UpTo
<1> QED
  BY <1>3 DEF T

\* One pass over the instructions of the child.
Started(K) == [K EXCEPT !.fired = 0]

\* A pass is the run of the instructions of the child with the count cleared.
LEMMA PassRuns ==
    ASSUME NEW d \in Designs, NEW kind, NEW K \in Kernels(d)
    PROVE  \E p : /\ RunFrom(d, kind, Started(K), KidOrder(d), p)
                  /\ OnePass(d, kind, K) = p[Len(d.kid)]
<1> DEFINE M == Started(K)
           is == KidOrder(d)
<1>1. M \in Kernels(d)
  BY DEF Kernels, Started
<1>2. OnePass(d, kind, K) = RunAll(d, kind, M, is)
  BY DEF OnePass, Started
<1>3. is \in Seq(DOMAIN Instrs(d)) /\ Len(is) = Len(d.kid)
  BY OrderFacts
<1> HIDE DEF M, is
<1>4. PICK p : RunFrom(d, kind, M, is, p) /\ RunAll(d, kind, M, is) = p[Len(is)]
  BY <1>1, <1>3, RunAllMeans, Zenon
<1>5. RunFrom(d, kind, M, is, p) /\ OnePass(d, kind, K) = p[Len(d.kid)]
  BY <1>2, <1>3, <1>4
<1> QED
  BY <1>5 DEF M, is

\* A pass keeps a simulator of the right sort, its inputs and its flags.
LEMMA PassTyped ==
    ASSUME NEW d \in Designs, NEW kind, NEW K \in Kernels(d)
    PROVE  /\ Started(K) \in Kernels(d)
           /\ OnePass(d, kind, K) \in Kernels(d)
           /\ OnePass(d, kind, K).in = K.in /\ OnePass(d, kind, K).booted = K.booted
           /\ OnePass(d, kind, K).hung = K.hung
<1> DEFINE M == Started(K)
           is == KidOrder(d)
           L == OnePass(d, kind, K)
<1>1. /\ M \in Kernels(d) /\ M.in = K.in /\ M.booted = K.booted /\ M.hung = K.hung
  BY DEF Kernels, Started
<1>2. PICK p : RunFrom(d, kind, M, is, p) /\ L = p[Len(d.kid)]
  BY PassRuns, Zenon
<1>3. Len(is) = Len(d.kid) /\ Len(is) \in 0 .. Len(is)
  BY OrderFacts
<1> HIDE DEF M, is, L
<1>4. L \in Kernels(d) /\ L.in = M.in /\ L.booted = M.booted /\ L.hung = M.hung
  BY <1>2, <1>3 DEF RunFrom
<1> QED
  BY <1>1, <1>4 DEF M, L

\* Where one instruction of the child decodes at most, that one is its step.
LEMMA KidStepMeans ==
    ASSUME NEW d \in Designs, NEW in, NEW x, NEW n, x.s \in Regs, OneHot(d.kid, x.s, in),
           n \in KidOn(d, x.s, in)
    PROVE  /\ n \in 1 .. Len(d.kid) /\ KidOn(d, x.s, in) = {n}
           /\ KidStep(d, x, in) = Execute(d.kid[n], x)
<1> DEFINE on == KidOn(d, x.s, in)
<1>1. on = {n} /\ n \in 1 .. Len(d.kid)
  <2>1. Len(d.kid) \in Nat /\ on \subseteq 1 .. Len(d.kid)
    BY InstrsFacts DEF KidOn, Enabled
  <2>2. Cardinality(on) <= 1
    BY DEF KidOn, OneHot
  <2>3. n \in on
    OBVIOUS
  <2> HIDE DEF on
  <2> QED
    BY <2>1, <2>2, <2>3, AtMostOne
<1>2. Only(on) = n
  BY <1>1, Singletons
<1> QED
  BY <1>1, <1>2 DEF KidStep

\* The child touches the memory only where the memory is internal.
PlainKids(d, kind) == \A j \in DOMAIN d.kid : Plain(kind, d.kid[j])

\* An instruction of the child, as an instruction of the simulator.
LEMMA KidFacts ==
    ASSUME NEW d \in Designs, NEW kind, PlainKids(d, kind), NEW n \in 1 .. Len(d.kid)
    PROVE  /\ Len(d.top) + n \in DOMAIN Instrs(d) /\ Instrs(d)[Len(d.top) + n] = d.kid[n]
           /\ Plain(kind, Instrs(d)[Len(d.top) + n])
<1> DEFINE t == Len(d.top)
           q == Len(d.kid)
<1>1. DOMAIN Instrs(d) = 1 .. t + q /\ t \in Nat /\ q \in Nat /\ DOMAIN d.kid = 1 .. q
  BY InstrsFacts, Zenon
<1>2. Instrs(d)[t + n] = d.kid[n]
  BY InstrsFacts, Zenon
<1>3. n \in 1 .. q
  OBVIOUS
<1> HIDE DEF t, q
<1>4. t + n \in 1 .. t + q
  BY <1>1, <1>3
<1>5. Plain(kind, d.kid[n])
  BY <1>1, <1>3 DEF PlainKids
<1> QED
  BY <1>1, <1>2, <1>4, <1>5 DEF t

\* An instruction of the child that decodes makes its step.
LEMMA KidInstr ==
    ASSUME NEW d \in Designs, NEW kind, PlainKids(d, kind), NEW J \in Kernels(d), NEW n,
           OneHot(d.kid, J.s, J.in), n \in KidOn(d, J.s, J.in)
    PROVE  StateOf(RunInstr(d, kind, J, Len(d.top) + n)) = KidStep(d, StateOf(J), J.in)
<1> DEFINE i == Len(d.top) + n
           x == StateOf(J)
<1>1. /\ x.s = J.s /\ x.s \in Regs
      /\ OneHot(d.kid, x.s, J.in) /\ n \in KidOn(d, x.s, J.in)
  BY DEF StateOf, Kernels
<1>2. n \in 1 .. Len(d.kid) /\ KidStep(d, x, J.in) = Execute(d.kid[n], x)
  <2> DEFINE in == J.in
  <2> HIDE DEF x, in
  <2>1. n \in 1 .. Len(d.kid) /\ KidStep(d, x, in) = Execute(d.kid[n], x)
    BY <1>1, KidStepMeans DEF in
  <2> QED
    BY <2>1 DEF in
<1>3. Ready(d, J, i)
  BY <1>2, ReadyMeans, Zenon
<1>4. i \in DOMAIN Instrs(d) /\ Instrs(d)[i] = d.kid[n] /\ Plain(kind, Instrs(d)[i])
  BY <1>2, KidFacts, Zenon
<1> HIDE DEF i, x
<1>5. StateOf(RunInstr(d, kind, J, i)) = Execute(d.kid[n], StateOf(J))
  BY <1>3, <1>4, RunInstrPlain
<1> QED
  BY <1>2, <1>5 DEF i, x

\* The run of the child ends, and an instruction at most decodes in every state.
Ends(d, x, in, N, r) ==
    /\ KidRun(d, x, in, N, r) /\ KidOn(d, r[N].s, in) = {}
    /\ \A s \in Regs : OneHot(d.kid, s, in)

\* L has executed nothing and is where the run ends, or is after step n of the run.
Ahead(L, r, n, N) ==
    /\ L.fired = 0 => StateOf(L) = r[N]
    /\ L.fired # 0 => \E e \in n + 1 .. N : StateOf(L) = r[e]

\* A pass leaves the child where its run is later, and executes nothing exactly
\* when no instruction of the child decodes.
LEMMA PassMeans ==
    ASSUME NEW d \in Designs, NEW kind, PlainKids(d, kind), NEW K \in Kernels(d), NEW x,
           NEW N \in Nat, NEW r, Ends(d, x, K.in, N, r), NEW c \in 0 .. N, StateOf(K) = r[c]
    PROVE  Ahead(OnePass(d, kind, K), r, c, N)
<1>0. /\ KidRun(d, x, K.in, N, r) /\ KidOn(d, r[N].s, K.in) = {}
      /\ \A s \in Regs : OneHot(d.kid, s, K.in)
  BY DEF Ends
<1> USE <1>0
<1> DEFINE L == OnePass(d, kind, K)
<1> DEFINE on == KidOn(d, K.s, K.in)
           is == KidOrder(d)
           q == Len(d.kid)
           t == Len(d.top)
           M == Started(K)
<1>1. /\ M \in Kernels(d) /\ M.in = K.in /\ M.s = K.s /\ StateOf(M) = StateOf(K)
      /\ M.fired = 0
  <2>1. M.in = K.in /\ M.s = K.s /\ M.mem = K.mem /\ M.fired = 0
    BY DEF Kernels, Started
  <2> QED
    BY <2>1, PassTyped DEF StateOf
<1>2. /\ is \in Seq(DOMAIN Instrs(d)) /\ Len(is) = q /\ \A n \in 1 .. q : is[n] = t + n
      /\ q \in Nat
  <2>1. Len(is) \in Nat
    BY OrderFacts
  <2> QED
    BY <2>1, OrderFacts, Zenon
<1>3. PICK p : RunFrom(d, kind, M, is, p) /\ L = p[q]
  <2>1. PICK p : /\ RunFrom(d, kind, Started(K), KidOrder(d), p)
                 /\ OnePass(d, kind, K) = p[Len(d.kid)]
    BY PassRuns, Zenon
  <2> QED
    BY <2>1
<1>4. L = RunAll(d, kind, M, is)
  BY DEF OnePass, Started
<1>5. \A n \in 1 .. q : Ready(d, M, t + n) <=> n \in on
  BY <1>1, ReadyMeans, Zenon
<1>6. on \subseteq 1 .. q
  BY ReadyMeans, Zenon
<1>7. r[c].s = K.s
  BY DEF StateOf
<1>8. CASE on = {}
  <2>1. \A n \in 1 .. Len(is) : ~ Ready(d, M, is[n])
    BY <1>2, <1>5, <1>8
  <2> HIDE DEF M, is, L
  <2>2. L = M
    BY <1>1, <1>2, <1>4, <2>1, NoneRunsAll
  <2>3. KidStep(d, r[c], K.in) = r[c]
    BY <1>7, <1>8 DEF KidStep
  <2>4. r[N] = r[c]
    BY <2>3, Stuck
  <2> QED
    BY <1>1, <2>2, <2>4 DEF Ahead, L
<1>9. CASE on # {}
  <2>1. PICK i : i \in on
    BY <1>9
  <2> DEFINE in == K.in
             J(n) == p[n - 1]
             Later(n) == /\ n < i => StateOf(p[n]) = r[c]
                         /\ n >= i => \E e \in c + 1 .. N : StateOf(p[n]) = r[e]
                         /\ n >= i /\ p[n].fired = 0 => r[c + 1] = r[c]
             T == {n \in 0 .. q : Later(n)}
  <2>2. /\ i \in 1 .. q /\ on = {i} /\ c # N
    <3>1. r[c].s \in Regs
      BY <1>7 DEF Kernels
    <3>2. i \in on /\ OneHot(d.kid, r[c].s, K.in) /\ on = KidOn(d, r[c].s, K.in)
      BY <1>7, <2>1, <3>1
    <3>3. i \in 1 .. Len(d.kid) /\ on = {i}
      BY <3>1, <3>2, KidStepMeans, Zenon
    <3>4. c # N
      BY <1>7, <1>9
    <3> QED
      BY <3>3, <3>4
  <2>3. ASSUME NEW n \in 0 .. q
        PROVE  p[n] \in Kernels(d) /\ p[n].in = K.in
    BY <1>1, <1>2, <1>3, <2>3 DEF RunFrom
  <2>4. ASSUME NEW n \in 1 .. q
        PROVE  /\ p[n] = RunInstr(d, kind, J(n), t + n)
               /\ p[n].fired = J(n).fired \/ p[n].fired = J(n).fired + 1
               /\ J(n) \in Kernels(d) /\ J(n).in = K.in /\ J(n).fired \in Nat
               /\ p[n].fired = J(n).fired => StateOf(p[n]) = StateOf(J(n))
    <3>1. /\ n \in 1 .. Len(is) /\ n - 1 \in 0 .. q /\ is[n] = t + n
          /\ t + n \in DOMAIN Instrs(d) /\ Plain(kind, Instrs(d)[t + n])
      BY <1>2, KidFacts
    <3>2. /\ p[n] = RunInstr(d, kind, J(n), t + n)
          /\ p[n].fired = J(n).fired \/ p[n].fired = J(n).fired + 1
      BY <1>3, <3>1 DEF RunFrom
    <3>3. J(n) \in Kernels(d) /\ J(n).in = K.in /\ t + n \in DOMAIN Instrs(d)
      BY <2>3, <3>1
    <3>4. J(n).fired \in Nat
      BY <3>3 DEF Kernels
    <3> HIDE DEF J
    <3>5. p[n].fired = J(n).fired => StateOf(p[n]) = StateOf(J(n))
      BY <3>1, <3>2, <3>3, RunInstrPlain
    <3> QED
      BY <3>2, <3>3, <3>4, <3>5
  <2>5. 0 \in T
    BY <1>1, <1>2, <1>3, <2>2 DEF RunFrom
  <2>6. ASSUME NEW n \in 1 .. q, n - 1 \in T PROVE n \in T
    <3> DEFINE I == J(n)
               L2 == p[n]
    <3>1. /\ L2 = RunInstr(d, kind, I, t + n)
          /\ L2.fired = I.fired \/ L2.fired = I.fired + 1
          /\ I \in Kernels(d) /\ I.in = K.in /\ I.fired \in Nat
          /\ L2.fired = I.fired => StateOf(L2) = StateOf(I)
      BY <2>4
    <3>2. /\ n - 1 < i => StateOf(I) = r[c]
          /\ n - 1 >= i => \E e \in c + 1 .. N : StateOf(I) = r[e]
          /\ n - 1 >= i /\ I.fired = 0 => r[c + 1] = r[c]
      BY <2>6
    <3> HIDE DEF I, L2
    <3>3. n \notin KidOn(d, I.s, I.in) => L2 = I
      BY <3>1, ReadyMeans, NotReadyKept
    <3>4. ASSUME NEW e \in 0 .. N, StateOf(I) = r[e], n \in KidOn(d, I.s, I.in)
          PROVE  e + 1 \in 0 .. N /\ StateOf(L2) = r[e + 1]
      <4>1. I.s \in Regs /\ r[e].s = I.s
        BY <3>1, <3>4 DEF Kernels, StateOf
      <4>2. e + 1 \in 1 .. N /\ (e + 1) - 1 = e
        <5>1. KidOn(d, r[e].s, K.in) # {}
          BY <3>1, <3>4, <4>1, Zenon
        <5>2. e # N
          BY <1>0, <5>1, Zenon
        <5> HIDE <1>0
        <5> QED
          BY <3>4, <5>2
      <4>3. r[e + 1] = KidStep(d, r[e], K.in)
        BY <4>2 DEF KidRun
      <4>4. StateOf(L2) = KidStep(d, StateOf(I), I.in)
        <5>1. OneHot(d.kid, I.s, I.in)
          BY <3>1, <4>1
        <5> QED
          BY <3>1, <3>4, <5>1, KidInstr
      <4> QED
        BY <3>1, <3>4, <4>2, <4>3, <4>4
    <3>5. CASE n < i
      <4>1. StateOf(I) = r[c]
        BY <3>2, <3>5, <2>2
      <4>2. I.s = K.s
        BY <1>7, <4>1 DEF StateOf
      <4>3. L2 = I
        BY <2>2, <3>1, <3>3, <3>5, <4>2
      <4> QED
        BY <2>2, <3>5, <4>1, <4>3 DEF L2
    <3>6. CASE n = i
      <4>1. StateOf(I) = r[c]
        BY <3>2, <3>6, <2>2
      <4>2. I.s = K.s
        BY <1>7, <4>1 DEF StateOf
      <4>3. c + 1 \in 0 .. N /\ StateOf(L2) = r[c + 1]
        BY <2>2, <3>1, <3>4, <3>6, <4>1, <4>2
      <4>4. L2.fired = 0 => r[c + 1] = r[c]
        BY <3>1, <4>1, <4>3
      <4>5. c + 1 \in c + 1 .. N
        BY <4>3
      <4> QED
        BY <2>2, <3>6, <4>3, <4>4, <4>5 DEF L2
    <3>7. CASE n > i
      <4>1. n - 1 >= i /\ n >= i /\ ~ (n < i)
        BY <2>2, <3>7
      <4>2. PICK e \in c + 1 .. N : StateOf(I) = r[e]
        BY <3>2, <4>1
      <4>3. e \in 0 .. N
        BY <4>2
      <4>4. \E f \in c + 1 .. N : StateOf(L2) = r[f]
        <5>1. CASE n \in KidOn(d, I.s, I.in)
          <6>1. e + 1 \in c + 1 .. N /\ StateOf(L2) = r[e + 1]
            BY <3>4, <4>2, <4>3, <5>1
          <6> QED
            BY <6>1
        <5>2. CASE n \notin KidOn(d, I.s, I.in)
          BY <3>3, <4>2, <5>2
        <5> QED
          BY <5>1, <5>2
      <4>5. L2.fired = 0 => r[c + 1] = r[c]
        BY <3>1, <3>2, <4>1
      <4> QED
        BY <4>1, <4>4, <4>5 DEF L2
    <3>8. Later(n)
      BY <3>5, <3>6, <3>7, <2>2
    <3> QED
      BY <1>2, <3>8
  <2> HIDE DEF T
  <2>7. q \in T
    <3>1. q \in Nat
      BY <1>2
    <3> HIDE DEF q
    <3>2. \A n \in 0 .. q : n \in T
      BY <3>1, <2>5, <2>6, UpTo
    <3> QED
      BY <3>1, <3>2
  <2>8. Later(q)
    BY <2>7 DEF T
  <2>9. r[c + 1] # r[c]
    <3> SUFFICES ASSUME r[c + 1] = r[c] PROVE FALSE
      OBVIOUS
    <3>1. c + 1 \in 1 .. N /\ (c + 1) - 1 = c
      BY <2>2
    <3>2. KidStep(d, r[c], K.in) = r[c]
      BY <3>1 DEF KidRun
    <3>3. r[N] = r[c]
      BY <3>2, Stuck
    <3> QED
      BY <1>7, <1>9, <3>3
  <2> QED
    BY <1>2, <1>3, <2>2, <2>8, <2>9 DEF Ahead
<1> QED
  BY <1>8, <1>9

\* A pass over a child that leaves the memory alone keeps the bookkeeping.
LEMMA PassKeeps ==
    ASSUME NEW d \in Designs, NEW kind, PlainKids(d, kind), NEW K \in Kernels(d)
    PROVE  Book(OnePass(d, kind, K)) = Book(K)
<1> DEFINE is == KidOrder(d)
           q == Len(d.kid)
           M == Started(K)
<1>1. PICK p : RunFrom(d, kind, M, is, p) /\ OnePass(d, kind, K) = p[q]
  BY PassRuns, Zenon
<1>2. Len(is) = q /\ \A n \in 1 .. q : is[n] = Len(d.top) + n
  BY OrderFacts, Zenon
<1>3. q \in Nat
  BY InstrsFacts
<1>4. Book(M) = Book(K)
  BY DEF Book, Started, Kernels
<1>5. \A n \in 1 .. q : is[n] \in DOMAIN Instrs(d) /\ Plain(kind, Instrs(d)[is[n]])
  BY <1>2, KidFacts
<1> DEFINE T == {n \in 0 .. q : Book(p[n]) = Book(K)}
<1> HIDE DEF is, q, M
<1>6. 0 \in T
  BY <1>1, <1>3, <1>4 DEF RunFrom
<1>7. ASSUME NEW n \in 1 .. q, n - 1 \in T PROVE n \in T
  <2> DEFINE J == p[n - 1]
  <2>1. /\ n - 1 \in 0 .. q /\ J \in Kernels(d) /\ p[n] = RunInstr(d, kind, J, is[n])
        /\ Book(J) = Book(K)
    BY <1>1, <1>2, <1>3, <1>7 DEF RunFrom
  <2> HIDE DEF J
  <2>2. Book(p[n]) = Book(J)
    BY <1>5, <2>1, RunInstrPlain
  <2> QED
    BY <1>3, <2>1, <2>2
<1> HIDE DEF T
<1>8. \A n \in 0 .. q : n \in T
  BY <1>3, <1>6, <1>7, UpTo
<1>9. Book(p[q]) = Book(K)
  BY <1>3, <1>8 DEF T
<1> QED
  BY <1>1, <1>9

\* L is K after code that reached the state x.
After(d, K, x, L) ==
    /\ L \in Kernels(d) /\ L.in = K.in /\ L.booted = K.booted /\ L.hung = K.hung
    /\ StateOf(L) = x

\* The loop over the instructions of the child ends where the run of the child
\* ends, and not at its bound.
LEMMA LoopMeans ==
    ASSUME NEW d \in Designs, NEW kind, PlainKids(d, kind), NEW K \in Kernels(d), NEW N \in Nat,
           NEW r, Ends(d, StateOf(K), K.in, N, r)
    PROVE  /\ After(d, K, r[N], ChildLoop(d, kind, K, N))
           /\ Book(ChildLoop(d, kind, K, N)) = Book(K)
<1> DEFINE S == Kernels(d)
           One(J) == OnePass(d, kind, J)
           E(J) == IF J.fired = 0 THEN J ELSE One(J)
           base == One(K)
           Rec(f) == f = [n \in 0 .. N |-> IF n = 0 THEN base ELSE E(f[n - 1])]
           F == [x \in (1 .. N) \X S |-> E(x[2])]
           q == CHOOSE f : Rec(f)
<1> DEFINE L == ChildLoop(d, kind, K, N)
<1>0. L = IF q[N].fired = 0 THEN q[N] ELSE [q[N] EXCEPT !.hung = TRUE, !.fired = 0]
  BY DEF ChildLoop, L
<1>2. \A J \in S : /\ One(J) \in S /\ One(J).in = J.in /\ One(J).booted = J.booted
                   /\ One(J).hung = J.hung /\ Book(One(J)) = Book(J)
  BY PassTyped, PassKeeps
<1>3. ASSUME NEW J \in S, J.in = K.in, NEW c \in 0 .. N, StateOf(J) = r[c]
      PROVE  Ahead(One(J), r, c, N)
  <2> DEFINE x == StateOf(K)
  <2>1. Ends(d, x, J.in, N, r)
    BY <1>3
  <2> HIDE DEF x
  <2> QED
    BY <1>3, <2>1, PassMeans
<1> HIDE DEF One
<1>4. /\ q[0] = base /\ \A n \in 1 .. N : q[n] = E(q[n - 1])
  <2> HIDE DEF S, E
  <2>1. \A J \in S : E(J) \in S
    BY <1>2 DEF E
  <2>2. F \in [(1 .. N) \X S -> S] /\ \A n \in 1 .. N, J \in S : F[<<n, J>>] = E(J)
    BY <2>1
  <2>3. base \in S
    BY <1>2 DEF S
  <2> HIDE DEF F, base
  <2>4. PICK f \in [0 .. N -> S] : RunsOf(F, base, N, f)
    BY <2>2, <2>3, RecursionExists
  <2>5. \A n \in 1 .. N : n - 1 \in 0 .. N
    OBVIOUS
  <2>6. /\ f[0] = base /\ \A n \in 1 .. N : f[n] = E(f[n - 1])
    BY <2>2, <2>4, <2>5 DEF RunsOf
  <2>7. Rec(f)
    <3>1. ASSUME NEW n \in 0 .. N, n # 0 PROVE f[n] = E(f[n - 1])
      <4>1. n \in 1 .. N
        BY <3>1
      <4> QED
        BY <2>6, <4>1
    <3> QED
      BY <2>4, <2>6, <3>1
  <2>8. Rec(q)
    <3> HIDE DEF Rec
    <3> QED
      BY <2>7
  <2> HIDE DEF q
  <2> QED
    BY <2>5, <2>8
<1> HIDE DEF q, base
<1> DEFINE Good(J, n) == /\ J \in S /\ J.in = K.in /\ J.booted = K.booted /\ J.hung = K.hung
                         /\ Ahead(J, r, n, N) /\ Book(J) = Book(K)
           T == {n \in 0 .. N : Good(q[n], n)}
<1>5. 0 \in T
  <2>1. r[0] = StateOf(K) /\ 0 \in 0 .. N /\ K \in S
    BY DEF Ends, KidRun
  <2> HIDE DEF S
  <2>2. Ahead(base, r, 0, N)
    BY <1>3, <2>1 DEF base
  <2>3. /\ base \in S /\ base.in = K.in /\ base.booted = K.booted /\ base.hung = K.hung
        /\ Book(base) = Book(K)
    BY <1>2, <2>1 DEF base
  <2> QED
    BY <1>4, <2>1, <2>2, <2>3
<1>6. ASSUME NEW n \in 1 .. N, n - 1 \in T PROVE n \in T
  <2> HIDE DEF S
  <2> DEFINE J == q[n - 1]
  <2>1. Good(J, n - 1) /\ q[n] = E(J)
    BY <1>4, <1>6
  <2> HIDE DEF J
  <2>2. CASE J.fired = 0
    BY <2>1, <2>2 DEF Ahead
  <2>3. CASE J.fired # 0
    <3>1. PICK c \in n .. N : StateOf(J) = r[c]
      BY <2>1, <2>3 DEF Ahead
    <3>2. /\ c \in 0 .. N /\ J \in S /\ J.in = K.in /\ J.booted = K.booted /\ J.hung = K.hung
          /\ Book(J) = Book(K)
      BY <2>1, <3>1
    <3> DEFINE H == One(J)
    <3>3. /\ H \in S /\ H.in = J.in /\ H.booted = J.booted /\ H.hung = J.hung /\ q[n] = H
          /\ Book(H) = Book(J)
      BY <1>2, <2>1, <2>3, <3>2
    <3>4. Ahead(H, r, c, N)
      BY <1>3, <3>1, <3>2
    <3> HIDE DEF H
    <3>5. \A e \in c + 1 .. N : e \in n + 1 .. N
      BY <3>1
    <3>6. Good(H, n)
      BY <3>2, <3>3, <3>4, <3>5 DEF Ahead
    <3> QED
      BY <3>3, <3>6
  <2> QED
    BY <2>2, <2>3
<1>7. N \in T
  <2> HIDE DEF T
  <2>1. \A n \in 0 .. N : n \in T
    BY <1>5, <1>6, UpTo
  <2> QED
    BY <2>1
<1>8. Good(q[N], N) /\ q[N].fired = 0
  BY <1>7 DEF Ahead
<1> QED
  BY <1>0, <1>8 DEF Ahead, After

-----------------------------------------------------------------------------
(* compute() with internal memories.                                        *)

\* The initial condition of the child, on a simulator and on a state of the ILA.
LEMMA StartTyped ==
    ASSUME NEW d \in Designs, NEW K \in Kernels(d)
    PROVE  /\ StartChild(d, K) \in Kernels(d) /\ StartChild(d, K).in = K.in
           /\ StartChild(d, K).booted = K.booted /\ StartChild(d, K).hung = K.hung
           /\ StateOf(StartChild(d, K)) = StartChild(d, StateOf(K))
<1> DEFINE s2 == <<K.s[1], 0>>
           M == [K EXCEPT !.s = s2]
           x == StateOf(K)
<1>1. K.s \in Regs /\ s2 \in Regs
  BY DesignAssumption DEF Kernels, Regs
<1>2. StartChild(d, K) = IF d.init THEN M ELSE K
  BY DEF StartChild
<1>3. StartChild(d, x) = IF d.init THEN [x EXCEPT !.s = s2] ELSE x
  BY DEF StartChild, StateOf
<1> HIDE DEF s2
<1>4. /\ M \in Kernels(d) /\ M.in = K.in /\ M.booted = K.booted /\ M.hung = K.hung
      /\ M.s = s2 /\ M.mem = K.mem
  BY <1>1 DEF Kernels
<1>5. StateOf(M) = [x EXCEPT !.s = s2]
  BY <1>4 DEF StateOf
<1> HIDE DEF M, x
<1>6. CASE d.init
  BY <1>2, <1>3, <1>4, <1>5, <1>6 DEF x
<1>7. CASE ~ d.init
  BY <1>2, <1>3, <1>7 DEF x
<1> QED
  BY <1>6, <1>7

\* The state that a simulator holds.
LEMMA StateTyped ==
    ASSUME NEW d, NEW K \in Kernels(d)
    PROVE  /\ StateOf(K) \in States /\ StateOf(K).s = K.s /\ StateOf(K).mem = K.mem
BY DEF Kernels, StateOf, States

\* Where the child starts.
ChildStart(d, kind, y) == IF kind # "ilator" /\ y.s \in d.kvalid THEN StartChild(d, y) ELSE y

\* execute_init starts the child of the simulator as the ILA does.
LEMMA InitMeans ==
    ASSUME NEW d \in Designs, NEW kind, NEW K \in Kernels(d), NEW L, L = InitChild(d, kind, K)
    PROVE  /\ L \in Kernels(d) /\ L.in = K.in /\ L.booted = K.booted /\ L.hung = K.hung
           /\ StateOf(L) = ChildStart(d, kind, StateOf(K))
<1>1. StateOf(K).s = K.s
  BY StateTyped
<1>2. CASE kind # "ilator" /\ K.s \in d.kvalid
  <2>1. L = StartChild(d, K) /\ ChildStart(d, kind, StateOf(K)) = StartChild(d, StateOf(K))
    BY <1>1, <1>2 DEF InitChild, ChildStart
  <2> QED
    BY <2>1, StartTyped
<1>3. CASE ~ (kind # "ilator" /\ K.s \in d.kvalid)
  <2>1. L = K /\ ChildStart(d, kind, StateOf(K)) = StateOf(K)
    BY <1>1, <1>3 DEF InitChild, ChildStart
  <2> QED
    BY <2>1
<1> QED
  BY <1>2, <1>3

\* The instructions of the top, the start of the child and its loop are a step.
LEMMA BodyMeans ==
    ASSUME NEW d \in Designs, NEW kind, kind # "ext", NEW K \in Kernels(d), NEW N \in Nat,
           OneHot(d.top, K.s, K.in), NoLaterInstr(d, StateOf(K), K.in),
           \A s \in Regs : OneHot(d.kid, s, K.in),
           NEW z, z = ChildStart(d, kind, TopStep(d, StateOf(K), K.in)),
           KidOn(d, ChildRun(d, z, K.in, N).s, K.in) = {}
    PROVE  After(d, K, ChildRun(d, z, K.in, N), RunBody(d, kind, K, N))
<1> DEFINE A == RunAll(d, kind, K, TopOrder(d))
           B == InitChild(d, kind, A)
<1>1. /\ A \in Kernels(d) /\ A.in = K.in /\ A.booted = K.booted /\ A.hung = K.hung
      /\ StateOf(A) = TopStep(d, StateOf(K), K.in)
  BY TopsMean
<1>2. RunBody(d, kind, K, N) = ChildLoop(d, kind, B, N)
  BY DEF RunBody
<1> HIDE DEF A
<1>3. /\ B \in Kernels(d) /\ B.in = K.in /\ B.booted = K.booted /\ B.hung = K.hung
      /\ StateOf(B) = z
  BY <1>1, InitMeans
<1> HIDE DEF B
<1>4. StateOf(B) \in States /\ B \in Kernels(d)
  BY <1>3, StateTyped
<1>5. PICK r : KidRun(d, z, K.in, N, r) /\ ChildRun(d, z, K.in, N) = r[N]
  BY <1>3, <1>4, ChildRunMeans
<1>6. Ends(d, StateOf(B), B.in, N, r) /\ PlainKids(d, kind)
  BY <1>3, <1>5 DEF Ends, PlainKids, Plain
<1>7. After(d, B, r[N], ChildLoop(d, kind, B, N))
  BY <1>4, <1>6, LoopMeans
<1> QED
  BY <1>2, <1>3, <1>5, <1>7 DEF After

\* The simulator when the instructions of a call begin.
Called(d, kind, K, in) == [Bootstrapped(d, kind, K) EXCEPT !.in = in]

\* What the first call initialises, and what it leaves alone.
LEMMA BootMeans ==
    ASSUME NEW d \in Designs, NEW kind, NEW K \in Kernels(d), NEW in \in Data,
           NEW L, L = Called(d, kind, K, in)
    PROVE  /\ L \in Kernels(d) /\ L.in = in /\ L.hung = K.hung
           /\ kind = "ilator" /\ ~ K.booted => StateOf(L) = StartChild(d, StateOf(K))
           /\ ~ (kind = "ilator" /\ ~ K.booted) =>
                /\ StateOf(L) = StateOf(K) /\ L.maps = K.maps /\ L.iter = K.iter
                /\ L.ctrl = K.ctrl /\ L.data = K.data
<1> DEFINE A == IF kind = "ilator" /\ ~ K.booted THEN StartChild(d, K) ELSE K
           B == [A EXCEPT !.booted = TRUE]
           C == [B EXCEPT !.in = in]
<1>1. L = C
  BY DEF Called, Bootstrapped
<1>2. A \in Kernels(d) /\ A.hung = K.hung
  BY StartTyped
<1>3. kind = "ilator" /\ ~ K.booted => StateOf(A) = StartChild(d, StateOf(K))
  BY StartTyped
<1>4. ~ (kind = "ilator" /\ ~ K.booted) => A = K
  OBVIOUS
<1> HIDE DEF A
<1>5. /\ B \in Kernels(d) /\ B.hung = A.hung /\ B.s = A.s /\ B.mem = A.mem
      /\ B.maps = A.maps /\ B.iter = A.iter /\ B.ctrl = A.ctrl /\ B.data = A.data
  BY <1>2 DEF Kernels
<1> HIDE DEF B
<1>6. /\ C \in Kernels(d) /\ C.hung = B.hung /\ C.s = B.s /\ C.mem = B.mem /\ C.in = in
      /\ C.maps = B.maps /\ C.iter = B.iter /\ C.ctrl = B.ctrl /\ C.data = B.data
  BY <1>5 DEF Kernels
<1> HIDE DEF C
<1>7. StateOf(C) = StateOf(A)
  BY <1>5, <1>6 DEF StateOf
<1> QED
  BY <1>1, <1>2, <1>3, <1>4, <1>5, <1>6, <1>7

\* A call of compute() is a step of the ILA, whenever the step is supported.
LEMMA ComputeMeans ==
    ASSUME NEW d \in Designs, NEW kind, kind # "ext", NEW K \in Kernels(d), NEW in \in Data,
           SupportedStep(d, kind, StateOf(K), ~ K.booted, in),
           NEW L, L = RunBody(d, kind, Called(d, kind, K, in), ChildBound)
    PROVE  /\ L \in Kernels(d) /\ L.hung = K.hung
           /\ StateOf(L) = IlaStep(d, kind, StateOf(K), ~ K.booted, in)
<1> DEFINE A == Called(d, kind, K, in)
           first == ~ K.booted
           x == StateOf(K)
           x0 == IF kind = "ilator" /\ first THEN StartChild(d, x) ELSE x
           z == ChildStart(d, kind, TopStep(d, x0, in))
<1>1. IlaStep(d, kind, x, first, in) = ChildRun(d, z, in, ChildBound)
  BY DEF IlaStep, ChildStart
<1>2. /\ OneHot(d.top, x0.s, in) /\ NoLaterInstr(d, x0, in)
      /\ \A s \in Regs : OneHot(d.kid, s, in)
      /\ KidOn(d, ChildRun(d, z, in, ChildBound).s, in) = {}
  BY <1>1 DEF SupportedStep, ChildEnds
<1>3. A \in Kernels(d) /\ A.in = in /\ A.hung = K.hung /\ StateOf(A) = x0
  <2>1. CASE kind = "ilator" /\ first
    BY <2>1, BootMeans
  <2>2. CASE ~ (kind = "ilator" /\ first)
    BY <2>2, BootMeans
  <2> QED
    BY <2>1, <2>2
<1> HIDE DEF A, x0
<1>4. A.s = x0.s
  BY <1>3, StateTyped
<1>5. After(d, A, ChildRun(d, z, A.in, ChildBound), RunBody(d, kind, A, ChildBound))
  <2>1. ChildBound \in Nat
    BY BoundsAssumption
  <2>2. z = ChildStart(d, kind, TopStep(d, StateOf(A), A.in))
    BY <1>3
  <2>3. /\ OneHot(d.top, A.s, A.in) /\ NoLaterInstr(d, StateOf(A), A.in)
        /\ \A s \in Regs : OneHot(d.kid, s, A.in)
        /\ KidOn(d, ChildRun(d, z, A.in, ChildBound).s, A.in) = {}
    BY <1>2, <1>3, <1>4
  <2> HIDE DEF z
  <2> QED
    BY <1>3, <2>1, <2>2, <2>3, BodyMeans
<1> QED
  BY <1>1, <1>3, <1>5 DEF After, A

-----------------------------------------------------------------------------
(* A child that leaves the memory alone runs the same whatever it holds.    *)

AtMem(x, m) == [s |-> x.s, mem |-> m]

\* A state with another memory.
LEMMA AtMemTyped ==
    ASSUME NEW x \in States, NEW m \in Memories
    PROVE  /\ AtMem(x, m) \in States /\ AtMem(x, m).s = x.s /\ AtMem(x, m).mem = m
           /\ AtMem(x, x.mem) = x
BY DEF AtMem, States

\* A step of such a child does the same whatever the memory holds ...
LEMMA KidStepPlain ==
    ASSUME NEW d \in Designs, PlainKids(d, "ext"), NEW x \in States, NEW m \in Memories, NEW in
    PROVE  KidStep(d, AtMem(x, m), in) = AtMem(KidStep(d, x, in), m)
<1> DEFINE y == AtMem(x, m)
           on == KidOn(d, x.s, in)
           i == Only(on)
           ins == d.kid[i]
<1>1. y.s = x.s /\ y.mem = m /\ x.s \in Regs /\ x.mem \in Memories
  BY DEF AtMem, States
<1>2. CASE on = {}
  <2>1. KidStep(d, y, in) = y /\ KidStep(d, x, in) = x
    BY <1>1, <1>2 DEF KidStep
  <2> QED
    BY <2>1
<1>3. CASE on # {}
  <2>1. KidStep(d, y, in) = Execute(ins, y) /\ KidStep(d, x, in) = Execute(ins, x)
    BY <1>1, <1>3 DEF KidStep
  <2>2. i \in DOMAIN d.kid
    <3>1. on \subseteq DOMAIN d.kid
      BY DEF KidOn, Enabled
    <3>2. i \in on
      BY <1>3 DEF Only
    <3> QED
      BY <3>1, <3>2
  <2> HIDE DEF i
  <2>3. ins.ld = NoLoad /\ ~ HasStore(ins)
    BY <2>2 DEF PlainKids, Plain
  <2>4. /\ StoresOf(ins, x.s) = <<>>
        /\ Updated(ins, x.s, LoadedData(ins, m)) = Updated(ins, x.s, LoadedData(ins, x.mem))
        /\ Stored(m, <<>>) = m
    BY <2>3, NothingStored DEF StoresOf, Updated
  <2> HIDE DEF y, ins
  <2>5. /\ Execute(ins, y).s = Execute(ins, x).s /\ Execute(ins, y).mem = m
        /\ Execute(ins, y) = [s |-> Execute(ins, y).s, mem |-> Execute(ins, y).mem]
    BY <1>1, <2>4 DEF Execute
  <2> QED
    BY <2>1, <2>5 DEF AtMem, y
<1> QED
  BY <1>2, <1>3

\* ... and so does its run.
LEMMA KidRunPlain ==
    ASSUME NEW d \in Designs, PlainKids(d, "ext"), NEW x \in States, NEW m \in Memories, NEW in,
           NEW N \in Nat
    PROVE  /\ ChildRun(d, x, in, N) \in States
           /\ ChildRun(d, AtMem(x, m), in, N) = AtMem(ChildRun(d, x, in, N), m)
<1> DEFINE y == AtMem(x, m)
<1>1. y \in States
  BY AtMemTyped
<1> HIDE DEF y
<1>2. PICK r : KidRun(d, x, in, N, r) /\ ChildRun(d, x, in, N) = r[N]
  BY ChildRunMeans
<1>3. PICK p : KidRun(d, y, in, N, p) /\ ChildRun(d, y, in, N) = p[N]
  BY <1>1, ChildRunMeans
<1> DEFINE T == {n \in 0 .. N : p[n] = AtMem(r[n], m)}
<1>4. 0 \in T
  BY <1>2, <1>3 DEF KidRun, y
<1>5. ASSUME NEW n \in 1 .. N, n - 1 \in T PROVE n \in T
  <2> DEFINE z == r[n - 1]
  <2>1. /\ z \in States /\ p[n - 1] = AtMem(z, m)
        /\ r[n] = KidStep(d, z, in) /\ p[n] = KidStep(d, p[n - 1], in)
    BY <1>2, <1>3, <1>5 DEF KidRun
  <2> HIDE DEF z
  <2>2. KidStep(d, AtMem(z, m), in) = AtMem(KidStep(d, z, in), m)
    BY <2>1, KidStepPlain
  <2> QED
    BY <2>1, <2>2
<1> HIDE DEF T
<1>6. N \in T
  BY <1>4, <1>5, UpTo
<1>7. r[N] \in States
  BY <1>2 DEF KidRun
<1> QED
  BY <1>2, <1>3, <1>6, <1>7 DEF T, y

-----------------------------------------------------------------------------
(* The rank of a number in a finite set.                                    *)

Below(S, a) == {b \in S : b < a}

\* The numbers of a set below one of them.
LEMMA BelowMeans ==
    ASSUME NEW S \in SUBSET Nat, NEW a \in S
    PROVE  /\ Below(S, a) \in SUBSET S /\ a \notin Below(S, a)
           /\ \A b : b \in Below(S, a) <=> b \in S /\ b < a
<1>1. a \in Nat
  OBVIOUS
<1>2. \A b : b \in Below(S, a) <=> b \in S /\ b < a
  BY DEF Below
<1>3. ~ (a < a)
  BY <1>1
<1> QED
  BY <1>2, <1>3

\* They are finitely many, and fewer than the set has.
LEMMA RankBounds ==
    ASSUME NEW S \in SUBSET Nat, IsFiniteSet(S), NEW a \in S
    PROVE  /\ Cardinality(S) \in Nat /\ Cardinality(Below(S, a)) \in Nat
           /\ IsFiniteSet(Below(S, a)) /\ Cardinality(Below(S, a)) < Cardinality(S)
<1>1. Below(S, a) \subseteq S \ {a}
  BY BelowMeans
<1>2. IsFiniteSet(S \ {a}) /\ Cardinality(S \ {a}) = Cardinality(S) - 1
  BY FS_RemoveElement
<1>3. Cardinality(S) \in Nat
  BY FS_CardinalityType
<1>4. /\ IsFiniteSet(Below(S, a)) /\ Cardinality(Below(S, a)) \in Nat
      /\ Cardinality(Below(S, a)) <= Cardinality(S \ {a})
  BY <1>1, <1>2, FS_Subset, FS_CardinalityType
<1> QED
  BY <1>2, <1>3, <1>4

\* A greater number has more of them below it ...
LEMMA RankOrder ==
    ASSUME NEW S \in SUBSET Nat, IsFiniteSet(S), NEW a \in S, NEW b \in S, a < b
    PROVE  Cardinality(Below(S, a)) < Cardinality(Below(S, b))
<1> DEFINE A == Below(S, a)
           B == Below(S, b)
<1>1. IsFiniteSet(B) /\ Cardinality(B) \in Nat /\ IsFiniteSet(A) /\ Cardinality(A) \in Nat
  BY RankBounds
<1>2. a \in B /\ A \subseteq B \ {a}
  <2>1. \A c \in S : c \in Nat
    OBVIOUS
  <2>2. ASSUME NEW c \in A PROVE c \in S /\ c < b /\ c # a
    <3>1. c \in S /\ c < a
      BY BelowMeans
    <3> QED
      BY <2>1, <3>1
  <2> QED
    BY <2>2, BelowMeans
<1> HIDE DEF A, B
<1>3. IsFiniteSet(B \ {a}) /\ Cardinality(B \ {a}) = Cardinality(B) - 1
  BY <1>1, <1>2, FS_RemoveElement
<1>4. Cardinality(A) <= Cardinality(B \ {a})
  BY <1>2, <1>3, FS_Subset
<1> QED
  BY <1>1, <1>3, <1>4 DEF A, B

\* ... and every rank below the size of the set is that of a number.
LEMMA RankExists ==
    ASSUME NEW S \in SUBSET Nat, IsFiniteSet(S), NEW n \in Nat, n < Cardinality(S)
    PROVE  \E a \in S : Cardinality(Below(S, a)) = n
<1>0. Cardinality(S) \in Nat
  BY FS_CardinalityType
<1> DEFINE T == {m \in 0 .. n : \E a \in S : Cardinality(Below(S, a)) = m}
<1>1. 0 \in T
  <2>1. S # {}
    BY <1>0, FS_EmptySet
  <2>2. PICK a \in S : \A b \in S : a <= b
    BY <2>1, LeastNumber
  <2>3. Below(S, a) = {}
    <3>1. \A b \in S : b \in Nat /\ a \in Nat /\ ~ (b < a)
      BY <2>2
    <3> QED
      BY <3>1, BelowMeans
  <2>4. Cardinality(Below(S, a)) = 0
    BY <2>3, FS_EmptySet
  <2> QED
    BY <2>4
<1>2. ASSUME NEW m \in 1 .. n, m - 1 \in T PROVE m \in T
  <2>1. PICK a \in S : Cardinality(Below(S, a)) = m - 1
    BY <1>2
  <2> DEFINE A == Below(S, a)
             U == {b \in S : a < b}
  <2>2. IsFiniteSet(A) /\ a \notin A /\ A \cup {a} \subseteq S
    <3>1. IsFiniteSet(A)
      BY RankBounds
    <3> QED
      BY <3>1, BelowMeans
  <2>3. Cardinality(A \cup {a}) = m
    <3> HIDE DEF A
    <3>1. Cardinality(A \cup {a}) = Cardinality(A) + 1
      BY <2>2, FS_AddElement
    <3> QED
      BY <2>1, <3>1 DEF A
  <2>4. U # {}
    <3> SUFFICES ASSUME U = {} PROVE FALSE
      OBVIOUS
    <3>1. \A b \in S : b \in Nat /\ a \in Nat /\ ~ (a < b)
      OBVIOUS
    <3>2. \A b \in S : b \in A \/ b = a
      BY <3>1, BelowMeans
    <3>3. S = A \cup {a}
      BY <2>2, <3>2
    <3> HIDE DEF A
    <3> QED
      BY <1>0, <2>3, <3>3
  <2>5. PICK b \in U : \A c \in U : b <= c
    <3>1. U \in SUBSET Nat
      OBVIOUS
    <3> HIDE DEF U
    <3> QED
      BY <2>4, <3>1, LeastNumber
  <2>6. Below(S, b) = A \cup {a}
    <3>1. \A c \in S : c \in Nat /\ a \in Nat /\ b \in Nat
      BY <2>5
    <3>2. \A c \in S : c < b => ~ (a < c)
      BY <2>5, <3>1
    <3>3. a \in S /\ b \in S /\ a < b
      BY <2>5
    <3>4. \A c \in S : c < b <=> c < a \/ c = a
      BY <3>1, <3>2, <3>3
    <3>5. \A c : c \in Below(S, b) <=> c \in A \cup {a}
      <4>1. \A c : c \in Below(S, b) <=> c \in S /\ c < b
        BY <3>3, BelowMeans
      <4>2. \A c : c \in A <=> c \in S /\ c < a
        BY BelowMeans
      <4> HIDE DEF A
      <4> QED
        BY <3>3, <3>4, <4>1, <4>2
    <3> QED
      BY <3>5
  <2> HIDE DEF A
  <2> QED
    BY <2>3, <2>5, <2>6
<1> HIDE DEF T
<1>3. \A m \in 0 .. n : m \in T
  BY <1>1, <1>2, UpTo
<1>4. n \in T
  BY <1>3
<1> QED
  BY <1>4 DEF T

-----------------------------------------------------------------------------
(* The stores that an external memory is owed.                              *)

Rank(m, a) == Cardinality(Below(DOMAIN m, a))

\* Committing what the maps hold to the memory of the simulator gives M; an entry
\* whose rank the counter has passed was sent.
Owed(d, K, M) ==
    /\ \A j \in Storing(d) : IsFiniteSet(DOMAIN K.maps[j])
    /\ \A j \in Storing(d) : DOMAIN K.maps[j] # {} => Storing(d) = {j}
    /\ \A j \in Storing(d) : \A a \in DOMAIN K.maps[j] :
         /\ M[a] = K.maps[j][a]
         /\ Rank(K.maps[j], a) < K.iter[j] => K.mem[a] = K.maps[j][a]
    /\ \A a \in Addrs : (\A j \in Storing(d) : a \notin DOMAIN K.maps[j]) => M[a] = K.mem[a]

\* The address is in no map, or its entry was sent.
Settled(d, K, a) ==
    \A j \in Storing(d) : a \in DOMAIN K.maps[j] => Rank(K.maps[j], a) < K.iter[j]

\* A store map has addresses and data of the right sorts.
LEMMA MapFacts ==
    ASSUME NEW d \in Designs, NEW K \in Kernels(d), NEW j \in Storing(d)
    PROVE  /\ j \in DOMAIN Instrs(d) /\ j \in Nat /\ K.iter[j] \in Nat
           /\ K.maps[j] \in StoreMaps
           /\ DOMAIN K.maps[j] \in SUBSET Addrs /\ DOMAIN K.maps[j] \in SUBSET Nat
           /\ \A a \in DOMAIN K.maps[j] : K.maps[j][a] \in Data
<1>1. j \in DOMAIN Instrs(d)
  BY DEF Storing
<1>2. j \in Nat
  <2>1. /\ DOMAIN Instrs(d) = 1 .. Len(d.top) + Len(d.kid)
        /\ Len(d.top) \in Nat /\ Len(d.kid) \in Nat
    BY InstrsFacts, Zenon
  <2> QED
    BY <1>1, <2>1
<1>3. K.iter[j] \in Nat /\ K.maps[j] \in StoreMaps
  BY <1>1 DEF Kernels
<1>4. \A m \in StoreMaps : DOMAIN m \in SUBSET Addrs /\ \A a \in DOMAIN m : m[a] \in Data
  BY DEF StoreMaps
<1>5. Addrs \subseteq Nat
  BY DesignAssumption
<1> QED
  BY <1>1, <1>2, <1>3, <1>4, <1>5

\* When no entry is unsent the memory is the one owed, and all is settled.
LEMMA OwedNone ==
    ASSUME NEW d \in Designs, NEW K \in Kernels(d), NEW M \in Memories, Owed(d, K, M),
           Unsent(d, K) = {}
    PROVE  M = K.mem /\ \A a \in Addrs : Settled(d, K, a)
<1>1. ASSUME NEW j \in Storing(d), NEW a \in DOMAIN K.maps[j]
      PROVE  Rank(K.maps[j], a) < K.iter[j]
  <2> DEFINE m == K.maps[j]
             D == DOMAIN m
  <2>1. D \in SUBSET Nat /\ K.iter[j] \in Nat /\ IsFiniteSet(D)
    BY MapFacts DEF Owed
  <2>2. ~ (K.iter[j] < Cardinality(D))
    BY DEF Unsent, MapSize
  <2>3. Cardinality(D) \in Nat /\ Rank(m, a) \in Nat /\ Rank(m, a) < Cardinality(D)
    BY <2>1, RankBounds DEF Rank
  <2> QED
    BY <2>1, <2>2, <2>3
<1>2. ASSUME NEW a \in Addrs PROVE M[a] = K.mem[a]
  BY <1>1 DEF Owed
<1>3. K.mem \in Memories
  BY DEF Kernels
<1> QED
  BY <1>1, <1>2, <1>3 DEF Memories, Settled

\* The n-th key of a map is the one of rank n.
LEMMA NthKeyMeans ==
    ASSUME NEW m, DOMAIN m \in SUBSET Nat, IsFiniteSet(DOMAIN m), NEW n \in Nat, n < MapSize(m)
    PROVE  /\ NthKey(m, n) \in DOMAIN m /\ Rank(m, NthKey(m, n)) = n
           /\ \A b \in DOMAIN m : Rank(m, b) = n => b = NthKey(m, n)
           /\ \A b \in DOMAIN m : Rank(m, b) < n + 1 => Rank(m, b) < n \/ b = NthKey(m, n)
<1> DEFINE D == DOMAIN m
           a == NthKey(m, n)
<1>1. \E x \in D : Rank(m, x) = n
  BY RankExists DEF Rank, MapSize
<1>2. a = CHOOSE x \in D : Rank(m, x) = n
  BY DEF NthKey, Rank, Below
<1>3. a \in D /\ Rank(m, a) = n
  BY <1>1, <1>2
<1> HIDE DEF a
<1>4. ASSUME NEW b \in D, Rank(m, b) = n PROVE b = a
  <2>1. a \in Nat /\ b \in Nat
    BY <1>3
  <2>2. ~ (a < b) /\ ~ (b < a)
    BY <1>3, <1>4, RankOrder, RankBounds DEF Rank
  <2> QED
    BY <2>1, <2>2
<1>5. \A b \in D : Rank(m, b) \in Nat
  BY RankBounds DEF Rank
<1> QED
  BY <1>3, <1>4, <1>5 DEF a

\* The simulator after the entry was sent.
Sent(d, K) ==
    [EntrySent(d, K) EXCEPT !.mem =
        [@ EXCEPT ![WriteRequest(d, K)[1]] = WriteRequest(d, K)[2]]]

\* An entry is owed no longer once it was sent; what was settled stays as it is.
LEMMA SendMeans ==
    ASSUME NEW d \in Designs, NEW K \in Kernels(d), NEW M \in Memories, Owed(d, K, M),
           Unsent(d, K) # {}, NEW L, L = Sent(d, K)
    PROVE  /\ L \in Kernels(d) /\ Owed(d, L, M)
           /\ L.s = K.s /\ L.in = K.in /\ L.booted = K.booted /\ L.hung = K.hung
           /\ L.maps = K.maps /\ L.ctrl = K.ctrl /\ L.data = K.data
           /\ \A a \in Addrs : Settled(d, K, a) => Settled(d, L, a) /\ L.mem[a] = K.mem[a]
<1>1. PICK i : i \in Unsent(d, K)
  OBVIOUS
<1>2. i \in Storing(d) /\ K.iter[i] < MapSize(K.maps[i])
  BY <1>1 DEF Unsent
<1> DEFINE m == K.maps[i]
           n == K.iter[i]
           D == DOMAIN m
           a == NthKey(m, n)
           it == [K.iter EXCEPT ![i] = n + 1]
           me == [K.mem EXCEPT ![a] = m[a]]
<1>3. /\ i \in DOMAIN Instrs(d) /\ i \in Nat /\ n \in Nat /\ D \in SUBSET Addrs /\ D \in SUBSET Nat
      /\ \A b \in D : m[b] \in Data
      /\ K.iter \in [DOMAIN Instrs(d) -> Nat] /\ K.mem \in [Addrs -> Data]
  BY <1>2, MapFacts DEF Kernels, Memories
<1>4. D # {}
  <2> SUFFICES ASSUME D = {} PROVE FALSE
    OBVIOUS
  <2>1. MapSize(m) = 0
    BY FS_EmptySet DEF MapSize
  <2> QED
    BY <1>2, <1>3, <2>1
<1>5. Storing(d) = {i} /\ IsFiniteSet(D)
  BY <1>2, <1>4 DEF Owed
<1>6. Unsent(d, K) = {i} /\ LeastOf(Unsent(d, K)) = i
  <2>1. Unsent(d, K) = {i}
    BY <1>1, <1>5 DEF Unsent
  <2> QED
    BY <1>3, <2>1, Singletons
<1>7. /\ a \in D /\ Rank(m, a) = n
      /\ \A b \in D : Rank(m, b) < n + 1 => Rank(m, b) < n \/ b = a
  BY <1>2, <1>3, <1>5, NthKeyMeans
<1>8. WriteRequest(d, K) = <<a, m[a]>>
  BY <1>6 DEF WriteRequest
<1> HIDE DEF a
<1>9. L = [K EXCEPT !.iter = it, !.mem = me]
  <2>1. EntrySent(d, K) = [K EXCEPT !.iter = it]
    BY <1>6 DEF EntrySent
  <2> HIDE DEF it
  <2>2. [K EXCEPT !.iter = it].mem = K.mem
    BY DEF Kernels
  <2> QED
    BY <1>8, <2>1, <2>2 DEF Sent
<1>10. it \in [DOMAIN Instrs(d) -> Nat] /\ me \in [Addrs -> Data]
  BY <1>3, <1>7
<1>11. /\ it[i] = n + 1 /\ me[a] = m[a] /\ \A b \in Addrs : b # a => me[b] = K.mem[b]
  BY <1>3, <1>7
<1> HIDE DEF it, me
<1>12. /\ L \in Kernels(d) /\ L.iter = it /\ L.mem = me
       /\ L.s = K.s /\ L.in = K.in /\ L.booted = K.booted /\ L.hung = K.hung
       /\ L.maps = K.maps /\ L.ctrl = K.ctrl /\ L.data = K.data
  BY <1>9, <1>10 DEF Kernels, Memories
<1>13. /\ \A b \in D : M[b] = m[b] /\ (Rank(m, b) < n => K.mem[b] = m[b])
       /\ \A b \in Addrs : b \notin D => M[b] = K.mem[b]
  BY <1>5 DEF Owed
<1>14. ASSUME NEW b \in D PROVE Rank(m, b) \in Nat
  BY <1>3, <1>5, RankBounds DEF Rank
<1>15. Owed(d, L, M)
  <2>1. \A b \in D : Rank(m, b) < it[i] => me[b] = m[b]
    BY <1>3, <1>7, <1>11, <1>13
  <2>2. \A b \in Addrs : b \notin D => M[b] = me[b]
    BY <1>7, <1>11, <1>13
  <2> QED
    BY <1>5, <1>12, <1>13, <2>1, <2>2 DEF Owed
<1>16. ASSUME NEW b \in Addrs, Settled(d, K, b) PROVE Settled(d, L, b) /\ L.mem[b] = K.mem[b]
  <2>1. b \in D => Rank(m, b) < n
    BY <1>5, <1>16 DEF Settled
  <2>2. b # a
    BY <1>3, <1>7, <2>1
  <2>3. b \in D => Rank(m, b) < it[i]
    BY <1>3, <1>11, <1>14, <2>1
  <2> QED
    BY <1>5, <1>11, <1>12, <2>2, <2>3 DEF Settled
<1> QED
  BY <1>12, <1>15, <1>16

-----------------------------------------------------------------------------
(* The runs of a simulator with internal memories.                          *)

\* As long as all steps were of a supported shape the simulator holds the state
\* of the ILA and never stays in its loop.
SimInv ==
    target.kind \in {"ilator", "sim"} /\ faithful =>
        k \in Kernels(design) /\ ~ k.hung /\ ref = StateOf(k)

\* The empty map, and the maps that a kernel starts with.
LEMMA EmptyMap == <<>> \in StoreMaps /\ DOMAIN <<>> = {}
<1>1. <<>> \in [{} -> Data]
  OBVIOUS
<1> QED
  BY <1>1 DEF StoreMaps

\* The simulator is constructed with empty maps and uninitialised control.
LEMMA KernelTyped ==
    ASSUME NEW d \in Designs, NEW s \in Regs, NEW junk \in {0, 1}, NEW m \in Memories,
           NEW K, K = Kernel(d, s, m, junk)
    PROVE  /\ K \in Kernels(d) /\ ~ K.hung /\ K.s = s /\ K.mem = m
           /\ \A j \in DOMAIN Instrs(d) : /\ K.maps[j] = <<>> /\ K.ctrl[j] = junk
<1> DEFINE D == DOMAIN Instrs(d)
<1>1. 0 \in Data /\ <<>> \in StoreMaps
  BY EmptyMap, DesignAssumption
<1>2. K = [s |-> s, mem |-> m, in |-> 0, booted |-> FALSE, hung |-> FALSE, fired |-> 0,
           maps |-> [i \in D |-> <<>>], iter |-> [i \in D |-> junk],
           ctrl |-> [i \in D |-> junk], data |-> [i \in D |-> 0]]
  BY DEF Kernel
<1> HIDE DEF D
<1>3. /\ [i \in D |-> <<>>] \in [D -> StoreMaps] /\ [i \in D |-> junk] \in [D -> Nat]
      /\ [i \in D |-> junk] \in [D -> 0 .. 2] /\ [i \in D |-> 0] \in [D -> Data]
  BY <1>1
<1>4. K \in Kernels(d)
  BY <1>1, <1>2, <1>3 DEF Kernels, D
<1> QED
  BY <1>2, <1>4 DEF D

\* What Init says of the kernel.
LEMMA InitKernel ==
    ASSUME Init
    PROVE  \E s \in Regs, junk \in {0, 1}, m \in Memories :
             /\ k = Kernel(design, s, m, junk) /\ ref = [s |-> s, mem |-> m]
             /\ faithful <=> junk = 0
<1>1. [a \in Addrs |-> 0] \in Memories
  BY DesignAssumption DEF Memories
<1> QED
  BY <1>1 DEF Init

\* The simulator starts in the state of the ILA.
LEMMA SimInit == Init => SimInv
<1> SUFFICES ASSUME Init PROVE SimInv
  OBVIOUS
<1>1. PICK s \in Regs, junk \in {0, 1}, m \in Memories :
        k = Kernel(design, s, m, junk) /\ ref = [s |-> s, mem |-> m]
  BY InitKernel, Zenon
<1>2. design \in Designs
  BY DEF Init
<1>3. k \in Kernels(design) /\ ~ k.hung /\ k.s = s /\ k.mem = m
  BY <1>1, <1>2, KernelTyped
<1> QED
  BY <1>1, <1>3 DEF SimInv, StateOf

\* A call of a supported shape keeps it there.
LEMMA SimStep == Setting /\ SimInv /\ [Next]_vars => SimInv'
<1> SUFFICES ASSUME Setting, SimInv, [Next]_vars, target.kind \in {"ilator", "sim"}, faithful'
             PROVE  SimInv'
  BY SettingStep DEF SimInv
<1>1. CASE UNCHANGED vars
  BY <1>1 DEF SimInv, vars, StateOf
<1>2. ASSUME NEW in \in Data, Compute(in) PROVE SimInv'
  <2> DEFINE L == RunBody(design, target.kind, Called(design, target.kind, k, in), ChildBound)
  <2>1. /\ k' = L /\ ref' = IlaStep(design, target.kind, ref, ~ k.booted, in)
        /\ faithful /\ SupportedStep(design, target.kind, ref, ~ k.booted, in)
    BY <1>2 DEF Compute, StartStep, Called
  <2>2. k \in Kernels(design) /\ ~ k.hung /\ ref = StateOf(k)
    BY <2>1 DEF SimInv
  <2>3. L \in Kernels(design) /\ L.hung = k.hung
        /\ StateOf(L) = IlaStep(design, target.kind, StateOf(k), ~ k.booted, in)
    BY <2>1, <2>2, ComputeMeans DEF Setting
  <2> HIDE DEF L
  <2>4. design' = design
    BY SettingStep
  <2>5. k' \in Kernels(design') /\ ~ k'.hung /\ ref' = StateOf(k')
    BY <2>1, <2>2, <2>3, <2>4
  <2> QED
    BY <2>5 DEF SimInv, StateOf
<1>3. Next => \E in \in Data : Compute(in)
  BY DEF Next, Edge, ComputeSends, ComputeAwaits, ComputeRuns
<1> QED
  BY <1>1, <1>2, <1>3

-----------------------------------------------------------------------------
(* One instruction with an external memory.                                 *)

\* The addresses of stores are finitely many.
LEMMA AddressesMean ==
    ASSUME NEW st \in Entries
    PROVE  AddressesOf(st) \subseteq Addrs /\ IsFiniteSet(AddressesOf(st))
<1> DEFINE N == Len(st)
           f == [n \in 1 .. N |-> st[n][1]]
<1>1. N \in Nat /\ st \in [1 .. N -> Addrs \X Data]
  BY DEF Entries
<1>2. AddressesOf(st) = {f[n] : n \in 1 .. N}
  BY <1>1 DEF AddressesOf, Range
<1>3. f \in Surjection(1 .. N, AddressesOf(st))
  BY <1>1, <1>2 DEF Surjection
<1>4. IsFiniteSet(1 .. N)
  BY <1>1, FS_Interval
<1>5. IsFiniteSet(AddressesOf(st))
  BY <1>3, <1>4, FS_Surjection, Zenon
<1> QED
  BY <1>1, <1>2, <1>5

\* What an instruction that stores st leaves to be sent: the memory after it.
LEMMA OwedStores ==
    ASSUME NEW d \in Designs, NEW K \in Kernels(d), Owed(d, K, K.mem), Unsent(d, K) = {},
           NEW i \in DOMAIN Instrs(d), NEW ins, ins = Instrs(d)[i],
           NEW st, st = StoresOf(ins, K.s),
           st # <<>> => Storing(d) = {i} /\ K.iter[i] = 0,
           NEW A \in Kernels(d), A.mem = K.mem, A.iter = K.iter,
           HasStore(ins) => A.maps[i] = StoreMap(st),
           \A j \in DOMAIN Instrs(d) : j # i \/ ~ HasStore(ins) => A.maps[j] = K.maps[j]
    PROVE  /\ Owed(d, A, Stored(K.mem, st))
           /\ \A a \in Addrs : a \notin AddressesOf(st) => Settled(d, A, a)
<1>1. /\ K.mem \in Memories /\ K.s \in Regs /\ ins \in Instructions /\ st \in Entries
  <2>1. ins \in Instructions
    BY InstrsFacts
  <2>2. K.mem \in Memories /\ K.s \in Regs
    BY DEF Kernels
  <2> QED
    BY <2>1, <2>2, InstrFacts
<1>2. \A a \in Addrs : Settled(d, K, a)
  BY <1>1, OwedNone
<1>3. CASE ~ HasStore(ins)
  <2>1. st = <<>>
    BY <1>3 DEF StoresOf
  <2>2. Stored(K.mem, st) = K.mem
    BY <1>1, <2>1, NothingStored
  <2>3. \A j \in Storing(d) : A.maps[j] = K.maps[j]
    BY <1>3 DEF Storing
  <2>4. Owed(d, A, K.mem)
    BY <2>3 DEF Owed
  <2>5. \A a \in Addrs : Settled(d, A, a)
    BY <1>2, <2>3 DEF Settled
  <2> QED
    BY <2>2, <2>4, <2>5
<1>4. CASE HasStore(ins)
  <2> DEFINE m == StoreMap(st)
             M == Stored(K.mem, st)
  <2>1. /\ m \in StoreMaps /\ DOMAIN m = AddressesOf(st) /\ AddressesOf(st) \subseteq Addrs
        /\ IsFiniteSet(DOMAIN m) /\ CommitMap(K.mem, m) = M
    <3>1. m \in StoreMaps /\ DOMAIN m = AddressesOf(st)
      BY <1>1, StoreMapMeans, Zenon
    <3>2. AddressesOf(st) \subseteq Addrs /\ IsFiniteSet(AddressesOf(st))
      BY <1>1, AddressesMean, Zenon
    <3>3. CommitMap(K.mem, m) = M
      BY <1>1, CommitIsStored
    <3> QED
      BY <3>1, <3>2, <3>3
  <2>2. /\ \A a \in DOMAIN m : M[a] = m[a]
        /\ \A a \in Addrs : a \notin DOMAIN m => M[a] = K.mem[a]
    BY <1>1, <2>1 DEF CommitMap, Memories
  <2>3. i \in Storing(d) /\ A.maps[i] = m
    BY <1>4 DEF Storing
  <2> HIDE DEF M, m
  <2>4. \A j \in Storing(d) : j # i => A.maps[j] = K.maps[j]
    BY DEF Storing
  <2>5. CASE st # <<>>
    <3>1. Storing(d) = {i} /\ A.iter[i] = 0
      BY <2>5
    <3>2. \A a \in DOMAIN m : ~ (Rank(m, a) < 0)
      <4>1. DOMAIN m \in SUBSET Nat
        BY <2>1, DesignAssumption
      <4>2. \A a \in DOMAIN m : Rank(m, a) \in Nat
        BY <2>1, <4>1, RankBounds DEF Rank
      <4> QED
        BY <4>2
    <3>3. Owed(d, A, M)
      BY <2>1, <2>2, <2>3, <3>1, <3>2 DEF Owed
    <3>4. \A a \in Addrs : a \notin AddressesOf(st) => Settled(d, A, a)
      BY <2>1, <2>3, <3>1 DEF Settled
    <3> QED
      BY <3>3, <3>4 DEF M
  <2>6. CASE st = <<>>
    <3>1. DOMAIN m = {} /\ M = K.mem
      <4>1. AddressesOf(st) = {}
        BY <2>6 DEF AddressesOf, Range
      <4>2. Stored(K.mem, <<>>) = K.mem
        BY <1>1, NothingStored
      <4> QED
        BY <2>1, <2>6, <4>1, <4>2 DEF M
    <3>2. \A j \in Storing(d) : j # i => DOMAIN K.maps[j] = {}
      BY <2>3 DEF Owed
    <3>3. \A j \in Storing(d) : DOMAIN A.maps[j] = {}
      BY <2>3, <2>4, <3>1, <3>2
    <3>4. \A j \in Storing(d) : IsFiniteSet(DOMAIN A.maps[j])
      BY <3>3, FS_EmptySet
    <3>5. Owed(d, A, M)
      BY <3>1, <3>3, <3>4 DEF Owed
    <3>6. \A a \in Addrs : Settled(d, A, a)
      BY <3>3 DEF Settled
    <3> QED
      BY <3>5, <3>6 DEF M
  <2> QED
    BY <2>5, <2>6
<1> QED
  BY <1>3, <1>4

\* Nothing is under way.
Idle(d, K, x) == (\A j \in DOMAIN Instrs(d) : K.ctrl[j] = 0) /\ K.s = x.s

\* The ILA has taken the step of instruction i to x; K waits for what it loads.
Loads(d, K, x, i) ==
    LET ins == d.top[i]
    IN  /\ d.kid = <<>> /\ ins.ld # NoLoad /\ K.ctrl[i] = 1
        /\ \A j \in DOMAIN Instrs(d) : j # i => K.ctrl[j] = 0
        /\ TopOn(d, K.s, K.in) = {i}
        /\ x.s = Updated(ins, K.s, K.mem[ins.ld])
        /\ HasStore(ins) => K.maps[i] = StoreMap(ins.st[K.s])
        /\ Settled(d, K, ins.ld)
        /\ \A j \in TopOn(d, x.s, K.in) : j <= i

\* The instruction of a step that begins, with an external memory.
LEMMA ExtInstr ==
    ASSUME NEW d \in Designs, NEW K \in Kernels(d), Owed(d, K, K.mem), Unsent(d, K) = {},
           \A j \in DOMAIN Instrs(d) : K.ctrl[j] = 0,
           OneHot(d.top, K.s, K.in), NoLaterInstr(d, StateOf(K), K.in),
           SupportedMemory(d, K, K.in), NEW i \in TopOn(d, K.s, K.in),
           NEW A, A = RunInstr(d, "ext", K, i),
           NEW y, y = TopStep(d, StateOf(K), K.in)
    PROVE  /\ A \in Kernels(d) /\ A.in = K.in /\ A.booted = K.booted /\ A.hung = K.hung
           /\ A.mem = K.mem /\ Owed(d, A, y.mem)
           /\ Idle(d, A, y) \/ Loads(d, A, y, i)
<1> DEFINE ins == d.top[i]
           st == StoresOf(ins, K.s)
           E == RunExternal(K, i, ins)
           F == [E EXCEPT !.fired = @ + 1]
           lc == LoadControl(K, i, ins)
           v == LoadedData(ins, K.mem)
<1>1. /\ i \in 1 .. Len(d.top) /\ i \in DOMAIN d.top /\ Len(d.top) \in Nat
      /\ i \in DOMAIN Instrs(d) /\ Instrs(d)[i] = ins /\ Ready(d, K, i)
  BY TopFacts
<1>2. /\ TopOn(d, K.s, K.in) = {i} /\ y = Execute(ins, StateOf(K))
  BY TopStepMeans
<1>3. y.s = Updated(ins, K.s, v) /\ y.mem = Stored(K.mem, st)
  BY <1>2 DEF Execute, StateOf
<1>4. /\ E \in Kernels(d) /\ lc \in 0 .. 2
      /\ E.mem = K.mem /\ E.iter = K.iter /\ E.data = K.data /\ E.in = K.in
      /\ E.booted = K.booted /\ E.hung = K.hung /\ E.fired = K.fired
      /\ E.ctrl[i] = lc
      /\ HasStore(ins) => E.maps[i] = StoreMap(ins.st[K.s])
      /\ ~ HasStore(ins) => E.maps[i] = K.maps[i]
      /\ \A j \in DOMAIN Instrs(d) : j # i => E.ctrl[j] = K.ctrl[j] /\ E.maps[j] = K.maps[j]
      /\ lc = 1 /\ ins.ld # NoLoad => E.s = K.s
      /\ ~ (lc = 1 /\ ins.ld # NoLoad) => E.s = Updated(ins, K.s, K.data[i])
  BY <1>1, RunExternalMeans
<1>5. lc = IF ins.ld # NoLoad THEN 1 ELSE 0
  BY <1>1 DEF LoadControl
<1>6. /\ st # <<>> => Storing(d) = {i} /\ K.iter[i] = 0
      /\ ins.ld # NoLoad => d.kid = <<>> /\ ins.ld \notin AddressesOf(st)
  <2>1. /\ st # <<>> => Cardinality(Storing(d)) = 1 /\ \A j \in Storing(d) : K.iter[j] = 0
        /\ ins.ld # NoLoad => d.kid = <<>> /\ ins.ld \notin AddressesOf(st)
    BY DEF SupportedMemory
  <2>2. ASSUME st # <<>> PROVE i \in Storing(d)
    BY <1>1, <2>2 DEF StoresOf, Storing
  <2>3. ASSUME st # <<>> PROVE Storing(d) = {i}
    <3> DEFINE tops == Len(d.top)
               kids == Len(d.kid)
               n == tops + kids
    <3>1. Storing(d) \subseteq 1 .. n /\ n \in Nat
      <4>1. DOMAIN Instrs(d) = 1 .. n /\ tops \in Nat /\ kids \in Nat
        BY InstrsFacts, Zenon
      <4>2. Storing(d) \subseteq DOMAIN Instrs(d)
        BY DEF Storing
      <4> HIDE DEF tops, kids
      <4> QED
        BY <4>1, <4>2
    <3>2. Cardinality(Storing(d)) <= 1
      BY <2>1, <2>3
    <3> HIDE DEF n
    <3> QED
      BY <2>2, <2>3, <3>1, <3>2, AtMostOne
  <2> HIDE DEF st
  <2> QED
    BY <2>1, <2>2, <2>3
<1>7. K.s \in Regs /\ K.mem \in Memories /\ ins \in Instructions /\ K.data[i] \in Data
  <2>1. ins \in Instructions
    BY <1>1, InstrsFacts
  <2> QED
    BY <1>1, <2>1 DEF Kernels
<1>8. CASE Skipped("ext", ins)
  <2>1. A = K
    BY <1>1, <1>8 DEF RunInstr
  <2>2. y.s = K.s /\ st = <<>>
    <3>1. ~ HasUpdate(ins) /\ ~ HasStore(ins)
      BY <1>8 DEF Skipped
    <3>2. v = 0 /\ 0 \in Data
      BY <3>1, DesignAssumption DEF LoadedData, HasUpdate
    <3>3. Updated(ins, K.s, v) = K.s
      BY <1>7, <3>1, <3>2, InstrFacts
    <3> QED
      BY <1>3, <3>1, <3>3 DEF StoresOf
  <2>3. y.mem = K.mem
    BY <1>3, <1>7, <2>2, NothingStored
  <2> QED
    BY <2>1, <2>2, <2>3 DEF Idle
<1>9. CASE ~ Skipped("ext", ins)
  <2> HIDE DEF E, lc
  <2>1. A = E \/ A = F
    <3>1. A = [E EXCEPT !.fired = IF Commits("ext", K, i, ins) THEN @ + 1 ELSE @]
      BY <1>1, <1>9 DEF RunInstr, Ready, E
    <3>2. [E EXCEPT !.fired = E.fired] = E
      BY <1>4 DEF Kernels
    <3> QED
      BY <3>1, <3>2
  <2>2. /\ F \in Kernels(d) /\ F.s = E.s /\ F.mem = E.mem /\ F.iter = E.iter
        /\ F.maps = E.maps /\ F.ctrl = E.ctrl
        /\ F.in = E.in /\ F.booted = E.booted /\ F.hung = E.hung
    BY <1>4 DEF Kernels
  <2> HIDE DEF F
  <2>3. /\ A \in Kernels(d) /\ A.s = E.s /\ A.mem = K.mem /\ A.iter = K.iter
        /\ A.maps = E.maps /\ A.ctrl = E.ctrl
        /\ A.in = K.in /\ A.booted = K.booted /\ A.hung = K.hung
    BY <1>4, <2>1, <2>2
  <2>4. /\ HasStore(ins) => A.maps[i] = StoreMap(ins.st[K.s]) /\ A.maps[i] = StoreMap(st)
        /\ \A j \in DOMAIN Instrs(d) : j # i \/ ~ HasStore(ins) => A.maps[j] = K.maps[j]
    BY <1>4, <2>3 DEF StoresOf
  <2> HIDE DEF st, ins
  <2>5. /\ Owed(d, A, Stored(K.mem, st))
        /\ \A a \in Addrs : a \notin AddressesOf(st) => Settled(d, A, a)
    BY <1>1, <1>6, <2>3, <2>4, OwedStores DEF st
  <2>6. CASE ins.ld = NoLoad
    <3>1. \A j \in DOMAIN Instrs(d) : A.ctrl[j] = 0
      BY <1>1, <1>4, <1>5, <2>3, <2>6
    <3>2. A.s = Updated(ins, K.s, K.data[i])
      BY <1>4, <2>3, <2>6
    <3>3. A.s = y.s
      BY <1>3, <2>6, <3>2 DEF Updated
    <3> QED
      BY <1>3, <2>3, <2>5, <3>1, <3>3 DEF Idle
  <2>7. CASE ins.ld # NoLoad
    <3>1. A.ctrl[i] = 1 /\ A.s = K.s /\ \A j \in DOMAIN Instrs(d) : j # i => A.ctrl[j] = 0
      BY <1>1, <1>4, <1>5, <2>3, <2>7
    <3>2. ins.ld \in Addrs
      BY <1>7, <2>7 DEF Instructions
    <3>3. y.s = Updated(ins, A.s, A.mem[ins.ld])
      BY <1>3, <2>3, <2>7, <3>1 DEF LoadedData
    <3>4. \A j \in TopOn(d, y.s, A.in) : j <= i
      BY <1>2, <2>3 DEF NoLaterInstr, StateOf
    <3>5. Settled(d, A, ins.ld) /\ TopOn(d, A.s, A.in) = {i} /\ d.kid = <<>>
      BY <1>2, <1>6, <2>3, <2>5, <2>7, <3>1, <3>2
    <3>6. HasStore(ins) => A.maps[i] = StoreMap(ins.st[A.s])
      BY <2>4, <3>1
    <3>7. Loads(d, A, y, i)
      BY <2>7, <3>1, <3>3, <3>4, <3>5, <3>6 DEF Loads, ins
    <3> QED
      BY <1>3, <2>3, <2>5, <3>7
  <2> QED
    BY <2>6, <2>7
<1> QED
  BY <1>8, <1>9

\* A step of a supported shape begins: nothing is under way and all was sent.
Begins(d, K) ==
    /\ Owed(d, K, K.mem) /\ Unsent(d, K) = {} /\ \A j \in DOMAIN Instrs(d) : K.ctrl[j] = 0
    /\ OneHot(d.top, K.s, K.in) /\ NoLaterInstr(d, StateOf(K), K.in)
    /\ SupportedMemory(d, K, K.in)

\* The simulator A is on the way to the state x of the ILA.
OnTheWay(d, A, x) ==
    /\ Owed(d, A, x.mem)
    /\ Idle(d, A, x) \/ \E i \in DOMAIN d.top : Loads(d, A, x, i)

\* A is K but for the registers, the control and the maps.
Same(d, K, A) ==
    /\ A \in Kernels(d) /\ A.in = K.in /\ A.booted = K.booted /\ A.hung = K.hung
    /\ A.mem = K.mem

\* The instructions of the top, in a step that begins.
LEMMA ExtTops ==
    ASSUME NEW d \in Designs, NEW K \in Kernels(d), Begins(d, K),
           NEW A, A = RunAll(d, "ext", K, TopOrder(d)),
           NEW y, y = TopStep(d, StateOf(K), K.in)
    PROVE  y \in States /\ Same(d, K, A) /\ OnTheWay(d, A, y)
<1> DEFINE on == TopOn(d, K.s, K.in)
<1>0. StateOf(K) \in States /\ StateOf(K).s = K.s /\ StateOf(K).mem = K.mem
  BY StateTyped
<1>1. CASE on = {}
  <2>1. A = K
    BY <1>1, TopsNone
  <2>2. y = StateOf(K)
    BY <1>0, <1>1 DEF TopStep
  <2> QED
    BY <1>0, <2>1, <2>2 DEF Begins, Same, OnTheWay, Idle
<1>2. CASE on # {}
  <2>1. PICK i \in on : TRUE
    BY <1>2
  <2> DEFINE L == RunInstr(d, "ext", K, i)
  <2>2. /\ L \in Kernels(d) /\ L.in = K.in /\ L.booted = K.booted /\ L.hung = K.hung
        /\ L.mem = K.mem /\ Owed(d, L, y.mem)
        /\ Idle(d, L, y) \/ Loads(d, L, y, i)
    BY <2>1, ExtInstr DEF Begins
  <2>3. on = {i} /\ y = Execute(d.top[i], StateOf(K))
    BY <2>1, TopStepMeans DEF Begins
  <2>4. i \in DOMAIN d.top
    BY <2>1, TopFacts
  <2>5. y \in States
    <3>1. d.top[i] \in Instructions
      BY <2>4, DesignFacts
    <3> QED
      BY <1>0, <2>3, <3>1, ExecuteTyped DEF States
  <2> HIDE DEF L
  <2>6. \A j \in TopOn(d, L.s, K.in) : j <= i
    <3>1. CASE Idle(d, L, y)
      <4>1. L.s = y.s
        BY <3>1 DEF Idle
      <4> QED
        BY <1>0, <2>1, <4>1 DEF Begins, NoLaterInstr
    <3>2. CASE Loads(d, L, y, i)
      <4>1. TopOn(d, L.s, K.in) = {i}
        BY <2>2, <3>2 DEF Loads
      <4>2. i \in Nat
        BY <2>1, TopFacts
      <4> QED
        BY <4>1, <4>2
    <3> QED
      BY <2>2, <3>1, <3>2
  <2>7. A = L
    <3>1. L = RunInstr(d, "ext", K, i)
      BY DEF L
    <3>2. L.in = K.in /\ TopOn(d, K.s, K.in) = {i}
      BY <2>2, <2>3
    <3>3. RunAll(d, "ext", K, TopOrder(d)) = L
      BY <2>6, <3>1, <3>2, TopsOne, Zenon
    <3> QED
      BY <3>3
  <2> QED
    BY <2>2, <2>4, <2>5, <2>7 DEF Same, OnTheWay
<1> QED
  BY <1>1, <1>2

\* The start and the loop of a child leave the bookkeeping alone.
LEMMA InitBook ==
    ASSUME NEW d \in Designs, NEW kind, NEW K \in Kernels(d)
    PROVE  Book(InitChild(d, kind, K)) = Book(K)
<1>1. InitChild(d, kind, K) = K \/ InitChild(d, kind, K) = [K EXCEPT !.s = <<@[1], 0>>]
  BY DEF InitChild, StartChild
<1>2. ASSUME NEW s PROVE Book([K EXCEPT !.s = s]) = Book(K)
  BY DEF Book, Kernels
<1> QED
  BY <1>1, <1>2

\* Equal bookkeeping and memory: the same is owed and settled.
LEMMA SameBook ==
    ASSUME NEW d, NEW K, NEW L, Book(L) = Book(K), L.mem = K.mem
    PROVE  /\ \A M : Owed(d, K, M) => Owed(d, L, M)
           /\ \A a : Settled(d, K, a) => Settled(d, L, a)
           /\ L.ctrl = K.ctrl /\ L.maps = K.maps
<1>1. L.ctrl = K.ctrl /\ L.maps = K.maps /\ L.iter = K.iter
  BY DEF Book
<1> QED
  BY <1>1 DEF Owed, Settled

\* Where there is no child nothing happens after the instructions of the top.
LEMMA NoKids ==
    ASSUME NEW d \in Designs, d.kid = <<>>, NEW kind, NEW K \in Kernels(d), NEW N \in Nat,
           NEW L, L = ChildLoop(d, kind, InitChild(d, kind, K), N)
    PROVE  After(d, K, StateOf(K), L) /\ Book(L) = Book(K)
<1> DEFINE x == StateOf(K)
<1>1. InitChild(d, kind, K) = K
  BY DesignAssumption DEF InitChild, StartChild
<1>2. \A s : KidOn(d, s, K.in) = {} /\ OneHot(d.kid, s, K.in)
  <2>1. \A s : Enabled(d.kid, s, K.in) = {}
    BY DEF Enabled
  <2>2. Cardinality({}) <= 1
    <3>1. Cardinality({}) = 0
      BY FS_EmptySet
    <3> QED
      BY <3>1
  <2>3. ASSUME NEW s PROVE KidOn(d, s, K.in) = {}
    BY <2>1 DEF KidOn
  <2>4. ASSUME NEW s PROVE OneHot(d.kid, s, K.in)
    BY <2>1, <2>2 DEF OneHot
  <2> QED
    BY <2>3, <2>4
<1>3. x \in States
  BY StateTyped
<1>4. PICK r : KidRun(d, x, K.in, N, r)
  BY <1>3, ChildRunMeans
<1>5. r[0] = x /\ 0 \in 0 .. N /\ KidStep(d, r[0], K.in) = r[0]
  BY <1>2, <1>4 DEF KidRun, KidStep
<1>6. r[N] = r[0]
  <2> DEFINE c == 0
  <2>1. c \in 0 .. N /\ KidStep(d, r[c], K.in) = r[c] /\ KidRun(d, x, K.in, N, r)
    BY <1>4, <1>5
  <2> HIDE DEF c, x
  <2>2. r[N] = r[c]
    BY <2>1, Stuck
  <2> QED
    BY <2>2 DEF c
<1>7. Ends(d, x, K.in, N, r) /\ PlainKids(d, kind)
  BY <1>2, <1>4 DEF Ends, PlainKids
<1>8. After(d, K, r[N], ChildLoop(d, kind, K, N)) /\ Book(ChildLoop(d, kind, K, N)) = Book(K)
  BY <1>7, LoopMeans
<1> QED
  BY <1>1, <1>5, <1>6, <1>8

\* Without a child the step of the ILA is that of the top.
LEMMA NoKidsIla ==
    ASSUME NEW d \in Designs, d.kid = <<>>, NEW kind, NEW x \in States, NEW in, NEW N \in Nat
    PROVE  ChildRun(d, ChildStart(d, kind, x), in, N) = x
<1>1. ChildStart(d, kind, x) = x
  BY DesignAssumption DEF ChildStart, StartChild
<1>2. \A s : KidOn(d, s, in) = {}
  <2>1. \A s : Enabled(d.kid, s, in) = {}
    BY DEF Enabled
  <2> QED
    BY <2>1 DEF KidOn
<1>3. PICK r : KidRun(d, x, in, N, r) /\ ChildRun(d, x, in, N) = r[N]
  BY ChildRunMeans
<1>4. r[0] = x /\ 0 \in 0 .. N /\ KidStep(d, r[0], in) = r[0]
  BY <1>2, <1>3 DEF KidRun, KidStep
<1>5. r[N] = r[0]
  <2> DEFINE c == 0
  <2>1. c \in 0 .. N /\ KidStep(d, r[c], in) = r[c] /\ KidRun(d, x, in, N, r)
    BY <1>3, <1>4
  <2> HIDE DEF c
  <2>2. r[N] = r[c]
    BY <2>1, Stuck
  <2> QED
    BY <2>2 DEF c
<1> QED
  BY <1>1, <1>3, <1>4, <1>5

\* A child that leaves the memory alone starts the same whatever it holds.
LEMMA ChildStartPlain ==
    ASSUME NEW d \in Designs, NEW x \in States, NEW m \in Memories
    PROVE  /\ ChildStart(d, "ext", AtMem(x, m)) = AtMem(ChildStart(d, "ext", x), m)
           /\ ChildStart(d, "ext", x) \in States /\ ChildStart(d, "ext", x).mem = x.mem
<1> DEFINE s2 == <<x.s[1], 0>>
           b == "ext" # "ilator" /\ x.s \in d.kvalid
<1>1. x.s \in Regs /\ s2 \in Regs /\ x.mem \in Memories
  BY DesignAssumption DEF States, Regs
<1>2. AtMem(x, m).s = x.s /\ AtMem(x, m).mem = m
  BY DEF AtMem
<1>3. ChildStart(d, "ext", x) = IF b /\ d.init THEN [x EXCEPT !.s = s2] ELSE x
  BY DEF ChildStart, StartChild
<1>4. ChildStart(d, "ext", AtMem(x, m))
        = IF b /\ d.init THEN [AtMem(x, m) EXCEPT !.s = s2] ELSE AtMem(x, m)
  BY <1>2 DEF ChildStart, StartChild
<1> HIDE DEF s2, b
<1>5. [x EXCEPT !.s = s2] \in States /\ [x EXCEPT !.s = s2].mem = x.mem
  BY <1>1 DEF States
<1>6. [AtMem(x, m) EXCEPT !.s = s2] = AtMem([x EXCEPT !.s = s2], m)
  BY DEF AtMem, States
<1>7. CASE b /\ d.init
  BY <1>3, <1>4, <1>5, <1>6, <1>7
<1>8. CASE ~ (b /\ d.init)
  BY <1>3, <1>4, <1>8
<1> QED
  BY <1>7, <1>8

\* The child of a simulator that has yet to commit stores runs as that of the ILA.
LEMMA ChildMeans ==
    ASSUME NEW d \in Designs, PlainKids(d, "ext"), NEW A \in Kernels(d), NEW N \in Nat,
           \A s \in Regs : OneHot(d.kid, s, A.in),
           NEW y \in States, y.s = A.s,
           NEW x, x = ChildRun(d, ChildStart(d, "ext", y), A.in, N),
           KidOn(d, x.s, A.in) = {},
           NEW L, L = ChildLoop(d, "ext", InitChild(d, "ext", A), N)
    PROVE  /\ x \in States /\ x.mem = y.mem
           /\ After(d, A, AtMem(x, A.mem), L) /\ Book(L) = Book(A)
<1> DEFINE B == InitChild(d, "ext", A)
           z == ChildStart(d, "ext", y)
           b == AtMem(z, A.mem)
<1>1. A.mem \in Memories /\ StateOf(A) = AtMem(y, A.mem) /\ y.mem \in Memories
  BY DEF AtMem, StateOf, Kernels, States
<1>2. z \in States /\ z.mem = y.mem /\ ChildStart(d, "ext", AtMem(y, A.mem)) = b
  BY <1>1, ChildStartPlain
<1>3. /\ B \in Kernels(d) /\ B.in = A.in /\ B.booted = A.booted /\ B.hung = A.hung
      /\ StateOf(B) = b
  BY <1>1, <1>2, InitMeans
<1>4. Book(B) = Book(A)
  BY InitBook
<1> HIDE DEF B
<1>5. x \in States /\ ChildRun(d, b, A.in, N) = AtMem(x, A.mem)
  <2> HIDE DEF z
  <2> QED
    BY <1>1, <1>2, KidRunPlain DEF z
<1>6. x.mem = y.mem
  <2> HIDE DEF z
  <2>1. AtMem(z, y.mem) = z
    BY <1>1, <1>2, AtMemTyped
  <2>2. ChildRun(d, AtMem(z, y.mem), A.in, N) = AtMem(ChildRun(d, z, A.in, N), y.mem)
    BY <1>1, <1>2, KidRunPlain
  <2>3. x = AtMem(x, y.mem)
    BY <2>1, <2>2 DEF z
  <2> QED
    BY <2>3 DEF AtMem
<1>7. b \in States
  <2> HIDE DEF z
  <2> QED
    BY <1>1, <1>2, AtMemTyped
<1> HIDE DEF z, b
<1>8. PICK r : KidRun(d, b, A.in, N, r) /\ ChildRun(d, b, A.in, N) = r[N]
  BY <1>7, ChildRunMeans
<1>9. r[N] = AtMem(x, A.mem) /\ r[N].s = x.s
  BY <1>5, <1>8 DEF AtMem
<1>10. Ends(d, StateOf(B), B.in, N, r)
  BY <1>3, <1>8, <1>9 DEF Ends
<1>11. After(d, B, r[N], ChildLoop(d, "ext", B, N)) /\ Book(ChildLoop(d, "ext", B, N)) = Book(B)
  BY <1>3, <1>10, LoopMeans
<1> QED
  BY <1>3, <1>4, <1>5, <1>6, <1>9, <1>11 DEF After, B

\* The instructions of a step that begins.
LEMMA ExtBody ==
    ASSUME NEW d \in Designs, NEW K \in Kernels(d), Begins(d, K), NEW N \in Nat,
           \A s \in Regs : OneHot(d.kid, s, K.in),
           NEW x, x = ChildRun(d, ChildStart(d, "ext", TopStep(d, StateOf(K), K.in)), K.in, N),
           KidOn(d, x.s, K.in) = {},
           NEW L, L = RunBody(d, "ext", K, N)
    PROVE  x \in States /\ Same(d, K, L) /\ OnTheWay(d, L, x)
<1> DEFINE A == RunAll(d, "ext", K, TopOrder(d))
           y == TopStep(d, StateOf(K), K.in)
<1>1. y \in States /\ Same(d, K, A) /\ OnTheWay(d, A, y)
  BY ExtTops
<1>2. L = ChildLoop(d, "ext", InitChild(d, "ext", A), N)
  BY DEF RunBody
<1> HIDE DEF A, y
<1>3. /\ A \in Kernels(d) /\ A.in = K.in /\ A.booted = K.booted /\ A.hung = K.hung
      /\ A.mem = K.mem
  BY <1>1 DEF Same
<1>4. CASE Idle(d, A, y)
  <2>1. PlainKids(d, "ext")
    BY DEF Begins, SupportedMemory, PlainKids, Plain
  <2>2. y.s = A.s
    BY <1>4 DEF Idle
  <2>3. x = ChildRun(d, ChildStart(d, "ext", y), A.in, N)
    BY <1>3 DEF y
  <2>4. /\ x \in States /\ x.mem = y.mem
        /\ After(d, A, AtMem(x, A.mem), L) /\ Book(L) = Book(A)
    BY <1>1, <1>2, <1>3, <2>1, <2>2, <2>3, ChildMeans
  <2>5. /\ L \in Kernels(d) /\ L.in = A.in /\ L.booted = A.booted /\ L.hung = A.hung
        /\ StateOf(L) = AtMem(x, A.mem)
    BY <2>4 DEF After
  <2>6. L.s = x.s /\ L.mem = A.mem
    BY <2>5 DEF StateOf, AtMem
  <2>7. Owed(d, L, x.mem) /\ L.ctrl = A.ctrl
    BY <1>1, <2>4, <2>6, SameBook DEF OnTheWay
  <2>8. Idle(d, L, x)
    BY <1>4, <2>6, <2>7 DEF Idle
  <2> QED
    BY <1>3, <2>4, <2>5, <2>6, <2>7, <2>8 DEF Same, OnTheWay
<1>5. ASSUME NEW i \in DOMAIN d.top, Loads(d, A, y, i)
      PROVE  x \in States /\ Same(d, K, L) /\ OnTheWay(d, L, x)
  <2>1. d.kid = <<>>
    BY <1>5 DEF Loads
  <2>2. After(d, A, StateOf(A), L) /\ Book(L) = Book(A)
    BY <1>2, <1>3, <2>1, NoKids
  <2>3. x = y
    BY <1>1, <2>1, NoKidsIla DEF y
  <2>4. /\ L \in Kernels(d) /\ L.in = A.in /\ L.booted = A.booted /\ L.hung = A.hung
        /\ L.s = A.s /\ L.mem = A.mem
    BY <2>2 DEF After, StateOf
  <2>5. /\ Owed(d, L, x.mem) /\ L.ctrl = A.ctrl /\ L.maps = A.maps
        /\ \A a : Settled(d, A, a) => Settled(d, L, a)
    BY <1>1, <2>2, <2>3, <2>4, SameBook DEF OnTheWay
  <2>6. Loads(d, L, x, i)
    BY <1>5, <2>3, <2>4, <2>5 DEF Loads
  <2> QED
    BY <1>1, <1>3, <2>3, <2>4, <2>5, <2>6 DEF Same, OnTheWay
<1> QED
  BY <1>1, <1>4, <1>5 DEF OnTheWay

\* The call returns: a step that begins ends, or a load or stores are under way.
LEMMA ReturnMeans ==
    ASSUME NEW d \in Designs, Storing(d) # {}, NEW L \in Kernels(d), NEW x \in States,
           Owed(d, L, x.mem), NEW R, R = ExtReturn(d, L),
           \/ OnTheWay(d, L, x)
           \/ L.s = x.s /\ Unsent(d, L) = {} /\ Waiting(d, L) = {}
    PROVE  R \in Kernels(d) /\ R.hung = L.hung /\ OnTheWay(d, R, x)
<1>1. CASE Unsent(d, L) = Storing(d) \/ Waiting(d, L) # {}
  <2>1. R = L
    BY <1>1 DEF ExtReturn
  <2> QED
    BY <1>1, <2>1
<1>2. CASE ~ (Unsent(d, L) = Storing(d) \/ Waiting(d, L) # {})
  <2> DEFINE D == DOMAIN Instrs(d)
             zero == [j \in D |-> 0]
             none == [j \in D |-> <<>>]
  <2>1. L.ctrl \in [D -> 0 .. 2] /\ L.iter \in [D -> Nat] /\ L.maps \in [D -> StoreMaps]
    BY DEF Kernels
  <2>2. R = [L EXCEPT !.ctrl = zero, !.iter = zero, !.maps = none]
    BY <1>2, <2>1 DEF ExtReturn, Cleared
  <2>3. /\ zero \in [D -> 0 .. 2] /\ zero \in [D -> Nat] /\ none \in [D -> StoreMaps]
        /\ \A j \in D : zero[j] = 0 /\ DOMAIN none[j] = {}
    BY EmptyMap
  <2> HIDE DEF zero, none
  <2>4. /\ R \in Kernels(d) /\ R.s = L.s /\ R.mem = L.mem /\ R.hung = L.hung
        /\ R.ctrl = zero /\ R.maps = none
    BY <2>2, <2>3 DEF Kernels
  <2>5. L.s = x.s
    <3>1. ASSUME NEW i \in DOMAIN d.top, Loads(d, L, x, i) PROVE FALSE
      <4>1. i \in TopOn(d, L.s, L.in) /\ d.top[i].ld # NoLoad /\ L.ctrl[i] = 1
        BY <3>1 DEF Loads
      <4>2. i \in DOMAIN Instrs(d) /\ Instrs(d)[i] = d.top[i]
        BY <4>1, TopFacts
      <4>3. i \in Waiting(d, L)
        BY <4>1, <4>2 DEF Waiting, Loading
      <4> QED
        BY <1>2, <4>3
    <3> QED
      BY <3>1 DEF OnTheWay, Idle
  <2>6. Unsent(d, L) = {}
    <3> SUFFICES ASSUME NEW j \in Unsent(d, L) PROVE FALSE
      OBVIOUS
    <3>1. j \in Storing(d) /\ L.iter[j] \in Nat /\ L.iter[j] < MapSize(L.maps[j])
      BY MapFacts DEF Unsent
    <3>2. DOMAIN L.maps[j] # {}
      <4> SUFFICES ASSUME DOMAIN L.maps[j] = {} PROVE FALSE
        OBVIOUS
      <4>1. MapSize(L.maps[j]) = 0
        BY FS_EmptySet DEF MapSize
      <4> QED
        BY <3>1, <4>1
    <3>3. Storing(d) = {j}
      BY <3>1, <3>2 DEF Owed
    <3>4. Unsent(d, L) = {j}
      BY <3>3 DEF Unsent
    <3> QED
      BY <1>2, <3>3, <3>4
  <2>7. x.mem = L.mem
    <3>1. x.mem \in Memories
      BY DEF States
    <3> QED
      BY <2>6, <3>1, OwedNone
  <2>8. \A j \in Storing(d) : DOMAIN R.maps[j] = {}
    BY <2>3, <2>4 DEF Storing
  <2>9. Owed(d, R, x.mem)
    BY <2>4, <2>7, <2>8, FS_EmptySet DEF Owed
  <2>10. Idle(d, R, x)
    BY <2>3, <2>4, <2>5 DEF Idle
  <2> QED
    BY <2>4, <2>9, <2>10 DEF OnTheWay
<1> QED
  BY <1>1, <1>2

\* The simulator when its instructions begin.
Resumed(K, in) == [K EXCEPT !.in = in, !.booted = TRUE]

\* Reading the inputs changes nothing else.
LEMMA ResumedMeans ==
    ASSUME NEW d, NEW K \in Kernels(d), NEW in \in Data, NEW R, R = Resumed(K, in)
    PROVE  /\ R \in Kernels(d) /\ R.s = K.s /\ R.mem = K.mem /\ R.hung = K.hung
           /\ R.maps = K.maps /\ R.iter = K.iter /\ R.ctrl = K.ctrl /\ R.data = K.data
           /\ R.in = in
BY DEF Resumed, Kernels

\* The load that is under way is the only one that waits and that is asked for.
LEMMA WaitingMeans ==
    ASSUME NEW d \in Designs, NEW K \in Kernels(d), NEW x, NEW i, Loads(d, K, x, i)
    PROVE  /\ i \in DOMAIN Instrs(d) /\ i \in DOMAIN d.top /\ Instrs(d)[i] = d.top[i]
           /\ d.top[i] \in Instructions /\ d.top[i].ld \in Addrs
           /\ Waiting(d, K) = {i} /\ ReadRequest(d, K) = d.top[i].ld
<1>1. /\ i \in TopOn(d, K.s, K.in) /\ d.top[i].ld # NoLoad /\ K.ctrl[i] = 1
      /\ \A j \in DOMAIN Instrs(d) : j # i => K.ctrl[j] = 0
  BY DEF Loads
<1>2. /\ i \in DOMAIN Instrs(d) /\ Instrs(d)[i] = d.top[i] /\ i \in DOMAIN d.top /\ i \in Nat
      /\ d.top[i] \in Instructions
  <2>1. /\ i \in DOMAIN Instrs(d) /\ Instrs(d)[i] = d.top[i] /\ i \in DOMAIN d.top
        /\ i \in 1 .. Len(d.top) /\ Len(d.top) \in Nat
    BY <1>1, TopFacts
  <2> QED
    BY <2>1, DesignFacts
<1>3. d.top[i].ld \in Addrs
  BY <1>1, <1>2 DEF Instructions
<1>4. Waiting(d, K) = {i}
  BY <1>1, <1>2 DEF Waiting, Loading
<1>5. ReadRequest(d, K) = d.top[i].ld
  BY <1>2, <1>4, Singletons DEF ReadRequest
<1> QED
  BY <1>2, <1>3, <1>4, <1>5

\* What is owed depends on the maps, on what was sent and on the memory.
LEMMA OwedKept ==
    ASSUME NEW d, NEW K, NEW L, NEW M, Owed(d, K, M), L.mem = K.mem, L.iter = K.iter,
           L.maps = K.maps
    PROVE  Owed(d, L, M)
BY DEF Owed

\* The memory answers: the instruction that waits ends with the loaded data.
LEMMA AnswerMeans ==
    ASSUME NEW d \in Designs, NEW K \in Kernels(d), NEW x \in States, Owed(d, K, x.mem),
           Unsent(d, K) = {}, NEW i, Loads(d, K, x, i), NEW N \in Nat,
           NEW G, G = Received(d, K, K.mem[ReadRequest(d, K)]),
           NEW L, L = RunBody(d, "ext", Resumed(G, G.in), N)
    PROVE  /\ ~ FreshInputs(d, G) /\ L \in Kernels(d) /\ L.hung = K.hung
           /\ Owed(d, L, x.mem) /\ L.s = x.s /\ Unsent(d, L) = {} /\ Waiting(d, L) = {}
<1> DEFINE ins == d.top[i]
           v == K.mem[ins.ld]
           D == DOMAIN Instrs(d)
           ct == [j \in D |-> IF j = i THEN 2 ELSE K.ctrl[j]]
           da == [j \in D |-> IF j = i THEN v ELSE K.data[j]]
           H == Resumed(G, G.in)
           E == RunExternal(H, i, ins)
           A == RunInstr(d, "ext", H, i)
<1>1. /\ i \in DOMAIN Instrs(d) /\ i \in DOMAIN d.top /\ Instrs(d)[i] = ins
      /\ ins \in Instructions /\ ins.ld \in Addrs
      /\ Waiting(d, K) = {i} /\ ReadRequest(d, K) = ins.ld
  BY WaitingMeans
<1>2. /\ d.kid = <<>> /\ ins.ld # NoLoad /\ K.ctrl[i] = 1
      /\ \A j \in D : j # i => K.ctrl[j] = 0
      /\ TopOn(d, K.s, K.in) = {i}
      /\ x.s = Updated(ins, K.s, v)
      /\ HasStore(ins) => K.maps[i] = StoreMap(ins.st[K.s])
      /\ \A j \in TopOn(d, x.s, K.in) : j <= i
  BY DEF Loads
<1>3. G = [K EXCEPT !.ctrl = ct, !.data = da]
  <2>1. DOMAIN K.ctrl = D /\ DOMAIN K.data = D
    BY DEF Kernels
  <2> HIDE DEF ins, D
  <2>2. G = [K EXCEPT !.ctrl = [j \in D |-> IF j \in {i} THEN 2 ELSE K.ctrl[j]],
                      !.data = [j \in D |-> IF j \in {i} THEN v ELSE K.data[j]]]
    BY <1>1, <2>1 DEF Received
  <2> QED
    BY <2>2
<1>4. /\ ct \in [D -> 0 .. 2] /\ da \in [D -> Data] /\ v \in Data
      /\ ct[i] = 2 /\ da[i] = v /\ \A j \in D : j # i => ct[j] = 0
  <2>1. K.ctrl \in [D -> 0 .. 2] /\ K.data \in [D -> Data] /\ K.mem \in [Addrs -> Data]
    BY DEF Kernels, Memories
  <2> HIDE DEF D, ins
  <2> QED
    BY <1>1, <1>2, <2>1 DEF D
<1> HIDE DEF ct, da, v
<1>5. /\ G \in Kernels(d) /\ G.s = K.s /\ G.mem = K.mem /\ G.hung = K.hung /\ G.in = K.in
      /\ G.maps = K.maps /\ G.iter = K.iter /\ G.ctrl = ct /\ G.data = da
  BY <1>3, <1>4 DEF Kernels
<1>6. ~ FreshInputs(d, G)
  <2>1. i \in Loading(d)
    BY <1>1, <1>2 DEF Loading
  <2>2. G.ctrl[i] = 2
    BY <1>4, <1>5
  <2> QED
    BY <2>1, <2>2 DEF FreshInputs
<1>7. /\ H \in Kernels(d) /\ H.s = K.s /\ H.mem = K.mem /\ H.hung = K.hung /\ H.in = K.in
      /\ H.maps = K.maps /\ H.iter = K.iter /\ H.ctrl = ct /\ H.data = da
  <2>1. G \in Kernels(d) /\ G.in \in Data
    BY <1>5 DEF Kernels
  <2>2. /\ H \in Kernels(d) /\ H.s = G.s /\ H.mem = G.mem /\ H.hung = G.hung
        /\ H.maps = G.maps /\ H.iter = G.iter /\ H.ctrl = G.ctrl /\ H.data = G.data
        /\ H.in = G.in
    BY <2>1, ResumedMeans
  <2> QED
    BY <1>5, <2>2
<1>8. /\ TopOn(d, H.s, H.in) = {i} /\ Ready(d, H, i)
  <2>1. TopOn(d, H.s, H.in) = {i}
    BY <1>2, <1>7
  <2> HIDE DEF H
  <2> QED
    BY <2>1, TopFacts
<1> HIDE DEF H, ins
<1>9. LoadControl(H, i, ins) = 2
  BY <1>4, <1>7 DEF LoadControl
<1>10. /\ E \in Kernels(d)
       /\ E.mem = H.mem /\ E.iter = H.iter /\ E.in = H.in /\ E.hung = H.hung
       /\ E.fired = H.fired /\ E.ctrl[i] = 2
       /\ HasStore(ins) => E.maps[i] = StoreMap(ins.st[H.s])
       /\ ~ HasStore(ins) => E.maps[i] = H.maps[i]
       /\ \A j \in D : j # i => E.ctrl[j] = H.ctrl[j] /\ E.maps[j] = H.maps[j]
       /\ E.s = Updated(ins, H.s, H.data[i])
  BY <1>1, <1>7, <1>9, RunExternalMeans
<1> HIDE DEF E
<1>11. E.s = x.s /\ E.ctrl = ct /\ E.maps = K.maps
  <2>1. E.ctrl \in [D -> 0 .. 2] /\ E.maps \in [D -> StoreMaps] /\ K.maps \in [D -> StoreMaps]
    BY <1>10 DEF Kernels
  <2> HIDE DEF D
  <2>2. \A j \in D : E.ctrl[j] = ct[j]
    BY <1>4, <1>7, <1>10
  <2>3. \A j \in D : E.maps[j] = K.maps[j]
    BY <1>2, <1>7, <1>10
  <2> QED
    BY <1>2, <1>4, <1>7, <1>10, <2>1, <2>2, <2>3
<1>12. A = [E EXCEPT !.fired = @ + 1]
  <2>1. ~ Skipped("ext", ins)
    BY <1>2 DEF Skipped, HasUpdate
  <2>2. Commits("ext", H, i, ins)
    BY <1>9 DEF Commits
  <2> QED
    BY <1>1, <1>8, <2>1, <2>2 DEF RunInstr, Ready, E
<1>13. /\ A \in Kernels(d) /\ A.s = x.s /\ A.mem = K.mem /\ A.in = K.in /\ A.hung = K.hung
       /\ A.iter = K.iter /\ A.maps = K.maps /\ A.ctrl = ct
  <2> HIDE DEF A
  <2>1. /\ A \in Kernels(d) /\ A.s = E.s /\ A.mem = E.mem /\ A.in = E.in /\ A.hung = E.hung
        /\ A.iter = E.iter /\ A.maps = E.maps /\ A.ctrl = E.ctrl
    BY <1>10, <1>12 DEF Kernels
  <2> QED
    BY <1>7, <1>10, <1>11, <2>1
<1>14. RunAll(d, "ext", H, TopOrder(d)) = A
  <2>1. A = RunInstr(d, "ext", H, i) /\ A.in = H.in /\ H \in Kernels(d)
    BY <1>7, <1>13
  <2>2. \A j \in TopOn(d, A.s, H.in) : j <= i
    BY <1>2, <1>7, <1>13
  <2> HIDE DEF A
  <2> QED
    BY <1>8, <2>1, <2>2, TopsOne, Zenon
<1>15. L = ChildLoop(d, "ext", InitChild(d, "ext", A), N)
  BY <1>14 DEF RunBody, H
<1> HIDE DEF A
<1>16. After(d, A, StateOf(A), L) /\ Book(L) = Book(A)
  <2>1. d.kid = <<>> /\ A \in Kernels(d)
    BY <1>2, <1>13
  <2> QED
    BY <1>15, <2>1, NoKids
<1>17. /\ L \in Kernels(d) /\ L.hung = K.hung /\ L.s = x.s /\ L.mem = K.mem
       /\ L.iter = K.iter /\ L.maps = K.maps /\ L.ctrl = ct
  <2>1. L \in Kernels(d) /\ L.hung = A.hung /\ L.s = A.s /\ L.mem = A.mem
    BY <1>16 DEF After, StateOf
  <2>2. L.iter = A.iter /\ L.maps = A.maps /\ L.ctrl = A.ctrl
    BY <1>16 DEF Book
  <2> QED
    BY <1>13, <2>1, <2>2
<1>18. Owed(d, L, x.mem) /\ Unsent(d, L) = {}
  <2>1. Owed(d, L, x.mem)
    <3>1. L.mem = K.mem /\ L.iter = K.iter /\ L.maps = K.maps
      BY <1>17
    <3> QED
      BY <3>1, OwedKept, Zenon
  <2>2. Unsent(d, L) = Unsent(d, K)
    BY <1>17 DEF Unsent
  <2> QED
    BY <2>1, <2>2
<1>19. Waiting(d, L) = {}
  <2>1. \A j \in D : ct[j] # 1
    BY <1>4
  <2> QED
    BY <1>17, <2>1 DEF Waiting, Loading
<1> QED
  BY <1>6, <1>17, <1>18, <1>19

-----------------------------------------------------------------------------
(* The runs of a simulator with an external memory.                         *)

\* Where no load waits and all was sent, nothing is under way.
LEMMA RestMeans ==
    ASSUME NEW d \in Designs, NEW K \in Kernels(d), NEW x \in States, OnTheWay(d, K, x),
           Unsent(d, K) = {}, Waiting(d, K) = {}
    PROVE  Idle(d, K, x) /\ FreshInputs(d, K) /\ x = StateOf(K)
<1>1. Idle(d, K, x)
  <2>1. ASSUME NEW i, Loads(d, K, x, i) PROVE FALSE
    <3>1. Waiting(d, K) = {i}
      BY <2>1, WaitingMeans
    <3> QED
      BY <3>1
  <2> QED
    BY <2>1 DEF OnTheWay
<1>2. FreshInputs(d, K)
  BY <1>1 DEF Idle, FreshInputs, Loading
<1>3. x.mem = K.mem
  <2>1. x.mem \in Memories /\ Owed(d, K, x.mem)
    BY DEF States, OnTheWay
  <2> QED
    BY <2>1, OwedNone
<1>4. x = StateOf(K)
  BY <1>1, <1>3 DEF Idle, StateOf, States
<1> QED
  BY <1>1, <1>2, <1>4

\* The inputs are read and the instructions run.
LEMMA FreshMeans ==
    ASSUME NEW d \in Designs, NEW K \in Kernels(d), NEW x \in States, OnTheWay(d, K, x),
           Unsent(d, K) = {}, Waiting(d, K) = {}, NEW in \in Data,
           SupportedStep(d, "ext", x, ~ K.booted, in), SupportedMemory(d, K, in),
           NEW y, y = IlaStep(d, "ext", x, ~ K.booted, in),
           NEW L, L = RunBody(d, "ext", Resumed(K, in), ChildBound)
    PROVE  y \in States /\ L \in Kernels(d) /\ L.hung = K.hung /\ OnTheWay(d, L, y)
<1> DEFINE R == Resumed(K, in)
<1>1. /\ R \in Kernels(d) /\ R.s = K.s /\ R.mem = K.mem /\ R.hung = K.hung
      /\ R.maps = K.maps /\ R.iter = K.iter /\ R.ctrl = K.ctrl /\ R.data = K.data
      /\ R.in = in
  BY ResumedMeans
<1>2. Idle(d, K, x) /\ x = StateOf(K)
  BY RestMeans
<1> HIDE DEF R
<1>3. x = StateOf(R) /\ x.s = R.s /\ x.mem = R.mem
  BY <1>1, <1>2 DEF StateOf
<1>4. y = ChildRun(d, ChildStart(d, "ext", TopStep(d, x, in)), in, ChildBound)
  BY DEF IlaStep, ChildStart
<1>5. /\ OneHot(d.top, x.s, in) /\ NoLaterInstr(d, x, in)
      /\ \A s \in Regs : OneHot(d.kid, s, in)
      /\ KidOn(d, y.s, in) = {}
  BY DEF SupportedStep, ChildEnds
<1>6. Begins(d, R)
  <2>1. Owed(d, R, R.mem)
    <3>1. Owed(d, K, x.mem)
      BY DEF OnTheWay
    <3>2. Owed(d, R, x.mem)
      BY <1>1, <3>1, OwedKept, Zenon
    <3> QED
      BY <1>3, <3>2
  <2>2. Unsent(d, R) = {}
    BY <1>1 DEF Unsent
  <2>3. SupportedMemory(d, R, R.in)
    BY <1>1 DEF SupportedMemory
  <2>4. \A j \in DOMAIN Instrs(d) : R.ctrl[j] = 0
    BY <1>1, <1>2 DEF Idle
  <2>5. OneHot(d.top, R.s, R.in) /\ NoLaterInstr(d, StateOf(R), R.in)
    BY <1>1, <1>3, <1>5
  <2> QED
    BY <2>1, <2>2, <2>3, <2>4, <2>5 DEF Begins
<1>7. /\ y = ChildRun(d, ChildStart(d, "ext", TopStep(d, StateOf(R), R.in)), R.in, ChildBound)
      /\ \A s \in Regs : OneHot(d.kid, s, R.in)
      /\ KidOn(d, y.s, R.in) = {}
  BY <1>1, <1>3, <1>4, <1>5
<1>8. L = RunBody(d, "ext", R, ChildBound) /\ ChildBound \in Nat
  BY BoundsAssumption DEF R
<1>9. y \in States /\ Same(d, R, L) /\ OnTheWay(d, L, y)
  BY <1>1, <1>6, <1>7, <1>8, ExtBody
<1> QED
  BY <1>1, <1>9 DEF Same

\* Sending an entry changes nothing of what is under way.
LEMMA SentOnTheWay ==
    ASSUME NEW d \in Designs, NEW K \in Kernels(d), NEW x \in States, OnTheWay(d, K, x),
           Unsent(d, K) # {}, NEW L, L = Sent(d, K)
    PROVE  L \in Kernels(d) /\ L.hung = K.hung /\ OnTheWay(d, L, x)
<1>1. x.mem \in Memories /\ Owed(d, K, x.mem)
  BY DEF States, OnTheWay
<1>2. /\ L \in Kernels(d) /\ Owed(d, L, x.mem)
      /\ L.s = K.s /\ L.in = K.in /\ L.booted = K.booted /\ L.hung = K.hung
      /\ L.maps = K.maps /\ L.ctrl = K.ctrl /\ L.data = K.data
      /\ \A a \in Addrs : Settled(d, K, a) => Settled(d, L, a) /\ L.mem[a] = K.mem[a]
  BY <1>1, SendMeans
<1>3. Idle(d, K, x) => Idle(d, L, x)
  BY <1>2 DEF Idle
<1>4. ASSUME NEW i, Loads(d, K, x, i) PROVE Loads(d, L, x, i)
  <2>1. d.top[i].ld \in Addrs
    BY <1>4, WaitingMeans
  <2>2. Settled(d, L, d.top[i].ld) /\ L.mem[d.top[i].ld] = K.mem[d.top[i].ld]
    BY <1>2, <1>4, <2>1 DEF Loads
  <2> QED
    BY <1>2, <1>4, <2>2 DEF Loads
<1> QED
  BY <1>2, <1>3, <1>4 DEF OnTheWay

\* As long as all steps were of a supported shape the simulator is on the way to
\* the state of the ILA, and a request that is on the port is that of a load.
ExtInv ==
    target.kind = "ext" /\ faithful =>
        /\ k \in Kernels(design) /\ ~ k.hung /\ ref \in States /\ OnTheWay(design, k, ref)
        /\ bus[1] => /\ Unsent(design, k) = {} /\ Waiting(design, k) # {}
                     /\ bus[2] = ReadRequest(design, k)

\* At first nothing is under way.
LEMMA ExtInit == Init => ExtInv
<1> SUFFICES ASSUME Init, faithful PROVE ExtInv
  BY DEF ExtInv
<1>1. PICK s \in Regs, junk \in {0, 1}, m \in Memories :
        /\ k = Kernel(design, s, m, junk) /\ ref = [s |-> s, mem |-> m]
        /\ faithful <=> junk = 0
  BY InitKernel, Zenon
<1>2. design \in Designs /\ bus = <<FALSE, 0>>
  BY DEF Init
<1>3. /\ k \in Kernels(design) /\ ~ k.hung /\ k.s = s /\ k.mem = m
      /\ \A j \in DOMAIN Instrs(design) : k.maps[j] = <<>> /\ k.ctrl[j] = junk
  BY <1>1, <1>2, KernelTyped
<1>4. junk = 0 /\ ref.s = s /\ ref.mem = m /\ ref \in States
  BY <1>1 DEF States
<1>5. \A j \in Storing(design) : DOMAIN k.maps[j] = {}
  BY <1>3, EmptyMap DEF Storing
<1>6. Owed(design, k, ref.mem)
  BY <1>3, <1>4, <1>5, FS_EmptySet DEF Owed
<1>7. Idle(design, k, ref)
  BY <1>3, <1>4 DEF Idle
<1>8. ~ bus[1]
  BY <1>2
<1> QED
  BY <1>3, <1>4, <1>6, <1>7, <1>8 DEF ExtInv, OnTheWay

\* Sending, asking for data and running keep a simulator on the way.
LEMMA ExtStep == Setting /\ ExtInv /\ [Next]_vars => ExtInv'
<1> SUFFICES ASSUME Setting, ExtInv, [Next]_vars, target.kind = "ext", faithful'
             PROVE  ExtInv'
  BY SettingStep DEF ExtInv
<1> DEFINE d == design
<1>0. /\ d \in Designs /\ Storing(d) # {} /\ d' = d
  BY SettingStep DEF Setting, Supports, Elaborates
\* What ExtInv says in the next state.
<1> DEFINE Good(K, x, b) ==
             /\ K \in Kernels(d) /\ ~ K.hung /\ x \in States /\ OnTheWay(d, K, x)
             /\ b[1] => /\ Unsent(d, K) = {} /\ Waiting(d, K) # {}
                        /\ b[2] = ReadRequest(d, K)
<1>1. faithful => Good(k, ref, bus)
  BY DEF ExtInv
<1>2. Good(k', ref', bus') => ExtInv'
  BY <1>0 DEF ExtInv
<1>3. CASE UNCHANGED vars
  <2>1. faithful /\ k' = k /\ ref' = ref /\ bus' = bus
    BY <1>3 DEF vars
  <2> HIDE DEF Good
  <2> QED
    BY <1>1, <1>2, <2>1
<1>4. ASSUME NEW ready \in BOOLEAN, ComputeSends(ready) PROVE ExtInv'
  <2>1. /\ faithful /\ ref' = ref /\ bus' = bus /\ Unsent(d, k) # {}
        /\ k' = IF ready THEN Sent(d, k) ELSE k
    BY <1>4 DEF ComputeSends, Sent
  <2>2. Good(k, ref, bus)
    BY <1>1, <2>1
  <2>3. /\ Sent(d, k) \in Kernels(d) /\ Sent(d, k).hung = k.hung
        /\ OnTheWay(d, Sent(d, k), ref)
    BY <1>0, <2>1, <2>2, SentOnTheWay
  <2>4. ~ bus[1]
    BY <2>1, <2>2
  <2>5. Good(k', ref', bus')
    BY <2>1, <2>2, <2>3, <2>4
  <2> QED
    BY <1>2, <2>5
<1>5. CASE ComputeAwaits
  <2>1. /\ faithful /\ ref' = ref /\ bus' = <<TRUE, ReadRequest(d, k)>> /\ k' = k
        /\ Unsent(d, k) = {} /\ Waiting(d, k) # {}
    BY <1>5 DEF ComputeAwaits
  <2>2. Good(k, ref, bus)
    BY <1>1, <2>1
  <2>3. bus'[2] = ReadRequest(d, k)
    BY <2>1
  <2>4. Good(k', ref', bus')
    BY <2>1, <2>2, <2>3
  <2> QED
    BY <1>2, <2>4
<1>6. ASSUME NEW in \in Data, ComputeRuns(in) PROVE ExtInv'
  <2> DEFINE K == IF Waiting(d, k) = {} THEN k ELSE Received(d, k, k.mem[bus[2]])
             fresh == FreshInputs(d, K)
             R == [K EXCEPT !.in = IF fresh THEN in ELSE @, !.booted = TRUE]
             L == RunBody(d, "ext", R, ChildBound)
  <2>1. /\ Unsent(d, k) = {} /\ (Waiting(d, k) # {} => bus[1])
        /\ k' = (IF L.hung THEN L ELSE ExtReturn(d, L))
        /\ IF fresh THEN StartStep(in) ELSE UNCHANGED <<ref, faithful>>
        /\ bus' = <<Waiting(d, k) = {} /\ bus[1], bus[2]>>
    BY <1>6 DEF ComputeRuns
  <2>2. faithful
    BY <2>1 DEF StartStep
  <2>3. Good(k, ref, bus)
    BY <1>1, <2>2
  <2>4. ~ bus'[1]
    BY <2>1, <2>3
  <2>5. ASSUME ExtReturn(d, L) \in Kernels(d), ExtReturn(d, L).hung = L.hung, ~ L.hung,
               ref' \in States, OnTheWay(d, ExtReturn(d, L), ref')
        PROVE  ExtInv'
    <3>1. k' = ExtReturn(d, L)
      BY <2>1, <2>5
    <3> HIDE DEF L
    <3>2. Good(k', ref', bus')
      BY <2>4, <2>5, <3>1
    <3> QED
      BY <1>2, <3>2
  <2> HIDE DEF L
  <2>6. CASE Waiting(d, k) = {}
    <3>1. K = k
      BY <2>6
    <3>2. fresh /\ OnTheWay(d, k, ref)
      BY <1>0, <2>1, <2>3, <2>6, <3>1, RestMeans
    <3>3. R = Resumed(k, in)
      <4> HIDE DEF K, fresh
      <4> QED
        BY <3>1, <3>2 DEF Resumed
    <3>4. /\ ref' = IlaStep(d, "ext", ref, ~ k.booted, in)
          /\ SupportedStep(d, "ext", ref, ~ k.booted, in) /\ SupportedMemory(d, k, in)
      BY <2>1, <3>2 DEF StartStep
    <3>5. L = RunBody(d, "ext", Resumed(k, in), ChildBound)
      BY <3>3 DEF L
    <3>6. k \in Kernels(d) /\ ~ k.hung /\ ref \in States
      BY <2>3
    <3> HIDE DEF K, fresh, R, Good
    <3>7. ref' \in States /\ L \in Kernels(d) /\ L.hung = k.hung /\ OnTheWay(d, L, ref')
      BY <1>0, <2>1, <2>6, <3>2, <3>4, <3>5, <3>6, FreshMeans
    <3>8. Owed(d, L, ref'.mem)
      BY <3>7 DEF OnTheWay
    <3>9. /\ ExtReturn(d, L) \in Kernels(d) /\ ExtReturn(d, L).hung = L.hung
          /\ OnTheWay(d, ExtReturn(d, L), ref')
      BY <1>0, <3>7, <3>8, ReturnMeans
    <3> QED
      BY <2>5, <3>6, <3>7, <3>9
  <2>7. CASE Waiting(d, k) # {}
    <3>1. bus[2] = ReadRequest(d, k)
      BY <2>1, <2>3, <2>7
    <3>2. PICK i : Loads(d, k, ref, i)
      <4>1. ~ Idle(d, k, ref)
        BY <2>7 DEF Idle, Waiting, Loading
      <4> QED
        BY <2>3, <4>1 DEF OnTheWay
    <3> DEFINE G == Received(d, k, k.mem[ReadRequest(d, k)])
    <3>3. K = G
      BY <2>7, <3>1
    <3>4. k \in Kernels(d) /\ ~ k.hung /\ ref \in States /\ Owed(d, k, ref.mem)
      BY <2>3 DEF OnTheWay
    <3> DEFINE M == RunBody(d, "ext", Resumed(G, G.in), ChildBound)
    <3>5. ChildBound \in Nat
      BY BoundsAssumption
    <3> HIDE DEF K, fresh, Good
    <3>6. /\ ~ FreshInputs(d, G) /\ M \in Kernels(d) /\ M.hung = k.hung
          /\ Owed(d, M, ref.mem) /\ M.s = ref.s /\ Unsent(d, M) = {} /\ Waiting(d, M) = {}
      BY <1>0, <2>1, <3>2, <3>4, <3>5, AnswerMeans
    <3> HIDE DEF G
    <3>7. ~ fresh
      BY <3>3, <3>6 DEF fresh
    <3>8. R = Resumed(G, G.in)
      BY <3>3, <3>7 DEF Resumed
    <3>9. L = M
      BY <3>8 DEF L
    <3>10. ref' = ref
      BY <2>1, <3>7
    <3> HIDE DEF M
    <3>11. /\ ExtReturn(d, L) \in Kernels(d) /\ ExtReturn(d, L).hung = L.hung
           /\ OnTheWay(d, ExtReturn(d, L), ref)
      BY <1>0, <3>4, <3>6, <3>9, ReturnMeans
    <3> QED
      BY <2>5, <3>4, <3>6, <3>9, <3>10, <3>11
  <2> QED
    BY <2>6, <2>7
<1>7. \/ \E ready \in BOOLEAN : ComputeSends(ready)
      \/ ComputeAwaits
      \/ \E in \in Data : ComputeRuns(in)
      \/ UNCHANGED vars
  BY DEF Next, Edge, Compute
<1> QED
  BY <1>3, <1>4, <1>5, <1>6, <1>7

\* As long as every step had a supported shape, the simulators of Ilator and of
\* IlaSim never stay in their child loop, and once all stores were sent and all
\* loads were answered, in whatever order and with whatever delay the external
\* memory takes them, they hold the registers and the memory of the ILA.
THEOREM SimCorrect == Spec => []SimExact
<1>1. Init => Setting /\ SimInv /\ ExtInv
  BY SettingInit, SimInit, ExtInit
<1>2. Setting /\ SimInv /\ ExtInv /\ [Next]_vars => (Setting /\ SimInv /\ ExtInv)'
  BY SettingKept, SimStep, ExtStep
<1>3. Setting /\ SimInv /\ ExtInv => SimExact
  <2> SUFFICES ASSUME Setting, SimInv, ExtInv, target.kind # "vlg", faithful
               PROVE  ~ k.hung /\ (Quiescent => k.s = ref.s /\ k.mem = ref.mem)
    BY DEF SimExact
  <2>1. target.kind \in {"ilator", "sim", "ext"}
    BY DesignAssumption DEF Setting
  <2>2. CASE target.kind \in {"ilator", "sim"}
    BY <2>2 DEF SimInv, StateOf
  <2>3. CASE target.kind = "ext"
    <3>1. k \in Kernels(design) /\ ~ k.hung /\ ref \in States /\ OnTheWay(design, k, ref)
      BY <2>3 DEF ExtInv
    <3>2. ASSUME Quiescent PROVE ref = StateOf(k)
      BY <3>1, <3>2, RestMeans DEF Quiescent, Setting
    <3> QED
      BY <3>1, <3>2 DEF StateOf
  <2> QED
    BY <2>1, <2>2, <2>3
<1> QED
  BY <1>1, <1>2, <1>3, PTL DEF Spec

=============================================================================
