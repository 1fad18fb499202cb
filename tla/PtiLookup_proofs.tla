-------------------------- MODULE PtiLookup_proofs --------------------------
(***************************************************************************)
(* Proofs about the PTI adapter's interpreter of line programs and its     *)
(* look-up: for every program, kernel and list of addresses.               *)
(***************************************************************************)
EXTENDS PtiLookup, NumberLemmas, SequenceTheorems, FiniteSetTheorems, TLAPS

-----------------------------------------------------------------------------
(* Division and remainders.                                                *)

\* Division by a positive number.
LEMMA Division ==
  ASSUME NEW m \in Nat \ {0}, NEW x \in Int
  PROVE  /\ x \div m \in Int /\ x % m \in 0 .. m - 1 /\ x = m * (x \div m) + (x % m)
         /\ x >= 0 => x \div m \in Nat
<1>1. x \div m \in Int /\ x % m \in 0 .. m - 1 /\ x = m * (x \div m) + (x % m)
  OBVIOUS
<1> DEFINE d == x \div m
           r == x % m
<1> HIDE DEF d, r
<1>2. ASSUME x >= 0, d <= -1 PROVE FALSE
  <2>1. m * d <= -m
    BY <1>1, <1>2 DEF d
  <2>2. QED
    BY <1>1, <1>2, <2>1 DEF d, r
<1>3. x >= 0 => d \in Nat
  BY <1>1, <1>2 DEF d
<1>4. QED
  BY <1>1, <1>3 DEF d

\* The quotient is the only one.
LEMMA DivUnique ==
  ASSUME NEW m \in Nat \ {0}, NEW q \in Int, NEW r \in 0 .. m - 1
  PROVE  (m * q + r) \div m = q
<1> DEFINE a == m * q + r
           d == a \div m
<1>1. a \in Int /\ d \in Int /\ a = m * d + (a % m) /\ a % m = r
  <2>1. a \in Int
    OBVIOUS
  <2>2. a % m = r
    BY ModUnique
  <2> HIDE DEF a
  <2>3. QED
    BY <2>1, <2>2, Division
<1> HIDE DEF a, d
<1>2. m * (d - q) = 0
  <2>1. m * d + r = m * q + r
    BY <1>1 DEF a
  <2>2. QED
    BY <1>1, <2>1
<1>3. ~ (d - q >= 1)
  <2>1. SUFFICES ASSUME d - q >= 1 PROVE FALSE
    OBVIOUS
  <2>2. m * (d - q) >= m
    BY <1>1, <2>1
  <2>3. QED
    BY <1>2, <2>2
<1>4. ~ (d - q <= -1)
  <2>1. SUFFICES ASSUME d - q <= -1 PROVE FALSE
    OBVIOUS
  <2>2. m * (d - q) <= -m
    BY <1>1, <2>1
  <2>3. QED
    BY <1>2, <2>2
<1>5. d = q
  BY <1>1, <1>3, <1>4
<1>6. QED
  BY <1>5 DEF a, d

\* A sum may be reduced on the way.
LEMMA ModAdd ==
  ASSUME NEW m \in Nat \ {0}, NEW x \in Int, NEW y \in Int
  PROVE  ((x % m) + y) % m = (x + y) % m
<1> DEFINE d == x \div m
           z == (x % m) + y
           q == z \div m
           r == z % m
<1>1. d \in Int /\ z \in Int /\ x = m * d + (x % m) /\ x % m \in Int
  BY Division
<1>2. q \in Int /\ r \in 0 .. m - 1 /\ z = m * q + r
  BY <1>1, Division
<1>3. x + y = m * (d + q) + r
  <2> HIDE DEF d, q, r
  <2>1. x + y = m * d + (m * q + r)
    BY <1>1, <1>2
  <2>2. m * d + (m * q + r) = m * (d + q) + r
    BY <1>1, <1>2
  <2>3. QED
    BY <2>1, <2>2
<1>4. (x + y) % m = r
  <2> HIDE DEF d, q, r
  <2> DEFINE n == d + q
  <2>0. n \in Int
    BY <1>1, <1>2
  <2> HIDE DEF n
  <2>1. (m * n + r) % m = r
    BY <1>2, <2>0, ModUnique
  <2>2. QED
    BY <1>3, <2>1 DEF n
<1>5. QED
  BY <1>4

\* Whole instructions and what is left of them, when operations are added.
LEMMA DivAdd ==
  ASSUME NEW m \in Nat \ {0}, NEW x \in Int, NEW y \in Int
  PROVE  /\ (x + y) \div m = x \div m + ((x % m) + y) \div m
         /\ (x + y) % m = ((x % m) + y) % m
<1> DEFINE d == x \div m
           z == (x % m) + y
           q == z \div m
           r == z % m
<1>1. d \in Int /\ z \in Int /\ x = m * d + (x % m) /\ x % m \in Int
  BY Division
<1>2. q \in Int /\ r \in 0 .. m - 1 /\ z = m * q + r
  BY <1>1, Division
<1>3. x + y = m * (d + q) + r
  <2> HIDE DEF d, q, r
  <2>1. x + y = m * d + (m * q + r)
    BY <1>1, <1>2
  <2>2. m * d + (m * q + r) = m * (d + q) + r
    BY <1>1, <1>2
  <2>3. QED
    BY <2>1, <2>2
<1>4. (x + y) \div m = d + q
  <2> HIDE DEF d, q, r
  <2> DEFINE n == d + q
  <2>0. n \in Int
    BY <1>1, <1>2
  <2> HIDE DEF n
  <2>1. (m * n + r) \div m = n
    BY <1>2, <2>0, DivUnique
  <2>2. QED
    BY <1>3, <2>1 DEF n
<1>5. QED
  BY <1>4, ModAdd

\* Less than an instruction and some operations are no more instructions than
\* there are operations.
LEMMA DivBound ==
  ASSUME NEW m \in Nat \ {0}, NEW x \in 0 .. m - 1, NEW y \in Nat
  PROVE  (x + y) \div m \in 0 .. y
<1> DEFINE d == (x + y) \div m
<1>1. d \in Nat /\ (x + y) % m \in 0 .. m - 1 /\ x + y = m * d + ((x + y) % m)
  <2>1. x + y \in Int /\ x + y >= 0
    OBVIOUS
  <2>2. QED
    BY <2>1, Division
<1> HIDE DEF d
<1>2. m * d < m + y
  BY <1>1
<1>3. ASSUME d >= y + 1 PROVE FALSE
  <2>1. m * d >= m * (y + 1)
    BY <1>1, <1>3
  <2>2. m * (y + 1) = m * y + m /\ m * y >= y
    OBVIOUS
  <2>3. QED
    BY <1>1, <1>2, <2>1, <2>2
<1>4. QED
  BY <1>1, <1>3 DEF d

-----------------------------------------------------------------------------
(* The meaning of programs: the recursive functions exist and go on by      *)
(* one operation.                                                          *)

\* What the operations advance are numbers, and of operations none negative.
LEMMA AdvanceFacts ==
  ASSUME NEW h \in Header, NEW op \in Op
  PROVE  OperationAdvance(h, op) \in Nat /\ LineAdvance(h, op) \in Int
<1>1. h.lineRange \in Nat \ {0} /\ h.lineBase \in Int /\ 255 - h.opcodeBase \in Nat
  BY DEF Header
<1>2. op.n \in Int /\ (op.kind = "special" => op.n \in Nat) /\ (op.kind = "advance_pc" => op.n \in Nat)
  <2>1. op \in [kind : Kinds, n : Int]
    BY DEF Op
  <2>2. op.kind # "advance_line" => op.n \in Nat
    BY DEF Op
  <2>3. QED
    BY <2>1, <2>2
<1> DEFINE range == h.lineRange
           constant == 255 - h.opcodeBase
<1>3. ConstantAdvance(h) \in Nat
  <2>1. range \in Nat \ {0} /\ constant \in Int /\ constant >= 0
    BY <1>1
  <2>2. ConstantAdvance(h) = constant \div range
    BY DEF ConstantAdvance
  <2> HIDE DEF range, constant
  <2>3. QED
    BY <2>1, <2>2, Division
<1>4. (op.kind = "special" => op.n \div h.lineRange \in Nat) /\ op.n % h.lineRange \in Int
  <2> DEFINE number == op.n
  <2>1. range \in Nat \ {0} /\ number \in Int /\ (op.kind = "special" => number >= 0)
    BY <1>1, <1>2
  <2> HIDE DEF range, number
  <2>2. (op.kind = "special" => number \div range \in Nat) /\ number % range \in Int
    BY <2>1, Division
  <2>3. QED
    BY <2>2 DEF range, number
<1>5. OperationAdvance(h, op) \in Nat
  BY <1>2, <1>3, <1>4 DEF OperationAdvance
<1>6. LineAdvance(h, op) \in Int
  BY <1>1, <1>2, <1>4 DEF LineAdvance
<1>7. QED
  BY <1>5, <1>6

\* A sum grows by a number at a time.
LEMMA SumsFacts ==
  ASSUME NEW s \in Seq(Int)
  PROVE  /\ Sums(s)[0] = 0
         /\ \A i \in 0 .. Len(s) : Sums(s)[i] \in Int
         /\ \A i \in 1 .. Len(s) : Sums(s)[i] = Sums(s)[i - 1] + s[i]
<1> DEFINE N == Len(s)
           G == [p \in (1 .. N) \X Int |-> p[2] + s[p[1]]]
           Is(sum) == sum = [i \in 0 .. N |-> IF i = 0 THEN 0 ELSE sum[i - 1] + s[i]]
           b == Sums(s)
<1>1. N \in Nat /\ 0 \in Int /\ G \in [(1 .. N) \X Int -> Int] /\ \A i \in 1 .. N : s[i] \in Int
  OBVIOUS
<1>2. PICK f \in [0 .. N -> Int] : f[0] = 0 /\ \A i \in 1 .. N : f[i] = G[<<i, f[i - 1]>>]
  <2> HIDE DEF N, G
  <2>1. \E f \in [0 .. N -> Int] : Recurs(f, N, 0, G)
    BY <1>1, Recursion
  <2>2. QED
    BY <2>1 DEF Recurs
<1>3. ASSUME NEW i \in 1 .. N
      PROVE  f[i] = f[i - 1] + s[i]
  <2>1. i - 1 \in 0 .. N
    BY <1>1
  <2>2. f[i - 1] \in Int
    BY <1>2, <2>1
  <2>3. G[<<i, f[i - 1]>>] = f[i - 1] + s[i]
    BY <2>2
  <2> HIDE DEF G, N
  <2>4. QED
    BY <1>2, <2>3
<1>4. Is(f)
  <2>1. \A i \in 0 .. N : i = 0 \/ i \in 1 .. N
    BY <1>1
  <2> HIDE DEF G, N
  <2>2. \A i \in 0 .. N : f[i] = IF i = 0 THEN 0 ELSE f[i - 1] + s[i]
    BY <1>2, <1>3, <2>1
  <2>3. QED
    BY <1>2, <2>2
<1>5. b = CHOOSE sum : Is(sum)
  BY DEF Sums
<1>6. Is(b)
  <2> HIDE DEF Is
  <2>1. QED
    BY <1>4, <1>5
<1>7. b[0] = 0 /\ \A i \in 1 .. N : b[i] = b[i - 1] + s[i]
  <2> HIDE DEF b, N
  <2>1. \A i \in 0 .. N : b[i] = IF i = 0 THEN 0 ELSE b[i - 1] + s[i]
    BY <1>6
  <2>2. QED
    BY <1>1, <2>1
<1> HIDE DEF b, Is
<1>8. \A i \in 0 .. N : b[i] \in Int
  <2> DEFINE S == {i \in Nat : i <= N => b[i] \in Int}
  <2>1. 0 \in S
    BY <1>7
  <2>2. ASSUME NEW i \in Nat, i \in S
        PROVE  i + 1 \in S
    <3>1. SUFFICES ASSUME i + 1 <= N PROVE b[i + 1] \in Int
      OBVIOUS
    <3>2. b[i] \in Int /\ i + 1 \in 1 .. N
      BY <1>1, <2>2, <3>1
    <3>3. b[i + 1] = b[i] + s[i + 1] /\ s[i + 1] \in Int
      BY <1>1, <1>7, <3>2
    <3>4. QED
      BY <3>2, <3>3
  <2> HIDE DEF S
  <2>3. Nat \subseteq S
    BY <2>1, <2>2, NatSetInduction
  <2>4. QED
    BY <1>1, <2>3 DEF S
<1>9. QED
  BY <1>7, <1>8 DEF b

\* The last operation of some kinds, when one operation more is considered.
LEMMA LastOfStep ==
  ASSUME NEW p, NEW kinds, NEW i \in Nat
  PROVE  /\ LastOf(p, kinds, 0) = 0
         /\ LastOf(p, kinds, i) \in 0 .. i
         /\ LastOf(p, kinds, i) # 0 => p[LastOf(p, kinds, i)].kind \in kinds
         /\ p[i + 1].kind \in kinds => LastOf(p, kinds, i + 1) = i + 1
         /\ p[i + 1].kind \notin kinds => LastOf(p, kinds, i + 1) = LastOf(p, kinds, i)
<1> DEFINE Those(j) == {k \in 1 .. j : p[k].kind \in kinds} \union {0}
<1>1. ASSUME NEW j \in Nat
      PROVE  LastOf(p, kinds, j) \in Those(j) /\ \A k \in Those(j) : k <= LastOf(p, kinds, j)
  <2>1. Those(j) \subseteq Nat /\ Those(j) # {} /\ \A k \in Those(j) : k <= j
    OBVIOUS
  <2>2. LastOf(p, kinds, j) = Max(Those(j))
    BY DEF LastOf
  <2> HIDE DEF Those
  <2>3. QED
    BY <2>1, <2>2, MaxIsGreatest
<1>2. LastOf(p, kinds, 0) = 0
  BY <1>1
<1>3. LastOf(p, kinds, i) \in 0 .. i /\ (LastOf(p, kinds, i) # 0 => p[LastOf(p, kinds, i)].kind \in kinds)
  BY <1>1
<1>4. ASSUME p[i + 1].kind \in kinds
      PROVE  LastOf(p, kinds, i + 1) = i + 1
  <2>1. i + 1 \in Nat /\ i + 1 \in Those(i + 1) /\ \A k \in Those(i + 1) : k \in 0 .. i + 1
    BY <1>4
  <2> HIDE DEF Those
  <2>2. QED
    BY <1>1, <2>1
<1>5. ASSUME p[i + 1].kind \notin kinds
      PROVE  LastOf(p, kinds, i + 1) = LastOf(p, kinds, i)
  <2>1. Those(i + 1) = Those(i)
    BY <1>5
  <2>2. LastOf(p, kinds, i + 1) = Max(Those(i + 1)) /\ LastOf(p, kinds, i) = Max(Those(i))
    BY DEF LastOf
  <2> HIDE DEF Those
  <2>3. QED
    BY <2>1, <2>2
<1>6. QED
  BY <1>2, <1>3, <1>4, <1>5

\* Where the count of operations begins, as the address before it.
From(a, p, r) ==
  IF r = 0 THEN 0 ELSE IF p[r].kind = "set_address" THEN p[r].n ELSE a[r - 1] + p[r].n

\* The address that many operations after it.
Moved(h, from, done) == (from + h.minInst * (done \div h.maxOps)) % AddressSpace

LEMMA MovedType ==
  ASSUME NEW h \in Header, NEW from \in Int, NEW done \in Int
  PROVE  Moved(h, from, done) \in 0 .. AddressSpace - 1
<1> DEFINE d == done \div h.maxOps
           m == h.minInst
           x == from + m * d
<1>1. m \in Nat /\ h.maxOps \in Nat \ {0} /\ AddressSpace \in Nat \ {0}
  BY SpacesAssumption DEF Header
<1>2. d \in Int
  BY <1>1, Division
<1>3. x \in Int
  <2> HIDE DEF d, m
  <2>1. m * d \in Int
    BY <1>1, <1>2
  <2>2. QED
    BY <2>1
<1> HIDE DEF x
<1>4. x % AddressSpace \in 0 .. AddressSpace - 1
  BY <1>1, <1>3, Division
<1>5. QED
  BY <1>4 DEF x, Moved

\* The operations and lines moved are sums.
LEMMA MovedSums ==
  ASSUME NEW h \in Header, NEW p \in Seq(Op)
  PROVE  LET moved == OperationsMoved(h, p)
             lines == LinesMoved(h, p)
         IN  /\ moved[0] = 0 /\ lines[0] = 0
             /\ \A i \in 0 .. Len(p) : moved[i] \in Int /\ lines[i] \in Int
             /\ \A i \in 1 .. Len(p) :
                  /\ moved[i] = moved[i - 1] + OperationAdvance(h, p[i])
                  /\ lines[i] = lines[i - 1] + LineAdvance(h, p[i])
<1> DEFINE s == [k \in DOMAIN p |-> OperationAdvance(h, p[k])]
           t == [k \in DOMAIN p |-> LineAdvance(h, p[k])]
<1>1. \A k \in 1 .. Len(p) : p[k] \in Op
  OBVIOUS
<1>2. \A k \in 1 .. Len(p) : OperationAdvance(h, p[k]) \in Int /\ LineAdvance(h, p[k]) \in Int
  BY <1>1, AdvanceFacts
<1>3. /\ s \in Seq(Int) /\ Len(s) = Len(p) /\ \A i \in 1 .. Len(p) : s[i] = OperationAdvance(h, p[i])
      /\ t \in Seq(Int) /\ Len(t) = Len(p) /\ \A i \in 1 .. Len(p) : t[i] = LineAdvance(h, p[i])
  <2>1. s \in [1 .. Len(p) -> Int] /\ t \in [1 .. Len(p) -> Int] /\ Len(p) \in Nat
    BY <1>2
  <2>2. s \in Seq(Int) /\ Len(s) = Len(p) /\ t \in Seq(Int) /\ Len(t) = Len(p)
    <3> HIDE DEF s, t
    <3>1. QED
      BY <2>1
  <2>3. QED
    BY <2>2
<1>4. OperationsMoved(h, p) = Sums(s) /\ LinesMoved(h, p) = Sums(t)
  BY DEF OperationsMoved, LinesMoved
<1> HIDE DEF s, t
<1>5. QED
  BY <1>3, <1>4, SumsFacts

\* The addresses are what their definition says: it goes back to the operation
\* before the last that set the address, so the recursion that shows that there
\* are such addresses carries that operation along.
LEMMA AddressesDef ==
  ASSUME NEW h \in Header, NEW p \in Seq(Op)
  PROVE  LET a == Addresses(h, p)
             moved == OperationsMoved(h, p)
         IN  \A i \in 0 .. Len(p) :
               /\ From(a, p, LastReset(p, i)) \in Int
               /\ a[i] = Moved(h, From(a, p, LastReset(p, i)), moved[i] - moved[LastReset(p, i)])
               /\ a[i] \in 0 .. AddressSpace - 1
<1> DEFINE N == Len(p)
           moved == OperationsMoved(h, p)
           V == Int \X (0 .. N)
           At(i, b) == Moved(h, b[1], moved[i] - moved[b[2]])
           Step(i, b) == IF p[i].kind = "set_address" THEN <<p[i].n, i>>
                         ELSE IF p[i].kind = "fixed_advance_pc" THEN <<At(i - 1, b) + p[i].n, i>>
                         ELSE b
           G == [q \in (1 .. N) \X V |-> Step(q[1], q[2])]
           Is(a) == a = [i \in 0 .. N |->
                           Moved(h, From(a, p, LastReset(p, i)), moved[i] - moved[LastReset(p, i)])]
           a == Addresses(h, p)
<1>1. N \in Nat /\ \A i \in 1 .. N : p[i] \in Op /\ p[i].n \in Int
  BY DEF Op
<1>2. \A i \in 0 .. N : moved[i] \in Int
  BY MovedSums
<1>3. \A i \in 0 .. N : LastReset(p, i) \in 0 .. i
  <2>1. \A i \in 0 .. N : i \in Nat
    BY <1>1
  <2>2. QED
    BY <2>1, LastOfStep DEF LastReset
<1> HIDE DEF moved
<1>4. ASSUME NEW i \in 0 .. N, NEW b \in V
      PROVE  At(i, b) \in 0 .. AddressSpace - 1 /\ At(i, b) \in Int
  <2>1. b[1] \in Int /\ b[2] \in 0 .. N /\ AddressSpace \in Nat
    BY SpacesAssumption
  <2>2. moved[i] - moved[b[2]] \in Int
    BY <1>2, <2>1
  <2>3. At(i, b) \in 0 .. AddressSpace - 1
    BY <2>1, <2>2, MovedType
  <2> HIDE DEF At
  <2>4. QED
    BY <2>1, <2>3
<1>5. ASSUME NEW i \in 1 .. N, NEW b \in V
      PROVE  Step(i, b) \in V
  <2>1. i - 1 \in 0 .. N /\ i \in 0 .. N
    BY <1>1
  <2>2. At(i - 1, b) \in Int /\ p[i].n \in Int
    BY <1>1, <1>4, <2>1
  <2> HIDE DEF At
  <2>3. QED
    BY <1>1, <2>1, <2>2
<1> HIDE DEF At, Step, N
<1>6. <<0, 0>> \in V
  BY <1>1
<1>7. PICK f \in [0 .. N -> V] : f[0] = <<0, 0>> /\ \A i \in 1 .. N : f[i] = Step(i, f[i - 1])
  <2>1. G \in [(1 .. N) \X V -> V]
    BY <1>5
  <2>2. \A i \in 1 .. N : i - 1 \in 0 .. N
    BY <1>1
  <2>3. \A i \in 1 .. N : \A b \in V : G[<<i, b>>] = Step(i, b)
    OBVIOUS
  <2> HIDE DEF G, V
  <2>4. PICK f \in [0 .. N -> V] : Recurs(f, N, <<0, 0>>, G)
    BY <1>1, <1>6, <2>1, Recursion
  <2>5. f[0] = <<0, 0>> /\ \A i \in 1 .. N : f[i] = G[<<i, f[i - 1]>>]
    BY <2>4 DEF Recurs
  <2>6. \A i \in 1 .. N : f[i] = Step(i, f[i - 1])
    BY <2>2, <2>3, <2>5
  <2>7. QED
    BY <2>5, <2>6
<1> DEFINE g == [i \in 0 .. N |-> At(i, f[i])]
<1>8. \A i \in 0 .. N : f[i] = <<From(g, p, LastReset(p, i)), LastReset(p, i)>>
  <2> DEFINE S == {i \in Nat : i <= N => f[i] = <<From(g, p, LastReset(p, i)), LastReset(p, i)>>}
  <2>1. 0 \in S
    <3>1. LastReset(p, 0) = 0
      BY LastOfStep DEF LastReset
    <3>2. QED
      BY <1>7, <3>1 DEF From
  <2>2. ASSUME NEW i \in Nat, i \in S
        PROVE  i + 1 \in S
    <3>1. SUFFICES ASSUME i + 1 <= N
                   PROVE  f[i + 1] = <<From(g, p, LastReset(p, i + 1)), LastReset(p, i + 1)>>
      OBVIOUS
    <3>2. i + 1 \in 1 .. N /\ i \in 0 .. N /\ (i + 1) - 1 = i
      BY <1>1, <3>1
    <3>3. f[i] = <<From(g, p, LastReset(p, i)), LastReset(p, i)>> /\ g[i] = At(i, f[i])
      BY <2>2, <3>2
    <3>4. f[i + 1] = Step(i + 1, f[i])
      BY <1>7, <3>2
    <3> HIDE DEF g
    <3> DEFINE resets == {"set_address", "fixed_advance_pc"}
    <3>0. /\ p[i + 1].kind \in resets => LastReset(p, i + 1) = i + 1
          /\ p[i + 1].kind \notin resets => LastReset(p, i + 1) = LastReset(p, i)
      <4> HIDE DEF resets
      <4>1. /\ p[i + 1].kind \in resets => LastOf(p, resets, i + 1) = i + 1
            /\ p[i + 1].kind \notin resets => LastOf(p, resets, i + 1) = LastOf(p, resets, i)
        BY LastOfStep
      <4>2. QED
        BY <4>1 DEF LastReset, resets
    <3>5. CASE p[i + 1].kind \in {"set_address", "fixed_advance_pc"}
      <4>1. LastReset(p, i + 1) = i + 1 /\ i + 1 # 0
        BY <3>0, <3>5
      <4>2. CASE p[i + 1].kind = "set_address"
        BY <3>4, <4>1, <4>2 DEF From, Step
      <4>3. CASE p[i + 1].kind = "fixed_advance_pc"
        <5>1. f[i + 1] = <<At(i, f[i]) + p[i + 1].n, i + 1>>
          BY <3>2, <3>4, <4>3 DEF Step
        <5>2. From(g, p, i + 1) = g[i] + p[i + 1].n
          BY <3>2, <4>1, <4>3 DEF From
        <5>3. QED
          BY <3>3, <4>1, <5>1, <5>2
      <4>4. QED
        BY <3>5, <4>2, <4>3
    <3>6. CASE p[i + 1].kind \notin {"set_address", "fixed_advance_pc"}
      <4>1. LastReset(p, i + 1) = LastReset(p, i)
        BY <3>0, <3>6
      <4>2. f[i + 1] = f[i]
        BY <3>4, <3>6 DEF Step
      <4>3. QED
        BY <3>3, <4>1, <4>2
    <3>7. QED
      BY <3>5, <3>6
  <2> HIDE DEF S
  <2>3. Nat \subseteq S
    BY <2>1, <2>2, NatSetInduction
  <2>4. ASSUME NEW i \in 0 .. N
        PROVE  f[i] = <<From(g, p, LastReset(p, i)), LastReset(p, i)>>
    <3>1. i \in Nat /\ i <= N
      BY <1>1
    <3>2. i \in S
      BY <2>3, <3>1
    <3> HIDE DEF g
    <3>3. QED
      BY <3>1, <3>2 DEF S
  <2>5. QED
    BY <2>4
<1>9. Is(g)
  <2>1. \A i \in 0 .. N : g[i] = Moved(h, From(g, p, LastReset(p, i)), moved[i] - moved[LastReset(p, i)])
    BY <1>8 DEF At
  <2>2. g = [i \in 0 .. N |-> g[i]]
    OBVIOUS
  <2> HIDE DEF g
  <2>3. QED
    BY <2>1, <2>2
<1>10. a = CHOOSE x : Is(x)
  BY DEF Addresses, Moved, From, moved, N
<1>11. Is(a)
  <2> HIDE DEF Is, g
  <2>1. QED
    BY <1>9, <1>10
<1> HIDE DEF a, g
<1>12. \A i \in 0 .. N : a[i] = Moved(h, From(a, p, LastReset(p, i)), moved[i] - moved[LastReset(p, i)])
  BY <1>11
<1> HIDE DEF Is
<1> DEFINE Typed(i) == From(a, p, LastReset(p, i)) \in Int /\ a[i] \in 0 .. AddressSpace - 1
<1>13. \A i \in 0 .. N : Typed(i)
  <2> DEFINE S == {i \in Nat : \A j \in 0 .. i : j <= N => Typed(j)}
  <2>1. ASSUME NEW i \in 0 .. N, \A j \in 0 .. i - 1 : a[j] \in 0 .. AddressSpace - 1
        PROVE  Typed(i)
    <3> DEFINE r == LastReset(p, i)
    <3>1. r \in 0 .. i /\ r \in 0 .. N /\ AddressSpace \in Nat
      <4>1. r \in 0 .. i
        BY <1>3
      <4> HIDE DEF r
      <4>2. QED
        BY <1>1, <4>1, SpacesAssumption
    <3> HIDE DEF r
    <3>2. From(a, p, r) \in Int
      <4>1. CASE r = 0
        BY <4>1 DEF From
      <4>2. CASE r # 0
        <5>1. r \in 1 .. N /\ r - 1 \in 0 .. i - 1
          BY <1>1, <3>1, <4>2
        <5>2. p[r].n \in Int
          BY <1>1, <5>1
        <5>3. a[r - 1] \in 0 .. AddressSpace - 1
          BY <2>1, <5>1
        <5>4. a[r - 1] \in Int
          BY <3>1, <5>3
        <5>5. QED
          BY <5>1, <5>2, <5>4 DEF From
      <4>3. QED
        BY <4>1, <4>2
    <3>3. moved[i] - moved[r] \in Int
      BY <1>2, <3>1
    <3>4. Moved(h, From(a, p, r), moved[i] - moved[r]) \in 0 .. AddressSpace - 1
      BY <3>2, <3>3, MovedType
    <3>5. QED
      BY <1>12, <3>2, <3>4 DEF r
  <2>2. 0 \in S
    <3>1. \A j \in 0 .. 0 : j = 0
      OBVIOUS
    <3>2. 0 \in 0 .. N /\ \A j \in 0 .. 0 - 1 : FALSE
      BY <1>1
    <3>3. Typed(0)
      BY <2>1, <3>2
    <3> HIDE DEF Typed
    <3>4. QED
      BY <3>1, <3>3
  <2>3. ASSUME NEW i \in Nat, i \in S
        PROVE  i + 1 \in S
    <3>1. ASSUME i + 1 <= N
          PROVE  Typed(i + 1)
      <4>1. i + 1 \in 0 .. N /\ \A j \in 0 .. (i + 1) - 1 : j \in 0 .. i /\ j <= N
        <5>1. i + 1 \in 0 .. N
          BY <1>1, <3>1
        <5>2. \A j \in 0 .. (i + 1) - 1 : j \in 0 .. i /\ j <= N
          <6>1. N \in Nat /\ i + 1 <= N
            BY <1>1, <3>1
          <6> HIDE DEF S, Typed
          <6>2. QED
            BY <6>1
        <5>3. QED
          BY <5>1, <5>2
      <4>2. \A j \in 0 .. i : j <= N => a[j] \in 0 .. AddressSpace - 1
        BY <2>3
      <4>3. \A j \in 0 .. (i + 1) - 1 : a[j] \in 0 .. AddressSpace - 1
        BY <4>1, <4>2
      <4> HIDE DEF Typed
      <4>4. QED
        BY <2>1, <4>1, <4>3
    <3> HIDE DEF Typed
    <3>2. \A j \in 0 .. i + 1 : j \in 0 .. i \/ j = i + 1
      OBVIOUS
    <3>3. QED
      BY <2>3, <3>1, <3>2
  <2> HIDE DEF S
  <2>4. Nat \subseteq S
    BY <2>2, <2>3, NatSetInduction
  <2> HIDE DEF Typed
  <2>5. ASSUME NEW i \in 0 .. N
        PROVE  Typed(i)
    <3>1. i \in Nat /\ i <= N /\ i \in 0 .. i
      BY <1>1
    <3>2. i \in S
      BY <2>4, <3>1
    <3>3. QED
      BY <3>1, <3>2 DEF S
  <2>6. QED
    BY <2>5
<1>14. QED
  BY <1>12, <1>13 DEF a, N, moved

\* After any number of operations there is a file and a line.
LEMMA RegistersType ==
  ASSUME NEW h \in Header, NEW p \in Seq(Op), NEW i \in 0 .. Len(p)
  PROVE  /\ FileAfter(p, i) \in Nat
         /\ (1 + LinesMoved(h, p)[i]) % Uint32Space \in 0 .. Uint32Space - 1
         /\ i # 0 => RowAfter(h, p, i) \in SourceRow
<1> DEFINE k == LastOf(p, {"set_file"}, i)
           line == 1 + LinesMoved(h, p)[i]
<1>1. k \in 0 .. i /\ (k # 0 => p[k].kind \in {"set_file"})
  <2>1. i \in Nat
    OBVIOUS
  <2>2. QED
    BY <2>1, LastOfStep
<1>2. FileAfter(p, i) \in Nat
  <2>1. FileAfter(p, i) = IF k = 0 THEN 1 ELSE p[k].n
    BY DEF FileAfter
  <2> HIDE DEF k
  <2>2. k # 0 => p[k] \in Op
    BY <1>1
  <2>3. k # 0 => p[k].n \in Nat
    BY <1>1, <2>2 DEF Op
  <2>4. QED
    BY <2>1, <2>3
<1>3. line % Uint32Space \in 0 .. Uint32Space - 1
  <2>1. line \in Int /\ Uint32Space \in Nat \ {0}
    BY MovedSums, SpacesAssumption
  <2> HIDE DEF line
  <2>2. QED
    BY <2>1, Division
<1>4. Addresses(h, p)[i] \in 0 .. AddressSpace - 1
  BY AddressesDef
<1>5. RowAfter(h, p, i) \in SourceRow
  <2>1. (p[i].kind = "end_sequence") \in BOOLEAN
    OBVIOUS
  <2> HIDE DEF line
  <2>2. RowAfter(h, p, i) = [address |-> Addresses(h, p)[i], file |-> FileAfter(p, i),
                             line |-> line % Uint32Space, end |-> p[i].kind = "end_sequence"]
    BY DEF RowAfter, line
  <2>3. QED
    BY <1>2, <1>3, <1>4, <2>1, <2>2 DEF SourceRow
<1>6. QED
  BY <1>2, <1>3, <1>5

\* The rows grow by that of an appending operation.
LEMMA RowsOfDef ==
  ASSUME NEW h \in Header, NEW p \in Seq(Op)
  PROVE  LET r == RowsOf(h, p)
         IN  /\ r[0] = << >> /\ \A i \in 0 .. Len(p) : r[i] \in Seq(SourceRow)
             /\ \A i \in 1 .. Len(p) :
                  r[i] = IF p[i].kind \in Appending THEN Append(r[i - 1], RowAfter(h, p, i))
                         ELSE r[i - 1]
<1> DEFINE N == Len(p)
           V == Seq(SourceRow)
           Appends(i) == p[i].kind \in Appending
           G == [q \in (1 .. N) \X V |->
                   IF Appends(q[1]) THEN Append(q[2], RowAfter(h, p, q[1])) ELSE q[2]]
           Is(r) == r = [i \in 0 .. N |->
                           IF i = 0 THEN << >>
                           ELSE IF Appends(i) THEN Append(r[i - 1], RowAfter(h, p, i))
                           ELSE r[i - 1]]
           r == RowsOf(h, p)
<1>1. N \in Nat /\ << >> \in V
  OBVIOUS
<1>2. \A i \in 1 .. N : RowAfter(h, p, i) \in SourceRow
  <2>1. \A i \in 1 .. N : i \in 0 .. N /\ i # 0
    BY <1>1
  <2>2. QED
    BY <2>1, RegistersType
<1>3. r = CHOOSE x : Is(x)
  BY DEF RowsOf
<1> HIDE DEF Appends, N, r
<1>4. \A i \in 1 .. N : \A s \in V :
        (IF Appends(i) THEN Append(s, RowAfter(h, p, i)) ELSE s) \in V
  BY <1>2
<1>5. PICK f \in [0 .. N -> V] :
        /\ f[0] = << >>
        /\ \A i \in 1 .. N :
             f[i] = IF Appends(i) THEN Append(f[i - 1], RowAfter(h, p, i)) ELSE f[i - 1]
  <2>1. G \in [(1 .. N) \X V -> V]
    BY <1>4
  <2>2. \A i \in 1 .. N : i - 1 \in 0 .. N
    BY <1>1
  <2>3. \A i \in 1 .. N : \A s \in V :
          G[<<i, s>>] = IF Appends(i) THEN Append(s, RowAfter(h, p, i)) ELSE s
    OBVIOUS
  <2> HIDE DEF G, V
  <2>4. PICK f \in [0 .. N -> V] : Recurs(f, N, << >>, G)
    BY <1>1, <2>1, Recursion
  <2>5. f[0] = << >> /\ \A i \in 1 .. N : f[i] = G[<<i, f[i - 1]>>]
    BY <2>4 DEF Recurs
  <2>6. \A i \in 1 .. N : f[i] = IF Appends(i) THEN Append(f[i - 1], RowAfter(h, p, i)) ELSE f[i - 1]
    BY <2>2, <2>3, <2>5
  <2>7. QED
    BY <2>5, <2>6
<1>6. Is(f)
  <2>1. \A i \in 0 .. N : i = 0 \/ i \in 1 .. N
    BY <1>1
  <2> HIDE DEF V
  <2>2. \A i \in 0 .. N : f[i] = IF i = 0 THEN << >>
                               ELSE IF Appends(i) THEN Append(f[i - 1], RowAfter(h, p, i))
                               ELSE f[i - 1]
    BY <1>5, <2>1
  <2>3. QED
    BY <1>5, <2>2
<1>7. Is(r)
  <2> HIDE DEF Is
  <2>1. QED
    BY <1>3, <1>6
<1>8. /\ r[0] = << >>
      /\ \A i \in 1 .. N : r[i] = IF Appends(i) THEN Append(r[i - 1], RowAfter(h, p, i)) ELSE r[i - 1]
  <2>1. \A i \in 0 .. N : r[i] = IF i = 0 THEN << >>
                               ELSE IF Appends(i) THEN Append(r[i - 1], RowAfter(h, p, i))
                               ELSE r[i - 1]
    BY <1>7
  <2> HIDE DEF Is
  <2>2. QED
    BY <1>1, <2>1
<1> HIDE DEF Is
<1>9. \A i \in 0 .. N : r[i] \in V
  <2> DEFINE S == {i \in Nat : i <= N => r[i] \in V}
  <2>1. 0 \in S
    BY <1>1, <1>8
  <2>2. ASSUME NEW i \in Nat, i \in S
        PROVE  i + 1 \in S
    <3>1. SUFFICES ASSUME i + 1 <= N PROVE r[i + 1] \in V
      OBVIOUS
    <3>2. r[i] \in V /\ i + 1 \in 1 .. N /\ (i + 1) - 1 = i
      BY <1>1, <2>2, <3>1
    <3>3. r[i + 1] = IF Appends(i + 1) THEN Append(r[i], RowAfter(h, p, i + 1)) ELSE r[i]
      BY <1>8, <3>2
    <3> HIDE DEF V
    <3>4. QED
      BY <1>4, <3>2, <3>3
  <2> HIDE DEF S
  <2>3. Nat \subseteq S
    BY <2>1, <2>2, NatSetInduction
  <2>4. QED
    BY <1>1, <2>3 DEF S
<1>10. QED
  BY <1>8, <1>9 DEF Appends, N, r

-----------------------------------------------------------------------------
(* What one operation more means.                                          *)

\* The operations counted since the address was last set.
Done(h, p, k) == OperationsMoved(h, p)[k] - OperationsMoved(h, p)[LastReset(p, k)]
Resets == {"set_address", "fixed_advance_pc"}

LEMMA DoneType ==
  ASSUME NEW h \in Header, NEW p \in Seq(Op), NEW k \in 0 .. Len(p)
  PROVE  /\ Done(h, p, k) \in Int /\ LastReset(p, k) \in 0 .. k
         /\ Addresses(h, p)[k] \in 0 .. AddressSpace - 1
         /\ From(Addresses(h, p), p, LastReset(p, k)) \in Int
         /\ Addresses(h, p)[k] = Moved(h, From(Addresses(h, p), p, LastReset(p, k)), Done(h, p, k))
<1>1. k \in Nat
  OBVIOUS
<1>2. LastReset(p, k) \in 0 .. k
  BY <1>1, LastOfStep DEF LastReset
<1>3. LastReset(p, k) \in 0 .. Len(p)
  BY <1>2
<1>4. Done(h, p, k) \in Int
  BY <1>3, MovedSums DEF Done
<1>5. QED
  BY <1>2, <1>4, AddressesDef DEF Done

\* An operation that does not set the address moves it by whole instructions.
LEMMA AddressMoves ==
  ASSUME NEW h \in Header, NEW p \in Seq(Op), NEW k \in 0 .. Len(p), k + 1 <= Len(p),
         p[k + 1].kind \notin Resets
  PROVE  LET m == h.maxOps
             advance == OperationAdvance(h, p[k + 1])
         IN  /\ Done(h, p, k + 1) = Done(h, p, k) + advance
             /\ Addresses(h, p)[k + 1] =
                  (Addresses(h, p)[k] + h.minInst * (((Done(h, p, k) % m) + advance) \div m))
                    % AddressSpace
<1> DEFINE m == h.maxOps
           b == h.minInst
           advance == OperationAdvance(h, p[k + 1])
           r == LastReset(p, k)
           done == Done(h, p, k)
           from == From(Addresses(h, p), p, r)
           q == done \div m
           q2 == ((done % m) + advance) \div m
<1>1. m \in Nat \ {0} /\ b \in Nat /\ AddressSpace \in Nat \ {0} /\ k \in Nat /\ k + 1 \in 1 .. Len(p)
  BY SpacesAssumption DEF Header
<1>2. LastReset(p, k + 1) = r
  BY <1>1, LastOfStep DEF LastReset, Resets
<1>3. k + 1 \in 0 .. Len(p) /\ (k + 1) - 1 = k
  BY <1>1
<1>4. advance \in Int /\ done \in Int /\ from \in Int
  <2>1. p[k + 1] \in Op
    BY <1>1
  <2>2. advance \in Nat
    BY <2>1, AdvanceFacts
  <2>3. QED
    BY <2>2, DoneType
<1>5. Done(h, p, k + 1) = done + advance
  <2> DEFINE s == OperationsMoved(h, p)
  <2>1. s[k + 1] = s[k] + advance
    BY <1>1, <1>3, MovedSums
  <2>2. r \in 0 .. Len(p)
    BY DoneType
  <2>3. s[k] \in Int /\ s[r] \in Int
    BY <2>2, MovedSums
  <2>4. Done(h, p, k + 1) = s[k + 1] - s[r] /\ done = s[k] - s[r]
    BY <1>2 DEF Done
  <2> HIDE DEF s, advance, r, done
  <2>5. QED
    BY <1>4, <2>1, <2>3, <2>4
<1>6. /\ Addresses(h, p)[k] = (from + b * q) % AddressSpace
      /\ Addresses(h, p)[k + 1] = (from + b * ((done + advance) \div m)) % AddressSpace
  BY <1>2, <1>3, <1>5, DoneType DEF Moved
<1> DEFINE a == Addresses(h, p)[k]
           c == Addresses(h, p)[k + 1]
<1> HIDE DEF a, c
<1>7. a = (from + b * q) % AddressSpace /\ c = (from + b * ((done + advance) \div m)) % AddressSpace
  BY <1>6 DEF a, c
<1> HIDE DEF m, b, advance, done, from
<1>8. (done + advance) \div m = q + q2
  BY <1>1, <1>4, DivAdd
<1>9. q \in Int /\ q2 \in Int
  <2> DEFINE z == (done % m) + advance
  <2>1. q \in Int /\ done % m \in Int
    BY <1>1, <1>4, Division
  <2>2. z \in Int
    BY <1>4, <2>1
  <2> HIDE DEF z
  <2>3. z \div m \in Int
    BY <1>1, <2>2, Division
  <2>4. QED
    BY <2>1, <2>3 DEF z
<1> HIDE DEF q, q2
<1>10. c = (a + b * q2) % AddressSpace
  <2> DEFINE x == from + b * q
             y == b * q2
  <2>1. y \in Int /\ x \in Int
    <3>1. b * q \in Int /\ b * q2 \in Int
      BY <1>1, <1>9
    <3>2. QED
      BY <1>4, <3>1
  <2>2. from + b * (q + q2) = x + y
    <3>1. b * (q + q2) = b * q + b * q2 /\ b * q \in Int
      BY <1>1, <1>9
    <3>2. QED
      BY <1>4, <2>1, <3>1
  <2> HIDE DEF x, y
  <2>3. c = (x + y) % AddressSpace /\ a = x % AddressSpace
    BY <1>7, <1>8, <2>2 DEF x
  <2>4. QED
    BY <1>1, <2>1, <2>3, ModAdd DEF y
<1>11. QED
  BY <1>5, <1>10 DEF a, c, m, b, advance, done, q2

\* One that sets it begins a new count.
LEMMA AddressIsSet ==
  ASSUME NEW h \in Header, NEW p \in Seq(Op), NEW k \in 0 .. Len(p), k + 1 <= Len(p),
         p[k + 1].kind \in Resets
  PROVE  /\ Done(h, p, k + 1) = 0
         /\ Addresses(h, p)[k + 1] =
              IF p[k + 1].kind = "set_address" THEN p[k + 1].n
              ELSE (Addresses(h, p)[k] + p[k + 1].n) % AddressSpace
<1> DEFINE a == Addresses(h, p)
           n == p[k + 1].n
           from == From(a, p, k + 1)
<1>1. k \in Nat /\ k + 1 \in 0 .. Len(p) /\ k + 1 \in 1 .. Len(p) /\ k + 1 # 0 /\ (k + 1) - 1 = k
  OBVIOUS
<1>2. LastReset(p, k + 1) = k + 1
  BY <1>1, LastOfStep DEF LastReset, Resets
<1>3. Done(h, p, k + 1) = 0
  <2>1. OperationsMoved(h, p)[k + 1] \in Int
    BY <1>1, MovedSums
  <2>2. QED
    BY <1>2, <2>1 DEF Done
<1>4. a[k + 1] = from % AddressSpace /\ from \in Int
  <2>1. a[k + 1] = (from + h.minInst * (0 \div h.maxOps)) % AddressSpace /\ from \in Int
    BY <1>1, <1>2, <1>3, DoneType DEF Moved
  <2> DEFINE m == h.maxOps
             b == h.minInst
  <2>2. m \in Nat \ {0} /\ b \in Nat
    BY DEF Header
  <2> HIDE DEF m, b
  <2>3. 0 \div m = 0
    BY <2>2, DivUnique
  <2>4. b * 0 = 0
    BY <2>2
  <2>5. h.minInst * (0 \div h.maxOps) = 0
    BY <2>3, <2>4 DEF m, b
  <2> HIDE DEF from, a
  <2>6. QED
    BY <2>1, <2>5
<1>5. from = IF p[k + 1].kind = "set_address" THEN n ELSE a[k] + n
  <2> HIDE DEF a
  <2>1. QED
    BY <1>1 DEF From
<1>6. p[k + 1].kind = "set_address" => n % AddressSpace = n
  <2>1. p[k + 1].kind = "set_address" => n \in 0 .. AddressSpace - 1
    <3>1. p[k + 1] \in Op
      BY <1>1
    <3>2. QED
      BY <3>1 DEF Op
  <2> HIDE DEF n
  <2>2. ASSUME n \in 0 .. AddressSpace - 1
        PROVE  n % AddressSpace = n
    <3>1. AddressSpace \in Nat \ {0} /\ n \in Int /\ AddressSpace * 0 + n = n
      BY <2>2, SpacesAssumption
    <3>2. QED
      BY <2>2, <3>1, ModUnique
  <2>3. QED
    BY <2>1, <2>2
<1> HIDE DEF a, n, from
<1>7. a[k + 1] = IF p[k + 1].kind = "set_address" THEN n ELSE (a[k] + n) % AddressSpace
  BY <1>4, <1>5, <1>6
<1>8. QED
  BY <1>3, <1>7 DEF a, n

\* File and line.
LEMMA FileAndLineMove ==
  ASSUME NEW h \in Header, NEW p \in Seq(Op), NEW k \in 0 .. Len(p), k + 1 <= Len(p)
  PROVE  /\ FileAfter(p, k + 1) = IF p[k + 1].kind = "set_file" THEN p[k + 1].n ELSE FileAfter(p, k)
         /\ (1 + LinesMoved(h, p)[k + 1]) % Uint32Space =
              (((1 + LinesMoved(h, p)[k]) % Uint32Space) + LineAdvance(h, p[k + 1])) % Uint32Space
<1>1. k \in Nat /\ k + 1 \in 0 .. Len(p) /\ k + 1 \in 1 .. Len(p) /\ k + 1 # 0 /\ (k + 1) - 1 = k
  OBVIOUS
<1>2. FileAfter(p, k + 1) = IF p[k + 1].kind = "set_file" THEN p[k + 1].n ELSE FileAfter(p, k)
  <2>1. /\ p[k + 1].kind = "set_file" => LastOf(p, {"set_file"}, k + 1) = k + 1
        /\ p[k + 1].kind # "set_file" => LastOf(p, {"set_file"}, k + 1) = LastOf(p, {"set_file"}, k)
    BY <1>1, LastOfStep
  <2>2. QED
    BY <1>1, <2>1 DEF FileAfter
<1>3. (1 + LinesMoved(h, p)[k + 1]) % Uint32Space =
        (((1 + LinesMoved(h, p)[k]) % Uint32Space) + LineAdvance(h, p[k + 1])) % Uint32Space
  <2> DEFINE x == 1 + LinesMoved(h, p)[k]
             y == LineAdvance(h, p[k + 1])
  <2>1. p[k + 1] \in Op
    BY <1>1
  <2>2. LinesMoved(h, p)[k] \in Int /\ y \in Int /\ LinesMoved(h, p)[k + 1] = LinesMoved(h, p)[k] + y
    BY <1>1, <2>1, MovedSums, AdvanceFacts
  <2>3. x \in Int /\ 1 + LinesMoved(h, p)[k + 1] = x + y
    <3> HIDE DEF y
    <3>1. QED
      BY <2>2
  <2>4. Uint32Space \in Nat \ {0}
    BY SpacesAssumption
  <2> HIDE DEF x, y
  <2>5. (x + y) % Uint32Space = ((x % Uint32Space) + y) % Uint32Space
    BY <2>2, <2>3, <2>4, ModAdd
  <2>6. QED
    BY <2>3, <2>5 DEF x, y
<1>4. QED
  BY <1>2, <1>3


-----------------------------------------------------------------------------
(* The interpreter.                                                        *)

Registers(h) == [address : 0 .. AddressSpace - 1, operation : 0 .. h.maxOps - 1, file : Nat,
                 line : 0 .. Uint32Space - 1]

\* The bytes an advance is from a given operation of an instruction.
Bytes(h, operation, advance) ==
  (h.minInst * ((operation + advance) \div h.maxOps)) % Uint32Space

LEMMA UpdateFacts ==
  ASSUME header \in Header, NEW s \in Registers(header), NEW advance \in Nat
  PROVE  /\ UpdateOperation(s, advance) \in Registers(header)
         /\ UpdateOperation(s, advance) =
              [s EXCEPT !.operation = (s.operation + advance) % header.maxOps]
         /\ UpdateAddress(s, advance) \in Registers(header)
         /\ UpdateAddress(s, advance) =
              [s EXCEPT !.address = (s.address + Bytes(header, s.operation, advance)) % AddressSpace]
         /\ Bytes(header, s.operation, advance) \in Nat
<1> DEFINE m == header.maxOps
           o == s.operation + advance
           q == o \div m
           x == header.minInst * q
           y == s.address + (x % Uint32Space)
<1>1. /\ m \in Nat \ {0} /\ header.minInst \in Nat
      /\ AddressSpace \in Nat \ {0} /\ Uint32Space \in Nat \ {0}
  BY SpacesAssumption DEF Header
<1>2. /\ o \in Nat /\ s.address \in Nat
      /\ s = [address |-> s.address, operation |-> s.operation, file |-> s.file, line |-> s.line]
      /\ s.address \in 0 .. AddressSpace - 1 /\ s.operation \in 0 .. header.maxOps - 1
      /\ s.file \in Nat /\ s.line \in 0 .. Uint32Space - 1
  BY <1>1 DEF Registers
<1> HIDE DEF o, m
<1>3. q \in Nat /\ o % m \in 0 .. m - 1
  BY <1>1, <1>2, Division
<1> HIDE DEF q
<1>4. x \in Nat
  BY <1>1, <1>3
<1> HIDE DEF x
<1>5. x % Uint32Space \in Nat
  <2>1. x \in Int
    BY <1>4
  <2>2. x % Uint32Space \in 0 .. Uint32Space - 1
    BY <1>1, <2>1, Division
  <2>3. QED
    BY <1>1, <2>2
<1>6. y \in Int
  BY <1>2, <1>5
<1> HIDE DEF y
<1>7. y % AddressSpace \in 0 .. AddressSpace - 1
  BY <1>1, <1>6, Division
<1>8. Bytes(header, s.operation, advance) = x % Uint32Space
  BY DEF Bytes, x, q, o, m
<1>9. /\ UpdateOperation(s, advance) = [s EXCEPT !.operation = o % m]
      /\ UpdateAddress(s, advance) = [s EXCEPT !.address = y % AddressSpace]
  BY DEF UpdateOperation, UpdateAddress, y, x, q, o, m
<1>10. [s EXCEPT !.operation = o % m] \in Registers(header)
  BY <1>2, <1>3 DEF Registers, m
<1>11. [s EXCEPT !.address = y % AddressSpace] \in Registers(header)
  BY <1>2, <1>7 DEF Registers
<1>12. y = s.address + Bytes(header, s.operation, advance) /\ o = s.operation + advance
  BY <1>8 DEF y, o
<1> HIDE DEF y, o
<1>13. QED
  BY <1>5, <1>8, <1>9, <1>10, <1>11, <1>12 DEF m

\* The line register takes any number of lines.
LEMMA LineFacts ==
  ASSUME NEW h, NEW s \in Registers(h), NEW n \in Int
  PROVE  /\ [s EXCEPT !.line = (s.line + n) % Uint32Space] \in Registers(h)
         /\ (s.line + 0) % Uint32Space = s.line
<1>1. /\ s = [address |-> s.address, operation |-> s.operation, file |-> s.file, line |-> s.line]
      /\ s.address \in 0 .. AddressSpace - 1 /\ s.operation \in 0 .. h.maxOps - 1
      /\ s.file \in Nat /\ s.line \in 0 .. Uint32Space - 1 /\ Uint32Space \in Nat \ {0}
  BY SpacesAssumption DEF Registers
<1> DEFINE x == s.line + n
<1>2. x \in Int
  BY <1>1
<1>3. x % Uint32Space \in 0 .. Uint32Space - 1
  <2> HIDE DEF x
  <2>1. QED
    BY <1>1, <1>2, Division
<1>4. [s EXCEPT !.line = x % Uint32Space] \in Registers(h)
  <2> HIDE DEF x
  <2>1. QED
    BY <1>1, <1>3 DEF Registers
<1>5. (s.line + 0) % Uint32Space = s.line
  <2> DEFINE y == s.line
             u == Uint32Space
  <2>1. u \in Nat \ {0} /\ y \in 0 .. u - 1 /\ 0 \in Int
    BY <1>1
  <2> HIDE DEF y, u
  <2>2. (u * 0 + y) % u = y
    BY <2>1, ModUnique
  <2>3. u * 0 + y = y /\ y + 0 = y
    BY <2>1
  <2>4. (y + 0) % u = y
    BY <2>2, <2>3
  <2>5. QED
    BY <2>4 DEF y, u
<1>6. QED
  BY <1>4, <1>5

\* A number below a limit is its own remainder.
LEMMA ModSmall ==
  ASSUME NEW m \in Nat \ {0}, NEW x \in 0 .. m - 1
  PROVE  x % m = x /\ (x + 0) % m = x /\ x \div m = 0
<1>1. m * 0 + x = x /\ x + 0 = x
  OBVIOUS
<1>2. (m * 0 + x) % m = x /\ (m * 0 + x) \div m = 0
  BY ModUnique, DivUnique
<1>3. QED
  BY <1>1, <1>2

\* No advance is no byte.
LEMMA NothingMoves ==
  ASSUME header \in Header, NEW s \in Registers(header)
  PROVE  /\ (s.address + Bytes(header, s.operation, 0)) % AddressSpace = s.address
         /\ (s.operation + 0) % header.maxOps = s.operation
<1> DEFINE m == header.maxOps
           o == s.operation
           a == s.address
           b == header.minInst
<1>1. /\ m \in Nat \ {0} /\ o \in 0 .. m - 1 /\ a \in 0 .. AddressSpace - 1 /\ b \in Nat
      /\ AddressSpace \in Nat \ {0} /\ Uint32Space \in Nat \ {0}
  BY SpacesAssumption DEF Header, Registers
<1>2. Bytes(header, o, 0) = (b * ((o + 0) \div m)) % Uint32Space
  BY DEF Bytes
<1> HIDE DEF m, o, a, b
<1>3. o + 0 = o /\ o \div m = 0 /\ (o + 0) % m = o
  BY <1>1, ModSmall
<1>4. b * 0 = 0 /\ 0 \in 0 .. Uint32Space - 1
  BY <1>1
<1>5. 0 % Uint32Space = 0
  BY <1>1, <1>4, ModSmall
<1>6. (a + 0) % AddressSpace = a
  BY <1>1, ModSmall
<1>7. Bytes(header, o, 0) = 0
  BY <1>2, <1>3, <1>4, <1>5
<1>8. QED
  BY <1>3, <1>6, <1>7 DEF m, o, a

MachineInv ==
  /\ header \in Header /\ ops \in Seq(Op) /\ pos \in 1 .. Len(ops) + 1
  /\ state \in Registers(header) /\ rows \in Seq(SourceRow)

RowOf(s, isEnd) == [address |-> s.address, file |-> s.file, line |-> s.line, end |-> isEnd]

\* What an operation does to the registers and the rows.
Moves(op) ==
  LET advance == OperationAdvance(header, op)
      from    == IF op.kind = "special" THEN state'.operation ELSE state.operation
  IN  /\ state'.operation = (state.operation + advance) % header.maxOps
      /\ state'.address = (state.address + Bytes(header, from, advance)) % AddressSpace

Sets(op) ==
  IF op.kind = "set_address" THEN state'.address = op.n /\ state'.operation = state.operation
  ELSE state'.address = (state.address + op.n) % AddressSpace /\ state'.operation = 0

Runs(op) ==
  /\ state' \in Registers(header)
  /\ rows' = IF op.kind \in Appending
             THEN Append(rows, RowOf(state', op.kind = "end_sequence")) ELSE rows
  /\ state'.file = IF op.kind = "set_file" THEN op.n ELSE state.file
  /\ state'.line = (state.line + LineAdvance(header, op)) % Uint32Space
  /\ IF op.kind \in Resets THEN Sets(op) ELSE Moves(op)

\* A special opcode computes the address from the operation it has updated.
LEMMA SpecialRuns ==
  ASSUME MachineInv, pos <= Len(ops), RunSpecial
  PROVE  Runs(ops[pos])
<1> DEFINE op == ops[pos]
           advance == op.n \div header.lineRange
           n == header.lineBase + (op.n % header.lineRange)
           s == UpdateLine(state, op.n)
           t == UpdateOperation(s, advance)
           u == UpdateAddress(t, advance)
<1>1. op \in Op /\ op.kind = "special" /\ header \in Header /\ state \in Registers(header)
  BY DEF MachineInv, RunSpecial, Reads
<1>2. advance = OperationAdvance(header, op) /\ n = LineAdvance(header, op)
  BY <1>1 DEF OperationAdvance, LineAdvance
<1>3. advance \in Nat /\ n \in Int
  BY <1>1, <1>2, AdvanceFacts
<1>4. s = [state EXCEPT !.line = (state.line + n) % Uint32Space]
  <2> DEFINE y == op.n % header.lineRange
  <2>1. s = [state EXCEPT !.line = (state.line + header.lineBase + y) % Uint32Space]
    BY DEF UpdateLine
  <2>2. y \in Int /\ header.lineBase \in Int /\ state.line \in Int
    <3>1. op.n \in Int /\ header.lineRange \in Nat \ {0} /\ header.lineBase \in Int
      BY <1>1 DEF Op, Header
    <3>2. state.line \in Int
      BY <1>1, SpacesAssumption DEF Registers
    <3> HIDE DEF op
    <3>3. y \in 0 .. header.lineRange - 1
      BY <3>1, Division
    <3>4. QED
      BY <3>1, <3>2, <3>3
  <2>3. n = header.lineBase + y
    OBVIOUS
  <2> HIDE DEF y, n, s, op
  <2>4. (state.line + header.lineBase) + y = state.line + n
    BY <2>2, <2>3
  <2>5. QED
    BY <2>1, <2>4
<1>5. s \in Registers(header)
  <2> HIDE DEF n, s
  <2>1. QED
    BY <1>1, <1>3, <1>4, LineFacts
<1>6. state' = u /\ rows' = Append(rows, RowOf(u, FALSE))
  BY DEF RunSpecial, UpdateLineInfo, RowOf
<1> HIDE DEF s, n, advance
<1>7. t \in Registers(header) /\ t = [s EXCEPT !.operation = (s.operation + advance) % header.maxOps]
  BY <1>1, <1>3, <1>5, UpdateFacts
<1> HIDE DEF t
<1>8. /\ u \in Registers(header)
      /\ u = [t EXCEPT !.address = (t.address + Bytes(header, t.operation, advance)) % AddressSpace]
  BY <1>1, <1>3, <1>7, UpdateFacts
<1> HIDE DEF u
<1> DEFINE line == (state.line + n) % Uint32Space
           operation == (state.operation + advance) % header.maxOps
           address == (state.address + Bytes(header, operation, advance)) % AddressSpace
<1>9. /\ s.file = state.file /\ s.line = line /\ s.address = state.address
      /\ s.operation = state.operation
  <2> HIDE DEF line
  <2>1. s = [state EXCEPT !.line = line]
    BY <1>4 DEF line
  <2>2. QED
    BY <1>1, <2>1 DEF Registers
<1>10. t.operation = operation /\ t.file = s.file /\ t.line = s.line /\ t.address = s.address
  <2> HIDE DEF operation
  <2>1. t = [s EXCEPT !.operation = operation]
    BY <1>7, <1>9 DEF operation
  <2>2. QED
    BY <1>5, <2>1 DEF Registers
<1>11. u.operation = t.operation /\ u.file = t.file /\ u.line = t.line /\ u.address = address
  <2> HIDE DEF address
  <2>1. u = [t EXCEPT !.address = address]
    BY <1>8, <1>9, <1>10 DEF address
  <2>2. QED
    BY <1>7, <2>1 DEF Registers
<1>12. Moves(op)
  BY <1>1, <1>2, <1>6, <1>10, <1>11 DEF Moves
<1>13. QED
  <2>1. op.kind \notin Resets /\ op.kind \in Appending /\ op.kind # "set_file"
        /\ (op.kind = "end_sequence") = FALSE
    BY <1>1 DEF Resets, Appending
  <2>2. state'.line = (state.line + LineAdvance(header, op)) % Uint32Space /\ state'.file = state.file
    BY <1>2, <1>6, <1>9, <1>10, <1>11
  <2>3. QED
    BY <1>6, <1>8, <1>12, <2>1, <2>2 DEF Runs

\* An advance computes the address from the operation it then updates.
LEMMA AdvanceRuns ==
  ASSUME MachineInv, pos <= Len(ops), RunAdvancePc \/ RunConstAddPc
  PROVE  Runs(ops[pos])
<1> DEFINE op == ops[pos]
           advance == OperationAdvance(header, op)
           t == UpdateAddress(state, advance)
           u == UpdateOperation(t, advance)
<1>1. /\ op \in Op /\ op.kind \in {"advance_pc", "const_add_pc"}
      /\ header \in Header /\ state \in Registers(header)
  BY DEF MachineInv, RunAdvancePc, RunConstAddPc, Reads
<1>2. advance \in Nat
  BY <1>1, AdvanceFacts
<1>3. state' = u /\ rows' = rows
  <2>1. CASE RunAdvancePc
    <3>1. op.kind = "advance_pc"
      BY <2>1 DEF RunAdvancePc, Reads
    <3>2. advance = op.n
      BY <3>1 DEF OperationAdvance
    <3>3. QED
      BY <2>1, <3>2 DEF RunAdvancePc
  <2>2. CASE RunConstAddPc
    <3>1. op.kind = "const_add_pc"
      BY <2>2 DEF RunConstAddPc, Reads
    <3>2. advance = ConstantAdvance(header)
      BY <3>1 DEF OperationAdvance
    <3>3. QED
      BY <2>2, <3>2 DEF RunConstAddPc
  <2>3. QED
    BY <2>1, <2>2
<1> HIDE DEF advance, t
<1>4. /\ t \in Registers(header)
      /\ t = [state EXCEPT !.address =
                (state.address + Bytes(header, state.operation, advance)) % AddressSpace]
  BY <1>1, <1>2, UpdateFacts DEF t
<1> HIDE DEF u
<1>5. u \in Registers(header) /\ u = [t EXCEPT !.operation = (t.operation + advance) % header.maxOps]
  BY <1>1, <1>2, <1>4, UpdateFacts DEF u
<1> DEFINE address == (state.address + Bytes(header, state.operation, advance)) % AddressSpace
           operation == (state.operation + advance) % header.maxOps
<1>6. /\ t.operation = state.operation /\ t.file = state.file /\ t.line = state.line
      /\ t.address = address
  <2> HIDE DEF address
  <2>1. t = [state EXCEPT !.address = address]
    BY <1>4 DEF address
  <2>2. QED
    BY <1>1, <2>1 DEF Registers
<1>7. u.operation = operation /\ u.file = t.file /\ u.line = t.line /\ u.address = t.address
  <2> HIDE DEF operation
  <2>1. u = [t EXCEPT !.operation = operation]
    BY <1>5, <1>6 DEF operation
  <2>2. QED
    BY <1>4, <2>1 DEF Registers
<1>8. Moves(op)
  BY <1>1, <1>3, <1>6, <1>7 DEF Moves, advance
<1>9. LineAdvance(header, op) = 0
  BY <1>1 DEF LineAdvance
<1>10. (state.line + 0) % Uint32Space = state.line
  <2>1. 0 \in Int
    OBVIOUS
  <2>2. QED
    BY <1>1, <2>1, LineFacts
<1>11. op.kind \notin Resets /\ op.kind \notin Appending /\ op.kind # "set_file"
  BY <1>1 DEF Resets, Appending
<1>12. QED
  BY <1>3, <1>5, <1>6, <1>7, <1>8, <1>9, <1>10, <1>11 DEF Runs

LEMMA AddressRuns ==
  ASSUME MachineInv, pos <= Len(ops), RunFixedAdvancePc \/ RunSetAddress
  PROVE  Runs(ops[pos])
<1> DEFINE op == ops[pos]
           fixed == (state.address + op.n) % AddressSpace
<1>1. /\ op \in Op /\ op.kind \in Resets /\ rows' = rows
      /\ header \in Header /\ state \in Registers(header)
  BY DEF MachineInv, RunFixedAdvancePc, RunSetAddress, Reads, Resets
<1>2. LineAdvance(header, op) = 0 /\ op.kind \notin Appending /\ op.kind # "set_file"
  BY <1>1 DEF LineAdvance, Resets, Appending
<1>3. (state.line + 0) % Uint32Space = state.line
  <2>1. 0 \in Int
    OBVIOUS
  <2>2. QED
    BY <1>1, <2>1, LineFacts
<1>4. state = [address |-> state.address, operation |-> state.operation, file |-> state.file,
               line |-> state.line]
  BY <1>1 DEF Registers
<1>5. CASE RunFixedAdvancePc
  <2>1. op.kind = "fixed_advance_pc"
    BY <1>5 DEF RunFixedAdvancePc, Reads
  <2>2. fixed \in 0 .. AddressSpace - 1
    <3> DEFINE x == state.address + op.n
    <3>1. x \in Int /\ AddressSpace \in Nat \ {0}
      BY <1>1, SpacesAssumption DEF Registers, Op
    <3> HIDE DEF x
    <3>2. x % AddressSpace \in 0 .. AddressSpace - 1
      BY <3>1, Division
    <3>3. QED
      BY <3>2 DEF x
  <2>3. state' = [state EXCEPT !.address = fixed, !.operation = 0]
    BY <1>5 DEF RunFixedAdvancePc
  <2>4. 0 \in 0 .. header.maxOps - 1
    BY <1>1 DEF Header
  <2> DEFINE z == 0
  <2> HIDE DEF fixed, op, z
  <2>5. state' = [address |-> fixed, operation |-> z, file |-> state.file, line |-> state.line]
    BY <1>4, <2>3 DEF z
  <2>6. /\ state' \in Registers(header) /\ state'.file = state.file /\ state'.line = state.line
        /\ state'.address = fixed /\ state'.operation = z
    BY <1>1, <2>2, <2>4, <2>5 DEF Registers, z
  <2>7. QED
    BY <1>1, <1>2, <1>3, <2>1, <2>6 DEF Runs, Sets, fixed, op, z
<1>6. CASE RunSetAddress
  <2>1. op.kind = "set_address"
    BY <1>6 DEF RunSetAddress, Reads
  <2>2. op.n \in 0 .. AddressSpace - 1
    BY <1>1, <2>1 DEF Op
  <2>3. state' = [state EXCEPT !.address = op.n]
    BY <1>6 DEF RunSetAddress
  <2> HIDE DEF op
  <2>4. /\ state' \in Registers(header) /\ state'.file = state.file /\ state'.line = state.line
        /\ state'.address = op.n /\ state'.operation = state.operation
    BY <1>1, <1>4, <2>2, <2>3 DEF Registers
  <2>5. QED
    BY <1>1, <1>2, <1>3, <2>1, <2>4 DEF Runs, Sets, op
<1>7. QED
  BY <1>5, <1>6

LEMMA OthersRun ==
  ASSUME MachineInv, pos <= Len(ops),
         RunCopy \/ RunAdvanceLine \/ RunSetFile \/ RunNoEffect \/ RunEndSequence
  PROVE  Runs(ops[pos])
<1> DEFINE op == ops[pos]
           n == LineAdvance(header, op)
           line == (state.line + n) % Uint32Space
<1>1. /\ op \in Op /\ header \in Header /\ state \in Registers(header)
      /\ op.kind \in {"copy", "advance_line", "set_file", "no_effect", "extended", "end_sequence"}
  <2>1. op.kind \in {"copy", "advance_line", "set_file", "no_effect", "extended", "end_sequence"}
    BY DEF RunCopy, RunAdvanceLine, RunSetFile, RunNoEffect, RunEndSequence, Reads
  <2>2. op \in Op /\ header \in Header /\ state \in Registers(header)
    BY DEF MachineInv
  <2>3. QED
    BY <2>1, <2>2
<1>2. state = [address |-> state.address, operation |-> state.operation, file |-> state.file,
               line |-> state.line]
  BY <1>1 DEF Registers
<1>3. OperationAdvance(header, op) = 0 /\ op.kind \notin Resets /\ op.kind # "special"
  BY <1>1 DEF OperationAdvance, Resets
<1>4. n \in Int
  BY <1>1, AdvanceFacts
<1>5. (op.kind # "advance_line" => n = 0) /\ (op.kind = "advance_line" => n = op.n)
  BY <1>1 DEF LineAdvance
<1> HIDE DEF n
<1>6. (state.line + 0) % Uint32Space = state.line /\ [state EXCEPT !.line = line] \in Registers(header)
  BY <1>1, <1>4, LineFacts
<1>7. state'.address = state.address /\ state'.operation = state.operation => Moves(op)
  BY <1>1, <1>3, NothingMoves DEF Moves
<1>8. CASE RunAdvanceLine
  <2>1. op.kind = "advance_line" /\ rows' = rows /\ state' = [state EXCEPT !.line = line]
    BY <1>5, <1>8 DEF RunAdvanceLine, Reads
  <2> HIDE DEF line
  <2>2. /\ state'.address = state.address /\ state'.operation = state.operation
        /\ state'.file = state.file /\ state'.line = line
    BY <1>2, <2>1
  <2>3. op.kind \notin Appending
    BY <2>1 DEF Appending
  <2>4. QED
    BY <1>3, <1>6, <1>7, <2>1, <2>2, <2>3 DEF Runs, line, n
<1>9. CASE RunSetFile
  <2>1. op.kind = "set_file" /\ rows' = rows /\ state' = [state EXCEPT !.file = op.n]
    BY <1>9 DEF RunSetFile, Reads
  <2>2. op.n \in Nat
    BY <1>1, <2>1 DEF Op
  <2> HIDE DEF op
  <2>3. /\ state'.address = state.address /\ state'.operation = state.operation
        /\ state'.file = op.n /\ state'.line = state.line
    BY <1>2, <2>1
  <2>4. state' \in Registers(header)
    BY <1>1, <2>1, <2>2 DEF Registers
  <2>5. op.kind \notin Appending
    BY <2>1 DEF Appending
  <2>6. line = state.line
    BY <1>5, <1>6, <2>1
  <2>7. QED
    BY <1>3, <1>7, <2>1, <2>3, <2>4, <2>5, <2>6 DEF Runs, op, n
<1>10. CASE RunCopy \/ RunNoEffect \/ RunEndSequence
  <2>1. state' = state /\ op.kind # "set_file" /\ op.kind # "advance_line"
    BY <1>10 DEF RunCopy, RunNoEffect, RunEndSequence, Reads
  <2>2. rows' = IF op.kind \in Appending
                THEN Append(rows, RowOf(state', op.kind = "end_sequence")) ELSE rows
    <3>1. CASE RunCopy
      <4>1. op.kind = "copy" /\ rows' = Append(rows, RowOf(state', FALSE))
        BY <2>1, <3>1 DEF RunCopy, Reads, UpdateLineInfo, RowOf
      <4>2. (op.kind = "end_sequence") = FALSE /\ op.kind \in Appending
        BY <4>1 DEF Appending
      <4>3. QED
        BY <4>1, <4>2
    <3>2. CASE RunEndSequence
      <4>1. op.kind = "end_sequence" /\ rows' = Append(rows, RowOf(state', TRUE))
        BY <2>1, <3>2 DEF RunEndSequence, Reads, UpdateLineInfo, RowOf
      <4>2. (op.kind = "end_sequence") = TRUE /\ op.kind \in Appending
        BY <4>1 DEF Appending
      <4>3. QED
        BY <4>1, <4>2
    <3>3. CASE RunNoEffect
      <4>1. op.kind \notin Appending /\ rows' = rows
        BY <3>3 DEF RunNoEffect, Reads, Appending
      <4>2. QED
        BY <4>1
    <3>4. QED
      BY <1>10, <3>1, <3>2, <3>3
  <2>3. line = state.line
    BY <1>5, <1>6, <2>1
  <2>4. QED
    BY <1>1, <1>3, <1>7, <2>1, <2>2, <2>3 DEF Runs, n
<1>11. QED
  BY <1>8, <1>9, <1>10

\* One operation: the machine gives up or has run it.
LEMMA OperationStep ==
  ASSUME MachineInv, RunOperation
  PROVE  /\ phase = "run" /\ pos \in 1 .. Len(ops) /\ UNCHANGED <<header, ops>>
         /\ \/ phase' = "aborted" /\ UNCHANGED <<pos, state, rows>>
            \/ /\ phase' = "run" /\ Runs(ops[pos]) /\ Decodable(ops[pos])
               /\ pos' = IF ops[pos].kind = "end_sequence" THEN Len(ops) + 1 ELSE pos + 1
<1>1. pos \in 1 .. Len(ops) + 1 /\ Len(ops) \in Nat
  BY DEF MachineInv
<1>2. CASE Abort
  BY <1>1, <1>2 DEF Abort
<1>3. CASE RunEndSequence
  <2>1. /\ phase = "run" /\ pos <= Len(ops) /\ ops[pos].kind = "end_sequence"
        /\ pos' = Len(ops) + 1 /\ UNCHANGED <<header, ops, phase>> /\ Decodable(ops[pos])
    BY <1>3 DEF RunEndSequence, Reads
  <2>2. Runs(ops[pos])
    BY <1>3, <2>1, OthersRun
  <2>3. QED
    BY <1>1, <2>1, <2>2
<1>4. CASE RunSpecial \/ RunCopy \/ RunAdvancePc \/ RunConstAddPc \/ RunFixedAdvancePc
           \/ RunAdvanceLine \/ RunSetFile \/ RunSetAddress \/ RunNoEffect
  <2>1. /\ phase = "run" /\ pos <= Len(ops) /\ ops[pos].kind # "end_sequence"
        /\ pos' = pos + 1 /\ UNCHANGED <<header, ops, phase>> /\ Decodable(ops[pos])
    BY <1>4 DEF RunSpecial, RunCopy, RunAdvancePc, RunConstAddPc, RunFixedAdvancePc,
                RunAdvanceLine, RunSetFile, RunSetAddress, RunNoEffect, Reads, Continue
  <2>2. Runs(ops[pos])
    BY <1>4, <2>1, SpecialRuns, AdvanceRuns, AddressRuns, OthersRun
  <2>3. QED
    BY <1>1, <2>1, <2>2
<1>5. QED
  BY <1>2, <1>3, <1>4 DEF RunOperation

-----------------------------------------------------------------------------
(* The sorted rows.                                                        *)

\* m holds the rows rs, all of them, in an order of their addresses.
Sorting(m, rs) ==
  /\ m \in Seq(SourceRow) /\ Len(m) = Len(rs)
  /\ \A k \in DOMAIN m : \E j \in DOMAIN rs : m[k] = rs[j]
  /\ \A j \in DOMAIN rs : \E k \in DOMAIN m : m[k] = rs[j]
  /\ \A k \in DOMAIN m : \A i \in 1 .. k : m[i].address <= m[k].address

LEMMA SortedIsSorting ==
  ASSUME rows \in Seq(SourceRow), NEW m \in SortedByAddress
  PROVE  Sorting(m, rows)
<1> DEFINE n == Len(rows)
<1>1. n \in Nat /\ DOMAIN rows = 1 .. n /\ \A k \in 1 .. n : rows[k] \in SourceRow
  OBVIOUS
<1>2. PICK p \in [1 .. n -> 1 .. n] :
        /\ IsInjective(p) /\ \A k \in 2 .. n : rows[p[k - 1]].address <= rows[p[k]].address
        /\ m = [k \in 1 .. n |-> rows[p[k]]]
  BY DEF SortedByAddress
<1> HIDE DEF n
<1>3. /\ m \in Seq(SourceRow) /\ Len(m) = n /\ DOMAIN m = 1 .. n
      /\ \A k \in 1 .. n : p[k] \in 1 .. n /\ m[k] = rows[p[k]]
  BY <1>1, <1>2
<1>4. \A j \in 1 .. n : \E k \in 1 .. n : p[k] = j
  <2>1. IsFiniteSet(1 .. n)
    BY <1>1, FS_Interval
  <2>2. p \in Injection(1 .. n, 1 .. n)
    BY <1>2 DEF Injection
  <2>3. p \in Surjection(1 .. n, 1 .. n)
    BY <2>1, <2>2, FS_Injection
  <2>4. QED
    BY <2>3 DEF Surjection
<1>5. \A k \in 1 .. n : \A i \in 1 .. k : m[i].address <= m[k].address
  <2> DEFINE S == {k \in Nat : k \in 1 .. n => \A i \in 1 .. k : m[i].address <= m[k].address}
  <2>1. \A k \in 1 .. n : m[k].address \in Int
    BY <1>1, <1>3, SpacesAssumption DEF SourceRow
  <2>2. 0 \in S
    BY <1>1
  <2>3. ASSUME NEW k \in Nat, k \in S
        PROVE  k + 1 \in S
    <3>1. SUFFICES ASSUME k + 1 \in 1 .. n, NEW i \in 1 .. k + 1
                   PROVE  m[i].address <= m[k + 1].address
      OBVIOUS
    <3>2. CASE i = k + 1
      BY <2>1, <3>1, <3>2
    <3>3. CASE i # k + 1
      <4>1. i \in 1 .. k /\ k \in 1 .. n /\ i \in 1 .. n /\ k + 1 \in 2 .. n /\ (k + 1) - 1 = k
        BY <1>1, <3>1, <3>3
      <4>2. m[i].address <= m[k].address
        BY <2>3, <4>1
      <4>3. rows[p[k]].address <= rows[p[k + 1]].address
        BY <1>2, <4>1
      <4>4. m[k].address <= m[k + 1].address
        BY <1>3, <3>1, <4>1, <4>3
      <4>5. QED
        BY <2>1, <3>1, <4>1, <4>2, <4>4
    <3>4. QED
      BY <3>2, <3>3
  <2> HIDE DEF S
  <2>4. Nat \subseteq S
    BY <2>2, <2>3, NatSetInduction
  <2>5. QED
    BY <1>1, <2>4 DEF S
<1>6. /\ \A k \in 1 .. n : \E j \in 1 .. n : m[k] = rows[j]
      /\ \A j \in 1 .. n : \E k \in 1 .. n : m[k] = rows[j]
  <2>1. \A k \in 1 .. n : \E j \in 1 .. n : m[k] = rows[j]
    BY <1>3
  <2>2. ASSUME NEW j \in 1 .. n
        PROVE  \E k \in 1 .. n : m[k] = rows[j]
    <3>1. PICK k \in 1 .. n : p[k] = j
      BY <1>4
    <3>2. m[k] = rows[j]
      BY <1>3, <3>1
    <3>3. QED
      BY <3>2
  <2>3. QED
    BY <2>1, <2>2
<1>7. QED
  BY <1>1, <1>3, <1>5, <1>6 DEF Sorting, n

\* The last row at or below an address, 0 if there is none.
Found(m, a) == Max({k \in DOMAIN m : m[k].address <= a} \union {0})

LEMMA FoundFacts ==
  ASSUME NEW m \in Seq(SourceRow), NEW a
  PROVE  /\ Found(m, a) \in 0 .. Len(m)
         /\ Found(m, a) # 0 => m[Found(m, a)].address <= a
         /\ \A k \in DOMAIN m : m[k].address <= a => k <= Found(m, a)
<1> DEFINE S == {k \in DOMAIN m : m[k].address <= a} \union {0}
<1>1. Len(m) \in Nat /\ DOMAIN m = 1 .. Len(m)
  OBVIOUS
<1>2. S \subseteq Nat /\ S # {} /\ \A k \in S : k <= Len(m)
  BY <1>1
<1>3. \A k \in S : k # 0 => k \in DOMAIN m /\ m[k].address <= a
  OBVIOUS
<1>4. \A k \in DOMAIN m : m[k].address <= a => k \in S
  OBVIOUS
<1>5. Found(m, a) = Max(S)
  BY DEF Found
<1> HIDE DEF S
<1> DEFINE u == Found(m, a)
<1>6. u \in S /\ \A k \in S : k <= u
  BY <1>1, <1>2, <1>5, MaxIsGreatest
<1> HIDE DEF u
<1>7. u \in 0 .. Len(m)
  BY <1>1, <1>2, <1>6
<1>8. u # 0 => m[u].address <= a
  BY <1>3, <1>6
<1>9. \A k \in DOMAIN m : m[k].address <= a => k <= u
  BY <1>4, <1>6
<1>10. QED
  BY <1>7, <1>8, <1>9 DEF u

\* A located address has a row at or below it, and no row between.
LEMMA FoundIsClosest ==
  ASSUME NEW rs \in Seq(SourceRow), NEW m, Sorting(m, rs), NEW a, Found(m, a) # 0,
         NEW j \in DOMAIN rs, rs[j].address <= a
  PROVE  rs[j].address <= m[Found(m, a)].address
<1> DEFINE u == Found(m, a)
<1>1. PICK k \in DOMAIN m : m[k] = rs[j]
  BY DEF Sorting
<1>2. m \in Seq(SourceRow)
  BY DEF Sorting
<1>3. u \in 0 .. Len(m) /\ k <= u
  BY <1>1, <1>2, FoundFacts
<1> HIDE DEF u
<1>4. u \in DOMAIN m /\ k \in 1 .. u
  BY <1>1, <1>2, <1>3
<1>5. m[k].address <= m[u].address
  BY <1>4 DEF Sorting
<1>6. QED
  BY <1>1, <1>5 DEF u

-----------------------------------------------------------------------------
(* The adapter.                                                            *)

\* What the adapter answers to the address j of a request.
Offset(r, j) == r.ips[j] - r.base
Nearest(r, m, j) == Found(m, r.elfAddress + Offset(r, j))
Located(r, m, j) ==
  /\ r.ips[j] >= r.base /\ r.elfAddress + Offset(r, j) < AddressSpace
  /\ Nearest(r, m, j) # 0 /\ Usable(m[Nearest(r, m, j)])
LocationOf(r, m, j) ==
  LET mapping == m[Nearest(r, m, j)]
  IN  [ip |-> Offset(r, j), file |-> mapping.file, line |-> mapping.line]
Location == [ip : 0 .. AddressSpace - 1, file : Nat, line : 0 .. Uint32Space - 1]

LEMMA LookUpStep ==
  ASSUME LookUp
  PROVE  /\ phase = "look_up" /\ ip <= Len(request.ips) /\ ip' = ip + 1
         /\ UNCHANGED <<machine, request, mappings>>
         /\ locations' = IF Located(request, mappings, ip)
                         THEN Append(locations, LocationOf(request, mappings, ip)) ELSE locations
<1>1. /\ phase = "look_up" /\ ip <= Len(request.ips) /\ ip' = ip + 1
      /\ UNCHANGED <<machine, request, mappings>>
  BY DEF LookUp, Locate
<1>2. \A a : UpperBound(a) = Found(mappings, a)
  BY DEF UpperBound, Found
<1>3. locations' = IF Located(request, mappings, ip)
                   THEN Append(locations, LocationOf(request, mappings, ip)) ELSE locations
  BY <1>2 DEF LookUp, Locate, Located, LocationOf, Nearest, Offset
<1>4. QED
  BY <1>1, <1>3

LEMMA RequestFacts ==
  ASSUME NEW r \in Requests
  PROVE  /\ r.header \in Header /\ r.ops \in Seq(Op) /\ r.ips \in Seq(0 .. AddressSpace - 1)
         /\ r.elfAddress \in Nat /\ r.base \in Nat
         /\ \A j \in 1 .. Len(r.ips) : r.ips[j] \in 0 .. AddressSpace - 1
         /\ \A k \in 1 .. Len(r.ops) : r.ops[k].kind = "end_sequence" => k = Len(r.ops)
<1>1. IsRequest(r)
  BY RequestsAssumption
<1>2. /\ r.header \in Header /\ r.ops \in Seq(Op) /\ r.ips \in Seq(0 .. AddressSpace - 1)
      /\ \A k \in 1 .. Len(r.ops) : r.ops[k].kind = "end_sequence" => k = Len(r.ops)
  BY <1>1 DEF IsRequest
<1>3. r.elfAddress \in 0 .. AddressSpace - 1 /\ r.base \in 0 .. AddressSpace - 1
  BY <1>1 DEF IsRequest
<1>4. r.elfAddress \in Nat /\ r.base \in Nat
  BY <1>3, SpacesAssumption
<1>5. \A j \in 1 .. Len(r.ips) : r.ips[j] \in 0 .. AddressSpace - 1
  <2> DEFINE s == r.ips
             S == 0 .. AddressSpace - 1
  <2>1. s \in Seq(S)
    BY <1>2
  <2> HIDE DEF s, S
  <2>2. \A j \in 1 .. Len(s) : s[j] \in S
    BY <2>1
  <2>3. QED
    BY <2>2 DEF s, S
<1>6. QED
  BY <1>2, <1>4, <1>5

LEMMA LocationType ==
  ASSUME NEW r \in Requests, NEW m \in Seq(SourceRow), NEW j \in 1 .. Len(r.ips), Located(r, m, j)
  PROVE  LocationOf(r, m, j) \in Location
<1> DEFINE u == Nearest(r, m, j)
           o == Offset(r, j)
<1>1. u \in 0 .. Len(m) /\ u # 0
  BY FoundFacts DEF Nearest, Located
<1> HIDE DEF u
<1>2. m[u] \in SourceRow
  BY <1>1
<1>3. o \in 0 .. AddressSpace - 1
  <2>1. r.ips[j] \in 0 .. AddressSpace - 1 /\ r.base \in Nat /\ r.ips[j] >= r.base
    BY RequestFacts DEF Located
  <2>2. QED
    BY <2>1, SpacesAssumption DEF Offset
<1> HIDE DEF o
<1>4. LocationOf(r, m, j) = [ip |-> o, file |-> m[u].file, line |-> m[u].line]
  BY DEF LocationOf, u, o
<1>5. QED
  BY <1>2, <1>3, <1>4 DEF Location, SourceRow

\* Which phases have mappings and answers; the mappings are the rows, sorted.
PhaseInv ==
  /\ phase \in {"run", "aborted"} => mappings = << >> /\ ip = 1
  /\ phase = "look_up" => Answerable /\ mappings # << >>
  /\ phase = "done" /\ Answerable =>
       /\ pos = Len(ops) + 1
       /\ rows = << >> \/ (mappings # << >> /\ ip = Len(request.ips) + 1)
  /\ mappings = << >> => locations = << >>
  /\ mappings # << >> => pos = Len(ops) + 1 /\ Sorting(mappings, rows)

\* The inductive invariant.
Inv ==
  /\ MachineInv
  /\ request \in Requests /\ header = request.header /\ ops = request.ops
  /\ phase \in {"run", "look_up", "done", "aborted"}
  /\ ip \in 1 .. Len(request.ips) + 1 /\ locations \in Seq(Location)
  /\ PhaseInv

LEMMA InvImpliesTypeOK ==
  ASSUME Inv
  PROVE  TypeOK
<1>1. /\ request \in Requests /\ phase \in {"run", "look_up", "done", "aborted"}
      /\ ip \in 1 .. Len(request.ips) + 1
      /\ locations \in Seq([ip : 0 .. AddressSpace - 1, file : Nat, line : 0 .. Uint32Space - 1])
  BY DEF Inv, Location
<1>2. MachineTypeOK
  BY DEF Inv, MachineInv, MachineTypeOK, Registers
<1>3. mappings = << >> \/ Len(mappings) = Len(rows)
  BY DEF Inv, PhaseInv, Sorting
<1>4. Range(mappings) \subseteq Range(rows)
  <2>1. CASE mappings = << >>
    BY <2>1 DEF Range
  <2>2. CASE mappings # << >>
    <3>1. \A k \in DOMAIN mappings : \E j \in DOMAIN rows : mappings[k] = rows[j]
      BY <2>2 DEF Inv, PhaseInv, Sorting
    <3>2. QED
      BY <3>1 DEF Range
  <2>3. QED
    BY <2>1, <2>2
<1>5. QED
  BY <1>1, <1>2, <1>3, <1>4 DEF TypeOK

LEMMA InvInit ==
  ASSUME Init
  PROVE  Inv
<1>1. /\ request \in Requests /\ header = request.header /\ ops = request.ops /\ phase = "run"
      /\ pos = 1 /\ rows = << >> /\ mappings = << >> /\ ip = 1 /\ locations = << >>
      /\ state = InitialState
  BY DEF Init, MachineInit
<1>2. header \in Header /\ ops \in Seq(Op) /\ Len(ops) \in Nat /\ Len(request.ips) \in Nat
  BY <1>1, RequestFacts
<1>3. state \in Registers(header)
  <2>1. /\ 0 \in 0 .. AddressSpace - 1 /\ 0 \in 0 .. header.maxOps - 1 /\ 1 \in Nat
        /\ 1 \in 0 .. Uint32Space - 1
    BY <1>2, SpacesAssumption DEF Header
  <2>2. QED
    BY <1>1, <2>1 DEF InitialState, Registers
<1>4. MachineInv
  BY <1>1, <1>2, <1>3 DEF MachineInv
<1>5. PhaseInv
  BY <1>1 DEF PhaseInv
<1>6. QED
  BY <1>1, <1>2, <1>4, <1>5 DEF Inv

\* The machine keeps its types; it has no mapping yet.
LEMMA InvMachine ==
  ASSUME Inv, RunMachine
  PROVE  Inv'
<1>1. RunOperation /\ UNCHANGED lookup /\ MachineInv
  BY DEF RunMachine, Inv
<1>2. /\ phase = "run" /\ pos \in 1 .. Len(ops) /\ UNCHANGED <<header, ops>>
      /\ \/ phase' = "aborted" /\ UNCHANGED <<pos, state, rows>>
         \/ /\ phase' = "run" /\ Runs(ops[pos])
            /\ pos' = IF ops[pos].kind = "end_sequence" THEN Len(ops) + 1 ELSE pos + 1
  BY <1>1, OperationStep
<1>3. UNCHANGED <<request, mappings, ip, locations>> /\ phase' \in {"run", "aborted"}
  BY <1>1, <1>2 DEF lookup
<1>4. mappings = << >> /\ ip = 1 /\ locations = << >>
  BY <1>2 DEF Inv, PhaseInv
<1>5. PhaseInv'
  BY <1>3, <1>4 DEF PhaseInv
<1>6. MachineInv'
  <2>1. CASE phase' = "aborted"
    BY <1>1, <1>2, <2>1 DEF MachineInv
  <2>2. CASE phase' = "run"
    <3>1. Runs(ops[pos]) /\ pos' \in 1 .. Len(ops) + 1 /\ header' = header /\ ops' = ops
      BY <1>2, <2>2
    <3>2. state' \in Registers(header)
      BY <3>1 DEF Runs
    <3>3. \A isEnd \in BOOLEAN : RowOf(state', isEnd) \in SourceRow
      BY <3>2 DEF RowOf, Registers, SourceRow
    <3>4. rows' \in Seq(SourceRow)
      <4>1. (ops[pos].kind = "end_sequence") \in BOOLEAN
        OBVIOUS
      <4> DEFINE row == RowOf(state', ops[pos].kind = "end_sequence")
      <4>2. row \in SourceRow /\ rows \in Seq(SourceRow)
        BY <1>1, <3>3, <4>1 DEF MachineInv
      <4>3. rows' = Append(rows, row) \/ rows' = rows
        BY <3>1 DEF Runs
      <4> HIDE DEF row
      <4>4. QED
        BY <4>2, <4>3
    <3>5. QED
      BY <1>1, <3>1, <3>2, <3>4 DEF MachineInv
  <2>3. QED
    BY <1>2, <2>1, <2>2
<1>7. QED
  BY <1>2, <1>3, <1>5, <1>6 DEF Inv

LEMMA InvSort ==
  ASSUME Inv, SortMappings
  PROVE  Inv'
<1>1. /\ Answerable /\ phase = "run" /\ pos > Len(ops)
      /\ UNCHANGED <<header, ops, pos, state, rows, request, ip, locations>>
      /\ \/ rows = << >> /\ phase' = "done" /\ mappings' = mappings
         \/ rows # << >> /\ phase' = "look_up" /\ mappings' \in SortedByAddress
  BY DEF SortMappings, Return, lookup
<1>2. mappings = << >> /\ locations = << >> /\ ip = 1 /\ rows \in Seq(SourceRow)
      /\ pos \in 1 .. Len(ops) + 1 /\ ops \in Seq(Op)
  BY <1>1 DEF Inv, PhaseInv, MachineInv
<1>3. pos = Len(ops) + 1
  BY <1>1, <1>2
<1>4. Answerable'
  BY <1>1 DEF Answerable
<1>5. phase' = "look_up" => Sorting(mappings', rows) /\ mappings' # << >>
  <2>1. SUFFICES ASSUME rows # << >>, mappings' \in SortedByAddress
                 PROVE  Sorting(mappings', rows) /\ mappings' # << >>
    BY <1>1
  <2>2. Sorting(mappings', rows)
    BY <1>2, <2>1, SortedIsSorting
  <2>3. Len(mappings') = Len(rows) /\ Len(rows) # 0
    BY <1>2, <2>1, <2>2 DEF Sorting
  <2>4. QED
    BY <2>2, <2>3
<1>6. PhaseInv'
  <2>1. CASE phase' = "done"
    <3>1. rows' = << >> /\ mappings' = << >> /\ locations' = << >> /\ pos' = Len(ops') + 1
      BY <1>1, <1>2, <1>3, <2>1
    <3>2. QED
      BY <2>1, <3>1 DEF PhaseInv
  <2>2. CASE phase' = "look_up"
    <3>1. Sorting(mappings', rows') /\ mappings' # << >>
      BY <1>1, <1>5, <2>2
    <3>2. QED
      BY <1>1, <1>2, <1>3, <1>4, <2>2, <3>1 DEF PhaseInv
  <2>3. QED
    BY <1>1, <2>1, <2>2
<1>7. MachineInv'
  BY <1>1 DEF Inv, MachineInv
<1>8. QED
  BY <1>1, <1>6, <1>7 DEF Inv

LEMMA InvLookUp ==
  ASSUME Inv, LookUp
  PROVE  Inv'
<1>1. /\ phase = "look_up" /\ ip <= Len(request.ips) /\ ip' = ip + 1
      /\ UNCHANGED <<machine, request, mappings>>
      /\ locations' = IF Located(request, mappings, ip)
                      THEN Append(locations, LocationOf(request, mappings, ip)) ELSE locations
  BY LookUpStep
<1>2. /\ request \in Requests /\ ip \in 1 .. Len(request.ips) + 1 /\ locations \in Seq(Location)
      /\ mappings # << >> /\ pos = Len(ops) + 1 /\ Sorting(mappings, rows) /\ Answerable
  BY <1>1 DEF Inv, PhaseInv
<1>3. ip \in 1 .. Len(request.ips) /\ ip + 1 \in 1 .. Len(request.ips) + 1
  <2>1. Len(request.ips) \in Nat
    BY <1>2, RequestFacts
  <2>2. QED
    BY <1>1, <1>2, <2>1
<1>4. locations' \in Seq(Location)
  <2>1. Located(request, mappings, ip) => LocationOf(request, mappings, ip) \in Location
    BY <1>2, <1>3, LocationType DEF Sorting
  <2>2. QED
    BY <1>1, <1>2, <2>1
<1>5. UNCHANGED <<header, ops, phase, pos, state, rows>>
  BY <1>1 DEF machine
<1>6. Sorting(mappings', rows') /\ Answerable'
  BY <1>1, <1>2, <1>5 DEF Answerable
<1>7. PhaseInv'
  BY <1>1, <1>2, <1>5, <1>6 DEF PhaseInv
<1>8. MachineInv'
  BY <1>5 DEF Inv, MachineInv
<1>9. QED
  BY <1>1, <1>2, <1>3, <1>4, <1>5, <1>7, <1>8 DEF Inv

\* A request that cannot be answered and the end of the loop.
LEMMA InvReturn ==
  ASSUME Inv, RejectRequest \/ FinishLookUp
  PROVE  Inv'
<1>1. /\ UNCHANGED <<header, ops, pos, state, rows, request, mappings, ip, locations>>
      /\ phase' = "done"
  BY DEF RejectRequest, FinishLookUp, Return, lookup
<1>2. Answerable' <=> Answerable
  BY <1>1 DEF Answerable
<1>3. Answerable => pos = Len(ops) + 1 /\ mappings # << >> /\ ip = Len(request.ips) + 1
  <2>1. SUFFICES ASSUME Answerable
                 PROVE  pos = Len(ops) + 1 /\ mappings # << >> /\ ip = Len(request.ips) + 1
    OBVIOUS
  <2>2. phase = "look_up" /\ ip > Len(request.ips)
    BY <2>1 DEF RejectRequest, FinishLookUp
  <2>3. Len(request.ips) \in Nat /\ ip \in 1 .. Len(request.ips) + 1
    BY RequestFacts DEF Inv
  <2>4. QED
    BY <2>2, <2>3 DEF Inv, PhaseInv
<1>4. PhaseInv'
  <2>1. mappings' # << >> => Sorting(mappings', rows') /\ pos' = Len(ops') + 1
    BY <1>1 DEF Inv, PhaseInv
  <2>2. mappings' = << >> => locations' = << >>
    BY <1>1 DEF Inv, PhaseInv
  <2>3. QED
    BY <1>1, <1>2, <1>3, <2>1, <2>2 DEF PhaseInv
<1>5. MachineInv'
  BY <1>1 DEF Inv, MachineInv
<1>6. QED
  BY <1>1, <1>4, <1>5 DEF Inv

LEMMA InvNext ==
  ASSUME Inv, [Next]_vars
  PROVE  Inv'
<1>1. CASE UNCHANGED vars
  <2>1. UNCHANGED <<header, ops, phase, pos, state, rows, request, mappings, ip, locations>>
    BY <1>1 DEF vars, machine, lookup
  <2>2. MachineInv'
    BY <2>1 DEF Inv, MachineInv
  <2>3. Answerable' <=> Answerable
    BY <2>1 DEF Answerable
  <2>4. PhaseInv'
    BY <2>1, <2>3 DEF Inv, PhaseInv
  <2>5. QED
    BY <2>1, <2>2, <2>4 DEF Inv
<1>2. CASE Next
  BY <1>2, InvMachine, InvSort, InvLookUp, InvReturn DEF Next
<1>3. QED
  BY <1>1, <1>2

\* Whatever the program: the registers keep their widths, every row its type,
\* and the mappings are the rows the machine found.
THEOREM LookupTypeCorrect == Spec => []TypeOK
<1>1. Init => Inv
  BY InvInit
<1>2. Inv /\ [Next]_vars => Inv'
  BY InvNext
<1>3. Inv => TypeOK
  BY InvImpliesTypeOK
<1>4. QED
  BY <1>1, <1>2, <1>3, PTL DEF Spec

-----------------------------------------------------------------------------
(* The rows of the machine are the program's.                              *)

\* The programs the machine is right about: the bytes of an advance it decodes fit
\* in 32 bits, and with more than one operation an instruction there is no special
\* opcode, whose address the code computes from the updated operation, and the
\* address is set where an instruction begins, for the code keeps the operation.
Regular(h, p) ==
  /\ \/ h.maxOps = 1
     \/ \A k \in DOMAIN p :
          /\ p[k].kind # "special"
          /\ p[k].kind = "set_address" => Done(h, p, k - 1) % h.maxOps = 0
  /\ \A k \in DOMAIN p :
       Decodable(p[k]) => h.minInst * OperationAdvance(h, p[k]) < Uint32Space

\* The registers s and the rows rs are those after the first k operations.
Decodes(h, p, k, s, rs) ==
  /\ s.operation = Done(h, p, k) % h.maxOps
  /\ s.address = Addresses(h, p)[k]
  /\ s.file = FileAfter(p, k)
  /\ s.line = (1 + LinesMoved(h, p)[k]) % Uint32Space
  /\ rs = RowsOf(h, p)[k]

LEMMA DecodeStart ==
  ASSUME NEW h \in Header, NEW p \in Seq(Op)
  PROVE  Decodes(h, p, 0, InitialState, << >>)
<1>1. 0 \in 0 .. Len(p) /\ 0 \in Nat /\ h.maxOps \in Nat \ {0} /\ h.minInst \in Nat
  BY DEF Header
<1>2. LastReset(p, 0) = 0 /\ LastOf(p, {"set_file"}, 0) = 0
  BY <1>1, LastOfStep DEF LastReset
<1>3. OperationsMoved(h, p)[0] = 0 /\ LinesMoved(h, p)[0] = 0
  BY MovedSums
<1>4. Done(h, p, 0) = 0
  BY <1>2, <1>3 DEF Done
<1>5. Addresses(h, p)[0] = Moved(h, 0, 0)
  BY <1>1, <1>2, <1>4, DoneType DEF From
<1>6. 0 \div h.maxOps = 0 /\ 0 % h.maxOps = 0
  <2> DEFINE m == h.maxOps
  <2>1. m \in Nat \ {0} /\ 0 \in 0 .. m - 1
    BY <1>1
  <2> HIDE DEF m
  <2>2. 0 \div m = 0 /\ 0 % m = 0
    BY <2>1, ModSmall
  <2>3. QED
    BY <2>2 DEF m
<1>7. Moved(h, 0, 0) = 0
  <2> DEFINE q == 0 \div h.maxOps
             b == h.minInst
  <2>1. q = 0 /\ b \in Nat
    BY <1>1, <1>6
  <2> HIDE DEF q, b
  <2>2. 0 + b * q = 0
    BY <2>1
  <2>3. 0 % AddressSpace = 0
    <3>1. 0 \in 0 .. AddressSpace - 1 /\ AddressSpace \in Nat \ {0}
      BY SpacesAssumption
    <3>2. QED
      BY <3>1, ModSmall
  <2>4. Moved(h, 0, 0) = (0 + b * q) % AddressSpace
    BY DEF Moved, b, q
  <2>5. QED
    BY <2>2, <2>3, <2>4
<1>8. (1 + LinesMoved(h, p)[0]) % Uint32Space = 1
  <2>1. 1 \in 0 .. Uint32Space - 1 /\ Uint32Space \in Nat \ {0} /\ 1 + 0 = 1
    BY SpacesAssumption
  <2>2. 1 % Uint32Space = 1
    BY <2>1, ModSmall
  <2>3. QED
    BY <1>3, <2>1, <2>2
<1>9. FileAfter(p, 0) = 1
  BY <1>2 DEF FileAfter
<1>10. RowsOf(h, p)[0] = << >>
  BY RowsOfDef
<1>11. QED
  BY <1>4, <1>5, <1>6, <1>7, <1>8, <1>9, <1>10 DEF Decodes, InitialState

\* The bytes of an advance are those the program means if they fit in 32 bits.
LEMMA BytesFit ==
  ASSUME NEW h \in Header, NEW o \in 0 .. h.maxOps - 1, NEW advance \in Nat,
         h.minInst * advance < Uint32Space
  PROVE  Bytes(h, o, advance) = h.minInst * ((o + advance) \div h.maxOps)
<1> DEFINE m == h.maxOps
           b == h.minInst
           q == (o + advance) \div m
           x == b * q
<1>1. m \in Nat \ {0} /\ b \in Nat /\ Uint32Space \in Nat \ {0}
  BY SpacesAssumption DEF Header
<1>2. o \in 0 .. m - 1 /\ b * advance < Uint32Space /\ Bytes(h, o, advance) = x % Uint32Space
  BY DEF Bytes
<1> HIDE DEF m, b
<1>3. q \in 0 .. advance
  BY <1>1, <1>2, DivBound
<1> HIDE DEF q
<1>4. x \in Nat /\ x <= b * advance
  <2>1. q \in Nat /\ advance - q \in Nat
    BY <1>3
  <2>2. b * (advance - q) \in Nat /\ b * (advance - q) = b * advance - b * q
    BY <1>1, <2>1
  <2>3. b * q \in Nat /\ b * advance \in Nat
    BY <1>1, <2>1
  <2>4. QED
    BY <2>2, <2>3
<1>5. x \in 0 .. Uint32Space - 1
  <2>1. b * advance \in Nat
    BY <1>1
  <2> HIDE DEF x
  <2>2. QED
    BY <1>1, <1>2, <1>4, <2>1
<1> HIDE DEF x
<1>6. x % Uint32Space = x
  BY <1>1, <1>5, ModSmall
<1>7. QED
  BY <1>2, <1>6 DEF x, q, b, m

\* Address and operation after one operation more.
LEMMA DecodeMove ==
  ASSUME header \in Header, ops \in Seq(Op), state \in Registers(header),
         state' \in Registers(header), NEW k \in 0 .. Len(ops), k + 1 <= Len(ops),
         ops[k + 1].kind \notin Resets, Moves(ops[k + 1]), Decodable(ops[k + 1]),
         Regular(header, ops),
         state.operation = Done(header, ops, k) % header.maxOps,
         state.address = Addresses(header, ops)[k]
  PROVE  /\ state'.operation = Done(header, ops, k + 1) % header.maxOps
         /\ state'.address = Addresses(header, ops)[k + 1]
<1> DEFINE op == ops[k + 1]
           m == header.maxOps
           advance == OperationAdvance(header, op)
           done == Done(header, ops, k)
           o == state.operation
           from == IF op.kind = "special" THEN state'.operation ELSE state.operation
<1>1. /\ op \in Op /\ k + 1 \in DOMAIN ops /\ m \in Nat \ {0} /\ o \in 0 .. m - 1
      /\ state'.operation \in 0 .. m - 1
  <2>1. op \in Op /\ k + 1 \in DOMAIN ops
    OBVIOUS
  <2>2. m \in Nat \ {0}
    BY DEF Header
  <2>3. o \in 0 .. m - 1 /\ state'.operation \in 0 .. m - 1
    BY DEF Registers
  <2>4. QED
    BY <2>1, <2>2, <2>3
<1>2. advance \in Nat /\ done \in Int /\ header.minInst * advance < Uint32Space
  BY <1>1, AdvanceFacts, DoneType DEF Regular
<1>3. /\ Done(header, ops, k + 1) = done + advance
      /\ Addresses(header, ops)[k + 1] =
           (Addresses(header, ops)[k] + header.minInst * (((done % m) + advance) \div m)) % AddressSpace
  BY AddressMoves
<1>4. /\ state'.operation = (o + advance) % m
      /\ state'.address = (state.address + Bytes(header, from, advance)) % AddressSpace
  BY DEF Moves
<1>5. from = o
  <2>1. CASE op.kind # "special"
    BY <2>1
  <2>2. CASE op.kind = "special"
    <3>1. m = 1
      BY <1>1, <2>2 DEF Regular
    <3>2. \A x \in 0 .. m - 1 : x = 0
      BY <3>1
    <3>3. QED
      BY <1>1, <3>2
  <2>3. QED
    BY <2>1, <2>2
<1>6. o = done % m
  OBVIOUS
<1> HIDE DEF from, advance, done, o
<1>7. Bytes(header, from, advance) = header.minInst * ((o + advance) \div m)
  BY <1>1, <1>2, <1>5, BytesFit
<1>8. state'.address = Addresses(header, ops)[k + 1]
  BY <1>3, <1>4, <1>6, <1>7
<1> HIDE DEF m
<1>9. (o + advance) % m = (done + advance) % m
  <2>1. advance \in Int
    BY <1>2
  <2>2. ((done % m) + advance) % m = (done + advance) % m
    BY <1>1, <1>2, <2>1, ModAdd
  <2>3. QED
    BY <1>6, <2>2
<1>10. QED
  BY <1>3, <1>4, <1>8, <1>9 DEF m

LEMMA DecodeSet ==
  ASSUME header \in Header, ops \in Seq(Op), state \in Registers(header),
         NEW k \in 0 .. Len(ops), k + 1 <= Len(ops),
         ops[k + 1].kind \in Resets, Sets(ops[k + 1]), Regular(header, ops),
         state.operation = Done(header, ops, k) % header.maxOps,
         state.address = Addresses(header, ops)[k]
  PROVE  /\ state'.operation = Done(header, ops, k + 1) % header.maxOps
         /\ state'.address = Addresses(header, ops)[k + 1]
<1> DEFINE op == ops[k + 1]
           m == header.maxOps
<1>1. m \in Nat \ {0} /\ state.operation \in 0 .. m - 1 /\ 0 \in 0 .. m - 1
  BY DEF Header, Registers
<1>2. /\ Done(header, ops, k + 1) = 0
      /\ Addresses(header, ops)[k + 1] =
           IF op.kind = "set_address" THEN op.n ELSE (state.address + op.n) % AddressSpace
  BY AddressIsSet
<1>3. 0 % m = 0
  <2> HIDE DEF m
  <2>1. QED
    BY <1>1, ModSmall
<1>4. k + 1 \in DOMAIN ops /\ (k + 1) - 1 = k
  OBVIOUS
<1>5. CASE op.kind = "set_address"
  <2>1. state.operation = 0
    <3>1. CASE m = 1
      BY <1>1, <3>1
    <3>2. CASE m # 1
      <4>1. Done(header, ops, (k + 1) - 1) % m = 0
        BY <1>4, <1>5, <3>2 DEF Regular
      <4>2. QED
        BY <1>4, <4>1
    <3>3. QED
      BY <3>1, <3>2
  <2>2. QED
    BY <1>2, <1>3, <1>5, <2>1 DEF Sets
<1>6. CASE op.kind # "set_address"
  BY <1>2, <1>3, <1>6 DEF Sets
<1>7. QED
  BY <1>5, <1>6

LEMMA DecodeStep ==
  ASSUME MachineInv, pos \in 1 .. Len(ops), Runs(ops[pos]), Decodable(ops[pos]),
         Regular(header, ops),
         Decodes(header, ops, pos - 1, state, rows)
  PROVE  Decodes(header, ops, pos, state', rows')
<1> DEFINE op == ops[pos]
           k == pos - 1
<1>1. /\ header \in Header /\ ops \in Seq(Op) /\ state \in Registers(header)
      /\ state' \in Registers(header) /\ k \in 0 .. Len(ops) /\ k + 1 = pos /\ k + 1 <= Len(ops)
  BY DEF MachineInv, Runs
<1>2. /\ state.operation = Done(header, ops, k) % header.maxOps
      /\ state.address = Addresses(header, ops)[k] /\ state.file = FileAfter(ops, k)
      /\ state.line = (1 + LinesMoved(header, ops)[k]) % Uint32Space
      /\ rows = RowsOf(header, ops)[k]
  BY DEF Decodes
<1>3. /\ rows' = IF op.kind \in Appending
                 THEN Append(rows, RowOf(state', op.kind = "end_sequence")) ELSE rows
      /\ state'.file = IF op.kind = "set_file" THEN op.n ELSE state.file
      /\ state'.line = (state.line + LineAdvance(header, op)) % Uint32Space
      /\ IF op.kind \in Resets THEN Sets(op) ELSE Moves(op)
  BY DEF Runs
<1> HIDE DEF k
<1>4. /\ state'.operation = Done(header, ops, pos) % header.maxOps
      /\ state'.address = Addresses(header, ops)[pos]
  <2>1. CASE op.kind \in Resets
    <3>1. ops[k + 1].kind \in Resets /\ Sets(ops[k + 1])
      BY <1>1, <1>3, <2>1
    <3>2. QED
      BY <1>1, <1>2, <3>1, DecodeSet
  <2>2. CASE op.kind \notin Resets
    <3>1. ops[k + 1].kind \notin Resets /\ Moves(ops[k + 1]) /\ Decodable(ops[k + 1])
      BY <1>1, <1>3, <2>2
    <3>2. QED
      BY <1>1, <1>2, <3>1, DecodeMove
  <2>3. QED
    BY <2>1, <2>2
<1>5. /\ state'.file = FileAfter(ops, pos)
      /\ state'.line = (1 + LinesMoved(header, ops)[pos]) % Uint32Space
  <2>1. /\ FileAfter(ops, k + 1) = IF ops[k + 1].kind = "set_file" THEN ops[k + 1].n
                                   ELSE FileAfter(ops, k)
        /\ (1 + LinesMoved(header, ops)[k + 1]) % Uint32Space =
             (((1 + LinesMoved(header, ops)[k]) % Uint32Space) + LineAdvance(header, ops[k + 1]))
               % Uint32Space
    BY <1>1, FileAndLineMove
  <2>2. QED
    BY <1>1, <1>2, <1>3, <2>1
<1>6. rows' = RowsOf(header, ops)[pos]
  <2>1. RowsOf(header, ops)[pos] = IF op.kind \in Appending
                                   THEN Append(RowsOf(header, ops)[k], RowAfter(header, ops, pos))
                                   ELSE RowsOf(header, ops)[k]
    <3>1. pos - 1 = k
      BY DEF k
    <3>2. QED
      BY <1>1, <3>1, RowsOfDef
  <2>2. RowOf(state', op.kind = "end_sequence") = RowAfter(header, ops, pos)
    BY <1>4, <1>5 DEF RowOf, RowAfter
  <2>3. QED
    BY <1>2, <1>3, <2>1, <2>2
<1>7. QED
  BY <1>4, <1>5, <1>6 DEF Decodes

\* Where a word is one operation and no advance the machine decodes, nor one of
\* an opcode, is 2^32 bytes, every program is one it is right about.
LEMMA OneOperationPrograms ==
  ASSUME NEW h \in Header, NEW p \in Seq(Op), h.maxOps = 1, NEW limit \in Nat,
         256 <= limit, OperandLimit <= limit, h.minInst * limit <= Uint32Space
  PROVE  Regular(h, p)
<1>1. SUFFICES ASSUME NEW k \in DOMAIN p, Decodable(p[k])
               PROVE  h.minInst * OperationAdvance(h, p[k]) < Uint32Space
  BY DEF Regular
<1> DEFINE op == p[k]
           advance == OperationAdvance(h, op)
<1>2. op \in Op /\ Decodable(op)
  BY <1>1
<1>3. /\ h.minInst \in Nat /\ h.lineRange \in Nat \ {0} /\ h.opcodeBase \in 1 .. 13
      /\ Uint32Space \in Nat \ {0} /\ OperandLimit \in Nat
  BY SpacesAssumption DEF Header
<1>4. \A n \in 0 .. 255 : n \div h.lineRange \in 0 .. 255
  <2> SUFFICES ASSUME NEW n \in 0 .. 255
               PROVE  n \div h.lineRange \in 0 .. 255
    OBVIOUS
  <2> DEFINE m == h.lineRange
             zero == 0
  <2>1. zero \in 0 .. m - 1 /\ n \in Nat /\ m \in Nat \ {0} /\ zero + n = n
    BY <1>3
  <2> HIDE DEF m, zero
  <2>2. (zero + n) \div m \in 0 .. n
    BY <2>1, DivBound
  <2>3. n \div m \in 0 .. 255
    BY <2>1, <2>2
  <2>4. QED
    BY <2>3 DEF m
<1>5. advance \in Nat /\ advance < limit
  <2>1. CASE op.kind = "special"
    <3>1. advance = op.n \div h.lineRange /\ op.n \in 0 .. 255
      BY <1>2, <2>1 DEF OperationAdvance, Op
    <3>2. advance \in 0 .. 255
      BY <1>4, <3>1
    <3> HIDE DEF advance
    <3>3. QED
      BY <3>2
  <2>2. CASE op.kind = "advance_pc"
    <3>1. advance = op.n /\ op.n \in Nat
      BY <1>2, <2>2 DEF OperationAdvance, Op
    <3>2. op.n < OperandLimit
      BY <1>2, <2>2 DEF Decodable
    <3> HIDE DEF advance
    <3>3. QED
      BY <1>3, <3>1, <3>2
  <2>3. CASE op.kind = "const_add_pc"
    <3>1. advance = (255 - h.opcodeBase) \div h.lineRange
      BY <2>3 DEF OperationAdvance, ConstantAdvance
    <3>2. 255 - h.opcodeBase \in 0 .. 255
      <4> DEFINE base == h.opcodeBase
      <4>1. base \in 1 .. 13
        BY <1>3
      <4> HIDE DEF base, advance, op
      <4>2. base \in Nat /\ base <= 13
        BY <4>1
      <4>3. 255 - base \in 0 .. 255
        BY <4>2
      <4>4. QED
        BY <4>3 DEF base
    <3>3. advance \in 0 .. 255
      BY <1>4, <3>1, <3>2
    <3> HIDE DEF advance
    <3>4. QED
      BY <3>3
  <2>4. CASE op.kind \notin {"special", "advance_pc", "const_add_pc"}
    <3>1. advance = 0
      BY <2>4 DEF OperationAdvance
    <3> HIDE DEF advance
    <3>2. QED
      BY <3>1
  <2>5. QED
    BY <2>1, <2>2, <2>3, <2>4
<1> DEFINE b == h.minInst
<1>6. b \in Nat /\ b * limit <= Uint32Space
  BY <1>3
<1> HIDE DEF advance, b
<1>7. b * advance < Uint32Space
  <2>1. CASE b = 0
    BY <1>3, <1>5, <2>1
  <2>2. CASE b # 0
    <3>1. b * limit = b * advance + b * (limit - advance)
      BY <1>5, <1>6
    <3>2. b * (limit - advance) >= 1 /\ b * advance \in Nat /\ b * (limit - advance) \in Nat
      <4>1. limit - advance \in Nat \ {0} /\ b \in Nat \ {0}
        BY <1>5, <1>6, <2>2
      <4>2. QED
        BY <1>5, <1>6, <4>1
    <3>3. QED
      BY <1>3, <1>6, <3>1, <3>2
  <2>3. QED
    BY <2>1, <2>2
<1>8. QED
  BY <1>7 DEF advance, b

DecodeInv == Regular(header, ops) => Decodes(header, ops, pos - 1, state, rows)

LEMMA DecodeInvInit ==
  ASSUME Init
  PROVE  DecodeInv
<1>1. pos - 1 = 0 /\ state = InitialState /\ rows = << >>
  BY DEF Init, MachineInit
<1>2. header \in Header /\ ops \in Seq(Op)
  BY InvInit DEF Inv, MachineInv
<1>3. QED
  BY <1>1, <1>2, DecodeStart DEF DecodeInv

\* An end of a sequence is the last operation, so the next one is pos + 1 there too.
LEMMA DecodeInvNext ==
  ASSUME Inv, DecodeInv, [Next]_vars
  PROVE  DecodeInv'
<1>1. CASE UNCHANGED <<header, ops, pos, state, rows>>
  BY <1>1 DEF DecodeInv
<1>2. CASE RunMachine
  <2>1. /\ pos \in 1 .. Len(ops) /\ UNCHANGED <<header, ops>>
        /\ \/ UNCHANGED <<pos, state, rows>>
           \/ /\ Runs(ops[pos]) /\ Decodable(ops[pos])
              /\ pos' = IF ops[pos].kind = "end_sequence" THEN Len(ops) + 1 ELSE pos + 1
    BY <1>2, OperationStep DEF RunMachine, Inv
  <2>2. ops[pos].kind = "end_sequence" => pos = Len(ops)
    BY <2>1, RequestFacts DEF Inv
  <2>3. CASE UNCHANGED <<pos, state, rows>>
    BY <1>1, <2>1, <2>3
  <2>4. CASE Runs(ops[pos]) /\ Decodable(ops[pos]) /\ pos' = pos + 1
    <3>1. pos' - 1 = pos
      BY <2>1, <2>4
    <3>2. ASSUME Regular(header, ops)
          PROVE  Decodes(header, ops, pos, state', rows')
      <4>1. MachineInv /\ Decodes(header, ops, pos - 1, state, rows)
        BY <3>2 DEF Inv, DecodeInv
      <4>2. QED
        BY <2>1, <2>4, <3>2, <4>1, DecodeStep
    <3>3. QED
      BY <2>1, <3>1, <3>2 DEF DecodeInv
  <2>5. QED
    BY <2>1, <2>2, <2>3, <2>4
<1>3. CASE RejectRequest \/ SortMappings \/ LookUp \/ FinishLookUp \/ UNCHANGED vars
  <2>1. UNCHANGED <<header, ops, pos, state, rows>>
    BY <1>3, LookUpStep DEF RejectRequest, SortMappings, FinishLookUp, Return, vars, machine
  <2>2. QED
    BY <1>1, <2>1
<1>4. QED
  BY <1>2, <1>3 DEF Next

\* For every program the machine is right about, whatever its header, its
\* operations and their number: the rows found so far are those the program means.
THEOREM RowsAreExact == Spec => [](Regular(header, ops) => RowsAreTheProgramsRows)
<1>1. Init => Inv /\ DecodeInv
  BY InvInit, DecodeInvInit
<1>2. Inv /\ DecodeInv /\ [Next]_vars => Inv' /\ DecodeInv'
  BY InvNext, DecodeInvNext
<1>3. DecodeInv => (Regular(header, ops) => RowsAreTheProgramsRows)
  BY DEF DecodeInv, Decodes, RowsAreTheProgramsRows
<1>4. QED
  BY <1>1, <1>2, <1>3, PTL DEF Spec

\* With one operation an instruction nothing is asked of the program: that of
\* every unit gives the rows it means, if an instruction is few enough bytes.
THEOREM OneOperationRowsAreExact ==
  ASSUME NEW limit \in Nat, 256 <= limit, OperandLimit <= limit
  PROVE  Spec => [](header.maxOps = 1 /\ header.minInst * limit <= Uint32Space =>
                      RowsAreTheProgramsRows)
<1>1. Init => Inv /\ DecodeInv
  BY InvInit, DecodeInvInit
<1>2. Inv /\ DecodeInv /\ [Next]_vars => Inv' /\ DecodeInv'
  BY InvNext, DecodeInvNext
<1>3. Inv /\ DecodeInv =>
        (header.maxOps = 1 /\ header.minInst * limit <= Uint32Space => RowsAreTheProgramsRows)
  <2> SUFFICES ASSUME Inv, DecodeInv, header.maxOps = 1, header.minInst * limit <= Uint32Space
               PROVE  RowsAreTheProgramsRows
    OBVIOUS
  <2>1. header \in Header /\ ops \in Seq(Op)
    BY DEF Inv, MachineInv
  <2>2. Regular(header, ops)
    BY <2>1, OneOperationPrograms
  <2>3. QED
    BY <2>2 DEF DecodeInv, Decodes, RowsAreTheProgramsRows
<1>4. QED
  BY <1>1, <1>2, <1>3, PTL DEF Spec

-----------------------------------------------------------------------------
(* The answers.                                                            *)

\* The end of the sequence is the last row.
EndInv == \A n \in DOMAIN rows : rows[n].end => n = Len(rows) /\ pos = Len(ops) + 1

LEMMA EndInvNext ==
  ASSUME Inv, EndInv, [Next]_vars
  PROVE  EndInv'
<1>1. CASE UNCHANGED <<ops, pos, rows>>
  BY <1>1 DEF EndInv
<1>2. CASE RunMachine
  <2>1. /\ pos \in 1 .. Len(ops) /\ ops' = ops
        /\ \/ UNCHANGED <<pos, rows>>
           \/ /\ Runs(ops[pos])
              /\ pos' = IF ops[pos].kind = "end_sequence" THEN Len(ops) + 1 ELSE pos + 1
    BY <1>2, OperationStep DEF RunMachine, Inv
  <2>2. Len(ops) \in Nat /\ Len(rows) \in Nat /\ rows \in Seq(SourceRow)
    BY DEF Inv, MachineInv
  <2>3. \A n \in DOMAIN rows : ~ rows[n].end
    BY <2>1, <2>2 DEF EndInv
  <2>4. CASE Runs(ops[pos]) /\ pos' = IF ops[pos].kind = "end_sequence" THEN Len(ops) + 1 ELSE pos + 1
    <3> DEFINE row == RowOf(state', ops[pos].kind = "end_sequence")
    <3>1. row.end => pos' = Len(ops) + 1
      BY <2>4 DEF RowOf
    <3>2. rows' = Append(rows, row) \/ rows' = rows
      BY <2>4 DEF Runs
    <3> HIDE DEF row
    <3>3. CASE rows' = rows
      BY <2>3, <3>3 DEF EndInv
    <3>4. CASE rows' = Append(rows, row)
      <4>1. /\ Len(rows') = Len(rows) + 1 /\ DOMAIN rows' = 1 .. Len(rows) + 1
            /\ rows'[Len(rows) + 1] = row
            /\ \A n \in 1 .. Len(rows) : rows'[n] = rows[n]
        BY <2>2, <3>4, AppendProperties
      <4>2. ASSUME NEW n \in DOMAIN rows', rows'[n].end
            PROVE  n = Len(rows') /\ pos' = Len(ops') + 1
        <5>1. n \notin 1 .. Len(rows)
          BY <2>2, <2>3, <4>1, <4>2
        <5>2. n = Len(rows) + 1
          BY <2>2, <4>1, <5>1
        <5>3. QED
          BY <2>1, <3>1, <4>1, <4>2, <5>2
      <4>3. QED
        BY <4>2 DEF EndInv
    <3>5. QED
      BY <3>2, <3>3, <3>4
  <2>5. QED
    BY <1>1, <2>1, <2>4
<1>3. CASE RejectRequest \/ SortMappings \/ LookUp \/ FinishLookUp \/ UNCHANGED vars
  <2>1. UNCHANGED <<ops, pos, rows>>
    BY <1>3, LookUpStep DEF RejectRequest, SortMappings, FinishLookUp, Return, vars, machine
  <2>2. QED
    BY <1>1, <2>1
<1>4. QED
  BY <1>2, <1>3 DEF Next

\* locs are the answers to the addresses before the n-th.
Answers(r, m, n, locs) ==
  /\ \A j \in 1 .. n - 1 :
       Located(r, m, j) => \E i \in DOMAIN locs : locs[i] = LocationOf(r, m, j)
  /\ \A i \in DOMAIN locs :
       \E j \in 1 .. n - 1 : Located(r, m, j) /\ locs[i] = LocationOf(r, m, j)
  /\ IsInjective(r.ips) => \A i, k \in DOMAIN locs : locs[i].ip = locs[k].ip => i = k

LEMMA AnswersStep ==
  ASSUME NEW r \in Requests, NEW m, NEW n \in 1 .. Len(r.ips), NEW locs \in Seq(Location),
         Answers(r, m, n, locs)
  PROVE  Answers(r, m, n + 1, IF Located(r, m, n) THEN Append(locs, LocationOf(r, m, n)) ELSE locs)
<1> DEFINE next == IF Located(r, m, n) THEN Append(locs, LocationOf(r, m, n)) ELSE locs
<1>1. n \in Nat /\ \A j \in 1 .. (n + 1) - 1 : j \in 1 .. n - 1 \/ j = n
  OBVIOUS
<1>2. \A j \in 1 .. n - 1 : j \in 1 .. (n + 1) - 1
  BY <1>1
<1>3. n \in 1 .. (n + 1) - 1
  BY <1>1
<1>4. CASE ~ Located(r, m, n)
  <2>1. next = locs
    BY <1>4
  <2>2. Answers(r, m, n + 1, locs)
    BY <1>1, <1>2, <1>4 DEF Answers
  <2>3. QED
    BY <2>1, <2>2
<1>5. CASE Located(r, m, n)
  <2> DEFINE location == LocationOf(r, m, n)
             l == Len(locs)
  <2>1. next = Append(locs, location)
    BY <1>5
  <2> HIDE DEF next
  <2>2. /\ l \in Nat /\ DOMAIN locs = 1 .. l /\ DOMAIN next = 1 .. l + 1 /\ next[l + 1] = location
        /\ \A i \in 1 .. l : next[i] = locs[i]
    <3> HIDE DEF location
    <3>1. QED
      BY <2>1
  <2>3. ASSUME NEW j \in 1 .. (n + 1) - 1, Located(r, m, j)
        PROVE  \E i \in DOMAIN next : next[i] = LocationOf(r, m, j)
    <3>1. CASE j = n
      <4>1. l + 1 \in DOMAIN next /\ next[l + 1] = LocationOf(r, m, j)
        BY <2>2, <3>1
      <4>2. QED
        BY <4>1
    <3>2. CASE j \in 1 .. n - 1
      <4>1. PICK i \in DOMAIN locs : locs[i] = LocationOf(r, m, j)
        BY <2>3, <3>2 DEF Answers
      <4>2. i \in DOMAIN next /\ next[i] = locs[i]
        BY <2>2
      <4>3. QED
        BY <4>1, <4>2
    <3>3. QED
      BY <1>1, <3>1, <3>2
  <2>4. ASSUME NEW i \in DOMAIN next
        PROVE  \E j \in 1 .. (n + 1) - 1 : Located(r, m, j) /\ next[i] = LocationOf(r, m, j)
    <3>1. CASE i = l + 1
      BY <1>3, <1>5, <2>2, <3>1
    <3>2. CASE i \in 1 .. l
      <4>1. PICK j \in 1 .. n - 1 : Located(r, m, j) /\ locs[i] = LocationOf(r, m, j)
        BY <2>2, <3>2 DEF Answers
      <4>2. next[i] = LocationOf(r, m, j) /\ j \in 1 .. (n + 1) - 1
        BY <1>2, <2>2, <3>2, <4>1
      <4>3. QED
        BY <4>1, <4>2
    <3>3. QED
      BY <2>2, <3>1, <3>2
  <2>5. ASSUME IsInjective(r.ips), NEW i \in 1 .. l
        PROVE  next[i].ip # next[l + 1].ip
    <3>1. PICK j \in 1 .. n - 1 : locs[i] = LocationOf(r, m, j)
      BY <2>2 DEF Answers
    <3>2. next[i].ip = Offset(r, j) /\ next[l + 1].ip = Offset(r, n)
      BY <2>2, <3>1 DEF LocationOf
    <3>3. /\ r.ips \in Seq(0 .. AddressSpace - 1) /\ r.base \in Nat /\ j \in 1 .. Len(r.ips) /\ j # n
          /\ r.ips[j] \in 0 .. AddressSpace - 1 /\ r.ips[n] \in 0 .. AddressSpace - 1
      BY RequestFacts
    <3>4. r.ips[j] # r.ips[n]
      <4>1. DOMAIN r.ips = 1 .. Len(r.ips)
        BY <3>3
      <4>2. QED
        BY <2>5, <3>3, <4>1 DEF IsInjective
    <3>5. Offset(r, j) # Offset(r, n)
      <4>1. r.ips[j] \in Int /\ r.ips[n] \in Int /\ r.base \in Int
        <5> DEFINE x == r.ips[j]
                   y == r.ips[n]
        <5>1. /\ x \in 0 .. AddressSpace - 1 /\ y \in 0 .. AddressSpace - 1
              /\ r.base \in Nat /\ AddressSpace \in Nat
          BY <3>3, SpacesAssumption
        <5> HIDE DEF x, y
        <5>2. x \in Int /\ y \in Int /\ r.base \in Int
          BY <5>1
        <5>3. QED
          BY <5>2 DEF x, y
      <4>2. r.ips[j] - r.base # r.ips[n] - r.base
        BY <3>4, <4>1
      <4>3. QED
        BY <4>2 DEF Offset
    <3>6. QED
      BY <3>2, <3>5
  <2>6. ASSUME IsInjective(r.ips), NEW i \in DOMAIN next, NEW k \in DOMAIN next,
               next[i].ip = next[k].ip
        PROVE  i = k
    <3>1. CASE i \in 1 .. l /\ k \in 1 .. l
      <4>1. locs[i].ip = locs[k].ip /\ i \in DOMAIN locs /\ k \in DOMAIN locs
        BY <2>2, <2>6, <3>1
      <4>2. QED
        BY <2>6, <4>1 DEF Answers
    <3>2. CASE i = l + 1 \/ k = l + 1
      BY <2>2, <2>5, <2>6, <3>2
    <3>3. QED
      BY <2>2, <3>1, <3>2
  <2>7. Answers(r, m, n + 1, next)
    BY <2>3, <2>4, <2>6 DEF Answers
  <2>8. QED
    BY <2>7 DEF next
<1>6. QED
  BY <1>4, <1>5

AnswersInv == Answers(request, mappings, ip, locations)

LEMMA AnswersInvNext ==
  ASSUME Inv, AnswersInv, [Next]_vars
  PROVE  AnswersInv'
<1>1. CASE LookUp
  <2>1. /\ ip <= Len(request.ips) /\ ip' = ip + 1 /\ UNCHANGED <<request, mappings>>
        /\ locations' = IF Located(request, mappings, ip)
                        THEN Append(locations, LocationOf(request, mappings, ip)) ELSE locations
    BY <1>1, LookUpStep
  <2>2. request \in Requests /\ ip \in 1 .. Len(request.ips) /\ locations \in Seq(Location)
    <3>1. request \in Requests /\ ip \in 1 .. Len(request.ips) + 1 /\ locations \in Seq(Location)
      BY DEF Inv
    <3>2. Len(request.ips) \in Nat
      BY <3>1, RequestFacts
    <3>3. QED
      BY <2>1, <3>1, <3>2
  <2>3. Answers(request, mappings, ip + 1, locations')
    BY <2>1, <2>2, AnswersStep DEF AnswersInv
  <2>4. QED
    BY <2>1, <2>3 DEF AnswersInv
<1>2. CASE SortMappings
  <2>1. ip' = 1 /\ locations' = << >>
    BY <1>2 DEF SortMappings, lookup, Inv, PhaseInv
  <2>2. QED
    BY <2>1 DEF AnswersInv, Answers
<1>3. CASE RejectRequest \/ RunMachine \/ FinishLookUp \/ UNCHANGED vars
  <2>1. UNCHANGED <<request, mappings, ip, locations>>
    BY <1>3 DEF RejectRequest, RunMachine, FinishLookUp, vars, lookup
  <2>2. QED
    BY <2>1 DEF AnswersInv
<1>4. QED
  BY <1>1, <1>2, <1>3 DEF Next

LookupInv == Inv /\ DecodeInv /\ EndInv /\ AnswersInv

LEMMA LookupInvariant == Spec => []LookupInv
<1>1. Init => LookupInv
  <2>1. Init => EndInv /\ AnswersInv
    BY DEF Init, MachineInit, EndInv, AnswersInv, Answers
  <2>2. QED
    BY <2>1, InvInit, DecodeInvInit DEF LookupInv
<1>2. LookupInv /\ [Next]_vars => LookupInv'
  BY InvNext, DecodeInvNext, EndInvNext, AnswersInvNext DEF LookupInv
<1>3. QED
  BY <1>1, <1>2, PTL DEF Spec

-----------------------------------------------------------------------------
(* The answers and the reference's rows.                                   *)

\* The row the reference would look up in the adapter's file.
RowBelow(a) ==
  LET below == {k \in DOMAIN DecodedRows : DecodedRows[k].address <= a}
      top   == {k \in below : \A m \in below : DecodedRows[m].address <= DecodedRows[k].address}
  IN  Max(top \union {0})

\* It is the last of the closest at or below an address.
LEMMA RowBelowFacts ==
  ASSUME DecodedRows \in Seq(SourceRow), NEW a, RowBelow(a) # 0
  PROVE  LET t == RowBelow(a)
         IN  /\ t \in DOMAIN DecodedRows /\ DecodedRows[t].address <= a
             /\ \A k \in DOMAIN DecodedRows : DecodedRows[k].address <= a =>
                  /\ DecodedRows[k].address <= DecodedRows[t].address
                  /\ DecodedRows[k].address = DecodedRows[t].address => k <= t
<1> DEFINE rs == DecodedRows
           below == {k \in DOMAIN rs : rs[k].address <= a}
           top == {k \in below : \A m \in below : rs[m].address <= rs[k].address}
           S == top \union {0}
           t == RowBelow(a)
<1>1. Len(rs) \in Nat /\ DOMAIN rs = 1 .. Len(rs)
  OBVIOUS
<1>2. S \subseteq Nat /\ S # {} /\ \A k \in S : k <= Len(rs)
  BY <1>1
<1>3. t = Max(S)
  BY DEF RowBelow
<1>4. \A k \in S : k # 0 => k \in DOMAIN rs /\ rs[k].address <= a
                           /\ \A m \in below : rs[m].address <= rs[k].address
  OBVIOUS
<1> HIDE DEF S, t
<1>5. t \in S /\ \A k \in S : k <= t
  BY <1>1, <1>2, <1>3, MaxIsGreatest
<1>6. t \in DOMAIN rs /\ rs[t].address <= a /\ \A m \in below : rs[m].address <= rs[t].address
  BY <1>4, <1>5 DEF t
<1>7. ASSUME NEW k \in below, rs[k].address = rs[t].address
      PROVE  k <= t
  <2>1. k \in top
    BY <1>6, <1>7
  <2>2. QED
    BY <1>5, <2>1 DEF S
<1>8. QED
  BY <1>6, <1>7 DEF t

\* With the section at 0 in the zebin, a look-up of the offset there and of the
\* address here find the same row.
LEMMA SameRow ==
  ASSUME ZebinSectionAtZero, DecodedRows \in Seq(SourceRow), request.elfAddress \in Nat,
         NEW offset \in Int
  PROVE  /\ DOMAIN ReferenceRows = DOMAIN DecodedRows
         /\ \A k \in DOMAIN DecodedRows :
              /\ ReferenceRows[k].address = DecodedRows[k].address - request.elfAddress
              /\ DecodedRows[k].address \in Int
              /\ ReferenceRows[k].file = DecodedRows[k].file
              /\ ReferenceRows[k].line = DecodedRows[k].line
              /\ ReferenceRows[k].end = DecodedRows[k].end
         /\ ReferenceRow(offset) = RowBelow(ElfAddress(offset))
<1> DEFINE D == DOMAIN DecodedRows
           there == {k \in D : ReferenceRows[k].address <= offset}
           here == {k \in D : DecodedRows[k].address <= ElfAddress(offset)}
           topThere == {k \in there : \A m \in there :
                          ReferenceRows[m].address <= ReferenceRows[k].address}
           topHere == {k \in here : \A m \in here :
                         DecodedRows[m].address <= DecodedRows[k].address}
<1>1. DOMAIN ReferenceRows = D
  BY DEF ZebinSectionAtZero
<1>2. ASSUME NEW k \in D
      PROVE  /\ ReferenceRows[k].address = DecodedRows[k].address - request.elfAddress
             /\ DecodedRows[k].address \in Int
             /\ ReferenceRows[k].file = DecodedRows[k].file
             /\ ReferenceRows[k].line = DecodedRows[k].line
             /\ ReferenceRows[k].end = DecodedRows[k].end
  <2>1. ReferenceRows[k] =
          [DecodedRows[k] EXCEPT !.address = DecodedRows[k].address - request.elfAddress]
    BY DEF ZebinSectionAtZero
  <2>2. DecodedRows[k] \in SourceRow
    OBVIOUS
  <2>3. DecodedRows[k].address \in Int
    BY <2>2, SpacesAssumption DEF SourceRow
  <2>4. QED
    BY <2>1, <2>2, <2>3 DEF SourceRow
<1>3. \A k \in D : ReferenceRows[k].address <= offset
                   <=> DecodedRows[k].address <= ElfAddress(offset)
  BY <1>2 DEF ElfAddress
<1>4. there = here
  BY <1>3
<1>5. \A k, m \in D : ReferenceRows[m].address <= ReferenceRows[k].address
                      <=> DecodedRows[m].address <= DecodedRows[k].address
  BY <1>2
<1>6. topThere = topHere
  BY <1>4, <1>5
<1>7. ReferenceRow(offset) = Max(topThere \union {0})
  BY <1>1, Zenon DEF ReferenceRow
<1>8. RowBelow(ElfAddress(offset)) = Max(topHere \union {0})
  BY Zenon DEF RowBelow
<1>9. QED
  BY <1>1, <1>2, <1>6, <1>7, <1>8

\* Once there are mappings they are the program's rows, in an order of their addresses.
LEMMA MappingsFacts ==
  ASSUME LookupInv, Regular(header, ops), pos = Len(ops) + 1
  PROVE  DecodedRows = rows /\ DecodedRows \in Seq(SourceRow)
<1>1. pos - 1 = Len(ops)
  BY DEF LookupInv, Inv, MachineInv
<1>2. rows = RowsOf(header, ops)[pos - 1] /\ rows \in Seq(SourceRow)
  BY DEF LookupInv, DecodeInv, Decodes, Inv, MachineInv
<1>3. QED
  BY <1>1, <1>2 DEF DecodedRows

LEMMA Matches ==
  ASSUME LookupInv, Regular(header, ops)
  PROVE  MatchesEveryMappedIp
<1> DEFINE a(offset) == ElfAddress(offset)
           same(offset) == {k \in DOMAIN DecodedRows : DecodedRows[k].address =
                              DecodedRows[RowBelow(a(offset))].address}
           sameThere(offset) == {k \in DOMAIN ReferenceRows : ReferenceRows[k].address =
                                   ReferenceRows[ReferenceRow(offset)].address}
<1>1. SUFFICES ASSUME phase = "done", Answerable, ZebinSectionAtZero, NEW offset \in Asked,
                      offset >= 0, a(offset) < AddressSpace, ReferenceMaps(offset),
                      \A k \in sameThere(offset) : HasFile(ReferenceRows[k])
               PROVE  \E n \in DOMAIN locations : \E k \in sameThere(offset) :
                        /\ locations[n].ip = offset
                        /\ locations[n].file = ReferenceRows[k].file
                        /\ locations[n].line = ReferenceRows[k].line
  BY DEF MatchesEveryMappedIp
<1> DEFINE address == a(offset)
           t == RowBelow(address)
           u == Found(mappings, address)
<1>2. pos = Len(ops) + 1 /\ (rows = << >> \/ (mappings # << >> /\ ip = Len(request.ips) + 1))
  BY <1>1 DEF LookupInv, Inv, PhaseInv
<1>3. DecodedRows = rows /\ DecodedRows \in Seq(SourceRow)
  BY <1>2, MappingsFacts
<1>4. PICK j \in DOMAIN request.ips : offset = request.ips[j] - request.base
  BY <1>1 DEF Asked
<1>5. /\ request.elfAddress \in Nat /\ request.base \in Nat /\ j \in 1 .. Len(request.ips)
      /\ request.ips[j] \in Int
  <2>1. request \in Requests
    BY DEF LookupInv, Inv
  <2>2. /\ request.ips \in Seq(0 .. AddressSpace - 1) /\ request.base \in Nat
        /\ request.elfAddress \in Nat
    BY <2>1, RequestFacts
  <2>3. j \in 1 .. Len(request.ips)
    BY <1>4, <2>2
  <2>4. request.ips[j] \in 0 .. AddressSpace - 1
    BY <2>1, <2>3, RequestFacts
  <2>5. QED
    BY <2>2, <2>3, <2>4, SpacesAssumption
<1>6. offset \in Int
  BY <1>4, <1>5
<1>7. /\ DOMAIN ReferenceRows = DOMAIN DecodedRows
      /\ \A k \in DOMAIN DecodedRows :
           /\ ReferenceRows[k].address = DecodedRows[k].address - request.elfAddress
           /\ DecodedRows[k].address \in Int
           /\ ReferenceRows[k].file = DecodedRows[k].file
           /\ ReferenceRows[k].line = DecodedRows[k].line
           /\ ReferenceRows[k].end = DecodedRows[k].end
      /\ ReferenceRow(offset) = t
  BY <1>1, <1>3, <1>5, <1>6, SameRow
<1>8. t # 0 /\ Usable(DecodedRows[t])
  <2>1. ReferenceRow(offset) # 0 /\ Usable(ReferenceRows[ReferenceRow(offset)])
    BY <1>1 DEF ReferenceMaps
  <2>2. ReferenceRow(offset) = t
    BY <1>7
  <2>3. t # 0 /\ Usable(ReferenceRows[t])
    BY <2>1, <2>2, Zenon
  <2>4. t \in DOMAIN DecodedRows
    BY <1>3, <2>3, RowBelowFacts
  <2>5. QED
    BY <1>7, <2>3, <2>4 DEF Usable
<1>9. /\ t \in DOMAIN rows /\ rows[t].address <= address
      /\ \A k \in DOMAIN rows : rows[k].address <= address =>
           rows[k].address <= rows[t].address /\ (rows[k].address = rows[t].address => k <= t)
  BY <1>3, <1>8, RowBelowFacts
<1>10. same(offset) = sameThere(offset)
  <2>1. \A k \in DOMAIN DecodedRows : DecodedRows[k].address = DecodedRows[t].address
                                      <=> ReferenceRows[k].address = ReferenceRows[t].address
    BY <1>3, <1>9, <1>5, <1>7
  <2>2. QED
    BY <1>7, <2>1
<1>11. \A k \in same(offset) :
        /\ HasFile(DecodedRows[k])
        /\ ReferenceRows[k].file = DecodedRows[k].file
        /\ ReferenceRows[k].line = DecodedRows[k].line
  BY <1>1, <1>7, <1>10 DEF HasFile
<1>12. rows # << >>
  BY <1>9
<1>13. ip = Len(request.ips) + 1 /\ Sorting(mappings, rows)
  BY <1>2, <1>12 DEF LookupInv, Inv, PhaseInv
<1> HIDE DEF t, u, address, a
<1>14. u # 0 /\ u \in DOMAIN mappings /\ mappings[u].address <= address
  <2>1. PICK k \in DOMAIN mappings : mappings[k] = rows[t]
    BY <1>9, <1>13 DEF Sorting
  <2>2. mappings \in Seq(SourceRow)
    BY <1>13 DEF Sorting
  <2>3. u \in 0 .. Len(mappings) /\ k <= u /\ (u # 0 => mappings[u].address <= address)
    BY <1>9, <2>1, <2>2, FoundFacts DEF u
  <2>4. QED
    BY <2>1, <2>2, <2>3
<1>15. PICK i \in DOMAIN rows : mappings[u] = rows[i]
  BY <1>13, <1>14 DEF Sorting
<1>16. rows[i].address = rows[t].address
  <2>1. rows[t].address <= rows[i].address
    BY <1>3, <1>9, <1>13, <1>14, <1>15, FoundIsClosest DEF u
  <2>2. rows[i].address <= rows[t].address
    BY <1>9, <1>14, <1>15
  <2>3. rows[i].address \in Int /\ rows[t].address \in Int
    <3>1. rows[i] \in SourceRow /\ rows[t] \in SourceRow
      BY <1>3, <1>9
    <3>2. QED
      BY <3>1, SpacesAssumption DEF SourceRow
  <2>4. QED
    BY <2>1, <2>2, <2>3
<1>17. i \in same(offset) /\ HasFile(rows[i])
  BY <1>3, <1>15, <1>16, <1>11 DEF t, address
<1>18. ~ rows[i].end
  <2>1. SUFFICES ASSUME rows[i].end PROVE FALSE
    OBVIOUS
  <2>2. i = Len(rows)
    BY <1>15, <2>1 DEF LookupInv, EndInv
  <2>3. i <= t /\ t \in 1 .. Len(rows)
    BY <1>3, <1>9, <1>14, <1>15, <1>16
  <2>4. i = t
    BY <1>3, <2>2, <2>3
  <2>5. QED
    BY <1>3, <1>8, <2>1, <2>4 DEF Usable
<1>19. /\ j \in 1 .. Len(request.ips) /\ request.ips[j] >= request.base
       /\ Offset(request, j) = offset /\ Nearest(request, mappings, j) = u
  <2>5. request.ips[j] >= request.base
    BY <1>1, <1>4, <1>5
  <2>6. Offset(request, j) = offset
    BY <1>4 DEF Offset
  <2>7. Nearest(request, mappings, j) = u
    BY <2>6 DEF Nearest, u, address, a, ElfAddress
  <2>8. QED
    BY <1>5, <2>5, <2>6, <2>7
<1>20. Located(request, mappings, j)
  <2>1. request.elfAddress + Offset(request, j) < AddressSpace
    BY <1>1, <1>19 DEF a, ElfAddress
  <2>2. Usable(mappings[u])
    BY <1>15, <1>17, <1>18 DEF Usable, HasFile
  <2>3. QED
    BY <1>14, <1>19, <2>1, <2>2 DEF Located
<1>21. PICK n \in DOMAIN locations : locations[n] = LocationOf(request, mappings, j)
  <2>1. j \in 1 .. ip - 1
    <3>1. Len(request.ips) \in Nat
      BY RequestFacts DEF LookupInv, Inv
    <3>2. QED
      BY <1>13, <1>19, <3>1
  <2>2. QED
    BY <1>20, <2>1 DEF LookupInv, AnswersInv, Answers
<1>22. locations[n].ip = offset /\ locations[n].file = rows[i].file /\ locations[n].line = rows[i].line
  BY <1>15, <1>19, <1>21 DEF LocationOf
<1>23. QED
  BY <1>3, <1>17, <1>22, <1>10, <1>11

\* A sequence ends above its rows.
EndIsAbove == \A e, k \in DOMAIN DecodedRows :
  DecodedRows[e].end /\ k # e => DecodedRows[k].address < DecodedRows[e].address

LEMMA NothingIsOutside ==
  ASSUME LookupInv, Regular(header, ops), EndIsAbove
  PROVE  NothingOutsideTheSequence
<1>1. IsInjective(request.ips) =>
        \A m, n \in DOMAIN locations : locations[m].ip = locations[n].ip => m = n
  BY DEF LookupInv, AnswersInv, Answers
<1>2. ASSUME NEW n \in DOMAIN locations
      PROVE  /\ locations[n].ip \in Asked
             /\ \E k \in DOMAIN DecodedRows : DecodedRows[k].address <= ElfAddress(locations[n].ip)
             /\ \A k \in DOMAIN DecodedRows :
                  DecodedRows[k].end => ElfAddress(locations[n].ip) < DecodedRows[k].address
  <2> DEFINE address == ElfAddress(locations[n].ip)
             u == Found(mappings, address)
  <2>1. PICK j \in 1 .. ip - 1 :
          Located(request, mappings, j) /\ locations[n] = LocationOf(request, mappings, j)
    BY <1>2 DEF LookupInv, AnswersInv, Answers
  <2>2. request \in Requests /\ ip \in 1 .. Len(request.ips) + 1
    BY DEF LookupInv, Inv
  <2>3. j \in 1 .. Len(request.ips) /\ j \in DOMAIN request.ips
    <3>1. request.ips \in Seq(0 .. AddressSpace - 1)
      BY <2>2, RequestFacts
    <3>2. Len(request.ips) \in Nat /\ DOMAIN request.ips = 1 .. Len(request.ips)
      BY <3>1
    <3>3. QED
      BY <2>1, <2>2, <3>2
  <2>4. locations[n].ip = Offset(request, j)
    BY <2>1 DEF LocationOf
  <2>5. locations[n].ip \in Asked
    BY <2>3, <2>4 DEF Asked, Offset
  <2>6. locations # << >> /\ mappings # << >>
    <3>1. locations # << >>
      BY <1>2
    <3>2. QED
      BY <3>1 DEF LookupInv, Inv, PhaseInv
  <2>7. pos = Len(ops) + 1 /\ Sorting(mappings, rows)
    BY <2>6 DEF LookupInv, Inv, PhaseInv
  <2>8. DecodedRows = rows /\ DecodedRows \in Seq(SourceRow)
    BY <2>7, MappingsFacts
  <2>9. address \in Int
    <3>1. locations[n] \in Location
      BY <1>2 DEF LookupInv, Inv
    <3>2. locations[n].ip \in Int
      BY <3>1, SpacesAssumption DEF Location
    <3>3. request.elfAddress \in Nat
      BY <2>2, RequestFacts
    <3>4. QED
      BY <3>2, <3>3 DEF ElfAddress
  <2>10. Nearest(request, mappings, j) = u
    BY <2>4 DEF Nearest, ElfAddress
  <2> HIDE DEF u, address
  <2>11. u # 0 /\ Usable(mappings[u])
    BY <2>1, <2>10 DEF Located
  <2>12. u \in DOMAIN mappings /\ mappings[u].address <= address
    <3>1. mappings \in Seq(SourceRow)
      BY <2>7 DEF Sorting
    <3>2. u \in 0 .. Len(mappings) /\ (u # 0 => mappings[u].address <= address)
      BY <3>1, FoundFacts DEF u
    <3>3. QED
      BY <2>11, <3>1, <3>2
  <2>13. PICK i \in DOMAIN rows : mappings[u] = rows[i]
    BY <2>7, <2>12 DEF Sorting
  <2>14. \E k \in DOMAIN DecodedRows : DecodedRows[k].address <= address
    BY <2>8, <2>12, <2>13
  <2>15. ASSUME NEW k \in DOMAIN DecodedRows, DecodedRows[k].end
         PROVE  address < DecodedRows[k].address
    <3>1. i # k
      BY <2>8, <2>11, <2>13, <2>15 DEF Usable
    <3>2. rows[i].address < rows[k].address
      BY <2>8, <2>13, <2>15, <3>1 DEF EndIsAbove
    <3>3. rows[k].address \in Int /\ rows[i].address \in Int
      <4>1. rows[k] \in SourceRow /\ rows[i] \in SourceRow
        BY <2>8, <2>13, <2>15
      <4>2. QED
        BY <4>1, SpacesAssumption DEF SourceRow
    <3>4. SUFFICES ASSUME rows[k].address <= address PROVE FALSE
      BY <2>8, <2>9, <3>3
    <3>5. rows[k].address <= mappings[u].address
      BY <2>7, <2>8, <2>11, <2>15, <3>4, FoundIsClosest DEF u
    <3>6. QED
      BY <2>13, <3>2, <3>3, <3>5
  <2>16. QED
    BY <2>5, <2>14, <2>15 DEF address
<1>3. QED
  BY <1>1, <1>2 DEF NothingOutsideTheSequence

\* For every request, program and order the sort may give, and a zebin that has the
\* section at 0: the adapter answers each address whose offset the reference maps,
\* by a row of the address the reference has.
THEOREM EveryMappedIpMatched == Spec => [](Regular(header, ops) => MatchesEveryMappedIp)
<1>1. LookupInv => (Regular(header, ops) => MatchesEveryMappedIp)
  BY Matches
<1>2. QED
  BY <1>1, LookupInvariant, PTL

\* And it answers no address before the first row or from the end on, none twice.
THEOREM NothingOutside ==
  Spec => [](Regular(header, ops) /\ EndIsAbove => NothingOutsideTheSequence)
<1>1. LookupInv => (Regular(header, ops) /\ EndIsAbove => NothingOutsideTheSequence)
  BY NothingIsOutside
<1>2. QED
  BY <1>1, LookupInvariant, PTL
=============================================================================
