---------------------------- MODULE NumberLemmas ----------------------------
(***************************************************************************)
(* Induction over the natural numbers and recursion along them, greatest   *)
(* members and division with remainder, as facts that other proofs cite.   *)
(***************************************************************************)
EXTENDS Integers, FiniteSetsExt, WellFoundedInduction, TLAPS

\* A set of numbers with 0 and the successor of each of its members has all.
LEMMA NatSetInduction ==
  ASSUME NEW S, 0 \in S, \A n \in Nat : n \in S => n + 1 \in S
  PROVE  Nat \subseteq S
<1> DEFINE R == OpToRel(<, Nat)
           T == Nat \ S
<1>1. \A m, n \in Nat : m < n => <<m, n>> \in R
  BY DEF OpToRel
<1>2. IsWellFoundedOn(R, Nat)
  BY NatLessThanWellFounded
<1> HIDE DEF R
<1>3. SUFFICES ASSUME T # {} PROVE FALSE
  OBVIOUS
<1>4. PICK x \in T : \A y \in T : ~ (<<y, x>> \in R)
  BY <1>2, <1>3, WFMin
<1>5. x # 0 /\ x - 1 \in Nat /\ x - 1 \notin S
  OBVIOUS
<1>6. QED
  <2>1. x - 1 < x /\ x \in Nat
    BY <1>5
  <2>2. <<x - 1, x>> \in R
    BY <1>1, <1>5, <2>1
  <2>3. QED
    BY <1>4, <1>5, <2>2

\* A function that begins with a value and goes on by a step, and there is one.
Recurs(f, N, base, G) == f[0] = base /\ \A n \in 1 .. N : f[n] = G[<<n, f[n - 1]>>]

LEMMA Recursion ==
  ASSUME NEW N \in Nat, NEW V, NEW base \in V, NEW G \in [(1 .. N) \X V -> V]
  PROVE  \E f \in [0 .. N -> V] : Recurs(f, N, base, G)
<1> DEFINE S == {n \in Nat : n <= N =>
                   \E f \in [0 .. n -> V] :
                     f[0] = base /\ \A k \in 1 .. n : f[k] = G[<<k, f[k - 1]>>]}
<1>1. 0 \in S
  <2> DEFINE f == [k \in 0 .. 0 |-> base]
  <2>1. f \in [0 .. 0 -> V] /\ f[0] = base /\ \A k \in 1 .. 0 : f[k] = G[<<k, f[k - 1]>>]
    OBVIOUS
  <2>2. QED
    BY <2>1
<1>2. ASSUME NEW n \in Nat, n \in S, n + 1 <= N
      PROVE  \E g \in [0 .. n + 1 -> V] :
               g[0] = base /\ \A k \in 1 .. n + 1 : g[k] = G[<<k, g[k - 1]>>]
  <2>1. PICK f \in [0 .. n -> V] : f[0] = base /\ \A k \in 1 .. n : f[k] = G[<<k, f[k - 1]>>]
    BY <1>2
  <2> DEFINE next == G[<<n + 1, f[n]>>]
             g    == [k \in 0 .. n + 1 |-> IF k = n + 1 THEN next ELSE f[k]]
  <2>2. next \in V
    <3>1. <<n + 1, f[n]>> \in (1 .. N) \X V
      BY <1>2
    <3>2. QED
      BY <3>1
  <2>3. g \in [0 .. n + 1 -> V] /\ g[0] = base
    BY <2>1, <2>2
  <2>4. ASSUME NEW k \in 1 .. n + 1
        PROVE  g[k] = G[<<k, g[k - 1]>>]
    <3>1. g[k - 1] = f[k - 1]
      OBVIOUS
    <3>2. CASE k = n + 1
      <4>1. k - 1 = n /\ g[k] = next
        BY <3>2
      <4>2. next = G[<<k, g[k - 1]>>]
        BY <3>1, <3>2, <4>1
      <4>3. QED
        BY <4>1, <4>2
    <3>3. CASE k \in 1 .. n
      BY <2>1, <3>1, <3>3
    <3>4. QED
      BY <3>2, <3>3
  <2>5. QED
    BY <2>3, <2>4
<1>3. \A n \in Nat : n \in S => n + 1 \in S
  BY <1>2
<1> HIDE DEF S
<1>4. N \in S
  BY <1>1, <1>3, NatSetInduction
<1>5. QED
  BY <1>4 DEF S, Recurs

\* A nonempty set of numbers with a bound has a greatest one, and Max is it.
LEMMA MaxIsGreatest ==
  ASSUME NEW S, S \subseteq Nat, S # {}, NEW bound \in Nat, \A k \in S : k <= bound
  PROVE  Max(S) \in S /\ \A k \in S : k <= Max(S)
<1> DEFINE gaps == {bound - k : k \in S}
<1>1. gaps \subseteq Nat /\ gaps # {}
  <2>1. \A k \in S : k \in Nat /\ k <= bound
    OBVIOUS
  <2>2. \A k \in S : bound - k \in Nat
    BY <2>1
  <2>3. QED
    BY <2>2
<1>2. PICK d \in gaps : \A e \in gaps : ~ (<<e, d>> \in OpToRel(<, Nat))
  BY <1>1, NatLessThanWellFounded, WFMin
<1>3. PICK top \in S : d = bound - top
  OBVIOUS
<1>4. ASSUME NEW k \in S
      PROVE  top >= k
  <2>1. bound - k \in gaps /\ bound - k \in Nat /\ d \in Nat
    BY <1>1
  <2>2. bound - k < d => <<bound - k, d>> \in OpToRel(<, Nat)
    BY <2>1 DEF OpToRel
  <2>3. ~ (bound - k < d)
    BY <1>2, <2>1, <2>2
  <2>4. QED
    BY <1>3, <2>1, <2>3
<1>5. \A x \in S : \A y \in S : x >= y <=> y <= x
  OBVIOUS
<1>6. QED
  BY <1>4, <1>5 DEF Max

\* The remainder is the only one.
LEMMA ModUnique ==
  ASSUME NEW n \in Nat \ {0}, NEW q \in Int, NEW r \in 0 .. n - 1
  PROVE  (n * q + r) % n = r
<1> DEFINE a == n * q + r
           m == a % n
           d == a \div n
<1>1. a \in Int /\ m \in 0 .. n - 1 /\ d \in Int /\ a = n * d + m OBVIOUS
<1> HIDE DEF a, m, d
<1>2. a = n * q + r BY DEF a
<1>3. n * (d - q) = r - m BY <1>1, <1>2
<1>4. CASE d = q BY <1>1, <1>3, <1>4 DEF m, a
<1>5. CASE d - q >= 1
  <2>1. n * (d - q) >= n BY <1>1, <1>5
  <2> QED BY <1>1, <1>3, <2>1
<1>6. CASE d - q <= -1
  <2>1. n * (d - q) <= -n BY <1>1, <1>6
  <2> QED BY <1>1, <1>3, <2>1
<1> QED BY <1>1, <1>4, <1>5, <1>6

=============================================================================
