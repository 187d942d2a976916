----------------------------- MODULE NatProofs -----------------------------
(***************************************************************************)
(* Least and greatest elements of sets of natural numbers, which the code  *)
(* takes with priority encoders, and what follows from them: induction,    *)
(* and that sums exist.                                                    *)
(***************************************************************************)
EXTENDS Integers, TLAPS, FiniteSetTheorems

\* A nonempty set of natural numbers has a least element.
LEMMA LeastNat ==
  ASSUME NEW T, T \subseteq Nat, T # {}
  PROVE  \E x \in T : \A y \in T : x <= y
<1> DEFINE Below(x) == 0 .. x
           F == {Below(x) : x \in T}
<1>1. F \subseteq FiniteSubsetsOf(Nat)
  <2>1. ASSUME NEW x \in T
        PROVE  Below(x) \in SUBSET Nat /\ IsFiniteSet(Below(x))
    <3>1. x \in Int /\ 0 \in Int /\ Below(x) \subseteq Nat  BY SMT
    <3>2. IsFiniteSet(0 .. x)  BY <3>1, FS_Interval
    <3> QED  BY <3>1, <3>2
  <2> QED  BY <2>1 DEF FiniteSubsetsOf
<1>2. PICK B \in F : \A C \in F : <<C, B>> \notin StrictSubsetOrdering(Nat)
  <2>1. F # {}  OBVIOUS
  <2> HIDE DEF F
  <2> QED  BY <1>1, <2>1, FS_StrictSubsetOrderingWellFounded, WFMin
<1>3. PICK x \in T : B = Below(x)  OBVIOUS
<1>4. ASSUME NEW y \in T, ~(x <= y)
      PROVE  FALSE
  <2>1. Below(y) \subseteq Below(x) /\ Below(y) # Below(x)
    BY <1>4, SMT
  <2>2. Below(x) \subseteq Nat /\ Below(y) \subseteq Nat  BY SMT
  <2>3. <<Below(y), B>> \notin StrictSubsetOrdering(Nat)  BY <1>2
  <2> QED  BY <2>1, <2>2, <2>3, <1>1, <1>3 DEF StrictSubsetOrdering
<1>5. QED  BY <1>4

\* A nonempty set of natural numbers with an upper bound has a greatest element.
LEMMA GreatestNat ==
  ASSUME NEW n \in Nat, NEW T, T \subseteq 0 .. n, T # {}
  PROVE  \E x \in T : \A y \in T : x >= y
<1> DEFINE U == {n - x : x \in T}
<1>1. U \subseteq Nat /\ U # {}
  <2>1. \A x \in T : n - x \in Nat  BY SMT
  <2> QED  BY <2>1
<1>2. PICK u \in U : \A v \in U : u <= v
  <2> HIDE DEF U
  <2> QED  BY <1>1, LeastNat
<1>3. PICK x \in T : u = n - x  OBVIOUS
<1>4. ASSUME NEW y \in T  PROVE x >= y
  <2>1. n - y \in U  OBVIOUS
  <2>2. n - x <= n - y  BY <2>1, <1>2, <1>3
  <2>3. x \in 0 .. n /\ y \in 0 .. n  OBVIOUS
  <2> QED  BY <2>2, <2>3, SMT
<1>5. QED  BY <1>3, <1>4

\* Induction over an interval, upwards and downwards, and over all that lies above.
LEMMA Upward ==
  ASSUME NEW m \in Int, NEW n \in Int, NEW T, m \in T,
         \A k \in m .. n - 1 : k \in T => k + 1 \in T
  PROVE  m .. n \subseteq T
<1> DEFINE Missing == {d \in 0 .. n - m : m + d \notin T}
<1>1. SUFFICES ASSUME Missing # {}  PROVE FALSE
  <2> SUFFICES ASSUME NEW k \in m .. n  PROVE k \in T
    OBVIOUS
  <2>1. k - m \in 0 .. n - m /\ m + (k - m) = k  BY SMT
  <2>2. k - m \notin Missing  OBVIOUS
  <2> QED  BY <2>1, <2>2
<1>2. PICK d \in Missing : \A e \in Missing : d <= e
  <2>1. Missing \subseteq Nat  BY SMT
  <2> HIDE DEF Missing
  <2> QED  BY <1>1, <2>1, LeastNat
<1>3. d \in 0 .. n - m /\ m + d \notin T  OBVIOUS
<1>4. d # 0  BY <1>3, SMT
<1>5. d - 1 \in 0 .. n - m /\ m + (d - 1) \in m .. n - 1 /\ m + (d - 1) + 1 = m + d /\ ~(d <= d - 1)
  BY <1>3, <1>4, SMT
<1>6. m + (d - 1) \in T  BY <1>2, <1>5
<1>7. QED  BY <1>3, <1>5, <1>6

LEMMA Downward ==
  ASSUME NEW n \in Nat, NEW T,
         \A k \in 0 .. n : (\A j \in k + 1 .. n : j \in T) => k \in T
  PROVE  0 .. n \subseteq T
<1> DEFINE Missing == {k \in 0 .. n : k \notin T}
<1>1. SUFFICES ASSUME Missing # {}  PROVE FALSE
  OBVIOUS
<1>2. PICK k \in Missing : \A j \in Missing : k >= j
  <2>1. Missing \subseteq 0 .. n  OBVIOUS
  <2> HIDE DEF Missing
  <2> QED  BY <1>1, <2>1, GreatestNat
<1>3. k \in 0 .. n /\ k \notin T  OBVIOUS
<1>4. ASSUME NEW j \in k + 1 .. n  PROVE j \in T
  <2>1. j \in 0 .. n /\ ~(k >= j)  BY <1>3, SMT
  <2> QED  BY <1>2, <2>1
<1>5. QED  BY <1>3, <1>4

\* There is a function that adds up the numbers of a sequence.
LEMMA SumsExist ==
  ASSUME NEW n \in Nat, NEW c
  PROVE  \E f : f = [j \in 1 .. n + 1 |-> IF j = 1 THEN 0 ELSE f[j - 1] + c[j - 1]]
<1> DEFINE IsSum(f, k) == f = [j \in 1 .. k |-> IF j = 1 THEN 0 ELSE f[j - 1] + c[j - 1]]
           T == {k \in Nat : \E f : IsSum(f, k)}
<1>1. 1 \in T
  <2> DEFINE f == [j \in 1 .. 1 |-> 0]
  <2>1. \A j \in 1 .. 1 : j = 1  BY SMT
  <2>2. IsSum(f, 1)  BY <2>1
  <2> HIDE DEF f, IsSum
  <2> QED  BY <2>2
<1>2. ASSUME NEW k \in 1 .. n, k \in T  PROVE k + 1 \in T
  <2> k \in Nat /\ k + 1 \in Nat  BY SMT
  <2>1. PICK f : IsSum(f, k)  BY <1>2
  <2> DEFINE g == [j \in 1 .. k + 1 |-> IF j \in 1 .. k THEN f[j] ELSE f[k] + c[k]]
  <2>2. ASSUME NEW j \in 1 .. k + 1
        PROVE  g[j] = IF j = 1 THEN 0 ELSE g[j - 1] + c[j - 1]
    <3>1. CASE j \in 1 .. k
      <4>1. f[j] = IF j = 1 THEN 0 ELSE f[j - 1] + c[j - 1]  BY <2>1, <3>1
      <4>2. g[j] = f[j]  BY <3>1
      <4>3. j # 1 => j - 1 \in 1 .. k /\ j - 1 \in 1 .. k + 1  BY <3>1, SMT
      <4>4. j # 1 => g[j - 1] = f[j - 1]  BY <4>3
      <4> HIDE DEF g, IsSum
      <4> QED  BY <4>1, <4>2, <4>4
    <3>2. CASE j \notin 1 .. k
      <4>1. j = k + 1 /\ j # 1 /\ j - 1 = k /\ k \in 1 .. k /\ k \in 1 .. k + 1  BY <3>2, SMT
      <4>2. g[j] = f[k] + c[k]  BY <3>2
      <4>3. g[k] = f[k]  BY <4>1
      <4> HIDE DEF g, IsSum
      <4> QED  BY <4>1, <4>2, <4>3
    <3> QED  BY <3>1, <3>2
  <2>3. g = [j \in 1 .. k + 1 |-> g[j]]  OBVIOUS
  <2>4. IsSum(g, k + 1)
    <3> HIDE DEF g
    <3> QED  BY <2>2, <2>3
  <2> HIDE DEF g, IsSum
  <2> QED  BY <2>4
<1>3. 1 .. n + 1 \subseteq T
  <2> HIDE DEF T
  <2>1. \A k \in 1 .. (n + 1) - 1 : k \in T => k + 1 \in T
    <3>1. (n + 1) - 1 = n  BY SMT
    <3> QED  BY <1>2, <3>1
  <2>2. 1 \in Int /\ n + 1 \in Int  BY SMT
  <2> QED  BY <1>1, <2>1, <2>2, Upward
<1>4. n + 1 \in 1 .. n + 1  BY SMT
<1> HIDE DEF IsSum
<1>5. PICK f : IsSum(f, n + 1)  BY <1>3, <1>4
<1>6. QED  BY <1>5 DEF IsSum

=============================================================================
