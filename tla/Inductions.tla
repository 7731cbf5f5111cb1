------------------------------ MODULE Inductions ------------------------------
(***************************************************************************)
(* Facts about natural numbers that the proofs of several modules need:    *)
(* least and greatest elements, induction over an interval, and the        *)
(* existence of a function defined by recursion over one.  The parameters  *)
(* are sets and functions, never operators.                                *)
(***************************************************************************)
EXTENDS Integers, WellFoundedInduction, TLAPS

\* A nonempty set of natural numbers has a least element.
LEMMA LeastElement ==
  ASSUME NEW T \in SUBSET Nat, T # {}
  PROVE  \E x \in T : \A y \in T : x =< y
<1> DEFINE R == OpToRel(<, Nat)
<1>1. IsWellFoundedOn(R, Nat)
  BY NatLessThanWellFounded, Zenon
<1>2. \E x \in T : \A y \in T : <<y, x>> \notin R
  <2> HIDE DEF R
  <2> QED BY <1>1, WFMin, Zenon
<1>3. ASSUME NEW x \in Nat, NEW y \in Nat, <<y, x>> \notin R
      PROVE  x =< y
  BY <1>3 DEF OpToRel
<1> QED BY <1>2, <1>3

\* A nonempty set of positions has a last one.
LEMMA LastPosition ==
  ASSUME NEW n \in Nat, NEW T \in SUBSET (1 .. n), T # {}
  PROVE  \E x \in T : \A y \in T : y =< x
<1> DEFINE U == {n - x : x \in T}
<1>1. \A x \in T : n - x \in Nat
  OBVIOUS
<1>2. U \in SUBSET Nat
  BY <1>1
<1>3. U # {}
  OBVIOUS
<1>4. PICK u \in U : \A v \in U : u =< v
  <2> HIDE DEF U
  <2> QED BY <1>2, <1>3, LeastElement
<1>5. PICK x \in T : u = n - x
  OBVIOUS
<1>6. \A y \in T : n - x =< n - y
  BY <1>4, <1>5
<1>7. x \in Int /\ \A y \in T : y \in Int
  <2> HIDE DEF U
  <2>1. \A y \in T : y \in 1 .. n
    OBVIOUS
  <2> QED BY <2>1
<1> QED BY <1>6, <1>7

\* Induction up to n: a set with 0 and with the successor of each of its
\* elements has all numbers up to n.
LEMMA UpTo ==
  ASSUME NEW n \in Nat, NEW T, 0 \in T,
         \A i \in 1 .. n : i - 1 \in T => i \in T
  PROVE  \A i \in 0 .. n : i \in T
<1> SUFFICES ASSUME NEW k \in 0 .. n, k \notin T
             PROVE  FALSE
  OBVIOUS
<1> DEFINE U == {i \in 0 .. n : i \notin T}
<1>1. U \in SUBSET Nat /\ U # {}
  OBVIOUS
<1>2. PICK x \in U : \A y \in U : x =< y
  BY <1>1, LeastElement
<1>3. x \in 1 .. n /\ x - 1 \in 0 .. n
  BY <1>2
<1>4. x - 1 \in T
  BY <1>2, <1>3
<1> QED BY <1>2, <1>3, <1>4

\* f starts with a and goes on with F.
Recurs(f, n, S, a, F) ==
  /\ f \in [0 .. n -> S]
  /\ f[0] = a
  /\ \A i \in 1 .. n : f[i] = F[<<f[i - 1], i>>]

\* A recursion over 0 .. n has a result.
LEMMA RecursionExists ==
  ASSUME NEW n \in Nat, NEW S, NEW a \in S, NEW F \in [S \X (1 .. n) -> S]
  PROVE  \E f : Recurs(f, n, S, a, F)
<1> DEFINE Good(f, m) == \A i \in 0 .. m : f[i] = IF i = 0 THEN a ELSE F[<<f[i - 1], i>>]
           T == {m \in 0 .. n : \E f \in [0 .. m -> S] : Good(f, m)}
<1>1. 0 \in T
  <2> DEFINE f == [i \in 0 .. 0 |-> a]
  <2>1. f \in [0 .. 0 -> S] /\ Good(f, 0)
    OBVIOUS
  <2> HIDE DEF f
  <2> QED BY <2>1
<1>2. ASSUME NEW m \in 1 .. n, m - 1 \in T
      PROVE  m \in T
  <2>1. PICK g \in [0 .. m - 1 -> S] : Good(g, m - 1)
    BY <1>2
  <2> DEFINE f == [i \in 0 .. m |-> IF i = m THEN F[<<g[m - 1], m>>] ELSE g[i]]
  <2>2. m - 1 \in 0 .. m - 1 /\ m - 1 \in 0 .. m /\ m - 1 # m
    OBVIOUS
  <2>3. F[<<g[m - 1], m>>] \in S
    BY <2>1, <2>2
  <2>4. f \in [0 .. m -> S]
    BY <2>1, <2>3
  <2>5. /\ f[m] = F[<<g[m - 1], m>>]
        /\ \A i \in 0 .. m - 1 : f[i] = g[i]
    OBVIOUS
  <2> HIDE DEF f
  <2>6. ASSUME NEW i \in 0 .. m
        PROVE  f[i] = IF i = 0 THEN a ELSE F[<<f[i - 1], i>>]
    <3>1. CASE i = m
      BY <2>2, <2>5, <3>1
    <3>2. CASE i # m
      <4>1. i \in 0 .. m - 1 /\ (i # 0 => i - 1 \in 0 .. m - 1)
        BY <3>2
      <4> QED BY <2>1, <2>5, <4>1
    <3> QED BY <3>1, <3>2
  <2> QED BY <2>4, <2>6
<1>3. n \in T
  <2> HIDE DEF T
  <2> QED BY <1>1, <1>2, UpTo
<1>4. PICK f \in [0 .. n -> S] : Good(f, n)
  BY <1>3
<1>5. f[0] = a /\ \A i \in 1 .. n : f[i] = F[<<f[i - 1], i>>]
  <2>1. 0 \in 0 .. n /\ \A i \in 1 .. n : i \in 0 .. n /\ i # 0
    OBVIOUS
  <2>2. \A i \in 0 .. n : f[i] = IF i = 0 THEN a ELSE F[<<f[i - 1], i>>]
    BY <1>4
  <2> QED BY <2>1, <2>2
<1> QED BY <1>5 DEF Recurs
=============================================================================
