------------------------------ MODULE DataLemmas -----------------------------
(***************************************************************************)
(* Facts about numbers, small sets and sequences that the proofs share.    *)
(* Indexes and listings of the portal take the oldest or the newest of     *)
(* several records; the operators only choose one, and here is that there  *)
(* is one.                                                                 *)
(***************************************************************************)
EXTENDS Integers, Sequences, FiniteSets, FiniteSetsExt, FiniteSetTheorems,
        SequenceTheorems, WellFoundedInduction, TLAPS

(* Every set of natural numbers that is not empty has a least element:     *)
(* its parts up to one of its elements are finite, and one is smallest.    *)
LEMMA LeastNatural ==
    ASSUME NEW T, T \subseteq Nat, T # {}
    PROVE  \E x \in T : \A y \in T : x <= y
<1> DEFINE Upto(x) == T \cap (0..x)
           F == {Upto(x) : x \in T}
<1>1. F # {} /\ F \subseteq FiniteSubsetsOf(T)
  <2> SUFFICES ASSUME NEW x \in T PROVE Upto(x) \in FiniteSubsetsOf(T)
    OBVIOUS
  <2>1. IsFiniteSet(0..x)
    BY FS_Interval
  <2>2. IsFiniteSet(Upto(x))
    BY <2>1, FS_Subset
  <2> QED BY <2>2 DEF FiniteSubsetsOf
<1>2. PICK m \in F : \A s \in F : <<s, m>> \notin StrictSubsetOrdering(T)
  <2> HIDE DEF F
  <2> QED BY <1>1, WFMin, FS_StrictSubsetOrderingWellFounded
<1>3. PICK x \in T : m = Upto(x)
  BY <1>2
<1>4. SUFFICES ASSUME NEW y \in T, y < x PROVE FALSE
  OBVIOUS
<1>5. Upto(y) \subseteq Upto(x) /\ x \in Upto(x) /\ x \notin Upto(y)
  BY <1>4
<1>6. <<Upto(y), m>> \in StrictSubsetOrdering(T)
  BY <1>3, <1>5 DEF StrictSubsetOrdering
<1> QED BY <1>2, <1>6

(* Min of such a set is its element, and least.                            *)
LEMMA MinIsLeast ==
    ASSUME NEW T, T \subseteq Nat, T # {}
    PROVE  Min(T) \in T /\ \A y \in T : Min(T) <= y
BY LeastNatural DEF Min

(* Max of a bounded one is its element, and greatest: seen from the bound, *)
(* greatest is least.                                                      *)
LEMMA MaxIsGreatest ==
    ASSUME NEW n \in Nat, NEW T, T \subseteq 0..n, T # {}
    PROVE  Max(T) \in T /\ \A y \in T : y <= Max(T)
<1> DEFINE U == {n - x : x \in T}
<1>1. \A x \in T : n - x \in Nat
  OBVIOUS
<1>2. U \subseteq Nat /\ U # {}
  BY <1>1
<1>3. PICK u \in U : \A v \in U : u <= v
  <2> HIDE DEF U
  <2> QED BY <1>2, LeastNatural
<1>4. PICK x \in T : u = n - x
  BY <1>3
<1>5. \A y \in T : n - y \in U
  OBVIOUS
<1>6. \A y \in T : x >= y
  <2> HIDE DEF U
  <2> QED BY <1>1, <1>3, <1>4, <1>5
<1> HIDE DEF U
<1> QED BY <1>6 DEF Max

(* A function over the domain of a sequence is one, and so is a sequence   *)
(* with one element replaced.                                              *)
LEMMA FunctionIsSeq ==
    ASSUME NEW S, NEW T, NEW a \in Seq(S), NEW f \in [DOMAIN a -> T]
    PROVE  f \in Seq(T) /\ DOMAIN f = DOMAIN a
<1>1. DOMAIN a = 1..Len(a) /\ Len(a) \in Nat
  OBVIOUS
<1> QED BY <1>1, SeqDef

LEMMA ReplacedIsSeq ==
    ASSUME NEW S, NEW a \in Seq(S), NEW i \in DOMAIN a, NEW x \in S
    PROVE  /\ [a EXCEPT ![i] = x] \in Seq(S)
           /\ DOMAIN [a EXCEPT ![i] = x] = DOMAIN a
           /\ Len([a EXCEPT ![i] = x]) = Len(a)
BY ExceptSeq

(* A set with one element has it as its minimum, one with two has two.     *)
LEMMA OnlyOne ==
    ASSUME NEW S, S \subseteq Nat, Cardinality(S) = 1
    PROVE  Min(S) \in S
<1>1. S # {}
  BY FS_EmptySet
<1> QED BY <1>1, MinIsLeast

LEMMA OneElement ==
    ASSUME NEW S, IsFiniteSet(S), Cardinality(S) = 1, NEW x \in S
    PROVE  S = {x}
<1>1. IsFiniteSet(S \ {x}) /\ Cardinality(S \ {x}) = 0
  BY FS_RemoveElement
<1>2. S \ {x} = {}
  BY <1>1, FS_EmptySet
<1> QED BY <1>2

LEMMA TwoOfThem ==
    ASSUME NEW S, IsFiniteSet(S), Cardinality(S) = 2
    PROVE  \E x, y \in S : x # y /\ S = {x, y}
<1>1. PICK x \in S : TRUE
  BY FS_EmptySet
<1>2. IsFiniteSet(S \ {x}) /\ Cardinality(S \ {x}) = 1
  BY <1>1, FS_RemoveElement
<1>3. PICK y : S \ {x} = {y}
  BY <1>2, FS_Singleton
<1> QED BY <1>1, <1>3

LEMMA ShortSeqs ==
    ASSUME NEW S, NEW a \in S, NEW b \in S
    PROVE  <<a>> \in Seq(S) /\ <<a, b>> \in Seq(S)
OBVIOUS

(* A page number and its rows: each index up to the last is on the page of *)
(* its quotient, and on no other.                                          *)
LEMMA PageOf ==
    ASSUME NEW size \in Nat \ {0}, NEW count \in Nat, NEW k \in 0..(count - 1)
    PROVE  \E n \in 1..((count + size - 1) \div size) :
               k \in ((n - 1) * size)..((n - 1) * size + size - 1)
<1> DEFINE q == k \div size
           t == (count + size - 1) \div size
<1>1. q \in Nat /\ q * size <= k /\ k <= q * size + size - 1
  OBVIOUS
<1>2. t \in Nat /\ t * size <= count + size - 1 /\ count + size - 1 <= t * size + size - 1
  OBVIOUS
<1> HIDE DEF q, t
<1>3. q < t
  <2> SUFFICES ASSUME t <= q PROVE FALSE
    BY <1>1, <1>2
  <2>1. t * size <= q * size
    BY <1>1, <1>2
  <2> QED BY <1>1, <1>2, <2>1
<1>4. q + 1 \in 1..t /\ (q + 1) - 1 = q
  BY <1>1, <1>2, <1>3
<1>5. k \in (((q + 1) - 1) * size)..(((q + 1) - 1) * size + size - 1)
  BY <1>1, <1>4
<1> QED BY <1>4, <1>5 DEF t

LEMMA OnePage ==
    ASSUME NEW size \in Nat \ {0}, NEW n \in Nat \ {0}, NEW m \in Nat \ {0}, NEW k \in Int,
           k \in ((n - 1) * size)..((n - 1) * size + size - 1),
           k \in ((m - 1) * size)..((m - 1) * size + size - 1)
    PROVE  n = m
<1>1. ASSUME NEW a \in Nat, NEW b \in Nat, a < b PROVE a * size + size <= b * size
  <2>1. (a + 1) * size <= b * size
    BY <1>1
  <2> QED BY <2>1
<1>2. n - 1 \in Nat /\ m - 1 \in Nat
  OBVIOUS
<1> DEFINE a == n - 1
           b == m - 1
           x == a * size
           y == b * size
<1>3. x \in Int /\ y \in Int /\ k >= x /\ k <= x + size - 1 /\ k >= y /\ k <= y + size - 1
  BY <1>2
<1>4. (a < b => x + size <= y) /\ (b < a => y + size <= x)
  BY <1>1, <1>2
<1> HIDE DEF x, y
<1>5. ~ (a < b) /\ ~ (b < a)
  BY <1>3, <1>4
<1> QED BY <1>5

(* What comes before a member of a finite set is less than the whole of it. *)
LEMMA Fewer ==
    ASSUME NEW S, IsFiniteSet(S), NEW x \in S, NEW B, B \subseteq S \ {x}
    PROVE  Cardinality(B) \in 0..(Cardinality(S) - 1)
<1>1. IsFiniteSet(S \ {x}) /\ Cardinality(S \ {x}) = Cardinality(S) - 1
  BY FS_RemoveElement
<1>2. Cardinality(B) <= Cardinality(S \ {x}) /\ IsFiniteSet(B)
  BY <1>1, FS_Subset
<1>3. Cardinality(B) \in Nat /\ Cardinality(S) \in Nat
  BY <1>2, FS_CardinalityType
<1> QED BY <1>1, <1>2, <1>3
==============================================================================
