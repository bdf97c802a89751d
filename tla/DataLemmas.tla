------------------------------ MODULE DataLemmas ------------------------------
(* Facts about numbers and sequences that the proofs of several components  *)
(* cite.  The induction over the naturals is the library's well-foundedness *)
(* theorem, applied to sets.                                                *)
EXTENDS Integers, Sequences, WellFoundedInduction, TLAPS

LEMMA LeastElement ==
  ASSUME NEW S, S \subseteq Nat, S # {}
  PROVE  \E n \in S : \A m \in S : n <= m
<1> DEFINE Less == {p \in Nat \X Nat : p[1] < p[2]}
<1>1. IsWellFoundedOn(Less, Nat) BY NatLessThanWellFounded DEF OpToRel
<1> HIDE DEF Less
<1>2. PICK n \in S : \A m \in S : ~(<<m, n>> \in Less) BY <1>1, WFMin
<1>3. n \in Nat BY <1>2
<1>4. \A m \in S : m \in Nat /\ ~(m < n) BY <1>2, <1>3 DEF Less
<1>5. \A m \in S : n <= m BY <1>3, <1>4
<1> QED BY <1>2, <1>5

LEMMA GreatestElement ==
  ASSUME NEW N \in Nat, NEW S, S \subseteq 0 .. N, S # {}
  PROVE  \E n \in S : \A m \in S : m <= n
<1> DEFINE T == {N - m : m \in S}
<1>1. T \subseteq Nat /\ T # {}
  <2>1. \A m \in S : m \in 0 .. N /\ N - m \in Nat OBVIOUS
  <2>2. PICK m \in S : TRUE OBVIOUS
  <2>3. N - m \in T BY <2>2
  <2>4. T \subseteq Nat BY <2>1
  <2> QED BY <2>3, <2>4
<1>2. PICK t \in T : \A u \in T : t <= u BY <1>1, LeastElement
<1>3. PICK n \in S : t = N - n BY <1>2
<1>4. \A m \in S : N - n <= N - m BY <1>2, <1>3
<1>5. \A m \in S : m <= n BY <1>4
<1> QED BY <1>3, <1>5

\* What a property of naturals that starts at 0 and is handed on holds of.
LEMMA SetInduction ==
  ASSUME NEW S, 0 \in S, \A n \in Nat : n \in S => n + 1 \in S
  PROVE  Nat \subseteq S
<1> SUFFICES ASSUME Nat \ S # {} PROVE FALSE OBVIOUS
<1>1. PICK n \in Nat \ S : \A m \in Nat \ S : n <= m
  <2>1. Nat \ S \subseteq Nat OBVIOUS
  <2> QED BY <2>1, LeastElement
<1>2. n # 0 /\ n - 1 \in Nat /\ n - 1 \notin S BY <1>1
<1>3. n <= n - 1 BY <1>1, <1>2
<1> QED BY <1>1, <1>3

LEMMA FunctionIsSequence ==
  ASSUME NEW S, NEW n \in Nat, NEW f \in [1 .. n -> S]
  PROVE  f \in Seq(S) /\ Len(f) = n
OBVIOUS

LEMMA AppendFacts ==
  ASSUME NEW S, NEW s \in Seq(S), NEW e \in S, NEW t, t = Append(s, e)
  PROVE  /\ t \in Seq(S) /\ Len(s) \in Nat /\ Len(t) = Len(s) + 1
         /\ DOMAIN s = 1 .. Len(s) /\ DOMAIN t = 1 .. Len(s) + 1
         /\ \A i \in 1 .. Len(s) : t[i] = s[i]
         /\ t[Len(s) + 1] = e
OBVIOUS
=============================================================================
