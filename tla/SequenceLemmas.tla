--------------------------- MODULE SequenceLemmas ---------------------------
(***************************************************************************)
(* Facts about sequences and least numbers and sets that the proofs share. *)
(***************************************************************************)
EXTENDS SequencesExt, SequenceTheorems, FiniteSetTheorems, WellFoundedInduction, TLAPS

\* A set of natural numbers that is not empty has a least member.
LEMMA LeastMember ==
  ASSUME NEW I, I \subseteq Nat, I # {}
  PROVE  \E x \in I : \A y \in I : x <= y
<1> DEFINE Less == {p \in Nat \X Nat : p[1] < p[2]}
<1>1. IsWellFoundedOn(Less, Nat)
  BY NatLessThanWellFounded, Zenon DEF OpToRel
<1>2. \A R : IsWellFoundedOn(R, Nat) => \E x \in I : \A y \in I : <<y, x>> \notin R
  BY WFMin
<1>3. PICK x \in I : \A y \in I : <<y, x>> \notin Less
  <2> HIDE DEF Less
  <2> QED
    BY <1>1, <1>2, Zenon
<1>4. ASSUME NEW y \in I PROVE x <= y
  <2>1. CASE y < x
    <3>1. <<y, x>> \in Less
      BY <2>1
    <3> QED
      BY <3>1, <1>3
  <2> QED
    BY <2>1
<1> QED
  BY <1>4

\* It is what Min says.
LEMMA MinIsMember ==
  ASSUME NEW I, I \subseteq Nat, I # {}
  PROVE  Min(I) \in I
  BY LeastMember DEF Min

\* Among sets of members of a finite set there is a smallest one.
LEMMA SmallestSet ==
  ASSUME NEW D, IsFiniteSet(D), NEW W \in SUBSET (SUBSET D), W # {}
  PROVE  \E s \in W : \A r \in W : Cardinality(s) <= Cardinality(r)
<1> DEFINE Sizes == {Cardinality(s) : s \in W}
<1>1. \A s \in W : Cardinality(s) \in Nat
  BY FS_Subset, FS_CardinalityType
<1>2. Sizes \subseteq Nat /\ Sizes # {}
  BY <1>1
<1>3. PICK k \in Sizes : \A j \in Sizes : k <= j
  <2> HIDE DEF Sizes
  <2> QED
    BY <1>2, LeastMember
<1> QED
  BY <1>3

\* A longer sequence, element by element.
LEMMA AppendFacts ==
  ASSUME NEW X, NEW s \in Seq(X), NEW e \in X
  PROVE  /\ Append(s, e) \in Seq(X)
         /\ Len(s) \in Nat /\ Len(Append(s, e)) = Len(s) + 1
         /\ DOMAIN s = 1 .. Len(s) /\ DOMAIN Append(s, e) = 1 .. Len(s) + 1
         /\ Append(s, e)[Len(s) + 1] = e
         /\ \A i \in 1 .. Len(s) : Append(s, e)[i] = s[i]
  OBVIOUS

\* What is put before a sequence leaves the sequence a suffix.
LEMMA SuffixOfLonger ==
  ASSUME NEW X, NEW s \in Seq(X), NEW e \in X
  PROVE  IsSuffix(s, <<e>> \o s)
<1> DEFINE t == <<e>> \o s
<1>1. t \in Seq(X) /\ Len(t) = Len(s) + 1 /\ \A i \in 1 .. Len(s) : t[i + 1] = s[i]
  BY ConcatProperties
<1>2. Len(Reverse(s)) = Len(s) /\ Len(Reverse(t)) = Len(s) + 1
  BY <1>1 DEF Reverse
<1>3. \A i \in 1 .. Len(s) : Reverse(t)[i] = Reverse(s)[i]
  <2> SUFFICES ASSUME NEW i \in 1 .. Len(s) PROVE Reverse(t)[i] = Reverse(s)[i]
    OBVIOUS
  <2>1. Reverse(t)[i] = t[Len(s) + 1 - i + 1] /\ Reverse(s)[i] = s[Len(s) - i + 1]
    BY <1>1 DEF Reverse
  <2>2. Len(s) - i + 1 \in 1 .. Len(s) /\ Len(s) + 1 - i + 1 = (Len(s) - i + 1) + 1
    OBVIOUS
  <2> QED
    BY <1>1, <2>1, <2>2
<1> QED
  BY <1>2, <1>3 DEF IsSuffix, IsPrefix

\* A sequence is its own suffix.
LEMMA SuffixOfItself ==
  ASSUME NEW X, NEW s \in Seq(X)
  PROVE  IsSuffix(s, s)
  BY DEF IsSuffix, IsPrefix, Reverse

\* A sequence with an element before it.
LEMMA PrependFacts ==
  ASSUME NEW X, NEW s \in Seq(X), NEW e \in X
  PROVE  /\ <<e>> \o s \in Seq(X) /\ Len(<<e>> \o s) = Len(s) + 1
         /\ DOMAIN s = 1 .. Len(s) /\ DOMAIN (<<e>> \o s) = 1 .. Len(s) + 1
         /\ (<<e>> \o s)[1] = e
         /\ \A i \in DOMAIN s : (<<e>> \o s)[i + 1] = s[i]
  OBVIOUS

\* A longer sequence has one more element, and no element twice if it was not there.
LEMMA AppendRange ==
  ASSUME NEW X, NEW s \in Seq(X), NEW e \in X
  PROVE  /\ Range(Append(s, e)) = Range(s) \cup {e}
         /\ IsInjective(s) /\ e \notin Range(s) => IsInjective(Append(s, e))
<1> DEFINE t == Append(s, e)
<1>1. /\ Len(s) \in Nat /\ DOMAIN s = 1 .. Len(s) /\ DOMAIN t = 1 .. Len(s) + 1
      /\ t[Len(s) + 1] = e /\ \A i \in 1 .. Len(s) : t[i] = s[i]
  BY AppendFacts
<1> HIDE DEF t
<1>2. Range(t) = Range(s) \cup {e}
  <2>1. ASSUME NEW x \in Range(t) PROVE x \in Range(s) \cup {e}
    <3>1. PICK i \in 1 .. Len(s) + 1 : t[i] = x
      BY <1>1 DEF Range
    <3>2. i \in 1 .. Len(s) \/ i = Len(s) + 1
      BY <1>1
    <3> QED
      BY <1>1, <3>1, <3>2 DEF Range
  <2>2. ASSUME NEW x \in Range(s) PROVE x \in Range(t)
    <3>1. PICK i \in 1 .. Len(s) : s[i] = x
      BY <1>1 DEF Range
    <3>2. i \in DOMAIN t /\ t[i] = x
      BY <1>1, <3>1
    <3> QED
      BY <3>2 DEF Range
  <2>3. e \in Range(t)
    BY <1>1 DEF Range
  <2> QED
    BY <2>1, <2>2, <2>3
<1>3. ASSUME IsInjective(s), e \notin Range(s), NEW i \in DOMAIN t, NEW j \in DOMAIN t, t[i] = t[j]
      PROVE  i = j
  <2>1. /\ i \in 1 .. Len(s) \/ i = Len(s) + 1
        /\ j \in 1 .. Len(s) \/ j = Len(s) + 1
    BY <1>1
  <2> QED
    BY <1>1, <1>3, <2>1 DEF IsInjective, Range
<1> QED
  BY <1>2, <1>3 DEF IsInjective, t
=============================================================================
