------------------------------ MODULE ListLemmas ------------------------------
(***************************************************************************)
(* What hlist_add_head and hlist_del do to a chain, seen as a sequence, and *)
(* the least of a set of numbers.                                          *)
(***************************************************************************)
EXTENDS Integers, Sequences, SequencesExt, SequenceTheorems,
        WellFoundedInduction, TLAPS

\* A set of numbers that is not empty has a least one.
LEMMA Least ==
    ASSUME NEW S \in SUBSET Nat, S # {}
    PROVE  \E i \in S : \A j \in S : i <= j
<1> DEFINE R == OpToRel(<, Nat)
<1>1. IsWellFoundedOn(R, Nat)
  BY NatLessThanWellFounded
<1>2. \A x, y \in Nat : y < x => <<y, x>> \in R
  BY DEF OpToRel
<1> HIDE DEF R
<1>3. PICK i \in S : \A j \in S : ~ (<<j, i>> \in R)
  BY <1>1, WFMin
<1>4. \A j \in S : i <= j
  <2> TAKE j \in S
  <2>1. i \in Nat /\ j \in Nat /\ ~ (j < i)
    BY <1>2, <1>3
  <2>2. QED
    BY <2>1
<1>5. QED
  BY <1>4

\* hlist_add_head puts the node first and shifts the others by one place.
LEMMA LinkHeadPlaces ==
    ASSUME NEW S, NEW s \in Seq(S), NEW n \in S
    PROVE  /\ <<n>> \o s \in Seq(S)
           /\ DOMAIN (<<n>> \o s) = 1 .. Len(s) + 1
           /\ (<<n>> \o s)[1] = n
           /\ \A i \in 1 .. Len(s) : (<<n>> \o s)[i + 1] = s[i]
  OBVIOUS

\* hlist_del of place i closes the gap and loses nothing else.
LEMMA RemovePlaces ==
    ASSUME NEW S, NEW s \in Seq(S), NEW i \in DOMAIN s
    PROVE  /\ RemoveAt(s, i) \in Seq(S)
           /\ DOMAIN RemoveAt(s, i) = 1 .. Len(s) - 1
           /\ \A j \in 1 .. Len(s) - 1 :
                 RemoveAt(s, i)[j] = s[IF j < i THEN j ELSE j + 1]
<1> DEFINE u == SubSeq(s, 1, i - 1)
           v == SubSeq(s, i + 1, Len(s))
<1>0. Len(s) \in Nat /\ i \in 1 .. Len(s)
  OBVIOUS
<1>1. /\ u \in Seq(S) /\ Len(u) = i - 1
      /\ \A j \in 1 .. i - 1 : u[j] = s[j]
  OBVIOUS
<1>2. /\ v \in Seq(S) /\ Len(v) = Len(s) - i
      /\ \A j \in 1 .. Len(s) - i : v[j] = s[j + i]
  OBVIOUS
<1>3. RemoveAt(s, i) = u \o v
  BY DEF RemoveAt
<1> HIDE DEF u, v
<1>4. /\ u \o v \in Seq(S) /\ Len(u \o v) = Len(s) - 1
      /\ \A j \in 1 .. Len(s) - 1 :
            (u \o v)[j] = IF j <= Len(u) THEN u[j] ELSE v[j - Len(u)]
  <2>1. Len(u) + Len(v) = Len(s) - 1
    BY <1>0, <1>1, <1>2
  <2>2. /\ u \o v \in Seq(S) /\ Len(u \o v) = Len(u) + Len(v)
        /\ \A j \in 1 .. Len(u) + Len(v) :
              (u \o v)[j] = IF j <= Len(u) THEN u[j] ELSE v[j - Len(u)]
    BY <1>1, <1>2, ConcatProperties, Zenon
  <2>3. QED
    BY <2>1, <2>2, Zenon
<1>5. ASSUME NEW j \in 1 .. Len(s) - 1
      PROVE  (u \o v)[j] = s[IF j < i THEN j ELSE j + 1]
  <2>1. CASE j < i
    BY <1>0, <1>1, <1>4, <2>1
  <2>2. CASE j >= i
    <3>1. j - Len(u) \in 1 .. Len(s) - i /\ j - Len(u) + i = j + 1
      BY <1>0, <1>1, <2>2
    <3>2. (u \o v)[j] = v[j - Len(u)]
      BY <1>0, <1>1, <1>4, <2>2
    <3>3. QED
      BY <1>0, <1>2, <2>2, <3>1, <3>2
  <2>3. j < i \/ j >= i
    BY <1>0
  <2>4. QED
    BY <2>1, <2>2, <2>3, Zenon
<1>6. DOMAIN (u \o v) = 1 .. Len(s) - 1
  BY <1>4
<1>7. QED
  BY <1>3, <1>4, <1>5, <1>6

\* A list_add at place i shifts what was there and behind by one place.
LEMMA InsertPlaces ==
    ASSUME NEW S, NEW s \in Seq(S), NEW i \in 1 .. Len(s) + 1, NEW e \in S
    PROVE  /\ InsertAt(s, i, e) \in Seq(S)
           /\ DOMAIN InsertAt(s, i, e) = 1 .. Len(s) + 1
           /\ \A j \in 1 .. Len(s) + 1 : /\ j < i => InsertAt(s, i, e)[j] = s[j]
                                         /\ j = i => InsertAt(s, i, e)[j] = e
                                         /\ j > i => InsertAt(s, i, e)[j] = s[j - 1]
<1> DEFINE u == SubSeq(s, 1, i - 1)
           v == SubSeq(s, i, Len(s))
<1>0. Len(s) \in Nat /\ i \in Nat /\ 1 <= i /\ i <= Len(s) + 1
  OBVIOUS
<1>1. /\ u \in Seq(S) /\ Len(u) = i - 1
      /\ \A j \in 1 .. i - 1 : u[j] = s[j]
  OBVIOUS
<1>2. /\ v \in Seq(S) /\ Len(v) = Len(s) - i + 1
      /\ \A j \in 1 .. Len(s) - i + 1 : v[j] = s[j + i - 1]
  OBVIOUS
<1>3. InsertAt(s, i, e) = (u \o <<e>>) \o v
  BY DEF InsertAt
<1> HIDE DEF u, v
<1>4. /\ u \o <<e>> \in Seq(S) /\ Len(u \o <<e>>) = i
      /\ \A j \in 1 .. i : (u \o <<e>>)[j] = IF j < i THEN s[j] ELSE e
  BY <1>0, <1>1
<1> DEFINE x == u \o <<e>>
<1> HIDE DEF x
<1>5. x \in Seq(S) /\ Len(x) = i /\ \A j \in 1 .. i : x[j] = IF j < i THEN s[j] ELSE e
  BY <1>4 DEF x
<1>6. /\ x \o v \in Seq(S) /\ Len(x \o v) = Len(x) + Len(v)
      /\ \A j \in 1 .. Len(x) + Len(v) : (x \o v)[j] = IF j <= Len(x) THEN x[j] ELSE v[j - Len(x)]
  BY <1>2, <1>5, ConcatProperties, Zenon
<1>7. Len(x) + Len(v) = Len(s) + 1
  BY <1>0, <1>2, <1>5
<1>8. ASSUME NEW j \in 1 .. Len(s) + 1
      PROVE  (x \o v)[j] = IF j < i THEN s[j] ELSE IF j = i THEN e ELSE s[j - 1]
  <2>1. (x \o v)[j] = IF j <= i THEN x[j] ELSE v[j - i]
    BY <1>5, <1>6, <1>7
  <2>2. CASE j <= i
    <3>1. j \in 1 .. i
      BY <1>0, <2>2
    <3>2. x[j] = IF j < i THEN s[j] ELSE e
      BY <1>5, <3>1
    <3>3. ~(j < i) => j = i
      BY <1>0, <2>2
    <3>4. QED
      BY <2>1, <2>2, <3>2, <3>3, Zenon
  <2>3. CASE j > i
    <3>1. j - i \in 1 .. Len(s) - i + 1 /\ (j - i) + i - 1 = j - 1
      BY <1>0, <2>3
    <3>2. v[j - i] = s[j - 1]
      BY <1>2, <3>1
    <3>3. ~(j <= i) /\ ~(j < i) /\ j # i
      BY <1>0, <2>3
    <3>4. QED
      BY <2>1, <3>2, <3>3, Zenon
  <2>4. j <= i \/ j > i
    BY <1>0
  <2>5. QED
    BY <2>2, <2>3, <2>4
<1>9. InsertAt(s, i, e) = x \o v
  BY <1>3 DEF x
<1>10. DOMAIN (x \o v) = 1 .. Len(s) + 1
  BY <1>6, <1>7
<1>11. QED
  BY <1>6, <1>8, <1>9, <1>10

=============================================================================
