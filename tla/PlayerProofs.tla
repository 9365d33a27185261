----------------------------- MODULE PlayerProofs -----------------------------
(* Theorems about PlayerQueue and Playback.                                    *)
(*                                                                             *)
(* PlayerQueue: every operation keeps the shuffled queue and the order it came *)
(* from together (Kept), and an index that points at the current track goes on *)
(* doing so (Follows).  Lists are compared by how often they hold a track      *)
(* (Times), so the operators on lists come first, each with what it does to    *)
(* the entries and to those counts.  What a repetition leads to (shuffled      *)
(* insertion, next() again and again) is proved by induction: SetInduction.    *)
(*                                                                             *)
(* Playback: what the engine is at work on is the last load of audio.ts, and   *)
(* what it plays is of the track the store shows (IInv).                       *)
EXTENDS Playback, SequenceTheorems, FiniteSetTheorems, TLAPS

LEMMA QueueConstants ==
    /\ None \notin Track /\ None \notin SUBSET Track
    /\ MaxQueue \in Nat /\ MaxGiven \in 1..MaxQueue
  BY PlayerQueueAssumption DEF PlayerQueueAssumption

LEMMA QueuesAre == \A q : q \in Queues <=> q \in Seq(Track) /\ Len(q) <= MaxQueue
  <1>1. MaxQueue \in Nat BY QueueConstants
  <1>2. ASSUME NEW q \in Queues PROVE q \in Seq(Track) /\ Len(q) <= MaxQueue
    <2>1. PICK m \in 0..MaxQueue : q \in [1..m -> Track] BY DEF Queues, SeqOf
    <2>2. m \in Nat BY <1>1
    <2>3. q \in Seq(Track) /\ Len(q) = m BY <2>1, <2>2, SeqDef, LenProperties
    <2> QED BY <1>1, <2>1, <2>3
  <1>3. ASSUME NEW q \in Seq(Track), Len(q) <= MaxQueue PROVE q \in Queues
    <2>1. q \in [1..Len(q) -> Track] /\ Len(q) \in Nat BY LenProperties
    <2>2. Len(q) \in 0..MaxQueue BY <1>1, <1>3, <2>1
    <2> QED BY <2>1, <2>2 DEF Queues, SeqOf
  <1> QED BY <1>2, <1>3

-------------------------------------------------------------------------------
(* Numbers and lists. *)

\* Induction, from the fact that no finite set has an infinite chain of subsets.
LEMMA SetInduction ==
    ASSUME NEW S \in SUBSET Nat, 0 \in S, \A n \in S : n + 1 \in S
    PROVE  S = Nat
  <1> SUFFICES ASSUME Nat \ S # {} PROVE FALSE OBVIOUS
  <1> DEFINE W == {0..k : k \in Nat \ S}
  <1>1. W \subseteq FiniteSubsetsOf(Nat)
    <2>1. \A k \in Nat : 0..k \in SUBSET Nat /\ IsFiniteSet(0..k) BY FS_Interval
    <2> QED BY <2>1 DEF FiniteSubsetsOf
  <1>2. PICK A \in W : \A B \in W : ~(<<B, A>> \in StrictSubsetOrdering(Nat))
    <2>1. W # {} OBVIOUS
    <2> HIDE DEF W
    <2> QED BY <1>1, <2>1, WFMin, FS_StrictSubsetOrderingWellFounded
  <1>3. PICK k \in Nat \ S : A = 0..k OBVIOUS
  <1>4. k # 0 /\ k - 1 \in Nat /\ k - 1 \notin S
    <2>1. k # 0 /\ k - 1 \in Nat OBVIOUS
    <2>2. (k - 1) + 1 = k OBVIOUS
    <2> QED BY <2>1, <2>2
  <1>5. 0..(k - 1) \in W BY <1>4
  <1>6. 0..(k - 1) \subseteq 0..k /\ k \in 0..k /\ k \notin 0..(k - 1) /\ 0..k \subseteq Nat BY <1>4
  <1>7. <<0..(k - 1), 0..k>> \in StrictSubsetOrdering(Nat)
    BY <1>6 DEF StrictSubsetOrdering
  <1> QED BY <1>2, <1>3, <1>5, <1>7

LEMMA Minimum ==
    ASSUME NEW S \in SUBSET Nat, S # {}
    PROVE  Min(S) \in S
  <1> DEFINE B == {n \in Nat : \A y \in S : n <= y}
  <1>1. 0 \in B OBVIOUS
  <1>2. B # Nat
    <2>1. PICK y \in S : TRUE OBVIOUS
    <2>2. y + 1 \in Nat /\ y + 1 \notin B BY <2>1
    <2> QED BY <2>2
  <1>3. PICK n \in B : n + 1 \notin B
    <2> HIDE DEF B
    <2>1. B \in SUBSET Nat BY DEF B
    <2> QED BY <1>1, <1>2, <2>1, SetInduction
  <1>4. PICK y \in S : ~(n + 1 <= y) BY <1>3
  <1>5. y = n BY <1>3, <1>4
  <1> QED BY <1>3, <1>4, <1>5 DEF Min

LEMMA FindsFirst ==
    ASSUME NEW s \in Seq(Track), NEW t
    PROVE  IF t \in ToSet(s)
           THEN FindIndex(s, t) \in 0..(Len(s) - 1) /\ s[FindIndex(s, t) + 1] = t
           ELSE FindIndex(s, t) = -1
  <1> DEFINE I == {i \in 1..Len(s) : s[i] = t}
  <1>1. Len(s) \in Nat /\ DOMAIN s = 1..Len(s) BY LenProperties
  <1>2. FindIndex(s, t) = (IF I # {} THEN Min(I) ELSE 0) - 1 BY DEF FindIndex, SelectInSeq
  <1>3. t \in ToSet(s) <=> I # {} BY <1>1 DEF ToSet
  <1>4. I # {} => Min(I) \in I
    <2>1. I \in SUBSET Nat BY <1>1
    <2> HIDE DEF I
    <2> QED BY <2>1, Minimum
  <1>5. CASE I # {}
    <2>1. Min(I) \in 1..Len(s) /\ s[Min(I)] = t BY <1>4, <1>5
    <2> HIDE DEF I
    <2>2. FindIndex(s, t) = Min(I) - 1 BY <1>2, <1>5
    <2>3. FindIndex(s, t) + 1 = Min(I) BY <1>1, <2>1, <2>2
    <2> QED BY <1>1, <1>3, <1>5, <2>1, <2>2, <2>3
  <1>6. CASE I = {} BY <1>2, <1>3, <1>6
  <1> QED BY <1>5, <1>6

-------------------------------------------------------------------------------
(* How often a track is in a list. *)

LEMMA TimesType ==
    ASSUME NEW s \in Seq(Track), NEW t
    PROVE  /\ Times(s, t) \in Nat /\ IsFiniteSet({i \in DOMAIN s : s[i] = t})
           /\ Times(s, t) = 0 <=> t \notin ToSet(s)
  <1> DEFINE I == {i \in DOMAIN s : s[i] = t}
  <1>1. IsFiniteSet(DOMAIN s) BY LenProperties, FS_Interval
  <1>2. IsFiniteSet(I) BY <1>1, FS_Subset
  <1>3. Times(s, t) = Cardinality(I) BY DEF Times
  <1>4. t \notin ToSet(s) <=> I = {} BY DEF ToSet
  <1> HIDE DEF I
  <1>5. Cardinality(I) \in Nat /\ (Cardinality(I) = 0 <=> I = {})
    BY <1>2, FS_CardinalityType, FS_EmptySet
  <1> QED BY <1>2, <1>3, <1>4, <1>5 DEF I

LEMMA TimesConcat ==
    ASSUME NEW s \in Seq(Track), NEW r \in Seq(Track), NEW t
    PROVE  Times(s \o r, t) = Times(s, t) + Times(r, t)
  <1> DEFINE A == {i \in DOMAIN s : s[i] = t}
             B == {i \in DOMAIN r : r[i] = t}
             C == {i \in DOMAIN (s \o r) : (s \o r)[i] = t}
             D == {i \in C : i > Len(s)}
             n == Len(s)
  <1>1. /\ n \in Nat /\ Len(r) \in Nat /\ DOMAIN s = 1..n /\ DOMAIN r = 1..Len(r)
        /\ DOMAIN (s \o r) = 1..(n + Len(r))
        /\ \A i \in 1..(n + Len(r)) : (s \o r)[i] = IF i <= n THEN s[i] ELSE r[i - n]
    BY LenProperties, ConcatProperties
  <1>2. IsFiniteSet(A) /\ IsFiniteSet(B) /\ Cardinality(A) = Times(s, t) /\ Cardinality(B) = Times(r, t)
    BY TimesType DEF Times
  <1>3. C = A \cup D BY <1>1
  <1>4. A \cap D = {} BY <1>1
  <1>5. IsFiniteSet(D) /\ Cardinality(D) = Cardinality(B)
    <2> DEFINE f == [i \in B |-> i + n]
    <2>1. \A i \in B : i + n \in D /\ i \in Nat BY <1>1
    <2>2. \A j \in D : j - n \in B /\ (j - n) + n = j BY <1>1
    <2> HIDE DEF B, D
    <2>3. f \in [B -> D] BY <2>1
    <2>4. \A i, k \in B : f[i] = f[k] => i = k BY <1>1, <2>1
    <2>5. \A j \in D : \E i \in B : f[i] = j BY <2>2
    <2>6. f \in Bijection(B, D) BY <2>3, <2>4, <2>5 DEF Bijection, Injection, Surjection, IsInjective
    <2>7. ExistsBijection(B, D) BY <2>6 DEF ExistsBijection
    <2> QED BY <1>2, <2>7, FS_Bijection
  <1>6. Times(s \o r, t) = Cardinality(C) BY DEF Times
  <1> HIDE DEF A, B, C, D
  <1>7. Cardinality(A \cup D) = Cardinality(A) + Cardinality(D) - Cardinality(A \cap D)
    BY <1>2, <1>5, FS_Union
  <1>8. Cardinality(A \cap D) = 0 BY <1>4, FS_EmptySet
  <1>9. Times(s, t) \in Nat /\ Times(r, t) \in Nat BY TimesType
  <1> QED BY <1>2, <1>3, <1>5, <1>6, <1>7, <1>8, <1>9

LEMMA TimesOne ==
    ASSUME NEW x \in Track, NEW t
    PROVE  <<x>> \in Seq(Track) /\ Len(<<x>>) = 1 /\ Times(<<x>>, t) = IF x = t THEN 1 ELSE 0
  <1> DEFINE I == {i \in DOMAIN <<x>> : <<x>>[i] = t}
  <1>1. <<x>> \in Seq(Track) /\ Len(<<x>>) = 1 /\ <<x>>[1] = x OBVIOUS
  <1>2. DOMAIN <<x>> = {1}
    <2>1. DOMAIN <<x>> = 1..1 BY <1>1, LenProperties
    <2> QED BY <2>1
  <1>3. I = IF x = t THEN {1} ELSE {} BY <1>1, <1>2
  <1>4. Times(<<x>>, t) = Cardinality(I) BY DEF Times
  <1> HIDE DEF I
  <1> QED BY <1>1, <1>3, <1>4, FS_Singleton, FS_EmptySet

\* A list without its i-th entry.
LEMMA RemoveAtIs ==
    ASSUME NEW s \in Seq(Track), NEW i \in 1..Len(s)
    PROVE  /\ RemoveAt(s, i) \in Seq(Track) /\ Len(RemoveAt(s, i)) = Len(s) - 1
           /\ \A k \in 1..(Len(s) - 1) : RemoveAt(s, i)[k] = IF k < i THEN s[k] ELSE s[k + 1]
           /\ \A t : Times(RemoveAt(s, i), t) = Times(s, t) - (IF s[i] = t THEN 1 ELSE 0)
  <1> DEFINE a == SubSeq(s, 1, i - 1)
             b == SubSeq(s, i + 1, Len(s))
             n == Len(s)
  <1>1. n \in Nat /\ i \in Nat /\ i >= 1 /\ i <= n /\ s[i] \in Track /\ \A k \in 1..n : s[k] \in Track
    BY LenProperties, ElementOfSeq
  <1>2. a \in Seq(Track) /\ Len(a) = i - 1 /\ \A k \in 1..(i - 1) : a[k] = s[k]
    <2>1. \A k \in 1..(i - 1) : s[k] \in Track BY <1>1
    <2>2. /\ SubSeq(s, 1, i - 1) \in Seq(Track)
          /\ Len(SubSeq(s, 1, i - 1)) = IF 1 <= i - 1 THEN (i - 1) - 1 + 1 ELSE 0
          /\ \A k \in 1..((i - 1) - 1 + 1) : SubSeq(s, 1, i - 1)[k] = s[1 + k - 1]
      BY <1>1, <2>1, SubSeqProperties
    <2> QED BY <1>1, <2>2
  <1>3. b \in Seq(Track) /\ Len(b) = n - i /\ \A k \in 1..(n - i) : b[k] = s[i + k]
    <2>1. \A k \in (i + 1)..n : s[k] \in Track BY <1>1
    <2>2. /\ SubSeq(s, i + 1, n) \in Seq(Track)
          /\ Len(SubSeq(s, i + 1, n)) = IF i + 1 <= n THEN n - (i + 1) + 1 ELSE 0
          /\ \A k \in 1..(n - (i + 1) + 1) : SubSeq(s, i + 1, n)[k] = s[(i + 1) + k - 1]
      BY <1>1, <2>1, SubSeqProperties
    <2> QED BY <1>1, <2>2
  <1>4. RemoveAt(s, i) = a \o b BY DEF RemoveAt
  <1> HIDE DEF a, b
  <1>5. /\ a \o b \in Seq(Track) /\ Len(a \o b) = n - 1
        /\ \A k \in 1..(n - 1) : (a \o b)[k] = IF k <= i - 1 THEN a[k] ELSE b[k - (i - 1)]
    <2>1. (i - 1) + (n - i) = n - 1 BY <1>1
    <2>2. /\ a \o b \in Seq(Track) /\ Len(a \o b) = Len(a) + Len(b)
          /\ \A k \in 1..(Len(a) + Len(b)) : (a \o b)[k] = IF k <= Len(a) THEN a[k] ELSE b[k - Len(a)]
      BY <1>2, <1>3, ConcatProperties
    <2> QED BY <1>2, <1>3, <2>1, <2>2
  <1>6. ASSUME NEW k \in 1..(n - 1) PROVE (a \o b)[k] = IF k < i THEN s[k] ELSE s[k + 1]
    <2>1. CASE k < i
      <3>1. k \in 1..(i - 1) /\ k <= i - 1 BY <1>1, <2>1
      <3> QED BY <1>2, <1>5, <2>1, <3>1
    <2>2. CASE ~(k < i)
      <3>1. k - (i - 1) \in 1..(n - i) /\ ~(k <= i - 1) /\ i + (k - (i - 1)) = k + 1 BY <1>1, <2>2
      <3> QED BY <1>3, <1>5, <2>2, <3>1
    <2> QED BY <2>1, <2>2
  <1>7. s = (a \o <<s[i]>>) \o b
    <2>1. i \in 1..n /\ (i - 1) \in (1 - 1)..n /\ i \in (i - 1)..n /\ 1 \in 1..(n + 1) BY <1>1
    <2>2. a \o <<s[i]>> = SubSeq(s, 1, i)
      <3>1. i \in 1..Len(s) /\ 1 \in 1..Len(s) /\ i \in 1..Len(s) BY <1>1
      <3> QED BY <3>1, SubSeqRecursiveSecond DEF a
    <2>3. SubSeq(s, 1, i) \o b = SubSeq(s, 1, n)
      <3>1. i \in (1 - 1)..Len(s) /\ n \in i..Len(s) BY <1>1
      <3> QED BY <2>1, <3>1, ConcatAdjacentSubSeq DEF b
    <2> QED BY <2>2, <2>3, SubSeqFull
  <1>8. ASSUME NEW t PROVE Times(a \o b, t) = Times(s, t) - (IF s[i] = t THEN 1 ELSE 0)
    <2>1. <<s[i]>> \in Seq(Track) /\ Times(<<s[i]>>, t) = IF s[i] = t THEN 1 ELSE 0 BY <1>1, TimesOne
    <2> DEFINE o == <<s[i]>>
    <2> HIDE DEF o
    <2>2. o \in Seq(Track) /\ Times(o, t) = (IF s[i] = t THEN 1 ELSE 0) /\ s = (a \o o) \o b
      BY <1>7, <2>1 DEF o
    <2>3. a \o o \in Seq(Track) BY <1>2, <2>2, ConcatProperties
    <2> DEFINE c == a \o o
    <2>4. /\ Times(a \o b, t) = Times(a, t) + Times(b, t)
          /\ Times(c, t) = Times(a, t) + Times(o, t)
          /\ Times(c \o b, t) = Times(c, t) + Times(b, t)
      <3>1. Times(a \o b, t) = Times(a, t) + Times(b, t) BY <1>2, <1>3, TimesConcat
      <3>2. Times(c, t) = Times(a, t) + Times(o, t) BY <1>2, <2>2, TimesConcat
      <3> HIDE DEF c
      <3>3. c \in Seq(Track) BY <2>3 DEF c
      <3>4. Times(c \o b, t) = Times(c, t) + Times(b, t) BY <1>3, <3>3, TimesConcat
      <3> QED BY <3>1, <3>2, <3>4
    <2>5. Times(a, t) \in Nat /\ Times(b, t) \in Nat BY <1>2, <1>3, TimesType
    <2>6. Times(s, t) = (Times(a, t) + Times(o, t)) + Times(b, t) BY <2>2, <2>4
    <2> QED BY <2>2, <2>4, <2>5, <2>6
  <1> QED BY <1>4, <1>5, <1>6, <1>8

\* slice(0, i) and slice(i), where an i past the end is the end.
Place(s, i) == IF i > Len(s) THEN Len(s) ELSE i

LEMMA CutIs ==
    ASSUME NEW s \in Seq(Track), NEW i \in Nat
    PROVE  /\ Place(s, i) \in 0..Len(s)
           /\ Taken(s, i) \in Seq(Track) /\ Len(Taken(s, i)) = Place(s, i)
           /\ \A k \in 1..Place(s, i) : Taken(s, i)[k] = s[k]
           /\ Dropped(s, i) \in Seq(Track) /\ Len(Dropped(s, i)) = Len(s) - Place(s, i)
           /\ \A k \in 1..(Len(s) - Place(s, i)) : Dropped(s, i)[k] = s[Place(s, i) + k]
           /\ \A t : Times(Taken(s, i), t) + Times(Dropped(s, i), t) = Times(s, t)
  <1> DEFINE n == Len(s)
             m == Place(s, i)
             a == Taken(s, i)
             b == Dropped(s, i)
  <1>1. n \in Nat /\ m \in 0..n /\ \A k \in 1..n : s[k] \in Track
    BY LenProperties, ElementOfSeq DEF Place
  <1>2. a = SubSeq(s, 1, m) BY DEF Taken, Place
  <1>3. b = SubSeq(s, m + 1, n)
    <2>1. CASE i > n
      <3>1. n < i + 1 /\ n < n + 1 /\ i + 1 \in Int /\ n + 1 \in Int /\ n \in Int BY <1>1, <2>1
      <3>2. SubSeq(s, i + 1, n) = << >> BY <3>1, SubSeqEmpty
      <3>3. SubSeq(s, n + 1, n) = << >> BY <3>1, SubSeqEmpty
      <3> QED BY <2>1, <3>2, <3>3 DEF Dropped, Place
    <2>2. CASE ~(i > n) BY <2>2 DEF Dropped, Place
    <2> QED BY <2>1, <2>2
  <1> HIDE DEF m
  <1>4. a \in Seq(Track) /\ Len(a) = m /\ \A k \in 1..m : a[k] = s[k]
    <2>1. \A k \in 1..m : s[k] \in Track BY <1>1
    <2>2. /\ SubSeq(s, 1, m) \in Seq(Track)
          /\ Len(SubSeq(s, 1, m)) = IF 1 <= m THEN m - 1 + 1 ELSE 0
          /\ \A k \in 1..(m - 1 + 1) : SubSeq(s, 1, m)[k] = s[1 + k - 1]
      BY <1>1, <2>1, SubSeqProperties
    <2> QED BY <1>1, <1>2, <2>2
  <1>5. b \in Seq(Track) /\ Len(b) = n - m /\ \A k \in 1..(n - m) : b[k] = s[m + k]
    <2>1. \A k \in (m + 1)..n : s[k] \in Track BY <1>1
    <2>2. /\ SubSeq(s, m + 1, n) \in Seq(Track)
          /\ Len(SubSeq(s, m + 1, n)) = IF m + 1 <= n THEN n - (m + 1) + 1 ELSE 0
          /\ \A k \in 1..(n - (m + 1) + 1) : SubSeq(s, m + 1, n)[k] = s[(m + 1) + k - 1]
      BY <1>1, <2>1, SubSeqProperties
    <2> QED BY <1>1, <1>3, <2>2
  <1> HIDE DEF a, b
  <1>6. a \o b = s
    <2>1. /\ a \o b \in Seq(Track) /\ Len(a \o b) = m + (n - m)
          /\ \A k \in 1..(m + (n - m)) : (a \o b)[k] = IF k <= m THEN a[k] ELSE b[k - m]
      BY <1>4, <1>5, ConcatProperties
    <2>2. m + (n - m) = n BY <1>1
    <2>3. ASSUME NEW k \in 1..n PROVE (a \o b)[k] = s[k]
      <3>1. CASE k <= m
        <4>1. k \in 1..m BY <1>1, <3>1
        <4> QED BY <1>4, <2>1, <2>2, <3>1, <4>1
      <3>2. CASE ~(k <= m)
        <4>1. k - m \in 1..(n - m) /\ m + (k - m) = k BY <1>1, <3>2
        <4> QED BY <1>5, <2>1, <2>2, <3>2, <4>1
      <3> QED BY <3>1, <3>2
    <2> QED BY <2>1, <2>2, <2>3, SeqEqual
  <1>7. ASSUME NEW t PROVE Times(a, t) + Times(b, t) = Times(s, t)
    <2>1. Times(a \o b, t) = Times(a, t) + Times(b, t) BY <1>4, <1>5, TimesConcat
    <2> QED BY <1>6, <2>1
  <1> QED BY <1>1, <1>4, <1>5, <1>7 DEF a, b, m

\* splice(i, 0, ...ts)
LEMMA SplicedIs ==
    ASSUME NEW s \in Seq(Track), NEW i \in Nat, NEW ts \in Seq(Track)
    PROVE  /\ Spliced(s, i, ts) \in Seq(Track) /\ Len(Spliced(s, i, ts)) = Len(s) + Len(ts)
           /\ \A k \in 1..(Len(s) + Len(ts)) :
                 Spliced(s, i, ts)[k] = IF k <= Place(s, i) THEN s[k]
                                        ELSE IF k <= Place(s, i) + Len(ts) THEN ts[k - Place(s, i)]
                                        ELSE s[k - Len(ts)]
           /\ \A t : Times(Spliced(s, i, ts), t) = Times(s, t) + Times(ts, t)
  <1> DEFINE n == Len(s)
             m == Place(s, i)
             a == Taken(s, i)
             b == Dropped(s, i)
  <1>1. n \in Nat /\ Len(ts) \in Nat /\ m \in 0..n BY LenProperties, CutIs
  <1>2. a \in Seq(Track) /\ Len(a) = m /\ \A k \in 1..m : a[k] = s[k] BY CutIs
  <1>3. b \in Seq(Track) /\ Len(b) = n - m /\ \A k \in 1..(n - m) : b[k] = s[m + k] BY CutIs
  <1>4. \A t : Times(a, t) + Times(b, t) = Times(s, t) BY CutIs
  <1>5. Spliced(s, i, ts) = (a \o ts) \o b
    <2>1. Spliced(s, i, ts) = a \o ts \o b BY DEF Spliced
    <2> HIDE DEF a, b
    <2> QED BY <1>2, <1>3, <2>1, ConcatAssociative
  <1> HIDE DEF a, b, m
  <1> DEFINE c == a \o ts
  <1>6. /\ c \in Seq(Track) /\ Len(c) = m + Len(ts)
        /\ \A k \in 1..(m + Len(ts)) : c[k] = IF k <= m THEN a[k] ELSE ts[k - m]
        /\ \A t : Times(c, t) = Times(a, t) + Times(ts, t)
    BY <1>2, ConcatProperties, TimesConcat
  <1> HIDE DEF c
  <1>7. /\ c \o b \in Seq(Track) /\ Len(c \o b) = (m + Len(ts)) + (n - m)
        /\ \A k \in 1..((m + Len(ts)) + (n - m)) :
              (c \o b)[k] = IF k <= m + Len(ts) THEN c[k] ELSE b[k - (m + Len(ts))]
        /\ \A t : Times(c \o b, t) = Times(c, t) + Times(b, t)
    <2>1. /\ c \o b \in Seq(Track) /\ Len(c \o b) = Len(c) + Len(b)
          /\ \A k \in 1..(Len(c) + Len(b)) : (c \o b)[k] = IF k <= Len(c) THEN c[k] ELSE b[k - Len(c)]
      BY <1>3, <1>6, ConcatProperties
    <2>2. \A t : Times(c \o b, t) = Times(c, t) + Times(b, t) BY <1>3, <1>6, TimesConcat
    <2> QED BY <1>3, <1>6, <2>1, <2>2
  <1>8. (m + Len(ts)) + (n - m) = n + Len(ts) BY <1>1
  <1>9. ASSUME NEW k \in 1..(n + Len(ts))
        PROVE  (c \o b)[k] = IF k <= m THEN s[k] ELSE IF k <= m + Len(ts) THEN ts[k - m] ELSE s[k - Len(ts)]
    <2>1. CASE k <= m
      <3>1. k \in 1..m /\ k \in 1..(m + Len(ts)) /\ k <= m + Len(ts) BY <1>1, <2>1
      <3> QED BY <1>2, <1>6, <1>7, <1>8, <2>1, <3>1
    <2>2. CASE ~(k <= m) /\ k <= m + Len(ts)
      <3>1. k \in 1..(m + Len(ts)) BY <1>1, <2>2
      <3> QED BY <1>6, <1>7, <1>8, <2>2, <3>1
    <2>3. CASE ~(k <= m) /\ ~(k <= m + Len(ts))
      <3>1. k - (m + Len(ts)) \in 1..(n - m) /\ m + (k - (m + Len(ts))) = k - Len(ts) BY <1>1, <2>3
      <3> QED BY <1>3, <1>7, <1>8, <2>3, <3>1
    <2> QED BY <2>1, <2>2, <2>3
  <1>10. ASSUME NEW t PROVE Times(c \o b, t) = Times(s, t) + Times(ts, t)
    <2>1. Times(a, t) \in Nat /\ Times(b, t) \in Nat /\ Times(ts, t) \in Nat
      BY <1>2, <1>3, TimesType
    <2>2. Times(a, t) + Times(b, t) = Times(s, t) BY <1>4
    <2>3. Times(c \o b, t) = (Times(a, t) + Times(ts, t)) + Times(b, t) BY <1>6, <1>7
    <2> QED BY <2>1, <2>2, <2>3
  <1> QED BY <1>1, <1>5, <1>7, <1>8, <1>9, <1>10 DEF c, m

\* shuffleArray keeps every entry.
LEMMA ShuffledIs ==
    ASSUME NEW s \in Seq(Track), NEW r \in Shuffled(s)
    PROVE  r \in Seq(Track) /\ Len(r) = Len(s) /\ \A t : Times(r, t) = Times(s, t)
  <1>1. Len(s) \in Nat /\ DOMAIN s = 1..Len(s) /\ s \in [1..Len(s) -> Track] BY LenProperties
  <1> DEFINE n == Len(s)
  <1>2. PICK f \in Bijection(1..n, 1..n) : r = [i \in 1..n |-> s[f[i]]] BY <1>1 DEF Shuffled
  <1>3. /\ f \in [1..n -> 1..n] /\ \A i, k \in 1..n : f[i] = f[k] => i = k
        /\ \A k \in 1..n : \E i \in 1..n : f[i] = k
    BY <1>2 DEF Bijection, Injection, Surjection, IsInjective
  <1>4. r \in [1..n -> Track] BY <1>1, <1>2, <1>3
  <1>5. r \in Seq(Track) /\ Len(r) = n
    <2>1. r \in Seq(Track) BY <1>1, <1>4, SeqDef
    <2> QED BY <1>1, <1>4, <2>1, LenProperties
  <1>6. ASSUME NEW t PROVE Times(r, t) = Times(s, t)
    <2> DEFINE A == {i \in DOMAIN r : r[i] = t}
               B == {i \in DOMAIN s : s[i] = t}
               g == [i \in A |-> f[i]]
    <2>1. DOMAIN r = 1..n /\ DOMAIN s = 1..n BY <1>1, <1>4
    <2>2. \A i \in A : i \in 1..n /\ f[i] \in B BY <1>2, <1>3, <2>1
    <2>3. \A k \in B : \E i \in A : f[i] = k
      <3> SUFFICES ASSUME NEW k \in B PROVE \E i \in A : f[i] = k OBVIOUS
      <3>1. PICK i \in 1..n : f[i] = k BY <1>3, <2>1
      <3>2. i \in A BY <1>2, <2>1, <3>1
      <3> QED BY <3>1, <3>2
    <2>4. IsFiniteSet(A) /\ Times(r, t) = Cardinality(A) BY <1>5, TimesType DEF Times
    <2>5. Times(s, t) = Cardinality(B) BY DEF Times
    <2> HIDE DEF A, B
    <2>6. g \in [A -> B] BY <2>2
    <2>7. \A i, k \in A : g[i] = g[k] => i = k BY <1>3, <2>2
    <2>8. \A k \in B : \E i \in A : g[i] = k BY <2>3
    <2>9. g \in Bijection(A, B) BY <2>6, <2>7, <2>8 DEF Bijection, Injection, Surjection, IsInjective
    <2>10. ExistsBijection(A, B) BY <2>9 DEF ExistsBijection
    <2> QED BY <2>4, <2>5, <2>10, FS_Bijection
  <1> QED BY <1>5, <1>6

-------------------------------------------------------------------------------
(* Repetition. *)

\* h is what the steps make of a; a step is a function on D.
Made(h, D, N, a, step) ==
    h \in [0..N -> D] /\ h[0] = a /\ \A n \in 1..N : h[n] = step[n][h[n - 1]]

LEMMA Repeated ==
    ASSUME NEW D, NEW N \in Nat, NEW a \in D, NEW step, step \in [1..N -> [D -> D]]
    PROVE  \E h : Made(h, D, N, a, step)
  <1> DEFINE Upto(n, h) == h \in [0..n -> D] /\ h[0] = a /\ \A m \in 1..n : h[m] = step[m][h[m - 1]]
             S == {n \in Nat : n <= N => \E h : Upto(n, h)}
  <1>1. 0 \in S
    <2>1. Upto(0, [m \in 0..0 |-> a]) OBVIOUS
    <2> QED BY <2>1
  <1>2. ASSUME NEW n \in S PROVE n + 1 \in S
    <2> SUFFICES ASSUME n + 1 <= N PROVE \E h : Upto(n + 1, h) OBVIOUS
    <2>1. n \in Nat /\ n <= N BY <1>2
    <2>2. PICK h : Upto(n, h) BY <1>2, <2>1
    <2> DEFINE next == [m \in 0..(n + 1) |-> IF m <= n THEN h[m] ELSE step[n + 1][h[n]]]
    <2>3. h[n] \in D /\ step[n + 1] \in [D -> D]
      <3>1. n \in 0..n /\ n + 1 \in 1..N BY <2>1
      <3> QED BY <2>2, <3>1
    <2>4. next \in [0..(n + 1) -> D]
      <3>1. \A m \in 0..(n + 1) : m <= n => m \in 0..n BY <2>1
      <3> QED BY <2>2, <2>3, <3>1
    <2>5. next[0] = a BY <2>1, <2>2
    <2>6. ASSUME NEW m \in 1..(n + 1) PROVE next[m] = step[m][next[m - 1]]
      <3>1. m - 1 \in 0..(n + 1) /\ m - 1 <= n /\ m \in 0..(n + 1) BY <2>1
      <3>2. next[m - 1] = h[m - 1] BY <3>1
      <3>3. CASE m <= n
        <4>1. m \in 1..n BY <2>1, <3>3
        <4> QED BY <2>2, <3>1, <3>2, <3>3, <4>1
      <3>4. CASE ~(m <= n)
        <4>1. m = n + 1 /\ m - 1 = n BY <2>1, <3>4
        <4> QED BY <2>1, <3>1, <3>2, <3>4, <4>1
      <3> QED BY <3>3, <3>4
    <2> QED BY <2>4, <2>5, <2>6
  <1> HIDE DEF S
  <1>3. S = Nat
    <2>1. S \in SUBSET Nat BY DEF S
    <2> QED BY <1>1, <1>2, <2>1, SetInduction
  <1>4. \E h : Upto(N, h)
    <2>1. N \in S BY <1>3
    <2> QED BY <2>1 DEF S
  <1> QED BY <1>4 DEF Made

\* Where the tracks added under shuffle land: after the current one, in any order.
LEMMA ScatteredIs ==
    ASSUME NEW s \in Seq(Track), NEW index \in Nat, NEW ts \in Seq(Track), NEW r \in Scattered(s, index, ts)
    PROVE  /\ r \in Seq(Track) /\ Len(r) = Len(s) + Len(ts)
           /\ \A k \in 1..Len(s) : k <= index + 1 => r[k] = s[k]
           /\ \A t : Times(r, t) = Times(s, t) + Times(ts, t)
  <1> DEFINE Inserted(n, ss) == UNION {{Spliced(q, i, <<ts[n]>>) : i \in Positions(q, index)} : q \in ss}
             landed[n \in 0..Len(ts)] ==
                IF n = 0 THEN {s}
                ELSE UNION {{Spliced(q, i, <<ts[n]>>) : i \in Positions(q, index)} : q \in landed[n - 1]}
             N == Len(ts)
             step == [n \in 1..N |-> [ss \in SUBSET Seq(Track) |-> Inserted(n, ss)]]
  <1>1. N \in Nat /\ Len(s) \in Nat /\ \A n \in 1..N : ts[n] \in Track BY LenProperties, ElementOfSeq
  <1>2. Scattered(s, index, ts) = landed[N] BY DEF Scattered
  <1>3. ASSUME NEW q \in Seq(Track), NEW i \in Positions(q, index), NEW n \in 1..N
        PROVE  /\ Spliced(q, i, <<ts[n]>>) \in Seq(Track) /\ Len(Spliced(q, i, <<ts[n]>>)) = Len(q) + 1
               /\ \A k \in 1..Len(q) : k <= index + 1 => Spliced(q, i, <<ts[n]>>)[k] = q[k]
               /\ \A t : Times(Spliced(q, i, <<ts[n]>>), t) = Times(q, t) + (IF ts[n] = t THEN 1 ELSE 0)
    <2>1. Len(q) \in Nat BY LenProperties
    <2>2. i \in Nat /\ i <= Len(q) /\ (index < Len(q) => i >= index + 1) /\ (~(index < Len(q)) => i = Len(q))
      BY <2>1 DEF Positions
    <2> DEFINE o == <<ts[n]>>
    <2>3. o \in Seq(Track) /\ Len(o) = 1 /\ \A t : Times(o, t) = IF ts[n] = t THEN 1 ELSE 0
      BY <1>1, TimesOne
    <2> HIDE DEF o
    <2>4. /\ Spliced(q, i, o) \in Seq(Track) /\ Len(Spliced(q, i, o)) = Len(q) + Len(o)
          /\ \A k \in 1..(Len(q) + Len(o)) :
                Spliced(q, i, o)[k] = IF k <= i THEN q[k] ELSE IF k <= i + Len(o) THEN o[k - i] ELSE q[k - Len(o)]
          /\ \A t : Times(Spliced(q, i, o), t) = Times(q, t) + Times(o, t)
      <3>1. Place(q, i) = i BY <2>1, <2>2 DEF Place
      <3>2. /\ Spliced(q, i, o) \in Seq(Track) /\ Len(Spliced(q, i, o)) = Len(q) + Len(o)
            /\ \A k \in 1..(Len(q) + Len(o)) :
                  Spliced(q, i, o)[k] = IF k <= Place(q, i) THEN q[k]
                                        ELSE IF k <= Place(q, i) + Len(o) THEN o[k - Place(q, i)]
                                        ELSE q[k - Len(o)]
            /\ \A t : Times(Spliced(q, i, o), t) = Times(q, t) + Times(o, t)
        BY <2>2, <2>3, SplicedIs
      <3> QED BY <3>1, <3>2
    <2>5. ASSUME NEW k \in 1..Len(q), k <= index + 1 PROVE Spliced(q, i, o)[k] = q[k]
      <3>1. k <= i BY <2>1, <2>2, <2>5
      <3>2. k \in 1..(Len(q) + Len(o)) BY <2>1, <2>3
      <3> QED BY <2>4, <3>1, <3>2
    <2>6. \A t : Times(Spliced(q, i, o), t) = Times(q, t) + (IF ts[n] = t THEN 1 ELSE 0) BY <2>3, <2>4
    <2>7. Spliced(q, i, o) \in Seq(Track) /\ Len(Spliced(q, i, o)) = Len(q) + 1 BY <2>3, <2>4
    <2> QED BY <2>5, <2>6, <2>7 DEF o
  <1>4. step \in [1..N -> [SUBSET Seq(Track) -> SUBSET Seq(Track)]]
    <2>1. ASSUME NEW n \in 1..N, NEW ss \in SUBSET Seq(Track) PROVE Inserted(n, ss) \in SUBSET Seq(Track)
      BY <1>3
    <2> QED BY <2>1
  <1>5. landed = [n \in 0..N |-> IF n = 0 THEN {s} ELSE Inserted(n, landed[n - 1])]
    <2> HIDE DEF step
    <2>1. PICK h \in [0..N -> SUBSET Seq(Track)] :
             h[0] = {s} /\ \A n \in 1..N : h[n] = step[n][h[n - 1]]
      <3> DEFINE D == SUBSET Seq(Track)
                 a == {s}
                 M == N
      <3>1. a \in D /\ M \in Nat /\ step \in [1..M -> [D -> D]] BY <1>1, <1>4
      <3> HIDE DEF D, a, M, landed, Inserted
      <3>2. PICK h : Made(h, D, M, a, step) BY <3>1, Repeated
      <3> QED BY <3>2 DEF D, a, M, Made
    <2>2. h = [n \in 0..N |-> IF n = 0 THEN {s} ELSE Inserted(n, h[n - 1])]
      <3>1. ASSUME NEW n \in 1..N PROVE h[n] = Inserted(n, h[n - 1])
        <4>1. n - 1 \in 0..N BY <1>1
        <4> QED BY <2>1, <4>1 DEF step
      <3>2. \A n \in 0..N : n # 0 => n \in 1..N BY <1>1
      <3> HIDE DEF Inserted
      <3> QED BY <2>1, <3>1, <3>2
    <2>3. \E f : f = [n \in 0..N |-> IF n = 0 THEN {s} ELSE Inserted(n, f[n - 1])] BY <2>2
    <2> QED BY <2>3
  <1> HIDE DEF landed, step, Inserted
  <1> DEFINE Good(n, q) == /\ q \in Seq(Track) /\ Len(q) = Len(s) + n
                           /\ \A k \in 1..Len(s) : k <= index + 1 => q[k] = s[k]
                           /\ \A t : Times(q, t) = Times(s, t) + Times(SubSeq(ts, 1, n), t)
             S == {n \in Nat : n <= N => \A q \in landed[n] : Good(n, q)}
  <1>6. 0 \in S
    <2>1. landed[0] = {s} BY <1>1, <1>5
    <2>2. SubSeq(ts, 1, 0) = << >> BY SubSeqEmpty
    <2>3. \A t : Times(<< >>, t) = 0
      <3>1. << >> \in Seq(Track) /\ \A t : t \notin ToSet(<< >>) BY EmptySeq DEF ToSet
      <3> QED BY <3>1, TimesType
    <2>4. \A t : Times(s, t) \in Nat BY TimesType
    <2>5. ASSUME NEW t PROVE Times(s, t) = Times(s, t) + Times(SubSeq(ts, 1, 0), t)
      <3>1. Times(SubSeq(ts, 1, 0), t) = 0 BY <2>2, <2>3
      <3> QED BY <2>4, <3>1
    <2>6. s \in Seq(Track) /\ Len(s) = Len(s) + 0 BY <1>1
    <2>7. Good(0, s) BY <2>5, <2>6
    <2> QED BY <2>1, <2>7
  <1>7. ASSUME NEW n \in S PROVE n + 1 \in S
    <2> SUFFICES ASSUME n + 1 <= N, NEW r1 \in landed[n + 1] PROVE Good(n + 1, r1) OBVIOUS
    <2>1. n \in Nat /\ n <= N /\ n + 1 \in 1..N /\ n + 1 \in 0..N /\ (n + 1) - 1 = n /\ n + 1 # 0 BY <1>1, <1>7
    <2>2. landed[n + 1] = Inserted(n + 1, landed[n]) BY <1>5, <2>1
    <2>3. PICK q \in landed[n] : \E i \in Positions(q, index) : r1 = Spliced(q, i, <<ts[n + 1]>>)
      BY <2>2 DEF Inserted
    <2>4. Good(n, q) BY <1>7, <2>1
    <2>5. /\ r1 \in Seq(Track) /\ Len(r1) = Len(q) + 1
          /\ \A k \in 1..Len(q) : k <= index + 1 => r1[k] = q[k]
          /\ \A t : Times(r1, t) = Times(q, t) + (IF ts[n + 1] = t THEN 1 ELSE 0)
      <3>1. PICK i \in Positions(q, index) : r1 = Spliced(q, i, <<ts[n + 1]>>) BY <2>3
      <3>2. q \in Seq(Track) BY <2>4
      <3> DEFINE n1 == n + 1
      <3>3. n1 \in 1..N BY <2>1
      <3> HIDE DEF n1
      <3>4. /\ Spliced(q, i, <<ts[n1]>>) \in Seq(Track) /\ Len(Spliced(q, i, <<ts[n1]>>)) = Len(q) + 1
            /\ \A k \in 1..Len(q) : k <= index + 1 => Spliced(q, i, <<ts[n1]>>)[k] = q[k]
            /\ \A t : Times(Spliced(q, i, <<ts[n1]>>), t) = Times(q, t) + (IF ts[n1] = t THEN 1 ELSE 0)
        BY <1>3, <3>2, <3>3
      <3> QED BY <3>1, <3>4 DEF n1
    <2>6. ASSUME NEW t PROVE Times(SubSeq(ts, 1, n + 1), t) = Times(SubSeq(ts, 1, n), t) + (IF ts[n + 1] = t THEN 1 ELSE 0)
      <3> DEFINE o == <<ts[n + 1]>>
                 a == SubSeq(ts, 1, n)
      <3>1. o \in Seq(Track) /\ Times(o, t) = IF ts[n + 1] = t THEN 1 ELSE 0 BY <1>1, <2>1, TimesOne
      <3>2. a \in Seq(Track)
        <4>1. \A k \in 1..n : ts[k] \in Track BY <1>1, <2>1
        <4> QED BY <2>1, <4>1, SubSeqProperties
      <3>3. SubSeq(ts, 1, n + 1) = a \o o
        <4>1. 1 \in 1..Len(ts) /\ n + 1 \in 1..Len(ts) /\ (n + 1) - 1 = n BY <1>1, <2>1
        <4> QED BY <4>1, SubSeqRecursiveSecond
      <3> HIDE DEF o, a
      <3>4. Times(a \o o, t) = Times(a, t) + Times(o, t) BY <3>1, <3>2, TimesConcat
      <3> QED BY <3>1, <3>3, <3>4 DEF a
    <2>7. ASSUME NEW k \in 1..Len(s), k <= index + 1 PROVE r1[k] = s[k]
      <3>1. k \in 1..Len(q) BY <1>1, <2>1, <2>4
      <3> QED BY <2>4, <2>5, <2>7, <3>1
    <2>8. Len(r1) = Len(s) + (n + 1) BY <1>1, <2>1, <2>4, <2>5
    <2>9. ASSUME NEW t PROVE Times(r1, t) = Times(s, t) + Times(SubSeq(ts, 1, n + 1), t)
      <3>1. SubSeq(ts, 1, n) \in Seq(Track)
        <4>1. \A k \in 1..n : ts[k] \in Track BY <1>1, <2>1
        <4> QED BY <2>1, <4>1, SubSeqProperties
      <3>2. Times(s, t) \in Nat /\ Times(SubSeq(ts, 1, n), t) \in Nat BY <3>1, TimesType
      <3>3. /\ Times(q, t) = Times(s, t) + Times(SubSeq(ts, 1, n), t)
            /\ Times(r1, t) = Times(q, t) + (IF ts[n + 1] = t THEN 1 ELSE 0)
        BY <2>4, <2>5
      <3>4. Times(SubSeq(ts, 1, n + 1), t) = Times(SubSeq(ts, 1, n), t) + (IF ts[n + 1] = t THEN 1 ELSE 0)
        BY <2>6
      <3> QED BY <3>2, <3>3, <3>4
    <2> QED BY <2>5, <2>7, <2>8, <2>9
  <1> HIDE DEF S
  <1>8. N \in S
    <2>1. S \in SUBSET Nat BY DEF S
    <2>2. S = Nat BY <1>6, <1>7, <2>1, SetInduction
    <2> QED BY <1>1, <2>2
  <1>9. Good(N, r) BY <1>1, <1>2, <1>8 DEF S
  <1> QED BY <1>9, SubSeqFull

-------------------------------------------------------------------------------
(* The operations on the store. *)

\* The entries of the original order are in the queue; al may be there besides.
Kept(p, al) ==
    p.original # None =>
        \A t \in Track : /\ Times(p.original, t) <= Times(p.queue, t)
                         /\ t \notin al => Times(p.original, t) = Times(p.queue, t)

\* q follows p: an index that pointed at the current track still does.
Follows(p, q) ==
    PointsAtCurrent(p) /\ q.current = p.current /\ p.current \in ToSet(q.queue) => PointsAtCurrent(q)

LEMMA StoreIs ==
    ASSUME NEW p \in Store
    PROVE  /\ p.queue \in Queues /\ p.queue \in Seq(Track) /\ Len(p.queue) \in Nat
           /\ DOMAIN p.queue = 1..Len(p.queue) /\ Len(p.queue) <= MaxQueue /\ p.index \in Int /\ p.index >= -1
           /\ p.original # None => p.original \in Queues /\ p.original \in Seq(Track)
           /\ p.current \in Track \cup {None}
  <1>1. /\ p.queue \in Queues /\ p.index \in -1..MaxQueue /\ p.original \in Queues \cup {None}
        /\ p.current \in Track \cup {None}
    BY DEF Store
  <1>2. p.index \in Int /\ p.index >= -1 BY <1>1, QueueConstants
  <1>3. p.queue \in Seq(Track) /\ Len(p.queue) <= MaxQueue BY <1>1, QueuesAre
  <1>4. Len(p.queue) \in Nat /\ DOMAIN p.queue = 1..Len(p.queue) BY <1>3, LenProperties
  <1> QED BY <1>1, <1>2, <1>3, <1>4, QueuesAre

\* The index is that of an entry of the current track.
LEMMA Points ==
    ASSUME NEW p \in Store
    PROVE  PointsAtCurrent(p) <=> /\ p.current # None /\ p.index \in 0..(Len(p.queue) - 1)
                                  /\ p.queue[p.index + 1] = p.current
  BY DEF PointsAtCurrent, At

LEMMA SelectedStore ==
    ASSUME NEW p \in Store, NEW i \in 0..MaxQueue
    PROVE  Selected(p, i) \in Store
  <1>1. At(p.queue, i) \in Track \cup {None}
    <2>1. i \in 0..(Len(p.queue) - 1) => i + 1 \in 1..Len(p.queue) BY StoreIs
    <2>2. i \in 0..(Len(p.queue) - 1) => p.queue[i + 1] \in Track BY <2>1, StoreIs, ElementOfSeq
    <2> QED BY <2>2 DEF At
  <1>2. i \in -1..MaxQueue BY QueueConstants
  <1> QED BY <1>1, <1>2 DEF Selected, Store

LEMMA SelectedGood ==
    ASSUME NEW p \in Store, NEW i \in 0..MaxQueue, NEW al, Kept(p, al)
    PROVE  Selected(p, i) \in Store /\ Kept(Selected(p, i), al) /\ Follows(p, Selected(p, i))
  <1> DEFINE q == Selected(p, i)
  <1>1. q \in Store BY SelectedStore
  <1>2. q.current = At(p.queue, i) /\ q.index = i /\ q.queue = p.queue /\ q.original = p.original
    BY DEF Selected, Store
  <1> HIDE DEF q
  <1>3. Kept(q, al) BY <1>2 DEF Kept
  <1>4. Follows(p, q) BY <1>2 DEF Follows, PointsAtCurrent
  <1> QED BY <1>1, <1>3, <1>4 DEF q

\* A change of flags.
LEMMA FlagsGood ==
    ASSUME NEW p \in Store, NEW q \in Store, NEW al, Kept(p, al),
           q.current = p.current, q.queue = p.queue, q.original = p.original, q.index = p.index
    PROVE  Kept(q, al) /\ Follows(p, q)
  BY DEF Kept, Follows, PointsAtCurrent

LEMMA AdvancedGood ==
    ASSUME NEW p \in Store, NEW al, Kept(p, al)
    PROVE  /\ Advanced(p) \in Store /\ Kept(Advanced(p), al) /\ Follows(p, Advanced(p))
           /\ Advanced(p).queue = p.queue /\ Advanced(p).repeat = p.repeat
  <1> DEFINE n == Len(p.queue)
             q == [p EXCEPT !.playing = FALSE]
  <1>1. n \in Nat /\ n <= MaxQueue /\ p.index \in Int /\ p.index >= -1 /\ MaxQueue \in Nat
    BY StoreIs, QueueConstants
  <1>2. q \in Store /\ q.current = p.current /\ q.queue = p.queue /\ q.original = p.original
        /\ q.index = p.index /\ q.repeat = p.repeat
    BY DEF Store
  <1>3. \A i : Selected(p, i).queue = p.queue /\ Selected(p, i).repeat = p.repeat BY DEF Selected, Store
  <1>4. CASE p.queue = <<>>
    <2>1. Advanced(p) = p BY <1>4 DEF Advanced
    <2> QED BY <2>1 DEF Follows
  <1>5. CASE p.queue # <<>> /\ p.index + 1 < n
    <2>1. Advanced(p) = Selected(p, p.index + 1) BY <1>5 DEF Advanced
    <2>2. p.index + 1 \in 0..MaxQueue BY <1>1, <1>5
    <2> QED BY <1>3, <2>1, <2>2, SelectedGood
  <1>6. CASE p.queue # <<>> /\ ~(p.index + 1 < n) /\ p.repeat = "all"
    <2>1. Advanced(p) = Selected(p, 0) BY <1>6 DEF Advanced
    <2>2. 0 \in 0..MaxQueue BY <1>1
    <2> QED BY <1>3, <2>1, <2>2, SelectedGood
  <1>7. CASE p.queue # <<>> /\ ~(p.index + 1 < n) /\ p.repeat # "all"
    <2>1. Advanced(p) = q BY <1>7 DEF Advanced
    <2> HIDE DEF q
    <2> QED BY <1>2, <2>1, FlagsGood
  <1> QED BY <1>4, <1>5, <1>6, <1>7

LEMMA RetreatedGood ==
    ASSUME NEW p \in Store, NEW al, Kept(p, al)
    PROVE  Retreated(p) \in Store /\ Kept(Retreated(p), al) /\ Follows(p, Retreated(p))
  <1> DEFINE i == IF p.index > 0 THEN p.index - 1 ELSE 0
  <1>1. p.index \in -1..MaxQueue BY DEF Store
  <1>2. i \in 0..MaxQueue BY <1>1, QueueConstants
  <1>3. Retreated(p) = Selected(p, i) BY DEF Retreated
  <1> HIDE DEF i
  <1> QED BY <1>2, <1>3, SelectedGood

\* A list that is played or replaced under shuffle: the current track comes first.
LEMMA ShuffledFromIs ==
    ASSUME NEW s \in Queues, NEW t \in ToSet(s), NEW r \in ShuffledFrom(s, FindIndex(s, t), t)
    PROVE  r \in Queues /\ r # <<>> /\ r[1] = t /\ \A u : Times(r, u) = Times(s, u)
  <1>1. s \in Seq(Track) /\ Len(s) \in Nat /\ Len(s) <= MaxQueue BY QueuesAre, LenProperties
  <1> DEFINE i == FindIndex(s, t) + 1
  <1>2. i \in 1..Len(s) /\ s[i] = t
    <2>1. FindIndex(s, t) \in 0..(Len(s) - 1) /\ s[FindIndex(s, t) + 1] = t BY <1>1, FindsFirst
    <2> QED BY <1>1, <2>1
  <1>3. t \in Track BY <1>1, <1>2, ElementOfSeq
  <1>4. PICK x \in Shuffled(RemoveAt(s, i)) : r = <<t>> \o x BY DEF ShuffledFrom
  <1> HIDE DEF i
  <1>5. /\ RemoveAt(s, i) \in Seq(Track) /\ Len(RemoveAt(s, i)) = Len(s) - 1
        /\ \A u : Times(RemoveAt(s, i), u) = Times(s, u) - (IF s[i] = u THEN 1 ELSE 0)
    BY <1>1, <1>2, RemoveAtIs
  <1>6. x \in Seq(Track) /\ Len(x) = Len(RemoveAt(s, i)) /\ \A u : Times(x, u) = Times(RemoveAt(s, i), u)
    BY <1>4, <1>5, ShuffledIs
  <1> DEFINE o == <<t>>
  <1>7. o \in Seq(Track) /\ Len(o) = 1 /\ o[1] = t /\ \A u : Times(o, u) = IF t = u THEN 1 ELSE 0
    BY <1>3, TimesOne
  <1>8. r = o \o x BY <1>4
  <1> HIDE DEF o
  <1>9. /\ r \in Seq(Track) /\ Len(r) = 1 + Len(x)
        /\ \A k \in 1..(1 + Len(x)) : r[k] = IF k <= 1 THEN o[k] ELSE x[k - 1]
    <2>1. /\ o \o x \in Seq(Track) /\ Len(o \o x) = Len(o) + Len(x)
          /\ \A k \in 1..(Len(o) + Len(x)) : (o \o x)[k] = IF k <= Len(o) THEN o[k] ELSE x[k - Len(o)]
      BY <1>6, <1>7, ConcatProperties
    <2> QED BY <1>7, <1>8, <2>1
  <1>10. Len(r) = Len(s) /\ Len(r) >= 1 BY <1>1, <1>2, <1>5, <1>6, <1>9
  <1>11. r \in Queues /\ r # <<>> BY <1>1, <1>9, <1>10, QueuesAre, EmptySeq
  <1>12. r[1] = t
    <2>1. 1 \in 1..(1 + Len(x)) BY <1>1, <1>5, <1>6, <1>2
    <2> QED BY <1>7, <1>9, <2>1
  <1>13. ASSUME NEW u PROVE Times(r, u) = Times(s, u)
    <2>1. Times(r, u) = Times(o, u) + Times(x, u) BY <1>6, <1>7, <1>8, TimesConcat
    <2>2. Times(s, u) \in Nat BY <1>1, TimesType
    <2> QED BY <1>2, <1>5, <1>6, <1>7, <2>1, <2>2
  <1> QED BY <1>11, <1>12, <1>13

LEMMA PlayedFromGood ==
    ASSUME NEW p \in Store, NEW list \in Queues, NEW t \in ToSet(list), NEW q \in PlayedFrom(p, t, list)
    PROVE  q \in Store /\ Kept(q, {}) /\ PointsAtCurrent(q)
  <1>1. list \in Seq(Track) /\ Len(list) \in Nat /\ Len(list) <= MaxQueue BY QueuesAre, LenProperties
  <1>2. FindIndex(list, t) \in 0..(Len(list) - 1) /\ list[FindIndex(list, t) + 1] = t
    BY <1>1, FindsFirst
  <1>3. t \in Track
    <2>1. FindIndex(list, t) + 1 \in 1..Len(list) BY <1>1, <1>2
    <2> QED BY <1>1, <1>2, <2>1, ElementOfSeq
  <1>4. t # None BY <1>3, QueueConstants
  <1>5. FindIndex(list, t) >= 0 BY <1>1, <1>2
  <1> DEFINE r == [p EXCEPT !.current = t, !.playing = TRUE]
             f == FindIndex(list, t)
  <1>6. CASE p.shuffle
    <2>1. PICK s \in ShuffledFrom(list, f, t) :
             q = [r EXCEPT !.queue = s, !.index = 0, !.original = list]
      BY <1>5, <1>6 DEF PlayedFrom
    <2>2. s \in Queues /\ s # <<>> /\ s[1] = t /\ \A u : Times(s, u) = Times(list, u)
      BY <2>1, ShuffledFromIs
    <2>3. 0 \in -1..MaxQueue BY QueueConstants
    <2>4. /\ q \in Store /\ q.current = t /\ q.queue = s /\ q.index = 0 /\ q.original = list
      BY <1>3, <2>1, <2>2, <2>3 DEF Store
    <2>5. Kept(q, {})
      <3>1. \A u : Times(list, u) \in Nat BY <1>1, TimesType
      <3> QED BY <2>2, <2>4, <3>1 DEF Kept
    <2>6. 0 \in 0..(Len(s) - 1)
      <3>1. s \in Seq(Track) BY <2>2, QueuesAre
      <3>2. Len(s) \in Nat \ {0} BY <2>2, <3>1, EmptySeq
      <3> QED BY <3>2
    <2>7. q.current # None /\ q.index \in 0..(Len(q.queue) - 1) /\ q.queue[q.index + 1] = q.current
      BY <1>4, <2>2, <2>4, <2>6
    <2> QED BY <2>4, <2>5, <2>7, Points
  <1>7. CASE ~p.shuffle
    <2>1. q = [r EXCEPT !.queue = list, !.index = f, !.original = None]
      BY <1>5, <1>7 DEF PlayedFrom
    <2>2. f \in -1..MaxQueue BY <1>1, <1>2, QueueConstants
    <2>3. /\ q \in Store /\ q.current = t /\ q.queue = list /\ q.index = f /\ q.original = None
      BY <1>3, <2>1, <2>2 DEF Store
    <2>4. Kept(q, {}) BY <2>3 DEF Kept
    <2>5. q.current # None /\ q.index \in 0..(Len(q.queue) - 1) /\ q.queue[q.index + 1] = q.current
      BY <1>2, <1>4, <2>3
    <2> QED BY <2>3, <2>4, <2>5, Points
  <1> QED BY <1>6, <1>7

LEMMA PlayedAloneGood ==
    ASSUME NEW p \in Store, NEW t \in Track, NEW al, Kept(p, al), Len(p.queue) < MaxQueue
    PROVE  LET q == PlayedAlone(p, t) IN
           /\ q \in Store /\ q.original = p.original /\ PointsAtCurrent(q) /\ Kept(q, al \cup {t})
  <1> DEFINE s == Append(p.queue, t)
             n == Len(p.queue)
             q == [p EXCEPT !.current = t, !.queue = s, !.index = n, !.playing = TRUE]
  <1>1. p.queue \in Seq(Track) /\ n \in Nat /\ MaxQueue \in Nat BY StoreIs, QueueConstants
  <1>2. s \in Seq(Track) /\ Len(s) = n + 1 /\ s[n + 1] = t BY <1>1, AppendProperties
  <1>3. \A u : Times(s, u) = Times(p.queue, u) + (IF t = u THEN 1 ELSE 0)
    <2> DEFINE o == <<t>>
    <2>1. o \in Seq(Track) /\ \A u : Times(o, u) = IF t = u THEN 1 ELSE 0 BY TimesOne
    <2>2. s = p.queue \o o BY <1>1, AppendIsConcat
    <2> HIDE DEF o, s
    <2>3. \A u : Times(p.queue \o o, u) = Times(p.queue, u) + Times(o, u) BY <1>1, <2>1, TimesConcat
    <2> QED BY <2>1, <2>2, <2>3
  <1>4. \A u : Times(p.queue, u) \in Nat BY <1>1, TimesType
  <1>5. PlayedAlone(p, t) = q BY DEF PlayedAlone, Store
  <1> HIDE DEF s, n
  <1>6. s \in Queues /\ n \in -1..MaxQueue BY <1>1, <1>2, QueuesAre DEF n
  <1>7. /\ q \in Store /\ q.current = t /\ q.queue = s /\ q.index = n /\ q.original = p.original
    BY <1>6 DEF Store
  <1> HIDE DEF q
  <1>8. PointsAtCurrent(q)
    <2>1. t # None BY QueueConstants
    <2>2. n \in 0..(Len(s) - 1) BY <1>1, <1>2
    <2> QED BY <1>2, <1>7, <2>1, <2>2, Points
  <1>9. Kept(q, al \cup {t})
    <2> SUFFICES ASSUME p.original # None, NEW u \in Track
                 PROVE  /\ Times(p.original, u) <= Times(s, u)
                        /\ u \notin al /\ u # t => Times(p.original, u) = Times(s, u)
      BY <1>7 DEF Kept
    <2>1. /\ Times(p.original, u) <= Times(p.queue, u)
          /\ u \notin al => Times(p.original, u) = Times(p.queue, u)
      BY DEF Kept
    <2>2. Times(p.original, u) \in Nat BY StoreIs, TimesType
    <2> QED BY <1>3, <1>4, <2>1, <2>2
  <1> QED BY <1>5, <1>7, <1>8, <1>9

\* Tracks that are put into the queue and at the end of the original order.
LEMMA GrownGood ==
    ASSUME NEW p \in Store, NEW al, Kept(p, al), NEW ts \in Seq(Track), NEW s \in Seq(Track),
           Len(s) <= MaxQueue, p.original # None => Len(p.original) + Len(ts) <= MaxQueue,
           \A u : Times(s, u) = Times(p.queue, u) + Times(ts, u),
           \A k \in 1..Len(p.queue) : k <= p.index + 1 => s[k] = p.queue[k],
           Len(p.queue) <= Len(s)
    PROVE  LET q == [p EXCEPT !.queue = s, !.original = WithTracks(p.original, ts)] IN
           /\ q \in Store /\ Kept(q, al) /\ q.current = p.current
           /\ PointsAtCurrent(p) => PointsAtCurrent(q)
  <1> DEFINE w == WithTracks(p.original, ts)
             q == [p EXCEPT !.queue = s, !.original = w]
  <1>1. Len(p.queue) \in Nat /\ p.index \in Int /\ Len(s) \in Nat BY StoreIs, LenProperties
  <1>2. p.original = None => w = None BY DEF WithTracks
  <1>3. p.original # None => /\ w \in Queues
                             /\ \A u : Times(w, u) = Times(p.original, u) + Times(ts, u)
    <2> SUFFICES ASSUME p.original # None
                 PROVE  /\ w \in Queues
                        /\ \A u : Times(w, u) = Times(p.original, u) + Times(ts, u)
      OBVIOUS
    <2>1. w = p.original \o ts BY DEF WithTracks
    <2>2. p.original \in Seq(Track) BY StoreIs
    <2>3. w \in Seq(Track) /\ Len(w) = Len(p.original) + Len(ts) BY <2>1, <2>2, ConcatProperties
    <2>4. \A u : Times(p.original \o ts, u) = Times(p.original, u) + Times(ts, u) BY <2>2, TimesConcat
    <2>5. w \in Queues BY <2>3, QueuesAre
    <2> QED BY <2>1, <2>4, <2>5
  <1>4. s \in Queues BY QueuesAre
  <1> HIDE DEF w
  <1>5. /\ q \in Store /\ q.current = p.current /\ q.queue = s /\ q.index = p.index /\ q.original = w
    BY <1>2, <1>3, <1>4 DEF Store
  <1> HIDE DEF q
  <1>6. Kept(q, al)
    <2> SUFFICES ASSUME w # None, NEW u \in Track
                 PROVE  /\ Times(w, u) <= Times(s, u)
                        /\ u \notin al => Times(w, u) = Times(s, u)
      BY <1>5 DEF Kept
    <2>1. p.original # None BY <1>2
    <2>2. /\ Times(p.original, u) <= Times(p.queue, u)
          /\ u \notin al => Times(p.original, u) = Times(p.queue, u)
      BY <2>1 DEF Kept
    <2>3. Times(p.original, u) \in Nat /\ Times(p.queue, u) \in Nat /\ Times(ts, u) \in Nat
      BY <2>1, StoreIs, TimesType
    <2> QED BY <1>3, <2>1, <2>2, <2>3
  <1>7. PointsAtCurrent(p) => PointsAtCurrent(q)
    <2> SUFFICES ASSUME PointsAtCurrent(p) PROVE PointsAtCurrent(q) OBVIOUS
    <2>1. p.current # None /\ p.index \in 0..(Len(p.queue) - 1) /\ p.queue[p.index + 1] = p.current BY Points
    <2>2. p.index + 1 \in 1..Len(p.queue) /\ p.index \in 0..(Len(s) - 1) BY <1>1, <2>1
    <2>3. s[p.index + 1] = p.current BY <1>1, <2>1, <2>2
    <2> QED BY <1>5, <2>1, <2>2, <2>3, Points
  <1> QED BY <1>5, <1>6, <1>7 DEF w, q

LEMMA AddedGood ==
    ASSUME NEW p \in Store, NEW al, Kept(p, al), NEW ts \in Seq(Track),
           Len(p.queue) + Len(ts) <= MaxQueue,
           p.original # None => Len(p.original) + Len(ts) <= MaxQueue, NEW q \in Added(p, ts)
    PROVE  /\ q \in Store /\ Kept(q, al) /\ q.current = p.current
           /\ PointsAtCurrent(p) => PointsAtCurrent(q)
  <1>1. /\ p.queue \in Seq(Track) /\ Len(p.queue) \in Nat /\ p.index \in Int /\ Len(ts) \in Nat
    BY StoreIs, LenProperties
  <1>2. PICK s : /\ s \in IF p.shuffle /\ p.index >= 0 THEN Scattered(p.queue, p.index, ts) ELSE {p.queue \o ts}
                 /\ q = [p EXCEPT !.queue = s, !.original = WithTracks(p.original, ts)]
    BY DEF Added
  <1>3. /\ s \in Seq(Track) /\ Len(s) = Len(p.queue) + Len(ts)
        /\ \A k \in 1..Len(p.queue) : k <= p.index + 1 => s[k] = p.queue[k]
        /\ \A u : Times(s, u) = Times(p.queue, u) + Times(ts, u)
    <2>1. CASE p.shuffle /\ p.index >= 0
      <3>1. p.index \in Nat /\ s \in Scattered(p.queue, p.index, ts) BY <1>1, <1>2, <2>1
      <3> QED BY <1>1, <3>1, ScatteredIs
    <2>2. CASE ~(p.shuffle /\ p.index >= 0)
      <3>1. s = p.queue \o ts BY <1>2, <2>2
      <3> DEFINE a == p.queue
      <3>2. a \in Seq(Track) BY <1>1
      <3> HIDE DEF a
      <3>3. /\ a \o ts \in Seq(Track) /\ Len(a \o ts) = Len(a) + Len(ts)
            /\ \A k \in 1..(Len(a) + Len(ts)) : (a \o ts)[k] = IF k <= Len(a) THEN a[k] ELSE ts[k - Len(a)]
            /\ \A u : Times(a \o ts, u) = Times(a, u) + Times(ts, u)
        BY <3>2, ConcatProperties, TimesConcat
      <3>4. \A k \in 1..Len(a) : (a \o ts)[k] = a[k]
        <4>1. \A k \in 1..Len(a) : k \in 1..(Len(a) + Len(ts)) /\ k <= Len(a) BY <1>1, <3>2, LenProperties
        <4> QED BY <3>3, <4>1
      <3> QED BY <3>1, <3>3, <3>4 DEF a
    <2> QED BY <2>1, <2>2
  <1>4. Len(s) <= MaxQueue /\ Len(p.queue) <= Len(s) BY <1>1, <1>3
  <1> QED BY <1>2, <1>3, <1>4, GrownGood

LEMMA AddedNextGood ==
    ASSUME NEW p \in Store, NEW al, Kept(p, al), NEW t \in Track, Len(p.queue) < MaxQueue,
           p.original # None => Len(p.original) < MaxQueue
    PROVE  LET q == AddedNext(p, <<t>>) IN
           /\ q \in Store /\ Kept(q, al) /\ q.current = p.current
           /\ PointsAtCurrent(p) => PointsAtCurrent(q)
  <1> DEFINE ts == <<t>>
  <1>1. ts \in Seq(Track) /\ Len(ts) = 1 BY TimesOne
  <1>2. AddedNext(p, ts) = [p EXCEPT !.queue = Spliced(p.queue, p.index + 1, ts),
                                     !.original = WithTracks(p.original, ts)]
    BY DEF AddedNext, Store
  <1> HIDE DEF ts
  <1> DEFINE s == Spliced(p.queue, p.index + 1, ts)
             i == p.index + 1
  <1>3. /\ p.queue \in Seq(Track) /\ Len(p.queue) \in Nat /\ i \in Nat /\ MaxQueue \in Nat
    BY StoreIs, QueueConstants
  <1>4. /\ s \in Seq(Track) /\ Len(s) = Len(p.queue) + 1
        /\ \A k \in 1..(Len(p.queue) + 1) :
              s[k] = IF k <= Place(p.queue, i) THEN p.queue[k]
                     ELSE IF k <= Place(p.queue, i) + 1 THEN ts[k - Place(p.queue, i)]
                     ELSE p.queue[k - 1]
        /\ \A u : Times(s, u) = Times(p.queue, u) + Times(ts, u)
    <2> HIDE DEF i
    <2>1. /\ Spliced(p.queue, i, ts) \in Seq(Track) /\ Len(Spliced(p.queue, i, ts)) = Len(p.queue) + Len(ts)
          /\ \A k \in 1..(Len(p.queue) + Len(ts)) :
                Spliced(p.queue, i, ts)[k] = IF k <= Place(p.queue, i) THEN p.queue[k]
                        ELSE IF k <= Place(p.queue, i) + Len(ts) THEN ts[k - Place(p.queue, i)]
                        ELSE p.queue[k - Len(ts)]
          /\ \A u : Times(Spliced(p.queue, i, ts), u) = Times(p.queue, u) + Times(ts, u)
      BY <1>1, <1>3, SplicedIs
    <2> QED BY <1>1, <2>1 DEF i
  <1>5. ASSUME NEW k \in 1..Len(p.queue), k <= i PROVE s[k] = p.queue[k]
    <2>1. k <= Place(p.queue, i) /\ k \in 1..(Len(p.queue) + 1) BY <1>3, <1>5 DEF Place
    <2> QED BY <1>4, <2>1
  <1>6. Len(s) <= MaxQueue /\ Len(p.queue) <= Len(s) BY <1>3, <1>4
  <1>7. p.original # None => Len(p.original) + Len(ts) <= MaxQueue
    <2>1. p.original # None => Len(p.original) \in Nat BY StoreIs, LenProperties
    <2> QED BY <1>1, <1>3, <2>1
  <1> HIDE DEF s
  <1>8. LET q == [p EXCEPT !.queue = s, !.original = WithTracks(p.original, ts)] IN
           /\ q \in Store /\ Kept(q, al) /\ q.current = p.current
           /\ PointsAtCurrent(p) => PointsAtCurrent(q)
    BY <1>1, <1>4, <1>5, <1>6, <1>7, GrownGood
  <1> QED BY <1>2, <1>8 DEF s, ts

\* A list without the first entry of a track, if it has one.
LEMMA RemoveFirstIs ==
    ASSUME NEW s \in Seq(Track), NEW x \in Track
    PROVE  /\ RemoveFirst(s, x) \in Seq(Track) /\ Len(RemoveFirst(s, x)) <= Len(s)
           /\ \A t : Times(RemoveFirst(s, x), t) =
                        IF t = x /\ x \in ToSet(s) THEN Times(s, t) - 1 ELSE Times(s, t)
  <1>1. Len(s) \in Nat /\ DOMAIN s = 1..Len(s) BY LenProperties
  <1>2. (\E i \in 1..Len(s) : s[i] = x) <=> x \in ToSet(s) BY <1>1 DEF ToSet
  <1>3. CASE x \in ToSet(s)
    <2> DEFINE i == FindIndex(s, x) + 1
    <2>1. FindIndex(s, x) \in 0..(Len(s) - 1) /\ s[i] = x BY <1>3, FindsFirst
    <2>2. i \in 1..Len(s) BY <1>1, <2>1
    <2>3. i = SelectInSeq(s, LAMBDA v : v = x)
      <3> DEFINE I == {k \in 1..Len(s) : s[k] = x}
      <3>1. FindIndex(s, x) = (IF I # {} THEN Min(I) ELSE 0) - 1 BY DEF FindIndex, SelectInSeq
      <3>2. SelectInSeq(s, LAMBDA v : v = x) = IF I # {} THEN Min(I) ELSE 0 BY DEF SelectInSeq
      <3>3. I # {} BY <2>1, <2>2
      <3>4. Min(I) \in I
        <4>1. I \in SUBSET Nat BY <1>1
        <4> HIDE DEF I
        <4> QED BY <3>3, <4>1, Minimum
      <3>5. Min(I) \in Nat BY <1>1, <3>4
      <3> HIDE DEF I
      <3> QED BY <3>1, <3>2, <3>3, <3>5
    <2>4. RemoveFirst(s, x) = RemoveAt(s, i) BY <1>2, <1>3, <2>3 DEF RemoveFirst
    <2> HIDE DEF i
    <2>5. /\ RemoveAt(s, i) \in Seq(Track) /\ Len(RemoveAt(s, i)) = Len(s) - 1
          /\ \A t : Times(RemoveAt(s, i), t) = Times(s, t) - (IF s[i] = t THEN 1 ELSE 0)
      BY <2>2, RemoveAtIs
    <2>6. \A t : Times(s, t) \in Nat BY TimesType
    <2> QED BY <1>1, <1>3, <2>1, <2>4, <2>5, <2>6
  <1>4. CASE x \notin ToSet(s)
    <2>1. RemoveFirst(s, x) = s BY <1>2, <1>4 DEF RemoveFirst
    <2> QED BY <1>1, <1>4, <2>1
  <1> QED BY <1>3, <1>4

LEMMA RemovedGood ==
    ASSUME NEW p \in Store, NEW al, Kept(p, al), NEW i \in (p.index + 1)..(Len(p.queue) - 1), i \in Nat
    PROVE  Removed(p, i) \in Store /\ Kept(Removed(p, i), al) /\ Follows(p, Removed(p, i))
  <1> DEFINE rest == RemoveAt(p.queue, i + 1)
             x == p.queue[i + 1]
             w == IF p.original = None THEN None ELSE RemoveFirst(p.original, x)
             q == [p EXCEPT !.queue = rest, !.index = p.index, !.original = w]
  <1>1. p.queue \in Seq(Track) /\ Len(p.queue) \in Nat /\ p.index \in Int /\ Len(p.queue) <= MaxQueue
    BY StoreIs
  <1>2. i + 1 \in 1..Len(p.queue) /\ p.index < i BY <1>1
  <1>3. x \in Track BY <1>1, <1>2, ElementOfSeq
  <1>4. /\ rest \in Seq(Track) /\ Len(rest) = Len(p.queue) - 1
        /\ \A k \in 1..(Len(p.queue) - 1) : rest[k] = IF k < i + 1 THEN p.queue[k] ELSE p.queue[k + 1]
        /\ \A t : Times(rest, t) = Times(p.queue, t) - (IF x = t THEN 1 ELSE 0)
    <2> DEFINE j == i + 1
    <2>1. j \in 1..Len(p.queue) BY <1>2
    <2> HIDE DEF j
    <2>2. /\ RemoveAt(p.queue, j) \in Seq(Track) /\ Len(RemoveAt(p.queue, j)) = Len(p.queue) - 1
          /\ \A k \in 1..(Len(p.queue) - 1) :
                RemoveAt(p.queue, j)[k] = IF k < j THEN p.queue[k] ELSE p.queue[k + 1]
          /\ \A t : Times(RemoveAt(p.queue, j), t) = Times(p.queue, t) - (IF p.queue[j] = t THEN 1 ELSE 0)
      BY <1>1, <2>1, RemoveAtIs
    <2> QED BY <2>2 DEF j
  <1>5. Removed(p, i) = q
    <2>1. ~(i < p.index) /\ i # p.index BY <1>1, <1>2
    <2> QED BY <2>1 DEF Removed, Store
  <1> HIDE DEF rest
  <1>6. rest \in Queues BY <1>1, <1>4, QueuesAre, QueueConstants
  <1>7. p.original # None => /\ w \in Queues
                             /\ \A t : Times(w, t) = IF t = x /\ x \in ToSet(p.original)
                                                     THEN Times(p.original, t) - 1 ELSE Times(p.original, t)
    <2> SUFFICES ASSUME p.original # None
                 PROVE  /\ w \in Queues
                        /\ \A t : Times(w, t) = IF t = x /\ x \in ToSet(p.original)
                                                THEN Times(p.original, t) - 1 ELSE Times(p.original, t)
      OBVIOUS
    <2>1. p.original \in Seq(Track) /\ Len(p.original) <= MaxQueue /\ MaxQueue \in Nat
      BY StoreIs, QueuesAre, QueueConstants
    <2>2. w = RemoveFirst(p.original, x) OBVIOUS
    <2> DEFINE o == p.original
               y == x
    <2>3. o \in Seq(Track) /\ y \in Track BY <1>3, <2>1
    <2> HIDE DEF o, y, w, x
    <2>4. /\ RemoveFirst(o, y) \in Seq(Track) /\ Len(RemoveFirst(o, y)) <= Len(o)
          /\ \A t : Times(RemoveFirst(o, y), t) =
                        IF t = y /\ y \in ToSet(o) THEN Times(o, t) - 1 ELSE Times(o, t)
      BY <2>3, RemoveFirstIs
    <2>5. Len(RemoveFirst(o, y)) \in Nat /\ Len(o) \in Nat BY <2>3, <2>4, LenProperties
    <2>6. Len(RemoveFirst(o, y)) <= MaxQueue BY <2>1, <2>4, <2>5 DEF o
    <2>7. RemoveFirst(o, y) \in Queues BY <2>4, <2>6, QueuesAre
    <2> QED BY <2>2, <2>4, <2>7 DEF o, y
  <1>8. p.original = None => w = None OBVIOUS
  <1> HIDE DEF w, x
  <1>9. q \in Store /\ q.current = p.current /\ q.queue = rest /\ q.index = p.index /\ q.original = w
    BY <1>6, <1>7, <1>8 DEF Store
  <1> HIDE DEF q
  <1>10. Kept(q, al)
    <2> SUFFICES ASSUME w # None, NEW t \in Track
                 PROVE  /\ Times(w, t) <= Times(rest, t)
                        /\ t \notin al => Times(w, t) = Times(rest, t)
      BY <1>9 DEF Kept
    <2>1. p.original # None BY <1>8
    <2>2. /\ Times(p.original, t) <= Times(p.queue, t)
          /\ t \notin al => Times(p.original, t) = Times(p.queue, t)
      BY <2>1 DEF Kept
    <2>3. /\ Times(p.original, t) \in Nat /\ Times(p.queue, t) \in Nat /\ Times(rest, t) \in Nat
          /\ Times(p.original, t) = 0 <=> t \notin ToSet(p.original)
      BY <1>4, <2>1, StoreIs, TimesType
    <2>4. Times(rest, t) = Times(p.queue, t) - (IF x = t THEN 1 ELSE 0) BY <1>4
    <2>5. Times(w, t) = IF t = x /\ x \in ToSet(p.original) THEN Times(p.original, t) - 1 ELSE Times(p.original, t)
      BY <1>7, <2>1
    <2> QED BY <2>2, <2>3, <2>4, <2>5
  <1>11. Follows(p, q)
    <2> SUFFICES ASSUME PointsAtCurrent(p) PROVE PointsAtCurrent(q) BY DEF Follows
    <2>1. p.current # None /\ p.index \in 0..(Len(p.queue) - 1) /\ p.queue[p.index + 1] = p.current BY Points
    <2>2. p.index + 1 \in 1..(Len(p.queue) - 1) /\ p.index + 1 < i + 1 /\ p.index \in 0..(Len(rest) - 1)
      BY <1>1, <1>2, <1>4, <2>1
    <2>3. rest[p.index + 1] = p.current BY <1>4, <2>1, <2>2
    <2> QED BY <1>9, <2>1, <2>2, <2>3, Points
  <1> QED BY <1>5, <1>9, <1>10, <1>11

LEMMA MovedGood ==
    ASSUME NEW p \in Store, NEW al, Kept(p, al), NEW from \in 0..(Len(p.queue) - 1),
           NEW to \in 0..(Len(p.queue) - 1), from # to
    PROVE  Moved(p, from, to) \in Store /\ Kept(Moved(p, from, to), al) /\ Follows(p, Moved(p, from, to))
  <1> DEFINE n == Len(p.queue)
             x == p.queue[from + 1]
             rest == RemoveAt(p.queue, from + 1)
             o == <<x>>
             s == Spliced(rest, to, o)
             c == p.index
             d == IF c = from THEN to
                  ELSE IF from < c /\ to >= c THEN c - 1
                  ELSE IF from > c /\ to <= c THEN c + 1
                  ELSE c
             q == [p EXCEPT !.queue = s, !.index = d]
  <1>1. /\ p.queue \in Seq(Track) /\ n \in Nat /\ c \in Int /\ c >= -1 /\ n <= MaxQueue /\ MaxQueue \in Nat
        /\ c \in -1..MaxQueue
    BY StoreIs, QueueConstants DEF Store
  <1>2. from + 1 \in 1..n /\ from \in Nat /\ to \in Nat BY <1>1
  <1>3. x \in Track BY <1>1, <1>2, ElementOfSeq
  <1>4. /\ rest \in Seq(Track) /\ Len(rest) = n - 1
        /\ \A k \in 1..(n - 1) : rest[k] = IF k < from + 1 THEN p.queue[k] ELSE p.queue[k + 1]
        /\ \A t : Times(rest, t) = Times(p.queue, t) - (IF x = t THEN 1 ELSE 0)
    <2> DEFINE j == from + 1
    <2>1. j \in 1..n BY <1>2
    <2> HIDE DEF j
    <2>2. /\ RemoveAt(p.queue, j) \in Seq(Track) /\ Len(RemoveAt(p.queue, j)) = n - 1
          /\ \A k \in 1..(n - 1) : RemoveAt(p.queue, j)[k] = IF k < j THEN p.queue[k] ELSE p.queue[k + 1]
          /\ \A t : Times(RemoveAt(p.queue, j), t) = Times(p.queue, t) - (IF p.queue[j] = t THEN 1 ELSE 0)
      BY <1>1, <2>1, RemoveAtIs
    <2> QED BY <2>2 DEF j
  <1>5. o \in Seq(Track) /\ Len(o) = 1 /\ o[1] = x /\ \A t : Times(o, t) = IF x = t THEN 1 ELSE 0
    BY <1>3, TimesOne
  <1>6. Moved(p, from, to) = q BY DEF Moved, Store
  <1> HIDE DEF rest, o, x
  <1>7. /\ s \in Seq(Track) /\ Len(s) = n
        /\ \A k \in 1..n : s[k] = IF k <= to THEN rest[k] ELSE IF k <= to + 1 THEN o[k - to] ELSE rest[k - 1]
        /\ \A t : Times(s, t) = Times(rest, t) + Times(o, t)
    <2>1. Place(rest, to) = to BY <1>1, <1>2, <1>4 DEF Place
    <2>2. /\ Spliced(rest, to, o) \in Seq(Track) /\ Len(Spliced(rest, to, o)) = Len(rest) + Len(o)
          /\ \A k \in 1..(Len(rest) + Len(o)) :
                Spliced(rest, to, o)[k] = IF k <= Place(rest, to) THEN rest[k]
                        ELSE IF k <= Place(rest, to) + Len(o) THEN o[k - Place(rest, to)]
                        ELSE rest[k - Len(o)]
          /\ \A t : Times(Spliced(rest, to, o), t) = Times(rest, t) + Times(o, t)
      BY <1>2, <1>4, <1>5, SplicedIs
    <2>3. Len(rest) + Len(o) = n BY <1>1, <1>4, <1>5
    <2> QED BY <1>5, <2>1, <2>2, <2>3
  <1> HIDE DEF s
  <1>8. s \in Queues BY <1>1, <1>7, QueuesAre
  <1>9. d \in -1..MaxQueue BY <1>1, <1>2, SMTT(30)
  <1>10. PointsAtCurrent(p) => d \in 0..(n - 1) /\ s[d + 1] = p.current
    <2> SUFFICES ASSUME PointsAtCurrent(p) PROVE d \in 0..(n - 1) /\ s[d + 1] = p.current OBVIOUS
    <2>1. c \in 0..(n - 1) /\ p.queue[c + 1] = p.current BY Points
    <2>2. d \in 0..(n - 1) BY <1>1, <2>1, SMTT(30)
    <2>3. CASE c = from
      <3>1. d = to /\ d + 1 \in 1..n /\ ~(d + 1 <= to) /\ d + 1 <= to + 1 /\ (d + 1) - to = 1 BY <1>1, <1>2, <2>3
      <3>2. s[d + 1] = o[1] BY <1>7, <3>1
      <3> QED BY <1>5, <2>1, <2>2, <2>3, <3>2 DEF x
    <2>4. CASE from < c
      <3>1. CASE to >= c
        <4>1. d = c - 1 /\ c \in 1..(n - 1) /\ c <= to BY <1>1, <1>2, <2>1, <2>4, <3>1
        <4>2. d + 1 = c /\ c \in 1..n /\ ~(c < from + 1) BY <1>1, <1>2, <2>4, <4>1
        <4>3. s[c] = rest[c] BY <1>7, <4>1, <4>2
        <4>4. rest[c] = p.queue[c + 1] BY <1>4, <4>1, <4>2
        <4> QED BY <2>1, <2>2, <4>2, <4>3, <4>4
      <3>2. CASE ~(to >= c)
        <4>1. d = c /\ c + 1 \in 1..n /\ ~(c + 1 <= to) /\ ~(c + 1 <= to + 1) /\ (c + 1) - 1 = c
          BY <1>1, <1>2, <2>1, <2>4, <3>2
        <4>2. c \in 1..(n - 1) /\ ~(c < from + 1) BY <1>1, <1>2, <2>1, <2>4
        <4>3. s[c + 1] = rest[c] BY <1>7, <4>1
        <4>4. rest[c] = p.queue[c + 1] BY <1>4, <4>2
        <4> QED BY <2>1, <2>2, <4>1, <4>3, <4>4
      <3> QED BY <3>1, <3>2
    <2>5. CASE from > c
      <3>1. c + 1 \in 1..(n - 1) /\ c + 1 < from + 1 BY <1>1, <1>2, <2>1, <2>5
      <3>2. rest[c + 1] = p.queue[c + 1] BY <1>4, <3>1
      <3>3. CASE to <= c
        <4>1. d = c + 1 /\ d + 1 \in 1..n /\ ~(d + 1 <= to) /\ ~(d + 1 <= to + 1) /\ (d + 1) - 1 = c + 1
          BY <1>1, <1>2, <2>1, <2>5, <3>3, SMTT(30)
        <4>2. s[d + 1] = rest[c + 1] BY <1>7, <4>1
        <4> QED BY <2>1, <2>2, <3>2, <4>2
      <3>4. CASE ~(to <= c)
        <4>1. d = c /\ c + 1 \in 1..n /\ c + 1 <= to BY <1>1, <1>2, <2>1, <2>5, <3>4
        <4>2. s[c + 1] = rest[c + 1] BY <1>7, <4>1
        <4> QED BY <2>1, <2>2, <3>2, <4>1, <4>2
      <3> QED BY <3>3, <3>4
    <2> QED BY <1>1, <1>2, <2>3, <2>4, <2>5
  <1> HIDE DEF d
  <1>11. q \in Store /\ q.current = p.current /\ q.queue = s /\ q.index = d /\ q.original = p.original
    BY <1>8, <1>9 DEF Store
  <1> HIDE DEF q
  <1>12. Kept(q, al)
    <2>1. \A t : Times(s, t) = Times(p.queue, t)
      <3> SUFFICES ASSUME NEW t PROVE Times(s, t) = Times(p.queue, t) OBVIOUS
      <3>1. Times(p.queue, t) \in Nat BY <1>1, TimesType
      <3> QED BY <1>4, <1>5, <1>7, <3>1
    <2> QED BY <1>11, <2>1 DEF Kept
  <1>13. Follows(p, q)
    <2> SUFFICES ASSUME PointsAtCurrent(p) PROVE PointsAtCurrent(q) BY DEF Follows
    <2>1. p.current # None BY Points
    <2> QED BY <1>7, <1>10, <1>11, <2>1, Points
  <1> QED BY <1>6, <1>11, <1>12, <1>13

LEMMA ReplacedGood ==
    ASSUME NEW p \in Store, NEW list \in Queues, NEW q \in Replaced(p, list)
    PROVE  q \in Store /\ Kept(q, {}) /\ Follows(p, q)
  <1>1. list \in Seq(Track) /\ Len(list) \in Nat /\ Len(list) <= MaxQueue BY QueuesAre, LenProperties
  <1> DEFINE f == FindIndex(list, p.current)
  <1>2. IF p.current \in ToSet(list) THEN f \in 0..(Len(list) - 1) /\ list[f + 1] = p.current ELSE f = -1
    BY <1>1, FindsFirst
  <1>3. p.current \in ToSet(list) <=> f >= 0 BY <1>1, <1>2
  <1>4. p.index \in -1..MaxQueue /\ MaxQueue \in Nat BY QueueConstants DEF Store
  <1>5. p.current \in ToSet(list) => p.current # None
    <2>1. ToSet(list) \subseteq Track BY <1>1, ElementOfSeq, LenProperties DEF ToSet
    <2> QED BY <2>1, QueueConstants
  <1>6. \A u : Times(list, u) \in Nat BY <1>1, TimesType
  <1>7. CASE p.shuffle /\ f >= 0
    <2>1. PICK s \in ShuffledFrom(list, f, p.current) :
             q = [p EXCEPT !.queue = s, !.index = 0, !.original = list]
      BY <1>7 DEF Replaced
    <2>2. s \in Queues /\ s # <<>> /\ s[1] = p.current /\ \A u : Times(s, u) = Times(list, u)
      <3> DEFINE t == p.current
      <3>1. t \in ToSet(list) /\ s \in ShuffledFrom(list, FindIndex(list, t), t) BY <1>3, <1>7, <2>1
      <3> HIDE DEF t
      <3>2. s \in Queues /\ s # <<>> /\ s[1] = t /\ \A u : Times(s, u) = Times(list, u)
        BY <3>1, ShuffledFromIs
      <3> QED BY <3>2 DEF t
    <2>3. 0 \in -1..MaxQueue BY <1>4
    <2>4. q \in Store /\ q.current = p.current /\ q.queue = s /\ q.index = 0 /\ q.original = list
      BY <2>1, <2>2, <2>3 DEF Store
    <2>5. Kept(q, {}) BY <1>6, <2>2, <2>4 DEF Kept
    <2>6. 0 \in 0..(Len(s) - 1)
      <3>1. s \in Seq(Track) BY <2>2, QueuesAre
      <3>2. Len(s) \in Nat \ {0} BY <2>2, <3>1, EmptySeq
      <3> QED BY <3>2
    <2>7. q.current # None /\ q.index \in 0..(Len(q.queue) - 1) /\ q.queue[q.index + 1] = q.current
      BY <1>3, <1>5, <1>7, <2>2, <2>4, <2>6
    <2>8. PointsAtCurrent(q) BY <2>4, <2>7, Points
    <2> QED BY <2>4, <2>5, <2>8 DEF Follows
  <1>8. CASE ~(p.shuffle /\ f >= 0)
    <2> DEFINE j == IF f >= 0 THEN f ELSE p.index
               w == IF p.shuffle THEN list ELSE None
    <2>1. q = [p EXCEPT !.queue = list, !.index = j, !.original = w] BY <1>8 DEF Replaced
    <2>2. j \in -1..MaxQueue BY <1>1, <1>2, <1>4
    <2>3. w \in Queues \cup {None} OBVIOUS
    <2>4. (f >= 0 => j = f) /\ w \in {list, None} OBVIOUS
    <2> HIDE DEF f, j, w
    <2>5. q \in Store /\ q.current = p.current /\ q.queue = list /\ q.index = j /\ q.original = w
      BY <2>1, <2>2, <2>3 DEF Store
    <2>6. Kept(q, {}) BY <1>6, <2>4, <2>5 DEF Kept
    <2>7. Follows(p, q)
      <3> SUFFICES ASSUME p.current \in ToSet(list) PROVE PointsAtCurrent(q) BY <2>5 DEF Follows
      <3>1. q.current # None /\ q.index \in 0..(Len(q.queue) - 1) /\ q.queue[q.index + 1] = q.current
        BY <1>2, <1>3, <1>5, <2>4, <2>5
      <3> QED BY <2>5, <3>1, Points
    <2> QED BY <2>5, <2>6, <2>7
  <1> QED BY <1>7, <1>8

LEMMA ShuffleOnGood ==
    ASSUME NEW p \in Store, NEW q \in ShuffleOn(p)
    PROVE  q \in Store /\ Kept(q, {}) /\ Follows(p, q)
  <1> DEFINE i == p.index + 1
             a == Taken(p.queue, i)
             b == Dropped(p.queue, i)
             m == Place(p.queue, i)
             n == Len(p.queue)
  <1>1. /\ p.queue \in Seq(Track) /\ n \in Nat /\ n <= MaxQueue /\ i \in Nat /\ p.index \in Int /\ p.queue \in Queues
    BY StoreIs
  <1>2. PICK s \in Shuffled(b) : q = [p EXCEPT !.shuffle = TRUE, !.original = p.queue, !.queue = a \o s]
    BY DEF ShuffleOn, Store
  <1> HIDE DEF i
  <1>3. /\ m \in 0..n /\ a \in Seq(Track) /\ Len(a) = m /\ \A k \in 1..m : a[k] = p.queue[k]
        /\ b \in Seq(Track) /\ Len(b) = n - m
        /\ \A t : Times(a, t) + Times(b, t) = Times(p.queue, t)
    BY <1>1, CutIs
  <1>4. m = IF i > n THEN n ELSE i BY DEF Place
  <1> HIDE DEF a, b, m
  <1>5. s \in Seq(Track) /\ Len(s) = Len(b) /\ \A t : Times(s, t) = Times(b, t) BY <1>3, ShuffledIs
  <1> DEFINE r == a \o s
  <1>6. /\ r \in Seq(Track) /\ Len(r) = m + (n - m)
        /\ \A k \in 1..(m + (n - m)) : r[k] = IF k <= m THEN a[k] ELSE s[k - m]
        /\ \A t : Times(r, t) = Times(a, t) + Times(s, t)
    <2>1. /\ a \o s \in Seq(Track) /\ Len(a \o s) = Len(a) + Len(s)
          /\ \A k \in 1..(Len(a) + Len(s)) : (a \o s)[k] = IF k <= Len(a) THEN a[k] ELSE s[k - Len(a)]
      BY <1>3, <1>5, ConcatProperties
    <2>2. \A t : Times(a \o s, t) = Times(a, t) + Times(s, t) BY <1>3, <1>5, TimesConcat
    <2> QED BY <1>3, <1>5, <2>1, <2>2
  <1>7. q = [p EXCEPT !.shuffle = TRUE, !.original = p.queue, !.queue = r] BY <1>2
  <1> HIDE DEF r
  <1>8. m + (n - m) = n BY <1>1, <1>3
  <1>9. r \in Queues BY <1>1, <1>6, <1>8, QueuesAre
  <1>10. q \in Store /\ q.current = p.current /\ q.queue = r /\ q.index = p.index /\ q.original = p.queue
    BY <1>1, <1>7, <1>9 DEF Store
  <1>11. \A t : Times(r, t) = Times(p.queue, t) BY <1>3, <1>5, <1>6
  <1>12. \A t : Times(p.queue, t) \in Nat BY <1>1, TimesType
  <1>13. Kept(q, {}) BY <1>10, <1>11, <1>12 DEF Kept
  <1>14. Follows(p, q)
    <2> SUFFICES ASSUME PointsAtCurrent(p) PROVE PointsAtCurrent(q) BY DEF Follows
    <2>1. p.current # None /\ p.index \in 0..(n - 1) /\ p.queue[p.index + 1] = p.current BY Points
    <2>2. i = p.index + 1 BY DEF i
    <2>3. i \in 1..m /\ i \in 1..(m + (n - m)) /\ i <= m BY <1>1, <1>4, <1>8, <2>1, <2>2
    <2>4. r[i] = p.current BY <1>3, <1>6, <2>1, <2>2, <2>3
    <2> QED BY <1>6, <1>8, <1>10, <2>1, <2>2, <2>4, Points
  <1> QED BY <1>10, <1>13, <1>14

LEMMA ShuffleOffGood ==
    ASSUME NEW p \in Store
    PROVE  ShuffleOff(p) \in Store /\ Kept(ShuffleOff(p), {}) /\ Follows(p, ShuffleOff(p))
  <1> DEFINE f == FindIndex(p.original, p.current)
             j == IF f >= 0 THEN f ELSE 0
             back == [p EXCEPT !.shuffle = FALSE, !.queue = p.original, !.original = None, !.index = j]
             plain == [p EXCEPT !.shuffle = FALSE, !.original = None]
  <1>1. CASE p.original # None /\ p.current # None
    <2>1. ShuffleOff(p) = back BY <1>1 DEF ShuffleOff, Store
    <2>2. p.original \in Queues /\ p.original \in Seq(Track) BY <1>1, StoreIs
    <2>3. Len(p.original) \in Nat /\ Len(p.original) <= MaxQueue /\ MaxQueue \in Nat
      BY <2>2, QueuesAre, LenProperties, QueueConstants
    <2>4. IF p.current \in ToSet(p.original)
          THEN f \in 0..(Len(p.original) - 1) /\ p.original[f + 1] = p.current ELSE f = -1
      BY <2>2, FindsFirst
    <2>5. j \in -1..MaxQueue /\ (p.current \in ToSet(p.original) => j = f) BY <2>3, <2>4
    <2> HIDE DEF f, j
    <2>6. back \in Store /\ back.current = p.current /\ back.queue = p.original /\ back.index = j
          /\ back.original = None
      BY <2>2, <2>5 DEF Store
    <2> HIDE DEF back
    <2>7. Kept(back, {}) BY <2>6 DEF Kept
    <2>8. Follows(p, back)
      <3> SUFFICES ASSUME p.current \in ToSet(p.original) PROVE PointsAtCurrent(back) BY <2>6 DEF Follows
      <3> QED BY <1>1, <2>4, <2>5, <2>6, Points
    <2> QED BY <2>1, <2>6, <2>7, <2>8
  <1>2. CASE ~(p.original # None /\ p.current # None)
    <2>1. ShuffleOff(p) = plain BY <1>2 DEF ShuffleOff
    <2>2. /\ plain \in Store /\ plain.current = p.current /\ plain.queue = p.queue
          /\ plain.index = p.index /\ plain.original = None
      BY DEF Store
    <2> HIDE DEF plain
    <2>3. Kept(plain, {}) BY <2>2 DEF Kept
    <2>4. Follows(p, plain) BY <2>2 DEF Follows, PointsAtCurrent
    <2> QED BY <2>1, <2>2, <2>3, <2>4
  <1> QED BY <1>1, <1>2

-------------------------------------------------------------------------------
(* The steps. *)

QueueInv == TypeOK /\ Kept(player, alone)
Stepped == QueueInv' /\ Follows(player, player')

\* A store with an original order recorded now, or none.
LEMMA Anew ==
    ASSUME NEW p, p \in Store, Kept(p, {}), Follows(player, p), BecomeAnew(p),
           expanding' \in BOOLEAN, asked' \in (SUBSET Track) \cup {None}
    PROVE  Stepped
  <1>1. player' = p /\ alone' = {} BY DEF BecomeAnew
  <1>2. alone' \in SUBSET Track BY <1>1
  <1>3. TypeOK' BY <1>1, <1>2 DEF TypeOK
  <1>4. Kept(player, alone)' BY <1>1 DEF Kept
  <1> QED BY <1>1, <1>3, <1>4 DEF Stepped, QueueInv, Follows, PointsAtCurrent

\* A store with the original order there was, if it has one.
LEMMA Becomes ==
    ASSUME QueueInv, NEW p, p \in Store, Kept(p, alone), Follows(player, p), Become(p),
           expanding' \in BOOLEAN, asked' \in (SUBSET Track) \cup {None}
    PROVE  Stepped
  <1>1. player' = p /\ alone' = IF p.original = None THEN {} ELSE alone BY DEF Become
  <1>2. alone' \in SUBSET Track BY <1>1 DEF QueueInv, TypeOK
  <1>3. TypeOK' BY <1>1, <1>2 DEF TypeOK
  <1>4. Kept(player, alone)' BY <1>1 DEF Kept
  <1> QED BY <1>1, <1>3, <1>4 DEF Stepped, QueueInv, Follows, PointsAtCurrent

LEMMA Rest ==
    ASSUME QueueInv
    PROVE  /\ player \in Store /\ Kept(player, alone)
           /\ expanding \in BOOLEAN /\ asked \in (SUBSET Track) \cup {None} /\ alone \in SUBSET Track
           /\ UNCHANGED expanding => expanding' \in BOOLEAN
           /\ UNCHANGED asked => asked' \in (SUBSET Track) \cup {None}
  BY DEF QueueInv, TypeOK

LEMMA ListsAreQueues == Lists \subseteq Queues
  <1> SUFFICES ASSUME NEW s \in Lists PROVE s \in Queues OBVIOUS
  <1>1. PICK m \in 0..MaxGiven : s \in [1..m -> Track] BY DEF Lists, SeqOf
  <1>2. m \in 0..MaxQueue BY QueueConstants
  <1> QED BY <1>1, <1>2 DEF Queues, SeqOf

LEMMA PlayStep ==
    ASSUME QueueInv, NEW t \in Track, NEW list \in Lists, NEW fromLikes \in BOOLEAN, Play(t, list, fromLikes)
    PROVE  Stepped
  <1>1. PICK p \in PlayedFrom(player, t, list) : BecomeAnew(p) BY DEF Play
  <1>2. list \in Queues /\ t \in ToSet(list) BY ListsAreQueues DEF Play
  <1>3. p \in Store /\ Kept(p, {}) /\ PointsAtCurrent(p) BY <1>1, <1>2, Rest, PlayedFromGood
  <1>4. Follows(player, p) BY <1>3 DEF Follows
  <1>5. expanding' \in BOOLEAN
    <2>1. expanding' = (expanding \/ fromLikes) BY DEF Play
    <2> QED BY <2>1
  <1>6. asked' \in (SUBSET Track) \cup {None} BY Rest DEF Play
  <1> QED BY <1>1, <1>3, <1>4, <1>5, <1>6, Anew

LEMMA ShuffleLikesStep ==
    ASSUME QueueInv, NEW t \in Track, NEW list \in Lists, ShuffleLikes(t, list)
    PROVE  Stepped
  <1> DEFINE q == [player EXCEPT !.shuffle = TRUE]
  <1>1. PICK p \in PlayedFrom(q, t, list) : BecomeAnew(p) BY DEF ShuffleLikes
  <1>2. list \in Queues /\ t \in ToSet(list) BY ListsAreQueues DEF ShuffleLikes
  <1>3. q \in Store BY Rest DEF Store
  <1> HIDE DEF q
  <1>4. p \in Store /\ Kept(p, {}) /\ PointsAtCurrent(p) BY <1>1, <1>2, <1>3, PlayedFromGood
  <1>5. Follows(player, p) BY <1>4 DEF Follows
  <1>6. expanding' \in BOOLEAN /\ asked' \in (SUBSET Track) \cup {None} BY Rest DEF ShuffleLikes
  <1> QED BY <1>1, <1>4, <1>5, <1>6, Anew

LEMMA PlayAloneStep ==
    ASSUME QueueInv, NEW t \in Track, PlayAlone(t)
    PROVE  Stepped
  <1> DEFINE q == PlayedAlone(player, t)
  <1>1. /\ player' = q /\ alone' = IF player.original = None THEN {} ELSE alone \cup {t}
        /\ Len(player.queue) < MaxQueue /\ UNCHANGED <<expanding, asked>>
    BY DEF PlayAlone
  <1>2. q \in Store /\ q.original = player.original /\ PointsAtCurrent(q) /\ Kept(q, alone \cup {t})
    BY <1>1, Rest, PlayedAloneGood
  <1> HIDE DEF q
  <1>3. alone' \in SUBSET Track BY <1>1, Rest
  <1>4. expanding' \in BOOLEAN /\ asked' \in (SUBSET Track) \cup {None} BY <1>1, Rest
  <1>5. TypeOK' BY <1>1, <1>2, <1>3, <1>4 DEF TypeOK
  <1>6. Kept(player, alone)' BY <1>1, <1>2 DEF Kept
  <1>7. Follows(player, player') BY <1>1, <1>2 DEF Follows
  <1> QED BY <1>5, <1>6, <1>7 DEF Stepped, QueueInv

\* The operations that leave a store of their own, with the requests as they are.
LEMMA Plain ==
    ASSUME QueueInv, NEW p, p \in Store /\ Kept(p, alone) /\ Follows(player, p), Become(p),
           UNCHANGED <<expanding, asked>>
    PROVE  Stepped
  <1>1. expanding' \in BOOLEAN /\ asked' \in (SUBSET Track) \cup {None} BY Rest
  <1> QED BY <1>1, Becomes

LEMMA FlagsKept ==
    ASSUME QueueInv, NEW p, p \in Store, p.current = player.current, p.queue = player.queue,
           p.original = player.original, p.index = player.index
    PROVE  p \in Store /\ Kept(p, alone) /\ Follows(player, p)
  BY Rest, FlagsGood

LEMMA RowSteps ==
    ASSUME QueueInv, NEW i \in 0..(MaxQueue - 1), PlayFromQueue(i) \/ RemoveFromQueue(i)
    PROVE  Stepped
  <1>1. /\ i \in (player.index + 1)..(Len(player.queue) - 1) /\ i \in Nat /\ i \in 0..MaxQueue
        /\ UNCHANGED <<expanding, asked>>
    BY QueueConstants DEF PlayFromQueue, RemoveFromQueue, Rows
  <1>2. CASE PlayFromQueue(i)
    <2> DEFINE q == Selected(player, i)
    <2>1. Become(q) BY <1>2 DEF PlayFromQueue
    <2>2. q \in Store /\ Kept(q, alone) /\ Follows(player, q) BY <1>1, Rest, SelectedGood
    <2> HIDE DEF q
    <2> QED BY <1>1, <2>1, <2>2, Plain
  <1>3. CASE RemoveFromQueue(i)
    <2> DEFINE q == Removed(player, i)
    <2>1. Become(q) BY <1>3 DEF RemoveFromQueue
    <2>2. q \in Store /\ Kept(q, alone) /\ Follows(player, q) BY <1>1, Rest, RemovedGood
    <2> HIDE DEF q
    <2> QED BY <1>1, <2>1, <2>2, Plain
  <1> QED BY <1>2, <1>3

LEMMA MoveStep ==
    ASSUME QueueInv, NEW from, NEW to, MoveInQueue(from, to)
    PROVE  Stepped
  <1> DEFINE q == Moved(player, from, to)
  <1>1. /\ from \in 0..(Len(player.queue) - 1) /\ to \in 0..(Len(player.queue) - 1) /\ from # to
        /\ Become(q) /\ UNCHANGED <<expanding, asked>>
    BY DEF MoveInQueue
  <1>2. q \in Store /\ Kept(q, alone) /\ Follows(player, q) BY <1>1, Rest, MovedGood
  <1> HIDE DEF q
  <1> QED BY <1>1, <1>2, Plain

LEMMA QueueNextStep ==
    ASSUME QueueInv, NEW t \in Track, QueueNext(t)
    PROVE  Stepped
  <1> DEFINE q == AddedNext(player, <<t>>)
  <1>1. /\ Len(player.queue) < MaxQueue
        /\ player.original # None => Len(player.original) < MaxQueue
        /\ Become(q) /\ UNCHANGED <<expanding, asked>>
    BY DEF QueueNext
  <1>2. q \in Store /\ Kept(q, alone) /\ q.current = player.current
        /\ (PointsAtCurrent(player) => PointsAtCurrent(q)) BY <1>1, Rest, AddedNextGood
  <1> HIDE DEF q
  <1>3. Follows(player, q) BY <1>2 DEF Follows
  <1> QED BY <1>1, <1>2, <1>3, Plain

LEMMA ClearStep ==
    ASSUME QueueInv, ClearQueue
    PROVE  Stepped
  <1> DEFINE q == [player EXCEPT !.queue = <<>>, !.index = -1, !.original = None]
  <1>1. Become(q) /\ UNCHANGED <<expanding, asked>> BY DEF ClearQueue
  <1>2. <<>> \in Queues
    <2> DEFINE e == <<>>
    <2>1. e \in Seq(Track) /\ Len(e) = 0 BY EmptySeq
    <2> HIDE DEF e
    <2>2. Len(e) <= MaxQueue BY <2>1, QueueConstants
    <2>3. e \in Queues BY <2>1, <2>2, QueuesAre
    <2> QED BY <2>3 DEF e
  <1>3. -1 \in -1..MaxQueue BY QueueConstants
  <1>4. q \in Store /\ q.queue = <<>> /\ q.original = None BY <1>2, <1>3, Rest DEF Store
  <1> HIDE DEF q
  <1>5. Kept(q, alone) BY <1>4 DEF Kept
  <1>6. Follows(player, q)
    <2>1. player.current \notin ToSet(<<>>) BY DEF ToSet
    <2> QED BY <1>4, <2>1 DEF Follows
  <1> QED BY <1>1, <1>4, <1>5, <1>6, Plain

LEMMA SkipPrevSteps ==
    ASSUME QueueInv, Skip \/ Prev
    PROVE  Stepped
  <1>1. CASE Skip
    <2> DEFINE q == Advanced(player)
    <2>1. Become(q) /\ UNCHANGED <<expanding, asked>> BY <1>1 DEF Skip
    <2>2. q \in Store /\ Kept(q, alone) /\ Follows(player, q) BY Rest, AdvancedGood
    <2> HIDE DEF q
    <2> QED BY <2>1, <2>2, Plain
  <1>2. CASE Prev
    <2> DEFINE q == Retreated(player)
    <2>1. Become(q) /\ UNCHANGED <<expanding, asked>> BY <1>2 DEF Prev
    <2>2. q \in Store /\ Kept(q, alone) /\ Follows(player, q) BY Rest, RetreatedGood
    <2> HIDE DEF q
    <2> QED BY <2>1, <2>2, Plain
  <1> QED BY <1>1, <1>2

LEMMA ToggleShuffleStep ==
    ASSUME QueueInv, ToggleShuffle
    PROVE  Stepped
  <1>1. expanding' \in BOOLEAN /\ asked' \in (SUBSET Track) \cup {None} BY Rest DEF ToggleShuffle
  <1>2. CASE player.shuffle
    <2> DEFINE q == ShuffleOff(player)
    <2>1. BecomeAnew(q) BY <1>2 DEF ToggleShuffle
    <2>2. q \in Store /\ Kept(q, {}) /\ Follows(player, q) BY Rest, ShuffleOffGood
    <2> HIDE DEF q
    <2> QED BY <1>1, <2>1, <2>2, Anew
  <1>3. CASE ~player.shuffle
    <2>1. PICK q \in ShuffleOn(player) : BecomeAnew(q) BY <1>3 DEF ToggleShuffle
    <2>2. q \in Store /\ Kept(q, {}) /\ Follows(player, q) BY Rest, ShuffleOnGood
    <2> QED BY <1>1, <2>1, <2>2, Anew
  <1> QED BY <1>2, <1>3

LEMMA ToggleRepeatStep ==
    ASSUME QueueInv, ToggleRepeat
    PROVE  Stepped
  <1> DEFINE r == CASE player.repeat = "off" -> "all"
                    [] player.repeat = "all" -> "one"
                    [] player.repeat = "one" -> "off"
             q == [player EXCEPT !.repeat = r]
  <1>1. Become(q) /\ UNCHANGED <<expanding, asked>> BY DEF ToggleRepeat
  <1>2. r \in {"off", "one", "all"}
    <2>1. player.repeat \in {"off", "one", "all"} BY Rest DEF Store
    <2> QED BY <2>1
  <1> HIDE DEF r
  <1>3. /\ q \in Store /\ q.current = player.current /\ q.queue = player.queue
        /\ q.original = player.original /\ q.index = player.index
    BY <1>2, Rest DEF Store
  <1> HIDE DEF q
  <1>4. q \in Store /\ Kept(q, alone) /\ Follows(player, q) BY <1>3, FlagsKept
  <1> QED BY <1>1, <1>4, Plain

LEMMA PausedKept ==
    ASSUME QueueInv, NEW on \in BOOLEAN
    PROVE  LET q == [player EXCEPT !.playing = on]
           IN  q \in Store /\ Kept(q, alone) /\ Follows(player, q)
  <1> DEFINE q == [player EXCEPT !.playing = on]
  <1>1. /\ q \in Store /\ q.current = player.current /\ q.queue = player.queue
        /\ q.original = player.original /\ q.index = player.index
    BY Rest DEF Store
  <1> HIDE DEF q
  <1>2. q \in Store /\ Kept(q, alone) /\ Follows(player, q) BY <1>1, FlagsKept
  <1> QED BY <1>2 DEF q

LEMMA SetPlayingStep ==
    ASSUME QueueInv, NEW on \in BOOLEAN, SetPlaying(on)
    PROVE  Stepped
  <1> DEFINE q == [player EXCEPT !.playing = on]
  <1>1. Become(q) /\ UNCHANGED <<expanding, asked>> BY DEF SetPlaying
  <1>2. q \in Store /\ Kept(q, alone) /\ Follows(player, q) BY PausedKept
  <1> HIDE DEF q
  <1> QED BY <1>1, <1>2, Plain

LEMMA SameStepped ==
    ASSUME QueueInv, UNCHANGED <<player, alone>>,
           expanding' \in BOOLEAN, asked' \in (SUBSET Track) \cup {None}
    PROVE  Stepped
  <1>1. TypeOK' BY Rest DEF TypeOK
  <1>2. Kept(player, alone)' BY Rest DEF Kept
  <1>3. Follows(player, player') BY DEF Follows
  <1> QED BY <1>1, <1>2, <1>3 DEF Stepped, QueueInv

LEMMA TrackEndedStep ==
    ASSUME QueueInv, TrackEnded
    PROVE  Stepped
  <1>1. expanding' \in BOOLEAN BY Rest DEF TrackEnded
  <1>2. CASE UNCHANGED <<player, alone, asked>> BY <1>1, <1>2, Rest, SameStepped
  <1>3. CASE asked' = ToSet(player.queue) /\ UNCHANGED <<player, alone>>
    <2>1. ToSet(player.queue) \in SUBSET Track
      <3>1. player.queue \in Seq(Track) BY Rest, StoreIs
      <3> QED BY <3>1, ElementOfSeq, LenProperties DEF ToSet
    <2> QED BY <1>1, <1>3, <2>1, SameStepped
  <1>4. CASE Become([player EXCEPT !.playing = FALSE]) /\ UNCHANGED asked
    <2> DEFINE q == [player EXCEPT !.playing = FALSE]
    <2>1. q \in Store /\ Kept(q, alone) /\ Follows(player, q) BY PausedKept
    <2>2. Become(q) /\ asked' \in (SUBSET Track) \cup {None} BY <1>4, Rest
    <2> HIDE DEF q
    <2> QED BY <1>1, <2>1, <2>2, Becomes
  <1>5. CASE Become(Advanced(player)) /\ UNCHANGED asked
    <2> DEFINE q == Advanced(player)
    <2>1. q \in Store /\ Kept(q, alone) /\ Follows(player, q) BY Rest, AdvancedGood
    <2>2. Become(q) /\ asked' \in (SUBSET Track) \cup {None} BY <1>5, Rest
    <2> HIDE DEF q
    <2> QED BY <1>1, <2>1, <2>2, Becomes
  <1> QED BY <1>2, <1>3, <1>4, <1>5 DEF TrackEnded

\* What leaves room for a list keeps the queue and the original order in their bound.
LEMMA GrowthStep ==
    ASSUME QueueInv, NEW fresh \in Lists, RoomFor(Len(fresh)), NEW p \in Added(player, fresh)
    PROVE  /\ p \in Store /\ Kept(p, alone) /\ p.current = player.current
           /\ PointsAtCurrent(player) => PointsAtCurrent(p)
  <1>1. fresh \in Seq(Track) BY ListsAreQueues, QueuesAre
  <1>2. /\ Len(player.queue) + Len(fresh) <= MaxQueue
        /\ player.original # None => Len(player.original) + Len(fresh) <= MaxQueue
    BY DEF RoomFor
  <1>3. player \in Store /\ Kept(player, alone) BY Rest
  <1> QED BY <1>1, <1>2, <1>3, AddedGood

LEMMA AutoplayAnswerStep ==
    ASSUME QueueInv, NEW fresh \in Lists, AutoplayAnswer(fresh)
    PROVE  Stepped
  <1>1. expanding' \in BOOLEAN /\ asked' \in (SUBSET Track) \cup {None} BY Rest DEF AutoplayAnswer
  <1>2. CASE fresh = <<>>
    <2> DEFINE q == [player EXCEPT !.playing = FALSE]
    <2>1. q \in Store /\ Kept(q, alone) /\ Follows(player, q) BY PausedKept
    <2>2. Become(q) BY <1>2 DEF AutoplayAnswer
    <2> HIDE DEF q
    <2> QED BY <1>1, <2>1, <2>2, Becomes
  <1>3. CASE fresh # <<>>
    <2>1. PICK p \in Added(player, fresh) : Become(Advanced(p)) BY <1>3 DEF AutoplayAnswer
    <2>2. RoomFor(Len(fresh)) BY DEF AutoplayAnswer
    <2>3. /\ p \in Store /\ Kept(p, alone) /\ p.current = player.current
          /\ PointsAtCurrent(player) => PointsAtCurrent(p)
      BY <2>1, <2>2, GrowthStep
    <2> DEFINE q == Advanced(p)
    <2>4. q \in Store /\ Kept(q, alone) /\ Follows(p, q) /\ q.queue = p.queue BY <2>3, AdvancedGood
    <2>5. Become(q) BY <2>1
    <2> HIDE DEF q
    <2>6. Follows(player, q) BY <2>3, <2>4 DEF Follows
    <2> QED BY <1>1, <2>4, <2>5, <2>6, Becomes
  <1> QED BY <1>2, <1>3

LEMMA WaveRefillStep ==
    ASSUME QueueInv, NEW fresh \in Lists, WaveRefill(fresh)
    PROVE  Stepped
  <1>1. PICK p \in Added(player, fresh) : Become(p) BY DEF WaveRefill
  <1>2. RoomFor(Len(fresh)) /\ UNCHANGED <<expanding, asked>> BY DEF WaveRefill
  <1>3. /\ p \in Store /\ Kept(p, alone) /\ p.current = player.current
        /\ PointsAtCurrent(player) => PointsAtCurrent(p)
    BY <1>1, <1>2, GrowthStep
  <1>4. Follows(player, p) BY <1>3 DEF Follows
  <1> QED BY <1>1, <1>2, <1>3, <1>4, Plain

LEMMA ExpandAnswerStep ==
    ASSUME QueueInv, NEW list \in Lists, ExpandAnswer(list)
    PROVE  Stepped
  <1>1. PICK p \in Replaced(player, list) : BecomeAnew(p) BY DEF ExpandAnswer
  <1>2. list \in Queues BY ListsAreQueues
  <1>3. p \in Store /\ Kept(p, {}) /\ Follows(player, p) BY <1>1, <1>2, Rest, ReplacedGood
  <1>4. expanding' \in BOOLEAN /\ asked' \in (SUBSET Track) \cup {None} BY Rest DEF ExpandAnswer
  <1> QED BY <1>1, <1>3, <1>4, Anew

LEMMA RestartStep ==
    ASSUME QueueInv, Restart
    PROVE  Stepped
  <1> DEFINE q == [player EXCEPT !.playing = FALSE]
  <1>1. q \in Store /\ Kept(q, alone) /\ Follows(player, q) BY PausedKept
  <1>2. Become(q) /\ expanding' \in BOOLEAN /\ asked' \in (SUBSET Track) \cup {None} BY DEF Restart
  <1> HIDE DEF q
  <1> QED BY <1>1, <1>2, Becomes

LEMMA QueueInit == Init => QueueInv
  <1> SUFFICES ASSUME Init PROVE QueueInv OBVIOUS
  <1>1. <<>> \in Queues
    <2> DEFINE e == <<>>
    <2>1. e \in Seq(Track) /\ Len(e) = 0 BY EmptySeq
    <2> HIDE DEF e
    <2>2. Len(e) <= MaxQueue BY <2>1, QueueConstants
    <2>3. e \in Queues BY <2>1, <2>2, QueuesAre
    <2> QED BY <2>3 DEF e
  <1>2. -1 \in -1..MaxQueue BY QueueConstants
  <1>3. player \in Store /\ player.original = None BY <1>1, <1>2 DEF Init, Store
  <1>4. TypeOK BY <1>3 DEF Init, TypeOK
  <1> QED BY <1>3, <1>4 DEF QueueInv, Kept

LEMMA QueueNextInv == QueueInv /\ [Next]_vars => Stepped
  <1> SUFFICES ASSUME QueueInv, [Next]_vars PROVE Stepped OBVIOUS
  <1>1. ASSUME NEW t \in Track, NEW list \in Lists, NEW fromLikes \in BOOLEAN, Play(t, list, fromLikes)
        PROVE  Stepped
    BY <1>1, PlayStep
  <1>2. ASSUME NEW t \in Track, NEW list \in Lists, ShuffleLikes(t, list) PROVE Stepped
    BY <1>2, ShuffleLikesStep
  <1>3. ASSUME NEW t \in Track, PlayAlone(t) \/ QueueNext(t) PROVE Stepped
    BY <1>3, PlayAloneStep, QueueNextStep
  <1>4. ASSUME NEW i \in 0..(MaxQueue - 1), PlayFromQueue(i) \/ RemoveFromQueue(i) PROVE Stepped
    BY <1>4, RowSteps
  <1>5. ASSUME NEW i \in 0..(MaxQueue - 1), NEW to \in 0..(MaxQueue - 1), MoveInQueue(i, to) PROVE Stepped
    BY <1>5, MoveStep
  <1>6. ASSUME NEW list \in Lists, AutoplayAnswer(list) \/ WaveRefill(list) \/ ExpandAnswer(list)
        PROVE  Stepped
    BY <1>6, AutoplayAnswerStep, WaveRefillStep, ExpandAnswerStep
  <1>7. CASE ClearQueue \/ Skip \/ Prev \/ ToggleShuffle \/ ToggleRepeat
    BY <1>7, ClearStep, SkipPrevSteps, ToggleShuffleStep, ToggleRepeatStep
  <1>8. ASSUME NEW on \in BOOLEAN, SetPlaying(on) PROVE Stepped BY <1>8, SetPlayingStep
  <1>9. CASE TogglePlay
    <2> DEFINE on == ~player.playing
    <2>1. on \in BOOLEAN OBVIOUS
    <2>2. SetPlaying(on) BY <1>9 DEF TogglePlay
    <2> HIDE DEF on
    <2> QED BY <2>1, <2>2, SetPlayingStep
  <1>10. CASE TrackEnded BY <1>10, TrackEndedStep
  <1>11. CASE ExpandFails
    <2>1. /\ UNCHANGED <<player, alone>> /\ expanding' \in BOOLEAN
          /\ asked' \in (SUBSET Track) \cup {None}
      BY <1>11, Rest DEF ExpandFails
    <2> QED BY <2>1, SameStepped
  <1>12. CASE Restart BY <1>12, RestartStep
  <1>13. CASE UNCHANGED vars
    <2>1. /\ UNCHANGED <<player, alone>> /\ expanding' \in BOOLEAN
          /\ asked' \in (SUBSET Track) \cup {None}
      BY <1>13, Rest DEF vars
    <2> QED BY <2>1, SameStepped
  <1> QED
    BY <1>1, <1>2, <1>3, <1>4, <1>5, <1>6, <1>7, <1>8, <1>9, <1>10, <1>11, <1>12, <1>13 DEF Next

-------------------------------------------------------------------------------
(* Under repeat "all" next() goes round.                                       *)

LEMMA Turns ==
    ASSUME NEW p \in Store, p.queue # <<>>, p.repeat = "all"
    PROVE  LET i == IF p.index + 1 < Len(p.queue) THEN p.index + 1 ELSE 0 IN
           /\ Advanced(p) \in Store /\ Advanced(p).queue = p.queue /\ Advanced(p).repeat = "all"
           /\ Advanced(p).index = i /\ Advanced(p).current = At(p.queue, i)
  <1> DEFINE i == IF p.index + 1 < Len(p.queue) THEN p.index + 1 ELSE 0
  <1>1. Advanced(p) = Selected(p, i) BY DEF Advanced
  <1>2. i \in 0..MaxQueue BY StoreIs, QueueConstants
  <1> HIDE DEF i
  <1>3. Selected(p, i) \in Store BY <1>2, SelectedStore
  <1>4. /\ Selected(p, i).queue = p.queue /\ Selected(p, i).repeat = p.repeat
        /\ Selected(p, i).index = i /\ Selected(p, i).current = At(p.queue, i)
    BY DEF Selected, Store
  <1> QED BY <1>1, <1>3, <1>4 DEF i

LEMMA GoesRound == TypeOK => RepeatAllCoversQueue
  <1> SUFFICES ASSUME player \in Store, player.repeat = "all" PROVE RepeatAllCoversQueue
    BY DEF TypeOK, RepeatAllCoversQueue
  <1> DEFINE L == Len(player.queue)
             turn[n \in 0..Len(player.queue)] == IF n = 0 THEN player ELSE Advanced(turn[n - 1])
             c == IF player.index + 1 < L THEN player.index + 1 ELSE 0
             at(n) == IF c + n < L THEN c + n ELSE c + n - L
  <1> SUFFICES ASSUME NEW i \in 0..(L - 1)
               PROVE  \E n \in 1..L : turn[n].index = i /\ turn[n].current = At(player.queue, i)
    BY DEF RepeatAllCoversQueue
  <1>1. L \in Nat /\ i \in Nat /\ L > 0 /\ player.queue # <<>> /\ c \in 0..(L - 1)
    <2>1. L \in Nat /\ player.index \in Int /\ player.index >= -1 BY StoreIs
    <2>2. i \in Nat /\ L > 0 BY <2>1
    <2>3. player.queue # <<>> BY <2>2, EmptySeq
    <2> QED BY <2>1, <2>2, <2>3
  <1>2. turn = [n \in 0..L |-> IF n = 0 THEN player ELSE Advanced(turn[n - 1])]
    <2> DEFINE D == {p \in Store : p.queue = player.queue /\ p.repeat = "all"}
               step == [n \in 1..L |-> [p \in D |-> Advanced(p)]]
    <2>1. \A p \in D : Advanced(p) \in D BY <1>1, Turns
    <2>2. player \in D OBVIOUS
    <2> HIDE DEF D, turn, L
    <2>3. step \in [1..L -> [D -> D]] BY <2>1
    <2> HIDE DEF step
    <2>4. PICK h : Made(h, D, L, player, step) BY <1>1, <2>2, <2>3, Repeated
    <2>5. h = [n \in 0..L |-> IF n = 0 THEN player ELSE Advanced(h[n - 1])]
      <3>1. h \in [0..L -> D] /\ h[0] = player /\ \A n \in 1..L : h[n] = step[n][h[n - 1]]
        BY <2>4 DEF Made
      <3>2. ASSUME NEW n \in 1..L PROVE h[n] = Advanced(h[n - 1])
        <4>1. n - 1 \in 0..L BY <1>1
        <4> QED BY <3>1, <4>1 DEF step
      <3>3. \A n \in 0..L : n # 0 => n \in 1..L BY <1>1
      <3> QED BY <3>1, <3>2, <3>3
    <2>6. \E f : f = [n \in 0..L |-> IF n = 0 THEN player ELSE Advanced(f[n - 1])] BY <2>5
    <2> QED BY <2>6 DEF turn, L
  <1> HIDE DEF turn, c
  <1> DEFINE Good(n, p) == /\ p \in Store /\ p.queue = player.queue /\ p.repeat = "all"
                           /\ p.index = at(n) /\ p.current = At(player.queue, at(n))
             S == {n \in Nat : n + 1 <= L => Good(n, turn[n + 1])}
  <1>3. 0 \in S
    <2>1. turn[0] = player /\ turn[1] = Advanced(player)
      <3>1. 0 \in 0..L /\ 1 \in 0..L /\ 1 - 1 = 0 /\ 1 # 0 BY <1>1
      <3> QED BY <1>2, <3>1
    <2>2. at(0) = c BY <1>1
    <2>3. Good(0, turn[1])
      <3> HIDE DEF at
      <3>1. /\ Advanced(player) \in Store /\ Advanced(player).queue = player.queue
            /\ Advanced(player).repeat = "all"
            /\ Advanced(player).index = c /\ Advanced(player).current = At(player.queue, c)
        BY <1>1, Turns DEF c
      <3> QED BY <2>1, <2>2, <3>1
    <2> QED BY <2>3
  <1>4. ASSUME NEW n \in S PROVE n + 1 \in S
    <2>1. n \in Nat /\ (n + 1 <= L => Good(n, turn[n + 1])) OBVIOUS
    <2>2. ASSUME (n + 1) + 1 <= L PROVE Good(n + 1, turn[(n + 1) + 1])
      <3> HIDE DEF S, Good
      <3> DEFINE p == turn[n + 1]
                 a == at(n)
      <3>1. turn[(n + 1) + 1] = Advanced(p)
        <4>1. (n + 1) + 1 \in 0..L /\ (n + 1) + 1 # 0 /\ ((n + 1) + 1) - 1 = n + 1 BY <1>1, <2>1, <2>2
        <4> QED BY <1>2, <4>1
      <3>2. Good(n, p) BY <1>1, <2>1, <2>2
      <3> HIDE DEF p
      <3>3. at(n + 1) = IF a + 1 < L THEN a + 1 ELSE 0
        <4> HIDE DEF L
        <4> QED BY <1>1, <2>1, <2>2
      <3> HIDE DEF a, at
      <3>4. /\ p \in Store /\ p.queue = player.queue /\ p.repeat = "all" /\ p.index = a
        BY <3>2 DEF Good, a
      <3> DEFINE b == IF a + 1 < L THEN a + 1 ELSE 0
      <3>5. /\ Advanced(p) \in Store /\ Advanced(p).queue = player.queue /\ Advanced(p).repeat = "all"
            /\ Advanced(p).index = b /\ Advanced(p).current = At(player.queue, b)
        BY <1>1, <3>4, Turns
      <3> HIDE DEF b
      <3> QED BY <3>1, <3>3, <3>5 DEF Good, b
    <2> DEFINE m == n + 1
    <2> HIDE DEF Good, L
    <2>3. m \in Nat BY <2>1
    <2>4. m + 1 <= L => Good(m, turn[m + 1]) BY <2>2
    <2> HIDE DEF m
    <2>5. m \in S BY <2>3, <2>4
    <2> QED BY <2>5 DEF m
  <1>5. S = Nat
    <2>1. S \in SUBSET Nat OBVIOUS
    <2> HIDE DEF S
    <2> QED BY <1>3, <1>4, <2>1, SetInduction
  <1> DEFINE k == IF i >= c THEN i - c ELSE i - c + L
  <1>6. k \in Nat /\ k + 1 \in 1..L /\ k + 1 <= L /\ at(k) = i BY <1>1
  <1> HIDE DEF at, k
  <1>7. Good(k, turn[k + 1])
    <2>1. k \in S BY <1>5, <1>6
    <2> QED BY <1>6, <2>1
  <1> QED BY <1>6, <1>7

-------------------------------------------------------------------------------
(* Theorems. *)

\* The operations keep the types of the store, and the shuffled queue and the order it
\* came from together.
THEOREM QueueInvariant == Spec => []QueueInv
  <1>1. Init => QueueInv BY QueueInit
  <1>2. QueueInv /\ [Next]_vars => QueueInv' BY QueueNextInv DEF Stepped
  <1> QED BY <1>1, <1>2, PTL DEF Spec

\* The variables keep their types.
THEOREM QueueTypeCorrect == Spec => []TypeOK
  <1>1. QueueInv => TypeOK BY DEF QueueInv
  <1> QED BY <1>1, QueueInvariant, PTL

\* Turning shuffle off loses and doubles nothing.
THEOREM NothingIsLostByShuffle == Spec => []ShuffleLosesNothing
  <1>1. QueueInv => ShuffleLosesNothing BY DEF QueueInv, Kept, ShuffleLosesNothing
  <1> QED BY <1>1, QueueInvariant, PTL

\* The index follows the current track.
THEOREM ThePointerFollows == Spec => PointerFollowsTrack
  <1>1. QueueInv /\ [Next]_vars =>
           [ (/\ PointsAtCurrent(player)
              /\ player'.current = player.current
              /\ player.current \in ToSet(player'.queue))
             => PointsAtCurrent(player') ]_vars
    BY QueueNextInv DEF Stepped, Follows
  <1> QED BY <1>1, QueueInvariant, PTL DEF Spec, PointerFollowsTrack

\* Under repeat "all" next() goes round the whole queue.
THEOREM RepeatAllGoesRound == Spec => []RepeatAllCoversQueue
  <1>1. TypeOK => RepeatAllCoversQueue BY GoesRound
  <1> QED BY <1>1, QueueTypeCorrect, PTL

-------------------------------------------------------------------------------
(* Playback.                                                                   *)

Latest(stages) == js.gen > 0 /\ load[js.gen].at \in stages
UnderWay == {"fetch", "read", "decode", "loaded", "failed"}

\* A track was given up while its load went on.
GivenUp == mishaps \cap {"overtaken", "dropped"} # {}

\* The index points at the current track, unless the queue was cleared or no track is
\* shown; the tracks of the queue are known to an autoplay that is under way.
StoreOK ==
    /\ ~player.shuffle /\ player.original = None
    /\ player.queue = <<>> =>
          /\ player.index \in {-1, 0}
          /\ player.current # None => player.index = -1
    /\ player.queue # <<>> =>
          /\ player.index \in 0..(Len(player.queue) - 1)
          /\ player.current # None => player.queue[player.index + 1] = player.current
    /\ asked # None =>
          /\ player.current # None => player.current \in asked
          /\ \A i \in DOMAIN player.queue : player.queue[i] \in asked

\* The last load is of the track that is shown, until it was given up.
LoadOK ==
    /\ js.urn \in {None, player.current}
    /\ \A g \in Gens : g > js.gen => load[g].at = "none"
    /\ ~GivenUp /\ Latest({"fetch", "read", "decode"}) => load[js.gen].urn = player.current
    /\ js.has => Latest({"end"})

\* A player that outlived the stop of its track is replaced, or paused when its successor fails.
Lingering ==
    /\ "missed" \in mishaps /\ engine.bytes = None /\ ~js.has
    /\ Latest({"fetch", "read", "failed", "end"})
    /\ engine.paused \/ (player.playing /\ ~Latest({"end"}))
    /\ player.current # None

\* The engine is at work on the last load only, and plays what is shown.
EngineOK ==
    /\ engine.notified => engine.over
    /\ engine.switching => "switch" \in mishaps
    /\ "overtaken" \notin mishaps =>
          /\ \A g \in Gens : InEngine(g) => g = js.gen
          /\ engine.bytes # None => Latest({"loaded", "end"})
    /\ ~GivenUp =>
          /\ engine.bytes \in {None, player.current}
          /\ engine.player \notin {None, player.current} => Lingering

\* The engine has heard of the last pause, or will when its answer arrives.
PauseOK ==
    mishaps \cap {"missed", "overtaken", "switch"} = {} =>
        /\ engine.player = engine.bytes
        /\ engine.player # None => engine.has
        /\ engine.player # None /\ ~player.playing /\ Latest({"end"}) => engine.paused

\* A store that says playing is served, or something is under way that will serve it.
SoundOK ==
    mishaps = {} /\ player.current # None =>
        /\ Latest({"loaded"}) => engine.player # None /\ ~engine.over
        /\ js.has => engine.player # None /\ (engine.over /\ engine.notified => ended # <<>>)
        /\ js.has /\ player.playing => ~engine.paused
        /\ player.playing => Latest(UnderWay) \/ asked # None \/ player.queue = <<>> \/ js.has

IInv == PlaybackTypeOK /\ StoreOK /\ LoadOK /\ EngineOK /\ PauseOK /\ SoundOK

-------------------------------------------------------------------------------
(* Lists and stores.                                                           *)

LEMMA Constants ==
    /\ None \notin Track /\ None \notin SUBSET Track
    /\ MaxQueue \in Nat /\ MaxLoads \in Nat \ {0} /\ MaxEnded \in Nat \ {0}
    /\ Lineups \subseteq Queues \ {<<>>}
  BY PlayerQueueAssumption, PlaybackAssumption DEF PlayerQueueAssumption, PlaybackAssumption

\* The stores this component passes on: the index points at the current track, if there
\* is one, and a store with another track plays.
Legal(p) ==
    /\ p \in Store /\ ~p.shuffle /\ p.original = None
    /\ p.queue = <<>> =>
          /\ p.index \in {-1, 0}
          /\ p.current # None => p.index = -1
    /\ p.queue # <<>> =>
          /\ p.index \in 0..(Len(p.queue) - 1)
          /\ p.current # None => p.queue[p.index + 1] = p.current
    /\ p.current # player.current => p.playing = TRUE

LEMMA SelectedLegal ==
    ASSUME NEW p \in Store, p.shuffle = FALSE, p.original = None, NEW i \in 0..(Len(p.queue) - 1)
    PROVE /\ Legal(Selected(p, i)) /\ Selected(p, i).queue = p.queue
          /\ Selected(p, i).index = i /\ Selected(p, i).current = p.queue[i + 1]
          /\ Selected(p, i).playing = TRUE /\ Selected(p, i).current \in Track
  <1>1. p.queue \in Queues BY DEF Store
  <1>2. p.queue \in Seq(Track) /\ Len(p.queue) \in Nat /\ Len(p.queue) <= MaxQueue
    BY <1>1, QueuesAre, LenProperties
  <1>3. p.queue # <<>> /\ i + 1 \in 1..Len(p.queue) /\ p.queue[i + 1] \in Track
    BY <1>2, EmptySeq, ElementOfSeq
  <1>4. i \in -1..MaxQueue BY <1>2, Constants
  <1>5. At(p.queue, i) = p.queue[i + 1] BY DEF At
  <1> DEFINE n == [p EXCEPT !.current = p.queue[i + 1], !.index = i, !.playing = TRUE]
  <1>6. n \in Store BY <1>3, <1>4 DEF Store
  <1>7. /\ n.queue = p.queue /\ n.index = i /\ n.current = p.queue[i + 1] /\ n.playing = TRUE
        /\ n.shuffle = FALSE /\ n.original = None
    BY DEF Store
  <1>8. Selected(p, i) = n BY <1>5 DEF Selected
  <1> HIDE DEF n
  <1> QED BY <1>3, <1>6, <1>7, <1>8 DEF Legal

\* next() and prev() stay in the queue.
LEMMA AdvancedLegal ==
    ASSUME IInv, player.queue # <<>>
    PROVE /\ Legal(Advanced(player)) /\ Advanced(player).queue = player.queue
          /\ Advanced(player).current \in {player.queue[i] : i \in DOMAIN player.queue} \cup {player.current}
          /\ player.repeat = "all" \/ ~AtLast(player) => Advanced(player).current \in Track
  <1>1. /\ player \in Store /\ player.queue \in Queues /\ player.index \in 0..(Len(player.queue) - 1)
    BY DEF IInv, StoreOK, PlaybackTypeOK, Store
  <1>2. player.queue \in Seq(Track) /\ Len(player.queue) \in Nat /\ Len(player.queue) > 0
    BY <1>1, QueuesAre, LenProperties, EmptySeq
  <1>3. DOMAIN player.queue = 1..Len(player.queue) BY <1>2, LenProperties
  <1>4. player.shuffle = FALSE /\ player.original = None BY <1>1 DEF IInv, StoreOK, Store
  <1>5. ASSUME NEW k \in 0..(Len(player.queue) - 1)
        PROVE /\ Legal(Selected(player, k)) /\ Selected(player, k).queue = player.queue
              /\ Selected(player, k).current \in {player.queue[i] : i \in DOMAIN player.queue}
              /\ Selected(player, k).current \in Track
    <2>1. /\ Legal(Selected(player, k)) /\ Selected(player, k).queue = player.queue
          /\ Selected(player, k).current = player.queue[k + 1] /\ Selected(player, k).current \in Track
      BY <1>1, <1>4, SelectedLegal
    <2>2. k + 1 \in DOMAIN player.queue BY <1>2, <1>3
    <2> QED BY <2>1, <2>2
  <1>6. CASE player.index + 1 < Len(player.queue)
    <2>1. player.index + 1 \in 0..(Len(player.queue) - 1) BY <1>1, <1>2, <1>6
    <2> QED BY <1>5, <1>6, <2>1 DEF Advanced
  <1>7. CASE ~(player.index + 1 < Len(player.queue)) /\ player.repeat = "all"
    <2>1. 0 \in 0..(Len(player.queue) - 1) BY <1>2
    <2> QED BY <1>5, <1>7, <2>1 DEF Advanced
  <1>8. CASE ~(player.index + 1 < Len(player.queue)) /\ player.repeat # "all"
    <2>1. Advanced(player) = [player EXCEPT !.playing = FALSE] BY <1>8 DEF Advanced
    <2> DEFINE p == [player EXCEPT !.playing = FALSE]
    <2>2. /\ p \in Store /\ p.queue = player.queue /\ p.index = player.index
          /\ p.current = player.current /\ p.shuffle = player.shuffle /\ p.original = player.original
      BY <1>1 DEF Store
    <2> HIDE DEF p
    <2>3. AtLast(player) BY <1>1, <1>2, <1>8 DEF AtLast
    <2>4. Legal(p) BY <1>1, <2>2 DEF Legal, IInv, StoreOK
    <2> QED BY <1>1, <1>8, <2>1, <2>2, <2>3, <2>4 DEF p
  <1> QED BY <1>6, <1>7, <1>8

LEMMA SelectLegal ==
    ASSUME IInv, NEW k \in 0..(Len(player.queue) - 1)
    PROVE /\ Legal(Selected(player, k)) /\ Selected(player, k).queue = player.queue
          /\ Selected(player, k).current = player.queue[k + 1] /\ k + 1 \in DOMAIN player.queue
  <1>1. player \in Store /\ player.queue \in Queues BY DEF IInv, PlaybackTypeOK, Store
  <1>2. player.queue \in Seq(Track) /\ Len(player.queue) \in Nat /\ DOMAIN player.queue = 1..Len(player.queue)
    BY <1>1, QueuesAre, LenProperties
  <1>3. player.shuffle = FALSE /\ player.original = None BY <1>1 DEF IInv, StoreOK, Store
  <1>4. /\ Legal(Selected(player, k)) /\ Selected(player, k).queue = player.queue
        /\ Selected(player, k).current = player.queue[k + 1]
    BY <1>1, <1>3, SelectedLegal
  <1> QED BY <1>2, <1>4

LEMMA RetreatedLegal ==
    ASSUME IInv, player.queue # <<>>
    PROVE \E k \in 0..(Len(player.queue) - 1) : Retreated(player) = Selected(player, k)
  <1>1. player.queue \in Queues /\ player.index \in 0..(Len(player.queue) - 1)
    BY DEF IInv, StoreOK, PlaybackTypeOK, Store
  <1>2. Len(player.queue) \in Nat BY <1>1, QueuesAre, LenProperties
  <1> DEFINE k == IF player.index > 0 THEN player.index - 1 ELSE 0
  <1>3. k \in 0..(Len(player.queue) - 1) BY <1>1, <1>2
  <1>4. Retreated(player) = Selected(player, k) BY DEF Retreated
  <1> QED BY <1>3, <1>4

\* Of a cleared queue, prev() shows nothing.
LEMMA RetreatedShowsNothing ==
    ASSUME IInv, player.queue = <<>>
    PROVE /\ Legal(Retreated(player)) /\ Retreated(player).queue = <<>>
          /\ Retreated(player).current = None
  <1>1. /\ player \in Store /\ player.index \in {-1, 0}
        /\ player.shuffle = FALSE /\ player.original = None
    BY DEF IInv, StoreOK, PlaybackTypeOK, Store
  <1>2. Len(player.queue) = 0 BY EmptySeq
  <1>3. 0 \notin 0..(Len(player.queue) - 1) BY <1>2
  <1>4. At(player.queue, 0) = None BY <1>3 DEF At
  <1>5. Retreated(player) = Selected(player, 0) BY <1>1 DEF Retreated
  <1> DEFINE n == [player EXCEPT !.current = None, !.index = 0, !.playing = TRUE]
  <1>6. Retreated(player) = n BY <1>4, <1>5 DEF Selected
  <1>7. 0 \in -1..MaxQueue BY Constants
  <1>8. /\ n \in Store /\ n.queue = <<>> /\ n.index = 0 /\ n.current = None /\ n.playing = TRUE
        /\ n.shuffle = FALSE /\ n.original = None
    BY <1>1, <1>7 DEF Store
  <1> HIDE DEF n
  <1> QED BY <1>6, <1>8 DEF Legal

LEMMA PlayingLegal ==
    ASSUME IInv, NEW on \in BOOLEAN
    PROVE LET p == [player EXCEPT !.playing = on] IN
          Legal(p) /\ p.queue = player.queue /\ p.current = player.current /\ p.playing = on
  <1> DEFINE p == [player EXCEPT !.playing = on]
  <1>1. /\ p \in Store /\ p.queue = player.queue /\ p.index = player.index /\ p.playing = on
        /\ p.current = player.current /\ p.shuffle = player.shuffle /\ p.original = player.original
    BY DEF IInv, PlaybackTypeOK, Store
  <1> HIDE DEF p
  <1>2. Legal(p) BY <1>1 DEF Legal, IInv, StoreOK
  <1> QED BY <1>1, <1>2 DEF p

LEMMA ClearedLegal ==
    ASSUME IInv
    PROVE LET p == [player EXCEPT !.queue = <<>>, !.index = -1] IN
          Legal(p) /\ p.queue = <<>> /\ p.current = player.current
  <1> DEFINE p == [player EXCEPT !.queue = <<>>, !.index = -1]
  <1>1. <<>> \in Queues /\ -1 \in -1..MaxQueue
    <2>1. Len(<<>>) = 0 /\ <<>> \in Seq(Track) BY EmptySeq
    <2>2. 0 <= MaxQueue /\ -1 \in -1..MaxQueue BY Constants
    <2>3. <<>> \in Queues BY <2>1, <2>2, QueuesAre
    <2> QED BY <2>2, <2>3
  <1>2. /\ p \in Store /\ p.queue = <<>> /\ p.index = -1
        /\ p.current = player.current /\ p.shuffle = player.shuffle /\ p.original = player.original
    BY <1>1 DEF IInv, PlaybackTypeOK, Store
  <1> HIDE DEF p
  <1>3. Legal(p) BY <1>2 DEF Legal, IInv, StoreOK
  <1> QED BY <1>2, <1>3 DEF p

\* The track autoplay brings is new to the queue, and next() goes on to another entry,
\* unless no track is shown and the entry is the only one.
LEMMA AutoplayLegal ==
    ASSUME IInv, asked # None, NEW t \in Track \ asked, NEW p \in Added(player, <<t>>), RoomFor(1)
    PROVE LET n == Advanced(p) IN
          /\ Legal(n)
          /\ n.playing = FALSE \/ n.index # player.index \/ n.current # player.current
          /\ player.queue = <<>> => n.current # player.current \/ n.current = None
  <1>1. /\ player \in Store /\ player.queue \in Queues /\ player.shuffle = FALSE /\ player.original = None
        /\ player.current # None => player.current \in asked
    BY DEF IInv, StoreOK, PlaybackTypeOK, Store
  <1>2. player.queue \in Seq(Track) /\ Len(player.queue) \in Nat BY <1>1, QueuesAre, LenProperties
  <1> DEFINE q == player.queue \o <<t>>
  <1>3. q \in Seq(Track) /\ Len(q) = Len(player.queue) + 1 /\ q[Len(player.queue) + 1] = t
    BY <1>2, ConcatProperties
  <1>4. Len(q) <= MaxQueue BY <1>3 DEF RoomFor
  <1> HIDE DEF q
  <1>5. q \in Queues /\ q # <<>>
    <2>1. Len(q) # 0 BY <1>2, <1>3
    <2> QED BY <1>3, <1>4, <2>1, QueuesAre, EmptySeq
  <1>6. p = [player EXCEPT !.queue = q]
    <2>1. Added(player, <<t>>) = {[player EXCEPT !.queue = s, !.original = WithTracks(@, <<t>>)] : s \in {q}}
      BY <1>1 DEF Added, q
    <2>2. p = [player EXCEPT !.queue = q, !.original = WithTracks(@, <<t>>)] BY <2>1
    <2>3. WithTracks(player.original, <<t>>) = None BY <1>1 DEF WithTracks
    <2> QED BY <1>1, <2>2, <2>3 DEF Store
  <1>7. /\ p \in Store /\ p.queue = q /\ p.index = player.index /\ p.current = player.current
        /\ p.shuffle = FALSE /\ p.original = None
    BY <1>1, <1>5, <1>6 DEF Store
  <1>8. CASE player.queue # <<>> \/ player.index = -1
    <2>1. player.index \in -1..(Len(player.queue) - 1)
      <3>1. CASE player.queue = <<>> BY <1>2, <1>8, <3>1, EmptySeq
      <3>2. CASE player.queue # <<>> BY <1>2, <3>2 DEF IInv, StoreOK
      <3> QED BY <3>1, <3>2
    <2> DEFINE i == player.index + 1
    <2>2. i \in 0..(Len(p.queue) - 1) /\ i # player.index /\ p.index + 1 < Len(p.queue)
      BY <1>2, <1>3, <1>7, <2>1
    <2>3. Advanced(p) = Selected(p, i) BY <1>5, <1>7, <2>2 DEF Advanced
    <2> HIDE DEF i
    <2>4. LET n == Selected(p, i) IN Legal(n) /\ n.index = i /\ n.current = q[i + 1]
      BY <1>7, <2>2, SelectedLegal
    <2>5. ASSUME player.queue = <<>> PROVE q[i + 1] # player.current
      <3>1. i = 0 /\ Len(player.queue) = 0 BY <1>8, <2>5, EmptySeq DEF i
      <3>2. q[i + 1] = t BY <1>3, <3>1
      <3> QED BY <1>1, <3>2, Constants
    <2> QED BY <2>2, <2>3, <2>4, <2>5
  <1>9. CASE player.queue = <<>> /\ player.index # -1
    <2>1. player.index = 0 /\ player.current = None /\ Len(q) = 1
      BY <1>3, <1>9, EmptySeq DEF IInv, StoreOK
    <2>2. ~(p.index + 1 < Len(p.queue)) /\ p.queue # <<>> BY <1>5, <1>7, <2>1
    <2>3. CASE p.repeat = "all"
      <3>1. Advanced(p) = Selected(p, 0) BY <2>2, <2>3 DEF Advanced
      <3>2. 0 \in 0..(Len(p.queue) - 1) BY <1>7, <2>1
      <3>3. Legal(Selected(p, 0)) /\ Selected(p, 0).current \in Track BY <1>7, <3>2, SelectedLegal
      <3> QED BY <2>1, <3>1, <3>3, Constants
    <2>4. CASE p.repeat # "all"
      <3> DEFINE n == [p EXCEPT !.playing = FALSE]
      <3>1. Advanced(p) = n BY <2>2, <2>4 DEF Advanced
      <3>2. /\ n \in Store /\ n.queue = q /\ n.index = 0 /\ n.current = None /\ n.playing = FALSE
            /\ n.shuffle = FALSE /\ n.original = None
        BY <1>7, <2>1 DEF Store
      <3> HIDE DEF n
      <3>3. 0 \in 0..(Len(q) - 1) BY <2>1
      <3>4. Legal(n) BY <1>5, <2>1, <3>2, <3>3 DEF Legal
      <3> QED BY <3>1, <3>2, <3>4
    <2> QED BY <2>3, <2>4
  <1> QED BY <1>8, <1>9

-------------------------------------------------------------------------------
(* The four things that a change of the store leads to.                        *)

LoadRow == [at : {"none", "fetch", "read", "decode", "loaded", "failed", "end"},
            urn : Track \cup {None}, paused : BOOLEAN, pauseAfter : BOOLEAN]
Mishaps == {"overtaken", "dropped", "missed", "switch", "reload", "same"}

\* The loads as they are, or without one that has failed.
Loads == {load} \cup {EndLoad(g) : g \in {h \in Gens : load[h].at = "failed"}}

\* What autoplay asked knows the tracks of the store p.
Known(p) ==
    /\ asked' \in (SUBSET Track) \cup {None}
    /\ asked' # None =>
          /\ p.current # None => p.current \in asked'
          /\ \A i \in DOMAIN p.queue : p.queue[i] \in asked'

LEMMA Types ==
    ASSUME IInv
    PROVE /\ js.gen \in 0..MaxLoads /\ js.gen \in Nat /\ MaxLoads \in Nat
          /\ js.urn \in Track \cup {None} /\ js.has \in BOOLEAN
          /\ load \in [Gens -> LoadRow] /\ mishaps \subseteq Mishaps
          /\ engine.player \in Track \cup {None} /\ engine.bytes \in Track \cup {None}
          /\ player \in Store /\ player.current \in Track \cup {None}
          /\ js.gen > 0 => js.gen \in Gens
  BY Constants DEF IInv, PlaybackTypeOK, StoreOK, Store, LoadRow, Mishaps, Gens

LEMMA LoadsType ==
    ASSUME IInv, NEW loads \in Loads
    PROVE /\ loads \in [Gens -> LoadRow]
          /\ \A g \in Gens : \/ loads[g] = load[g]
                             \/ loads[g].at = "end" /\ load[g].at = "failed"
  <1>1. load \in [Gens -> LoadRow] BY Types
  <1>2. ASSUME NEW g \in Gens, load[g].at = "failed", loads = EndLoad(g)
        PROVE /\ loads \in [Gens -> LoadRow] /\ loads[g].at = "end"
              /\ \A h \in Gens : h # g => loads[h] = load[h]
    <2>1. [NoLoad EXCEPT !.at = "end"] \in LoadRow /\ [NoLoad EXCEPT !.at = "end"].at = "end"
      BY DEF NoLoad, LoadRow
    <2> DEFINE row == [NoLoad EXCEPT !.at = "end"]
    <2> HIDE DEF row
    <2>2. loads = [load EXCEPT ![g] = row] BY <1>2 DEF EndLoad, row
    <2> QED BY <1>1, <2>1, <2>2 DEF row
  <1> QED BY <1>1, <1>2 DEF Loads

Engine == [player : Track \cup {None}, bytes : Track \cup {None}, paused : BOOLEAN,
           over : BOOLEAN, has : BOOLEAN, notified : BOOLEAN, quiet : BOOLEAN,
           switching : BOOLEAN]

\* A stop takes the bytes and the player, or, when it misses the lock, the bytes alone.
LEMMA StopEffect ==
    ASSUME IInv, NEW races, NEW ifMissed, Stop(races, ifMissed)
    PROVE LET overtaken == IF \E g \in Gens : InEngine(g) THEN {"overtaken"} ELSE {} IN
          /\ engine'.bytes = None /\ engine'.has = FALSE /\ engine'.over = engine.over
          /\ engine'.notified = engine.notified /\ engine'.switching = engine.switching
          /\ engine'.paused = engine.paused /\ engine' \in Engine
          /\ \/ engine'.player = None /\ mishaps' = mishaps \cup races \cup overtaken
             \/ /\ engine'.player = engine.player /\ "missed" \notin mishaps
                /\ mishaps' = mishaps \cup {"missed"} \cup (races \cup ifMissed \cup overtaken)
  <1>1. engine \in Engine BY DEF IInv, PlaybackTypeOK, Engine
  <1>2. \/ engine' = [engine EXCEPT !.has = FALSE, !.player = None, !.bytes = None]
        \/ engine' = [engine EXCEPT !.has = FALSE, !.bytes = None]
    BY DEF Stop
  <1>3. /\ engine'.bytes = None /\ engine'.has = FALSE /\ engine'.over = engine.over
        /\ engine'.notified = engine.notified /\ engine'.switching = engine.switching
        /\ engine'.paused = engine.paused /\ engine' \in Engine
    BY <1>1, <1>2 DEF Engine
  <1>4. engine' = [engine EXCEPT !.has = FALSE, !.player = None, !.bytes = None] => engine'.player = None
    BY <1>1 DEF Engine
  <1>5. engine' = [engine EXCEPT !.has = FALSE, !.bytes = None] => engine'.player = engine.player
    BY <1>1 DEF Engine
  <1> QED BY <1>3, <1>4, <1>5 DEF Stop, Miss

\* A load that begins stops what was played and makes up for everything before it.
LEMMA LoadKeeps ==
    ASSUME IInv, Legal(player'), player'.current # None,
           NEW pauseAfter \in BOOLEAN, NEW loads \in Loads,
           LoadTrack(player'.current, pauseAfter, loads), Known(player'), ended' \in Seq(Track)
    PROVE IInv'
  <1> DEFINE t == player'.current
  <1> DEFINE overtaken == IF \E g \in Gens : InEngine(g) THEN {"overtaken"} ELSE {}
  <1> DEFINE row == [NoLoad EXCEPT !.at = "fetch", !.urn = t, !.pauseAfter = pauseAfter]
  <1>1. /\ t \in Track /\ t # None /\ player' \in Store /\ ~player'.shuffle /\ player'.original = None
    BY DEF Legal, Store
  <1>2. js.gen + 1 \in Gens /\ js.gen < MaxLoads BY Types DEF LoadTrack, Gens
  <1>3. js'.urn = t /\ js'.has = FALSE /\ js'.gen = js.gen + 1 BY DEF LoadTrack
  <1>4. row \in LoadRow /\ row.at = "fetch" /\ row.urn = t BY <1>1 DEF NoLoad, LoadRow
  <1>5. load' = [loads EXCEPT ![js.gen + 1] = row] BY DEF LoadTrack
  <1> HIDE DEF row
  <1>6. /\ load' \in [Gens -> LoadRow] /\ load'[js'.gen].at = "fetch" /\ load'[js'.gen].urn = t
        /\ \A g \in Gens : g # js'.gen => load'[g] = loads[g]
    BY <1>2, <1>3, <1>4, <1>5, LoadsType
  <1>7. Stop({}, {}) BY DEF LoadTrack
  <1>8. /\ engine'.bytes = None /\ engine'.has = FALSE /\ engine'.over = engine.over
        /\ engine'.notified = engine.notified /\ engine'.switching = engine.switching
        /\ engine'.paused = engine.paused
        /\ \/ engine'.player = None /\ mishaps' = mishaps \cup {} \cup overtaken
           \/ /\ engine'.player = engine.player /\ "missed" \notin mishaps
              /\ mishaps' = mishaps \cup {"missed"} \cup ({} \cup {} \cup overtaken)
    BY <1>7, StopEffect
  <1>9. mishaps \subseteq mishaps' /\ mishaps' \subseteq Mishaps
    BY <1>8, Types DEF Mishaps
  <1>10. "overtaken" \notin mishaps' => \A g \in Gens : ~InEngine(g) BY <1>8
  <1> HIDE DEF overtaken, t
  <1>11. PlaybackTypeOK'
    <2>1. js' \in [urn : Track \cup {None}, has : BOOLEAN, gen : 0..MaxLoads]
      <3>1. js' = [urn |-> t, has |-> FALSE, gen |-> js.gen + 1] BY DEF LoadTrack, t
      <3>2. js.gen + 1 \in 0..MaxLoads BY <1>2, Types
      <3> QED BY <1>1, <3>1, <3>2
    <2>2. engine' \in [player : Track \cup {None}, bytes : Track \cup {None}, paused : BOOLEAN,
                       over : BOOLEAN, has : BOOLEAN, notified : BOOLEAN, quiet : BOOLEAN,
                       switching : BOOLEAN]
      BY <1>7, StopEffect DEF Engine
    <2> QED BY <1>1, <1>6, <1>9, <2>1, <2>2 DEF PlaybackTypeOK, Known, LoadRow, Mishaps
  <1>12. StoreOK' BY <1>1 DEF StoreOK, Legal, Known
  <1>13. LoadOK'
    <2>1. \A g \in Gens : g > js'.gen => load'[g].at = "none"
      <3> SUFFICES ASSUME NEW g \in Gens, g > js'.gen PROVE load'[g].at = "none" OBVIOUS
      <3>1. g \in Nat /\ g > js.gen /\ g # js'.gen BY <1>3, Types DEF Gens
      <3>2. load[g].at = "none" BY <3>1 DEF IInv, LoadOK
      <3> QED BY <1>6, <3>1, <3>2, LoadsType
    <2> QED BY <1>3, <1>6, <2>1 DEF LoadOK, t
  <1>14. Latest({"fetch"})' BY <1>2, <1>3, <1>6, Types DEF Latest
  <1>15. EngineOK'
    <2>1. (engine.notified => engine.over) /\ (engine.switching => "switch" \in mishaps)
      BY DEF IInv, EngineOK
    <2>2. (engine'.notified => engine'.over) /\ (engine'.switching => "switch" \in mishaps')
      BY <1>8, <1>9, <2>1
    <2>3. ASSUME "overtaken" \notin mishaps', NEW g \in Gens PROVE ~InEngine(g)'
      <3>1. ~InEngine(g) BY <1>10, <2>3
      <3>2. CASE g = js'.gen BY <1>6, <3>2 DEF InEngine
      <3>3. CASE g # js'.gen
        <4>1. load'[g].at = load[g].at \/ load'[g].at = "end" BY <1>6, <3>3, LoadsType
        <4> QED BY <3>1, <4>1 DEF InEngine
      <3> QED BY <3>2, <3>3
    <2>4. ASSUME ~GivenUp', engine'.player \notin {None, player'.current}
          PROVE Lingering'
      <3>1. /\ engine'.player = engine.player /\ "missed" \notin mishaps /\ "missed" \in mishaps'
            /\ ~GivenUp
        BY <1>8, <1>9, <2>4 DEF GivenUp
      <3>2. engine.player \in {None, player.current}
        BY <3>1 DEF IInv, EngineOK, Lingering
      <3>3. player'.playing = TRUE BY <2>4, <3>1, <3>2 DEF Legal
      <3>4. ~Latest({"end"})' /\ Latest({"fetch", "read", "failed", "end"})'
        BY <1>14 DEF Latest
      <3> QED BY <1>3, <1>8, <3>1, <3>3, <3>4 DEF Lingering
    <2> QED BY <1>8, <2>2, <2>3, <2>4 DEF EngineOK
  <1>16. PauseOK'
    <2> SUFFICES ASSUME mishaps' \cap {"missed", "overtaken", "switch"} = {}
                 PROVE engine'.player = None
      BY <1>8 DEF PauseOK
    <2> QED BY <1>8
  <1>17. SoundOK'
    <2>1. ~Latest({"loaded"})' /\ Latest(UnderWay)' BY <1>14 DEF Latest, UnderWay
    <2> QED BY <1>3, <2>1 DEF SoundOK
  <1> QED BY <1>11, <1>12, <1>13, <1>15, <1>16, <1>17 DEF IInv

\* What the engine is told when the store is played or paused.
LEMMA PausedEffect ==
    ASSUME IInv, NEW paused \in BOOLEAN, NEW races \in SUBSET {"dropped"}, SetPaused(paused, races)
    PROVE /\ \A f \in {"player", "bytes", "over", "has", "notified", "quiet", "switching"} :
                engine'[f] = engine[f]
          /\ \/ /\ mishaps' = mishaps \cup races
                /\ engine'.paused = IF engine.player = None THEN engine.paused ELSE paused
             \/ /\ "missed" \notin mishaps /\ mishaps' = mishaps \cup {"missed"} \cup races
                /\ engine' = engine
          /\ engine' \in [player : Track \cup {None}, bytes : Track \cup {None}, paused : BOOLEAN,
                          over : BOOLEAN, has : BOOLEAN, notified : BOOLEAN, quiet : BOOLEAN,
                          switching : BOOLEAN]
          /\ mishaps \subseteq mishaps' /\ mishaps' \subseteq Mishaps
  <1>1. engine \in [player : Track \cup {None}, bytes : Track \cup {None}, paused : BOOLEAN,
                    over : BOOLEAN, has : BOOLEAN, notified : BOOLEAN, quiet : BOOLEAN,
                    switching : BOOLEAN]
    BY DEF IInv, PlaybackTypeOK
  <1>2. CASE engine' = [engine EXCEPT !.paused = IF engine.player = None THEN @ ELSE paused]
             /\ mishaps' = mishaps \cup races
    <2> DEFINE b == IF engine.player = None THEN engine.paused ELSE paused
    <2>1. b \in BOOLEAN BY <1>1
    <2>2. engine' = [engine EXCEPT !.paused = b] BY <1>2
    <2> HIDE DEF b
    <2>3. engine'.paused = b /\ engine' \in [player : Track \cup {None}, bytes : Track \cup {None},
             paused : BOOLEAN, over : BOOLEAN, has : BOOLEAN, notified : BOOLEAN, quiet : BOOLEAN,
             switching : BOOLEAN]
      BY <1>1, <2>1, <2>2
    <2>4. \A f \in {"player", "bytes", "over", "has", "notified", "quiet", "switching"} :
             engine'[f] = engine[f]
      BY <1>1, <2>2
    <2> QED BY <1>2, <2>3, <2>4, Types DEF b, Mishaps
  <1>3. CASE Miss(races) /\ engine' = engine
    BY <1>1, <1>3, Types DEF Miss, Mishaps
  <1> QED BY <1>2, <1>3 DEF SetPaused

\* The loads of a step that starts none.
LEMMA LoadsKeep ==
    ASSUME IInv, NEW loads \in Loads, js' = js, load' = loads, mishaps \subseteq mishaps',
           \/ player'.current = player.current
           \/ player'.current = None /\ js.urn = None /\ "dropped" \in mishaps'
    PROVE /\ LoadOK'
          /\ Latest({"loaded"})' <=> Latest({"loaded"})
          /\ Latest({"end"}) => Latest({"end"})'
          /\ Latest({"end"})' => Latest({"end", "failed"})
          /\ Latest({"loaded", "end"}) => Latest({"loaded", "end"})'
          /\ Latest({"fetch", "read", "failed", "end"}) => Latest({"fetch", "read", "failed", "end"})'
          /\ \A g \in Gens : InEngine(g)' => InEngine(g)
  <1>1. \A g \in Gens : load'[g] = load[g] \/ (load'[g].at = "end" /\ load[g].at = "failed")
    BY LoadsType
  <1>2. js.gen > 0 => js.gen \in Gens BY Types
  <1>3. LoadOK' BY <1>1, <1>2 DEF IInv, LoadOK, Latest, GivenUp
  <1> QED BY <1>1, <1>2, <1>3 DEF Latest, InEngine

\* A pause or a play that is passed on to the engine.
LEMMA CommandKeeps ==
    ASSUME IInv, Legal(player'), NEW loads \in Loads, NEW races \in SUBSET {"dropped"},
           \/ player'.current = player.current
           \/ player'.current = None /\ js.urn = None /\ "dropped" \in races,
           js' = js, load' = loads, SetPaused(~player'.playing, races),
           player'.playing => js.has \/ player'.current = None,
           Known(player'), ended' = ended
    PROVE IInv'
  <1>1. player'.playing \in BOOLEAN /\ player' \in Store BY DEF Legal, Store
  <1>2. /\ engine'.player = engine.player /\ engine'.bytes = engine.bytes /\ engine'.over = engine.over
        /\ engine'.has = engine.has /\ engine'.notified = engine.notified
        /\ engine'.switching = engine.switching
        /\ mishaps \subseteq mishaps' /\ mishaps' \subseteq Mishaps
    BY <1>1, PausedEffect
  <1>3. \/ /\ mishaps' = mishaps \cup races
           /\ engine'.paused = IF engine.player = None THEN engine.paused ELSE ~player'.playing
        \/ "missed" \notin mishaps /\ mishaps' = mishaps \cup {"missed"} \cup races /\ engine' = engine
    BY <1>1, PausedEffect
  <1>4. /\ races \subseteq mishaps'
        /\ ~GivenUp' => ~GivenUp /\ player'.current = player.current
        /\ "overtaken" \notin mishaps' => "overtaken" \notin mishaps
    BY <1>2, <1>3 DEF GivenUp
  <1>5. PlaybackTypeOK'
    <2>1. engine' \in Engine BY <1>1, PausedEffect DEF Engine
    <2>2. load' \in [Gens -> LoadRow] BY LoadsType
    <2> QED BY <1>1, <1>2, <2>1, <2>2 DEF IInv, PlaybackTypeOK, Known, LoadRow, Mishaps, Engine
  <1>6. StoreOK' BY DEF StoreOK, Legal, Known
  <1>7. /\ LoadOK'
        /\ Latest({"loaded"})' => Latest({"loaded"})
        /\ Latest({"loaded", "end"}) => Latest({"loaded", "end"})'
        /\ Latest({"fetch", "read", "failed", "end"}) => Latest({"fetch", "read", "failed", "end"})'
        /\ \A g \in Gens : InEngine(g)' => InEngine(g)
    BY <1>2, <1>4, LoadsKeep
  <1>8. EngineOK'
    <2>1. ASSUME ~GivenUp', engine'.player \notin {None, player'.current}
          PROVE Lingering'
      <3>1. Lingering BY <1>2, <1>4, <2>1 DEF IInv, EngineOK
      <3>2. player'.playing = FALSE /\ "missed" \in mishaps /\ js'.has = FALSE
        BY <1>1, <1>4, <2>1, <3>1, Types DEF Lingering
      <3>3. engine'.paused = TRUE BY <1>2, <1>3, <2>1, <3>2
      <3> QED BY <1>2, <1>4, <1>7, <2>1, <3>1, <3>2, <3>3 DEF Lingering
    <2>2. (engine'.notified => engine'.over) /\ (engine'.switching => "switch" \in mishaps')
      BY <1>2 DEF IInv, EngineOK
    <2>3. "overtaken" \notin mishaps' =>
             /\ \A g \in Gens : InEngine(g)' => g = js'.gen
             /\ engine'.bytes # None => Latest({"loaded", "end"})'
      BY <1>2, <1>4, <1>7 DEF IInv, EngineOK
    <2>4. ~GivenUp' => engine'.bytes \in {None, player'.current} BY <1>2, <1>4 DEF IInv, EngineOK
    <2> QED BY <2>1, <2>2, <2>3, <2>4 DEF EngineOK
  <1>9. PauseOK'
    <2> SUFFICES ASSUME mishaps' \cap {"missed", "overtaken", "switch"} = {}
                 PROVE /\ engine'.player = engine'.bytes
                       /\ engine'.player # None => engine'.has
                       /\ engine'.player # None /\ ~player'.playing => engine'.paused
      BY DEF PauseOK
    <2>1. engine.player = engine.bytes /\ (engine.player # None => engine.has)
      BY <1>2 DEF IInv, PauseOK
    <2>2. engine'.paused = IF engine.player = None THEN engine.paused ELSE ~player'.playing BY <1>3
    <2> QED BY <1>2, <2>1, <2>2
  <1>10. SoundOK'
    <2> SUFFICES ASSUME mishaps' = {}, player'.current # None PROVE SoundOK' BY DEF SoundOK
    <2>1. mishaps = {} /\ player.current # None BY <1>2, <1>4 DEF GivenUp
    <2>2. Latest({"loaded"})' => engine'.player # None /\ ~engine'.over
      BY <1>2, <1>7, <2>1 DEF IInv, SoundOK
    <2>3. js'.has => engine'.player # None /\ (engine'.over /\ engine'.notified => ended' # <<>>)
      BY <1>2, <2>1 DEF IInv, SoundOK
    <2>4. js'.has /\ player'.playing => ~engine'.paused BY <1>2, <1>3, <2>3
    <2> QED BY <2>2, <2>3, <2>4 DEF SoundOK
  <1> QED BY <1>5, <1>6, <1>7, <1>8, <1>9, <1>10 DEF IInv

\* A change of the store that neither loads nor stops nor plays nor pauses.
LEMMA SilentKeeps ==
    ASSUME IInv, Legal(player'), NEW loads \in Loads,
           \/ player'.current = player.current
           \/ player'.current = None /\ js.urn = None /\ "dropped" \in mishaps',
           js' = js, load' = loads, engine' = engine, player'.playing = player.playing,
           loads # load => player'.playing = FALSE,
           mishaps \subseteq mishaps', mishaps' \subseteq mishaps \cup {"dropped", "same"},
           player'.index # player.index /\ player'.current # None /\ ~js.has => "same" \in mishaps',
           Known(player'), ended' = ended,
           player.queue = <<>> => player'.queue = <<>> \/ player'.current = None,
           asked' # asked =>
              player'.playing = FALSE \/ player'.index # player.index \/ player'.current # player.current
    PROVE IInv'
  <1>1. player' \in Store /\ mishaps' \subseteq Mishaps
        /\ \A m \in {"missed", "overtaken", "switch"} : m \in mishaps' <=> m \in mishaps
    BY Types DEF Legal, Mishaps
  <1>2. PlaybackTypeOK'
    <2>1. load' \in [Gens -> LoadRow] BY LoadsType
    <2> QED BY <1>1, <2>1 DEF IInv, PlaybackTypeOK, Known, LoadRow, Mishaps
  <1>3. StoreOK' BY DEF StoreOK, Legal, Known
  <1>4. /\ LoadOK'
        /\ Latest({"loaded"})' => Latest({"loaded"})
        /\ Latest({"end"})' => Latest({"end", "failed"})
        /\ Latest({"loaded", "end"}) => Latest({"loaded", "end"})'
        /\ Latest({"fetch", "read", "failed", "end"}) => Latest({"fetch", "read", "failed", "end"})'
        /\ \A g \in Gens : InEngine(g)' => InEngine(g)
    BY LoadsKeep
  <1>5. ~GivenUp' => ~GivenUp /\ player'.current = player.current BY DEF GivenUp
  <1>6. Latest({"end"})' => Latest({"end"}) \/ player.playing = FALSE
    BY <1>4 DEF Latest
  <1>7. EngineOK'
    <2>1. ASSUME Lingering, ~GivenUp' PROVE Lingering'
      <3>1. engine.paused \/ (player'.playing /\ ~Latest({"end"})')
        BY <1>6, <2>1 DEF Lingering
      <3> QED BY <1>1, <1>4, <1>5, <2>1, <3>1 DEF Lingering
    <2> QED BY <1>1, <1>4, <1>5, <2>1 DEF IInv, EngineOK
  <1>8. PauseOK'
    <2> SUFFICES ASSUME mishaps' \cap {"missed", "overtaken", "switch"} = {}
                 PROVE /\ engine.player = engine.bytes
                       /\ engine.player # None => engine.has
                       /\ engine.player # None /\ ~player'.playing /\ Latest({"end"})' => engine.paused
      BY DEF PauseOK
    <2>1. mishaps \cap {"missed", "overtaken", "switch"} = {} BY <1>1
    <2>2. CASE Latest({"end"})
      BY <2>1, <2>2 DEF IInv, PauseOK
    <2>3. CASE ~Latest({"end"}) /\ Latest({"end"})'
      <3>1. Latest({"failed"}) BY <1>4, <2>3 DEF Latest
      <3>2. engine.bytes = None BY <2>1, <3>1 DEF IInv, EngineOK, Latest
      <3> QED BY <2>1, <3>2 DEF IInv, PauseOK
    <2>4. CASE ~Latest({"end"})' BY <2>1, <2>4 DEF IInv, PauseOK
    <2> QED BY <2>2, <2>3, <2>4
  <1>9. SoundOK'
    <2> SUFFICES ASSUME mishaps' = {}, player'.current # None PROVE SoundOK' BY DEF SoundOK
    <2>1. /\ mishaps = {} /\ player.current # None /\ player'.current = player.current
          /\ player'.index # player.index => js.has
      BY <1>5 DEF GivenUp
    <2>2. Latest({"loaded"})' => engine'.player # None /\ ~engine'.over
      BY <1>4, <2>1 DEF IInv, SoundOK
    <2>3. /\ js'.has => engine'.player # None /\ (engine'.over /\ engine'.notified => ended' # <<>>)
          /\ js'.has /\ player'.playing => ~engine'.paused
      BY <2>1 DEF IInv, SoundOK
    <2>4. ASSUME player'.playing
          PROVE Latest(UnderWay)' \/ asked' # None \/ player'.queue = <<>> \/ js'.has
      <3>1. player.playing /\ loads = load BY <2>4
      <3>2. Latest(UnderWay) \/ asked # None \/ player.queue = <<>> \/ js.has
        BY <2>1, <3>1 DEF IInv, SoundOK
      <3>3. Latest(UnderWay) => Latest(UnderWay)' BY <3>1 DEF Latest
      <3>4. asked' # asked => js.has BY <2>1, <2>4
      <3> QED BY <3>2, <3>3, <3>4
    <2> QED BY <2>2, <2>3, <2>4 DEF SoundOK
  <1> QED BY <1>2, <1>3, <1>4, <1>7, <1>8, <1>9 DEF IInv

\* The last track is stopped for want of another: a load of it that is under way goes on,
\* and is no longer answered for.
LEMMA StopKeeps ==
    ASSUME IInv, Legal(player'), player'.current = None, NEW loads \in Loads,
           NEW races \in SUBSET {"dropped"}, Stop(races, {"dropped"}),
           js' = [js EXCEPT !.urn = None, !.has = FALSE], load' = loads,
           (\E g \in Gens : g = js.gen /\ loads[g].at = "fetch") => "dropped" \in races,
           Known(player'), ended' = ended
    PROVE IInv'
  <1> DEFINE overtaken == IF \E g \in Gens : InEngine(g) THEN {"overtaken"} ELSE {}
  <1>1. player' \in Store BY DEF Legal
  <1>2. /\ engine'.bytes = None /\ engine'.has = FALSE /\ engine'.over = engine.over
        /\ engine'.notified = engine.notified /\ engine'.switching = engine.switching
        /\ engine' \in Engine
    BY StopEffect
  <1>3. \/ engine'.player = None /\ mishaps' = mishaps \cup races \cup overtaken
        \/ /\ engine'.player = engine.player /\ "missed" \notin mishaps
           /\ mishaps' = mishaps \cup {"missed"} \cup (races \cup {"dropped"} \cup overtaken)
    BY StopEffect
  <1>4. /\ mishaps \subseteq mishaps' /\ mishaps' \subseteq Mishaps /\ races \subseteq mishaps'
        /\ engine'.player # None => {"missed", "dropped"} \subseteq mishaps'
    BY <1>3, Types DEF Mishaps
  <1>5. "overtaken" \notin mishaps' => \A g \in Gens : ~InEngine(g) BY <1>3
  <1> HIDE DEF overtaken
  <1>6. /\ load' \in [Gens -> LoadRow]
        /\ \A g \in Gens : load'[g] = load[g] \/ (load'[g].at = "end" /\ load[g].at = "failed")
    BY LoadsType
  <1>7. /\ js'.urn = None /\ js'.has = FALSE /\ js'.gen = js.gen
        /\ js' \in [urn : Track \cup {None}, has : BOOLEAN, gen : 0..MaxLoads]
    BY DEF IInv, PlaybackTypeOK
  <1>8. "overtaken" \notin mishaps' => \A g \in Gens : ~InEngine(g)'
    BY <1>5, <1>6 DEF InEngine
  <1>9. PlaybackTypeOK'
    BY <1>1, <1>2, <1>4, <1>6, <1>7 DEF IInv, PlaybackTypeOK, Known, LoadRow, Mishaps, Engine
  <1>10. StoreOK' BY DEF StoreOK, Legal, Known
  <1>11. LoadOK'
    <2>1. \A g \in Gens : g > js'.gen => load'[g].at = "none"
      BY <1>6, <1>7 DEF IInv, LoadOK
    <2>2. GivenUp' \/ ~Latest({"fetch", "read", "decode"})'
      <3> SUFFICES ASSUME ~GivenUp', Latest({"fetch", "read", "decode"})' PROVE FALSE OBVIOUS
      <3>1. js.gen \in Gens /\ load'[js.gen].at \in {"fetch", "read", "decode"}
        BY <1>7, Types DEF Latest
      <3>2. load'[js.gen].at # "fetch" BY <1>4, <3>1 DEF GivenUp
      <3>3. ~InEngine(js.gen)' BY <1>8, <3>1 DEF GivenUp
      <3> QED BY <3>1, <3>2, <3>3 DEF InEngine
    <2> QED BY <1>7, <2>1, <2>2 DEF LoadOK
  <1>12. EngineOK'
    <2>1. (engine.notified => engine.over) /\ (engine.switching => "switch" \in mishaps)
      BY DEF IInv, EngineOK
    <2>2. ~GivenUp' => engine'.player = None BY <1>4 DEF GivenUp
    <2> QED BY <1>2, <1>4, <1>8, <2>1, <2>2 DEF EngineOK
  <1>13. PauseOK' BY <1>2, <1>4 DEF PauseOK
  <1>14. SoundOK' BY DEF SoundOK
  <1> QED BY <1>9, <1>10, <1>11, <1>12, <1>13, <1>14 DEF IInv

\* The store becomes p, and the subscriber sees it.
LEMMA StoreKeeps ==
    ASSUME IInv, NEW p, Legal(p), NEW loads \in Loads, SetStore(p, js, loads),
           loads # load => p.playing = FALSE,
           Known(p), ended' = ended,
           player.queue = <<>> => p.queue = <<>> \/ p.current # player.current \/ p.current = None,
           asked' # asked => p.playing = FALSE \/ p.index # player.index \/ p.current # player.current
    PROVE IInv'
  <1> DEFINE fetches == \E g \in Gens : g = js.gen /\ loads[g].at = "fetch"
  <1> DEFINE dropped == IF player.current # None /\ p.current = None /\ (p.current # js.urn => fetches)
                          THEN {"dropped"} ELSE {}
  <1> DEFINE same == IF p.index # player.index /\ p.current # None /\ ~js.has
                       THEN {"same"} ELSE {}
  <1>1. player' = p /\ p.playing \in BOOLEAN /\ player.playing \in BOOLEAN
    BY DEF SetStore, Legal, Store, IInv, PlaybackTypeOK
  <1>2. ended' \in Seq(Track) BY DEF IInv, PlaybackTypeOK
  <1>3. js.urn \in {None, player.current} BY DEF IInv, LoadOK
  <1>4. dropped \in SUBSET {"dropped"} OBVIOUS
  <1>5. p.current = js.urn =>
           \/ p.current = player.current
           \/ p.current = None /\ js.urn = None /\ "dropped" \in dropped
    BY <1>3
  <1>6. CASE p.current # None /\ LoadTrack(p.current, FALSE, loads)
    BY <1>1, <1>2, <1>6, LoadKeeps
  <1>7. CASE /\ p.current # js.urn /\ p.current = None /\ Stop(dropped, {"dropped"})
             /\ js' = [js EXCEPT !.urn = None, !.has = FALSE] /\ load' = loads
    <2>1. fetches => "dropped" \in dropped BY <1>3, <1>7
    <2> HIDE DEF dropped
    <2> QED BY <1>1, <1>4, <1>7, <2>1, StopKeeps
  <1>8. CASE /\ p.current = js.urn /\ (p.playing => js.has \/ p.current = None)
             /\ SetPaused(~p.playing, dropped) /\ js' = js /\ load' = loads
    <2> HIDE DEF dropped
    <2> QED BY <1>1, <1>4, <1>5, <1>8, CommandKeeps
  <1>9. CASE /\ p.current = js.urn /\ ~(p.playing # player.playing)
             /\ js' = js /\ load' = loads /\ engine' = engine
             /\ mishaps' = mishaps \cup dropped \cup same
    <2>1. /\ mishaps \subseteq mishaps' /\ mishaps' \subseteq mishaps \cup {"dropped", "same"}
          /\ p.index # player.index /\ p.current # None /\ ~js.has => "same" \in mishaps'
          /\ dropped \subseteq mishaps'
      BY <1>4, <1>9
    <2>2. \/ p.current = player.current
          \/ p.current = None /\ js.urn = None /\ "dropped" \in mishaps'
      BY <1>5, <1>9, <2>1
    <2> QED BY <1>1, <1>9, <2>1, <2>2, SilentKeeps
  <1> QED BY <1>6, <1>7, <1>8, <1>9 DEF SetStore

-------------------------------------------------------------------------------
(* The steps of audio.ts.                                                      *)

LEMMA UseInv == IInv /\ Use => IInv'
  <1> SUFFICES ASSUME IInv, Use PROVE IInv' OBVIOUS
  <1>1. load \in Loads /\ asked' = asked /\ ended' = ended BY DEF Use, queueVars, Loads
  <1>2. /\ asked \in (SUBSET Track) \cup {None}
        /\ asked # None =>
              /\ player.current # None => player.current \in asked
              /\ \A i \in DOMAIN player.queue : player.queue[i] \in asked
    BY DEF IInv, StoreOK, PlaybackTypeOK
  <1>3. ASSUME NEW p, Legal(p), SetStore(p, js, load), p.queue = player.queue,
               p.current \in {player.queue[i] : i \in DOMAIN player.queue} \cup {player.current, None}
        PROVE IInv'
    <2>1. Known(p) BY <1>1, <1>2, <1>3 DEF Known
    <2> QED BY <1>1, <1>3, <2>1, StoreKeeps
  <1>4. ASSUME NEW k \in 0..(Len(player.queue) - 1), SetStore(Selected(player, k), js, load) PROVE IInv'
    BY <1>3, <1>4, SelectLegal
  <1>5. CASE player.queue # <<>> /\ SetStore(Advanced(player), js, load)
    BY <1>3, <1>5, AdvancedLegal
  <1>6. CASE SetStore(Retreated(player), js, load)
    <2>1. CASE player.queue # <<>> BY <1>4, <1>6, <2>1, RetreatedLegal
    <2>2. CASE player.queue = <<>> BY <1>3, <1>6, <2>2, RetreatedShowsNothing
    <2> QED BY <2>1, <2>2
  <1>7. ASSUME NEW on \in BOOLEAN, SetStore([player EXCEPT !.playing = on], js, load) PROVE IInv'
    BY <1>3, <1>7, PlayingLegal
  <1>8. CASE SetStore([player EXCEPT !.queue = <<>>, !.index = -1], js, load)
    <2> DEFINE p == [player EXCEPT !.queue = <<>>, !.index = -1]
    <2>1. Legal(p) /\ p.queue = <<>> /\ p.current = player.current BY ClearedLegal
    <2>2. SetStore(p, js, load) BY <1>8
    <2> HIDE DEF p
    <2>3. DOMAIN <<>> = {} BY EmptySeq
    <2>4. Known(p) BY <1>1, <1>2, <2>1, <2>3 DEF Known
    <2> QED BY <1>1, <2>1, <2>2, <2>4, StoreKeeps
  <1> QED BY <1>4, <1>5, <1>6, <1>7, <1>8 DEF Use

\* The store is as it was.
LEMMA SameStore ==
    ASSUME IInv, player' = player, asked' = asked
    PROVE Legal(player') /\ Known(player') /\ StoreOK'
  BY DEF Legal, Known, IInv, StoreOK, PlaybackTypeOK

LEMMA ReloadInv == IInv /\ Reload => IInv'
  <1> SUFFICES ASSUME IInv, Reload PROVE IInv' OBVIOUS
  <1>1. player' = player /\ asked' = asked /\ ended' = ended BY DEF Reload, queueVars
  <1>2. load \in Loads /\ (~player.playing) \in BOOLEAN BY DEF Loads
  <1>3. LoadTrack(player'.current, ~player.playing, load) /\ player'.current # None
    BY <1>1 DEF Reload
  <1>4. ended' \in Seq(Track) BY <1>1 DEF IInv, PlaybackTypeOK
  <1> QED BY <1>1, <1>2, <1>3, <1>4, SameStore, LoadKeeps

LEMMA EndedInv == IInv /\ Ended => IInv'
  <1> SUFFICES ASSUME IInv, Ended PROVE IInv' OBVIOUS
  <1> DEFINE j == [js EXCEPT !.has = FALSE]
  <1>1. ended' \in Seq(Track) BY HeadTailProperties DEF Ended, HandleTrackEnd, IInv, PlaybackTypeOK
  <1>2. load \in Loads BY DEF Loads
  <1>3. CASE /\ player.current # None /\ LoadTrack(player.current, FALSE, load)
             /\ player' = player /\ asked' = asked
    BY <1>1, <1>2, <1>3, SameStore, LoadKeeps
  <1>4. CASE /\ player.queue # <<>> /\ SetStore(Advanced(player), [j EXCEPT !.urn = None], load)
             /\ asked' = asked /\ (player.repeat = "all" \/ ~AtLast(player))
    <2> DEFINE p == Advanced(player)
    <2>1. /\ Legal(p) /\ p.queue = player.queue /\ p.current \in Track
          /\ p.current \in {player.queue[i] : i \in DOMAIN player.queue} \cup {player.current}
      BY <1>4, AdvancedLegal
    <2> HIDE DEF p
    <2>2. Known(p) BY <1>4, <2>1 DEF Known, IInv, StoreOK, PlaybackTypeOK
    <2>3. [j EXCEPT !.urn = None].urn = None BY DEF IInv, PlaybackTypeOK
    <2>4. p.current # None BY <2>1, Constants
    <2>5. player' = p /\ LoadTrack(p.current, FALSE, load) BY <1>4, <2>3, <2>4 DEF SetStore, p
    <2> QED BY <1>1, <1>2, <2>1, <2>2, <2>4, <2>5, LoadKeeps
  <1>5. CASE /\ player.queue # <<>> /\ js' = j
             /\ asked' = IF asked = None THEN ToSet(player.queue) ELSE asked
             /\ UNCHANGED <<player, load, engine, mishaps>>
    <2>1. player.queue \in Seq(Track) /\ player.queue \in Queues
      BY QueuesAre DEF IInv, PlaybackTypeOK, Store
    <2>2. ToSet(player.queue) \in SUBSET Track BY <2>1, LenProperties, ElementOfSeq DEF ToSet
    <2>3. asked' # None BY <1>5, <2>2, Constants
    <2>4. asked' \in (SUBSET Track) \cup {None} BY <1>5, <2>2 DEF IInv, PlaybackTypeOK
    <2>5. /\ player.index + 1 \in DOMAIN player.queue
          /\ player.current # None => player.queue[player.index + 1] = player.current
      <3>1. DOMAIN player.queue = 1..Len(player.queue) /\ Len(player.queue) \in Nat
        BY <2>1, LenProperties
      <3> QED BY <1>5, <3>1 DEF IInv, StoreOK
    <2>6. /\ player.current # None => player.current \in asked'
          /\ \A i \in DOMAIN player.queue : player.queue[i] \in asked'
      BY <1>5, <2>5 DEF IInv, StoreOK, ToSet
    <2>7. /\ js'.urn = js.urn /\ js'.has = FALSE /\ js'.gen = js.gen
          /\ js' \in [urn : Track \cup {None}, has : BOOLEAN, gen : 0..MaxLoads]
      BY <1>5 DEF IInv, PlaybackTypeOK
    <2>8. PlaybackTypeOK' BY <1>1, <1>5, <2>4, <2>7 DEF IInv, PlaybackTypeOK
    <2>9. StoreOK' BY <1>5, <2>6 DEF IInv, StoreOK
    <2>10. LoadOK' BY <1>5, <2>7 DEF IInv, LoadOK, Latest, GivenUp
    <2>11. EngineOK' BY <1>5, <2>7 DEF IInv, EngineOK, InEngine, Latest, Lingering, GivenUp
    <2>12. PauseOK' BY <1>5, <2>7 DEF IInv, PauseOK, Latest
    <2>13. SoundOK' BY <1>5, <2>3, <2>7 DEF IInv, SoundOK, Latest
    <2> QED BY <2>8, <2>9, <2>10, <2>11, <2>12, <2>13 DEF IInv
  <1>6. CASE /\ player.queue = <<>> \/ player.current = None
             /\ js' = j \/ js' = [j EXCEPT !.urn = None]
             /\ UNCHANGED <<player, asked, load, engine, mishaps>>
    <2>1. /\ js'.urn \in {None, js.urn} /\ js'.has = FALSE /\ js'.gen = js.gen
          /\ js' \in [urn : Track \cup {None}, has : BOOLEAN, gen : 0..MaxLoads]
      BY <1>6 DEF IInv, PlaybackTypeOK
    <2>2. PlaybackTypeOK' BY <1>1, <1>6, <2>1 DEF IInv, PlaybackTypeOK
    <2>3. StoreOK' BY <1>6 DEF IInv, StoreOK
    <2>4. LoadOK' BY <1>6, <2>1 DEF IInv, LoadOK, Latest, GivenUp
    <2>5. EngineOK' BY <1>6, <2>1 DEF IInv, EngineOK, InEngine, Latest, Lingering, GivenUp
    <2>6. PauseOK' BY <1>6, <2>1 DEF IInv, PauseOK, Latest
    <2>7. SoundOK' BY <1>6, <2>1 DEF IInv, SoundOK, Latest
    <2> QED BY <2>2, <2>3, <2>4, <2>5, <2>6, <2>7 DEF IInv
  <1>7. player.repeat \in {"off", "one", "all"} BY DEF IInv, PlaybackTypeOK, Store
  <1> QED BY <1>3, <1>4, <1>5, <1>6, <1>7 DEF Ended, HandleTrackEnd

LEMMA AutoplayInv == IInv /\ Autoplay => IInv'
  <1> SUFFICES ASSUME IInv, Autoplay PROVE IInv' OBVIOUS
  <1>1. load \in Loads /\ asked # None /\ asked' = None /\ ended' = ended BY DEF Autoplay, Loads
  <1>2. ASSUME NEW p PROVE Known(p)
    <2>1. asked' \in (SUBSET Track) \cup {None} BY <1>1
    <2> QED BY <1>1, <2>1 DEF Known
  <1>3. ASSUME NEW t \in Track \ asked, NEW p \in Added(player, <<t>>), RoomFor(1),
               SetStore(Advanced(p), js, load)
        PROVE IInv'
    <2> DEFINE n == Advanced(p)
    <2>1. /\ Legal(n)
          /\ n.playing = FALSE \/ n.index # player.index \/ n.current # player.current
          /\ player.queue = <<>> => n.current # player.current \/ n.current = None
      BY <1>1, <1>3, AutoplayLegal
    <2>2. SetStore(n, js, load) BY <1>3
    <2> HIDE DEF n
    <2> QED BY <1>1, <1>2, <2>1, <2>2, StoreKeeps
  <1>4. CASE SetStore([player EXCEPT !.playing = FALSE], js, load)
    <2> DEFINE n == [player EXCEPT !.playing = FALSE]
    <2>1. Legal(n) /\ n.queue = player.queue /\ n.playing = FALSE BY PlayingLegal
    <2>2. SetStore(n, js, load) BY <1>4
    <2> HIDE DEF n
    <2> QED BY <1>1, <1>2, <2>1, <2>2, StoreKeeps
  <1> QED BY <1>3, <1>4 DEF Autoplay

-------------------------------------------------------------------------------
(* The way of a load.                                                          *)

LEMMA ReloadEffect ==
    ASSUME IInv, PauseAfterReload
    PROVE /\ engine'.player = engine.player /\ engine'.bytes = engine.bytes /\ engine'.over = engine.over
          /\ engine'.has = engine.has /\ engine'.notified = engine.notified
          /\ engine'.switching = engine.switching
          /\ \/ engine.player # None => engine'.paused = TRUE
             \/ "missed" \notin mishaps /\ "missed" \in mishaps'
          /\ engine' \in Engine /\ mishaps \subseteq mishaps' /\ mishaps' \subseteq Mishaps
          /\ mishaps' = {} => player.playing = FALSE
  <1>1. engine \in Engine /\ player.playing \in BOOLEAN /\ mishaps \subseteq Mishaps
    BY DEF IInv, PlaybackTypeOK, Engine, Store, Mishaps
  <1>2. CASE /\ engine' = [engine EXCEPT !.paused = IF engine.player = None THEN @ ELSE TRUE]
             /\ mishaps' = IF player.playing THEN mishaps \cup {"reload"} ELSE mishaps
    <2> DEFINE b == IF engine.player = None THEN engine.paused ELSE TRUE
    <2>1. b \in BOOLEAN BY <1>1 DEF Engine
    <2>2. engine' = [engine EXCEPT !.paused = b] BY <1>2
    <2>3. engine.player # None => b = TRUE OBVIOUS
    <2> HIDE DEF b
    <2>4. engine' \in Engine /\ engine'.paused = b BY <1>1, <2>1, <2>2 DEF Engine
    <2>5. /\ engine'.player = engine.player /\ engine'.bytes = engine.bytes /\ engine'.over = engine.over
          /\ engine'.has = engine.has /\ engine'.notified = engine.notified
          /\ engine'.switching = engine.switching
      BY <1>1, <2>2 DEF Engine
    <2>6. /\ mishaps \subseteq mishaps' /\ mishaps' \subseteq Mishaps
          /\ mishaps' = {} => player.playing = FALSE
      BY <1>1, <1>2 DEF Mishaps
    <2> QED BY <2>3, <2>4, <2>5, <2>6
  <1>3. CASE Miss({}) /\ engine' = engine
    BY <1>1, <1>3 DEF Miss, Mishaps
  <1> QED BY <1>2, <1>3 DEF PauseAfterReload

\* A step of a load on its way, which may end by pausing the engine.
LEMMA OnItsWay ==
    ASSUME IInv, player' = player, asked' = asked, ended' = ended,
           js' \in [urn : Track \cup {None}, has : BOOLEAN, gen : 0..MaxLoads],
           js'.urn = js.urn, js'.gen = js.gen, load' \in [Gens -> LoadRow],
           (engine' = engine /\ mishaps' = mishaps) \/ PauseAfterReload, LoadOK',
           \A g \in Gens : InEngine(g)' => InEngine(g) \/ g = js.gen,
           Latest({"loaded"})' => Latest({"loaded"}),
           Latest({"loaded", "end"}) => Latest({"loaded", "end"})',
           Latest({"fetch", "read", "failed", "end"}) => Latest({"fetch", "read", "failed", "end"})',
           Latest({"end"})' => Latest({"end"}) \/ PauseAfterReload,
           js'.has => js.has \/ (Latest({"loaded"}) /\ PauseAfterReload),
           js.has => js'.has,
           Latest(UnderWay) => Latest(UnderWay)' \/ PauseAfterReload
    PROVE IInv'
  <1>1. /\ engine'.player = engine.player /\ engine'.bytes = engine.bytes /\ engine'.over = engine.over
        /\ engine'.has = engine.has /\ engine'.notified = engine.notified
        /\ engine'.switching = engine.switching
        /\ engine' \in Engine /\ mishaps \subseteq mishaps' /\ mishaps' \subseteq Mishaps
    BY ReloadEffect DEF IInv, PlaybackTypeOK, Engine, Mishaps
  <1>2. \/ ~PauseAfterReload /\ engine' = engine /\ mishaps' = mishaps
        \/ PauseAfterReload /\ (engine.player # None => engine'.paused = TRUE)
        \/ PauseAfterReload /\ "missed" \notin mishaps /\ "missed" \in mishaps'
    BY ReloadEffect
  <1>3. PauseAfterReload => (mishaps' = {} => player.playing = FALSE) BY ReloadEffect
  <1>4. PlaybackTypeOK' BY <1>1 DEF IInv, PlaybackTypeOK, LoadRow, Mishaps, Engine
  <1>5. StoreOK' BY SameStore
  <1>6. EngineOK'
    <2>1. ASSUME Lingering, engine.player # None PROVE Lingering'
      <3>1. ~js'.has BY <2>1, Types DEF Lingering, Latest
      <3>2. engine'.paused \/ (player'.playing /\ ~Latest({"end"})')
        BY <1>2, <2>1 DEF Lingering
      <3> QED BY <1>1, <2>1, <3>1, <3>2 DEF Lingering
    <2>2. ~GivenUp' => ~GivenUp BY <1>1 DEF GivenUp
    <2> QED BY <1>1, <2>1, <2>2 DEF IInv, EngineOK
  <1>7. PauseOK'
    <2> SUFFICES ASSUME mishaps' \cap {"missed", "overtaken", "switch"} = {}
                 PROVE /\ engine'.player = engine'.bytes
                       /\ engine'.player # None => engine'.has
                       /\ engine'.player # None /\ ~player'.playing /\ Latest({"end"})' => engine'.paused
      BY DEF PauseOK
    <2>1. mishaps \cap {"missed", "overtaken", "switch"} = {} BY <1>1
    <2>2. /\ engine.player = engine.bytes
          /\ engine.player # None => engine.has
          /\ engine.player # None /\ ~player.playing /\ Latest({"end"}) => engine.paused
      BY <2>1 DEF IInv, PauseOK
    <2> QED BY <1>1, <1>2, <2>2
  <1>8. SoundOK'
    <2> SUFFICES ASSUME mishaps' = {}, player.current # None PROVE SoundOK' BY DEF SoundOK
    <2>1. mishaps = {} BY <1>1
    <2>2. /\ Latest({"loaded"}) => engine.player # None /\ ~engine.over
          /\ js.has => engine.player # None /\ (engine.over /\ engine.notified => ended # <<>>)
          /\ js.has /\ player.playing => ~engine.paused
          /\ player.playing => Latest(UnderWay) \/ asked # None \/ player.queue = <<>> \/ js.has
      BY <2>1 DEF IInv, SoundOK
    <2>3. CASE PauseAfterReload
      <3>1. player'.playing = FALSE BY <1>3, <2>3
      <3> QED BY <1>1, <2>2, <3>1 DEF SoundOK
    <2>4. CASE ~PauseAfterReload /\ engine' = engine BY <2>2, <2>4 DEF SoundOK
    <2> QED BY <1>2, <2>3, <2>4
  <1> QED BY <1>4, <1>5, <1>6, <1>7, <1>8 DEF IInv

\* The steps of one load g, as steps of the last load or of another.
LEMMA OneLoadMoves ==
    ASSUME IInv, NEW g \in Gens, NEW row \in LoadRow, load' = [load EXCEPT ![g] = row],
           load[g].at # "none", player' = player, js'.urn = js.urn, js'.gen = js.gen,
           row.at \in {"fetch", "read", "decode"} =>
              row.urn = load[g].urn /\ load[g].at \in {"fetch", "read", "decode"},
           mishaps \subseteq mishaps',
           js'.has => (g # js.gen /\ js.has) \/ (g = js.gen /\ row.at = "end")
    PROVE /\ load' \in [Gens -> LoadRow] /\ LoadOK' /\ load'[g] = row
          /\ \A h \in Gens : h # g => load'[h] = load[h]
          /\ g # js.gen => \A stages : Latest(stages)' <=> Latest(stages)
          /\ g = js.gen => \A stages : Latest(stages)' <=> row.at \in stages
          /\ g = js.gen => \A stages : Latest(stages) <=> load[g].at \in stages
  <1>1. load' \in [Gens -> LoadRow] /\ load'[g] = row /\ \A h \in Gens : h # g => load'[h] = load[h]
    BY Types
  <1>2. js.gen > 0 => js.gen \in Gens BY Types
  <1>3. g > 0 BY Types DEF Gens
  <1>4. g # js.gen => \A stages : Latest(stages)' <=> Latest(stages) BY <1>1, <1>2 DEF Latest
  <1>5. g = js.gen => \A stages : Latest(stages)' <=> row.at \in stages BY <1>1, <1>3 DEF Latest
  <1>6. g = js.gen => \A stages : Latest(stages) <=> load[g].at \in stages BY <1>3 DEF Latest
  <1>7. LoadOK'
    <2>1. js'.urn \in {None, player'.current} BY DEF IInv, LoadOK
    <2>2. \A h \in Gens : h > js'.gen => load'[h].at = "none" BY <1>1 DEF IInv, LoadOK
    <2>3. ~GivenUp' => ~GivenUp BY DEF GivenUp
    <2>4. ~GivenUp /\ Latest({"fetch", "read", "decode"})' => load'[js'.gen].urn = player'.current
      BY <1>1, <1>2, <1>4, <1>5, <1>6 DEF IInv, LoadOK
    <2>5. js'.has => Latest({"end"})' BY <1>4, <1>5 DEF IInv, LoadOK
    <2> QED BY <2>1, <2>2, <2>3, <2>4, <2>5 DEF LoadOK
  <1> QED BY <1>1, <1>4, <1>5, <1>6, <1>7

EndRow == [NoLoad EXCEPT !.at = "end"]

LEMMA EndRowType == EndRow \in LoadRow /\ EndRow.at = "end"
  BY DEF EndRow, NoLoad, LoadRow

LEMMA SupersededInv ==
    ASSUME IInv, NEW g \in Gens, Superseded(g), load[g].at # "none", asked' = asked, ended' = ended
    PROVE IInv'
  <1>1. g # js.gen /\ player' = player /\ js' = js /\ load' = [load EXCEPT ![g] = EndRow]
    BY DEF Superseded, EndLoad, EndRow
  <1>2. (engine' = engine /\ mishaps' = mishaps) \/ PauseAfterReload BY DEF Superseded
  <1>3. /\ load' \in [Gens -> LoadRow] /\ LoadOK' /\ load'[g] = EndRow
        /\ \A h \in Gens : h # g => load'[h] = load[h]
        /\ \A stages : Latest(stages)' <=> Latest(stages)
    BY <1>1, <1>2, EndRowType, ReloadEffect, OneLoadMoves
  <1>4. \A h \in Gens : InEngine(h)' => InEngine(h) BY <1>3, EndRowType DEF InEngine
  <1>5. js' \in [urn : Track \cup {None}, has : BOOLEAN, gen : 0..MaxLoads]
    BY <1>1 DEF IInv, PlaybackTypeOK
  <1> QED BY <1>1, <1>2, <1>3, <1>4, <1>5, OnItsWay

\* A step of the load g that leaves js and the engine alone.
LEMMA MovesOn ==
    ASSUME IInv, NEW g \in Gens, NEW row \in LoadRow, load' = [load EXCEPT ![g] = row],
           row.urn = load[g].urn, load[g].at \in {"fetch", "read", "decode"},
           \/ load[g].at = "fetch" /\ row.at = "failed"
           \/ load[g].at = "fetch" /\ row.at = "read" /\ g = js.gen
           \/ load[g].at \in {"read", "decode"} /\ row.at = "failed",
           player' = player, js' = js, asked' = asked, ended' = ended,
           engine' = engine, mishaps' = mishaps
    PROVE IInv'
  <1>1. g = js.gen => ~js.has
    <2>1. js.has => Latest({"end"}) BY DEF IInv, LoadOK
    <2> QED BY <2>1 DEF Latest
  <1>2. js'.has => (g # js.gen /\ js.has) \/ (g = js.gen /\ row.at = "end") BY <1>1
  <1>3. load[g].at \in {"fetch", "read", "decode"} /\ mishaps \subseteq mishaps' OBVIOUS
  <1>4. /\ load' \in [Gens -> LoadRow] /\ LoadOK' /\ load'[g] = row
        /\ \A h \in Gens : h # g => load'[h] = load[h]
        /\ g # js.gen => \A stages : Latest(stages)' <=> Latest(stages)
        /\ g = js.gen => \A stages : Latest(stages)' <=> row.at \in stages
        /\ g = js.gen => \A stages : Latest(stages) <=> load[g].at \in stages
    BY <1>2, <1>3, OneLoadMoves
  <1>5. \A h \in Gens : InEngine(h)' => InEngine(h) \/ h = js.gen BY <1>4 DEF InEngine
  <1>6. /\ Latest({"loaded"})' => Latest({"loaded"})
        /\ Latest({"loaded", "end"}) => Latest({"loaded", "end"})'
        /\ Latest({"fetch", "read", "failed", "end"}) => Latest({"fetch", "read", "failed", "end"})'
        /\ Latest({"end"})' => Latest({"end"})
        /\ Latest(UnderWay) => Latest(UnderWay)'
    <2>1. CASE g # js.gen BY <1>4, <2>1
    <2>2. CASE g = js.gen BY <1>4, <2>2 DEF UnderWay
    <2> QED BY <2>1, <2>2
  <1>7. js' \in [urn : Track \cup {None}, has : BOOLEAN, gen : 0..MaxLoads]
    BY DEF IInv, PlaybackTypeOK
  <1> QED BY <1>4, <1>5, <1>6, <1>7, OnItsWay

LEMMA FetchedInv ==
    ASSUME IInv, NEW g \in Gens, Fetched(g)
    PROVE IInv'
  <1>1. load[g].at = "fetch" /\ asked' = asked /\ ended' = ended BY DEF Fetched, queueVars
  <1>2. CASE Superseded(g) BY <1>1, <1>2, SupersededInv
  <1>3. CASE /\ g = js.gen /\ load' = [load EXCEPT ![g].at = "read", ![g].paused = ~player.playing]
             /\ UNCHANGED <<player, js, engine, mishaps>>
    <2> DEFINE row == [load[g] EXCEPT !.at = "read", !.paused = ~player.playing]
    <2>1. load[g] \in LoadRow BY Types
    <2>2. (~player.playing) \in BOOLEAN OBVIOUS
    <2>3. row \in LoadRow /\ row.at = "read" /\ row.urn = load[g].urn BY <2>1, <2>2 DEF LoadRow
    <2>4. load' = [load EXCEPT ![g] = row] BY <1>3, Types
    <2> HIDE DEF row
    <2> QED BY <1>1, <1>3, <2>3, <2>4, MovesOn
  <1> QED BY <1>2, <1>3 DEF Fetched

LEMMA FailingInv ==
    ASSUME IInv, NEW g \in Gens, FetchFails(g) \/ LoadFileFails(g)
    PROVE IInv'
  <1> DEFINE row == [load[g] EXCEPT !.at = "failed"]
  <1>1. load[g] \in LoadRow BY Types
  <1>2. row \in LoadRow /\ row.at = "failed" /\ row.urn = load[g].urn BY <1>1 DEF LoadRow
  <1>3. /\ load' = [load EXCEPT ![g] = row]
        /\ load[g].at \in {"fetch", "read", "decode"}
        /\ player' = player /\ js' = js /\ asked' = asked /\ ended' = ended
        /\ engine' = engine /\ mishaps' = mishaps
    BY Types DEF FetchFails, LoadFileFails, InEngine, queueVars
  <1> HIDE DEF row
  <1> QED BY <1>2, <1>3, MovesOn

LEMMA FailedInv ==
    ASSUME IInv, NEW g \in Gens, Failed(g)
    PROVE IInv'
  <1>1. load[g].at = "failed" /\ asked' = asked /\ ended' = ended BY DEF Failed, queueVars
  <1>2. CASE Superseded(g) BY <1>1, <1>2, SupersededInv
  <1>3. CASE SetStore([player EXCEPT !.playing = FALSE], js, EndLoad(g))
    <2> DEFINE p == [player EXCEPT !.playing = FALSE]
    <2>1. Legal(p) /\ p.queue = player.queue /\ p.playing = FALSE /\ p.current = player.current
      BY PlayingLegal
    <2>2. SetStore(p, js, EndLoad(g)) BY <1>3
    <2> HIDE DEF p
    <2>3. EndLoad(g) \in Loads BY <1>1 DEF Loads
    <2>4. Known(p) BY <1>1, <2>1 DEF Known, IInv, StoreOK, PlaybackTypeOK
    <2> QED BY <1>1, <2>1, <2>2, <2>3, <2>4, StoreKeeps
  <1>4. CASE g = js.gen /\ PauseAfterReload /\ load' = EndLoad(g) /\ UNCHANGED <<player, js>>
    <2>1. load' = [load EXCEPT ![g] = EndRow] BY <1>4 DEF EndLoad, EndRow
    <2>2. /\ load' \in [Gens -> LoadRow] /\ LoadOK' /\ load'[g] = EndRow
          /\ \A h \in Gens : h # g => load'[h] = load[h]
          /\ g = js.gen => \A stages : Latest(stages)' <=> EndRow.at \in stages
          /\ g = js.gen => \A stages : Latest(stages) <=> load[g].at \in stages
      BY <1>1, <1>4, <2>1, EndRowType, ReloadEffect, OneLoadMoves
    <2>3. \A h \in Gens : InEngine(h)' => InEngine(h) BY <2>2, EndRowType DEF InEngine
    <2>4. js' \in [urn : Track \cup {None}, has : BOOLEAN, gen : 0..MaxLoads]
      BY <1>4 DEF IInv, PlaybackTypeOK
    <2>5. /\ ~Latest({"loaded"})' /\ Latest({"loaded", "end"})'
          /\ Latest({"fetch", "read", "failed", "end"})'
      BY <1>4, <2>2, EndRowType
    <2> QED BY <1>1, <1>4, <2>2, <2>3, <2>4, <2>5, OnItsWay
  <1> QED BY <1>2, <1>3, <1>4 DEF Failed

\* The answer of the engine: afterLoad passes on what the store says.
LEMMA LoadedInv ==
    ASSUME IInv, NEW g \in Gens, Loaded(g)
    PROVE IInv'
  <1>1. load[g].at = "loaded" /\ asked' = asked /\ ended' = ended BY DEF Loaded, queueVars
  <1>2. CASE Superseded(g) BY <1>1, <1>2, SupersededInv
  <1>3. CASE /\ g = js.gen /\ load' = EndLoad(g) /\ js' = [js EXCEPT !.has = TRUE]
             /\ (PauseAfterReload \/ SetPaused(~player.playing, {})) /\ player' = player
    <2>1. load' = [load EXCEPT ![g] = EndRow] BY <1>3 DEF EndLoad, EndRow
    <2>2. /\ js'.urn = js.urn /\ js'.gen = js.gen /\ js'.has = TRUE
          /\ js' \in [urn : Track \cup {None}, has : BOOLEAN, gen : 0..MaxLoads]
      BY <1>3 DEF IInv, PlaybackTypeOK
    <2>3. /\ load' \in [Gens -> LoadRow] /\ LoadOK' /\ load'[g] = EndRow
          /\ \A h \in Gens : h # g => load'[h] = load[h]
          /\ g = js.gen => \A stages : Latest(stages)' <=> EndRow.at \in stages
          /\ g = js.gen => \A stages : Latest(stages) <=> load[g].at \in stages
      <3>1. mishaps \subseteq mishaps'
        <4>1. (~player.playing) \in BOOLEAN /\ {} \in SUBSET {"dropped"} OBVIOUS
        <4> QED BY <1>3, <4>1, ReloadEffect, PausedEffect
      <3> QED BY <1>1, <1>3, <2>1, <2>2, <3>1, EndRowType, OneLoadMoves, ZenonT(30)
    <2>4. \A h \in Gens : InEngine(h)' => InEngine(h) BY <2>3, EndRowType DEF InEngine
    <2>5. /\ ~Latest({"loaded"})' /\ Latest({"loaded", "end"})' /\ Latest({"loaded"})
          /\ Latest({"fetch", "read", "failed", "end"})'
          /\ ~Latest({"fetch", "read", "failed", "end"}) /\ ~Latest({"end"})
      BY <1>1, <1>3, <2>3, EndRowType
    <2>6. CASE PauseAfterReload
      BY <1>1, <1>3, <2>2, <2>3, <2>4, <2>5, <2>6, OnItsWay
    <2>7. CASE SetPaused(~player.playing, {})
      <3>1. (~player.playing) \in BOOLEAN /\ {} \in SUBSET {"dropped"} OBVIOUS
      <3>2. /\ engine'.player = engine.player /\ engine'.bytes = engine.bytes /\ engine'.over = engine.over
            /\ engine'.has = engine.has /\ engine'.notified = engine.notified
            /\ engine'.switching = engine.switching /\ engine' \in Engine
            /\ mishaps \subseteq mishaps' /\ mishaps' \subseteq Mishaps
        BY <2>7, <3>1, PausedEffect DEF Engine
      <3>3. \/ engine'.paused = IF engine.player = None THEN engine.paused ELSE ~player.playing
            \/ "missed" \in mishaps'
        BY <2>7, <3>1, PausedEffect
      <3>4. PlaybackTypeOK'
        BY <1>1, <1>3, <2>2, <2>3, <3>2 DEF IInv, PlaybackTypeOK, LoadRow, Mishaps, Engine
      <3>5. StoreOK' BY <1>1, <1>3, SameStore
      <3>6. EngineOK'
        <4>1. ~Lingering BY <2>5 DEF Lingering
        <4>2. ~GivenUp' => ~GivenUp BY <3>2 DEF GivenUp
        <4> QED BY <1>3, <2>2, <2>4, <2>5, <3>2, <4>1, <4>2 DEF IInv, EngineOK
      <3>7. PauseOK'
        <4> SUFFICES ASSUME mishaps' \cap {"missed", "overtaken", "switch"} = {}
                     PROVE /\ engine'.player = engine'.bytes
                           /\ engine'.player # None => engine'.has
                           /\ engine'.player # None /\ ~player.playing => engine'.paused
          BY <1>3 DEF PauseOK
        <4>1. engine.player = engine.bytes /\ (engine.player # None => engine.has)
          BY <3>2 DEF IInv, PauseOK
        <4>2. engine'.paused = IF engine.player = None THEN engine.paused ELSE ~player.playing BY <3>3
        <4> QED BY <3>2, <4>1, <4>2
      <3>8. SoundOK'
        <4> SUFFICES ASSUME mishaps' = {}, player'.current # None PROVE SoundOK' BY DEF SoundOK
        <4>1. engine.player # None /\ ~engine.over BY <1>3, <2>5, <3>2 DEF IInv, SoundOK
        <4>2. engine'.paused = ~player.playing BY <3>3, <4>1
        <4>3. engine'.player # None /\ ~engine'.over BY <3>2, <4>1
        <4>4. player'.playing => ~engine'.paused BY <1>3, <4>2
        <4> QED BY <2>2, <2>5, <4>3, <4>4 DEF SoundOK
      <3> QED BY <2>3, <3>4, <3>5, <3>6, <3>7, <3>8 DEF IInv
    <2> QED BY <1>3, <2>6, <2>7
  <1> QED BY <1>2, <1>3 DEF Loaded

\* The engine takes the load it is at work on.
LEMMA ReadInv ==
    ASSUME IInv, NEW g \in Gens, Read(g)
    PROVE IInv'
  <1> DEFINE row == [load[g] EXCEPT !.at = "decode"]
  <1>1. load[g] \in LoadRow /\ load[g].at = "read" BY Types DEF Read
  <1>2. row \in LoadRow /\ row.at = "decode" /\ row.urn = load[g].urn BY <1>1 DEF LoadRow
  <1>3. /\ load' = [load EXCEPT ![g] = row]
        /\ player' = player /\ js' = js /\ asked' = asked /\ ended' = ended /\ mishaps' = mishaps
        /\ engine' = [engine EXCEPT !.player = None, !.quiet = TRUE]
    BY Types DEF Read, queueVars
  <1> HIDE DEF row
  <1>4. /\ engine'.player = None /\ engine'.bytes = engine.bytes /\ engine'.over = engine.over
        /\ engine'.has = engine.has /\ engine'.notified = engine.notified
        /\ engine'.paused = engine.paused
        /\ engine'.switching = engine.switching /\ engine' \in Engine
    BY <1>3 DEF IInv, PlaybackTypeOK, Engine
  <1>5. g = js.gen => ~js.has
    <2>1. js.has => Latest({"end"}) BY DEF IInv, LoadOK
    <2> QED BY <1>1, <2>1 DEF Latest
  <1>6. /\ load' \in [Gens -> LoadRow] /\ LoadOK' /\ load'[g] = row
        /\ \A h \in Gens : h # g => load'[h] = load[h]
        /\ g # js.gen => \A stages : Latest(stages)' <=> Latest(stages)
        /\ g = js.gen => \A stages : Latest(stages)' <=> row.at \in stages
        /\ g = js.gen => \A stages : Latest(stages) <=> load[g].at \in stages
    BY <1>1, <1>2, <1>3, <1>5, OneLoadMoves
  <1>7. "overtaken" \notin mishaps => g = js.gen BY <1>1 DEF IInv, EngineOK, InEngine
  <1>8. "overtaken" \notin mishaps => engine.bytes = None
    BY <1>1, <1>6, <1>7 DEF IInv, EngineOK
  <1>9. PlaybackTypeOK' BY <1>3, <1>4, <1>6 DEF IInv, PlaybackTypeOK, LoadRow, Engine
  <1>10. StoreOK' BY <1>3, SameStore
  <1>11. EngineOK'
    <2>1. "overtaken" \notin mishaps => \A h \in Gens : InEngine(h)' => h = js.gen
      BY <1>6, <1>7 DEF IInv, EngineOK, InEngine
    <2> QED BY <1>3, <1>4, <1>8, <2>1 DEF IInv, EngineOK, GivenUp
  <1>12. PauseOK' BY <1>3, <1>4, <1>8 DEF PauseOK
  <1>13. SoundOK'
    <2> SUFFICES ASSUME mishaps = {} PROVE SoundOK' BY <1>3 DEF SoundOK
    <2>1. g = js.gen /\ ~js'.has BY <1>3, <1>5, <1>7
    <2>2. ~Latest({"loaded"})' /\ Latest(UnderWay)' BY <1>2, <1>6, <2>1 DEF UnderWay
    <2> QED BY <2>1, <2>2 DEF SoundOK
  <1> QED BY <1>6, <1>9, <1>10, <1>11, <1>12, <1>13 DEF IInv

\* What the engine commits is of the track that is shown, unless it was overtaken.
LEMMA CommitInv ==
    ASSUME IInv, NEW g \in Gens, Commit(g)
    PROVE IInv'
  <1> DEFINE row == [load[g] EXCEPT !.at = "loaded"]
  <1>1. load[g] \in LoadRow /\ load[g].at = "decode" BY Types DEF Commit
  <1>2. row \in LoadRow /\ row.at = "loaded" /\ row.urn = load[g].urn BY <1>1 DEF LoadRow
  <1>3. /\ load' = [load EXCEPT ![g] = row]
        /\ player' = player /\ js' = js /\ asked' = asked /\ ended' = ended /\ mishaps' = mishaps
        /\ engine' = [engine EXCEPT !.player = load[g].urn, !.bytes = load[g].urn,
                        !.paused = load[g].paused, !.over = FALSE, !.has = TRUE, !.notified = FALSE]
    BY Types DEF Commit, queueVars
  <1> HIDE DEF row
  <1>4. /\ engine'.player = load[g].urn /\ engine'.bytes = load[g].urn /\ engine'.over = FALSE
        /\ engine'.has = TRUE /\ engine'.notified = FALSE
        /\ engine'.switching = engine.switching /\ engine' \in Engine
    BY <1>1, <1>3 DEF IInv, PlaybackTypeOK, Engine, LoadRow
  <1>5. g = js.gen => ~js.has
    <2>1. js.has => Latest({"end"}) BY DEF IInv, LoadOK
    <2> QED BY <1>1, <2>1 DEF Latest
  <1>6. /\ load' \in [Gens -> LoadRow] /\ LoadOK' /\ load'[g] = row
        /\ \A h \in Gens : h # g => load'[h] = load[h]
        /\ g # js.gen => \A stages : Latest(stages)' <=> Latest(stages)
        /\ g = js.gen => \A stages : Latest(stages)' <=> row.at \in stages
        /\ g = js.gen => \A stages : Latest(stages) <=> load[g].at \in stages
    BY <1>1, <1>2, <1>3, <1>5, OneLoadMoves
  <1>7. "overtaken" \notin mishaps => g = js.gen BY <1>1 DEF IInv, EngineOK, InEngine
  <1>8. ~GivenUp => load[g].urn = player.current
    BY <1>1, <1>6, <1>7 DEF IInv, LoadOK, GivenUp
  <1>9. "overtaken" \notin mishaps => Latest({"loaded", "end"})' /\ Latest({"loaded"})'
    BY <1>2, <1>6, <1>7
  <1>10. PlaybackTypeOK' BY <1>3, <1>4, <1>6 DEF IInv, PlaybackTypeOK, LoadRow, Engine
  <1>11. StoreOK' BY <1>3, SameStore
  <1>12. EngineOK'
    <2>1. "overtaken" \notin mishaps => \A h \in Gens : InEngine(h)' => h = js.gen
      BY <1>6, <1>7 DEF IInv, EngineOK, InEngine
    <2> QED BY <1>3, <1>4, <1>8, <1>9, <2>1 DEF IInv, EngineOK, GivenUp
  <1>13. PauseOK'
    <2>1. "overtaken" \notin mishaps => ~Latest({"end"})' BY <1>2, <1>6, <1>7
    <2> QED BY <1>3, <1>4, <2>1 DEF PauseOK
  <1>14. SoundOK'
    <2> SUFFICES ASSUME mishaps = {}, player.current # None PROVE SoundOK' BY <1>3 DEF SoundOK
    <2>1. ~js'.has BY <1>3, <1>5, <1>7
    <2>2. Latest(UnderWay)' BY <1>9 DEF Latest, UnderWay
    <2>3. engine'.player # None /\ ~engine'.over BY <1>4, <1>8 DEF GivenUp
    <2> QED BY <2>1, <2>2, <2>3 DEF SoundOK
  <1> QED BY <1>6, <1>10, <1>11, <1>12, <1>13, <1>14 DEF IInv

-------------------------------------------------------------------------------
(* The steps of the engine that concern no load.                               *)

LEMMA EngineAlone ==
    ASSUME IInv, player' = player, js' = js, load' = load, asked' = asked,
           engine' \in Engine, ended' \in Seq(Track), mishaps' \subseteq Mishaps,
           mishaps \subseteq mishaps'
    PROVE /\ PlaybackTypeOK' /\ StoreOK' /\ LoadOK'
          /\ \A g \in Gens : InEngine(g)' <=> InEngine(g)
          /\ \A stages : Latest(stages)' <=> Latest(stages)
  <1>1. PlaybackTypeOK' BY DEF IInv, PlaybackTypeOK, Engine, Mishaps
  <1>2. StoreOK' BY SameStore
  <1>3. LoadOK' BY DEF IInv, LoadOK, Latest, GivenUp
  <1> QED BY <1>1, <1>2, <1>3 DEF InEngine, Latest

LEMMA SeekInv == IInv /\ Seek => IInv'
  <1> SUFFICES ASSUME IInv, Seek PROVE IInv' OBVIOUS
  <1>1. /\ player' = player /\ js' = js /\ load' = load /\ asked' = asked
        /\ ended' = ended /\ mishaps' = mishaps /\ js.has
    BY DEF Seek, queueVars
  <1>2. engine \in Engine /\ ended \in Seq(Track) /\ mishaps \subseteq Mishaps
    BY Types DEF IInv, PlaybackTypeOK, Engine
  <1> DEFINE b == engine.player # None /\ engine.paused
  <1>3. b \in BOOLEAN OBVIOUS
  <1>4. \/ engine' = [engine EXCEPT !.quiet = TRUE, !.notified = FALSE]
        \/ engine' = [engine EXCEPT !.quiet = TRUE]
        \/ /\ engine.bytes # None
           /\ engine' = [engine EXCEPT !.quiet = TRUE, !.notified = FALSE, !.over = FALSE,
                           !.player = engine.bytes, !.paused = b]
    BY DEF Seek
  <1>5. b => engine.paused = TRUE BY <1>2 DEF Engine
  <1>6. engine.player # None /\ engine.paused => b OBVIOUS
  <1> HIDE DEF b
  <1>7. engine' \in Engine BY <1>2, <1>3, <1>4 DEF Engine
  <1>8. /\ engine'.bytes = engine.bytes /\ engine'.has = engine.has
        /\ engine'.switching = engine.switching
    BY <1>2, <1>4 DEF Engine
  <1>9. \/ /\ engine'.player = engine.player /\ engine'.over = engine.over
           /\ engine'.paused = engine.paused
           /\ engine'.notified = FALSE \/ engine'.notified = engine.notified
        \/ /\ engine.bytes # None /\ engine'.player = engine.bytes /\ engine'.over = FALSE
           /\ engine'.notified = FALSE /\ engine'.paused = b
    BY <1>2, <1>4 DEF Engine
  <1>10. /\ PlaybackTypeOK' /\ StoreOK' /\ LoadOK'
         /\ \A g \in Gens : InEngine(g)' <=> InEngine(g)
         /\ \A stages : Latest(stages)' <=> Latest(stages)
    BY <1>1, <1>2, <1>7, EngineAlone
  <1>11. EngineOK'
    <2>1. ~Lingering BY <1>1 DEF Lingering
    <2> QED BY <1>1, <1>8, <1>9, <1>10, <2>1 DEF IInv, EngineOK, GivenUp
  <1>12. PauseOK'
    <2> SUFFICES ASSUME mishaps \cap {"missed", "overtaken", "switch"} = {}
                 PROVE /\ engine'.player = engine'.bytes
                       /\ engine'.player # None => engine'.has
                       /\ engine'.player # None /\ ~player.playing /\ Latest({"end"}) => engine'.paused
      BY <1>1, <1>10 DEF PauseOK
    <2>1. /\ engine.player = engine.bytes
          /\ engine.player # None => engine.has
          /\ engine.player # None /\ ~player.playing /\ Latest({"end"}) => engine.paused
      BY DEF IInv, PauseOK
    <2> QED BY <1>6, <1>8, <1>9, <2>1
  <1>13. SoundOK'
    <2> SUFFICES ASSUME mishaps = {}, player.current # None PROVE SoundOK' BY <1>1 DEF SoundOK
    <2>1. /\ engine.player # None /\ (engine.over /\ engine.notified => ended # <<>>)
          /\ player.playing => ~engine.paused
          /\ Latest({"loaded"}) => ~engine.over
      BY <1>1 DEF IInv, SoundOK
    <2>2. engine'.player # None BY <1>9, <2>1
    <2>3. engine'.over /\ engine'.notified => ended' # <<>> BY <1>1, <1>9, <2>1
    <2>4. player'.playing => ~engine'.paused BY <1>1, <1>5, <1>9, <2>1
    <2>5. Latest({"loaded"})' => ~engine'.over BY <1>9, <1>10, <2>1
    <2> QED BY <1>1, <2>2, <2>3, <2>4, <2>5 DEF SoundOK
  <1> QED BY <1>10, <1>11, <1>12, <1>13 DEF IInv

LEMMA RunsOutInv == IInv /\ RunsOut => IInv'
  <1> SUFFICES ASSUME IInv, RunsOut PROVE IInv' OBVIOUS
  <1>1. /\ player' = player /\ js' = js /\ load' = load /\ asked' = asked
        /\ ended' = ended /\ mishaps' = mishaps
        /\ engine' = [engine EXCEPT !.over = TRUE] /\ ~engine.over
    BY DEF RunsOut, queueVars
  <1>2. engine \in Engine /\ ended \in Seq(Track) /\ mishaps \subseteq Mishaps
    BY Types DEF IInv, PlaybackTypeOK, Engine
  <1>3. /\ engine' \in Engine /\ engine'.player = engine.player /\ engine'.bytes = engine.bytes
        /\ engine'.paused = engine.paused /\ engine'.has = engine.has /\ engine'.over = TRUE
        /\ engine'.notified = engine.notified /\ engine'.switching = engine.switching
    BY <1>1, <1>2 DEF Engine
  <1>4. ~engine.notified BY <1>1 DEF IInv, EngineOK, GivenUp
  <1>5. ~Latest({"loaded"}) BY Types DEF RunsOut, Latest
  <1>6. /\ PlaybackTypeOK' /\ StoreOK' /\ LoadOK'
        /\ \A g \in Gens : InEngine(g)' <=> InEngine(g)
        /\ \A stages : Latest(stages)' <=> Latest(stages)
    BY <1>1, <1>2, <1>3, EngineAlone
  <1>7. EngineOK' BY <1>1, <1>3, <1>6 DEF IInv, EngineOK, Lingering, GivenUp
  <1>8. PauseOK' BY <1>1, <1>3, <1>6 DEF IInv, PauseOK
  <1>9. SoundOK' BY <1>1, <1>3, <1>4, <1>5, <1>6 DEF IInv, SoundOK
  <1> QED BY <1>6, <1>7, <1>8, <1>9 DEF IInv

LEMMA SuppressionEndsInv == IInv /\ SuppressionEnds => IInv'
  <1> SUFFICES ASSUME IInv, SuppressionEnds PROVE IInv' OBVIOUS
  <1>1. /\ player' = player /\ js' = js /\ load' = load /\ asked' = asked
        /\ ended' = ended /\ mishaps' = mishaps /\ engine' = [engine EXCEPT !.quiet = FALSE]
    BY DEF SuppressionEnds, queueVars
  <1>2. engine \in Engine /\ ended \in Seq(Track) /\ mishaps \subseteq Mishaps
    BY Types DEF IInv, PlaybackTypeOK, Engine
  <1>3. /\ engine' \in Engine /\ engine'.player = engine.player /\ engine'.bytes = engine.bytes
        /\ engine'.paused = engine.paused /\ engine'.has = engine.has /\ engine'.over = engine.over
        /\ engine'.notified = engine.notified /\ engine'.switching = engine.switching
    BY <1>1, <1>2 DEF Engine
  <1>4. /\ PlaybackTypeOK' /\ StoreOK' /\ LoadOK'
        /\ \A g \in Gens : InEngine(g)' <=> InEngine(g)
        /\ \A stages : Latest(stages)' <=> Latest(stages)
    BY <1>1, <1>2, <1>3, EngineAlone
  <1>5. EngineOK' BY <1>1, <1>3, <1>4 DEF IInv, EngineOK, Lingering, GivenUp
  <1>6. PauseOK' BY <1>1, <1>3, <1>4 DEF IInv, PauseOK
  <1>7. SoundOK' BY <1>1, <1>3, <1>4 DEF IInv, SoundOK
  <1> QED BY <1>4, <1>5, <1>6, <1>7 DEF IInv

LEMMA TickInv == IInv /\ Tick => IInv'
  <1> SUFFICES ASSUME IInv, Tick PROVE IInv' OBVIOUS
  <1>1. /\ player' = player /\ js' = js /\ load' = load /\ asked' = asked
        /\ ended' = Append(ended, engine.player) /\ mishaps' = mishaps
        /\ engine' = [engine EXCEPT !.notified = TRUE] /\ engine.over /\ engine.player # None
    BY DEF Tick, queueVars
  <1>2. engine \in Engine /\ ended \in Seq(Track) /\ mishaps \subseteq Mishaps
    BY Types DEF IInv, PlaybackTypeOK, Engine
  <1>3. /\ engine' \in Engine /\ engine'.player = engine.player /\ engine'.bytes = engine.bytes
        /\ engine'.paused = engine.paused /\ engine'.has = engine.has /\ engine'.over = engine.over
        /\ engine'.switching = engine.switching
    BY <1>1, <1>2 DEF Engine
  <1>4. ended' \in Seq(Track) /\ ended' # <<>>
    <2>1. engine.player \in Track BY <1>1, <1>2 DEF Engine
    <2>2. ended' \in Seq(Track) /\ Len(ended') = Len(ended) + 1 BY <1>1, <1>2, <2>1, AppendProperties
    <2>3. Len(ended') # 0 BY <1>2, <2>2, LenProperties
    <2> QED BY <2>2, <2>3, EmptySeq
  <1>5. /\ PlaybackTypeOK' /\ StoreOK' /\ LoadOK'
        /\ \A g \in Gens : InEngine(g)' <=> InEngine(g)
        /\ \A stages : Latest(stages)' <=> Latest(stages)
    BY <1>1, <1>2, <1>3, <1>4, EngineAlone
  <1>6. EngineOK' BY <1>1, <1>3, <1>5 DEF IInv, EngineOK, Lingering, GivenUp
  <1>7. PauseOK' BY <1>1, <1>3, <1>5 DEF IInv, PauseOK
  <1>8. SoundOK' BY <1>1, <1>3, <1>4, <1>5 DEF IInv, SoundOK
  <1> QED BY <1>5, <1>6, <1>7, <1>8 DEF IInv

LEMMA SwitchDeviceInv == IInv /\ SwitchDevice => IInv'
  <1> SUFFICES ASSUME IInv, SwitchDevice PROVE IInv' OBVIOUS
  <1>1. /\ player' = player /\ js' = js /\ load' = load /\ asked' = asked
        /\ ended' = ended /\ mishaps' = mishaps \cup {"switch"}
        /\ engine' = [engine EXCEPT !.player = None, !.has = FALSE, !.switching = TRUE]
    BY DEF SwitchDevice, queueVars
  <1>2. engine \in Engine /\ ended \in Seq(Track) /\ mishaps' \subseteq Mishaps
    BY <1>1, Types DEF IInv, PlaybackTypeOK, Engine, Mishaps
  <1>3. /\ engine' \in Engine /\ engine'.player = None /\ engine'.bytes = engine.bytes
        /\ engine'.over = engine.over /\ engine'.notified = engine.notified
    BY <1>1, <1>2 DEF Engine
  <1>4. /\ PlaybackTypeOK' /\ StoreOK' /\ LoadOK'
        /\ \A g \in Gens : InEngine(g)' <=> InEngine(g)
        /\ \A stages : Latest(stages)' <=> Latest(stages)
    BY <1>1, <1>2, <1>3, EngineAlone
  <1>5. EngineOK' BY <1>1, <1>3, <1>4 DEF IInv, EngineOK, GivenUp
  <1>6. PauseOK' /\ SoundOK' BY <1>1 DEF PauseOK, SoundOK
  <1> QED BY <1>4, <1>5, <1>6 DEF IInv

LEMMA DeviceSwitchedInv == IInv /\ DeviceSwitched => IInv'
  <1> SUFFICES ASSUME IInv, DeviceSwitched PROVE IInv' OBVIOUS
  <1>1. /\ player' = player /\ js' = js /\ load' = load /\ asked' = asked
        /\ ended' = ended /\ mishaps' = mishaps
    BY DEF DeviceSwitched, queueVars
  <1>2. \/ engine' = [engine EXCEPT !.switching = FALSE, !.quiet = TRUE]
        \/ engine' = [engine EXCEPT !.switching = FALSE, !.quiet = TRUE, !.has = TRUE,
                        !.player = engine.bytes, !.notified = FALSE]
    BY DEF DeviceSwitched
  <1>3. engine \in Engine /\ ended \in Seq(Track) /\ mishaps \subseteq Mishaps
    BY Types DEF IInv, PlaybackTypeOK, Engine
  <1>4. /\ engine' \in Engine /\ engine'.bytes = engine.bytes /\ engine'.over = engine.over
        /\ engine'.paused = engine.paused /\ engine'.switching = FALSE
        /\ engine'.notified = engine.notified \/ engine'.notified = FALSE
        /\ engine'.player = engine.player \/ engine'.player = engine.bytes
    BY <1>2, <1>3 DEF Engine
  <1>5. "switch" \in mishaps BY DEF DeviceSwitched, IInv, EngineOK
  <1>6. /\ PlaybackTypeOK' /\ StoreOK' /\ LoadOK'
        /\ \A g \in Gens : InEngine(g)' <=> InEngine(g)
        /\ \A stages : Latest(stages)' <=> Latest(stages)
    BY <1>1, <1>3, <1>4, EngineAlone
  <1>7. EngineOK' BY <1>1, <1>4, <1>6 DEF IInv, EngineOK, Lingering, GivenUp
  <1>8. PauseOK' /\ SoundOK' BY <1>1, <1>5 DEF PauseOK, SoundOK
  <1> QED BY <1>6, <1>7, <1>8 DEF IInv

-------------------------------------------------------------------------------
(* The invariant. *)

LEMMA InitInv == PlaybackInit => IInv
  <1> SUFFICES ASSUME PlaybackInit PROVE IInv OBVIOUS
  <1>1. PICK q \in Lineups, mode \in {"off", "one", "all"} :
          player = [current |-> q[1], queue |-> q, original |-> None, index |-> 0,
                    playing |-> FALSE, shuffle |-> FALSE, repeat |-> mode]
    BY DEF PlaybackInit
  <1>2. q \in Seq(Track) /\ Len(q) <= MaxQueue /\ q # <<>> /\ q \in Queues
    BY Constants, QueuesAre
  <1>3. Len(q) \in Nat /\ Len(q) > 0 /\ q[1] \in Track
    BY <1>2, LenProperties, EmptySeq, ElementOfSeq
  <1>4. player \in Store
    <2>1. 0 \in -1..MaxQueue BY Constants
    <2> QED BY <1>1, <1>2, <1>3, <2>1 DEF Store
  <1>5. /\ player.current = q[1] /\ player.queue = q /\ player.original = None
        /\ player.index = 0 /\ player.playing = FALSE /\ player.shuffle = FALSE
    BY <1>1
  <1>6. /\ js.urn = None /\ js.has = FALSE /\ js.gen = 0 /\ asked = None /\ ended = <<>> /\ mishaps = {}
    BY DEF PlaybackInit
  <1>7. /\ engine.player = None /\ engine.bytes = None /\ engine.notified = FALSE
        /\ engine.switching = FALSE
    BY DEF PlaybackInit
  <1>8. \A g \in Gens : load[g].at = "none" /\ load[g] \in LoadRow
    BY DEF PlaybackInit, NoLoad, LoadRow
  <1>9. load \in [Gens -> LoadRow] BY <1>8 DEF PlaybackInit
  <1>10. js \in [urn : Track \cup {None}, has : BOOLEAN, gen : 0..MaxLoads]
    <2>1. 0 \in 0..MaxLoads BY Constants
    <2> QED BY <2>1 DEF PlaybackInit
  <1>11. engine \in Engine BY DEF PlaybackInit, Engine
  <1>12. ended \in Seq(Track) BY <1>6, EmptySeq
  <1>13. PlaybackTypeOK
    BY <1>4, <1>6, <1>9, <1>10, <1>11, <1>12 DEF PlaybackTypeOK, LoadRow, Engine
  <1>14. StoreOK
    <2>1. player.index \in 0..(Len(player.queue) - 1) BY <1>3, <1>5
    <2>2. player.queue[player.index + 1] = player.current BY <1>5
    <2> QED BY <1>2, <1>3, <1>5, <1>6, <2>1, <2>2 DEF StoreOK
  <1>15. \A stages : ~Latest(stages) BY <1>6 DEF Latest
  <1>16. LoadOK BY <1>6, <1>8, <1>15 DEF LoadOK
  <1>17. EngineOK BY <1>7, <1>8 DEF EngineOK, InEngine
  <1>18. PauseOK BY <1>7 DEF PauseOK
  <1>19. SoundOK BY <1>5, <1>6, <1>15 DEF SoundOK
  <1> QED BY <1>13, <1>14, <1>16, <1>17, <1>18, <1>19 DEF IInv

LEMMA NextInv == IInv /\ [PlaybackNext]_playbackVars => IInv'
  <1> SUFFICES ASSUME IInv, [PlaybackNext]_playbackVars PROVE IInv' OBVIOUS
  <1>1. CASE Use \/ Reload \/ Ended \/ Autoplay \/ Seek
    BY <1>1, UseInv, ReloadInv, EndedInv, AutoplayInv, SeekInv
  <1>2. ASSUME NEW g \in Gens,
               Fetched(g) \/ FetchFails(g) \/ Loaded(g) \/ Failed(g)
                 \/ Read(g) \/ Commit(g) \/ LoadFileFails(g)
        PROVE IInv'
    BY <1>2, FetchedInv, FailingInv, LoadedInv, FailedInv, ReadInv, CommitInv
  <1>3. CASE RunsOut \/ SuppressionEnds \/ Tick \/ SwitchDevice \/ DeviceSwitched
    BY <1>3, RunsOutInv, SuppressionEndsInv, TickInv, SwitchDeviceInv, DeviceSwitchedInv
  <1>4. CASE UNCHANGED playbackVars
    <2>1. /\ player' = player /\ asked' = asked /\ js' = js /\ load' = load
          /\ engine' = engine /\ ended' = ended /\ mishaps' = mishaps
      BY <1>4 DEF playbackVars, vars
    <2>2. engine \in Engine /\ ended \in Seq(Track) /\ mishaps \subseteq Mishaps
      BY Types DEF IInv, PlaybackTypeOK, Engine
    <2>3. /\ PlaybackTypeOK' /\ StoreOK' /\ LoadOK'
          /\ \A g \in Gens : InEngine(g)' <=> InEngine(g)
          /\ \A stages : Latest(stages)' <=> Latest(stages)
      BY <2>1, <2>2, EngineAlone
    <2>4. EngineOK' /\ PauseOK' BY <2>1, <2>3 DEF IInv, EngineOK, PauseOK, Lingering, GivenUp
    <2>5. SoundOK' BY <2>1, <2>3 DEF IInv, SoundOK
    <2> QED BY <2>3, <2>4, <2>5 DEF IInv
  <1> QED BY <1>1, <1>2, <1>3, <1>4 DEF PlaybackNext

\* The store points at the track it shows, if it shows one.  Until a track is given up
\* while its load goes on, which prev() on a cleared queue and a stop that misses the lock
\* lead to as well as a selection during the decoding, the last load is of the track that
\* is shown and the engine plays no other, whatever the order in which commands, answers
\* and ends of tracks arrive.
THEOREM PlaybackInvariant == PlaybackSpec => []IInv
  <1> QED BY InitInv, NextInv, PTL DEF PlaybackSpec

\* The store, the loads of audio.ts and the state of the engine keep their types.
THEOREM PlaybackTypeCorrect == PlaybackSpec => []PlaybackTypeOK
  <1>1. IInv => PlaybackTypeOK BY DEF IInv
  <1> QED BY <1>1, PlaybackInvariant, PTL

\* At rest, what is heard is the track the store shows: every load the engine commits is
\* asked for by the last selection, unless a track was given up during its decoding, or
\* for none during its download, or for none with a stop that missed the lock.
THEOREM WhatIsHeardIsShown == PlaybackSpec => []HeardIsShown
  <1>1. IInv => HeardIsShown
    <2> SUFFICES ASSUME IInv, AtRest, Heard, ~GivenUp
                 PROVE engine.player = player.current
      BY DEF HeardIsShown, GivenUp
    <2>1. js.gen > 0 => js.gen \in Gens /\ load[js.gen].at \in {"none", "end"}
      BY Types DEF AtRest
    <2>2. ~Lingering BY <2>1 DEF Lingering, Latest, Heard
    <2> QED BY <2>2 DEF Heard, IInv, EngineOK
  <1> QED BY <1>1, PlaybackInvariant, PTL

\* At rest, a store that says paused is silent: the last answer of the engine was followed
\* by what the store said then, and every pause since was passed on.
THEOREM APausedStoreIsSilent == PlaybackSpec => []PausedIsSilent
  <1>1. IInv => PausedIsSilent
    <2> SUFFICES ASSUME IInv, AtRest, ~player.playing, Heard,
                        mishaps \cap {"missed", "overtaken", "switch"} = {}
                 PROVE FALSE
      BY DEF PausedIsSilent
    <2>1. engine.bytes # None /\ ~engine.paused BY DEF Heard, IInv, PauseOK
    <2>2. Latest({"loaded", "end"}) BY <2>1 DEF IInv, EngineOK
    <2>3. Latest({"end"}) BY <2>2, Types DEF AtRest, Latest
    <2> QED BY <2>1, <2>3 DEF Heard, IInv, PauseOK
  <1> QED BY <1>1, PlaybackInvariant, PTL

\* At rest, a store that says playing is heard, if its queue was not cleared, it shows a
\* track and none of the races happened: a track that ends is followed by another, and a load that fails
\* pauses the store.
THEOREM APlayingStoreIsHeard == PlaybackSpec => []SilenceIsMeant
  <1>1. IInv => SilenceIsMeant
    <2> SUFFICES ASSUME IInv, AtRest, player.playing, player.queue # <<>>,
                        player.current # None, mishaps = {}
                 PROVE Heard
      BY DEF SilenceIsMeant
    <2>1. ~Latest(UnderWay) BY Types DEF AtRest, Latest, UnderWay
    <2>2. js.has BY <2>1 DEF AtRest, IInv, SoundOK
    <2>3. /\ engine.player # None /\ ~engine.paused
          /\ engine.over /\ engine.notified => ended # <<>>
      BY <2>2 DEF IInv, SoundOK
    <2>4. engine.has BY <2>3 DEF IInv, PauseOK
    <2>5. ~engine.over BY <2>3, <2>4 DEF AtRest
    <2> QED BY <2>3, <2>5 DEF Heard
  <1> QED BY <1>1, PlaybackInvariant, PTL

===============================================================================
