--------------------------- MODULE RegisterProofs ---------------------------
(***************************************************************************)
(* What the character store does with the rows it is given, for every      *)
(* number of characters, records and requests: a save together is whole or *)
(* not at all, a deleted character stays deleted, no row goes back, the    *)
(* newest of each row is in the tables or on its way there, and with that  *)
(* that the store implements `Register`.                                   *)
(*                                                                         *)
(* The order of what is on its way is what it all rests on: requests are   *)
(* numbered as they are sent, and stay in that order while they wait, are  *)
(* batched, kept, compacted or written.                                    *)
(***************************************************************************)
EXTENDS StoreProofs

-----------------------------------------------------------------------------
(* Sequences and what is in them.                                         *)

LEMMA InSet ==
    ASSUME NEW S, NEW s \in Seq(S)
    PROVE  /\ Len(s) \in Nat /\ ToSet(s) \subseteq S
           /\ \A x : x \in ToSet(s) <=> \E i \in 1..Len(s) : x = s[i]
           /\ s = <<>> => ToSet(s) = {}
BY LenProperties, ElementOfSeq DEF ToSet

LEMMA SetOfConcat ==
    ASSUME NEW S, NEW s \in Seq(S), NEW t \in Seq(S)
    PROVE  s \o t \in Seq(S) /\ ToSet(s \o t) = ToSet(s) \cup ToSet(t)
<1>1. /\ s \o t \in Seq(S) /\ Len(s) \in Nat /\ Len(t) \in Nat
      /\ Len(s \o t) = Len(s) + Len(t)
      /\ \A i \in 1..(Len(s) + Len(t)) :
            (s \o t)[i] = IF i <= Len(s) THEN s[i] ELSE t[i - Len(s)]
    BY ConcatProperties, LenProperties
<1>2. ASSUME NEW x \in ToSet(s \o t) PROVE x \in ToSet(s) \cup ToSet(t)
    <2>1. PICK i \in 1..Len(s) + Len(t) : x = (s \o t)[i]
        BY <1>1, InSet
    <2>2. CASE i <= Len(s)
        BY <1>1, <2>1, <2>2, InSet
    <2>3. CASE ~(i <= Len(s))
        <3> DEFINE j == i - Len(s)
        <3>1. j \in 1..Len(t) /\ x = t[j]
            BY <1>1, <2>1, <2>3
        <3> HIDE DEF j
        <3> QED BY <3>1, InSet
    <2> QED BY <2>2, <2>3
<1>3. ASSUME NEW x \in ToSet(s) PROVE x \in ToSet(s \o t)
    <2>1. PICK i \in 1..Len(s) : x = s[i]
        BY InSet
    <2>2. i \in 1..Len(s \o t) /\ x = (s \o t)[i]
        BY <1>1, <2>1
    <2> QED BY <1>1, <2>2, InSet
<1>4. ASSUME NEW x \in ToSet(t) PROVE x \in ToSet(s \o t)
    <2>1. PICK i \in 1..Len(t) : x = t[i]
        BY InSet
    <2> DEFINE j == i + Len(s)
    <2>2. j \in 1..Len(s \o t) /\ x = (s \o t)[j]
        BY <1>1, <2>1
    <2> HIDE DEF j
    <2> QED BY <1>1, <2>2, InSet
<1> QED BY <1>1, <1>2, <1>3, <1>4

(* A sequence, its first elements and the rest.                           *)
LEMMA SetOfParts ==
    ASSUME NEW S, NEW s \in Seq(S), NEW n \in 0..Len(s)
    PROVE  /\ SubSeq(s, 1, n) \in Seq(S) /\ SubSeq(s, n + 1, Len(s)) \in Seq(S)
           /\ s = SubSeq(s, 1, n) \o SubSeq(s, n + 1, Len(s))
           /\ Len(SubSeq(s, 1, n)) = n /\ Len(SubSeq(s, n + 1, Len(s))) = Len(s) - n
           /\ \A i \in 1..n : SubSeq(s, 1, n)[i] = s[i]
           /\ \A i \in 1..Len(s) - n : SubSeq(s, n + 1, Len(s))[i] = s[n + i]
<1> DEFINE a == SubSeq(s, 1, n)
           b == SubSeq(s, n + 1, Len(s))
<1>1. Len(s) \in Nat /\ \A i \in 1..Len(s) : s[i] \in S
    BY LenProperties, ElementOfSeq
<1>2. a \in Seq(S) /\ Len(a) = n /\ \A i \in 1..n : a[i] = s[i]
    <2>1. \A i \in 1..n : s[i] \in S
        BY <1>1
    <2>2. 1 \in Int /\ n \in Int /\ n - 1 + 1 = n /\ \A i \in 1..n : 1 + i - 1 = i
        BY <1>1
    <2> QED BY <1>1, <2>1, <2>2, SubSeqProperties
<1>3. b \in Seq(S) /\ Len(b) = Len(s) - n /\ \A i \in 1..Len(s) - n : b[i] = s[n + i]
    <2>1. \A i \in n + 1..Len(s) : s[i] \in S
        BY <1>1
    <2>2. n + 1 \in Int /\ Len(s) \in Int
        BY <1>1
    <2>3. /\ IF n + 1 <= Len(s) + 1 THEN Len(b) = Len(s) - (n + 1) + 1 ELSE Len(b) = 0
          /\ b \in Seq(S)
          /\ \A i \in 1..(Len(s) - (n + 1) + 1) : b[i] = s[n + 1 + i - 1]
        BY <1>1, <2>1, <2>2, SubSeqProperties
    <2> QED BY <1>1, <2>3
<1> HIDE DEF a, b
<1>4. a \o b \in Seq(S) /\ Len(a \o b) = Len(s)
      /\ \A i \in 1..Len(s) : (a \o b)[i] = s[i]
    <2>1. /\ a \o b \in Seq(S) /\ Len(a \o b) = Len(a) + Len(b)
          /\ \A i \in 1..Len(a) + Len(b) :
                (a \o b)[i] = IF i <= Len(a) THEN a[i] ELSE b[i - Len(a)]
        BY <1>2, <1>3, ConcatProperties
    <2>2. Len(a) + Len(b) = Len(s)
        BY <1>1, <1>2, <1>3
    <2>3. ASSUME NEW i \in 1..Len(s) PROVE (a \o b)[i] = s[i]
        <3>1. CASE i <= n
            BY <1>1, <1>2, <2>1, <2>2, <3>1
        <3>2. CASE ~(i <= n)
            <4>1. i - n \in 1..Len(s) - n /\ n + (i - n) = i
                BY <1>1, <3>2
            <4> QED BY <1>1, <1>2, <1>3, <2>1, <2>2, <3>2, <4>1
        <3> QED BY <3>1, <3>2
    <2> QED BY <2>1, <2>2, <2>3
<1>5. a \o b = s
    BY <1>4, SeqEqual
<1> QED BY <1>2, <1>3, <1>5 DEF a, b

LEMMA SetOfTail ==
    ASSUME NEW S, NEW s \in Seq(S), s # <<>>
    PROVE  /\ Head(s) \in S /\ Tail(s) \in Seq(S) /\ Head(s) = s[1]
           /\ Len(s) \in Nat \ {0} /\ Len(Tail(s)) = Len(s) - 1
           /\ \A i \in 1..Len(s) - 1 : Tail(s)[i] = s[i + 1]
           /\ ToSet(s) = {Head(s)} \cup ToSet(Tail(s))
<1>1. /\ Head(s) \in S /\ Tail(s) \in Seq(S) /\ Head(s) = s[1]
      /\ Len(s) \in Nat \ {0} /\ Len(Tail(s)) = Len(s) - 1
      /\ \A i \in 1..Len(s) - 1 : Tail(s)[i] = s[i + 1]
    BY HeadTailProperties, EmptySeq, LenProperties
<1>2. ASSUME NEW x \in ToSet(s) PROVE x = Head(s) \/ x \in ToSet(Tail(s))
    <2>1. PICK i \in 1..Len(s) : x = s[i]
        BY InSet
    <2>2. CASE i = 1
        BY <1>1, <2>1, <2>2
    <2>3. CASE i # 1
        <3> DEFINE j == i - 1
        <3>1. j \in 1..Len(Tail(s)) /\ x = Tail(s)[j]
            BY <1>1, <2>1, <2>3
        <3> HIDE DEF j
        <3> QED BY <1>1, <3>1, InSet
    <2> QED BY <2>2, <2>3
<1>3. Head(s) \in ToSet(s)
    BY <1>1, InSet
<1>4. ASSUME NEW x \in ToSet(Tail(s)) PROVE x \in ToSet(s)
    <2>1. PICK i \in 1..Len(Tail(s)) : x = Tail(s)[i]
        BY <1>1, InSet
    <2>2. i + 1 \in 1..Len(s) /\ x = s[i + 1]
        BY <1>1, <2>1
    <2> DEFINE j == i + 1
    <2>3. j \in 1..Len(s) /\ x = s[j]
        BY <2>2
    <2> HIDE DEF j
    <2> QED BY <2>3, InSet
<1> QED BY <1>1, <1>2, <1>3, <1>4

(* t is s without what is not at the indices I.                           *)
Picks(t, s, I) ==
    \E f \in [1..Len(t) -> I] :
        /\ \A j \in 1..Len(t) : t[j] = s[f[j]]
        /\ \A i, j \in 1..Len(t) : i < j => f[i] < f[j]
        /\ \A i \in I : \E j \in 1..Len(t) : f[j] = i

(* The elements picked out of a sequence are in the order they were in,    *)
(* and none picked is left out.                                           *)
LEMMA AtIs ==
    ASSUME NEW S, NEW s \in Seq(S), NEW I, I \subseteq 1..Len(s)
    PROVE  Picks(At(s, I), s, I)
<1> DEFINE C == Cardinality(I)
           f == [j \in 1..C |-> CHOOSE i \in I : Rank(I, i) = j]
<1>1. /\ Len(s) \in Nat /\ C \in Nat /\ IsFiniteSet(I)
      /\ \A j \in 1..C : \E i \in I : Rank(I, i) = j
    <2>1. Len(s) \in Nat /\ Len(s) \in Int /\ 1 \in Int
        BY LenProperties
    <2>2. IsFiniteSet(1..Len(s))
        BY <2>1, FS_Interval
    <2>3. IsFiniteSet(I)
        BY <2>2, FS_Subset
    <2> QED BY <2>1, <2>3, RankOnto
<1>i. I \subseteq Nat /\ \A i \in I : s[i] \in S
    BY <1>1, ElementOfSeq
<1>2. ASSUME NEW i \in I, NEW k \in I
      PROVE  /\ Rank(I, i) \in 1..C
             /\ i <= k => Rank(I, i) <= Rank(I, k)
             /\ i < k => Rank(I, i) # Rank(I, k)
    <2> DEFINE A == {x \in I : x <= i}
               B == {x \in I : x <= k}
    <2>1. /\ IsFiniteSet(A) /\ IsFiniteSet(B)
          /\ Cardinality(A) \in Nat /\ Cardinality(B) \in Nat /\ Cardinality(A) <= C
          /\ A \subseteq B => Cardinality(A) <= Cardinality(B)
          /\ A \subseteq B /\ A # B => Cardinality(A) # Cardinality(B)
        BY <1>1, FS_Subset, FS_CardinalityType
    <2>2. i \in A /\ Cardinality(A) # 0
        <3>1. i \in A
            BY <1>i
        <3> QED BY <2>1, <3>1, FS_EmptySet
    <2>3. i <= k => A \subseteq B
        <3>1. ASSUME i <= k, NEW x \in I, x <= i PROVE x <= k
            BY <1>i, <3>1
        <3> QED BY <3>1
    <2>4. i < k => A # B
        <3>1. i < k => k \in B /\ k \notin A
            BY <1>i
        <3> QED BY <3>1
    <2>5. i < k => i <= k
        BY <1>1
    <2> QED BY <1>1, <2>1, <2>2, <2>3, <2>4, <2>5 DEF Rank
<1>3. f \in [1..C -> I] /\ \A j \in 1..C : Rank(I, f[j]) = j
    <2>1. ASSUME NEW j \in 1..C
          PROVE  /\ (CHOOSE i \in I : Rank(I, i) = j) \in I
                 /\ Rank(I, CHOOSE i \in I : Rank(I, i) = j) = j
        BY <1>1
    <2> QED BY <2>1
<1>4. At(s, I) = [j \in 1..C |-> s[f[j]]]
    BY DEF At
<1> HIDE DEF f
<1>5. Len(At(s, I)) = C
    <2>1. At(s, I) \in [1..C -> S]
        BY <1>3, <1>4, <1>i
    <2> HIDE DEF C
    <2>2. At(s, I) \in Seq(S)
        BY <1>1, <2>1, SeqDef
    <2> QED BY <1>1, <2>1, <2>2, LenProperties
<1> HIDE DEF C
<1>6. ASSUME NEW i \in 1..C, NEW j \in 1..C, i < j PROVE f[i] < f[j]
    <2>1. f[i] \in I /\ f[j] \in I /\ Rank(I, f[i]) = i /\ Rank(I, f[j]) = j
        BY <1>3
    <2>2. f[j] <= f[i] => j <= i
        BY <1>2, <2>1
    <2>3. f[i] \in Nat /\ f[j] \in Nat
        BY <1>i, <2>1
    <2> QED BY <1>1, <1>6, <2>2, <2>3
<1>7. ASSUME NEW i \in I PROVE \E j \in 1..C : f[j] = i
    <2>1. PICK j \in 1..C : j = Rank(I, i)
        BY <1>2
    <2>2. f[j] \in I /\ Rank(I, f[j]) = Rank(I, i)
        BY <1>3, <2>1
    <2>3. ~(f[j] < i) /\ ~(i < f[j])
        BY <1>2, <2>2
    <2>4. f[j] \in Nat /\ i \in Nat
        BY <1>i, <2>2
    <2> QED BY <2>3, <2>4
<1> QED BY <1>3, <1>4, <1>5, <1>6, <1>7 DEF Picks

-----------------------------------------------------------------------------
(* The order of saves.                                                    *)

(* Saves in the order they were made.                                     *)
Sorted(saves) == \A i, j \in 1..Len(saves) : i < j => saves[i].id < saves[j].id

(* Those of the saves S that the tables take and that have a row of k.     *)
Good(S, k) == {s \in S : k \in Of(s) /\ ~Bad(s)}

(* row is what the last of them says of k, or r, where none says anything. *)
FinalOf(S, k, row, r) ==
    \/ Good(S, k) = {} /\ row = r
    \/ \E s \in Good(S, k) : row = s.rows[k] /\ \A t \in Good(S, k) : t.id <= s.id

LEMMA OneOfId ==
    ASSUME NEW saves \in Seq(Save), Sorted(saves),
           NEW s \in ToSet(saves), NEW t \in ToSet(saves), s.id = t.id
    PROVE  s = t
<1>1. PICK i \in 1..Len(saves) : s = saves[i]
    BY InSet
<1>2. PICK j \in 1..Len(saves) : t = saves[j]
    BY InSet
<1>3. s.id \in Nat /\ t.id \in Nat
    BY <1>1, <1>2, ElementOfSeq, SaveTypes
<1>4. ~(i < j) /\ ~(j < i)
    BY <1>1, <1>2, <1>3 DEF Sorted
<1> QED BY <1>1, <1>2, <1>4, LenProperties

LEMMA SortedConcat ==
    ASSUME NEW a \in Seq(Save), NEW b \in Seq(Save), Sorted(a), Sorted(b),
           \A s \in ToSet(a), t \in ToSet(b) : s.id < t.id
    PROVE  Sorted(a \o b)
<1>1. /\ Len(a) \in Nat /\ Len(b) \in Nat /\ Len(a \o b) = Len(a) + Len(b)
      /\ \A i \in 1..(Len(a) + Len(b)) :
            (a \o b)[i] = IF i <= Len(a) THEN a[i] ELSE b[i - Len(a)]
    BY ConcatProperties, LenProperties
<1>2. SUFFICES ASSUME NEW i \in 1..Len(a \o b), NEW j \in 1..Len(a \o b), i < j
               PROVE  (a \o b)[i].id < (a \o b)[j].id
    BY DEF Sorted
<1>3. CASE j <= Len(a)
    BY <1>1, <1>2, <1>3 DEF Sorted
<1>4. CASE i <= Len(a) /\ ~(j <= Len(a))
    <2> DEFINE m == j - Len(a)
    <2>1. /\ m \in 1..Len(b) /\ i \in 1..Len(a)
          /\ (a \o b)[i] = a[i] /\ (a \o b)[j] = b[m]
        BY <1>1, <1>2, <1>4
    <2> HIDE DEF m
    <2>2. a[i] \in ToSet(a) /\ b[m] \in ToSet(b)
        BY <2>1, InSet
    <2> QED BY <2>1, <2>2
<1>5. CASE ~(i <= Len(a))
    <2> DEFINE l == i - Len(a)
               m == j - Len(a)
    <2>1. /\ m \in 1..Len(b) /\ l \in 1..Len(b) /\ l < m
          /\ (a \o b)[i] = b[l] /\ (a \o b)[j] = b[m]
        BY <1>1, <1>2, <1>5
    <2> HIDE DEF l, m
    <2> QED BY <2>1 DEF Sorted
<1> QED BY <1>1, <1>3, <1>4, <1>5

LEMMA SortedTail ==
    ASSUME NEW s \in Seq(Save), s # <<>>, Sorted(s)
    PROVE  Sorted(Tail(s)) /\ \A t \in ToSet(Tail(s)) : Head(s).id < t.id
<1>1. /\ Tail(s) \in Seq(Save) /\ Head(s) = s[1]
      /\ Len(s) \in Nat \ {0} /\ Len(Tail(s)) = Len(s) - 1
      /\ \A i \in 1..Len(s) - 1 : Tail(s)[i] = s[i + 1]
    BY SetOfTail
<1>2. \A i, j \in 1..Len(Tail(s)) : i < j => Tail(s)[i].id < Tail(s)[j].id
    <2> SUFFICES ASSUME NEW i \in 1..Len(Tail(s)), NEW j \in 1..Len(Tail(s)), i < j
                 PROVE  Tail(s)[i].id < Tail(s)[j].id
        OBVIOUS
    <2> DEFINE l == i + 1
               m == j + 1
    <2>1. /\ l \in 1..Len(s) /\ m \in 1..Len(s) /\ l < m
          /\ Tail(s)[i] = s[l] /\ Tail(s)[j] = s[m]
        BY <1>1
    <2> HIDE DEF l, m
    <2> QED BY <2>1 DEF Sorted
<1>3. ASSUME NEW t \in ToSet(Tail(s)) PROVE Head(s).id < t.id
    <2>1. PICK i \in 1..Len(Tail(s)) : t = Tail(s)[i]
        BY <1>1, InSet
    <2> DEFINE l == i + 1
    <2>2. l \in 1..Len(s) /\ 1 \in 1..Len(s) /\ 1 < l /\ t = s[l]
        BY <1>1, <2>1
    <2> HIDE DEF l
    <2> QED BY <1>1, <2>2 DEF Sorted
<1> QED BY <1>2, <1>3 DEF Sorted

(* What the last good save of a sorted run says of a row.                 *)
LEMMA AfterGoodLast ==
    ASSUME NEW saves \in Seq(Save), Sorted(saves), NEW k \in Keys, NEW r
    PROVE  FinalOf(ToSet(saves), k, AfterGood(saves, k, r), r)
<1> DEFINE I == {i \in 1..Len(saves) : k \in Of(saves[i]) /\ ~Bad(saves[i])}
<1>1. Len(saves) \in Nat /\ \A i \in 1..Len(saves) : saves[i].id \in Nat
    BY InSet, ElementOfSeq, SaveTypes
<1>2. CASE I = {}
    <2>1. Good(ToSet(saves), k) = {}
        BY <1>2, InSet DEF Good
    <2> QED BY <1>2, <2>1 DEF AfterGood, SelectLastInSeq, FinalOf
<1>3. CASE I # {}
    <2>1. \E m \in I : \A i \in I : m >= i
        BY <1>1, <1>3, GreatestOf
    <2>2. Max(I) \in I /\ \A i \in I : i <= Max(I)
        BY <1>1, <2>1 DEF Max
    <2> DEFINE m == Max(I)
    <2>3. m # 0
        BY <2>2, <1>1
    <2>4. AfterGood(saves, k, r) = saves[m].rows[k]
        BY <1>3, <2>3 DEF AfterGood, SelectLastInSeq
    <2>5. saves[m] \in Good(ToSet(saves), k)
        BY <2>2, InSet DEF Good
    <2> HIDE DEF m
    <2>6. ASSUME NEW t \in Good(ToSet(saves), k) PROVE t.id <= saves[m].id
        <3>1. PICK i \in 1..Len(saves) : t = saves[i]
            BY InSet DEF Good
        <3>2. i \in I /\ i <= m /\ m \in 1..Len(saves)
            BY <2>2, <3>1 DEF Good, m
        <3>3. i = m \/ i < m
            BY <1>1, <3>2
        <3> QED BY <1>1, <3>1, <3>2, <3>3 DEF Sorted
    <2> QED BY <2>4, <2>5, <2>6 DEF FinalOf
<1> QED BY <1>2, <1>3

(* As for the rows of those the tables take, if they take all.             *)
LEMMA AfterAllGood ==
    ASSUME NEW saves \in Seq(Save), NEW k \in Keys, NEW r,
           \A i \in 1..Len(saves) : k \in Of(saves[i]) => ~Bad(saves[i])
    PROVE  After(saves, k, r) = AfterGood(saves, k, r)
<1>1. {i \in 1..Len(saves) : k \in Of(saves[i])}
        = {i \in 1..Len(saves) : k \in Of(saves[i]) /\ ~Bad(saves[i])}
    OBVIOUS
<1> QED BY <1>1 DEF After, AfterGood, SelectLastInSeq

(* What is kept is in order, with none left out but what a later save      *)
(* replaces and the oldest, which are lost.                               *)
LEMMA KeepOrder ==
    ASSUME TypeOK, NEW saves \in Seq(Save), Keep(saves), Sorted(pending \o saves)
    PROVE  LET all == ToSet(pending) \cup ToSet(saves) IN
           /\ Sorted(pending') /\ pending' \in Seq(Save) /\ ToSet(pending') \subseteq all
           /\ dropped \subseteq dropped'
           /\ \A d \in dropped' :
                 d \in dropped \/ \E s \in all : d = s.id /\ \A t \in ToSet(pending') : d < t.id
           /\ \A s \in all : \/ s \in ToSet(pending') \/ s.id \in dropped'
                             \/ \E t \in all : Replaces(t, s) /\ s.id < t.id
<1> DEFINE all == pending \o saves
           live == {i \in 1..Len(all) :
                      ~\E j \in i+1..Len(all) : Replaces(all[j], all[i])}
           kept == At(all, live)
           over == IF Len(kept) > MaxKept THEN Len(kept) - MaxKept ELSE 0
<1>1. /\ pending' = SubSeq(kept, over + 1, Len(kept))
      /\ dropped' = dropped \cup {kept[i].id : i \in 1..over}
    BY DEF Keep
<1>2. all \in Seq(Save) /\ ToSet(all) = ToSet(pending) \cup ToSet(saves)
    BY SetOfConcat DEF TypeOK
<1>3. Len(all) \in Nat /\ \A i \in 1..Len(all) : all[i] \in ToSet(all) /\ all[i].id \in Nat
    BY <1>2, InSet, ElementOfSeq, SaveTypes
<1>4. live \subseteq 1..Len(all)
    OBVIOUS
<1>5. \A i \in 1..Len(all) : i \in live \/ \E j \in 1..Len(all) : i < j /\ Replaces(all[j], all[i])
    <2>1. \A i \in 1..Len(all) : \A j \in i+1..Len(all) : j \in 1..Len(all) /\ i < j
        BY <1>3
    <2> QED BY <2>1
<1>9. Sorted(all)
    OBVIOUS
<1> HIDE DEF all, live
<1>6. kept \in Seq(Save) /\ Len(kept) \in Nat
    BY <1>2, <1>4, AtOf, LenProperties
<1>7. PICK f \in [1..Len(kept) -> live] :
              /\ \A j \in 1..Len(kept) : kept[j] = all[f[j]]
              /\ \A i, j \in 1..Len(kept) : i < j => f[i] < f[j]
              /\ \A i \in live : \E j \in 1..Len(kept) : f[j] = i
    <2>1. Picks(kept, all, live)
        BY <1>2, <1>4, AtIs
    <2> QED BY <2>1 DEF Picks
<1>8. over \in 0..Len(kept)
    BY <1>6, StoreAssumption
<1> HIDE DEF kept, over
<1>10. /\ pending' \in Seq(Save) /\ Len(pending') = Len(kept) - over
       /\ \A i \in 1..Len(kept) - over : pending'[i] = kept[over + i]
    BY <1>1, <1>6, <1>8, SetOfParts
<1>11. ASSUME NEW i \in 1..Len(kept), NEW j \in 1..Len(kept), i < j
       PROVE  kept[i].id < kept[j].id
    <2>1. f[i] \in 1..Len(all) /\ f[j] \in 1..Len(all) /\ f[i] < f[j]
        BY <1>4, <1>7, <1>11
    <2> QED BY <1>7, <1>9, <2>1 DEF Sorted
<1>12. \A j \in 1..Len(kept) : kept[j] \in ToSet(all)
    BY <1>3, <1>4, <1>7
<1>13. \A i \in 1..Len(pending') : over + i \in 1..Len(kept) /\ pending'[i] = kept[over + i]
    BY <1>6, <1>8, <1>10
<1>14. Sorted(pending')
    <2> SUFFICES ASSUME NEW i \in 1..Len(pending'), NEW j \in 1..Len(pending'), i < j
                 PROVE  pending'[i].id < pending'[j].id
        BY DEF Sorted
    <2>1. over + i < over + j
        BY <1>6, <1>8, <1>10
    <2> QED BY <1>11, <1>13, <2>1
<1>15. ToSet(pending') \subseteq ToSet(all)
    BY <1>10, <1>12, <1>13, InSet
<1>16. ASSUME NEW d \in dropped', d \notin dropped
       PROVE  \E s \in ToSet(all) : d = s.id /\ \A t \in ToSet(pending') : d < t.id
    <2>1. PICK i \in 1..over : d = kept[i].id
        BY <1>1, <1>16
    <2>2. i \in 1..Len(kept)
        BY <1>6, <1>8
    <2>3. ASSUME NEW t \in ToSet(pending') PROVE d < t.id
        <3>1. PICK j \in 1..Len(pending') : t = pending'[j]
            BY <1>10, InSet
        <3>2. i < over + j
            BY <1>6, <1>8, <1>10
        <3> QED BY <1>11, <1>13, <2>1, <2>2, <3>1, <3>2
    <2> QED BY <1>12, <2>1, <2>2, <2>3
<1>17. ASSUME NEW s \in ToSet(all), s \notin ToSet(pending'), s.id \notin dropped'
       PROVE  \E t \in ToSet(all) : Replaces(t, s) /\ s.id < t.id
    <2>1. PICK i \in 1..Len(all) : s = all[i]
        BY <1>2, InSet
    <2>2. i \notin live
        <3> SUFFICES ASSUME i \in live PROVE FALSE
            OBVIOUS
        <3>1. PICK j \in 1..Len(kept) : f[j] = i
            BY <1>7
        <3>2. kept[j] = s
            BY <1>7, <2>1, <3>1
        <3>3. j \in 1..over => s.id \in dropped'
            BY <1>1, <3>2
        <3>4. j \notin 1..over
            BY <1>17, <3>3
        <3> DEFINE m == j - over
        <3>5. m \in 1..Len(pending') /\ over + m = j
            BY <1>6, <1>8, <1>10, <3>4
        <3>6. pending'[m] = s
            BY <1>13, <3>2, <3>5
        <3> HIDE DEF m
        <3> QED BY <1>10, <1>17, <3>5, <3>6, InSet
    <2>3. PICK j \in 1..Len(all) : i < j /\ Replaces(all[j], all[i])
        BY <1>5, <2>2
    <2> QED BY <1>3, <1>9, <2>1, <2>3 DEF Sorted
<1>18. dropped \subseteq dropped'
    BY <1>1
<1> QED BY <1>2, <1>10, <1>14, <1>15, <1>16, <1>17, <1>18

(* What is left of what was kept once a character is deleted: in order,    *)
(* each save without the row, and all of them but what had no other.       *)
LEMMA WithoutOrder ==
    ASSUME NEW kept \in Seq(Save), Sorted(kept), NEW c \in Chars
    PROVE  LET left == KeptWithout(kept, c) IN
           /\ left \in Seq(Save) /\ Sorted(left)
           /\ \A t \in ToSet(left) : \E s \in ToSet(kept) : t = Without(s, c)
           /\ \A s \in ToSet(kept) : s.together \/ Of(s) # {c} => Without(s, c) \in ToSet(left)
<1> DEFINE I == {i \in 1..Len(kept) : kept[i].together \/ Of(kept[i]) # {c}}
           rest == At(kept, I)
           left == KeptWithout(kept, c)
<1>1. I \subseteq 1..Len(kept)
    OBVIOUS
<1>2. left = [i \in 1..Len(rest) |-> Without(rest[i], c)]
    BY DEF KeptWithout
<1>3. \A i \in 1..Len(kept) : (i \in I <=> kept[i].together \/ Of(kept[i]) # {c})
    OBVIOUS
<1> HIDE DEF I, left
<1>4. rest \in Seq(Save) /\ Len(rest) \in Nat /\ Picks(rest, kept, I)
    BY <1>1, AtOf, AtIs, LenProperties
<1> HIDE DEF rest
<1>5. PICK f \in [1..Len(rest) -> I] :
              /\ \A j \in 1..Len(rest) : rest[j] = kept[f[j]]
              /\ \A i, j \in 1..Len(rest) : i < j => f[i] < f[j]
              /\ \A i \in I : \E j \in 1..Len(rest) : f[j] = i
    BY <1>4 DEF Picks
<1>6. \A j \in 1..Len(rest) : f[j] \in I /\ f[j] \in 1..Len(kept)
    BY <1>1, <1>5
<1>7. \A i \in 1..Len(kept) : kept[i] \in Save /\ kept[i] \in ToSet(kept)
    BY InSet, ElementOfSeq
<1>8. \A s \in Save : Without(s, c).id = s.id
    BY DEF Without, Save
<1>9. left \in [1..Len(rest) -> Save]
    BY <1>2, <1>5, <1>6, <1>7, WithoutIs
<1>10. left \in Seq(Save) /\ Len(left) = Len(rest)
    BY <1>4, <1>9, SeqDef, LenProperties
<1>11. \A j \in 1..Len(rest) : left[j] = Without(kept[f[j]], c)
    BY <1>2, <1>5
<1>12. Sorted(left)
    <2> SUFFICES ASSUME NEW i \in 1..Len(rest), NEW j \in 1..Len(rest), i < j
                 PROVE  left[i].id < left[j].id
        BY <1>10 DEF Sorted
    <2>1. f[i] \in 1..Len(kept) /\ f[j] \in 1..Len(kept) /\ f[i] < f[j]
        BY <1>5, <1>6
    <2>2. left[i].id = kept[f[i]].id /\ left[j].id = kept[f[j]].id
        BY <1>7, <1>8, <1>11, <2>1
    <2> QED BY <2>1, <2>2 DEF Sorted
<1>13. \A t \in ToSet(left) : \E s \in ToSet(kept) : t = Without(s, c)
    BY <1>6, <1>7, <1>10, <1>11, InSet
<1>14. ASSUME NEW s \in ToSet(kept), s.together \/ Of(s) # {c}
       PROVE  Without(s, c) \in ToSet(left)
    <2>1. PICK i \in 1..Len(kept) : s = kept[i]
        BY InSet
    <2>2. PICK j \in 1..Len(rest) : f[j] = i
        BY <1>3, <1>5, <1>14, <2>1
    <2>3. left[j] = Without(s, c)
        BY <1>11, <2>1, <2>2
    <2> QED BY <1>10, <2>3, InSet
<1> QED BY <1>10, <1>12, <1>13, <1>14 DEF left

(* A rename leaves what is kept where it is.                              *)
LEMMA RenamedOrder ==
    ASSUME NEW kept \in Seq(Save), Sorted(kept), NEW c \in Chars, NEW name \in Nat
    PROVE  LET left == KeptRenamed(kept, c, name) IN
           /\ left \in Seq(Save) /\ Sorted(left)
           /\ \A t \in ToSet(left) : \E s \in ToSet(kept) : t = Renamed(s, c, name)
           /\ \A s \in ToSet(kept) : Renamed(s, c, name) \in ToSet(left)
<1> DEFINE left == KeptRenamed(kept, c, name)
<1>1. Len(kept) \in Nat /\ left = [i \in 1..Len(kept) |-> Renamed(kept[i], c, name)]
    BY LenProperties DEF KeptRenamed
<1>2. left \in Seq(Save)
    BY KeptAfterRename
<1> HIDE DEF left
<1>3. Len(left) = Len(kept)
    BY <1>1, <1>2, LenProperties
<1>4. \A i \in 1..Len(kept) : kept[i] \in Save /\ kept[i] \in ToSet(kept)
    BY InSet, ElementOfSeq
<1>5. \A s \in Save : Renamed(s, c, name).id = s.id
    BY DEF Renamed, Save
<1>6. Sorted(left)
    BY <1>1, <1>3, <1>4, <1>5 DEF Sorted
<1>7. ASSUME NEW t \in ToSet(left)
      PROVE  \E s \in ToSet(kept) : t = Renamed(s, c, name)
    <2>1. PICK i \in 1..Len(left) : t = left[i]
        BY <1>2, InSet
    <2>2. t = Renamed(kept[i], c, name)
        BY <1>1, <1>3, <2>1
    <2> QED BY <1>3, <1>4, <2>2
<1>8. ASSUME NEW s \in ToSet(kept) PROVE Renamed(s, c, name) \in ToSet(left)
    <2>1. PICK i \in 1..Len(kept) : s = kept[i]
        BY InSet
    <2>2. left[i] = Renamed(s, c, name)
        BY <1>1, <2>1
    <2> QED BY <1>2, <1>3, <2>2, InSet
<1> QED BY <1>2, <1>6, <1>7, <1>8 DEF left
-----------------------------------------------------------------------------
(* The inductive invariant: what is on its way is in order.                *)

HeldSaves == ToSet(pending) \cup ToSet(unwritten) \cup ToSet(writing)
Reqs      == todo \o queue
Sent      == {r \in ToSet(Reqs) : IsSave(r)}

(* A save's rows are its own, under the name their character has.         *)
NameOf(k) == IF value[k] = Absent THEN 0 ELSE value[k].name
Shape ==
    \A s \in HeldSaves \cup Sent : \A k \in Of(s) :
        s.rows[k].id = s.id /\ s.rows[k].name = NameOf(k)
Names == \A k \in Keys : db[k] # Absent => value[k] # Absent /\ db[k].name = value[k].name

(* What the thread holds is in the order it was made, what is yet to come  *)
(* after it, what was dropped before it, and none ahead of the counter.    *)
InTurn ==
    /\ Sorted(pending) /\ Sorted(unwritten) /\ Sorted(writing)
    /\ \A s \in ToSet(unwritten), t \in ToSet(writing) : s.id < t.id
    /\ \A i, j \in 1..Len(Reqs) :
          i < j /\ IsSave(Reqs[i]) /\ IsSave(Reqs[j]) => Reqs[i].id < Reqs[j].id
    /\ \A s \in HeldSaves, t \in Sent : s.id < t.id
    /\ \A d \in dropped : \A s \in HeldSaves \cup Sent : d < s.id
Numbered ==
    /\ \A s \in HeldSaves \cup Sent : s.id <= next
    /\ \A d \in dropped : d <= next
    /\ \A k \in Keys : value[k] # Absent => value[k].id <= next

(* What is yet to come is newer than all there is.                        *)
Fresh ==
    \A s \in Sent : \A k \in Of(s) :
        /\ value[k] # Absent => value[k].id < s.id
        /\ db[k] # Absent => db[k].id < s.id

(* One request at a time is about whether a character is, or its name, and *)
(* no save of it is behind that; of one that isn't there, nothing is.      *)
AskFor(r, c) == r.op \in {"create", "rename", "delete"} /\ r.key = c
NoRow(c) ==
    /\ db[c] = Absent /\ value[c] = Absent
    /\ \A s \in HeldSaves \cup Sent : c \notin Of(s)
Asked(c) ==
    \A i \in 1..Len(Reqs) : AskFor(Reqs[i], c) =>
        /\ life[c] = "asked"
        /\ \A j \in 1..Len(Reqs) : AskFor(Reqs[j], c) => i = j
        /\ Reqs[i].op = "create" => NoRow(c)
        /\ Reqs[i].op # "create" =>
              /\ db[c] # Absent /\ value[c] # Absent
              /\ \A j \in 1..Len(Reqs) : j > i /\ IsSave(Reqs[j]) => c \notin Of(Reqs[j])
Lives ==
    \A c \in Chars :
        /\ life[c] \in {"unborn", "deleted"} => NoRow(c)
        /\ life[c] = "alive" => db[c] # Absent /\ value[c] # Absent
        /\ Asked(c)

Between == pc = "idle" => todo = <<>>

Orders == Shape /\ Names /\ InTurn /\ Numbered /\ Fresh /\ Lives
OInv   == IInv /\ Between /\ Orders

-----------------------------------------------------------------------------
(* What holds of every step that only thins out what is on its way.        *)

OnItsWay ==
    /\ HeldSaves \subseteq Save /\ Sent \subseteq Save
    /\ \A s \in HeldSaves \cup Sent :
          s.id \in Nat /\ \A k \in Of(s) : k \in Keys /\ s.rows[k] \in Row /\ s.rows[k] # Absent
    /\ Reqs \in Seq(Request) /\ Len(Reqs) \in Nat
    /\ \A i \in 1..Len(Reqs) : Reqs[i] \in Request /\ (IsSave(Reqs[i]) => Reqs[i] \in Sent)
    /\ \A s \in Sent : \E i \in 1..Len(Reqs) : s = Reqs[i] /\ IsSave(Reqs[i])
    /\ \A k \in Keys : /\ db[k] # Absent => db[k] \in Row /\ db[k].id \in Nat /\ db[k].name \in Nat
                       /\ value[k] # Absent =>
                             value[k] \in Row /\ value[k].id \in Nat /\ value[k].name \in Nat
    /\ Absent \notin Row

LEMMA OnTheWay == TypeOK => OnItsWay
<1> SUFFICES ASSUME TypeOK PROVE OnItsWay
    OBVIOUS
<1>1. /\ todo \in Seq(Request) /\ queue \in Seq(Request)
      /\ pending \in Seq(Save) /\ unwritten \in Seq(Save) /\ writing \in Seq(Save)
    BY DEF TypeOK
<1>2. Reqs \in Seq(Request) /\ Len(Reqs) \in Nat /\ ToSet(Reqs) \subseteq Request
      /\ \A x : x \in ToSet(Reqs) <=> \E i \in 1..Len(Reqs) : x = Reqs[i]
    <2>1. Reqs \in Seq(Request)
        BY <1>1, SetOfConcat DEF Reqs
    <2> QED BY <2>1, InSet
<1>3. HeldSaves \subseteq Save
    BY <1>1, InSet DEF HeldSaves
<1>4. Sent \subseteq Save
    BY <1>2, RequestTypes DEF Sent
<1>5. \A s \in Save : s.id \in Nat
         /\ \A k \in Of(s) : k \in Keys /\ s.rows[k] \in Row /\ s.rows[k] # Absent
    BY SaveTypes DEF Of
<1>6. \A i \in 1..Len(Reqs) : Reqs[i] \in Request /\ (IsSave(Reqs[i]) => Reqs[i] \in Sent)
    BY <1>2 DEF Sent
<1>7. \A s \in Sent : \E i \in 1..Len(Reqs) : s = Reqs[i] /\ IsSave(Reqs[i])
    BY <1>2 DEF Sent
<1>8. /\ \A k \in Keys : db[k] \in Row \cup {Absent} /\ value[k] \in Row \cup {Absent}
      /\ \A r \in Row : r.id \in Nat /\ r.name \in Nat
    BY DEF TypeOK, Row
<1> QED BY <1>2, <1>3, <1>4, <1>5, <1>6, <1>7, <1>8, Disjoint DEF OnItsWay

LEMMA OnTheWayAfter == TypeOK' => OnItsWay'
BY OnTheWay, PTL

LEMMA HeldIs == TypeOK => Held \in Seq(Save) /\ ToSet(Held) = HeldSaves
<1> SUFFICES ASSUME TypeOK PROVE Held \in Seq(Save) /\ ToSet(Held) = HeldSaves
    OBVIOUS
<1> DEFINE first == pending \o unwritten
<1>1. pending \in Seq(Save) /\ unwritten \in Seq(Save) /\ writing \in Seq(Save)
    BY DEF TypeOK
<1>2. first \in Seq(Save) /\ ToSet(first) = ToSet(pending) \cup ToSet(unwritten)
    BY <1>1, SetOfConcat
<1>3. Held = first \o writing
    BY DEF Held
<1> HIDE DEF first
<1> QED BY <1>1, <1>2, <1>3, SetOfConcat DEF HeldSaves

(* The first n requests are taken.                                        *)
Suffix(n) ==
    /\ n \in 0..Len(Reqs) /\ Len(Reqs)' = Len(Reqs) - n
    /\ \A i \in 1..Len(Reqs)' : Reqs'[i] = Reqs[i + n]

LEMMA FewerAsked ==
    ASSUME TypeOK, TypeOK', NEW n, Suffix(n)
    PROVE  /\ Sent' \subseteq Sent
           /\ n \in Nat /\ Len(Reqs)' \in Nat
           /\ \A i \in 1..Len(Reqs)' : i + n \in 1..Len(Reqs) /\ Reqs'[i] = Reqs[i + n]
<1>1. n \in Nat /\ Len(Reqs) \in Nat /\ Len(Reqs)' \in Nat
    BY OnTheWay DEF OnItsWay, Suffix
<1>2. \A i \in 1..Len(Reqs)' : i + n \in 1..Len(Reqs) /\ Reqs'[i] = Reqs[i + n]
    BY <1>1 DEF Suffix
<1>3. ASSUME NEW s \in Sent' PROVE s \in Sent
    <2>2. PICK i \in 1..Len(Reqs)' : s = Reqs'[i] /\ IsSave(Reqs'[i])
        BY OnTheWayAfter DEF OnItsWay
    <2> DEFINE j == i + n
    <2>3. j \in 1..Len(Reqs) /\ s = Reqs[j] /\ IsSave(Reqs[j])
        BY <1>2, <2>2
    <2> HIDE DEF j
    <2> QED BY <2>3, OnTheWay DEF OnItsWay
<1> QED BY <1>1, <1>2, <1>3

(* Those that are left are asked, and in order, as they were.              *)
LEMMA OrderShift ==
    ASSUME TypeOK, TypeOK', NEW n, Suffix(n), InTurn
    PROVE  \A i, j \in 1..Len(Reqs)' :
              i < j /\ IsSave(Reqs'[i]) /\ IsSave(Reqs'[j]) => Reqs'[i].id < Reqs'[j].id
<1> SUFFICES ASSUME NEW i \in 1..Len(Reqs)', NEW j \in 1..Len(Reqs)',
                    i < j, IsSave(Reqs'[i]), IsSave(Reqs'[j])
             PROVE  Reqs'[i].id < Reqs'[j].id
    OBVIOUS
<1> DEFINE l == i + n
           m == j + n
<1>1. /\ l \in 1..Len(Reqs) /\ m \in 1..Len(Reqs) /\ l < m
      /\ Reqs'[i] = Reqs[l] /\ Reqs'[j] = Reqs[m]
    BY FewerAsked
<1> HIDE DEF l, m
<1> QED BY <1>1 DEF InTurn

LEMMA AskedShift ==
    ASSUME TypeOK, TypeOK', NEW n, Suffix(n), NEW c \in Chars, Asked(c),
           NoRow(c) => NoRow(c)', life'[c] = life[c],
           db[c] # Absent => db'[c] # Absent, value[c] # Absent => value'[c] # Absent
    PROVE  Asked(c)'
<1>0. \A i \in 1..Len(Reqs)' : i + n \in 1..Len(Reqs) /\ Reqs'[i] = Reqs[i + n] /\ n \in Nat
    BY FewerAsked
<1> SUFFICES ASSUME NEW i \in 1..Len(Reqs)', AskFor(Reqs'[i], c)
             PROVE  /\ life'[c] = "asked"
                    /\ \A j \in 1..Len(Reqs)' : AskFor(Reqs'[j], c) => i = j
                    /\ Reqs'[i].op = "create" => NoRow(c)'
                    /\ Reqs'[i].op # "create" =>
                          /\ db'[c] # Absent /\ value'[c] # Absent
                          /\ \A j \in 1..Len(Reqs)' :
                                j > i /\ IsSave(Reqs'[j]) => c \notin Of(Reqs'[j])
    BY DEF Asked, AskFor
<1> DEFINE l == i + n
<1>1. l \in 1..Len(Reqs) /\ Reqs'[i] = Reqs[l]
    BY <1>0
<1>2. /\ life[c] = "asked"
      /\ \A j \in 1..Len(Reqs) : AskFor(Reqs[j], c) => l = j
      /\ Reqs[l].op = "create" => NoRow(c)
      /\ Reqs[l].op # "create" =>
            /\ db[c] # Absent /\ value[c] # Absent
            /\ \A j \in 1..Len(Reqs) : j > l /\ IsSave(Reqs[j]) => c \notin Of(Reqs[j])
    <2> HIDE DEF l
    <2> QED BY <1>1 DEF Asked
<1>3. \A j \in 1..Len(Reqs)' : AskFor(Reqs'[j], c) => i = j
    <2> SUFFICES ASSUME NEW j \in 1..Len(Reqs)', AskFor(Reqs'[j], c) PROVE i = j
        OBVIOUS
    <2>1. j + n \in 1..Len(Reqs) /\ AskFor(Reqs[j + n], c)
        BY <1>0
    <2>2. l = j + n
        BY <1>2, <2>1
    <2> QED BY <1>0, <2>2
<1>4. \A j \in 1..Len(Reqs)' : j > i /\ IsSave(Reqs'[j]) /\ Reqs'[i].op # "create"
                                 => c \notin Of(Reqs'[j])
    <2> SUFFICES ASSUME NEW j \in 1..Len(Reqs)', j > i, IsSave(Reqs'[j]),
                        Reqs'[i].op # "create"
                 PROVE  c \notin Of(Reqs'[j])
        OBVIOUS
    <2> DEFINE m == j + n
    <2>1. m \in 1..Len(Reqs) /\ m > l /\ Reqs'[j] = Reqs[m]
        BY <1>0
    <2> HIDE DEF l, m
    <2> QED BY <1>1, <1>2, <2>1
<1> HIDE DEF l
<1> QED BY <1>1, <1>2, <1>3, <1>4

(* A step that takes some requests, holds some of what was held, and        *)
(* writes some of it, keeps everything in order.                          *)
Written1(k, row) == \E s \in HeldSaves : k \in Of(s) /\ ~Bad(s) /\ row = s.rows[k]

LEMMA SavedIs ==
    ASSUME TypeOK, Known
    PROVE  \A s \in HeldSaves : \A k \in Of(s) : ~Bad(s) => value[k] # Absent
<1>1. ASSUME NEW saves \in Seq(Save), SavedIn(value, saves), NEW s \in ToSet(saves),
             ~Bad(s), NEW k \in Of(s)
      PROVE  value[k] # Absent
    <2>1. PICK i \in 1..Len(saves) : s = saves[i]
        BY <1>1, InSet
    <2> QED BY <1>1, <2>1 DEF SavedIn
<1>2. pending \in Seq(Save) /\ unwritten \in Seq(Save) /\ writing \in Seq(Save)
    BY DEF TypeOK
<1>3. SavedIn(value, pending) /\ SavedIn(value, unwritten) /\ SavedIn(value, writing)
    BY DEF Known
<1> QED BY <1>1, <1>2, <1>3 DEF HeldSaves

LEMMA Thinning ==
    ASSUME TypeOK, TypeOK', Known, Orders, NEW n, Suffix(n),
           Sorted(pending'), Sorted(unwritten'), Sorted(writing'),
           \A s \in ToSet(unwritten'), t \in ToSet(writing') : s.id < t.id,
           HeldSaves' \subseteq HeldSaves, UNCHANGED <<next, life, value>>,
           \A k \in Keys : db'[k] = db[k] \/ Written1(k, db'[k]),
           \A d \in dropped' : \/ d \in dropped
                               \/ \E s \in HeldSaves : d = s.id /\ \A t \in HeldSaves' : d < t.id
    PROVE  Orders'
<1>1. OnItsWay /\ OnItsWay'
    BY OnTheWay, OnTheWayAfter
<1>2. /\ Sent' \subseteq Sent /\ n \in Nat /\ Len(Reqs)' \in Nat
      /\ \A i \in 1..Len(Reqs)' : i + n \in 1..Len(Reqs) /\ Reqs'[i] = Reqs[i + n]
    BY FewerAsked
<1>3. \A k \in Keys : NameOf(k)' = NameOf(k)
    BY DEF NameOf
<1>4. Shape'
    BY <1>1, <1>2, <1>3 DEF Orders, Shape, OnItsWay
<1>5. \A s \in HeldSaves : \A k \in Of(s) : ~Bad(s) => value[k] # Absent
    BY SavedIs
<1>6. Names'
    <2> SUFFICES ASSUME NEW k \in Keys, db'[k] # Absent
                 PROVE  value[k] # Absent /\ db'[k].name = value[k].name
        BY DEF Names
    <2>1. CASE db'[k] = db[k]
        BY <2>1 DEF Orders, Names
    <2>2. CASE Written1(k, db'[k])
        <3>1. PICK s \in HeldSaves : k \in Of(s) /\ ~Bad(s) /\ db'[k] = s.rows[k]
            BY <2>2 DEF Written1
        <3>2. value[k] # Absent
            BY <1>5, <3>1
        <3>3. s.rows[k].name = NameOf(k)
            BY <3>1 DEF Orders, Shape
        <3> QED BY <3>1, <3>2, <3>3 DEF NameOf
    <2> QED BY <2>1, <2>2
<1>7. InTurn'
    <2>1. \A i, j \in 1..Len(Reqs)' :
             i < j /\ IsSave(Reqs'[i]) /\ IsSave(Reqs'[j]) => Reqs'[i].id < Reqs'[j].id
        BY OrderShift DEF Orders
    <2>2. \A s \in HeldSaves', t \in Sent' : s.id < t.id
        BY <1>2 DEF Orders, InTurn
    <2>3. ASSUME NEW d \in dropped', NEW s \in (HeldSaves \cup Sent)' PROVE d < s.id
        <3>1. CASE d \in dropped
            BY <1>2, <3>1 DEF Orders, InTurn
        <3>2. CASE d \notin dropped
            <4>1. PICK u \in HeldSaves : d = u.id /\ \A t \in HeldSaves' : d < t.id
                BY <3>2
            <4> QED BY <1>2, <4>1 DEF Orders, InTurn
        <3> QED BY <3>1, <3>2
    <2> QED BY <2>1, <2>2, <2>3 DEF InTurn
<1>8. Numbered'
    <2>1. \A d \in dropped' : d <= next
        BY <1>1 DEF Orders, Numbered
    <2> QED BY <1>2, <2>1 DEF Orders, Numbered
<1>9. Fresh'
    <2> SUFFICES ASSUME NEW s \in Sent', NEW k \in Of(s)
                 PROVE  /\ value[k] # Absent => value[k].id < s.id
                        /\ db'[k] # Absent => db'[k].id < s.id
        BY DEF Fresh
    <2>1. s \in Sent /\ k \in Keys
        BY <1>1, <1>2 DEF OnItsWay
    <2>2. CASE db'[k] = db[k]
        BY <2>1, <2>2 DEF Orders, Fresh
    <2>3. CASE Written1(k, db'[k])
        BY <2>1, <2>3 DEF Orders, Fresh, Shape, InTurn, Written1
    <2> QED BY <2>1, <2>2, <2>3
<1>10. Lives'
    <2> SUFFICES ASSUME NEW c \in Chars
                 PROVE  /\ life[c] \in {"unborn", "deleted"} => NoRow(c)'
                        /\ life[c] = "alive" => db'[c] # Absent /\ value[c] # Absent
                        /\ Asked(c)'
        BY DEF Lives
    <2>1. c \in Keys
        BY Disjoint
    <2>2. NoRow(c) => NoRow(c)'
        BY <1>2, <2>1 DEF NoRow, Written1
    <2>3. db[c] # Absent => db'[c] # Absent
        BY <1>1, <2>1 DEF OnItsWay, Written1
    <2>4. Asked(c)'
        BY <1>2, <2>1, <2>2, <2>3, AskedShift DEF Orders, Lives
    <2> QED BY <2>2, <2>3, <2>4 DEF Orders, Lives
<1> QED BY <1>4, <1>6, <1>7, <1>8, <1>9, <1>10 DEF Orders

LEMMA NoneTaken ==
    ASSUME TypeOK, UNCHANGED <<todo, queue>>
    PROVE  Suffix(0)
<1>1. Reqs' = Reqs /\ Len(Reqs)' = Len(Reqs) /\ Len(Reqs) \in Nat
    BY OnTheWay DEF Reqs, OnItsWay
<1> QED BY <1>1 DEF Suffix

(* The next request is the first there is.                                *)
LEMMA OneTaken ==
    ASSUME TypeOK, todo # <<>>, todo' = Tail(todo), queue' = queue
    PROVE  Suffix(1) /\ 1 \in 1..Len(Reqs) /\ Head(todo) = Reqs[1]
<1>1. todo \in Seq(Request) /\ queue \in Seq(Request)
    BY DEF TypeOK
<1>2. /\ Tail(todo) \in Seq(Request) /\ Head(todo) = todo[1]
      /\ Len(todo) \in Nat \ {0} /\ Len(Tail(todo)) = Len(todo) - 1
      /\ \A i \in 1..Len(todo) - 1 : Tail(todo)[i] = todo[i + 1]
    BY <1>1, SetOfTail
<1>3. /\ Len(queue) \in Nat /\ Len(Reqs) = Len(todo) + Len(queue)
      /\ \A i \in 1..Len(todo) + Len(queue) :
            Reqs[i] = IF i <= Len(todo) THEN todo[i] ELSE queue[i - Len(todo)]
    BY <1>1, ConcatProperties, LenProperties DEF Reqs
<1>4. /\ Len(Reqs)' = Len(todo) - 1 + Len(queue)
      /\ \A i \in 1..Len(todo) - 1 + Len(queue) :
            Reqs'[i] = IF i <= Len(todo) - 1 THEN Tail(todo)[i] ELSE queue[i - (Len(todo) - 1)]
    BY <1>1, <1>2, ConcatProperties DEF Reqs
<1>5. \A i \in 1..Len(Reqs)' : Reqs'[i] = Reqs[i + 1]
    <2> SUFFICES ASSUME NEW i \in 1..Len(Reqs)' PROVE Reqs'[i] = Reqs[i + 1]
        OBVIOUS
    <2>1. CASE i <= Len(todo) - 1
        BY <1>2, <1>3, <1>4, <2>1
    <2>2. CASE ~(i <= Len(todo) - 1)
        <3>1. i - (Len(todo) - 1) = i + 1 - Len(todo)
            BY <1>2, <1>3, <1>4
        <3>2. Reqs'[i] = queue[i - (Len(todo) - 1)]
            BY <1>4, <2>2
        <3>3. Reqs[i + 1] = queue[i + 1 - Len(todo)]
            BY <1>2, <1>3, <1>4, <2>2
        <3> QED BY <3>1, <3>2, <3>3
    <2> QED BY <2>1, <2>2
<1>6. 1 \in 0..Len(Reqs) /\ Len(Reqs)' = Len(Reqs) - 1 /\ Reqs[1] = todo[1]
    BY <1>2, <1>3, <1>4
<1> QED BY <1>2, <1>3, <1>5, <1>6 DEF Suffix

(* What is queued, up to a batch, is the batch, between batches.           *)
LEMMA TakeTaken ==
    ASSUME TypeOK, Between, Take
    PROVE  Suffix(0)
<1> DEFINE n == IF Len(queue) < MaxBatch THEN Len(queue) ELSE MaxBatch
<1>1. /\ todo' = SubSeq(queue, 1, n) /\ queue' = SubSeq(queue, n + 1, Len(queue))
      /\ todo = <<>> /\ queue \in Seq(Request)
    BY DEF Take, Between, TypeOK
<1>2. Len(queue) \in Nat /\ n \in 0..Len(queue)
    BY <1>1, LenProperties, StoreAssumption
<1> HIDE DEF n
<1>3. queue = todo' \o queue'
    <2>1. queue = SubSeq(queue, 1, n) \o SubSeq(queue, n + 1, Len(queue))
        BY <1>1, <1>2, SetOfParts
    <2> QED BY <1>1, <2>1 DEF n
<1>4. <<>> \o queue = queue
    BY <1>1, ConcatEmptySeq
<1>5. Reqs' = Reqs /\ Len(Reqs)' = Len(Reqs) /\ Len(Reqs) = Len(queue)
    BY <1>1, <1>3, <1>4 DEF Reqs
<1> QED BY <1>2, <1>5 DEF Suffix

LEMMA NoneSorted == Sorted(<<>>) /\ ToSet(<<>>) = {} /\ <<>> \in Seq(Save)
<1>1. <<>> \in Seq(Save) /\ Len(<<>>) = 0
    BY EmptySeq
<1>2. \A s \in Seq(Save) : s = <<>> => ToSet(s) = {}
    BY InSet
<1>3. ToSet(<<>>) = {}
    BY <1>1, <1>2
<1>4. Sorted(<<>>)
    BY <1>1 DEF Sorted
<1> QED BY <1>1, <1>3, <1>4

(* A commit writes rows of the saves it commits.                          *)
LEMMA CommitRows ==
    ASSUME TypeOK, NEW saves \in Seq(Save), \A s \in ToSet(saves) : ~Bad(s), Commit(saves)
    PROVE  \A k \in Keys :
              \/ db'[k] = db[k]
              \/ \E s \in ToSet(saves) : k \in Of(s) /\ ~Bad(s) /\ db'[k] = s.rows[k]
<1> SUFFICES ASSUME NEW k \in Keys
             PROVE  \/ db'[k] = db[k]
                    \/ \E s \in ToSet(saves) : k \in Of(s) /\ ~Bad(s) /\ db'[k] = s.rows[k]
    OBVIOUS
<1>1. db'[k] = After(saves, k, db[k])
    BY DEF Commit, Applied
<1>2. \A i \in 1..Len(saves) : saves[i] \in ToSet(saves)
    BY InSet
<1> QED BY <1>1, <1>2, AfterIs

LEMMA OneSave ==
    ASSUME NEW s \in Save
    PROVE  <<s>> \in Seq(Save) /\ ToSet(<<s>>) = {s} /\ Sorted(<<s>>)
<1>1. <<s>> \in Seq(Save) /\ Len(<<s>>) = 1 /\ <<s>>[1] = s
    OBVIOUS
<1> DEFINE t == <<s>>
<1>2. t \in Seq(Save) /\ Len(t) = 1 /\ t[1] = s
    BY <1>1
<1> HIDE DEF t
<1>3. ToSet(t) = {s} /\ Sorted(t)
    BY <1>2, InSet DEF Sorted
<1> QED BY <1>2, <1>3 DEF t

LEMMA Appending ==
    ASSUME NEW S, NEW s \in Seq(S), NEW x \in S
    PROVE  Append(s, x) \in Seq(S) /\ Append(s, x) = s \o <<x>>
OBVIOUS

(* The thread, as it takes, retries, writes, keeps and reads.              *)
LEMMA ThreadThins ==
    ASSUME OInv, TypeOK',
           \/ Take \/ Retry \/ Write \/ Idle \/ DiskChanges \/ ServeLoad \/ ServeFlush
           \/ UNCHANGED vars
    PROVE  Orders'
<1>1. /\ TypeOK /\ Known /\ Phases /\ Between /\ Orders
      /\ pending \in Seq(Save) /\ unwritten \in Seq(Save) /\ writing \in Seq(Save)
      /\ Sorted(pending) /\ Sorted(unwritten) /\ Sorted(writing)
      /\ \A s \in ToSet(unwritten), t \in ToSet(writing) : s.id < t.id
    BY DEF OInv, IInv, TypeOK, Orders, InTurn
<1>2. HeldSaves = ToSet(pending) \cup ToSet(unwritten) \cup ToSet(writing)
    BY DEF HeldSaves
<1>3. HeldSaves' = ToSet(pending') \cup ToSet(unwritten') \cup ToSet(writing')
    BY DEF HeldSaves
<1>4. CASE \/ Idle \/ DiskChanges \/ WriteBusy \/ UNCHANGED vars
    <2>1. UNCHANGED <<todo, queue, pending, unwritten, writing, next, life, value, db, dropped>>
        BY <1>4 DEF Idle, DiskChanges, WriteBusy, vars, durable, clients, thread
    <2>2. Suffix(0)
        BY <1>1, <2>1, NoneTaken
    <2> QED BY <1>1, <1>2, <1>3, <2>1, <2>2, Thinning
<1>5. CASE Take
    <2>1. UNCHANGED <<pending, unwritten, writing, next, life, value, db, dropped>>
        BY <1>5 DEF Take, durable
    <2>2. Suffix(0)
        BY <1>1, <1>5, TakeTaken
    <2> QED BY <1>1, <1>2, <1>3, <2>1, <2>2, Thinning
<1>6. CASE ServeLoad \/ ServeFlush
    <2>1. /\ UNCHANGED <<pending, unwritten, writing, next, life, value, db, dropped, queue>>
          /\ todo # <<>> /\ todo' = Tail(todo)
        BY <1>6 DEF ServeLoad, ServeFlush, Served, Serving, durable
    <2>2. Suffix(1)
        BY <1>1, <2>1, OneTaken
    <2> QED BY <1>1, <1>2, <1>3, <2>1, <2>2, Thinning
<1>7. CASE Retry
    <2>1. /\ UNCHANGED <<unwritten, next, life, value, db, dropped, queue, todo>>
          /\ writing' = pending \o <<>> /\ pending' = <<>> /\ unwritten = <<>>
        BY <1>1, <1>7 DEF Retry, BeginWrite, durable, clients, Phases
    <2>2. writing' = pending
        BY <1>1, <2>1, ConcatEmptySeq
    <2>3. Suffix(0)
        BY <1>1, <2>1, NoneTaken
    <2> QED BY <1>1, <1>2, <1>3, <2>1, <2>2, <2>3, NoneSorted, Thinning
<1>8. CASE WriteAll
    <2>1. /\ UNCHANGED <<unwritten, next, life, value, dropped, queue, todo, pending>>
          /\ writing' = <<>> /\ Commit(writing) /\ ~SomeBad
        BY <1>8 DEF WriteAll, Written, WritesAgain, clients
    <2>2. \A s \in ToSet(writing) : ~Bad(s)
        BY <1>1, <2>1, InSet DEF SomeBad
    <2>3. \A k \in Keys : db'[k] = db[k] \/ Written1(k, db'[k])
        BY <1>1, <1>2, <2>1, <2>2, CommitRows DEF Written1
    <2>4. Suffix(0)
        BY <1>1, <2>1, NoneTaken
    <2> QED BY <1>1, <1>2, <1>3, <2>1, <2>3, <2>4, NoneSorted, Thinning
<1>9. CASE WriteFails
    <2>1. /\ UNCHANGED <<unwritten, next, life, value, dropped, queue, todo, pending, db>>
          /\ writing' = <<>> \/ writing' = writing
        BY <1>9 DEF WriteFails, Written, WritesAgain, clients, durable
    <2>2. Suffix(0)
        BY <1>1, <2>1, NoneTaken
    <2> QED BY <1>1, <1>2, <1>3, <2>1, <2>2, NoneSorted, Thinning
<1>10. CASE WriteCant
    <2>1. /\ UNCHANGED <<unwritten, next, life, value, queue, todo, db>>
          /\ writing' = <<>> /\ Keep(writing) /\ pending = <<>> /\ unwritten = <<>>
        BY <1>1, <1>10 DEF WriteCant, Written, clients, durable, Phases
    <2>2. Sorted(pending \o writing)
        BY <1>1, <2>1, ConcatEmptySeq
    <2>3. Suffix(0)
        BY <1>1, <2>1, NoneTaken
    <2>4. /\ Sorted(pending') /\ ToSet(pending') \subseteq ToSet(writing)
          /\ \A d \in dropped' : \/ d \in dropped
                                 \/ \E s \in ToSet(writing) :
                                       d = s.id /\ \A t \in ToSet(pending') : d < t.id
        BY <1>1, <2>1, <2>2, KeepOrder, NoneSorted
    <2> QED BY <1>1, <1>2, <1>3, <2>1, <2>3, <2>4, NoneSorted, Thinning
<1>11. CASE AloneDone
    <2>1. /\ UNCHANGED <<writing, next, life, value, queue, todo, db>>
          /\ unwritten' = <<>> /\ pending = <<>> /\ writing = <<>>
          /\ Keep(unwritten) \/ UNCHANGED <<pending, dropped>>
        BY <1>1, <1>11 DEF AloneDone, WritesAgain, clients, durable, Phases
    <2>2. Sorted(pending \o unwritten)
        BY <1>1, <2>1, ConcatEmptySeq
    <2>3. Suffix(0)
        BY <1>1, <2>1, NoneTaken
    <2>4. /\ Sorted(pending') /\ ToSet(pending') \subseteq ToSet(unwritten)
          /\ \A d \in dropped' : \/ d \in dropped
                                 \/ \E s \in ToSet(unwritten) :
                                       d = s.id /\ \A t \in ToSet(pending') : d < t.id
        BY <1>1, <2>1, <2>2, KeepOrder, NoneSorted
    <2> QED BY <1>1, <1>2, <1>3, <2>1, <2>3, <2>4, NoneSorted, Thinning
<1>12. CASE Alone
    <2> DEFINE s == Head(writing)
    <2>1. /\ writing # <<>> /\ writing' = Tail(writing) /\ UNCHANGED <<pending, dropped>>
          /\ UNCHANGED <<next, life, value, queue, todo>>
          /\ \/ ~Bad(s) /\ Commit(<<s>>) /\ UNCHANGED unwritten
             \/ unwritten' = Append(unwritten, s) /\ db' = db
             \/ UNCHANGED <<db, unwritten>>
        BY <1>12 DEF Alone, durable, clients
    <2>2. /\ ToSet(writing) = {s} \cup ToSet(Tail(writing)) /\ s \in Save
          /\ Tail(writing) \in Seq(Save)
          /\ Sorted(Tail(writing)) /\ \A t \in ToSet(Tail(writing)) : s.id < t.id
        BY <1>1, <2>1, SetOfTail, SortedTail
    <2>3. Suffix(0)
        BY <1>1, <2>1, NoneTaken
    <2> HIDE DEF s
    <2>4. /\ <<s>> \in Seq(Save) /\ ToSet(<<s>>) = {s} /\ Sorted(<<s>>)
          /\ Append(unwritten, s) = unwritten \o <<s>>
        BY <1>1, <2>2, OneSave, Appending
    <2>5. CASE ~Bad(s) /\ Commit(<<s>>) /\ UNCHANGED unwritten
        <3>1. \A k \in Keys : db'[k] = db[k] \/ Written1(k, db'[k])
            BY <1>1, <1>2, <2>2, <2>4, <2>5, CommitRows DEF Written1
        <3> QED BY <1>1, <1>2, <1>3, <2>1, <2>2, <2>3, <2>5, <3>1, Thinning
    <2>6. CASE unwritten' = Append(unwritten, s) /\ db' = db
        <3>1. unwritten' = unwritten \o <<s>>
            BY <2>4, <2>6
        <3>2. ToSet(unwritten') = ToSet(unwritten) \cup {s}
            <4>1. ToSet(unwritten \o <<s>>) = ToSet(unwritten) \cup ToSet(<<s>>)
                BY ZenonT(90), <1>1, <2>4, SetOfConcat
            <4> QED BY <2>4, <3>1, <4>1
        <3>3. Sorted(unwritten')
            BY <1>1, <2>2, <2>4, <3>1, SortedConcat
        <3> QED BY <1>1, <1>2, <1>3, <2>1, <2>2, <2>3, <2>6, <3>2, <3>3, Thinning
    <2>7. CASE UNCHANGED <<db, unwritten>>
        BY <1>1, <1>2, <1>3, <2>1, <2>2, <2>3, <2>7, Thinning
    <2> QED BY <2>1, <2>5, <2>6, <2>7
<1> QED BY <1>4, <1>5, <1>6, <1>7, <1>8, <1>9, <1>10, <1>11, <1>12 DEF Write

-----------------------------------------------------------------------------
(* The clients' steps.                                                    *)

(* A request is sent behind all there are.                                *)
LEMMA Sends ==
    ASSUME TypeOK, TypeOK', NEW r \in Request, queue' = Append(queue, r), todo' = todo
    PROVE  /\ Len(Reqs) \in Nat /\ Len(Reqs)' = Len(Reqs) + 1
           /\ \A i \in 1..Len(Reqs) : Reqs'[i] = Reqs[i]
           /\ Reqs'[Len(Reqs) + 1] = r
           /\ Sent' = Sent \cup {x \in {r} : IsSave(x)}
<1>1. todo \in Seq(Request) /\ queue \in Seq(Request) /\ <<r>> \in Seq(Request)
    BY DEF TypeOK
<1>2. /\ Reqs \in Seq(Request) /\ Len(Reqs) \in Nat
    BY OnTheWay DEF OnItsWay
<1>3. Reqs' = Append(Reqs, r)
    <2>1. Reqs' = todo \o (queue \o <<r>>)
        BY <1>1, Appending DEF Reqs
    <2>2. Reqs' = (todo \o queue) \o <<r>>
        BY <1>1, <2>1, ConcatAssociative
    <2> QED BY <1>2, <2>2, Appending DEF Reqs
<1>4. /\ Len(Reqs)' = Len(Reqs) + 1
      /\ \A i \in 1..Len(Reqs) : Reqs'[i] = Reqs[i]
      /\ Reqs'[Len(Reqs) + 1] = r
    BY <1>2, <1>3, AppendProperties
<1>5. ToSet(Reqs') = ToSet(Reqs) \cup {r}
    <2>1. Append(Reqs, r) = Reqs \o <<r>>
        BY <1>2, Appending
    <2>2. ToSet(Reqs \o <<r>>) = ToSet(Reqs) \cup ToSet(<<r>>)
        BY <1>1, <1>2, SetOfConcat
    <2>3. ToSet(<<r>>) = {r}
        <3> DEFINE t == <<r>>
        <3>1. t \in Seq(Request) /\ Len(t) = 1 /\ t[1] = r
            OBVIOUS
        <3> HIDE DEF t
        <3>2. ToSet(t) = {r}
            BY <3>1, InSet
        <3> QED BY <3>2 DEF t
    <2> QED BY <1>3, <2>1, <2>2, <2>3
<1>6. Sent' = Sent \cup {x \in {r} : IsSave(x)}
    BY <1>5 DEF Sent
<1> QED BY <1>2, <1>4, <1>6

(* One that asks nothing of whether a character is changes nothing;        *)
LEMMA SendsOther ==
    ASSUME OInv, TypeOK', NEW r \in Request, queue' = Append(queue, r), ~IsSave(r),
           UNCHANGED <<todo, pending, unwritten, writing, db, value, dropped>>,
           next' \in Nat, next' >= next,
           \A c \in Chars : AskFor(r, c) =>
              /\ life'[c] = "asked"
              /\ life[c] = IF r.op = "create" THEN "unborn" ELSE "alive",
           \A c \in Chars : life'[c] = life[c] \/ AskFor(r, c)
    PROVE  Orders'
<1>1. TypeOK /\ Orders /\ next \in Nat
    BY DEF OInv, IInv, TypeOK
<1>2. /\ Len(Reqs) \in Nat /\ Len(Reqs)' = Len(Reqs) + 1
      /\ \A i \in 1..Len(Reqs) : Reqs'[i] = Reqs[i]
      /\ Reqs'[Len(Reqs) + 1] = r
      /\ Sent' = Sent
    BY <1>1, Sends
<1>3. HeldSaves' = HeldSaves /\ \A k \in Keys : NameOf(k)' = NameOf(k)
    BY DEF HeldSaves, NameOf
<1>5. OnItsWay
    BY <1>1, OnTheWay
<1>a. Shape'
    BY <1>1, <1>2, <1>3, <1>5 DEF Orders, Shape, OnItsWay
<1>b. Names'
    BY <1>1 DEF Orders, Names
<1>c. Fresh'
    BY <1>1, <1>2 DEF Orders, Fresh
<1>4. Shape' /\ Names' /\ Fresh'
    BY <1>a, <1>b, <1>c
<1>6. InTurn'
    <2>1. \A i, j \in 1..Len(Reqs)' :
             i < j /\ IsSave(Reqs'[i]) /\ IsSave(Reqs'[j]) => Reqs'[i].id < Reqs'[j].id
        <3> SUFFICES ASSUME NEW i \in 1..Len(Reqs)', NEW j \in 1..Len(Reqs)',
                            i < j, IsSave(Reqs'[i]), IsSave(Reqs'[j])
                     PROVE  Reqs'[i].id < Reqs'[j].id
            OBVIOUS
        <3>1. j # Len(Reqs) + 1
            BY <1>2
        <3>2. i \in 1..Len(Reqs) /\ j \in 1..Len(Reqs)
            BY <1>2, <3>1
        <3> QED BY <1>1, <1>2, <3>2 DEF Orders, InTurn
    <2> QED BY <1>1, <1>2, <1>3, <2>1 DEF Orders, InTurn
<1>7. Numbered'
    <2>1. \A s \in HeldSaves \cup Sent : s.id <= next'
        BY <1>1, <1>5 DEF Orders, Numbered, OnItsWay
    <2>2. \A d \in dropped : d <= next'
        BY <1>1 DEF Orders, Numbered, TypeOK
    <2>3. \A k \in Keys : value[k] # Absent => value[k].id <= next'
        BY <1>1, <1>5 DEF Orders, Numbered, OnItsWay
    <2> QED BY <1>2, <1>3, <2>1, <2>2, <2>3 DEF Numbered
<1>8. Lives'
    <2> SUFFICES ASSUME NEW c \in Chars
                 PROVE  /\ life'[c] \in {"unborn", "deleted"} => NoRow(c)'
                        /\ life'[c] = "alive" => db'[c] # Absent /\ value'[c] # Absent
                        /\ Asked(c)'
        BY DEF Lives
    <2>1. NoRow(c)' <=> NoRow(c)
        BY <1>2, <1>3 DEF NoRow
    <2>2. /\ life[c] \in {"unborn", "deleted"} => NoRow(c)
          /\ life[c] = "alive" => db[c] # Absent /\ value[c] # Absent
          /\ Asked(c)
        BY <1>1 DEF Orders, Lives
    <2>3. life[c] # "asked" => \A i \in 1..Len(Reqs) : ~AskFor(Reqs[i], c)
        BY <2>2 DEF Asked
    <2>4. Asked(c)'
        <3> SUFFICES ASSUME NEW i \in 1..Len(Reqs)', AskFor(Reqs'[i], c)
                     PROVE  /\ life'[c] = "asked"
                            /\ \A j \in 1..Len(Reqs)' : AskFor(Reqs'[j], c) => i = j
                            /\ Reqs'[i].op = "create" => NoRow(c)'
                            /\ Reqs'[i].op # "create" =>
                                  /\ db'[c] # Absent /\ value'[c] # Absent
                                  /\ \A j \in 1..Len(Reqs)' :
                                        j > i /\ IsSave(Reqs'[j]) => c \notin Of(Reqs'[j])
            BY DEF Asked, AskFor
        <3>1. CASE i = Len(Reqs) + 1
            <4>1. Reqs'[i] = r /\ AskFor(r, c)
                BY <1>2, <3>1
            <4>2. /\ life'[c] = "asked" /\ life[c] # "asked"
                  /\ life[c] = IF r.op = "create" THEN "unborn" ELSE "alive"
                BY <4>1
            <4>3. \A j \in 1..Len(Reqs)' : AskFor(Reqs'[j], c) => i = j
                BY <1>2, <2>3, <3>1, <4>2
            <4> QED BY <1>2, <2>1, <2>2, <3>1, <4>1, <4>2, <4>3
        <3>2. CASE i # Len(Reqs) + 1
            <4>1. i \in 1..Len(Reqs) /\ AskFor(Reqs[i], c) /\ Reqs'[i] = Reqs[i]
                BY <1>2, <3>2
            <4>2. life[c] = "asked" /\ ~AskFor(r, c)
                BY <2>2, <4>1 DEF Asked
            <4>3. life'[c] = "asked"
                BY <4>2
            <4>4. \A j \in 1..Len(Reqs)' : j = Len(Reqs) + 1 \/ j \in 1..Len(Reqs)
                BY <1>2
            <4>5. \A j \in 1..Len(Reqs)' : AskFor(Reqs'[j], c) => i = j
                BY <1>2, <2>2, <4>1, <4>2, <4>4 DEF Asked
            <4>6. Reqs[i].op # "create" =>
                      /\ db[c] # Absent /\ value[c] # Absent
                      /\ \A j \in 1..Len(Reqs)' :
                            j > i /\ IsSave(Reqs'[j]) => c \notin Of(Reqs'[j])
                BY <1>2, <2>2, <4>1, <4>4 DEF Asked
            <4>7. Reqs[i].op = "create" => NoRow(c)
                BY <2>2, <4>1 DEF Asked
            <4> QED BY <2>1, <4>1, <4>3, <4>5, <4>6, <4>7
        <3> QED BY <3>1, <3>2
    <2>5. life'[c] # "asked" => life'[c] = life[c]
        OBVIOUS
    <2> QED BY <2>1, <2>2, <2>4, <2>5
<1> QED BY <1>4, <1>6, <1>7, <1>8 DEF Orders

(* a save is the newest of all, of characters that are.                   *)
LEMMA SendsSave ==
    ASSUME OInv, TypeOK', NEW K \in SUBSET Keys \ {{}}, SendSave(K)
    PROVE  Orders'
<1> DEFINE s == [op |-> "save", id |-> next', together |-> K \notin {{k} : k \in Keys},
                 rows |-> [k \in Keys |-> IF k \in K THEN [id |-> next', name |-> NameOf(k)]
                                          ELSE Absent]]
<1>1. TypeOK /\ Orders /\ Counted /\ OnItsWay /\ next \in Nat /\ counter \in Nat
    BY OnTheWay DEF OInv, IInv, TypeOK
<1>2. /\ next' = next + 1 /\ queue' = Append(queue, s)
      /\ UNCHANGED <<todo, pending, unwritten, writing, db, value, dropped, life>>
      /\ \A c \in K \cap Chars : life[c] = "alive"
    BY DEF SendSave, Send, NameOf, thread, durable
<1>3. \A k \in Keys : NameOf(k) \in Nat
    BY <1>1 DEF NameOf, OnItsWay
<1>4. s.rows \in [Keys -> Row \cup {Absent}]
    BY <1>1, <1>2, <1>3 DEF Row
<1>5. s \in Save
    BY <1>1, <1>2, <1>4 DEF Save
<1>6. s.id = next + 1 /\ IsSave(s) /\ s.op = "save"
    BY <1>2 DEF IsSave
<1>7. Of(s) = K /\ \A k \in K : s.rows[k].id = s.id /\ s.rows[k].name = NameOf(k)
    <2>1. \A k \in K : s.rows[k] = [id |-> next', name |-> NameOf(k)]
        OBVIOUS
    <2>2. \A k \in K : s.rows[k] # Absent
        BY <1>1, <1>2, <1>3, <2>1, Disjoint DEF Row
    <2>3. \A k \in Keys \ K : s.rows[k] = Absent
        OBVIOUS
    <2> QED BY <2>1, <2>2, <2>3 DEF Of
<1> HIDE DEF s
<1>8. s \in Request
    BY <1>5, RequestTypes
<1>9. /\ Len(Reqs) \in Nat /\ Len(Reqs)' = Len(Reqs) + 1
      /\ \A i \in 1..Len(Reqs) : Reqs'[i] = Reqs[i]
      /\ Reqs'[Len(Reqs) + 1] = s
      /\ Sent' = Sent \cup {s}
    BY <1>1, <1>2, <1>6, <1>8, Sends
<1>10. /\ HeldSaves' = HeldSaves /\ \A k \in Keys : NameOf(k)' = NameOf(k)
       /\ \A i \in 1..Len(Reqs)' : i = Len(Reqs) + 1 \/ i \in 1..Len(Reqs)
    BY <1>2, <1>9 DEF HeldSaves, NameOf
<1>11. Shape'
    <2>1. \A t \in HeldSaves \cup Sent \cup {s} : \A k \in Of(t) :
             t.rows[k].id = t.id /\ t.rows[k].name = NameOf(k) /\ k \in Keys
        BY <1>1, <1>7 DEF Orders, Shape, OnItsWay
    <2> QED BY <1>9, <1>10, <2>1 DEF Shape
<1>12. Names'
    BY <1>1, <1>2 DEF Orders, Names
<1>13. /\ \A t \in HeldSaves \cup Sent : t.id < s.id
       /\ \A d \in dropped : d < s.id
       /\ \A k \in Keys : value[k] # Absent => value[k].id < s.id
       /\ \A k \in Keys : db[k] # Absent => db[k].id < s.id
    <2>1. \A t \in HeldSaves \cup Sent : t.id \in Nat /\ t.id <= next
        BY <1>1 DEF Orders, Numbered, OnItsWay
    <2>2. \A d \in dropped : d \in Nat /\ d <= next
        BY <1>1 DEF Orders, Numbered, TypeOK
    <2>3. \A k \in Keys : value[k] # Absent => value[k].id \in Nat /\ value[k].id <= next
        BY <1>1 DEF Orders, Numbered, OnItsWay
    <2>4. \A k \in Keys : db[k] # Absent => db[k].id \in Nat /\ db[k].id <= next
        BY <1>1 DEF Counted, OnItsWay
    <2> QED BY <1>1, <1>6, <2>1, <2>2, <2>3, <2>4
<1>14. InTurn'
    <2>1. \A i, j \in 1..Len(Reqs)' :
             i < j /\ IsSave(Reqs'[i]) /\ IsSave(Reqs'[j]) => Reqs'[i].id < Reqs'[j].id
        <3> SUFFICES ASSUME NEW i \in 1..Len(Reqs)', NEW j \in 1..Len(Reqs)',
                            i < j, IsSave(Reqs'[i]), IsSave(Reqs'[j])
                     PROVE  Reqs'[i].id < Reqs'[j].id
            OBVIOUS
        <3>1. i \in 1..Len(Reqs)
            BY <1>9
        <3>2. CASE j = Len(Reqs) + 1
            <4>1. Reqs'[i] \in Sent
                BY <1>1, <1>9, <3>1 DEF OnItsWay
            <4> QED BY <1>9, <1>13, <3>2, <4>1
        <3>3. CASE j # Len(Reqs) + 1
            <4>1. j \in 1..Len(Reqs)
                BY <1>10, <3>3
            <4> QED BY <1>1, <1>9, <3>1, <4>1 DEF Orders, InTurn
        <3> QED BY <3>2, <3>3
    <2>2. \A t \in HeldSaves, u \in Sent \cup {s} : t.id < u.id
        BY <1>1, <1>13 DEF Orders, InTurn
    <2>3. \A d \in dropped : \A t \in HeldSaves \cup Sent \cup {s} : d < t.id
        BY <1>1, <1>13 DEF Orders, InTurn
    <2> QED BY <1>1, <1>2, <1>9, <1>10, <2>1, <2>2, <2>3 DEF Orders, InTurn
<1>15. Numbered'
    <2>1. \A t \in HeldSaves \cup Sent \cup {s} : t.id <= next'
        BY <1>1, <1>2, <1>6 DEF Orders, Numbered, OnItsWay
    <2>2. \A d \in dropped : d <= next'
        BY <1>1, <1>2 DEF Orders, Numbered, TypeOK
    <2>3. \A k \in Keys : value[k] # Absent => value[k].id <= next'
        BY <1>1, <1>2 DEF Orders, Numbered, OnItsWay
    <2> QED BY <1>2, <1>9, <1>10, <2>1, <2>2, <2>3 DEF Numbered
<1>16. Fresh'
    <2>1. \A k \in Of(s) : k \in Keys
        BY DEF Of
    <2>2. \A t \in Sent \cup {s} : \A k \in Of(t) :
             /\ value[k] # Absent => value[k].id < t.id
             /\ db[k] # Absent => db[k].id < t.id
        BY <1>1, <1>13, <2>1 DEF Orders, Fresh
    <2> QED BY <1>2, <1>9, <2>2 DEF Fresh
<1>17. Lives'
    <2> SUFFICES ASSUME NEW c \in Chars
                 PROVE  /\ life'[c] \in {"unborn", "deleted"} => NoRow(c)'
                        /\ life'[c] = "alive" => db'[c] # Absent /\ value'[c] # Absent
                        /\ Asked(c)'
        BY DEF Lives
    <2>1. /\ life[c] \in {"unborn", "deleted"} => NoRow(c)
          /\ life[c] = "alive" => db[c] # Absent /\ value[c] # Absent
          /\ Asked(c)
        BY <1>1 DEF Orders, Lives
    <2>2. life[c] # "alive" => c \notin Of(s)
        BY <1>2, <1>7
    <2>3. NoRow(c) /\ c \notin Of(s) => NoRow(c)'
        BY <1>2, <1>9, <1>10 DEF NoRow
    <2>4. ~AskFor(s, c)
        BY <1>6 DEF AskFor
    <2>5. Asked(c)'
        <3> SUFFICES ASSUME NEW i \in 1..Len(Reqs)', AskFor(Reqs'[i], c)
                     PROVE  /\ life'[c] = "asked"
                            /\ \A j \in 1..Len(Reqs)' : AskFor(Reqs'[j], c) => i = j
                            /\ Reqs'[i].op = "create" => NoRow(c)'
                            /\ Reqs'[i].op # "create" =>
                                  /\ db'[c] # Absent /\ value'[c] # Absent
                                  /\ \A j \in 1..Len(Reqs)' :
                                        j > i /\ IsSave(Reqs'[j]) => c \notin Of(Reqs'[j])
            BY DEF Asked, AskFor
        <3>1. i \in 1..Len(Reqs) /\ AskFor(Reqs[i], c) /\ Reqs'[i] = Reqs[i]
            BY <1>9, <1>10, <2>4
        <3>2. life[c] = "asked" /\ c \notin Of(s)
            BY <2>1, <2>2, <3>1 DEF Asked
        <3>3. \A j \in 1..Len(Reqs)' : AskFor(Reqs'[j], c) => i = j
            BY <1>9, <1>10, <2>1, <2>4, <3>1 DEF Asked
        <3>4. Reqs[i].op # "create" =>
                  /\ db[c] # Absent /\ value[c] # Absent
                  /\ \A j \in 1..Len(Reqs)' :
                        j > i /\ IsSave(Reqs'[j]) => c \notin Of(Reqs'[j])
            BY <1>9, <1>10, <2>1, <3>1, <3>2 DEF Asked
        <3>5. Reqs[i].op = "create" => NoRow(c)'
            BY <2>1, <2>3, <3>1, <3>2 DEF Asked
        <3> QED BY <1>2, <3>1, <3>2, <3>3, <3>4, <3>5
    <2> QED BY <1>2, <2>1, <2>2, <2>3, <2>5
<1> QED BY <1>11, <1>12, <1>14, <1>15, <1>16, <1>17 DEF Orders

LEMMA ClientsStep ==
    ASSUME OInv, TypeOK', Clients
    PROVE  Orders'
<1>1. TypeOK /\ next \in Nat
    BY DEF OInv, IInv, TypeOK
<1>2. ASSUME NEW K \in SUBSET Keys \ {{}}, SendSave(K) PROVE Orders'
    BY <1>2, SendsSave
<1>3. ASSUME NEW c \in Chars, SendLoad(c) PROVE Orders'
    <2> DEFINE r == [op |-> "load", key |-> c, id |-> 0]
    <2>1. /\ queue' = Append(queue, r) /\ next' = next /\ life' = life
          /\ UNCHANGED <<todo, pending, unwritten, writing, db, value, dropped>>
        BY <1>3 DEF SendLoad, Ask, Send, thread, durable
    <2>2. r \in Request /\ ~IsSave(r) /\ \A d \in Chars : ~AskFor(r, d)
        BY DEF Request, IsSave, AskFor
    <2> HIDE DEF r
    <2> QED BY <1>1, <2>1, <2>2, SendsOther
<1>4. ASSUME NEW c \in Chars, SendCreate(c) PROVE Orders'
    <2> DEFINE r == [op |-> "create", key |-> c, id |-> next']
    <2>1. /\ queue' = Append(queue, r) /\ next' = next + 1 /\ life[c] = "unborn"
          /\ life' = [life EXCEPT ![c] = "asked"]
          /\ UNCHANGED <<todo, pending, unwritten, writing, db, value, dropped>>
        BY <1>4 DEF SendCreate, Ask, Send, thread, durable
    <2>2. /\ r \in Request /\ ~IsSave(r) /\ r.op = "create"
          /\ \A d \in Chars : AskFor(r, d) <=> d = c
        BY <1>1, <2>1 DEF Request, IsSave, AskFor
    <2> HIDE DEF r
    <2>3. life \in [Chars -> {"unborn", "asked", "alive", "deleted"}]
        BY <1>1 DEF TypeOK
    <2>4. /\ \A d \in Chars : AskFor(r, d) =>
                 /\ life'[d] = "asked"
                 /\ life[d] = IF r.op = "create" THEN "unborn" ELSE "alive"
          /\ \A d \in Chars : life'[d] = life[d] \/ AskFor(r, d)
        BY <2>1, <2>2, <2>3
    <2>5. next' \in Nat /\ next' >= next
        BY <1>1, <2>1
    <2> QED BY <2>1, <2>2, <2>4, <2>5, SendsOther
<1>5. ASSUME NEW c \in Chars, NEW op \in {"rename", "delete"}, SendChange(c, op)
      PROVE  Orders'
    <2> DEFINE r == [op |-> op, key |-> c, id |-> 0]
    <2>1. /\ queue' = Append(queue, r) /\ next' = next /\ life[c] = "alive"
          /\ life' = [life EXCEPT ![c] = "asked"]
          /\ UNCHANGED <<todo, pending, unwritten, writing, db, value, dropped>>
        BY <1>5 DEF SendChange, Ask, Send, thread, durable
    <2>2. /\ r \in Request /\ ~IsSave(r) /\ r.op # "create"
          /\ \A d \in Chars : AskFor(r, d) <=> d = c
        BY DEF Request, IsSave, AskFor
    <2> HIDE DEF r
    <2>3. life \in [Chars -> {"unborn", "asked", "alive", "deleted"}]
        BY <1>1 DEF TypeOK
    <2>4. /\ \A d \in Chars : AskFor(r, d) =>
                 /\ life'[d] = "asked"
                 /\ life[d] = IF r.op = "create" THEN "unborn" ELSE "alive"
          /\ \A d \in Chars : life'[d] = life[d] \/ AskFor(r, d)
        BY <2>1, <2>2, <2>3
    <2> QED BY <1>1, <2>1, <2>2, <2>4, SendsOther
<1>6. CASE SendFlush
    <2> DEFINE r == [op |-> "flush"]
    <2>1. /\ queue' = Append(queue, r) /\ next' = next /\ life' = life
          /\ UNCHANGED <<todo, pending, unwritten, writing, db, value, dropped>>
        BY <1>6 DEF SendFlush, Ask, Send, thread, durable
    <2>2. r \in Request /\ ~IsSave(r) /\ \A d \in Chars : ~AskFor(r, d)
        BY DEF Request, IsSave, AskFor
    <2> HIDE DEF r
    <2> QED BY <1>1, <2>1, <2>2, SendsOther
<1> QED BY <1>2, <1>3, <1>4, <1>5, <1>6 DEF Clients

-----------------------------------------------------------------------------
(* The saves at the head of a batch.                                      *)

(* They are what was sent first, in order, and join what was kept.         *)
LEMMA Gathered ==
    ASSUME OInv, TypeOK', Gather
    PROVE  \E saves \in Seq(Save) :
              /\ Sorted(saves) /\ ToSet(saves) \subseteq Sent
              /\ \A s \in ToSet(saves), t \in Sent' : s.id < t.id
              /\ \A s \in ToSet(pending), t \in ToSet(saves) : s.id < t.id
              /\ writing = <<>> /\ unwritten = <<>> /\ pending' = <<>> /\ unwritten' = <<>>
              /\ Sorted(writing') /\ ToSet(writing') = ToSet(pending) \cup ToSet(saves)
              /\ value' = [k \in Keys |-> AfterGood(saves, k, value[k])]
              /\ \E n : Suffix(n)
<1>1. /\ TypeOK /\ Orders /\ Phases /\ OnItsWay
      /\ todo \in Seq(Request) /\ queue \in Seq(Request) /\ pending \in Seq(Save)
    BY OnTheWay DEF OInv, IInv, TypeOK
<1>2. PICK n \in 0..Len(todo) :
              /\ SubSeq(todo, 1, n) \in Seq(Save)
              /\ todo' = SubSeq(todo, n + 1, Len(todo)) /\ todo' \in Seq(Request)
              /\ writing' = pending \o SubSeq(todo, 1, n)
              /\ value' = [k \in Keys |-> AfterGood(SubSeq(todo, 1, n), k, value[k])]
    BY <1>1, GatherTypes
<1> DEFINE saves == SubSeq(todo, 1, n)
<1>3. /\ todo = saves \o todo' /\ Len(saves) = n /\ saves \in Seq(Request)
    BY <1>1, <1>2, SetOfParts
<1>4. /\ writing = <<>> /\ unwritten = <<>> /\ pending' = <<>> /\ unwritten' = <<>>
      /\ queue' = queue
    BY <1>1 DEF Gather, BeginWrite, Phases, clients
<1> HIDE DEF saves
<1>5. saves \in Seq(Save) /\ writing' = pending \o saves
      /\ value' = [k \in Keys |-> AfterGood(saves, k, value[k])]
    BY <1>2 DEF saves
<1>6. Reqs = saves \o Reqs'
    <2>1. Reqs = (saves \o todo') \o queue
        BY <1>3 DEF Reqs
    <2>2. (saves \o todo') \o queue = saves \o (todo' \o queue)
        <3> DEFINE rest == todo'
        <3>1. saves \in Seq(Request) /\ rest \in Seq(Request) /\ queue \in Seq(Request)
            BY <1>1, <1>2, <1>3
        <3> HIDE DEF rest
        <3>2. (saves \o rest) \o queue = saves \o (rest \o queue)
            BY <3>1, ConcatAssociative
        <3> QED BY <3>2 DEF rest
    <2> QED BY <1>4, <2>1, <2>2 DEF Reqs
<1>7. Reqs' \in Seq(Request) /\ Len(Reqs)' \in Nat /\ n \in Nat
    BY <1>1, <1>3, OnTheWayAfter, LenProperties DEF OnItsWay
<1>8. /\ Len(Reqs) = n + Len(Reqs)'
      /\ \A i \in 1..n + Len(Reqs)' :
            Reqs[i] = IF i <= n THEN saves[i] ELSE Reqs'[i - n]
    BY <1>3, <1>6, <1>7, ConcatProperties
<1>9. Suffix(n)
    <2>1. n \in 0..Len(Reqs) /\ Len(Reqs)' = Len(Reqs) - n
        BY <1>7, <1>8
    <2>2. \A i \in 1..Len(Reqs)' : i + n \in 1..n + Len(Reqs)' /\ ~(i + n <= n) /\ i + n - n = i
        BY <1>7
    <2> QED BY <1>8, <2>1, <2>2 DEF Suffix
<1>10. \A i \in 1..n : /\ i \in 1..Len(Reqs) /\ Reqs[i] = saves[i] /\ saves[i] \in Save
                       /\ IsSave(Reqs[i]) /\ Reqs[i] \in Sent
    <2>1. \A i \in 1..n : i \in 1..Len(Reqs) /\ Reqs[i] = saves[i] /\ saves[i] \in Save
        BY <1>3, <1>5, <1>7, <1>8, ElementOfSeq
    <2> QED BY <1>1, <2>1, RequestTypes DEF OnItsWay
<1>11. Sorted(saves)
    BY <1>1, <1>3, <1>10 DEF Orders, InTurn, Sorted
<1>12. ToSet(saves) \subseteq Sent /\ \A s \in ToSet(saves) : \E i \in 1..n : s = Reqs[i]
    <2>1. \A s \in ToSet(saves) : \E i \in 1..n : s = saves[i]
        BY <1>3, <1>5, InSet
    <2> QED BY <1>10, <2>1
<1>13. ASSUME NEW s \in ToSet(saves), NEW t \in Sent' PROVE s.id < t.id
    <2>1. PICK i \in 1..n : s = Reqs[i]
        BY <1>12
    <2>2. PICK j \in 1..Len(Reqs)' : t = Reqs'[j] /\ IsSave(Reqs'[j])
        BY OnTheWayAfter DEF OnItsWay
    <2> DEFINE m == j + n
    <2>3. m \in 1..Len(Reqs) /\ i < m /\ t = Reqs[m]
        BY <1>7, <1>8, <1>9, <2>2 DEF Suffix
    <2> HIDE DEF m
    <2> QED BY <1>1, <1>10, <2>1, <2>2, <2>3 DEF Orders, InTurn
<1>14. \A s \in ToSet(pending), t \in ToSet(saves) : s.id < t.id
    BY <1>1, <1>12 DEF Orders, InTurn, HeldSaves
<1>15. Sorted(writing') /\ ToSet(writing') = ToSet(pending) \cup ToSet(saves)
    <2>1. Sorted(pending)
        BY <1>1 DEF Orders, InTurn
    <2> QED BY <1>1, <1>5, <1>11, <1>14, <2>1, SortedConcat, SetOfConcat
<1> QED BY <1>4, <1>5, <1>9, <1>11, <1>12, <1>13, <1>14, <1>15

LEMMA GatherStep ==
    ASSUME OInv, TypeOK', Gather
    PROVE  Orders'
<1>1. TypeOK /\ Orders /\ OnItsWay /\ OnItsWay'
    BY OnTheWay, OnTheWayAfter DEF OInv, IInv
<1>2. PICK saves \in Seq(Save) :
          /\ Sorted(saves) /\ ToSet(saves) \subseteq Sent
          /\ \A s \in ToSet(saves), t \in Sent' : s.id < t.id
          /\ \A s \in ToSet(pending), t \in ToSet(saves) : s.id < t.id
          /\ writing = <<>> /\ unwritten = <<>> /\ pending' = <<>> /\ unwritten' = <<>>
          /\ Sorted(writing') /\ ToSet(writing') = ToSet(pending) \cup ToSet(saves)
          /\ value' = [k \in Keys |-> AfterGood(saves, k, value[k])]
          /\ \E n : Suffix(n)
    BY Gathered
<1>3. PICK n : Suffix(n)
    BY <1>2
<1>4. Sent' \subseteq Sent
    BY <1>1, <1>3, FewerAsked
<1>5. /\ HeldSaves = ToSet(pending) /\ HeldSaves' = ToSet(pending) \cup ToSet(saves)
      /\ Sorted(pending') /\ Sorted(unwritten') /\ ToSet(unwritten') = {}
    BY <1>2, NoneSorted DEF HeldSaves
<1>6. /\ UNCHANGED <<db, next, life, dropped>>
    BY DEF Gather, durable, clients
<1>7. \A k \in Keys : \/ value'[k] = value[k] /\ Good(ToSet(saves), k) = {}
                      \/ \E s \in ToSet(saves) : k \in Of(s) /\ value'[k] = s.rows[k]
    <2> SUFFICES ASSUME NEW k \in Keys
                 PROVE  \/ value'[k] = value[k] /\ Good(ToSet(saves), k) = {}
                        \/ \E s \in ToSet(saves) : k \in Of(s) /\ value'[k] = s.rows[k]
        OBVIOUS
    <2>1. value'[k] = AfterGood(saves, k, value[k])
        BY <1>2
    <2>2. FinalOf(ToSet(saves), k, value'[k], value[k])
        BY <1>2, <2>1, AfterGoodLast
    <2> QED BY <2>2 DEF FinalOf, Good
<1>8. ASSUME NEW k \in Keys
      PROVE  /\ NameOf(k)' = NameOf(k) /\ (value[k] # Absent => value'[k] # Absent)
             /\ value[k] # Absent => value'[k].name = value[k].name
    <2>1. CASE value'[k] = value[k]
        BY <2>1 DEF NameOf
    <2>2. CASE value'[k] # value[k]
        <3>1. PICK s \in ToSet(saves) : k \in Of(s) /\ value'[k] = s.rows[k]
            BY <1>7, <2>2
        <3>2. s.rows[k].name = NameOf(k) /\ s.rows[k] # Absent
            BY <1>1, <1>2, <3>1 DEF Orders, Shape, OnItsWay
        <3> QED BY <3>1, <3>2 DEF NameOf
    <2> QED BY <2>1, <2>2
<1>9. Shape'
    <2>1. \A s \in (HeldSaves \cup Sent)' : s \in HeldSaves \cup Sent
        BY <1>2, <1>4, <1>5
    <2> QED BY <1>1, <1>8, <2>1 DEF Orders, Shape, OnItsWay
<1>10. Names'
    BY <1>1, <1>6, <1>8 DEF Orders, Names
<1>11. InTurn'
    <2>1. \A i, j \in 1..Len(Reqs)' :
             i < j /\ IsSave(Reqs'[i]) /\ IsSave(Reqs'[j]) => Reqs'[i].id < Reqs'[j].id
        BY <1>1, <1>3, OrderShift DEF Orders
    <2>2. \A s \in HeldSaves', t \in Sent' : s.id < t.id
        BY <1>1, <1>2, <1>4, <1>5 DEF Orders, InTurn
    <2>3. \A d \in dropped : \A s \in (HeldSaves \cup Sent)' : d < s.id
        BY <1>1, <1>2, <1>4, <1>5 DEF Orders, InTurn
    <2> QED BY <1>2, <1>5, <1>6, <2>1, <2>2, <2>3 DEF InTurn
<1>12. \A k \in Keys : value'[k] # value[k] =>
           \E s \in Sent : k \in Of(s) /\ s \in ToSet(saves) /\ value'[k].id = s.id
    BY <1>1, <1>2, <1>7 DEF Orders, Shape
<1>13. Numbered'
    <2>1. \A s \in (HeldSaves \cup Sent)' : s.id <= next
        BY <1>1, <1>2, <1>4, <1>5 DEF Orders, Numbered
    <2>2. \A k \in Keys : value'[k] # Absent => value'[k].id <= next
        BY <1>1, <1>12 DEF Orders, Numbered
    <2> QED BY <1>1, <1>6, <2>1, <2>2 DEF Orders, Numbered
<1>14. Fresh'
    <2>1. ASSUME NEW t \in Sent', NEW k \in Of(t)
          PROVE  value'[k] # Absent => value'[k].id < t.id
        <3>1. k \in Keys
            BY DEF Of
        <3>2. CASE value'[k] = value[k]
            BY <1>1, <1>4, <3>1, <3>2 DEF Orders, Fresh
        <3>3. CASE value'[k] # value[k]
            BY <1>2, <1>12, <3>1, <3>3
        <3> QED BY <3>2, <3>3
    <2>2. \A t \in Sent' : \A k \in Of(t) : db[k] # Absent => db[k].id < t.id
        BY <1>1, <1>4 DEF Orders, Fresh
    <2> QED BY <1>6, <2>1, <2>2 DEF Fresh
<1>15. Lives'
    <2> SUFFICES ASSUME NEW c \in Chars
                 PROVE  /\ life'[c] \in {"unborn", "deleted"} => NoRow(c)'
                        /\ life'[c] = "alive" => db'[c] # Absent /\ value'[c] # Absent
                        /\ Asked(c)'
        BY DEF Lives
    <2>1. c \in Keys
        BY Disjoint
    <2>2. NoRow(c) => NoRow(c)'
        <3> SUFFICES ASSUME NoRow(c) PROVE NoRow(c)'
            OBVIOUS
        <3>1. value'[c] = value[c]
            BY <1>12, <2>1 DEF NoRow
        <3>2. \A s \in (HeldSaves \cup Sent)' : c \notin Of(s)
            BY <1>2, <1>4, <1>5 DEF NoRow
        <3> QED BY <1>6, <3>1, <3>2 DEF NoRow
    <2>3. Asked(c)'
        BY <1>1, <1>3, <1>6, <1>8, <2>1, <2>2, AskedShift DEF Orders, Lives
    <2> QED BY <1>1, <1>6, <1>8, <2>1, <2>2, <2>3 DEF Orders, Lives
<1> QED BY <1>9, <1>10, <1>11, <1>13, <1>14, <1>15 DEF Orders

-----------------------------------------------------------------------------
(* What creates, deletes and renames a character.                         *)

(* The thread is done with what was sent before it, nothing after it asks   *)
(* the same, and what it asks can be.                                     *)
LEMMA Turn ==
    ASSUME OInv, TypeOK', NEW op \in {"create", "delete", "rename"}, Serving(op), Served,
           NEW c, c = Head(todo).key
    PROVE  /\ c \in Chars /\ c \in Keys /\ Head(todo).id \in Nat
           /\ life[c] = "asked" /\ Suffix(1) /\ Sent' \subseteq Sent
           /\ Asked(c)'
           /\ op = "create" => NoRow(c) /\ Head(todo).id <= next
           /\ op # "create" => db[c] # Absent /\ value[c] # Absent
           /\ op # "create" => \A s \in Sent' : c \notin Of(s)
           /\ writing = <<>> /\ unwritten = <<>> /\ UNCHANGED <<writing, unwritten>>
           /\ HeldSaves = ToSet(pending) /\ HeldSaves' = ToSet(pending')
           /\ UNCHANGED <<next, dropped>>
<1> DEFINE r == Head(todo)
<1>1. /\ TypeOK /\ Phases /\ Orders /\ Counted /\ OnItsWay
    BY OnTheWay DEF OInv, IInv
<1>2. /\ todo # <<>> /\ todo' = Tail(todo) /\ queue' = queue /\ r.op = op /\ c = r.key
      /\ UNCHANGED <<next, dropped, writing, unwritten>>
    BY DEF Serving, Served
<1>3. Suffix(1) /\ 1 \in 1..Len(Reqs) /\ r = Reqs[1]
    BY <1>1, <1>2, OneTaken
<1> HIDE DEF r
<1>4. c \in Chars /\ c \in Keys /\ r.id \in Nat
    BY <1>1, <1>2, <1>3, RequestTypes, Disjoint DEF OnItsWay
<1>5. AskFor(Reqs[1], c)
    BY <1>2, <1>3 DEF AskFor
<1>6. /\ life[c] = "asked"
      /\ \A j \in 1..Len(Reqs) : AskFor(Reqs[j], c) => 1 = j
      /\ op = "create" => NoRow(c)
      /\ op # "create" =>
            /\ db[c] # Absent /\ value[c] # Absent
            /\ \A j \in 1..Len(Reqs) : j > 1 /\ IsSave(Reqs[j]) => c \notin Of(Reqs[j])
    <2>1. Asked(c)
        BY <1>1, <1>4 DEF Orders, Lives
    <2> QED BY <1>2, <1>3, <1>5, <2>1 DEF Asked
<1>7. /\ Sent' \subseteq Sent
      /\ \A i \in 1..Len(Reqs)' : i + 1 \in 1..Len(Reqs) /\ Reqs'[i] = Reqs[i + 1] /\ i + 1 > 1
    BY <1>1, <1>3, FewerAsked
<1>8. \A i \in 1..Len(Reqs)' : ~AskFor(Reqs'[i], c)
    <2> SUFFICES ASSUME NEW i \in 1..Len(Reqs)', AskFor(Reqs'[i], c) PROVE FALSE
        OBVIOUS
    <2>1. i + 1 = 1
        BY <1>6, <1>7
    <2> QED BY <1>7, <2>1
<1>9. op # "create" => \A s \in Sent' : c \notin Of(s)
    <2> SUFFICES ASSUME op # "create", NEW s \in Sent' PROVE c \notin Of(s)
        OBVIOUS
    <2>1. PICK i \in 1..Len(Reqs)' : s = Reqs'[i] /\ IsSave(Reqs'[i])
        BY OnTheWayAfter DEF OnItsWay
    <2> QED BY <1>6, <1>7, <2>1
<1>10. Asked(c)'
    BY <1>8 DEF Asked, AskFor
<1>11. op = "create" => r.id <= next
    <2>1. /\ Len(todo) \in Nat \ {0} /\ r = todo[1]
        BY <1>1, <1>2, SetOfTail DEF TypeOK, r
    <2> QED BY <1>1, <1>2, <2>1 DEF Counted, AskedUnder
<1>12. writing = <<>> /\ unwritten = <<>>
    BY <1>1 DEF Phases, Serving
<1>13. HeldSaves = ToSet(pending) /\ HeldSaves' = ToSet(pending')
    BY <1>2, <1>12, NoneSorted DEF HeldSaves
<1> QED BY <1>2, <1>3, <1>4, <1>6, <1>7, <1>9, <1>10, <1>11, <1>12, <1>13 DEF r

(* Of the others nothing changes that is asked.                           *)
LEMMA OthersAsked ==
    ASSUME OInv, TypeOK', Suffix(1), NEW d \in Chars, NoRow(d) => NoRow(d)',
           life'[d] = life[d], db'[d] = db[d], value[d] # Absent => value'[d] # Absent
    PROVE  /\ life'[d] \in {"unborn", "deleted"} => NoRow(d)'
           /\ life'[d] = "alive" => db'[d] # Absent /\ value'[d] # Absent
           /\ Asked(d)'
<1>1. TypeOK /\ Lives
    BY DEF OInv, IInv, Orders
<1>2. Asked(d)'
    BY <1>1, AskedShift DEF Lives
<1> QED BY <1>1, <1>2 DEF Lives

LEMMA CreateStep ==
    ASSUME OInv, TypeOK', ServeCreate
    PROVE  Orders'
<1>0. PICK c : c = Head(todo).key
    OBVIOUS
<1> DEFINE row == [id |-> Head(todo).id, name |-> 0]
<1>1. TypeOK /\ Orders /\ OnItsWay
    BY OnTheWay DEF OInv, IInv
<1>2. Serving("create") /\ Served /\ pending' = pending
    BY DEF ServeCreate
<1>3. /\ c \in Chars /\ c \in Keys /\ Head(todo).id \in Nat
      /\ life[c] = "asked" /\ Suffix(1) /\ Sent' \subseteq Sent
      /\ Asked(c)' /\ NoRow(c) /\ Head(todo).id <= next
      /\ writing = <<>> /\ unwritten = <<>> /\ UNCHANGED <<writing, unwritten>>
      /\ HeldSaves = ToSet(pending) /\ HeldSaves' = ToSet(pending')
      /\ UNCHANGED <<next, dropped>>
    BY <1>0, <1>2, Turn
<1>4. HeldSaves' = HeldSaves
    BY <1>2, <1>3
<1>5. \/ /\ db' = [db EXCEPT ![c] = row] /\ value' = [value EXCEPT ![c] = row]
         /\ life' = [life EXCEPT ![c] = "alive"]
      \/ UNCHANGED <<db, value>> /\ life' = [life EXCEPT ![c] = "unborn"]
    BY <1>0 DEF ServeCreate, durable
<1>6. row # Absent /\ row.id \in Nat /\ row.name = 0 /\ row.id <= next
    BY <1>3, Disjoint DEF Row
<1> HIDE DEF row
<1>7. /\ \A k \in Keys \ {c} : db'[k] = db[k] /\ value'[k] = value[k]
      /\ \A d \in Chars \ {c} : life'[d] = life[d]
      /\ \/ db'[c] = row /\ value'[c] = row /\ life'[c] = "alive"
         \/ db'[c] = Absent /\ value'[c] = Absent /\ life'[c] = "unborn"
    BY <1>1, <1>3, <1>5 DEF TypeOK, NoRow
<1>8. \A s \in (HeldSaves \cup Sent)' : s \in HeldSaves \cup Sent /\ c \notin Of(s)
    BY <1>3, <1>4 DEF NoRow
<1>9. Shape'
    <2>1. \A k \in Keys : NameOf(k)' = NameOf(k)
        BY <1>3, <1>6, <1>7 DEF NameOf, NoRow
    <2> QED BY <1>1, <1>8, <2>1 DEF Orders, Shape, OnItsWay
<1>10. Names'
    BY <1>1, <1>6, <1>7 DEF Orders, Names
<1>11. InTurn'
    <2>1. \A i, j \in 1..Len(Reqs)' :
             i < j /\ IsSave(Reqs'[i]) /\ IsSave(Reqs'[j]) => Reqs'[i].id < Reqs'[j].id
        BY <1>1, <1>3, OrderShift DEF Orders
    <2> QED BY <1>1, <1>2, <1>3, <1>4, <2>1 DEF Orders, InTurn
<1>12. Numbered'
    BY <1>1, <1>3, <1>4, <1>6, <1>7 DEF Orders, Numbered
<1>13. Fresh'
    <2> SUFFICES ASSUME NEW t \in Sent', NEW k \in Of(t)
                 PROVE  /\ value'[k] # Absent => value'[k].id < t.id
                        /\ db'[k] # Absent => db'[k].id < t.id
        BY DEF Fresh
    <2>1. k \in Keys \ {c} /\ t \in Sent
        BY <1>3, <1>8 DEF Of
    <2> QED BY <1>1, <1>7, <2>1 DEF Orders, Fresh
<1>14. Lives'
    <2> SUFFICES ASSUME NEW d \in Chars
                 PROVE  /\ life'[d] \in {"unborn", "deleted"} => NoRow(d)'
                        /\ life'[d] = "alive" => db'[d] # Absent /\ value'[d] # Absent
                        /\ Asked(d)'
        BY DEF Lives
    <2>1. CASE d = c
        BY <1>3, <1>6, <1>7, <1>8, <2>1 DEF NoRow
    <2>2. CASE d # c
        <3>1. d \in Keys \ {c}
            BY <2>2, Disjoint
        <3>2. NoRow(d) => NoRow(d)'
            BY <1>7, <1>8, <3>1 DEF NoRow
        <3> QED BY <1>3, <1>7, <2>2, <3>1, <3>2, OthersAsked
    <2> QED BY <2>1, <2>2
<1> QED BY <1>9, <1>10, <1>11, <1>12, <1>13, <1>14 DEF Orders

(* A change that can't be: the character is as it was.                     *)
LEMMA NoChangeStep ==
    ASSUME OInv, TypeOK', NEW op \in {"delete", "rename"}, Serving(op), Served,
           NEW c, c = Head(todo).key, UNCHANGED <<db, value, pending>>,
           life' = [life EXCEPT ![c] = "alive"]
    PROVE  Orders'
<1>1. TypeOK /\ Orders /\ OnItsWay
    BY OnTheWay DEF OInv, IInv
<1>2. /\ c \in Chars /\ c \in Keys
      /\ Suffix(1) /\ Sent' \subseteq Sent
      /\ Asked(c)' /\ db[c] # Absent /\ value[c] # Absent
      /\ UNCHANGED <<writing, unwritten>>
      /\ HeldSaves = ToSet(pending) /\ HeldSaves' = ToSet(pending')
      /\ UNCHANGED <<next, dropped>>
    BY Turn
<1>3. HeldSaves' = HeldSaves
    BY <1>2
<1>4. \A d \in Chars \ {c} : life'[d] = life[d]
    BY <1>1 DEF TypeOK
<1>5. Shape'
    <2>1. \A k \in Keys : NameOf(k)' = NameOf(k)
        BY DEF NameOf
    <2> QED BY <1>1, <1>2, <1>3, <2>1 DEF Orders, Shape, OnItsWay
<1>6. Names'
    BY <1>1 DEF Orders, Names
<1>7. InTurn'
    <2>1. \A i, j \in 1..Len(Reqs)' :
             i < j /\ IsSave(Reqs'[i]) /\ IsSave(Reqs'[j]) => Reqs'[i].id < Reqs'[j].id
        BY <1>1, <1>2, OrderShift DEF Orders
    <2> QED BY <1>1, <1>2, <1>3, <2>1 DEF Orders, InTurn
<1>8. Numbered'
    BY <1>1, <1>2, <1>3 DEF Orders, Numbered
<1>9. Fresh'
    BY <1>1, <1>2 DEF Orders, Fresh
<1>10. Lives'
    <2> SUFFICES ASSUME NEW d \in Chars
                 PROVE  /\ life'[d] \in {"unborn", "deleted"} => NoRow(d)'
                        /\ life'[d] = "alive" => db'[d] # Absent /\ value'[d] # Absent
                        /\ Asked(d)'
        BY DEF Lives
    <2>1. CASE d = c
        <3>1. life'[c] = "alive"
            BY <1>1, <1>2 DEF TypeOK
        <3> QED BY <1>2, <2>1, <3>1
    <2>2. CASE d # c
        <3>1. NoRow(d) => NoRow(d)'
            BY <1>2, <1>3 DEF NoRow
        <3> QED BY <1>2, <1>4, <2>2, <3>1, OthersAsked
    <2> QED BY <2>1, <2>2
<1> QED BY <1>5, <1>6, <1>7, <1>8, <1>9, <1>10 DEF Orders

(* Each save kept, without the row of a deleted character.                *)
LEMMA DeleteLeaves ==
    ASSUME OInv, NEW c \in Chars, NEW left, left = KeptWithout(pending, c),
           NEW rows, rows = [k \in Keys |-> IF k = c THEN Absent
                                            ELSE AfterGood(left, k, value[k])]
    PROVE  /\ left \in Seq(Save) /\ Sorted(left)
           /\ \A t \in ToSet(left) : \E s \in ToSet(pending) :
                 /\ t.id = s.id /\ Of(t) = Of(s) \ {c} /\ t = Without(s, c)
                 /\ \A k \in Of(t) : t.rows[k] = s.rows[k]
           /\ rows[c] = Absent
           /\ \A k \in Keys \ {c} : FinalOf(ToSet(left), k, rows[k], value[k])
<1>1. pending \in Seq(Save) /\ Sorted(pending)
    BY DEF OInv, IInv, TypeOK, Orders, InTurn
<1>2. /\ left \in Seq(Save) /\ Sorted(left)
      /\ \A t \in ToSet(left) : \E s \in ToSet(pending) : t = Without(s, c)
    BY <1>1, WithoutOrder
<1>3. \A s \in ToSet(pending) :
          /\ Without(s, c).id = s.id /\ Of(Without(s, c)) = Of(s) \ {c}
          /\ \A k \in Of(Without(s, c)) : Without(s, c).rows[k] = s.rows[k]
    <2> SUFFICES ASSUME NEW s \in ToSet(pending)
                 PROVE  /\ Without(s, c).id = s.id /\ Of(Without(s, c)) = Of(s) \ {c}
                        /\ \A k \in Of(Without(s, c)) : Without(s, c).rows[k] = s.rows[k]
        OBVIOUS
    <2>1. s \in Save
        BY <1>1, InSet
    <2>2. Without(s, c).id = s.id
        BY <2>1 DEF Without, Save
    <2> QED BY <2>1, <2>2, WithoutIs
<1>4. \A k \in Keys \ {c} : FinalOf(ToSet(left), k, rows[k], value[k])
    BY <1>2, AfterGoodLast
<1>5. rows[c] = Absent
    BY Disjoint
<1> QED BY <1>2, <1>3, <1>4, <1>5

LEMMA DeleteStep ==
    ASSUME OInv, TypeOK', ServeDelete
    PROVE  Orders'
<1>0. PICK c : c = Head(todo).key
    OBVIOUS
<1>1. TypeOK /\ Orders /\ OnItsWay
    BY OnTheWay DEF OInv, IInv
<1>2. Serving("delete") /\ Served
    BY DEF ServeDelete
<1>3. /\ c \in Chars /\ c \in Keys
      /\ Suffix(1) /\ Sent' \subseteq Sent
      /\ Asked(c)' /\ \A s \in Sent' : c \notin Of(s)
      /\ UNCHANGED <<writing, unwritten>>
      /\ HeldSaves = ToSet(pending) /\ HeldSaves' = ToSet(pending')
      /\ UNCHANGED <<next, dropped>>
    BY <1>0, <1>2, Turn
<1>4. CASE UNCHANGED <<db, value, pending>> /\ life' = [life EXCEPT ![c] = "alive"]
    BY <1>0, <1>2, <1>4, NoChangeStep
<1>5. CASE /\ db' = [db EXCEPT ![c] = Absent]
           /\ pending' = KeptWithout(pending, c)
           /\ value' = [k \in Keys |-> IF k = c THEN Absent
                                       ELSE AfterGood(pending', k, value[k])]
           /\ life' = [life EXCEPT ![c] = "deleted"]
    <2>1. /\ Sorted(pending')
          /\ \A t \in HeldSaves' : \E s \in HeldSaves :
                 /\ t.id = s.id /\ Of(t) = Of(s) \ {c} /\ t = Without(s, c)
                 /\ \A k \in Of(t) : t.rows[k] = s.rows[k]
          /\ value'[c] = Absent
          /\ \A k \in Keys \ {c} : FinalOf(HeldSaves', k, value'[k], value[k])
        <3> DEFINE left == pending'
                   rows == value'
        <3>1. left = KeptWithout(pending, c)
              /\ rows = [k \in Keys |-> IF k = c THEN Absent ELSE AfterGood(left, k, value[k])]
            BY <1>5
        <3> HIDE DEF left, rows
        <3>2. /\ left \in Seq(Save) /\ Sorted(left)
              /\ \A t \in ToSet(left) : \E s \in ToSet(pending) :
                    /\ t.id = s.id /\ Of(t) = Of(s) \ {c} /\ t = Without(s, c)
                    /\ \A k \in Of(t) : t.rows[k] = s.rows[k]
              /\ rows[c] = Absent
              /\ \A k \in Keys \ {c} : FinalOf(ToSet(left), k, rows[k], value[k])
            BY <1>3, <3>1, DeleteLeaves
        <3> QED BY <1>3, <3>2 DEF left, rows
    <2>2. \A k \in Keys \ {c} :
              \/ value'[k] = value[k]
              \/ \E t \in HeldSaves' : k \in Of(t) /\ value'[k] = t.rows[k]
        BY <2>1 DEF FinalOf, Good
    <2>3. /\ db'[c] = Absent /\ \A k \in Keys \ {c} : db'[k] = db[k]
          /\ life'[c] = "deleted" /\ \A d \in Chars \ {c} : life'[d] = life[d]
        BY <1>1, <1>3, <1>5 DEF TypeOK
    <2>4. \A s \in (HeldSaves \cup Sent)' : c \notin Of(s)
        BY <1>3, <2>1
    <2>5. \A t \in HeldSaves' : /\ t.id \in Nat /\ t.id <= next
                                /\ \A k \in Of(t) : /\ k \in Keys \ {c} /\ t.rows[k].id = t.id
                                                    /\ t.rows[k].name = NameOf(k)
                                                    /\ t.rows[k] # Absent
        <3> SUFFICES ASSUME NEW t \in HeldSaves'
                     PROVE  /\ t.id \in Nat /\ t.id <= next
                            /\ \A k \in Of(t) : /\ k \in Keys \ {c} /\ t.rows[k].id = t.id
                                                /\ t.rows[k].name = NameOf(k)
                                                /\ t.rows[k] # Absent
            OBVIOUS
        <3>1. PICK s \in HeldSaves :
                 /\ t.id = s.id /\ Of(t) = Of(s) \ {c}
                 /\ \A k \in Of(t) : t.rows[k] = s.rows[k]
            BY <2>1
        <3> QED BY <1>1, <3>1 DEF Orders, Numbered, Shape, OnItsWay
    <2>6. \A k \in Keys \ {c} :
              /\ NameOf(k)' = NameOf(k)
              /\ value[k] # Absent => value'[k] # Absent /\ value'[k].name = value[k].name
        BY <2>2, <2>5 DEF NameOf
    <2>7. Shape'
        <3>1. \A s \in Sent' : \A k \in Of(s) :
                 k \in Keys \ {c} /\ s.rows[k].id = s.id /\ s.rows[k].name = NameOf(k)
            BY <1>1, <1>3 DEF Orders, Shape, OnItsWay
        <3> QED BY <2>5, <2>6, <3>1 DEF Shape
    <2>8. Names'
        BY <1>1, <2>1, <2>3, <2>6 DEF Orders, Names
    <2>9. InTurn'
        <3>1. \A i, j \in 1..Len(Reqs)' :
                 i < j /\ IsSave(Reqs'[i]) /\ IsSave(Reqs'[j]) => Reqs'[i].id < Reqs'[j].id
            BY <1>1, <1>3, OrderShift DEF Orders
        <3>2. \A s \in HeldSaves', t \in Sent' : s.id < t.id
            BY <1>1, <1>3, <2>1 DEF Orders, InTurn
        <3>3. \A d \in dropped : \A s \in (HeldSaves \cup Sent)' : d < s.id
            BY <1>1, <1>3, <2>1 DEF Orders, InTurn
        <3> QED BY <1>1, <1>3, <2>1, <3>1, <3>2, <3>3 DEF Orders, InTurn
    <2>10. Numbered'
        <3>1. \A k \in Keys : value'[k] # Absent => value'[k].id <= next
            BY <1>1, <2>1, <2>2, <2>5 DEF Orders, Numbered
        <3> QED BY <1>1, <1>3, <2>5, <3>1 DEF Orders, Numbered
    <2>11. Fresh'
        <3> SUFFICES ASSUME NEW t \in Sent', NEW k \in Of(t)
                     PROVE  /\ value'[k] # Absent => value'[k].id < t.id
                            /\ db'[k] # Absent => db'[k].id < t.id
            BY DEF Fresh
        <3>1. k \in Keys \ {c} /\ t \in Sent
            BY <1>3 DEF Of
        <3>2. \A s \in HeldSaves' : s.id < t.id
            BY <1>1, <2>1, <3>1 DEF Orders, InTurn
        <3>3. value'[k] # Absent => value'[k].id < t.id
            BY <1>1, <2>2, <2>5, <3>1, <3>2 DEF Orders, Fresh
        <3> QED BY <1>1, <2>3, <3>1, <3>3 DEF Orders, Fresh
    <2>12. Lives'
        <3> SUFFICES ASSUME NEW d \in Chars
                     PROVE  /\ life'[d] \in {"unborn", "deleted"} => NoRow(d)'
                            /\ life'[d] = "alive" => db'[d] # Absent /\ value'[d] # Absent
                            /\ Asked(d)'
            BY DEF Lives
        <3>1. CASE d = c
            BY <1>3, <2>1, <2>3, <2>4, <3>1 DEF NoRow
        <3>2. CASE d # c
            <4>1. d \in Keys \ {c}
                BY <3>2, Disjoint
            <4>2. ASSUME NoRow(d) PROVE NoRow(d)'
                <5>1. \A s \in (HeldSaves \cup Sent)' : d \notin Of(s)
                    BY <1>3, <2>1, <4>2 DEF NoRow
                <5>2. value'[d] = value[d]
                    BY <2>2, <4>1, <5>1
                <5> QED BY <2>3, <4>1, <4>2, <5>1, <5>2 DEF NoRow
            <4> QED BY <1>3, <2>3, <2>6, <3>2, <4>1, <4>2, OthersAsked
        <3> QED BY <3>1, <3>2
    <2> QED BY <2>7, <2>8, <2>9, <2>10, <2>11, <2>12 DEF Orders
<1> QED BY <1>0, <1>4, <1>5 DEF ServeDelete

(* A rename is of one row of each save, and only of its name.              *)
LEMMA RenamedRows ==
    ASSUME NEW s \in Save, NEW c \in Chars, NEW name \in Nat
    PROVE  /\ Renamed(s, c, name).id = s.id /\ Of(Renamed(s, c, name)) = Of(s)
           /\ \A k \in Of(s) : /\ k # c => Renamed(s, c, name).rows[k] = s.rows[k]
                               /\ k = c => Renamed(s, c, name).rows[k]
                                              = [s.rows[k] EXCEPT !.name = name]
<1>1. Of(Renamed(s, c, name)) = Of(s)
    BY RenamedIs
<1>2. CASE c \notin Of(s)
    BY <1>1, <1>2 DEF Renamed
<1>3. CASE c \in Of(s)
    <2> DEFINE r == [s.rows[c] EXCEPT !.name = name]
    <2>1. s.rows \in [Keys -> Row \cup {Absent}] /\ c \in Keys
        BY SaveTypes, Disjoint
    <2>2. Renamed(s, c, name) = [s EXCEPT !.rows = [s.rows EXCEPT ![c] = r]]
        BY <1>3, <2>1 DEF Renamed, Save
    <2> HIDE DEF r
    <2>3. Renamed(s, c, name).id = s.id /\ Renamed(s, c, name).rows = [s.rows EXCEPT ![c] = r]
        BY <2>2 DEF Save
    <2>4. \A k \in Keys : [s.rows EXCEPT ![c] = r][k] = IF k = c THEN r ELSE s.rows[k]
        BY <2>1
    <2> QED BY <1>1, <2>3, <2>4 DEF Of, r
<1> QED BY <1>2, <1>3

(* A rename of the rows there are, and of what is kept.                    *)
LEMMA RenameLeaves ==
    ASSUME OInv, ServeRename, NEW c, c = Head(todo).key
    PROVE  \/ UNCHANGED <<db, value, pending>> /\ life' = [life EXCEPT ![c] = "alive"]
           \/ \E name \in Nat :
                 /\ name = value[c].name + 1 /\ db[c] # Absent /\ value[c] # Absent
                 /\ db' = [db EXCEPT ![c] = [db[c] EXCEPT !.name = name]]
                 /\ value' = [value EXCEPT ![c] = [value[c] EXCEPT !.name = name]]
                 /\ life' = [life EXCEPT ![c] = "alive"]
                 /\ pending' = KeptRenamed(pending, c, name)
                 /\ pending' \in Seq(Save) /\ Sorted(pending')
                 /\ \A t \in ToSet(pending') :
                       \E s \in ToSet(pending) : t = Renamed(s, c, name)
                 /\ \A s \in ToSet(pending) : Renamed(s, c, name) \in ToSet(pending')
<1>1. TypeOK /\ OnItsWay /\ Orders /\ Known
    BY OnTheWay DEF OInv, IInv
<1>2. life' = [life EXCEPT ![c] = "alive"]
    BY DEF ServeRename
<1>3. c \in Chars /\ c \in Keys
    <2>1. todo # <<>> /\ Head(todo).op = "rename"
        BY DEF ServeRename, Serving
    <2>2. Head(todo) \in Request
        BY <1>1, <2>1, SetOfTail DEF TypeOK
    <2> QED BY <2>1, <2>2, RequestTypes, Disjoint
<1> DEFINE name == value[c].name + 1
<1>4. CASE disk = "ok" /\ db[c] # Absent
    <2>1. value[c] # Absent
        BY <1>1, <1>3, <1>4 DEF Known
    <2>2. name \in Nat
        BY <1>1, <1>3, <2>1 DEF OnItsWay
    <2>3. /\ db' = [db EXCEPT ![c].name = name] /\ value' = [value EXCEPT ![c].name = name]
          /\ pending' = KeptRenamed(pending, c, name)
        BY <1>4 DEF ServeRename
    <2>4. db \in [Keys -> Row \cup {Absent}] /\ value \in [Keys -> Row \cup {Absent}]
        BY <1>1 DEF TypeOK
    <2>5. /\ db' = [db EXCEPT ![c] = [db[c] EXCEPT !.name = name]]
          /\ value' = [value EXCEPT ![c] = [value[c] EXCEPT !.name = name]]
        BY <1>3, <2>3, <2>4
    <2>6. name = value[c].name + 1
        OBVIOUS
    <2> HIDE DEF name
    <2>7. pending \in Seq(Save) /\ Sorted(pending)
        BY <1>1 DEF TypeOK, Orders, InTurn
    <2> DEFINE left == pending'
    <2>8. left = KeptRenamed(pending, c, name)
        BY <2>3
    <2> HIDE DEF left
    <2>9. /\ left \in Seq(Save) /\ Sorted(left)
          /\ \A t \in ToSet(left) : \E s \in ToSet(pending) : t = Renamed(s, c, name)
          /\ \A s \in ToSet(pending) : Renamed(s, c, name) \in ToSet(left)
        BY <1>3, <2>2, <2>7, <2>8, RenamedOrder
    <2> QED BY <1>2, <1>4, <2>1, <2>2, <2>3, <2>5, <2>6, <2>9 DEF left
<1>5. CASE ~(disk = "ok" /\ db[c] # Absent)
    BY <1>2, <1>5 DEF ServeRename
<1> QED BY <1>4, <1>5

LEMMA RenameStep ==
    ASSUME OInv, TypeOK', ServeRename
    PROVE  Orders'
<1>0. PICK c : c = Head(todo).key
    OBVIOUS
<1>1. TypeOK /\ Orders /\ OnItsWay
    BY OnTheWay DEF OInv, IInv
<1>2. Serving("rename") /\ Served
    BY DEF ServeRename
<1>3. /\ c \in Chars /\ c \in Keys
      /\ Suffix(1) /\ Sent' \subseteq Sent
      /\ Asked(c)' /\ \A s \in Sent' : c \notin Of(s)
      /\ UNCHANGED <<writing, unwritten>>
      /\ HeldSaves = ToSet(pending) /\ HeldSaves' = ToSet(pending')
      /\ UNCHANGED <<next, dropped>>
    BY <1>0, <1>2, Turn
<1>4. CASE UNCHANGED <<db, value, pending>> /\ life' = [life EXCEPT ![c] = "alive"]
    BY <1>0, <1>2, <1>4, NoChangeStep
<1>5. ASSUME NEW name \in Nat,
             name = value[c].name + 1, db[c] # Absent, value[c] # Absent,
             db' = [db EXCEPT ![c] = [db[c] EXCEPT !.name = name]],
             value' = [value EXCEPT ![c] = [value[c] EXCEPT !.name = name]],
             life' = [life EXCEPT ![c] = "alive"],
             Sorted(pending'),
             \A t \in ToSet(pending') : \E s \in ToSet(pending) : t = Renamed(s, c, name)
      PROVE  Orders'
    <2>1. /\ db'[c] # Absent /\ value'[c] # Absent
          /\ db'[c].id = db[c].id /\ value'[c].id = value[c].id
          /\ db'[c].name = name /\ value'[c].name = name
        <3>1. /\ db'[c] = [db[c] EXCEPT !.name = name]
              /\ value'[c] = [value[c] EXCEPT !.name = name]
            BY <1>1, <1>3, <1>5 DEF TypeOK
        <3>2. db[c] \in Row /\ value[c] \in Row
            BY <1>1, <1>3, <1>5 DEF OnItsWay
        <3>3. ASSUME NEW r \in Row
              PROVE  LET q == [r EXCEPT !.name = name] IN
                     q \in Row /\ q.id = r.id /\ q.name = name
            BY DEF Row
        <3> QED BY <3>1, <3>2, <3>3, Disjoint
    <2>2. \A k \in Keys \ {c} : db'[k] = db[k] /\ value'[k] = value[k]
        BY <1>1, <1>5 DEF TypeOK
    <2>3. life'[c] = "alive" /\ \A d \in Chars \ {c} : life'[d] = life[d]
        BY <1>1, <1>3, <1>5 DEF TypeOK
    <2>4. ASSUME NEW t \in HeldSaves'
          PROVE  \E s \in HeldSaves :
                    /\ t.id = s.id /\ Of(t) = Of(s)
                    /\ \A k \in Of(s) : /\ k # c => t.rows[k] = s.rows[k]
                                        /\ k = c => t.rows[k] = [s.rows[k] EXCEPT !.name = name]
        <3>1. PICK s \in HeldSaves : t = Renamed(s, c, name)
            BY <1>3, <1>5
        <3>2. s \in Save
            BY <1>1 DEF OnItsWay
        <3> QED BY <1>3, <3>1, <3>2, RenamedRows
    <2>5. NameOf(c)' = name /\ \A k \in Keys \ {c} : NameOf(k)' = NameOf(k)
        BY <2>1, <2>2 DEF NameOf
    <2>6. Shape'
        <3>1. ASSUME NEW s \in Sent', NEW k \in Of(s)
              PROVE  s.rows[k].id = s.id /\ s.rows[k].name = NameOf(k)'
            <4>1. k \in Keys \ {c} /\ s \in Sent
                BY <1>3 DEF Of
            <4> QED BY <1>1, <2>5, <4>1 DEF Orders, Shape
        <3>2. ASSUME NEW t \in HeldSaves', NEW k \in Of(t)
              PROVE  t.rows[k].id = t.id /\ t.rows[k].name = NameOf(k)'
            <4>1. PICK s \in HeldSaves :
                    /\ t.id = s.id /\ Of(t) = Of(s)
                    /\ \A j \in Of(s) : /\ j # c => t.rows[j] = s.rows[j]
                                        /\ j = c => t.rows[j] = [s.rows[j] EXCEPT !.name = name]
                BY <2>4
            <4>2. k \in Of(s) /\ k \in Keys
                BY <4>1 DEF Of
            <4>3. /\ s.rows[k].id = s.id /\ s.rows[k].name = NameOf(k) /\ s.rows[k] \in Row
                BY <1>1, <4>2 DEF Orders, Shape, OnItsWay
            <4>4. CASE k # c
                BY <2>5, <4>1, <4>2, <4>3, <4>4
            <4>5. CASE k = c
                <5>1. t.rows[k] = [s.rows[k] EXCEPT !.name = name]
                    BY <4>1, <4>2, <4>5
                <5>2. t.rows[k].id = s.rows[k].id /\ t.rows[k].name = name
                    BY <4>3, <5>1 DEF Row
                <5> QED BY <2>5, <4>1, <4>3, <4>5, <5>2
            <4> QED BY <4>4, <4>5
        <3> QED BY <3>1, <3>2 DEF Shape
    <2>7. Names'
        BY <1>1, <2>1, <2>2 DEF Orders, Names
    <2>8. InTurn'
        <3>1. \A i, j \in 1..Len(Reqs)' :
                 i < j /\ IsSave(Reqs'[i]) /\ IsSave(Reqs'[j]) => Reqs'[i].id < Reqs'[j].id
            BY <1>1, <1>3, OrderShift DEF Orders
        <3>2. \A s \in HeldSaves', t \in Sent' : s.id < t.id
            BY <1>1, <1>3, <2>4 DEF Orders, InTurn
        <3>3. \A d \in dropped : \A s \in (HeldSaves \cup Sent)' : d < s.id
            BY <1>1, <1>3, <2>4 DEF Orders, InTurn
        <3> QED BY <1>1, <1>3, <1>5, <3>1, <3>2, <3>3 DEF Orders, InTurn
    <2>9. Numbered'
        <3>1. \A s \in (HeldSaves \cup Sent)' : s.id <= next
            BY <1>1, <1>3, <2>4 DEF Orders, Numbered
        <3>2. \A k \in Keys : value'[k] # Absent => value'[k].id <= next
            BY <1>1, <1>3, <1>5, <2>1, <2>2 DEF Orders, Numbered
        <3> QED BY <1>1, <1>3, <3>1, <3>2 DEF Orders, Numbered
    <2>10. Fresh'
        <3> SUFFICES ASSUME NEW t \in Sent', NEW k \in Of(t)
                     PROVE  /\ value'[k] # Absent => value'[k].id < t.id
                            /\ db'[k] # Absent => db'[k].id < t.id
            BY DEF Fresh
        <3>1. k \in Keys \ {c} /\ t \in Sent
            BY <1>3 DEF Of
        <3> QED BY <1>1, <2>2, <3>1 DEF Orders, Fresh
    <2>11. Lives'
        <3> SUFFICES ASSUME NEW d \in Chars
                     PROVE  /\ life'[d] \in {"unborn", "deleted"} => NoRow(d)'
                            /\ life'[d] = "alive" => db'[d] # Absent /\ value'[d] # Absent
                            /\ Asked(d)'
            BY DEF Lives
        <3>1. CASE d = c
            BY <1>3, <2>1, <2>3, <3>1
        <3>2. CASE d # c
            <4>1. d \in Keys \ {c}
                BY <3>2, Disjoint
            <4>2. ASSUME NoRow(d) PROVE NoRow(d)'
                <5>1. \A s \in (HeldSaves \cup Sent)' : d \notin Of(s)
                    BY <1>3, <2>4, <4>2 DEF NoRow
                <5> QED BY <2>2, <4>1, <4>2, <5>1 DEF NoRow
            <4> QED BY <1>3, <2>2, <2>3, <3>2, <4>1, <4>2, OthersAsked
        <3> QED BY <3>1, <3>2
    <2> QED BY <2>6, <2>7, <2>8, <2>9, <2>10, <2>11 DEF Orders
<1> QED BY ZenonT(90), <1>0, <1>4, <1>5, RenameLeaves

-----------------------------------------------------------------------------
(* At the start, and after a crash, nothing is on its way.                 *)

LEMMA NothingOnItsWay ==
    ASSUME pending = <<>>, unwritten = <<>>, writing = <<>>, todo = <<>>, queue = <<>>,
           dropped = {}, value = db,
           \A k \in Keys : db[k] # Absent => db[k].id <= next,
           \A c \in Chars : life[c] \in {"unborn", "deleted", "alive"}
                            /\ (life[c] = "alive" <=> db[c] # Absent)
    PROVE  Orders /\ Between
<1>1. HeldSaves = {}
    BY NoneSorted DEF HeldSaves
<1>2. Reqs = <<>> /\ Len(Reqs) = 0
    <2>1. <<>> \in Seq(Request)
        BY EmptySeq
    <2>2. <<>> \o <<>> = <<>>
        BY <2>1, ConcatEmptySeq
    <2> QED BY <2>2, EmptySeq DEF Reqs
<1>3. Sent = {} /\ \A i \in 1..Len(Reqs) : FALSE
    BY <1>2, NoneSorted DEF Sent
<1>4. Shape /\ Names /\ Fresh
    BY <1>1, <1>3 DEF Shape, Names, Fresh
<1>5. InTurn
    BY <1>1, <1>3, NoneSorted DEF InTurn
<1>6. Numbered
    BY <1>1, <1>3 DEF Numbered
<1>7. Lives
    BY <1>1, <1>3 DEF Lives, NoRow, Asked
<1> QED BY <1>4, <1>5, <1>6, <1>7 DEF Orders, Between

LEMMA NothingOnItsWayAfter ==
    (/\ pending = <<>> /\ unwritten = <<>> /\ writing = <<>> /\ todo = <<>> /\ queue = <<>>
     /\ dropped = {} /\ value = db
     /\ \A k \in Keys : db[k] # Absent => db[k].id <= next
     /\ \A c \in Chars : life[c] \in {"unborn", "deleted", "alive"}
                         /\ (life[c] = "alive" <=> db[c] # Absent))'
    => (Orders /\ Between)'
<1>1. (/\ pending = <<>> /\ unwritten = <<>> /\ writing = <<>> /\ todo = <<>> /\ queue = <<>>
       /\ dropped = {} /\ value = db
       /\ \A k \in Keys : db[k] # Absent => db[k].id <= next
       /\ \A c \in Chars : life[c] \in {"unborn", "deleted", "alive"}
                           /\ (life[c] = "alive" <=> db[c] # Absent))
      => Orders /\ Between
    BY NothingOnItsWay
<1> QED BY <1>1, PTL

LEMMA InitOrders == Init => Orders /\ Between
<1> SUFFICES ASSUME Init PROVE Orders /\ Between
    OBVIOUS
<1>1. /\ \A k \in Keys : db[k] # Absent => db[k].id <= next
      /\ \A c \in Chars : life[c] \in {"unborn", "deleted", "alive"}
                          /\ (life[c] = "alive" <=> db[c] # Absent)
    <2>1. PICK made \in SUBSET Chars :
            /\ db = [k \in Keys |-> IF k \in made THEN [id |-> 0, name |-> 0] ELSE Absent]
            /\ life = [c \in Chars |-> IF c \in made THEN "alive" ELSE "unborn"]
        BY DEF Init
    <2>2. [id |-> 0, name |-> 0] # Absent
        BY Disjoint DEF Row
    <2> QED BY <2>1, <2>2, Disjoint DEF Init
<1> QED BY <1>1, NothingOnItsWay DEF Init

LEMMA CrashStep ==
    ASSUME OInv, Crash
    PROVE  (Orders /\ Between)'
<1>1. TypeOK /\ Counted /\ OnItsWay /\ next' = counter
    BY OnTheWay, CrashCounts DEF OInv, IInv
<1>2. /\ pending' = <<>> /\ unwritten' = <<>> /\ writing' = <<>> /\ todo' = <<>>
      /\ queue' = <<>> /\ dropped' = {} /\ value' = db /\ db' = db
    BY DEF Crash, durable
<1>3. \A k \in Keys : db'[k] # Absent => db'[k].id <= next'
    BY <1>1, <1>2 DEF Counted
<1>4. \A c \in Chars : life'[c] \in {"unborn", "deleted", "alive"}
                       /\ (life'[c] = "alive" <=> db'[c] # Absent)
    BY <1>2 DEF Crash
<1> QED BY <1>2, <1>3, <1>4, NothingOnItsWayAfter

-----------------------------------------------------------------------------
(* Any step, and any behaviour.                                           *)

LEMMA BetweenStep ==
    ASSUME OInv, [Next]_vars
    PROVE  Between'
<1>1. CASE Clients
    BY <1>1 DEF Clients, SendSave, SendLoad, SendCreate, SendChange, SendFlush, thread,
                OInv, Between
<1>2. CASE Take \/ Gather \/ Retry \/ Idle
    BY <1>2 DEF Take, Gather, Retry, BeginWrite, Idle, Between
<1>3. CASE Write
    BY <1>3 DEF Write, WriteAll, WriteBusy, WriteCant, WriteFails, Alone, AloneDone, Written,
                Between
<1>4. CASE Serve
    BY <1>4 DEF Serve, ServeLoad, ServeCreate, ServeDelete, ServeRename, ServeFlush, Served,
                Between
<1>5. CASE DiskChanges \/ UNCHANGED vars
    BY <1>5 DEF DiskChanges, thread, vars, OInv, Between
<1>6. CASE Crash
    BY <1>6, CrashStep
<1> QED BY <1>1, <1>2, <1>3, <1>4, <1>5, <1>6 DEF Next, Thread

LEMMA OrderStep == OInv /\ [Next]_vars => OInv'
<1> SUFFICES ASSUME OInv, [Next]_vars PROVE OInv'
    OBVIOUS
<1>1. IInv' /\ TypeOK'
    BY IInvStep DEF OInv, IInv
<1>2. Between'
    BY BetweenStep
<1>3. Orders'
    <2>1. CASE Clients
        BY <1>1, <2>1, ClientsStep
    <2>2. CASE \/ Take \/ Retry \/ Write \/ Idle \/ DiskChanges \/ ServeLoad \/ ServeFlush
               \/ UNCHANGED vars
        BY <1>1, <2>2, ThreadThins
    <2>3. CASE Gather
        BY <1>1, <2>3, GatherStep
    <2>4. CASE ServeCreate \/ ServeDelete \/ ServeRename
        BY <1>1, <2>4, CreateStep, DeleteStep, RenameStep
    <2>5. CASE Crash
        BY <2>5, CrashStep
    <2> QED BY <2>1, <2>2, <2>3, <2>4, <2>5 DEF Next, Thread, Serve
<1> QED BY <1>1, <1>2, <1>3 DEF OInv

(* Whatever is batched, kept, compacted, retried or split, what is on its  *)
(* way stays in the order it was sent (serve_all, write_saves, Kept::keep).*)
THEOREM StaysInOrder == Spec => []OInv
<1>1. Init => OInv
    BY InitOrders, InitIInv DEF OInv
<1> QED BY <1>1, OrderStep, PTL DEF Spec

(* A character that was deleted stays so: what the thread keeps, writes or  *)
(* is still to take has no row of it (Request::Delete takes it out of what *)
(* is kept).                                                              *)
THEOREM DeletedStays == Spec => []DeletedStaysDeleted
<1>1. OInv => DeletedStaysDeleted
    <2> SUFFICES ASSUME OInv, NEW c \in Chars, life[c] = "deleted"
                 PROVE  db[c] = Absent /\ \A i \in 1..Len(Held) : c \notin Of(Held[i])
        BY DEF DeletedStaysDeleted
    <2>1. NoRow(c)
        BY DEF OInv, Orders, Lives
    <2>2. Held \in Seq(Save) /\ ToSet(Held) = HeldSaves
        BY HeldIs DEF OInv, IInv
    <2>3. \A i \in 1..Len(Held) : Held[i] \in HeldSaves
        BY <2>2, InSet
    <2> QED BY <2>1, <2>3 DEF NoRow
<1> QED BY <1>1, StaysInOrder, PTL

-----------------------------------------------------------------------------
(* What a transaction leaves of each row: the last of its saves'.          *)

LEMMA CommitLast ==
    ASSUME NEW saves \in Seq(Save), Sorted(saves), \A s \in ToSet(saves) : ~Bad(s),
           Commit(saves), NEW k \in Keys
    PROVE  FinalOf(ToSet(saves), k, db'[k], db[k])
<1>1. db'[k] = After(saves, k, db[k])
    BY DEF Commit, Applied
<1>2. \A i \in 1..Len(saves) : ~Bad(saves[i])
    BY InSet
<1>3. db'[k] = AfterGood(saves, k, db[k])
    BY <1>1, <1>2, AfterAllGood
<1>4. FinalOf(ToSet(saves), k, AfterGood(saves, k, db[k]), db[k])
    BY AfterGoodLast
<1> QED BY <1>3, <1>4

(* The steps that write what the thread holds, and those that don't.       *)
LEMMA WhatWrites ==
    ASSUME OInv, [Next]_vars
    PROVE  \/ db' = db
           \/ /\ WriteAll /\ Commit(writing) /\ \A s \in ToSet(writing) : ~Bad(s)
           \/ /\ Alone /\ writing # <<>> /\ ~Bad(Head(writing)) /\ Commit(<<Head(writing)>>)
           \/ /\ ServeCreate \/ ServeDelete \/ ServeRename
              /\ writing = <<>>
<1>1. writing \in Seq(Save) /\ Phases
    BY DEF OInv, IInv, TypeOK
<1>2. CASE Clients
    BY <1>2 DEF Clients, SendSave, SendLoad, SendCreate, SendChange, SendFlush, durable
<1>3. CASE Take \/ Gather \/ Retry \/ Idle \/ DiskChanges \/ Crash \/ UNCHANGED vars
    BY <1>3 DEF Take, Gather, Retry, Idle, DiskChanges, Crash, durable, vars
<1>4. CASE WriteAll
    <2>1. Commit(writing) /\ ~SomeBad
        BY <1>4 DEF WriteAll
    <2>2. \A s \in ToSet(writing) : ~Bad(s)
        BY <1>1, <2>1, InSet DEF SomeBad
    <2> QED BY <1>4, <2>1, <2>2
<1>5. CASE WriteBusy \/ WriteCant \/ WriteFails \/ AloneDone
    BY <1>5 DEF WriteBusy, WriteCant, WriteFails, AloneDone, durable
<1>6. CASE Alone
    BY <1>6 DEF Alone, durable
<1>7. CASE ServeLoad \/ ServeFlush
    BY <1>7 DEF ServeLoad, ServeFlush, durable
<1>8. CASE ServeCreate \/ ServeDelete \/ ServeRename
    <2>1. pc = "serve"
        BY <1>8 DEF ServeCreate, ServeDelete, ServeRename, Serving
    <2> QED BY <1>1, <1>8, <2>1 DEF Phases
<1> QED BY <1>2, <1>3, <1>4, <1>5, <1>6, <1>7, <1>8 DEF Next, Thread, Write, Serve

(* A save together (a trade, a mail taken with what is in it) reaches the   *)
(* tables on every side or on none: what writes one of its rows leaves the  *)
(* others written, or newer (write_batch, write_saves).                   *)
THEOREM TogetherIsWhole == Spec => TogetherWhole
<1>1. ASSUME OInv, [Next]_vars
      PROVE  \A i \in 1..Len(writing) : LET s == writing[i] IN
                (\E k \in Of(s) : db'[k] = s.rows[k] /\ db[k] # s.rows[k])
                  => \A k \in Of(s) : db'[k] # Absent /\ db'[k].id >= s.id
    <2>1. /\ TypeOK /\ OnItsWay /\ Shape /\ writing \in Seq(Save) /\ Sorted(writing)
        BY <1>1, OnTheWay DEF OInv, IInv, TypeOK, Orders, InTurn
    <2> SUFFICES ASSUME NEW i \in 1..Len(writing), NEW s, s = writing[i],
                        NEW k \in Of(s), db'[k] = s.rows[k], db[k] # s.rows[k],
                        NEW j \in Of(s)
                 PROVE  db'[j] # Absent /\ db'[j].id >= s.id
        OBVIOUS
    <2>2. s \in ToSet(writing) /\ ToSet(writing) \subseteq HeldSaves
        BY <2>1, InSet DEF HeldSaves
    <2>3. /\ s \in Save /\ s.id \in Nat /\ j \in Keys /\ k \in Keys
          /\ \A t \in ToSet(writing) : \A l \in Of(t) :
                /\ t.rows[l] # Absent /\ t.rows[l].id = t.id /\ t.id \in Nat /\ t \in Save
        BY <2>1, <2>2 DEF OnItsWay, Shape
    <2>4. db' # db /\ writing # <<>>
        BY <2>1, EmptySeq
    <2>5. CASE Commit(writing) /\ \A t \in ToSet(writing) : ~Bad(t)
        <3>1. FinalOf(ToSet(writing), j, db'[j], db[j])
            BY <2>1, <2>3, <2>5, CommitLast
        <3>2. s \in Good(ToSet(writing), j)
            BY <2>2, <2>5 DEF Good
        <3>3. PICK t \in Good(ToSet(writing), j) : db'[j] = t.rows[j] /\ s.id <= t.id
            BY <3>1, <3>2 DEF FinalOf
        <3>4. t \in ToSet(writing) /\ j \in Of(t)
            BY DEF Good
        <3> QED BY <2>3, <3>3, <3>4
    <2>6. CASE ~Bad(Head(writing)) /\ Commit(<<Head(writing)>>)
        <3> DEFINE h == Head(writing)
        <3>1. h \in ToSet(writing) /\ h \in Save
            BY <2>1, <2>4, SetOfTail
        <3>2. ~Bad(h) /\ Commit(<<h>>)
            BY <2>6
        <3> HIDE DEF h
        <3> DEFINE one == <<h>>
        <3>3. one \in Seq(Save) /\ ToSet(one) = {h} /\ Sorted(one)
            BY <3>1, OneSave
        <3>4. Commit(one)
            BY <3>2
        <3> HIDE DEF one
        <3>5. \A l \in Keys : FinalOf({h}, l, db'[l], db[l])
            BY <3>2, <3>3, <3>4, CommitLast
        <3>6. \A l \in Keys : db'[l] = db[l] \/ (l \in Of(h) /\ db'[l] = h.rows[l])
            BY <3>5 DEF FinalOf, Good
        <3>7. k \in Of(h) /\ h.rows[k] = s.rows[k]
            BY <2>3, <3>6
        <3>8. h.id = s.id
            BY <2>2, <2>3, <3>1, <3>7
        <3>9. s = h
            BY <2>1, <2>2, <3>1, <3>8, OneOfId
        <3>10. FinalOf({h}, j, db'[j], db[j]) /\ h \in Good({h}, j)
            BY <2>3, <3>2, <3>5, <3>9 DEF Good
        <3>11. db'[j] = h.rows[j]
            BY <3>10 DEF FinalOf, Good
        <3> QED BY <2>3, <2>2, <3>9, <3>11
    <2> QED BY <1>1, <2>4, <2>5, <2>6, WhatWrites
<1> QED BY <1>1, StaysInOrder, PTL DEF Spec, TogetherWhole

-----------------------------------------------------------------------------
(* The rows themselves.  Saves that go alone (store.rs:1058) go one by one, *)
(* and one that couldn't be written waits behind those that could: the     *)
(* order of the rows holds if the disk does not change under them, or if    *)
(* the tables refuse none, so that none ever goes alone.                   *)
SteadyDisk == Refused = {} \/ DiskSteadyAlone

(* Those that go alone are written while none is put by.                  *)
Steady == pc = "alone" => Refused # {} /\ (unwritten # <<>> => disk # "ok")

(* What is held is newer than what is in the tables; the newest of what is  *)
(* held, if the tables take it, is what was saved last, and where none is   *)
(* held what was saved last is in the tables, or was lost.                 *)
Behind == \A s \in HeldSaves : \A k \in Of(s) : db[k] # Absent => db[k].id < s.id
Newest ==
    \A k \in Keys : \/ FinalOf(HeldSaves, k, value[k], db[k])
                    \/ Good(HeldSaves, k) = {} /\ Lost(value[k])

Books == Behind /\ Newest
NInv  == OInv /\ Steady /\ Books

LEMMA SteadyStep ==
    ASSUME SteadyDisk, OInv, Steady, [Next]_vars
    PROVE  Steady'
<1>1. CASE Clients \/ UNCHANGED vars
    BY <1>1 DEF Clients, SendSave, SendLoad, SendCreate, SendChange, SendFlush, thread, vars,
                Steady
<1>2. CASE Take \/ Gather \/ Retry \/ Idle
    BY <1>2 DEF Take, Gather, Retry, BeginWrite, Idle, Steady
<1>3. CASE WriteAll \/ WriteBusy \/ WriteCant \/ AloneDone
    BY <1>3 DEF WriteAll, WriteBusy, WriteCant, AloneDone, Written, Steady
<1>4. CASE WriteFails
    <2>1. writing \in Seq(Save) /\ unwritten = <<>>
        BY <1>4 DEF OInv, IInv, TypeOK, Phases, WriteFails
    <2>2. unwritten' = <<>> /\ SomeBad
        BY <1>4, <2>1 DEF WriteFails, Written
    <2>3. Refused # {}
        BY <2>2 DEF SomeBad, Bad
    <2> QED BY <2>2, <2>3 DEF Steady
<1>5. CASE Alone
    <2>1. pc = "alone" /\ disk' = disk /\ pc' = pc
        BY <1>5 DEF Alone
    <2>2. unwritten' = unwritten \/ disk # "ok"
        BY <1>5 DEF Alone
    <2> QED BY <2>1, <2>2 DEF Steady
<1>6. CASE Serve
    BY <1>6 DEF Serve, ServeLoad, ServeCreate, ServeDelete, ServeRename, ServeFlush, Served,
                Steady
<1>7. CASE DiskChanges
    <2>1. pc' = pc /\ (DiskSteadyAlone => pc # "alone")
        BY <1>7 DEF DiskChanges, thread
    <2> QED BY <2>1 DEF Steady, SteadyDisk
<1>8. CASE Crash
    BY <1>8 DEF Crash, Steady
<1> QED BY <1>1, <1>2, <1>3, <1>4, <1>5, <1>6, <1>7, <1>8 DEF Next, Thread, Write

(* All the thread holds is in order, in each phase.                       *)
LEMMA HeldSorted ==
    ASSUME OInv
    PROVE  /\ Held \in Seq(Save) /\ ToSet(Held) = HeldSaves /\ Sorted(Held)
           /\ \A s, t \in HeldSaves : s.id = t.id => s = t
<1>1. /\ TypeOK /\ Phases /\ Held \in Seq(Save) /\ ToSet(Held) = HeldSaves
      /\ pending \in Seq(Save) /\ unwritten \in Seq(Save) /\ writing \in Seq(Save)
      /\ Sorted(pending) /\ Sorted(unwritten) /\ Sorted(writing)
      /\ \A s \in ToSet(unwritten), t \in ToSet(writing) : s.id < t.id
    BY HeldIs DEF OInv, IInv, TypeOK, Orders, InTurn
<1>2. CASE pending = <<>>
    <2>1. Held = unwritten \o writing
        BY <1>1, <1>2, ConcatEmptySeq DEF Held
    <2>2. Sorted(Held)
        BY <1>1, <2>1, SortedConcat
    <2> QED BY <1>1, <2>2, OneOfId
<1>3. CASE pending # <<>>
    <2>1. writing = <<>> /\ unwritten = <<>>
        BY <1>1, <1>3 DEF Phases, TypeOK
    <2>2. Held = pending
        BY <1>1, <2>1, ConcatEmptySeq DEF Held
    <2>3. Sorted(Held)
        BY <1>1, <2>2
    <2> QED BY <1>1, <2>3, OneOfId
<1> QED BY <1>2, <1>3

LEMMA LastOnly ==
    ASSUME NEW S, \A s, t \in S : s.id = t.id => s = t, \A s \in S : s.id \in Nat,
           NEW k, NEW r, NEW a, NEW b, FinalOf(S, k, a, r), FinalOf(S, k, b, r)
    PROVE  a = b
<1>1. CASE Good(S, k) = {}
    BY <1>1 DEF FinalOf
<1>2. CASE Good(S, k) # {}
    <2>1. PICK s \in Good(S, k) : a = s.rows[k] /\ \A t \in Good(S, k) : t.id <= s.id
        BY <1>2 DEF FinalOf
    <2>2. PICK t \in Good(S, k) : b = t.rows[k] /\ \A u \in Good(S, k) : u.id <= t.id
        BY <1>2 DEF FinalOf
    <2>3. s \in S /\ t \in S /\ s.id <= t.id /\ t.id <= s.id
        BY <2>1, <2>2 DEF Good
    <2>4. s = t
        BY <2>3
    <2> QED BY <2>1, <2>2, <2>4
<1> QED BY <1>1, <1>2

(* Nothing of the rows changes, or a save is lost that the tables refuse.  *)
LEMMA SameBooks ==
    ASSUME Books, HeldSaves' \subseteq HeldSaves,
           \A s \in HeldSaves : s \in HeldSaves' \/ Bad(s),
           UNCHANGED <<db, value, dropped>>
    PROVE  Books'
<1>1. Behind'
    BY DEF Books, Behind
<1>2. \A k \in Keys : Good(HeldSaves', k) = Good(HeldSaves, k)
    BY DEF Good
<1>3. ASSUME NEW k \in Keys
      PROVE  \/ FinalOf(HeldSaves', k, value'[k], db'[k])
             \/ Good(HeldSaves', k) = {} /\ Lost(value[k])'
    BY <1>2 DEF Books, Newest, FinalOf, Lost
<1>4. Newest'
    BY <1>3 DEF Newest
<1> QED BY <1>1, <1>4 DEF Books

(* Saves are kept: the newest of a row is kept, or lost, and then there is  *)
(* none of that row.                                                      *)
LEMMA KeepBooks ==
    ASSUME OInv, Books, NEW saves \in Seq(Save), Sorted(saves), HeldSaves = ToSet(saves),
           pending = <<>>, Keep(saves), HeldSaves' = ToSet(pending'),
           UNCHANGED <<db, value>>
    PROVE  Books'
<1>1. /\ TypeOK /\ Orders /\ OnItsWay /\ pending \in Seq(Save)
    BY OnTheWay DEF OInv, IInv, TypeOK
<1>2. pending \o saves = saves /\ ToSet(pending) = {}
    BY ConcatEmptySeq, NoneSorted
<1>3. /\ HeldSaves' \subseteq HeldSaves /\ dropped \subseteq dropped'
      /\ \A d \in dropped' :
            d \in dropped \/ \E s \in HeldSaves : d = s.id /\ \A t \in HeldSaves' : d < t.id
      /\ \A s \in HeldSaves : \/ s \in HeldSaves' \/ s.id \in dropped'
                              \/ \E t \in HeldSaves : Replaces(t, s) /\ s.id < t.id
    BY <1>1, <1>2, KeepOrder
<1>4. \A d \in dropped' : \A t \in HeldSaves' : d < t.id
    BY <1>1, <1>3 DEF Orders, InTurn
<1>5. Behind'
    BY <1>3 DEF Books, Behind
<1>6. ASSUME NEW k \in Keys
      PROVE  \/ FinalOf(HeldSaves', k, value'[k], db'[k])
             \/ Good(HeldSaves', k) = {} /\ Lost(value[k])'
    <2>1. Good(HeldSaves', k) \subseteq Good(HeldSaves, k)
        BY <1>3 DEF Good
    <2>2. CASE Good(HeldSaves, k) = {} /\ Lost(value[k])
        BY <1>3, <2>1, <2>2 DEF Lost
    <2>3. CASE Good(HeldSaves, k) = {} /\ value[k] = db[k]
        BY <2>1, <2>3 DEF FinalOf
    <2>4. ASSUME NEW s \in Good(HeldSaves, k), value[k] = s.rows[k],
                 \A t \in Good(HeldSaves, k) : t.id <= s.id
          PROVE  \/ FinalOf(HeldSaves', k, value'[k], db'[k])
                 \/ Good(HeldSaves', k) = {} /\ Lost(value[k])'
        <3>1. s \in HeldSaves /\ k \in Of(s) /\ ~Bad(s) /\ s.id \in Nat /\ s.rows[k] # Absent
              /\ s.rows[k].id = s.id
            BY <1>1 DEF Good, OnItsWay, Orders, Shape
        <3>2. CASE s \in HeldSaves'
            <4>1. s \in Good(HeldSaves', k)
                BY <3>1, <3>2 DEF Good
            <4> QED BY <2>1, <2>4, <4>1 DEF FinalOf
        <3>3. CASE s.id \in dropped'
            <4>1. Lost(value[k])'
                BY <2>4, <3>1, <3>3 DEF Lost
            <4>2. ASSUME NEW t \in Good(HeldSaves', k) PROVE FALSE
                <5>1. t \in HeldSaves /\ t.id <= s.id /\ t \in HeldSaves'
                    BY <2>1, <2>4 DEF Good
                <5>2. t.id \in Nat /\ s.id < t.id
                    BY <1>1, <1>4, <3>3, <5>1 DEF OnItsWay
                <5> QED BY <3>1, <5>1, <5>2
            <4> QED BY <4>1, <4>2
        <3>4. CASE \E t \in HeldSaves : Replaces(t, s) /\ s.id < t.id
            <4>1. PICK t \in HeldSaves : Replaces(t, s) /\ s.id < t.id
                BY <3>4
            <4>2. Of(t) = Of(s) /\ t.id \in Nat
                BY <1>1, <4>1 DEF Replaces, OnItsWay
            <4>3. t \in Good(HeldSaves, k)
                BY <3>1, <4>2 DEF Good, Bad
            <4>4. t.id <= s.id
                BY <2>4, <4>3
            <4> QED BY <3>1, <4>1, <4>2, <4>4
        <3> QED BY <1>3, <3>1, <3>2, <3>3, <3>4
    <2> QED BY <2>2, <2>3, <2>4 DEF Books, Newest, FinalOf
<1>7. Newest'
    BY <1>6 DEF Newest
<1> QED BY <1>5, <1>7 DEF Books

(* The first of what is held is written: all of it, or one alone.          *)
LEMMA WrittenBooks ==
    ASSUME OInv, Books, NEW saves \in Seq(Save), Sorted(saves),
           \A s \in ToSet(saves) : ~Bad(s), Commit(saves),
           HeldSaves = ToSet(saves) \cup HeldSaves',
           \A s \in ToSet(saves), t \in HeldSaves' : s.id < t.id,
           UNCHANGED <<value, dropped>>
    PROVE  Books'
<1>1. /\ TypeOK /\ Orders /\ OnItsWay
      /\ \A s, t \in HeldSaves : s.id = t.id => s = t
    BY OnTheWay, HeldSorted DEF OInv, IInv
<1>2. \A k \in Keys : FinalOf(ToSet(saves), k, db'[k], db[k])
    BY CommitLast
<1>3. \A s \in HeldSaves : s.id \in Nat /\ \A k \in Of(s) : k \in Keys /\ s.rows[k].id = s.id
    BY <1>1 DEF OnItsWay, Orders, Shape
<1>4. Behind'
    <2> SUFFICES ASSUME NEW s \in HeldSaves', NEW k \in Of(s), db'[k] # Absent
                 PROVE  db'[k].id < s.id
        BY DEF Behind
    <2>1. s \in HeldSaves /\ k \in Keys
        BY <1>3
    <2>2. CASE db'[k] = db[k]
        BY <2>1, <2>2 DEF Books, Behind
    <2>3. CASE db'[k] # db[k]
        <3>1. PICK t \in ToSet(saves) : k \in Of(t) /\ db'[k] = t.rows[k]
            BY <1>2, <2>1, <2>3 DEF FinalOf, Good
        <3> QED BY <1>3, <3>1
    <2> QED BY <2>2, <2>3
<1>5. ASSUME NEW k \in Keys
      PROVE  \/ FinalOf(HeldSaves', k, value'[k], db'[k])
             \/ Good(HeldSaves', k) = {} /\ Lost(value[k])'
    <2>1. Good(HeldSaves, k) = Good(ToSet(saves), k) \cup Good(HeldSaves', k)
        BY DEF Good
    <2>2. CASE Good(HeldSaves, k) = {}
        <3>1. db'[k] = db[k]
            BY <1>2, <2>1, <2>2 DEF FinalOf
        <3> QED BY <2>1, <2>2, <3>1 DEF Books, Newest, FinalOf, Lost
    <2>3. CASE Good(HeldSaves, k) # {}
        <3>1. PICK s \in Good(HeldSaves, k) :
                  value[k] = s.rows[k] /\ \A t \in Good(HeldSaves, k) : t.id <= s.id
            BY <2>3 DEF Books, Newest, FinalOf
        <3>2. CASE s \in HeldSaves'
            <4>1. s \in Good(HeldSaves', k)
                BY <3>1, <3>2 DEF Good
            <4> QED BY <2>1, <3>1, <4>1 DEF FinalOf
        <3>3. CASE s \notin HeldSaves'
            <4>1. s \in Good(ToSet(saves), k) /\ s \in ToSet(saves) /\ s \in HeldSaves
                BY <2>1, <3>1, <3>3 DEF Good
            <4>2. Good(HeldSaves', k) = {}
                <5> SUFFICES ASSUME NEW t \in Good(HeldSaves', k) PROVE FALSE
                    OBVIOUS
                <5>1. t \in HeldSaves' /\ t \in HeldSaves /\ t.id <= s.id
                    BY <2>1, <3>1 DEF Good
                <5>2. s.id < t.id /\ s.id \in Nat /\ t.id \in Nat
                    BY <1>3, <4>1, <5>1
                <5> QED BY <5>1, <5>2
            <4>3. FinalOf(HeldSaves, k, db'[k], db[k]) /\ FinalOf(HeldSaves, k, value[k], db[k])
                <5>1. Good(HeldSaves, k) = Good(ToSet(saves), k)
                    BY <2>1, <4>2
                <5> QED BY <1>2, <3>1, <5>1 DEF FinalOf
            <4>4. db'[k] = value[k]
                BY <1>1, <1>3, <4>3, LastOnly
            <4> QED BY <4>2, <4>4 DEF FinalOf
        <3> QED BY <3>2, <3>3
    <2> QED BY <2>2, <2>3
<1>6. Newest'
    BY <1>5 DEF Newest
<1> QED BY <1>4, <1>6 DEF Books

(* Saves join what is held, all newer.                                    *)
LEMMA GatherBooks ==
    ASSUME OInv, TypeOK', Books, Gather
    PROVE  Books'
<1>1. TypeOK /\ Orders /\ OnItsWay
    BY OnTheWay DEF OInv, IInv
<1>2. PICK saves \in Seq(Save) :
          /\ Sorted(saves) /\ ToSet(saves) \subseteq Sent
          /\ \A s \in ToSet(pending), t \in ToSet(saves) : s.id < t.id
          /\ writing = <<>> /\ unwritten = <<>> /\ pending' = <<>> /\ unwritten' = <<>>
          /\ ToSet(writing') = ToSet(pending) \cup ToSet(saves)
          /\ value' = [k \in Keys |-> AfterGood(saves, k, value[k])]
    BY Gathered
<1>3. /\ HeldSaves = ToSet(pending) /\ HeldSaves' = HeldSaves \cup ToSet(saves)
    BY <1>2, NoneSorted DEF HeldSaves
<1>4. db' = db /\ dropped' = dropped
    BY DEF Gather, durable
<1>5. Behind'
    <2>1. \A s \in ToSet(saves) : \A k \in Of(s) : db[k] # Absent => db[k].id < s.id
        BY <1>1, <1>2 DEF Orders, Fresh
    <2> QED BY <1>3, <1>4, <2>1 DEF Books, Behind
<1>6. ASSUME NEW k \in Keys
      PROVE  \/ FinalOf(HeldSaves', k, value'[k], db'[k])
             \/ Good(HeldSaves', k) = {} /\ Lost(value[k])'
    <2>1. FinalOf(ToSet(saves), k, value'[k], value[k])
        <3>1. value'[k] = AfterGood(saves, k, value[k])
            BY <1>2
        <3>2. FinalOf(ToSet(saves), k, AfterGood(saves, k, value[k]), value[k])
            BY <1>2, AfterGoodLast
        <3> QED BY <3>1, <3>2
    <2>2. Good(HeldSaves', k) = Good(HeldSaves, k) \cup Good(ToSet(saves), k)
        BY <1>3 DEF Good
    <2>3. CASE Good(ToSet(saves), k) = {}
        <3>1. value'[k] = value[k] /\ Good(HeldSaves', k) = Good(HeldSaves, k)
            BY <2>1, <2>2, <2>3 DEF FinalOf
        <3> QED BY <1>4, <3>1 DEF Books, Newest, FinalOf, Lost
    <2>4. CASE Good(ToSet(saves), k) # {}
        <3>1. PICK s \in Good(ToSet(saves), k) :
                  value'[k] = s.rows[k] /\ \A t \in Good(ToSet(saves), k) : t.id <= s.id
            BY <2>1, <2>4 DEF FinalOf
        <3>2. \A t \in Good(HeldSaves, k) : t.id <= s.id
            <4> SUFFICES ASSUME NEW t \in Good(HeldSaves, k) PROVE t.id <= s.id
                OBVIOUS
            <4>1. t \in ToSet(pending) /\ s \in ToSet(saves) /\ t \in HeldSaves
                BY <1>3, <3>1 DEF Good
            <4>2. t.id < s.id /\ t.id \in Nat /\ s.id \in Nat
                BY <1>1, <1>2, <4>1 DEF OnItsWay
            <4> QED BY <4>2
        <3>3. s \in Good(HeldSaves', k)
            BY <2>2
        <3> QED BY <2>2, <3>1, <3>2, <3>3 DEF FinalOf
    <2> QED BY <2>3, <2>4
<1>7. Newest'
    BY <1>6 DEF Newest
<1> QED BY <1>5, <1>7 DEF Books

LEMMA CreateBooks ==
    ASSUME OInv, TypeOK', Books, ServeCreate
    PROVE  Books'
<1>0. PICK c : c = Head(todo).key
    OBVIOUS
<1>1. Serving("create") /\ Served /\ pending' = pending /\ TypeOK
    BY DEF ServeCreate, OInv, IInv
<1>2. /\ c \in Chars /\ c \in Keys /\ NoRow(c)
      /\ HeldSaves' = HeldSaves /\ dropped' = dropped
    BY <1>0, <1>1, Turn
<1>3. PICK row : row = [id |-> Head(todo).id, name |-> 0]
    OBVIOUS
<1>4. \/ db' = [db EXCEPT ![c] = row] /\ value' = [value EXCEPT ![c] = row]
      \/ UNCHANGED <<db, value>>
    BY <1>0, <1>3 DEF ServeCreate, durable
<1>5. /\ \A k \in Keys \ {c} : db'[k] = db[k] /\ value'[k] = value[k]
      /\ value'[c] = db'[c]
    BY <1>1, <1>2, <1>4 DEF TypeOK, NoRow
<1>6. Behind'
    <2> SUFFICES ASSUME NEW s \in HeldSaves, NEW k \in Of(s), db'[k] # Absent
                 PROVE  db'[k].id < s.id
        BY <1>2 DEF Behind
    <2>1. k \in Keys \ {c}
        BY <1>2 DEF NoRow, Of
    <2> QED BY <1>5, <2>1 DEF Books, Behind
<1>7. ASSUME NEW k \in Keys
      PROVE  \/ FinalOf(HeldSaves', k, value'[k], db'[k])
             \/ Good(HeldSaves', k) = {} /\ Lost(value[k])'
    <2>1. CASE k = c
        <3>1. Good(HeldSaves', k) = {}
            BY <1>2, <2>1 DEF Good, NoRow
        <3> QED BY <1>5, <2>1, <3>1 DEF FinalOf
    <2>2. CASE k # c
        BY <1>2, <1>5, <2>2 DEF Books, Newest, FinalOf, Lost
    <2> QED BY <2>1, <2>2
<1>8. Newest'
    BY <1>7 DEF Newest
<1> QED BY <1>6, <1>8 DEF Books

LEMMA DeleteBooks ==
    ASSUME OInv, TypeOK', Books, ServeDelete
    PROVE  Books'
<1>0. PICK c : c = Head(todo).key
    OBVIOUS
<1>1. TypeOK /\ OnItsWay /\ Serving("delete") /\ Served
    BY OnTheWay DEF ServeDelete, OInv, IInv
<1>2. /\ c \in Chars /\ c \in Keys /\ dropped' = dropped
      /\ HeldSaves = ToSet(pending) /\ HeldSaves' = ToSet(pending')
    BY <1>0, <1>1, Turn
<1>3. CASE UNCHANGED <<db, value, pending>>
    BY <1>2, <1>3, SameBooks
<1>4. CASE /\ db' = [db EXCEPT ![c] = Absent]
           /\ pending' = KeptWithout(pending, c)
           /\ value' = [k \in Keys |-> IF k = c THEN Absent
                                       ELSE AfterGood(pending', k, value[k])]
    <2>1. /\ \A t \in HeldSaves' : \E s \in HeldSaves :
                 t.id = s.id /\ Of(t) = Of(s) \ {c}
          /\ \A s \in HeldSaves : Of(s) # {c} =>
                 Without(s, c) \in HeldSaves' /\ Of(Without(s, c)) = Of(s) \ {c}
          /\ value'[c] = Absent
          /\ \A k \in Keys \ {c} : FinalOf(HeldSaves', k, value'[k], value[k])
        <3> DEFINE left == pending'
                   rows == value'
        <3>1. left = KeptWithout(pending, c)
              /\ rows = [k \in Keys |-> IF k = c THEN Absent ELSE AfterGood(left, k, value[k])]
            BY <1>4
        <3> HIDE DEF left, rows
        <3>2. /\ \A t \in ToSet(left) : \E s \in ToSet(pending) :
                     t.id = s.id /\ Of(t) = Of(s) \ {c}
              /\ rows[c] = Absent
              /\ \A k \in Keys \ {c} : FinalOf(ToSet(left), k, rows[k], value[k])
            BY <1>2, <3>1, DeleteLeaves
        <3>3. \A s \in ToSet(pending) : Of(s) # {c} => Without(s, c) \in ToSet(left)
            <4>1. pending \in Seq(Save) /\ Sorted(pending)
                BY DEF OInv, IInv, TypeOK, Orders, InTurn
            <4> QED BY <1>2, <3>1, <4>1, WithoutOrder
        <3>4. \A s \in ToSet(pending) : Of(Without(s, c)) = Of(s) \ {c}
            BY <1>1, <1>2, WithoutIs DEF OnItsWay
        <3> QED BY <1>2, <3>2, <3>3, <3>4 DEF left, rows
    <2>2. db'[c] = Absent /\ \A k \in Keys \ {c} : db'[k] = db[k]
        BY <1>1, <1>2, <1>4 DEF TypeOK
    <2>3. Behind'
        <3> SUFFICES ASSUME NEW t \in HeldSaves', NEW k \in Of(t), db'[k] # Absent
                     PROVE  db'[k].id < t.id
            BY DEF Behind
        <3>1. PICK s \in HeldSaves : t.id = s.id /\ Of(t) = Of(s) \ {c}
            BY <2>1
        <3>2. k \in Keys \ {c} /\ k \in Of(s)
            BY <3>1 DEF Of
        <3> QED BY <2>2, <3>1, <3>2 DEF Books, Behind
    <2>4. ASSUME NEW k \in Keys
          PROVE  \/ FinalOf(HeldSaves', k, value'[k], db'[k])
                 \/ Good(HeldSaves', k) = {} /\ Lost(value[k])'
        <3>1. CASE k = c
            <4>1. Good(HeldSaves', k) = {}
                <5> SUFFICES ASSUME NEW t \in HeldSaves' PROVE c \notin Of(t)
                    BY <3>1 DEF Good
                <5> QED BY <2>1
            <4> QED BY <2>1, <2>2, <3>1, <4>1 DEF FinalOf
        <3>2. CASE k # c /\ Good(HeldSaves', k) # {}
            BY <2>1, <3>2 DEF FinalOf
        <3>3. CASE k # c /\ Good(HeldSaves', k) = {}
            <4>1. Good(HeldSaves, k) = {}
                <5> SUFFICES ASSUME NEW s \in Good(HeldSaves, k) PROVE FALSE
                    OBVIOUS
                <5>1. s \in HeldSaves /\ k \in Of(s) /\ ~Bad(s)
                    BY DEF Good
                <5>2. /\ Without(s, c) \in HeldSaves'
                      /\ Of(Without(s, c)) = Of(s) \ {c}
                    BY <2>1, <3>3, <5>1
                <5>3. k \in Of(Without(s, c)) /\ ~Bad(Without(s, c))
                    BY <3>3, <5>1, <5>2 DEF Bad
                <5> QED BY <3>3, <5>2, <5>3 DEF Good
            <4>2. value'[k] = value[k] /\ db'[k] = db[k]
                BY <2>1, <2>2, <3>3 DEF FinalOf
            <4> QED BY <1>2, <3>3, <4>1, <4>2 DEF Books, Newest, FinalOf, Lost
        <3> QED BY <3>1, <3>2, <3>3
    <2>5. Newest'
        BY <2>4 DEF Newest
    <2> QED BY <2>3, <2>5 DEF Books
<1> QED BY <1>0, <1>3, <1>4 DEF ServeDelete

LEMMA RenameBooks ==
    ASSUME OInv, TypeOK', Books, ServeRename
    PROVE  Books'
<1>0. PICK c : c = Head(todo).key
    OBVIOUS
<1>1. TypeOK /\ OnItsWay /\ Serving("rename") /\ Served
    BY OnTheWay DEF ServeRename, OInv, IInv
<1>2. /\ c \in Chars /\ c \in Keys /\ dropped' = dropped
      /\ HeldSaves = ToSet(pending) /\ HeldSaves' = ToSet(pending')
    BY <1>0, <1>1, Turn
<1>3. CASE UNCHANGED <<db, value, pending>>
    BY <1>2, <1>3, SameBooks
<1>4. ASSUME NEW name \in Nat, db[c] # Absent, value[c] # Absent,
             db' = [db EXCEPT ![c] = [db[c] EXCEPT !.name = name]],
             value' = [value EXCEPT ![c] = [value[c] EXCEPT !.name = name]],
             \A t \in ToSet(pending') : \E s \in ToSet(pending) : t = Renamed(s, c, name),
             \A s \in ToSet(pending) : Renamed(s, c, name) \in ToSet(pending')
      PROVE  Books'
    <2>1. \A s \in HeldSaves :
              LET t == Renamed(s, c, name) IN
              /\ t \in HeldSaves' /\ t.id = s.id /\ Of(t) = Of(s) /\ (Bad(t) <=> Bad(s))
              /\ \A k \in Of(s) : /\ k # c => t.rows[k] = s.rows[k]
                                  /\ k = c => t.rows[k] = [s.rows[k] EXCEPT !.name = name]
        BY <1>1, <1>2, <1>4, RenamedRows DEF OnItsWay, Bad
    <2>2. \A t \in HeldSaves' : \E s \in HeldSaves : t = Renamed(s, c, name)
        BY <1>2, <1>4
    <2>3. /\ db'[c] # Absent => db'[c].id = db[c].id
          /\ db'[c] = [db[c] EXCEPT !.name = name]
          /\ value'[c] = [value[c] EXCEPT !.name = name]
          /\ value'[c].id = value[c].id /\ value'[c] # Absent
          /\ \A k \in Keys \ {c} : db'[k] = db[k] /\ value'[k] = value[k]
        <3>1. /\ db'[c] = [db[c] EXCEPT !.name = name]
              /\ value'[c] = [value[c] EXCEPT !.name = name]
              /\ \A k \in Keys \ {c} : db'[k] = db[k] /\ value'[k] = value[k]
            BY <1>1, <1>2, <1>4 DEF TypeOK
        <3>2. db[c] \in Row /\ value[c] \in Row
            BY <1>1, <1>2, <1>4 DEF OnItsWay
        <3>3. ASSUME NEW r \in Row
              PROVE  LET q == [r EXCEPT !.name = name] IN q \in Row /\ q.id = r.id
            BY DEF Row
        <3> QED BY <3>1, <3>2, <3>3, Disjoint
    <2>4. Behind'
        <3> SUFFICES ASSUME NEW t \in HeldSaves', NEW k \in Of(t), db'[k] # Absent
                     PROVE  db'[k].id < t.id
            BY DEF Behind
        <3>1. PICK s \in HeldSaves : t = Renamed(s, c, name)
            BY <2>2
        <3>2. k \in Of(s) /\ k \in Keys /\ t.id = s.id
            BY <2>1, <3>1 DEF Of
        <3>3. CASE k = c
            BY <1>4, <2>3, <3>2, <3>3 DEF Books, Behind
        <3>4. CASE k # c
            BY <2>3, <3>2, <3>4 DEF Books, Behind
        <3> QED BY <3>3, <3>4
    <2>5. ASSUME NEW k \in Keys
          PROVE  \/ FinalOf(HeldSaves', k, value'[k], db'[k])
                 \/ Good(HeldSaves', k) = {} /\ Lost(value[k])'
        <3>1. /\ \A s \in Good(HeldSaves, k) : Renamed(s, c, name) \in Good(HeldSaves', k)
              /\ \A t \in Good(HeldSaves', k) :
                    \E s \in Good(HeldSaves, k) : t = Renamed(s, c, name) /\ t.id = s.id
            BY <2>1, <2>2 DEF Good
        <3>2. CASE Good(HeldSaves, k) = {} /\ value[k] = db[k]
            <4>1. value'[k] = db'[k] /\ Good(HeldSaves', k) = {}
                BY <2>3, <3>1, <3>2
            <4> QED BY <4>1 DEF FinalOf
        <3>3. CASE Good(HeldSaves, k) = {} /\ Lost(value[k])
            <4>1. Lost(value[k])'
                BY <1>2, <2>3, <3>3 DEF Lost
            <4> QED BY <3>1, <3>3, <4>1
        <3>4. ASSUME NEW s \in Good(HeldSaves, k), value[k] = s.rows[k],
                     \A t \in Good(HeldSaves, k) : t.id <= s.id
              PROVE  FinalOf(HeldSaves', k, value'[k], db'[k])
            <4> DEFINE t == Renamed(s, c, name)
            <4>1. s \in HeldSaves /\ k \in Of(s)
                BY DEF Good
            <4>2. t \in Good(HeldSaves', k) /\ t.id = s.id
                BY <2>1, <3>1, <4>1
            <4>3. value'[k] = t.rows[k]
                <5>1. /\ k # c => t.rows[k] = s.rows[k]
                      /\ k = c => t.rows[k] = [s.rows[k] EXCEPT !.name = name]
                    BY <2>1, <4>1
                <5> HIDE DEF t
                <5>2. CASE k = c
                    BY <2>3, <3>4, <5>1, <5>2
                <5>3. CASE k # c
                    BY <2>3, <3>4, <5>1, <5>3
                <5> QED BY <5>2, <5>3
            <4>4. \A u \in Good(HeldSaves', k) : u.id <= t.id
                BY <3>1, <3>4, <4>2
            <4> HIDE DEF t
            <4> QED BY <4>2, <4>3, <4>4 DEF FinalOf
        <3> QED BY <3>2, <3>3, <3>4 DEF Books, Newest, FinalOf
    <2>6. Newest'
        BY <2>5 DEF Newest
    <2> QED BY <2>4, <2>6 DEF Books
<1> QED BY <1>0, <1>3, <1>4, RenameLeaves

LEMMA NoneHeldBooks ==
    ASSUME pending = <<>>, unwritten = <<>>, writing = <<>>, value = db
    PROVE  Books
<1>1. HeldSaves = {}
    BY NoneSorted DEF HeldSaves
<1> QED BY <1>1 DEF Books, Behind, Newest, FinalOf, Good

LEMMA NoneHeldBooksAfter ==
    (pending = <<>> /\ unwritten = <<>> /\ writing = <<>> /\ value = db)' => Books'
<1>1. pending = <<>> /\ unwritten = <<>> /\ writing = <<>> /\ value = db => Books
    BY NoneHeldBooks
<1> QED BY <1>1, PTL

LEMMA BooksStep ==
    ASSUME NInv, TypeOK', [Next]_vars
    PROVE  Books'
<1>1. /\ OInv /\ Books /\ Steady /\ TypeOK /\ Phases
      /\ pending \in Seq(Save) /\ unwritten \in Seq(Save) /\ writing \in Seq(Save)
      /\ Sorted(writing) /\ Sorted(unwritten)
    BY DEF NInv, OInv, IInv, TypeOK, Orders, InTurn
<1>2. /\ HeldSaves = ToSet(pending) \cup ToSet(unwritten) \cup ToSet(writing)
      /\ HeldSaves' = ToSet(pending') \cup ToSet(unwritten') \cup ToSet(writing')
    BY DEF HeldSaves
<1>3. CASE Clients
    <2>1. UNCHANGED <<pending, unwritten, writing, db, value, dropped>>
        BY <1>3 DEF Clients, SendSave, SendLoad, SendCreate, SendChange, SendFlush, thread,
                    durable
    <2> QED BY <1>1, <1>2, <2>1, SameBooks
<1>4. CASE \/ Take \/ Idle \/ WriteBusy \/ DiskChanges \/ ServeLoad \/ ServeFlush
           \/ UNCHANGED vars
    <2>1. UNCHANGED <<pending, unwritten, writing, db, value, dropped>>
        BY <1>4 DEF Take, Idle, WriteBusy, DiskChanges, ServeLoad, ServeFlush, Served, thread,
                    durable, vars
    <2> QED BY <1>1, <1>2, <2>1, SameBooks
<1>5. CASE Retry
    <2>1. /\ UNCHANGED <<unwritten, value, db, dropped>>
          /\ writing' = pending \o <<>> /\ pending' = <<>> /\ writing = <<>>
        BY <1>1, <1>5 DEF Retry, BeginWrite, durable, Phases
    <2>2. writing' = pending
        BY <1>1, <2>1, ConcatEmptySeq
    <2> QED BY <1>1, <1>2, <2>1, <2>2, NoneSorted, SameBooks
<1>6. CASE Gather
    BY <1>1, <1>6, GatherBooks
<1>7. CASE WriteAll
    <2>1. /\ UNCHANGED <<unwritten, value, dropped, pending>> /\ unwritten = <<>>
          /\ pending = <<>> /\ writing' = <<>> /\ Commit(writing) /\ ~SomeBad
        BY <1>1, <1>7 DEF WriteAll, Written, WritesAgain, Phases
    <2>2. \A s \in ToSet(writing) : ~Bad(s)
        BY <1>1, <2>1, InSet DEF SomeBad
    <2>3. HeldSaves' = {} /\ HeldSaves = ToSet(writing)
        BY <1>2, <2>1, NoneSorted
    <2> QED BY <1>1, <2>1, <2>2, <2>3, WrittenBooks
<1>8. CASE WriteFails
    <2>1. /\ UNCHANGED <<unwritten, value, dropped, pending, db>> /\ SomeBad
          /\ \/ writing' = writing
             \/ Len(writing) = 1 /\ writing' = <<>>
        BY <1>8 DEF WriteFails, Written, WritesAgain, durable
    <2>2. CASE writing' = writing
        BY <1>1, <1>2, <2>1, <2>2, SameBooks
    <2>3. CASE Len(writing) = 1 /\ writing' = <<>>
        <3>1. \A s \in ToSet(writing) : s = writing[1]
            BY <1>1, <2>3, InSet
        <3>2. Bad(writing[1])
            BY <2>1, <2>3 DEF SomeBad
        <3>3. HeldSaves' \subseteq HeldSaves /\ \A s \in HeldSaves : s \in HeldSaves' \/ Bad(s)
            BY <1>2, <2>1, <2>3, <3>1, <3>2, NoneSorted
        <3> QED BY <1>1, <2>1, <3>3, SameBooks
    <2> QED BY <2>1, <2>2, <2>3
<1>9. CASE WriteCant
    <2>1. /\ UNCHANGED <<unwritten, value, db>>
          /\ writing' = <<>> /\ Keep(writing) /\ pending = <<>> /\ unwritten = <<>>
        BY <1>1, <1>9 DEF WriteCant, Written, durable, Phases
    <2>2. HeldSaves = ToSet(writing) /\ HeldSaves' = ToSet(pending')
        BY <1>2, <2>1, NoneSorted
    <2> QED BY <1>1, <2>1, <2>2, KeepBooks
<1>10. CASE AloneDone
    <2>1. /\ UNCHANGED <<writing, value, db>> /\ writing = <<>>
          /\ unwritten' = <<>> /\ pending = <<>>
          /\ \/ unwritten # <<>> /\ Keep(unwritten)
             \/ unwritten = <<>> /\ UNCHANGED <<pending, dropped>>
        BY <1>1, <1>10 DEF AloneDone, WritesAgain, durable, Phases
    <2>2. HeldSaves = ToSet(unwritten) /\ HeldSaves' = ToSet(pending')
        BY <1>2, <2>1, NoneSorted
    <2>3. CASE unwritten # <<>> /\ Keep(unwritten)
        BY <1>1, <2>1, <2>2, <2>3, KeepBooks
    <2>4. CASE unwritten = <<>> /\ UNCHANGED <<pending, dropped>>
        BY <1>1, <1>2, <2>1, <2>4, SameBooks
    <2> QED BY <2>1, <2>3, <2>4
<1>11. CASE Alone
    <2>0. PICK s : s = Head(writing)
        OBVIOUS
    <2>1. /\ writing # <<>> /\ writing' = Tail(writing) /\ UNCHANGED <<pending, dropped, value>>
          /\ pending = <<>> /\ (unwritten # <<>> => disk # "ok")
          /\ \/ disk = "ok" /\ ~Bad(s) /\ Commit(<<s>>) /\ UNCHANGED unwritten
             \/ unwritten' = Append(unwritten, s) /\ db' = db
             \/ Bad(s) /\ UNCHANGED <<db, unwritten>>
        BY <1>1, <1>11, <2>0 DEF Alone, durable, Phases, Steady
    <2>2. /\ ToSet(writing) = {s} \cup ToSet(Tail(writing)) /\ s \in Save
          /\ \A t \in ToSet(Tail(writing)) : s.id < t.id
        BY <1>1, <2>0, <2>1, SetOfTail, SortedTail
    <2> DEFINE one == <<s>>
    <2>3. /\ one \in Seq(Save) /\ ToSet(one) = {s} /\ Sorted(one)
          /\ Append(unwritten, s) = unwritten \o one
        BY <1>1, <2>2, OneSave, Appending
    <2>4. CASE disk = "ok" /\ ~Bad(s) /\ Commit(one) /\ UNCHANGED unwritten
        <3>1. /\ HeldSaves' = ToSet(Tail(writing)) /\ HeldSaves = {s} \cup HeldSaves'
            BY <1>2, <2>1, <2>2, <2>4, NoneSorted
        <3> HIDE DEF one
        <3> QED BY <1>1, <2>1, <2>2, <2>3, <2>4, <3>1, WrittenBooks
    <2>5. CASE unwritten' = Append(unwritten, s) /\ db' = db
        <3>1. unwritten' = unwritten \o one
            BY <2>3, <2>5
        <3>2. ToSet(unwritten \o one) = ToSet(unwritten) \cup ToSet(one)
            <4> HIDE DEF one
            <4> QED BY <1>1, <2>3, SetOfConcat
        <3>3. HeldSaves' = HeldSaves
            <4> HIDE DEF one
            <4> QED BY <1>2, <2>1, <2>2, <2>3, <3>1, <3>2
        <3> QED BY <1>1, <2>1, <2>5, <3>3, SameBooks
    <2>6. CASE Bad(s) /\ UNCHANGED <<db, unwritten>>
        BY <1>1, <1>2, <2>1, <2>2, <2>6, SameBooks
    <2> QED BY <2>1, <2>4, <2>5, <2>6
<1>12. CASE ServeCreate \/ ServeDelete \/ ServeRename
    BY <1>1, <1>12, CreateBooks, DeleteBooks, RenameBooks
<1>13. CASE Crash
    <2>1. pending' = <<>> /\ unwritten' = <<>> /\ writing' = <<>> /\ value' = db'
        BY <1>13 DEF Crash, durable
    <2> QED BY <2>1, NoneHeldBooksAfter
<1> QED BY <1>3, <1>4, <1>5, <1>6, <1>7, <1>8, <1>9, <1>10, <1>11, <1>12, <1>13
        DEF Next, Thread, Write, Serve

(* The books are kept in every behaviour, if the disk is steady.           *)
THEOREM BooksKept ==
    ASSUME SteadyDisk
    PROVE  Spec => []NInv
<1>1. Init => NInv
    <2> SUFFICES ASSUME Init PROVE NInv
        OBVIOUS
    <2>1. OInv
        BY InitOrders, InitIInv DEF OInv
    <2>2. Steady /\ Books
        BY NoneHeldBooks DEF Init, Steady
    <2> QED BY <2>1, <2>2 DEF NInv
<1>2. NInv /\ [Next]_vars => NInv'
    <2> SUFFICES ASSUME NInv, [Next]_vars PROVE NInv'
        OBVIOUS
    <2>1. OInv' /\ TypeOK'
        <3>1. OInv'
            BY OrderStep DEF NInv
        <3> QED BY <3>1 DEF OInv, IInv
    <2>2. Steady'
        BY SteadyStep DEF NInv
    <2>3. Books'
        BY <2>1, BooksStep
    <2> QED BY <2>1, <2>2, <2>3 DEF NInv
<1> QED BY <1>1, <1>2, PTL DEF Spec

(* What was saved last is in the tables or on its way there: what the       *)
(* thread holds, in order, written over the tables, gives each row as a     *)
(* perfect register would, but for what was lost past MaxKept (write_saves, *)
(* Kept::keep, without, rename).                                          *)
THEOREM NewestStays ==
    ASSUME SteadyDisk
    PROVE  Spec => []NewestHeld
<1>1. ASSUME NInv PROVE NewestHeld
    <2> SUFFICES ASSUME NEW k \in Keys
                 PROVE  AfterGood(Held, k, db[k]) = value[k] \/ Lost(value[k])
        BY DEF NewestHeld
    <2>1. /\ Held \in Seq(Save) /\ ToSet(Held) = HeldSaves /\ Sorted(Held)
          /\ \A s, t \in HeldSaves : s.id = t.id => s = t
          /\ \A s \in HeldSaves : s.id \in Nat
        BY <1>1, HeldSorted, OnTheWay DEF NInv, OInv, IInv, OnItsWay
    <2>2. FinalOf(ToSet(Held), k, AfterGood(Held, k, db[k]), db[k])
        BY <2>1, AfterGoodLast
    <2>3. FinalOf(HeldSaves, k, value[k], db[k]) \/ Lost(value[k])
        BY <1>1 DEF NInv, Books, Newest
    <2> QED BY <2>1, <2>2, <2>3, LastOnly
<1> QED BY <1>1, BooksKept, PTL

-----------------------------------------------------------------------------
(* The store implements the register: each step, one of its steps.         *)

LEMMA TakenIf ==
    ASSUME answer' = answer, dropped \subseteq dropped'
    PROVE  Promise!Taken
<1>1. Lost(answer.want) => Lost(answer.want)'
    BY DEF Lost
<1> QED BY <1>1 DEF Promise!Taken

LEMMA TakenNone ==
    ASSUME answer' = NoAnswer
    PROVE  Promise!Taken
BY DEF Promise!Taken, NoAnswer

(* What no client can tell.                                               *)
LEMMA NothingSeen ==
    ASSUME UNCHANGED <<db, value>>, Promise!Taken
    PROVE  Promise!RegisterNext
BY DEF Promise!RegisterNext, Promise!Save

(* Gather is the saves.                                                   *)
LEMMA GatherSaves ==
    ASSUME OInv, TypeOK', Gather
    PROVE  Promise!Save
<1>1. TypeOK /\ Orders /\ OnItsWay
    BY OnTheWay DEF OInv, IInv
<1>2. PICK saves \in Seq(Save) :
          /\ Sorted(saves) /\ ToSet(saves) \subseteq Sent
          /\ value' = [k \in Keys |-> AfterGood(saves, k, value[k])]
    BY Gathered
<1>3. db' = db /\ answer' = NoAnswer
    BY DEF Gather, durable
<1>4. ASSUME NEW k \in Keys, value'[k] # value[k]
      PROVE  Promise!Newer(value'[k], value[k]) /\ Promise!Newer(value'[k], db[k])
    <2>1. value'[k] = AfterGood(saves, k, value[k])
        BY <1>2
    <2>2. FinalOf(ToSet(saves), k, AfterGood(saves, k, value[k]), value[k])
        BY <1>2, AfterGoodLast
    <2>3. PICK s \in ToSet(saves) : k \in Of(s) /\ value'[k] = s.rows[k]
        BY <1>4, <2>1, <2>2 DEF FinalOf, Good
    <2>4. /\ s \in Sent /\ s.id \in Nat /\ s.rows[k] # Absent /\ s.rows[k].id = s.id
          /\ s.rows[k].name = NameOf(k)
          /\ value[k] # Absent => value[k].id \in Nat /\ value[k].id < s.id
          /\ db[k] # Absent => db[k].id \in Nat /\ db[k].id < s.id
        BY <1>1, <1>2, <2>3 DEF Orders, Shape, Fresh, OnItsWay
    <2>5. /\ value[k] # Absent => s.rows[k].name = value[k].name
          /\ db[k] # Absent => s.rows[k].name = db[k].name
        BY <1>1, <2>4 DEF NameOf, Orders, Names
    <2> QED BY <2>3, <2>4, <2>5 DEF Promise!Newer
<1> QED BY <1>3, <1>4, TakenNone DEF Promise!Save

(* A transaction makes what was saved durable.                            *)
LEMMA CommitPersists ==
    ASSUME NInv, NEW saves \in Seq(Save), Sorted(saves), ToSet(saves) \subseteq HeldSaves,
           \A s \in ToSet(saves) : ~Bad(s), Commit(saves),
           UNCHANGED <<value, dropped, answer>>
    PROVE  Promise!Persist
<1>1. TypeOK /\ Orders /\ OnItsWay /\ Books
    BY OnTheWay DEF NInv, OInv, IInv
<1>2. ASSUME NEW k \in Keys, db'[k] # db[k]
      PROVE  Promise!Newer(db'[k], db[k]) /\ Promise!AsNew(value[k], db'[k])
    <2>1. FinalOf(ToSet(saves), k, db'[k], db[k])
        BY CommitLast
    <2>2. PICK s \in ToSet(saves) : k \in Of(s) /\ ~Bad(s) /\ db'[k] = s.rows[k]
        BY <1>2, <2>1 DEF FinalOf, Good
    <2>3. /\ s \in HeldSaves /\ s \in Good(HeldSaves, k) /\ s.id \in Nat
          /\ s.rows[k] # Absent /\ s.rows[k].id = s.id /\ s.rows[k].name = NameOf(k)
          /\ db[k] # Absent => db[k].id \in Nat /\ db[k].id < s.id
        BY <1>1, <2>2 DEF Orders, Shape, Books, Behind, OnItsWay, Good
    <2>4. db[k] # Absent => s.rows[k].name = db[k].name
        BY <1>1, <2>3 DEF NameOf, Orders, Names
    <2>5. PICK t \in Good(HeldSaves, k) : value[k] = t.rows[k] /\ s.id <= t.id
        BY <1>1, <2>3 DEF Books, Newest, FinalOf
    <2>6. /\ t.id \in Nat /\ t.rows[k] # Absent /\ t.rows[k].id = t.id
          /\ t.rows[k].name = NameOf(k) /\ NameOf(k) \in Nat
        BY <1>1 DEF Orders, Shape, OnItsWay, Good, Row
    <2> QED BY <2>2, <2>3, <2>4, <2>5, <2>6 DEF Promise!Newer, Promise!AsNew
<1> QED BY <1>2, TakenIf DEF Promise!Persist

(* A load reads what was saved last, or what it reads doesn't count.       *)
LEMMA LoadReads ==
    ASSUME NInv, ServeLoad
    PROVE  Promise!RegisterNext
<1> DEFINE c == Head(todo).key
           I == {j \in 1..Len(pending) : c \in Of(pending[j])}
           i == SelectLastInSeq(pending, LAMBDA s : c \in Of(s))
<1>1. /\ TypeOK /\ Phases /\ Orders /\ OnItsWay /\ Books
      /\ pending \in Seq(Save) /\ Sorted(pending)
    BY OnTheWay DEF NInv, OInv, IInv, TypeOK, Orders, InTurn
<1>2. /\ answer' = [got |-> After(pending, c, db[c]), want |-> value[c],
                    refused |-> i # 0 /\ Bad(pending[i])]
      /\ UNCHANGED <<db, value, dropped>> /\ pc = "serve" /\ todo # <<>>
      /\ Head(todo).op = "load"
    BY DEF ServeLoad, Served, Serving, durable
<1>3. c \in Keys
    <2>1. Head(todo) \in Request
        BY <1>1, <1>2, SetOfTail DEF TypeOK
    <2> QED BY <1>2, <2>1, RequestTypes, Disjoint
<1>4. HeldSaves = ToSet(pending)
    BY <1>1, <1>2, NoneSorted DEF HeldSaves, Phases
<1>5. /\ After(pending, c, db[c]) = IF i = 0 THEN db[c] ELSE pending[i].rows[c]
      /\ i = IF I = {} THEN 0 ELSE Max(I)
    BY DEF After, SelectLastInSeq
<1> HIDE DEF c, i
<1>6. CASE I = {}
    <2>1. Good(HeldSaves, c) = {}
        BY <1>1, <1>4, <1>6, InSet DEF Good
    <2>2. answer'.got = db[c] /\ answer'.want = value[c] /\ ~answer'.refused
        BY <1>2, <1>5, <1>6
    <2>3. value[c] = db[c] \/ Lost(value[c])
        BY <1>1, <1>3, <2>1 DEF Books, Newest, FinalOf
    <2>4. CASE Lost(value[c])
        <3>1. Promise!Taken
            BY <1>2, <2>2, <2>4 DEF Promise!Taken, Lost
        <3> QED BY <1>2, <3>1, NothingSeen
    <2>5. CASE value[c] = db[c] /\ ~Lost(value[c])
        <3>1. Promise!Read(c)
            BY <1>2, <2>2, <2>5 DEF Promise!Read, Lost
        <3> QED BY <1>3, <3>1 DEF Promise!RegisterNext
    <2> QED BY <2>3, <2>4, <2>5
<1>7. CASE I # {}
    <2>1. Len(pending) \in Nat /\ I \subseteq 1..Len(pending)
        BY <1>1, LenProperties
    <2>2. \E m \in I : \A j \in I : m >= j
        BY <1>7, <2>1, GreatestOf
    <2>3. Max(I) \in I /\ \A j \in I : j <= Max(I)
        BY <2>1, <2>2 DEF Max
    <2>4. i \in I /\ \A j \in I : j <= i
        BY <1>5, <1>7, <2>3
    <2>5. i \in 1..Len(pending) /\ c \in Of(pending[i]) /\ i # 0
        BY <2>1, <2>4
    <2>6. answer'.got = pending[i].rows[c] /\ answer'.want = value[c]
          /\ (answer'.refused <=> Bad(pending[i]))
        BY <1>2, <1>5, <2>5
    <2>7. CASE Bad(pending[i])
        <3>1. Promise!Taken
            BY <2>6, <2>7 DEF Promise!Taken
        <3> QED BY <1>2, <3>1, NothingSeen
    <2>8. CASE ~Bad(pending[i])
        <3> DEFINE s == pending[i]
        <3>1. s \in Good(HeldSaves, c) /\ s \in Save /\ s.id \in Nat
            BY <1>1, <1>4, <2>5, <2>8, InSet, ElementOfSeq, SaveTypes DEF Good
        <3>2. ASSUME NEW t \in Good(HeldSaves, c) PROVE t.id <= s.id
            <4>1. PICK j \in 1..Len(pending) : t = pending[j]
                BY <1>1, <1>4, InSet DEF Good
            <4>2. j \in I /\ j <= i
                BY <2>4, <4>1 DEF Good
            <4>3. j = i \/ j < i
                BY <2>1, <2>5, <4>2
            <4>4. j < i => t.id < s.id
                BY <1>1, <2>5, <4>1 DEF Sorted
            <4>5. t.id \in Nat
                BY <1>1 DEF Good, OnItsWay
            <4> QED BY <3>1, <4>1, <4>3, <4>4, <4>5
        <3>3. FinalOf(HeldSaves, c, s.rows[c], db[c]) /\ Good(HeldSaves, c) # {}
            BY <3>1, <3>2 DEF FinalOf
        <3>4. FinalOf(HeldSaves, c, value[c], db[c])
            BY <1>1, <1>3, <3>3 DEF Books, Newest
        <3>5. s.rows[c] = value[c]
            <4>1. /\ \A a, b \in HeldSaves : a.id = b.id => a = b
                  /\ \A a \in HeldSaves : a.id \in Nat
                BY <1>1, HeldSorted DEF NInv, OnItsWay
            <4> HIDE DEF s
            <4> QED BY <3>3, <3>4, <4>1, LastOnly
        <3>6. CASE Lost(value[c])
            <4>1. Promise!Taken
                BY <1>2, <2>6, <3>6 DEF Promise!Taken, Lost
            <4> QED BY <1>2, <4>1, NothingSeen
        <3>7. CASE ~Lost(value[c])
            <4>1. Promise!Read(c)
                BY <1>2, <2>6, <2>8, <3>5, <3>7 DEF Promise!Read, Lost
            <4> QED BY <1>3, <4>1 DEF Promise!RegisterNext
        <3> QED BY <3>6, <3>7
    <2> QED BY <2>7, <2>8
<1> QED BY <1>6, <1>7

LEMMA CreateIs ==
    ASSUME OInv, TypeOK', ServeCreate
    PROVE  Promise!RegisterNext
<1>0. PICK c : c = Head(todo).key
    OBVIOUS
<1>1. Serving("create") /\ Served /\ answer' = answer /\ TypeOK
    BY DEF ServeCreate, OInv, IInv
<1>2. c \in Keys /\ NoRow(c) /\ dropped' = dropped /\ Head(todo).id \in Nat
    BY <1>0, <1>1, Turn
<1>3. PICK row : row = [id |-> Head(todo).id, name |-> 0]
    OBVIOUS
<1>4. row # Absent
    BY <1>2, <1>3, Disjoint DEF Row
<1>5. Promise!Taken
    BY <1>1, <1>2, TakenIf
<1>6. CASE UNCHANGED <<db, value>>
    BY <1>5, <1>6, NothingSeen
<1>7. CASE db' = [db EXCEPT ![c] = row] /\ value' = [value EXCEPT ![c] = row]
    <2>1. /\ value[c] = Absent /\ db[c] = Absent /\ value'[c] = row /\ db'[c] = row
          /\ \A k \in Keys \ {c} : value'[k] = value[k] /\ db'[k] = db[k]
        BY <1>1, <1>2, <1>7 DEF TypeOK, NoRow
    <2>2. Promise!Create(c)
        BY <1>4, <1>5, <2>1 DEF Promise!Create
    <2> QED BY <1>2, <2>2 DEF Promise!RegisterNext
<1> QED BY <1>0, <1>3, <1>6, <1>7 DEF ServeCreate, durable

(* A deletion deletes; the saves it lets count are newer than all that did. *)
LEMMA DeleteIs ==
    ASSUME NInv, TypeOK', ServeDelete
    PROVE  Promise!RegisterNext
<1>0. PICK c : c = Head(todo).key
    OBVIOUS
<1>1. /\ TypeOK /\ Orders /\ OnItsWay /\ OInv /\ Books /\ Serving("delete") /\ Served
      /\ answer' = answer
      /\ \A s, t \in HeldSaves : s.id = t.id => s = t
    BY OnTheWay, HeldSorted DEF ServeDelete, NInv, OInv, IInv
<1>2. /\ c \in Chars /\ c \in Keys /\ dropped' = dropped
      /\ HeldSaves = ToSet(pending) /\ HeldSaves' = ToSet(pending')
    BY <1>0, <1>1, Turn
<1>3. Promise!Taken
    BY <1>1, <1>2, TakenIf
<1>4. CASE UNCHANGED <<db, value>>
    BY <1>3, <1>4, NothingSeen
<1>5. CASE /\ db' = [db EXCEPT ![c] = Absent]
           /\ pending' = KeptWithout(pending, c)
           /\ value' = [k \in Keys |-> IF k = c THEN Absent
                                       ELSE AfterGood(pending', k, value[k])]
    <2>1. /\ \A t \in HeldSaves' : \E s \in HeldSaves :
                 /\ t.id = s.id /\ Of(t) = Of(s) \ {c}
                 /\ \A k \in Of(t) : t.rows[k] = s.rows[k]
          /\ \A s \in HeldSaves : Of(s) # {c} =>
                 /\ Without(s, c) \in HeldSaves' /\ Of(Without(s, c)) = Of(s) \ {c}
                 /\ Without(s, c).id = s.id
          /\ value'[c] = Absent
          /\ \A k \in Keys \ {c} : FinalOf(HeldSaves', k, value'[k], value[k])
        <3> DEFINE left == pending'
                   rows == value'
        <3>1. left = KeptWithout(pending, c)
              /\ rows = [k \in Keys |-> IF k = c THEN Absent ELSE AfterGood(left, k, value[k])]
            BY <1>5
        <3> HIDE DEF left, rows
        <3>2. /\ \A t \in ToSet(left) : \E s \in ToSet(pending) :
                     /\ t.id = s.id /\ Of(t) = Of(s) \ {c}
                     /\ \A k \in Of(t) : t.rows[k] = s.rows[k]
              /\ rows[c] = Absent
              /\ \A k \in Keys \ {c} : FinalOf(ToSet(left), k, rows[k], value[k])
            BY <1>1, <1>2, <3>1, DeleteLeaves
        <3>3. \A s \in ToSet(pending) : Of(s) # {c} => Without(s, c) \in ToSet(left)
            <4>1. pending \in Seq(Save) /\ Sorted(pending)
                BY <1>1 DEF TypeOK, Orders, InTurn
            <4> QED BY <1>2, <3>1, <4>1, WithoutOrder
        <3>4. \A s \in ToSet(pending) : s \in Save
            BY <1>1, <1>2 DEF OnItsWay
        <3>5. \A s \in ToSet(pending) :
                 Of(Without(s, c)) = Of(s) \ {c} /\ Without(s, c).id = s.id
            BY <1>2, <3>4, WithoutIs DEF Without, Save
        <3> QED BY <1>2, <3>2, <3>3, <3>5 DEF left, rows
    <2>2. db'[c] = Absent /\ \A k \in Keys \ {c} : db'[k] = db[k]
        BY <1>1, <1>2, <1>5 DEF TypeOK
    <2>3. ASSUME NEW k \in Keys \ {c}, value'[k] # value[k]
          PROVE  Promise!Newer(value'[k], value[k])
        <3>1. PICK t \in HeldSaves' : /\ k \in Of(t) /\ ~Bad(t) /\ value'[k] = t.rows[k]
                                      /\ \A u \in Good(HeldSaves', k) : u.id <= t.id
            BY <2>1, <2>3 DEF FinalOf, Good
        <3>2. PICK s \in HeldSaves :
                  t.id = s.id /\ Of(t) = Of(s) \ {c} /\ t.rows[k] = s.rows[k]
            BY <2>1, <3>1
        <3>3. k \in Of(s) /\ s.rows[k] # Absent /\ s.rows[k].id = s.id /\ s.id \in Nat
              /\ s.rows[k].name = NameOf(k)
            BY <1>1, <3>1, <3>2 DEF OnItsWay, Orders, Shape
        <3>4. value[k] # Absent => value[k].id \in Nat /\ s.rows[k].name = value[k].name
            BY <1>1, <3>3 DEF OnItsWay, NameOf
        <3>5. value[k] # Absent => value[k].id < s.id
            <4> SUFFICES ASSUME value[k] # Absent PROVE value[k].id < s.id
                OBVIOUS
            <4>1. CASE value[k] = db[k]
                BY <1>1, <3>3, <4>1 DEF Books, Behind
            <4>2. CASE Lost(value[k])
                BY <1>1, <3>3, <4>2 DEF Lost, Orders, InTurn
            <4>3. ASSUME NEW u \in Good(HeldSaves, k), value[k] = u.rows[k]
                  PROVE  value[k].id < s.id
                <5>1. /\ u \in HeldSaves /\ k \in Of(u) /\ ~Bad(u) /\ Of(u) # {c}
                      /\ u.rows[k].id = u.id /\ u.id \in Nat
                    BY <1>1 DEF Good, OnItsWay, Orders, Shape
                <5>2. /\ Without(u, c) \in HeldSaves' /\ Of(Without(u, c)) = Of(u) \ {c}
                      /\ Without(u, c).id = u.id
                    BY <2>1, <5>1
                <5>3. Without(u, c) \in Good(HeldSaves', k)
                    BY <5>1, <5>2 DEF Good, Bad
                <5>4. u.id <= s.id
                    BY <3>1, <3>2, <5>2, <5>3
                <5>5. u.id # s.id
                    <6> SUFFICES ASSUME u.id = s.id PROVE FALSE
                        OBVIOUS
                    <6>1. u = s
                        BY <1>1, <5>1
                    <6> QED BY <2>3, <3>1, <3>2, <4>3, <6>1
                <5> QED BY <3>3, <4>3, <5>1, <5>4, <5>5
            <4> QED BY <1>1, <4>1, <4>2, <4>3 DEF Books, Newest, FinalOf
        <3> QED BY <3>1, <3>2, <3>3, <3>4, <3>5 DEF Promise!Newer
    <2>4. Promise!Delete(c)
        BY <1>3, <2>1, <2>2, <2>3 DEF Promise!Delete
    <2> QED BY <1>2, <2>4 DEF Promise!RegisterNext
<1> QED BY <1>0, <1>4, <1>5 DEF ServeDelete

LEMMA RenameIs ==
    ASSUME OInv, TypeOK', ServeRename
    PROVE  Promise!RegisterNext
<1>0. PICK c : c = Head(todo).key
    OBVIOUS
<1>1. Serving("rename") /\ Served /\ answer' = answer /\ TypeOK /\ OnItsWay
    BY OnTheWay DEF ServeRename, OInv, IInv
<1>2. c \in Keys /\ dropped' = dropped
    BY <1>0, <1>1, Turn
<1>3. Promise!Taken
    BY <1>1, <1>2, TakenIf
<1>4. CASE UNCHANGED <<db, value>>
    BY <1>3, <1>4, NothingSeen
<1>5. ASSUME NEW name \in Nat, name = value[c].name + 1, db[c] # Absent, value[c] # Absent,
             db' = [db EXCEPT ![c] = [db[c] EXCEPT !.name = name]],
             value' = [value EXCEPT ![c] = [value[c] EXCEPT !.name = name]]
      PROVE  Promise!RegisterNext
    <2>1. value \in [Keys -> Row \cup {Absent}] /\ value[c] \in Row
        BY <1>1, <1>2, <1>5 DEF TypeOK, OnItsWay
    <2>2. db \in [Keys -> Row \cup {Absent}] /\ db[c] \in Row
        BY <1>1, <1>2, <1>5 DEF TypeOK, OnItsWay
    <2>3. value' = [value EXCEPT ![c].name = @ + 1]
        BY <1>2, <1>5, <2>1
    <2>4. value'[c].name = name
        <3>1. value'[c] = [value[c] EXCEPT !.name = name]
            BY <1>2, <1>5, <2>1
        <3> QED BY <2>1, <3>1 DEF Row
    <2>5. db' = [db EXCEPT ![c].name = value'[c].name]
        BY <1>2, <1>5, <2>2, <2>4
    <2>6. Promise!Rename(c)
        BY <1>3, <1>5, <2>3, <2>5 DEF Promise!Rename
    <2> QED BY <1>2, <2>6 DEF Promise!RegisterNext
<1> QED BY <1>0, <1>4, <1>5, RenameLeaves

LEMMA RegisterStep ==
    ASSUME NInv, TypeOK', [Next]_vars
    PROVE  Promise!RegisterNext
<1>1. /\ OInv /\ Books /\ TypeOK /\ writing \in Seq(Save) /\ Sorted(writing)
      /\ ToSet(writing) \subseteq HeldSaves
    BY DEF NInv, OInv, IInv, TypeOK, Orders, InTurn, HeldSaves
<1>2. CASE Clients
    <2>1. UNCHANGED <<db, value, dropped, answer>>
        BY <1>2 DEF Clients, SendSave, SendLoad, SendCreate, SendChange, SendFlush, durable
    <2> QED BY <2>1, TakenIf, NothingSeen
<1>3. CASE Take \/ Retry \/ Idle \/ WriteBusy \/ WriteFails \/ DiskChanges \/ UNCHANGED vars
    <2>1. UNCHANGED <<db, value, dropped, answer>>
        BY <1>3 DEF Take, Retry, Idle, WriteBusy, WriteFails, DiskChanges, vars, durable,
                    WritesAgain
    <2> QED BY <2>1, TakenIf, NothingSeen
<1>4. CASE ServeFlush
    <2>1. UNCHANGED <<db, value, dropped, answer>>
        BY <1>4 DEF ServeFlush, Served, durable
    <2> QED BY <2>1, TakenIf, NothingSeen
<1>5. CASE Gather
    BY <1>1, <1>5, GatherSaves DEF Promise!RegisterNext
<1>6. CASE WriteAll
    <2>1. Commit(writing) /\ ~SomeBad /\ UNCHANGED <<value, dropped, answer>>
        BY <1>6 DEF WriteAll, WritesAgain
    <2>2. \A s \in ToSet(writing) : ~Bad(s)
        BY <1>1, <2>1, InSet DEF SomeBad
    <2> QED BY <1>1, <2>1, <2>2, CommitPersists DEF Promise!RegisterNext
<1>7. CASE WriteCant
    <2>1. UNCHANGED <<db, value, answer>> /\ dropped \subseteq dropped'
        BY <1>7 DEF WriteCant, Keep, durable
    <2> QED BY <2>1, TakenIf, NothingSeen
<1>8. CASE AloneDone
    <2>1. UNCHANGED <<db, value, answer>> /\ dropped \subseteq dropped'
        BY <1>8 DEF AloneDone, WritesAgain, Keep, durable
    <2> QED BY <2>1, TakenIf, NothingSeen
<1>9. CASE Alone
    <2>0. PICK s : s = Head(writing)
        OBVIOUS
    <2>1. /\ writing # <<>> /\ UNCHANGED <<value, dropped, answer>>
          /\ (~Bad(s) /\ Commit(<<s>>)) \/ db' = db
        BY <1>9, <2>0 DEF Alone, durable
    <2>2. CASE db' = db
        BY <2>1, <2>2, TakenIf, NothingSeen
    <2>3. CASE ~Bad(s) /\ Commit(<<s>>)
        <3> DEFINE one == <<s>>
        <3>1. s \in ToSet(writing) /\ s \in Save
            BY <1>1, <2>0, <2>1, SetOfTail
        <3>2. one \in Seq(Save) /\ ToSet(one) = {s} /\ Sorted(one) /\ Commit(one)
            BY <2>3, <3>1, OneSave
        <3> HIDE DEF one
        <3>3. Promise!Persist
            BY <1>1, <2>1, <2>3, <3>1, <3>2, CommitPersists
        <3> QED BY <3>3 DEF Promise!RegisterNext
    <2> QED BY <2>1, <2>2, <2>3
<1>10. CASE ServeLoad
    BY <1>10, LoadReads
<1>11. CASE ServeCreate \/ ServeDelete \/ ServeRename
    BY <1>1, <1>11, CreateIs, DeleteIs, RenameIs
<1>12. CASE Crash
    <2>1. value' = db /\ db' = db /\ answer' = NoAnswer
        BY <1>12 DEF Crash, durable
    <2>2. Promise!Crash
        BY <2>1, TakenNone DEF Promise!Crash
    <2> QED BY <2>2 DEF Promise!RegisterNext
<1> QED BY <1>2, <1>3, <1>4, <1>5, <1>6, <1>7, <1>8, <1>9, <1>10, <1>11, <1>12
        DEF Next, Thread, Write, Serve

(* The store implements the register: clients can't tell it, but by a       *)
(* crash, from one that takes each save at once (store.rs, serve_all).     *)
THEOREM ImplementsRegister ==
    ASSUME SteadyDisk
    PROVE  Spec => Implements
<1>1. Init => Promise!Start
    BY DEF Init, NoAnswer, Promise!Start
<1>2. NInv /\ NInv' /\ [Next]_vars => [Promise!RegisterNext]_(Promise!regs)
    BY RegisterStep DEF NInv, OInv, IInv
<1> QED BY <1>1, <1>2, BooksKept, PTL DEF Spec, Implements, Promise!RegisterSpec

(* No write brings back an older row or an older name (write_saves, and     *)
(* what is retried of Kept).                                              *)
THEOREM RowsForward ==
    ASSUME SteadyDisk
    PROVE  Spec => RowsNeverGoBack
<1>1. ASSUME NInv, NInv', [Next]_vars
      PROVE  \A k \in Keys : db[k] # Absent /\ db'[k] # Absent =>
                db'[k].id >= db[k].id /\ db'[k].name >= db[k].name
    <2> SUFFICES ASSUME NEW k \in Keys, db[k] # Absent, db'[k] # Absent
                 PROVE  db'[k].id >= db[k].id /\ db'[k].name >= db[k].name
        OBVIOUS
    <2>1. /\ TypeOK /\ TypeOK' /\ OnItsWay /\ OnItsWay' /\ Orders
        BY <1>1, OnTheWay, OnTheWayAfter DEF NInv, OInv, IInv
    <2>2. /\ db[k] \in Row /\ db[k].id \in Nat /\ db[k].name \in Nat
          /\ db'[k].id \in Nat /\ db'[k].name \in Nat
          /\ value[k] # Absent /\ db[k].name = value[k].name
        BY <2>1 DEF OnItsWay, Orders, Names
    <2>3. Promise!RegisterNext
        BY <1>1, <2>1, RegisterStep
    <2>4. CASE db'[k] = db[k]
        BY <2>2, <2>4
    <2>5. CASE Promise!Persist
        BY <2>2, <2>5 DEF Promise!Persist, Promise!Newer
    <2>6. ASSUME NEW j \in Keys, Promise!Create(j) \/ Promise!Delete(j), db'[k] # db[k]
          PROVE  FALSE
        BY <2>6 DEF Promise!Create, Promise!Delete
    <2>7. ASSUME NEW j \in Keys, Promise!Rename(j), db'[k] # db[k]
          PROVE  db'[k].id >= db[k].id /\ db'[k].name >= db[k].name
        <3>1. /\ value' = [value EXCEPT ![j] = [value[j] EXCEPT !.name = @ + 1]]
              /\ db' = [db EXCEPT ![j] = [db[j] EXCEPT !.name = value'[j].name]]
            BY <2>7 DEF Promise!Rename
        <3>2. k = j
            BY <2>1, <2>7, <3>1 DEF TypeOK
        <3>3. /\ value'[k] = [value[k] EXCEPT !.name = @ + 1]
              /\ db'[k] = [db[k] EXCEPT !.name = value'[k].name]
            BY <2>1, <3>1, <3>2 DEF TypeOK
        <3>4. value[k] \in Row
            BY <2>1, <2>2 DEF OnItsWay
        <3>5. value'[k].name = value[k].name + 1
            BY <3>3, <3>4 DEF Row
        <3>6. db'[k].id = db[k].id /\ db'[k].name = value'[k].name
            BY <2>2, <3>3 DEF Row
        <3> QED BY <2>2, <3>5, <3>6
    <2> QED BY <2>3, <2>4, <2>5, <2>6, <2>7
            DEF Promise!RegisterNext, Promise!Save, Promise!Crash, Promise!Read
<1> QED BY <1>1, BooksKept, PTL DEF Spec, RowsNeverGoBack
=============================================================================
