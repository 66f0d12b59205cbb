----------------------------- MODULE FeedProofs -----------------------------
(***************************************************************************)
(* What holds of what a client is written for any number of maps, clients, *)
(* indices, frames, moves, corks and holds.                                *)
(*                                                                         *)
(* That nothing sent is lost, and how it can be late (OnlyOvertaken),      *)
(* rests on where each frame sent to an open client is: written, in its    *)
(* writer's batch, in its queue, in a chunk that one of its readings gets  *)
(* to (`Coming`), or held, a hold's create, in a session's hand or in a    *)
(* cork (`Elsewhere`); and on the writer having been told of each chunk    *)
(* that the waker has walked since it last looked and not before its       *)
(* number was stored (`Woke`), the waker of each that it has not (`Told`). *)
(* A reading is the one the writer is at, or one an item of the queue has  *)
(* it begin; it ends at the next item that is not a frame of the client's  *)
(* own, which is one that lets it get as far as the feed had (`Stamped`).  *)
(***************************************************************************)
EXTENDS Feed, SequenceTheorems, FiniteSetTheorems, WellFoundedInduction, TLAPS

-----------------------------------------------------------------------------
(* Induction over the numbers, of the set of those a fact holds of.        *)
LEMMA LeastNumber ==
    ASSUME NEW T \in SUBSET Nat, T # {}
    PROVE  \E x \in T : \A y \in T : x <= y
<1> DEFINE R == {ss \in Nat \X Nat : ss[1] < ss[2]}
<1>1. IsWellFoundedOn(R, Nat)
    BY NatLessThanWellFounded DEF OpToRel
<1> HIDE DEF R
<1>2. PICK x \in T : \A y \in T : ~(<<y, x>> \in R)
    BY <1>1, WFMin
<1>3. ASSUME NEW y \in T, ~(x <= y)
      PROVE  FALSE
    <2>1. y \in Nat /\ x \in Nat /\ y < x
        BY <1>3
    <2>2. <<y, x>> \in Nat \X Nat /\ <<y, x>>[1] < <<y, x>>[2]
        BY <2>1
    <2> QED BY <1>2, <2>2 DEF R
<1> QED BY <1>3

(* What is true of 0, and of each number up to N if of the one before it,  *)
(* is true up to N.                                                        *)
LEMMA UpTo ==
    ASSUME NEW N \in Nat, NEW T, 0 \in T, \A i \in 1..N : i - 1 \in T => i \in T
    PROVE  \A i \in 0..N : i \in T
<1> SUFFICES ASSUME (0..N) \ T # {}
             PROVE  FALSE
    OBVIOUS
<1>1. (0..N) \ T \in SUBSET Nat
    OBVIOUS
<1>2. PICK x \in (0..N) \ T : \A y \in (0..N) \ T : x <= y
    BY <1>1, LeastNumber
<1>3. x # 0 /\ x \in 1..N /\ x - 1 \in 0..N
    BY <1>2
<1>4. x - 1 \in T
    BY <1>2, <1>3
<1> QED BY <1>2, <1>3, <1>4

-----------------------------------------------------------------------------
(* One sequence after another, by a name of its own: the provers take \o    *)
(* apart, index by index.                                                 *)
Cat(s, t) == s \o t

LEMMA CatIs ==
    ASSUME NEW S, NEW s \in Seq(S), NEW t \in Seq(S)
    PROVE  /\ Cat(s, t) \in Seq(S) /\ Len(Cat(s, t)) = Len(s) + Len(t)
           /\ \A i \in 1..Len(s) : Cat(s, t)[i] = s[i]
           /\ \A i \in 1..Len(t) : Cat(s, t)[Len(s) + i] = t[i]
BY DEF Cat

LEMMA CatType ==
    ASSUME NEW S, NEW s \in Seq(S), NEW t \in Seq(S)
    PROVE  Cat(s, t) \in Seq(S)
BY CatIs

LEMMA CatLen ==
    ASSUME NEW S, NEW s \in Seq(S), NEW t \in Seq(S)
    PROVE  Len(Cat(s, t)) = Len(s) + Len(t)
BY CatIs

LEMMA CatLeft ==
    ASSUME NEW S, NEW s \in Seq(S), NEW t \in Seq(S), NEW i \in 1..Len(s)
    PROVE  Cat(s, t)[i] = s[i]
BY CatIs

LEMMA CatRight ==
    ASSUME NEW S, NEW s \in Seq(S), NEW t \in Seq(S), NEW i \in 1..Len(t)
    PROVE  Cat(s, t)[Len(s) + i] = t[i]
BY CatIs

LEMMA CatNil ==
    ASSUME NEW S, NEW s \in Seq(S)
    PROVE  Cat(s, <<>>) = s /\ Cat(<<>>, s) = s
BY DEF Cat

-----------------------------------------------------------------------------
(* FlattenSeq.                                                            *)
Flat(g, ss, N) == g[0] = <<>> /\ \A i \in 1..N : g[i] = Cat(g[i - 1], ss[i])

LEMMA FlatExists ==
    ASSUME NEW S, NEW N \in Nat, NEW ss \in [1..N -> Seq(S)]
    PROVE  \E g \in [0..N -> Seq(S)] : Flat(g, ss, N)
<1> DEFINE T == {n \in 0..N : \E g \in [0..N -> Seq(S)] : Flat(g, ss, n)}
<1>1. 0 \in T
    <2>1. PICK g \in [0..N -> Seq(S)] : g = [i \in 0..N |-> <<>>]
        BY EmptySeq
    <2>2. Flat(g, ss, 0)
        BY <2>1 DEF Flat
    <2> QED BY <2>2
<1>2. ASSUME NEW i \in 1..N, i - 1 \in T
      PROVE  i \in T
    <2>1. PICK g \in [0..N -> Seq(S)] : Flat(g, ss, i - 1)
        BY <1>2
    <2>2. g[i - 1] \in Seq(S) /\ ss[i] \in Seq(S)
        OBVIOUS
    <2>3. Cat(g[i - 1], ss[i]) \in Seq(S)
        BY ONLY <2>2, CatType
    <2> DEFINE h == [g EXCEPT ![i] = Cat(g[i - 1], ss[i])]
    <2>4. h \in [0..N -> Seq(S)]
        BY <2>3
    <2>5. Flat(h, ss, i)
        <3>1. h[0] = <<>>
            BY <2>1 DEF Flat
        <3>2. ASSUME NEW k \in 1..i
              PROVE  h[k] = Cat(h[k - 1], ss[k])
            <4>1. CASE k = i
                <5>1. i - 1 # i /\ i - 1 \in 0..N /\ i \in 0..N
                    OBVIOUS
                <5>2. h[i] = Cat(g[i - 1], ss[i]) /\ h[i - 1] = g[i - 1]
                    BY <5>1
                <5> QED BY <4>1, <5>2
            <4>2. CASE k # i
                <5>1. k \in 1..(i - 1) /\ h[k] = g[k] /\ h[k - 1] = g[k - 1]
                    BY <4>2
                <5> QED BY <5>1, <2>1 DEF Flat
            <4> QED BY <4>1, <4>2
        <3> QED BY <3>1, <3>2 DEF Flat
    <2> HIDE DEF h
    <2>6. i \in 0..N
        OBVIOUS
    <2> QED BY <2>4, <2>5, <2>6
<1> HIDE DEF T
<1>3. \A i \in 1..N : i - 1 \in T => i \in T
    BY <1>2
<1>4. \A i \in 0..N : i \in T
    BY <1>1, <1>3, UpTo
<1>5. N \in T
    BY <1>4
<1> QED BY <1>5 DEF T

LEMMA FlatOnce ==
    ASSUME NEW N \in Nat, NEW ss, NEW g, NEW h, Flat(g, ss, N), Flat(h, ss, N)
    PROVE  g[N] = h[N]
<1> DEFINE T == {i \in 0..N : g[i] = h[i]}
<1>1. 0 \in T
    BY DEF Flat
<1>2. ASSUME NEW i \in 1..N, i - 1 \in T
      PROVE  i \in T
    <2>1. i \in 0..N /\ g[i - 1] = h[i - 1]
        BY <1>2
    <2>2. g[i] = h[i]
        BY <2>1 DEF Flat
    <2> QED BY <2>1, <2>2
<1> HIDE DEF T
<1>3. \A i \in 0..N : i \in T
    BY <1>1, <1>2, UpTo
<1>4. N \in T
    BY <1>3
<1> QED BY <1>4 DEF T

LEMMA Flattened ==
    ASSUME NEW S, NEW ss \in Seq(Seq(S))
    PROVE  \E g \in [0..Len(ss) -> Seq(S)] : Flat(g, ss, Len(ss)) /\ FlattenSeq(ss) = g[Len(ss)]
<1>0. Len(ss) \in Nat /\ (Len(ss) = 0 => ss = <<>>) /\ ss \in [1..Len(ss) -> Seq(S)]
    BY LenProperties, EmptySeq
<1>1. PICK g \in [0..Len(ss) -> Seq(S)] : Flat(g, ss, Len(ss))
    BY <1>0, FlatExists
<1>2. CASE Len(ss) = 0
    BY <1>0, <1>1, <1>2 DEF Flat, FlattenSeq
<1>3. CASE Len(ss) # 0
    <2> DEFINE Is(f) == f = [i \in 1..Len(ss) |-> IF i = 1 THEN ss[i] ELSE Cat(f[i - 1], ss[i])]
               F == CHOOSE f : Is(f)
               f == [i \in 1..Len(ss) |-> g[i]]
    <2>0. PICK N \in Nat : N = Len(ss) /\ N # 0
        BY <1>0, <1>3
    <2>1. g[1] = ss[1]
        <3>0. 1 \in 1..Len(ss) /\ 1 - 1 = 0
            BY <2>0
        <3>1. ss[1] \in Seq(S) /\ g[1] = Cat(g[0], ss[1]) /\ g[0] = <<>>
            BY <1>0, <1>1, <3>0 DEF Flat
        <3> QED BY <3>1, CatNil
    <2>2. Is(f)
        <3>1. ASSUME NEW i \in 1..N
              PROVE  f[i] = IF i = 1 THEN ss[i] ELSE Cat(f[i - 1], ss[i])
            <4>1. f[i] = g[i] /\ g[i] = Cat(g[i - 1], ss[i])
                BY <1>1, <2>0 DEF Flat
            <4>2. CASE i = 1
                BY <2>1, <4>1, <4>2
            <4>3. CASE i # 1
                <5>1. i - 1 \in 1..Len(ss)
                    BY <2>0, <4>3
                <5> QED BY <4>1, <4>3, <5>1
            <4> QED BY <4>2, <4>3
        <3> QED BY <2>0, <3>1
    <2>3. Is(F)
        BY <2>2
    <2>4. FlattenSeq(ss) = F[N]
        BY <2>0 DEF FlattenSeq, Cat
    <2>5. \A i \in 1..N : F[i] = IF i = 1 THEN ss[i] ELSE Cat(F[i - 1], ss[i])
        BY <2>0, <2>3
    <2> HIDE DEF F
    <2> DEFINE h == [i \in 0..N |-> IF i = 0 THEN <<>> ELSE F[i]]
    <2>6. Flat(h, ss, N)
        <3>1. ASSUME NEW i \in 1..N
              PROVE  h[i] = Cat(h[i - 1], ss[i])
            <4>1. CASE i = 1
                <5>1. 1 \in 1..N /\ 1 \in 0..N /\ 0 \in 0..N /\ 1 - 1 = 0
                    BY <2>0
                <5>2. ss[1] \in Seq(S) /\ h[1] = ss[1] /\ h[0] = <<>>
                    BY <1>0, <2>0, <2>5, <5>1
                <5> QED BY <4>1, <5>1, <5>2, CatNil
            <4>2. CASE i # 1
                <5>1. i \in 0..N /\ i - 1 \in 0..N /\ i # 0 /\ i - 1 # 0
                    BY <4>2
                <5>2. h[i] = F[i] /\ h[i - 1] = F[i - 1]
                    BY <5>1
                <5> QED BY <2>5, <4>2, <5>2
            <4> QED BY <4>1, <4>2
        <3>2. h[0] = <<>>
            OBVIOUS
        <3> QED BY <3>1, <3>2 DEF Flat
    <2>7. h[N] = g[N] /\ h[N] = F[N]
        BY <1>1, <2>0, <2>6, FlatOnce
    <2> QED BY <1>1, <2>0, <2>4, <2>7
<1> QED BY <1>2, <1>3

LEMMA FlattenType ==
    ASSUME NEW S, NEW ss \in Seq(Seq(S))
    PROVE  FlattenSeq(ss) \in Seq(S)
<1>1. Len(ss) \in 0..Len(ss)
    BY LenProperties
<1> QED BY <1>1, Flattened

LEMMA FlattenNil == FlattenSeq(<<>>) = <<>>
BY DEF FlattenSeq

LEMMA RangeIs ==
    ASSUME NEW S, NEW s \in Seq(S)
    PROVE  Range(s) = {s[i] : i \in 1..Len(s)} /\ Range(s) \subseteq S
BY LenProperties DEF Range

LEMMA RangeCat ==
    ASSUME NEW S, NEW s \in Seq(S), NEW t \in Seq(S)
    PROVE  Range(Cat(s, t)) = Range(s) \cup Range(t)
<1>1. /\ Cat(s, t) \in Seq(S) /\ Len(Cat(s, t)) = Len(s) + Len(t)
      /\ Len(s) \in Nat /\ Len(t) \in Nat
    BY CatType, CatLen, LenProperties
<1>2. ASSUME NEW x \in Range(Cat(s, t))
      PROVE  x \in Range(s) \cup Range(t)
    <2>1. PICK i \in 1..(Len(s) + Len(t)) : x = Cat(s, t)[i]
        BY <1>1, <1>2, RangeIs
    <2>2. CASE i <= Len(s)
        <3>1. i \in 1..Len(s)
            BY <1>1, <2>2
        <3>2. x = s[i]
            BY <2>1, <3>1, CatLeft
        <3> QED BY <3>1, <3>2, RangeIs
    <2>3. CASE ~(i <= Len(s))
        <3>1. PICK k \in 1..Len(t) : i = Len(s) + k
            <4>1. i - Len(s) \in 1..Len(t) /\ i = Len(s) + (i - Len(s))
                BY <1>1, <2>3
            <4> QED BY <4>1
        <3>2. x = t[k]
            BY <2>1, <3>1, CatRight
        <3> QED BY <3>2, RangeIs
    <2> QED BY <2>2, <2>3
<1>3. ASSUME NEW x \in Range(s)
      PROVE  x \in Range(Cat(s, t))
    <2>1. PICK i \in 1..Len(s) : x = s[i]
        BY <1>3, RangeIs
    <2>2. i \in 1..(Len(s) + Len(t)) /\ Cat(s, t)[i] = x
        BY <1>1, <2>1, CatLeft
    <2> QED BY <1>1, <2>2, RangeIs
<1>4. ASSUME NEW x \in Range(t)
      PROVE  x \in Range(Cat(s, t))
    <2>1. PICK i \in 1..Len(t) : x = t[i]
        BY <1>4, RangeIs
    <2>2. Len(s) + i \in 1..(Len(s) + Len(t)) /\ Cat(s, t)[Len(s) + i] = x
        BY <1>1, <2>1, CatRight
    <2> QED BY <1>1, <2>2, RangeIs
<1> QED BY <1>2, <1>3, <1>4

(* What is in a part is in what is flattened.                              *)
LEMMA FlattenHas ==
    ASSUME NEW S, NEW ss \in Seq(Seq(S)), NEW i \in 1..Len(ss), NEW x, x \in Range(ss[i])
    PROVE  x \in Range(FlattenSeq(ss))
<1>0. Len(ss) \in Nat /\ ss \in [1..Len(ss) -> Seq(S)]
    BY LenProperties
<1>1. PICK N \in Nat : N = Len(ss)
    BY <1>0
<1>2. PICK g \in [0..N -> Seq(S)] : Flat(g, ss, N) /\ FlattenSeq(ss) = g[N]
    BY <1>1, Flattened
<1>3. PICK M \in Nat : i = M + 1 /\ M = i - 1
    BY <1>0
<1>4. \A k \in 1..N : Range(g[k]) = Range(g[k - 1]) \cup Range(ss[k])
    <2>1. ASSUME NEW k \in 1..N
          PROVE  Range(g[k]) = Range(g[k - 1]) \cup Range(ss[k])
        <3>1. g[k - 1] \in Seq(S) /\ ss[k] \in Seq(S)
            BY <1>0, <1>1
        <3>2. g[k] = Cat(g[k - 1], ss[k])
            BY <1>2 DEF Flat
        <3>3. Range(Cat(g[k - 1], ss[k])) = Range(g[k - 1]) \cup Range(ss[k])
            BY ONLY <3>1, RangeCat
        <3> QED BY <3>2, <3>3
    <2> QED BY <2>1
<1> DEFINE T == {k \in 0..N : k >= i => x \in Range(g[k])}
<1>5. 0 \in T
    BY <1>0, <1>1
<1>6. ASSUME NEW k \in 1..N, k - 1 \in T
      PROVE  k \in T
    <2>0. k \in 0..N /\ Range(g[k]) = Range(g[k - 1]) \cup Range(ss[k])
        <3>1. k \in 0..N
            OBVIOUS
        <3> QED BY <1>4, <3>1, Zenon
    <2>1. CASE k = i
        <3>1. x \in Range(g[k])
            BY <2>0, <2>1
        <3> QED BY <2>0, <3>1
    <2>2. CASE k # i
        <3>1. k >= i => k - 1 >= i
            BY <1>0, <2>2
        <3>2. k - 1 >= i => x \in Range(g[k - 1])
            BY <1>6
        <3>3. k >= i => x \in Range(g[k])
            BY <2>0, <3>1, <3>2
        <3> QED BY <2>0, <3>3
    <2> QED BY <2>1, <2>2
<1> HIDE DEF T
<1>7. \A k \in 0..N : k \in T
    BY <1>5, <1>6, UpTo
<1>8. N \in T
    BY <1>7
<1> QED BY <1>0, <1>1, <1>2, <1>8 DEF T

-----------------------------------------------------------------------------
(* The values of the model.                                               *)
Broadcasts == [frame : Nat, to : SUBSET Indices]
Directs    == [me : Nat, before : Nat, frame : Nat]
Chunks     == {x \in [log : Seq(Broadcasts), directs : Seq(Directs)] :
                   \A i \in 1..Len(x.directs) : x.directs[i].before <= Len(x.log)}
Bits       == [frame : Nat, own : BOOLEAN]

(* The frames of a chunk that are for the index `me`.                      *)
Of(x, me) ==
    {x.directs[i].frame : i \in {j \in 1..Len(x.directs) : x.directs[j].me = me}}
        \cup {x.log[i].frame : i \in {j \in 1..Len(x.log) : me \in x.log[j].to}}

LEMMA ShareIs ==
    ASSUME NEW x \in Chunks, NEW me
    PROVE  /\ Share(x, me) \in Seq(Bits)
           /\ \A n \in Of(x, me) : \E i \in 1..Len(Share(x, me)) : Share(x, me)[i].frame = n
<1> DEFINE D == Len(x.directs)
           L == Len(x.log)
           one(k, i) == IF x.directs[i].me = me /\ x.directs[i].before = k
                        THEN <<[frame |-> x.directs[i].frame, own |-> TRUE]>> ELSE <<>>
           ones(k) == [i \in 1..D |-> one(k, i)]
           alone(k) == FlattenSeq(ones(k))
           all(k)   == IF k < L /\ me \in x.log[k + 1].to
                       THEN <<[frame |-> x.log[k + 1].frame, own |-> FALSE]>>
                       ELSE <<>>
           parts == [j \in 1..(L + 1) |-> alone(j - 1) \o all(j - 1)]
<1>0. /\ D \in Nat /\ L \in Nat
      /\ \A i \in 1..D : x.directs[i] \in Directs /\ x.directs[i].before <= L
      /\ \A i \in 1..L : x.log[i] \in Broadcasts
    BY LenProperties, ElementOfSeq DEF Chunks
<1>1. Share(x, me) = FlattenSeq(parts)
    BY DEF Share
<1>2. ASSUME NEW k \in Nat
      PROVE  ones(k) \in Seq(Seq(Bits)) /\ Len(ones(k)) = D
    <2>1. ASSUME NEW i \in 1..D
          PROVE  one(k, i) \in Seq(Bits)
        <3>1. [frame |-> x.directs[i].frame, own |-> TRUE] \in Bits
            BY <1>0 DEF Directs, Bits
        <3> QED BY <3>1
    <2> HIDE DEF one
    <2> QED BY <1>0, <2>1
<1>3. ASSUME NEW k \in Nat
      PROVE  alone(k) \in Seq(Bits) /\ all(k) \in Seq(Bits)
    <2>1. alone(k) \in Seq(Bits)
        BY <1>2, FlattenType
    <2>2. all(k) \in Seq(Bits)
        <3>1. CASE k < L
            <4>1. k + 1 \in 1..L
                BY <1>0, <3>1
            <4>2. [frame |-> x.log[k + 1].frame, own |-> FALSE] \in Bits
                BY <1>0, <4>1 DEF Broadcasts, Bits
            <4> QED BY <4>2
        <3>2. CASE ~(k < L)
            BY <3>2
        <3> QED BY <3>1, <3>2
    <2> QED BY <2>1, <2>2
<1>4. /\ parts \in Seq(Seq(Bits)) /\ Len(parts) = L + 1
      /\ \A j \in 1..(L + 1) : parts[j] = Cat(alone(j - 1), all(j - 1))
    <2>1. ASSUME NEW j \in 1..(L + 1)
          PROVE  alone(j - 1) \in Seq(Bits) /\ all(j - 1) \in Seq(Bits)
        <3>1. j - 1 \in Nat
            BY <1>0
        <3> QED BY <1>3, <3>1
    <2> HIDE DEF alone, all
    <2>2. ASSUME NEW j \in 1..(L + 1)
          PROVE  parts[j] = Cat(alone(j - 1), all(j - 1)) /\ parts[j] \in Seq(Bits)
        BY <2>1, CatType DEF Cat
    <2>3. parts \in [1..(L + 1) -> Seq(Bits)]
        BY <2>2
    <2>4. L + 1 \in Nat
        BY <1>0
    <2> HIDE DEF parts, L
    <2>5. parts \in Seq(Seq(Bits)) /\ Len(parts) = L + 1
        BY <2>3, <2>4
    <2> QED BY <2>2, <2>5
<1>5. ASSUME NEW n \in Of(x, me)
      PROVE  \E b \in Range(Share(x, me)) : b.frame = n
    <2>1. CASE \E i \in 1..D : x.directs[i].me = me /\ x.directs[i].frame = n
        <3>1. PICK i \in 1..D : x.directs[i].me = me /\ x.directs[i].frame = n
            BY <2>1
        <3>2. PICK k \in Nat : k = x.directs[i].before
            BY <1>0 DEF Directs
        <3> DEFINE b == [frame |-> n, own |-> TRUE]
        <3>3. b \in Range(ones(k)[i]) /\ b.frame = n
            <4>1. ones(k)[i] = <<b>>
                BY <3>1, <3>2
            <4> HIDE DEF b
            <4>2. b \in Range(<<b>>)
                <5>1. 1 \in DOMAIN <<b>> /\ <<b>>[1] = b
                    OBVIOUS
                <5> QED BY <5>1 DEF Range
            <4> QED BY <4>1, <4>2 DEF b
        <3>4. b \in Range(alone(k))
            <4> HIDE DEF one, b
            <4> QED BY <1>2, <3>3, FlattenHas
        <3>5. k + 1 \in 1..(L + 1) /\ (k + 1) - 1 = k
            BY <1>0, <3>1, <3>2
        <3> HIDE DEF alone, all, b
        <3>6. parts[k + 1] = Cat(alone(k), all(k))
            BY <1>4, <3>5
        <3>7. b \in Range(parts[k + 1])
            <4>1. alone(k) \in Seq(Bits) /\ all(k) \in Seq(Bits)
                BY <1>3
            <4>2. Range(Cat(alone(k), all(k))) = Range(alone(k)) \cup Range(all(k))
                BY ONLY <4>1, RangeCat
            <4> QED BY <3>4, <3>6, <4>2
        <3> HIDE DEF parts
        <3> QED BY <1>1, <1>4, <3>3, <3>5, <3>7, FlattenHas
    <2>2. CASE \E i \in 1..L : me \in x.log[i].to /\ x.log[i].frame = n
        <3>1. PICK i \in 1..L : me \in x.log[i].to /\ x.log[i].frame = n
            BY <2>2
        <3>2. PICK k \in Nat : i = k + 1 /\ k = i - 1 /\ k < L
            BY <1>0
        <3> DEFINE b == [frame |-> n, own |-> FALSE]
        <3>3. b \in Range(all(k)) /\ b.frame = n
            <4>1. all(k) = <<b>>
                BY <3>1, <3>2
            <4> HIDE DEF b
            <4>2. b \in Range(<<b>>)
                <5>1. 1 \in DOMAIN <<b>> /\ <<b>>[1] = b
                    OBVIOUS
                <5> QED BY <5>1 DEF Range
            <4> QED BY <4>1, <4>2 DEF b
        <3>5. k + 1 \in 1..(L + 1) /\ (k + 1) - 1 = k
            BY <1>0, <3>1, <3>2
        <3> HIDE DEF alone, all, b
        <3>6. parts[k + 1] = Cat(alone(k), all(k))
            BY <1>4, <3>5
        <3>7. b \in Range(parts[k + 1])
            <4>1. alone(k) \in Seq(Bits) /\ all(k) \in Seq(Bits)
                BY <1>3
            <4>2. Range(Cat(alone(k), all(k))) = Range(alone(k)) \cup Range(all(k))
                BY ONLY <4>1, RangeCat
            <4> QED BY <3>3, <3>6, <4>2
        <3> HIDE DEF parts
        <3> QED BY <1>1, <1>4, <3>3, <3>5, <3>7, FlattenHas
    <2> QED BY <1>5, <2>1, <2>2 DEF Of
<1>6. Share(x, me) \in Seq(Bits)
    <2> HIDE DEF parts
    <2> QED BY <1>1, <1>4, FlattenType
<1> QED BY <1>5, <1>6, RangeIs

-----------------------------------------------------------------------------
(* The types.                                                             *)
OwnItems   == [kind : {"own"}, frames : Seq(Nat), stamp : Nat]
SubItems   == [kind : {"sub"}, feed : Maps, me : Indices, after : Nat, account : Nat]
UnsubItems == [kind : {"unsub"}, until : Nat]
Items      == OwnItems \cup SubItems \cup UnsubItems
SomeMap    == Maps \cup {Nobody}
SomeOne    == Clients \cup {Nobody}

Outbounds ==
    [closed : BOOLEAN, queue : Seq(Items),
     sub : [feed : SomeMap, me : Nat, account : Nat],
     holding : BOOLEAN, held : Seq(Nat), queued : Int,
     accounts : Seq([due : Int, done : Int, open : BOOLEAN]),
     at : {"look", "drain", "wait"}, head : Nat,
     reading : [feed : SomeMap, me : Nat, at : Nat, account : Nat],
     batch : Seq(Bits), ready : BOOLEAN]

Corks == {k \in [on : BOOLEAN, log : Seq(Broadcasts), directs : Seq(Directs),
                 slots : [Clients -> Seq(Nat)]] :
              \A i \in 1..Len(k.directs) : k.directs[i].before <= Len(k.log)}

Readers == [client : SomeOne, after : Nat, account : Nat]

Empty(k) == k.log = <<>> /\ k.directs = <<>> /\ \A c \in Clients : k.slots[c] = <<>>

Typed ==
    /\ out \in [Clients -> Outbounds]
    /\ written \in [Clients -> Seq(Nat)]
    /\ chain \in [Maps -> Seq(Chunks)]
    /\ subs \in [Maps -> [Indices -> Readers]]
    /\ heldIdx \in [Maps -> SUBSET Indices]
    /\ signalled \in [Maps -> BOOLEAN] /\ signals \in Seq(Maps)
    /\ waker \in [at : {"recv", "walk", "charge"}, feed : SomeMap, from : Nat, to : Nat]
    /\ wakerAt \in [Maps -> Nat]
    /\ table \in [Maps -> [Indices -> SomeOne]]
    /\ cork \in [Maps -> Corks]
    /\ ahead \in [Maps -> SUBSET Nat]
    /\ pc \in [Maps -> {"run", "publish", "number", "signal", "done"}]
    /\ job \in [Maps -> [do : {"none", "stay", "off", "leave"}, client : SomeOne]]
    /\ inHand \in [frame : Nat, client : SomeOne]
    /\ creates \in [Clients -> Nat] /\ frames \in Nat
    /\ sent \in [Clients -> SUBSET Nat]

-----------------------------------------------------------------------------
(* A client's readings: the one its writer is at (0), and those its queue  *)
(* has it begin.                                                          *)
Readings(o) == {p \in 0..Len(o.queue) : IF p = 0 THEN o.reading.feed # Nobody
                                        ELSE o.queue[p].kind = "sub"}
FeedAt(o, p)  == IF p = 0 THEN o.reading.feed ELSE o.queue[p].feed
MeAt(o, p)    == IF p = 0 THEN o.reading.me ELSE o.queue[p].me
AfterAt(o, p) == IF p = 0 THEN o.reading.at ELSE o.queue[p].after

(* Only frames of its own follow in the queue, up to the item q.           *)
OwnUpTo(o, p, q) == \A r \in (p + 1)..q : o.queue[r].kind = "own"

(* The reading p gets as far as the chunk k: the item that ends it, if one *)
(* does, lets it.                                                         *)
Goes(o, p, k) ==
    \A q \in (p + 1)..Len(o.queue) :
        OwnUpTo(o, p, q - 1) /\ o.queue[q].kind # "own" =>
            o.queue[q].kind = "unsub" /\ k <= o.queue[q].until

-----------------------------------------------------------------------------
(* What the maps' threads keep to: a player is on one map, at one number;  *)
(* their client reads that map's feed by that number once it is to, and    *)
(* the feed knows of it; who is taken for held is; and a map's cork is     *)
(* empty when it is off, and once it has been pushed.                     *)
OnePlace(tb) ==
    \A f, g \in Maps : \A i, j \in Indices :
        tb[f][i] = tb[g][j] /\ tb[f][i] # Nobody => f = g /\ i = j
Known(tb, sb) ==
    \A f \in Maps : \A i \in Indices : sb[f][i].client \in {Nobody, tb[f][i]}
Reader(sb, c, o) ==
    \A f \in Maps : \A i \in Indices :
        sb[f][i].client = c => o.sub.feed = f /\ o.sub.me = i
Seat(sb, hi, c, o) ==
    o.sub.feed # Nobody =>
        LET r == sb[o.sub.feed][o.sub.me]
        IN  /\ o.sub.me \in Indices
            /\ r.client = c /\ r.account = o.sub.account
            /\ r.account \in 1..Len(o.accounts) /\ o.accounts[r.account].open
            /\ o.sub.me \in hi[o.sub.feed] => o.holding

Seated ==
    /\ OnePlace(table) /\ Known(table, subs)
    /\ \A c \in Clients : ~out[c].closed =>
          Reader(subs, c, out[c]) /\ Seat(subs, heldIdx, c, out[c])

Pushing ==
    \A f \in Maps :
        /\ job[f].do = "leave" => job[f].client \in Clients /\ InMap(f, job[f].client)
        /\ pc[f] = "run" => job[f].do = "none"
        /\ ~cork[f].on /\ pc[f] # "number" => Empty(cork[f])
        /\ pc[f] # "run" => \A c \in Clients : cork[f].slots[c] = <<>>
        /\ pc[f] \in {"signal", "done"} => Empty(cork[f])

(* The waker has walked no further than there are chunks, but for one that *)
(* is linked, of a feed of l chunks with their number stored.              *)
Walks(l, wa, ah, at) ==
    \/ wa <= l
    \/ at = "number" /\ wa = l + 1 /\ wa \in ah

(* The waker is told of every chunk it has not walked, or is to be.        *)
Told ==
    /\ inHand.frame # 0 => inHand.client \in Clients
    /\ waker.at # "recv" => waker.feed \in Maps
    /\ waker.at = "charge" => waker.from <= waker.to /\ waker.to = wakerAt[waker.feed]
    /\ \A f \in Maps :
          /\ Walks(Len(chain[f]), wakerAt[f], ahead[f], pc[f])
          /\ signalled[f] => \E i \in 1..Len(signals) : signals[i] = f
          /\ wakerAt[f] < Len(chain[f]) =>
                \/ pc[f] = "signal" \/ signalled[f]
                \/ waker.at = "walk" /\ waker.feed = f

-----------------------------------------------------------------------------
(* What the writer is to write: its batch, the queue's frames, and what is *)
(* for the client in the chunks its readings get to.                      *)
Batched(o, n) == \E i \in 1..Len(o.batch) : o.batch[i].frame = n
Queued(o, n)  == \E q \in 1..Len(o.queue) :
                    o.queue[q].kind = "own" /\ n \in Range(o.queue[q].frames)
ToRead(ch, o, n) ==
    \E p \in Readings(o) : \E k \in 1..Len(ch[FeedAt(o, p)]) :
        AfterAt(o, p) < k /\ Goes(o, p, k) /\ n \in Of(ch[FeedAt(o, p)][k], MeAt(o, p))
Coming(ch, o, n) == Batched(o, n) \/ Queued(o, n) \/ ToRead(ch, o, n)

(* An item's number is one of the feed that is read by then, and the last  *)
(* reading is of the feed the client reads.                               *)
Stamped(ch, o) ==
    \A p \in Readings(o) :
        /\ AfterAt(o, p) <= Len(ch[FeedAt(o, p)])
        /\ \A q \in (p + 1)..Len(o.queue) : OwnUpTo(o, p, q - 1) =>
              /\ o.queue[q].kind = "own" => o.queue[q].stamp <= Len(ch[FeedAt(o, p)])
              /\ o.queue[q].kind = "unsub" => o.queue[q].until <= Len(ch[FeedAt(o, p)])
        /\ OwnUpTo(o, p, Len(o.queue)) => FeedAt(o, p) = o.sub.feed /\ MeAt(o, p) = o.sub.me

Follows(o) == o.sub.feed # Nobody => \E p \in Readings(o) : OwnUpTo(o, p, Len(o.queue))

Sound(ch, o) ==
    /\ Stamped(ch, o) /\ Follows(o)
    /\ o.at = "wait" => o.batch = <<>> /\ o.head = 0
    /\ o.reading.feed # Nobody => o.head <= Len(ch[o.reading.feed])
    /\ ~o.holding => o.held = <<>>

(* A chunk with something for a client whose writer has looked for the     *)
(* last: once the waker has walked it, the writer has been told.           *)
Walked(wk, wa, f) == IF wk.at = "charge" /\ wk.feed = f THEN wk.from ELSE wa[f]
Woke(ch, wk, wa, ah, o) ==
    LET f == o.reading.feed
    IN  o.at \in {"drain", "wait"} /\ f # Nobody /\ OwnUpTo(o, 0, Len(o.queue)) =>
            \A k \in 1..Len(ch[f]) :
                o.head < k /\ o.reading.at < k /\ k <= Walked(wk, wa, f) /\ k \notin ah[f]
                    /\ Of(ch[f][k], o.reading.me) # {} => o.ready

(* What the cork k of f keeps for the client c (Corking).                  *)
Keeping(k, f, c, o) ==
    Range(k.slots[c])
        \cup {d.frame : d \in {x \in Range(k.directs) : o.sub.feed = f /\ x.me = o.sub.me}}
        \cup {b.frame : b \in {x \in Range(k.log) : o.sub.feed = f /\ o.sub.me \in x.to}}

(* Where a frame n sent to the client c is: written, on its way, or        *)
(* waiting on a hold, as the create of one, in a session's hand or in a    *)
(* cork.                                                                  *)
Elsewhere(o, cr, ih, ck, c, n) ==
    \/ n \in Range(o.held)
    \/ o.holding /\ n = cr
    \/ ih.frame # 0 /\ ih.client = c /\ n = ih.frame
    \/ \E f \in Maps : n \in Keeping(ck[f], f, c, o)
Has(wr, ch, o, cr, ih, ck, c, n) ==
    n \in Range(wr) \/ Coming(ch, o, n) \/ Elsewhere(o, cr, ih, ck, c, n)

ClientInv(ch, wk, wa, ah, o) == Sound(ch, o) /\ Woke(ch, wk, wa, ah, o)
Fine(ch, wk, wa, ah, wr, o, cr, ih, ck, c, S) ==
    ClientInv(ch, wk, wa, ah, o) /\ \A n \in S : Has(wr, ch, o, cr, ih, ck, c, n)

FeedInv ==
    /\ Typed /\ Seated /\ Pushing /\ Told
    /\ \A c \in Clients : ~out[c].closed =>
          Fine(chain, waker, wakerAt, ahead, written[c], out[c], creates[c], inHand, cork, c, sent[c])

-----------------------------------------------------------------------------
(* What is read of a feed.                                                *)
LEMMA BytesNat ==
    ASSUME NEW s \in Seq(Bits)
    PROVE  Bytes(s) \in Nat
<1>1. IsFiniteSet(1..Len(s))
    BY LenProperties, FS_Interval
<1>2. {i \in 1..Len(s) : ~s[i].own} \subseteq 1..Len(s)
    OBVIOUS
<1>3. IsFiniteSet({i \in 1..Len(s) : ~s[i].own})
    BY <1>1, <1>2, FS_Subset
<1> QED BY <1>3, FS_CardinalityType DEF Bytes

Gathers(s, ch, me, a, b) ==
    \A k \in 1..Len(ch) : a < k /\ k <= b =>
        \A n \in Of(ch[k], me) : \E i \in 1..Len(s) : s[i].frame = n

LEMMA ShareOfIs ==
    ASSUME NEW ch \in Seq(Chunks), NEW me, NEW a \in Nat, NEW b \in Nat,
           b <= Len(ch) \/ b <= a
    PROVE  ShareOf(ch, me, a, b) \in Seq(Bits) /\ Gathers(ShareOf(ch, me, a, b), ch, me, a, b)
<1> DEFINE parts == [j \in 1..(b - a) |-> Share(ch[a + j], me)]
<1>0. Len(ch) \in Nat /\ ShareOf(ch, me, a, b) = FlattenSeq(parts)
    BY LenProperties DEF ShareOf
<1>1. parts \in Seq(Seq(Bits)) /\ \A j \in 1..(b - a) : j \in 1..Len(parts)
    <2>1. CASE a < b
        <3>1. PICK D \in Nat : D = b - a
            BY <2>1
        <3>2. ASSUME NEW j \in 1..D
              PROVE  Share(ch[a + j], me) \in Seq(Bits)
            <4>1. a + j \in 1..Len(ch)
                BY <1>0, <2>1, <3>1
            <4>2. ch[a + j] \in Chunks
                BY <4>1, ElementOfSeq
            <4> QED BY <4>2, ShareIs
        <3>3. parts \in [1..D -> Seq(Bits)]
            BY <3>1, <3>2
        <3> HIDE DEF parts
        <3> QED BY <3>1, <3>3
    <2>2. CASE ~(a < b)
        <3>1. 1..(b - a) = {}
            BY <2>2
        <3>2. parts = <<>>
            BY <3>1, EmptySeq
        <3> HIDE DEF parts
        <3> QED BY <3>1, <3>2
    <2> QED BY <2>1, <2>2
<1>2. ASSUME NEW k \in 1..Len(ch), a < k, k <= b, NEW n \in Of(ch[k], me)
      PROVE  \E x \in Range(FlattenSeq(parts)) : x.frame = n
    <2>1. PICK j \in 1..(b - a) : k = a + j
        <3>1. k - a \in 1..(b - a) /\ k = a + (k - a)
            BY <1>0, <1>2
        <3> QED BY <3>1
    <2>2. parts[j] = Share(ch[k], me) /\ j \in 1..Len(parts)
        BY <1>1, <2>1
    <2>3. ch[k] \in Chunks
        BY ElementOfSeq
    <2>4. PICK i \in 1..Len(parts[j]) : parts[j][i].frame = n
        BY <2>2, <2>3, ShareIs
    <2>5. parts[j] \in Seq(Bits)
        BY <2>2, <2>3, ShareIs
    <2>6. parts[j][i] \in Range(parts[j])
        BY <2>5, RangeIs
    <2> HIDE DEF parts
    <2>7. parts[j][i] \in Range(FlattenSeq(parts))
        BY <1>1, <2>2, <2>6, FlattenHas
    <2> QED BY <2>4, <2>7
<1> HIDE DEF parts
<1>3. FlattenSeq(parts) \in Seq(Bits)
    BY <1>1, FlattenType
<1>4. ASSUME NEW k \in 1..Len(ch), a < k, k <= b, NEW n \in Of(ch[k], me)
      PROVE  \E i \in 1..Len(ShareOf(ch, me, a, b)) : ShareOf(ch, me, a, b)[i].frame = n
    <2>1. PICK x \in Range(FlattenSeq(parts)) : x.frame = n
        BY <1>2, <1>4
    <2>2. PICK i \in 1..Len(FlattenSeq(parts)) : x = FlattenSeq(parts)[i]
        BY <1>3, RangeIs
    <2> QED BY <1>0, <2>1, <2>2
<1>5. ShareOf(ch, me, a, b) \in Seq(Bits)
    BY <1>0, <1>3
<1> QED BY <1>4, <1>5 DEF Gathers

-----------------------------------------------------------------------------
(* The feeds only grow.                                                   *)
Longer(ch, dh) ==
    \A f \in Maps : Len(ch[f]) <= Len(dh[f]) /\ \A k \in 1..Len(ch[f]) : dh[f][k] = ch[f][k]

(* Frames of its own are put behind what is in a client's queue.           *)
Grown(ch, o, w) ==
    /\ Len(o.queue) <= Len(w.queue)
    /\ \A i \in 1..Len(o.queue) : w.queue[i] = o.queue[i]
    /\ \A i \in (Len(o.queue) + 1)..Len(w.queue) :
          /\ w.queue[i].kind = "own"
          /\ o.sub.feed # Nobody => w.queue[i].stamp <= Len(ch[o.sub.feed])
    /\ w.sub = o.sub /\ w.reading = o.reading /\ w.batch = o.batch
    /\ w.at = o.at /\ w.head = o.head /\ (o.ready => w.ready)
    /\ Len(w.accounts) = Len(o.accounts)
    /\ \A a \in 1..Len(o.accounts) : o.accounts[a].open => w.accounts[a].open

LEMMA ReadingIs ==
    ASSUME NEW o \in Outbounds, NEW p \in Readings(o)
    PROVE  /\ Len(o.queue) \in Nat /\ p \in 0..Len(o.queue) /\ p \in Nat
           /\ FeedAt(o, p) \in Maps /\ MeAt(o, p) \in Nat /\ AfterAt(o, p) \in Nat
           /\ p # 0 => o.queue[p].kind = "sub"
<1>1. Len(o.queue) \in Nat /\ \A q \in 1..Len(o.queue) : o.queue[q] \in Items
    BY LenProperties, ElementOfSeq DEF Outbounds
<1>2. CASE p = 0
    BY <1>1, <1>2 DEF Readings, FeedAt, MeAt, AfterAt, Outbounds, SomeMap
<1>3. CASE p # 0
    <2>1. p \in 1..Len(o.queue) /\ o.queue[p].kind = "sub"
        BY <1>1, <1>3 DEF Readings
    <2>2. o.queue[p] \in SubItems
        BY <1>1, <2>1 DEF Items, OwnItems, UnsubItems
    <2>3. o.queue[p].feed \in Maps /\ o.queue[p].me \in Nat /\ o.queue[p].after \in Nat
        BY <2>2, FeedAssumption DEF SubItems
    <2>4. FeedAt(o, p) = o.queue[p].feed /\ MeAt(o, p) = o.queue[p].me
          /\ AfterAt(o, p) = o.queue[p].after
        BY <1>3 DEF FeedAt, MeAt, AfterAt
    <2>5. p \in Nat /\ p \in 0..Len(o.queue)
        BY <1>1, <2>1
    <2> QED BY <1>1, <2>1, <2>3, <2>4, <2>5
<1> QED BY <1>2, <1>3

LEMMA GrownReading ==
    ASSUME NEW ch, NEW o \in Outbounds, NEW w \in Outbounds, Grown(ch, o, w)
    PROVE  /\ Readings(w) = Readings(o)
           /\ \A p \in Readings(o) :
                 /\ FeedAt(w, p) = FeedAt(o, p) /\ MeAt(w, p) = MeAt(o, p)
                 /\ AfterAt(w, p) = AfterAt(o, p)
                 /\ \A q \in Nat : q <= Len(o.queue) => (OwnUpTo(w, p, q) <=> OwnUpTo(o, p, q))
                 /\ \A q \in Nat : q <= Len(w.queue) /\ OwnUpTo(w, p, q)
                        => OwnUpTo(o, p, q) \/ (Len(o.queue) <= q /\ OwnUpTo(o, p, Len(o.queue)))
                 /\ OwnUpTo(w, p, Len(w.queue)) <=> OwnUpTo(o, p, Len(o.queue))
<1>0. /\ Len(o.queue) \in Nat /\ Len(w.queue) \in Nat /\ Len(o.queue) <= Len(w.queue)
      /\ w.reading = o.reading
      /\ \A i \in 1..Len(o.queue) : w.queue[i] = o.queue[i]
      /\ \A i \in (Len(o.queue) + 1)..Len(w.queue) : w.queue[i].kind = "own"
    BY LenProperties DEF Outbounds, Grown
<1>1. Readings(w) = Readings(o)
    <2>1. ASSUME NEW p \in Readings(w)
          PROVE  p \in Readings(o)
        <3>1. p \in 0..Len(w.queue)
            BY DEF Readings
        <3>2. CASE p = 0
            BY <1>0, <3>2 DEF Readings
        <3>3. CASE p # 0
            <4>1. w.queue[p].kind = "sub"
                BY <3>3 DEF Readings
            <4>2. p \in 1..Len(o.queue)
                BY <1>0, <3>1, <3>3, <4>1
            <4> QED BY <1>0, <3>3, <4>1, <4>2 DEF Readings
        <3> QED BY <3>2, <3>3
    <2>2. ASSUME NEW p \in Readings(o)
          PROVE  p \in Readings(w)
        <3>1. p \in 0..Len(o.queue) /\ p \in 0..Len(w.queue)
            BY <1>0 DEF Readings
        <3>2. CASE p = 0
            BY <1>0, <3>1, <3>2 DEF Readings
        <3>3. CASE p # 0
            <4>1. o.queue[p].kind = "sub" /\ p \in 1..Len(o.queue)
                BY <1>0, <3>1, <3>3 DEF Readings
            <4> QED BY <1>0, <3>1, <3>3, <4>1 DEF Readings
        <3> QED BY <3>2, <3>3
    <2> QED BY <2>1, <2>2
<1>2. ASSUME NEW p \in Readings(o)
      PROVE  /\ FeedAt(w, p) = FeedAt(o, p) /\ MeAt(w, p) = MeAt(o, p)
             /\ AfterAt(w, p) = AfterAt(o, p)
             /\ \A q \in Nat : q <= Len(o.queue) => (OwnUpTo(w, p, q) <=> OwnUpTo(o, p, q))
             /\ \A q \in Nat : q <= Len(w.queue) /\ OwnUpTo(w, p, q)
                        => OwnUpTo(o, p, q) \/ (Len(o.queue) <= q /\ OwnUpTo(o, p, Len(o.queue)))
             /\ OwnUpTo(w, p, Len(w.queue)) <=> OwnUpTo(o, p, Len(o.queue))
    <2>0. p \in Nat /\ p \in 0..Len(o.queue)
        BY ReadingIs
    <2>1. FeedAt(w, p) = FeedAt(o, p) /\ MeAt(w, p) = MeAt(o, p) /\ AfterAt(w, p) = AfterAt(o, p)
        <3>1. CASE p = 0
            BY <1>0, <3>1 DEF FeedAt, MeAt, AfterAt
        <3>2. CASE p # 0
            <4>1. w.queue[p] = o.queue[p]
                BY <1>0, <2>0, <3>2
            <4> QED BY <3>2, <4>1 DEF FeedAt, MeAt, AfterAt
        <3> QED BY <3>1, <3>2
    <2>2. ASSUME NEW q \in Nat, q <= Len(o.queue)
          PROVE  OwnUpTo(w, p, q) <=> OwnUpTo(o, p, q)
        <3>1. \A r \in (p + 1)..q : w.queue[r] = o.queue[r]
            BY <1>0, <2>0, <2>2
        <3> QED BY <3>1 DEF OwnUpTo
    <2>3. ASSUME NEW q \in Nat, q <= Len(w.queue), OwnUpTo(w, p, q)
          PROVE  OwnUpTo(o, p, q) \/ (Len(o.queue) <= q /\ OwnUpTo(o, p, Len(o.queue)))
        <3>1. CASE q <= Len(o.queue)
            BY <2>2, <2>3, <3>1
        <3>2. CASE ~(q <= Len(o.queue))
            <4>1. ASSUME NEW r \in (p + 1)..Len(o.queue)
                  PROVE  o.queue[r].kind = "own"
                <5>1. r \in (p + 1)..q /\ r \in 1..Len(o.queue)
                    BY <1>0, <2>0, <3>2
                <5> QED BY <1>0, <2>3, <5>1 DEF OwnUpTo
            <4> QED BY <1>0, <3>2, <4>1 DEF OwnUpTo
        <3> QED BY <3>1, <3>2
    <2>4. OwnUpTo(w, p, Len(w.queue)) <=> OwnUpTo(o, p, Len(o.queue))
        <3>1. ASSUME OwnUpTo(o, p, Len(o.queue)), NEW r \in (p + 1)..Len(w.queue)
              PROVE  w.queue[r].kind = "own"
            <4>1. CASE r <= Len(o.queue)
                <5>1. r \in (p + 1)..Len(o.queue) /\ r \in 1..Len(o.queue)
                    BY <1>0, <2>0, <4>1
                <5> QED BY <1>0, <3>1, <5>1 DEF OwnUpTo
            <4>2. CASE ~(r <= Len(o.queue))
                BY <1>0, <2>0, <4>2
            <4> QED BY <4>1, <4>2
        <3>2. OwnUpTo(o, p, Len(o.queue)) => OwnUpTo(w, p, Len(w.queue))
            BY <3>1 DEF OwnUpTo
        <3>3. OwnUpTo(w, p, Len(w.queue)) => OwnUpTo(o, p, Len(o.queue))
            <4>1. ASSUME OwnUpTo(w, p, Len(w.queue)), NEW r \in (p + 1)..Len(o.queue)
                  PROVE  o.queue[r].kind = "own"
                <5>1. r \in (p + 1)..Len(w.queue) /\ r \in 1..Len(o.queue)
                    BY <1>0, <2>0
                <5> QED BY <1>0, <4>1, <5>1 DEF OwnUpTo
            <4> QED BY <4>1 DEF OwnUpTo
        <3> QED BY <3>2, <3>3
    <2> QED BY <2>1, <2>2, <2>3, <2>4
<1> QED BY <1>1, <1>2

LEMMA GrownStamped ==
    ASSUME NEW ch \in [Maps -> Seq(Chunks)], NEW dh \in [Maps -> Seq(Chunks)], Longer(ch, dh),
           NEW o \in Outbounds, NEW w \in Outbounds, Grown(ch, o, w),
           Stamped(ch, o), Follows(o)
    PROVE  Stamped(dh, w) /\ Follows(w)
<1>0. /\ Len(o.queue) \in Nat /\ Len(w.queue) \in Nat /\ Len(o.queue) <= Len(w.queue)
      /\ w.sub = o.sub /\ \A f \in Maps : Len(ch[f]) \in Nat /\ Len(dh[f]) \in Nat
      /\ \A f \in Maps : Len(ch[f]) <= Len(dh[f])
      /\ \A i \in 1..Len(w.queue) : w.queue[i] \in Items
    BY LenProperties, ElementOfSeq DEF Outbounds, Grown, Longer
<1>1. ASSUME NEW p \in Readings(w)
      PROVE  /\ AfterAt(w, p) <= Len(dh[FeedAt(w, p)])
             /\ \A q \in (p + 1)..Len(w.queue) : OwnUpTo(w, p, q - 1) =>
                   /\ w.queue[q].kind = "own" => w.queue[q].stamp <= Len(dh[FeedAt(w, p)])
                   /\ w.queue[q].kind = "unsub" => w.queue[q].until <= Len(dh[FeedAt(w, p)])
             /\ OwnUpTo(w, p, Len(w.queue)) => FeedAt(w, p) = w.sub.feed /\ MeAt(w, p) = w.sub.me
    <2>0. p \in Readings(o) /\ p \in Nat /\ FeedAt(w, p) = FeedAt(o, p) /\ FeedAt(o, p) \in Maps
          /\ MeAt(w, p) = MeAt(o, p) /\ AfterAt(w, p) = AfterAt(o, p) /\ AfterAt(o, p) \in Nat
        <3>1. p \in Readings(o)
            BY GrownReading
        <3>2. /\ FeedAt(w, p) = FeedAt(o, p) /\ MeAt(w, p) = MeAt(o, p)
              /\ AfterAt(w, p) = AfterAt(o, p)
            BY <3>1, GrownReading
        <3>3. p \in Nat /\ FeedAt(o, p) \in Maps /\ AfterAt(o, p) \in Nat
            BY <3>1, ReadingIs
        <3> QED BY <3>1, <3>2, <3>3
    <2>1. AfterAt(w, p) <= Len(dh[FeedAt(w, p)])
        <3>1. AfterAt(o, p) <= Len(ch[FeedAt(o, p)])
            BY <2>0 DEF Stamped
        <3> QED BY <1>0, <2>0, <3>1
    <2>2. OwnUpTo(w, p, Len(w.queue)) => FeedAt(w, p) = w.sub.feed /\ MeAt(w, p) = w.sub.me
        <3>1. OwnUpTo(w, p, Len(w.queue)) <=> OwnUpTo(o, p, Len(o.queue))
            BY <2>0, GrownReading
        <3> QED BY <1>0, <2>0, <3>1 DEF Stamped
    <2>3. ASSUME NEW q \in (p + 1)..Len(w.queue), OwnUpTo(w, p, q - 1)
          PROVE  /\ w.queue[q].kind = "own" => w.queue[q].stamp <= Len(dh[FeedAt(w, p)])
                 /\ w.queue[q].kind = "unsub" => w.queue[q].until <= Len(dh[FeedAt(w, p)])
        <3>0. q - 1 \in Nat /\ q \in Nat /\ q - 1 <= Len(w.queue) /\ q \in 1..Len(w.queue)
            BY <1>0, <2>0
        <3>1. CASE q <= Len(o.queue)
            <4>1. OwnUpTo(o, p, q - 1)
                <5>1. q - 1 <= Len(o.queue)
                    BY <1>0, <3>0, <3>1
                <5> QED BY <2>0, <2>3, <3>0, <5>1, GrownReading
            <4>2. q \in (p + 1)..Len(o.queue) /\ w.queue[q] = o.queue[q]
                BY <1>0, <2>0, <3>1 DEF Grown
            <4>3. /\ o.queue[q].kind = "own" => o.queue[q].stamp <= Len(ch[FeedAt(o, p)])
                  /\ o.queue[q].kind = "unsub" => o.queue[q].until <= Len(ch[FeedAt(o, p)])
                BY <2>0, <4>1, <4>2 DEF Stamped
            <4>4. /\ w.queue[q].kind = "own" => w.queue[q].stamp \in Nat
                  /\ w.queue[q].kind = "unsub" => w.queue[q].until \in Nat
                BY <1>0, <3>0 DEF Items, OwnItems, SubItems, UnsubItems
            <4> QED BY <1>0, <2>0, <4>2, <4>3, <4>4
        <3>2. CASE ~(q <= Len(o.queue))
            <4>1. OwnUpTo(o, p, Len(o.queue))
                <5>1. Len(o.queue) <= q - 1
                    BY <1>0, <3>0, <3>2
                <5>2. OwnUpTo(o, p, q - 1) \/ OwnUpTo(o, p, Len(o.queue))
                    BY <2>0, <2>3, <3>0, GrownReading
                <5>3. \A r \in (p + 1)..Len(o.queue) : r \in (p + 1)..(q - 1)
                    BY <1>0, <2>0, <3>0, <5>1
                <5> QED BY <5>2, <5>3 DEF OwnUpTo
            <4>2. FeedAt(o, p) = o.sub.feed
                BY <2>0, <4>1 DEF Stamped
            <4>3. o.sub.feed # Nobody
                BY <2>0, <4>2, FeedAssumption
            <4>4. q \in (Len(o.queue) + 1)..Len(w.queue)
                BY <1>0, <3>0, <3>2
            <4>5. w.queue[q].kind = "own" /\ w.queue[q].stamp <= Len(ch[o.sub.feed])
                BY <4>3, <4>4 DEF Grown
            <4>6. w.queue[q].stamp \in Nat
                BY <1>0, <3>0, <4>5 DEF Items, OwnItems, SubItems, UnsubItems
            <4> QED BY <1>0, <2>0, <4>2, <4>5, <4>6
        <3> QED BY <3>1, <3>2
    <2> QED BY <2>1, <2>2, <2>3
<1>2. Stamped(dh, w)
    BY <1>1 DEF Stamped
<1>3. Follows(w)
    BY <1>0, GrownReading DEF Follows
<1> QED BY <1>2, <1>3

LEMMA GrownComing ==
    ASSUME NEW ch \in [Maps -> Seq(Chunks)], NEW dh \in [Maps -> Seq(Chunks)], Longer(ch, dh),
           NEW o \in Outbounds, NEW w \in Outbounds, Grown(ch, o, w), NEW n, Coming(ch, o, n)
    PROVE  Coming(dh, w, n)
<1>0. /\ Len(o.queue) \in Nat /\ Len(w.queue) \in Nat /\ Len(o.queue) <= Len(w.queue)
      /\ w.batch = o.batch /\ \A f \in Maps : Len(ch[f]) \in Nat /\ Len(dh[f]) \in Nat
      /\ \A i \in 1..Len(o.queue) : w.queue[i] = o.queue[i]
      /\ \A i \in (Len(o.queue) + 1)..Len(w.queue) : w.queue[i].kind = "own"
    BY LenProperties DEF Outbounds, Grown
<1>1. CASE Batched(o, n)
    BY <1>0, <1>1 DEF Coming, Batched
<1>2. CASE Queued(o, n)
    <2>1. PICK q \in 1..Len(o.queue) : o.queue[q].kind = "own" /\ n \in Range(o.queue[q].frames)
        BY <1>2 DEF Queued
    <2>2. q \in 1..Len(w.queue) /\ w.queue[q] = o.queue[q]
        BY <1>0
    <2> QED BY <2>1, <2>2 DEF Coming, Queued
<1>3. CASE ToRead(ch, o, n)
    <2>0. PICK p \in Readings(o) : \E k \in 1..Len(ch[FeedAt(o, p)]) :
            AfterAt(o, p) < k /\ Goes(o, p, k) /\ n \in Of(ch[FeedAt(o, p)][k], MeAt(o, p))
        BY <1>3 DEF ToRead
    <2>1. PICK k \in 1..Len(ch[FeedAt(o, p)]) :
            AfterAt(o, p) < k /\ Goes(o, p, k) /\ n \in Of(ch[FeedAt(o, p)][k], MeAt(o, p))
        BY <2>0
    <2>2. p \in Readings(w) /\ p \in Nat /\ FeedAt(w, p) = FeedAt(o, p) /\ FeedAt(o, p) \in Maps
          /\ MeAt(w, p) = MeAt(o, p) /\ AfterAt(w, p) = AfterAt(o, p)
        <3>1. p \in Readings(w) /\ FeedAt(w, p) = FeedAt(o, p)
              /\ MeAt(w, p) = MeAt(o, p) /\ AfterAt(w, p) = AfterAt(o, p)
            BY GrownReading
        <3>2. p \in Nat /\ FeedAt(o, p) \in Maps
            BY ReadingIs
        <3> QED BY <3>1, <3>2
    <2>3. k \in 1..Len(dh[FeedAt(o, p)]) /\ dh[FeedAt(o, p)][k] = ch[FeedAt(o, p)][k]
        BY <1>0, <2>2 DEF Longer
    <2>4. Goes(w, p, k)
        <3>1. ASSUME NEW q \in (p + 1)..Len(w.queue), OwnUpTo(w, p, q - 1), w.queue[q].kind # "own"
              PROVE  w.queue[q].kind = "unsub" /\ k <= w.queue[q].until
            <4>0. q - 1 \in Nat /\ q \in Nat /\ q \in 1..Len(w.queue)
                BY <1>0, <2>2
            <4>1. q \in (p + 1)..Len(o.queue) /\ q \in 1..Len(o.queue) /\ q - 1 <= Len(o.queue)
                BY <1>0, <2>2, <3>1, <4>0
            <4>2. OwnUpTo(o, p, q - 1)
                BY <2>1, <3>1, <4>0, <4>1, GrownReading
            <4>3. w.queue[q] = o.queue[q]
                BY <1>0, <4>1
            <4> QED BY <2>1, <3>1, <4>1, <4>2, <4>3 DEF Goes
        <3> QED BY <3>1 DEF Goes
    <2>5. ToRead(dh, w, n)
        BY <2>1, <2>2, <2>3, <2>4 DEF ToRead
    <2> QED BY <2>5 DEF Coming
<1> QED BY <1>1, <1>2, <1>3 DEF Coming

(* What a feed publishes is to be read by the client that reads it.        *)
LEMMA PublishedComing ==
    ASSUME NEW ch \in [Maps -> Seq(Chunks)], NEW dh \in [Maps -> Seq(Chunks)], Longer(ch, dh),
           NEW o \in Outbounds, Stamped(ch, o), Follows(o), o.sub.feed # Nobody,
           NEW k \in 1..Len(dh[o.sub.feed]), Len(ch[o.sub.feed]) < k,
           NEW n \in Of(dh[o.sub.feed][k], o.sub.me)
    PROVE  Coming(dh, o, n)
<1>1. PICK p \in Readings(o) : OwnUpTo(o, p, Len(o.queue))
    BY DEF Follows
<1>2. /\ FeedAt(o, p) = o.sub.feed /\ MeAt(o, p) = o.sub.me
      /\ AfterAt(o, p) <= Len(ch[FeedAt(o, p)])
    BY <1>1 DEF Stamped
<1>3. /\ Len(o.queue) \in Nat /\ p \in Nat /\ FeedAt(o, p) \in Maps /\ AfterAt(o, p) \in Nat
      /\ Len(ch[FeedAt(o, p)]) \in Nat /\ Len(dh[FeedAt(o, p)]) \in Nat
    BY ReadingIs, LenProperties
<1>4. AfterAt(o, p) < k
    BY <1>2, <1>3
<1>5. Goes(o, p, k)
    BY <1>1 DEF Goes, OwnUpTo
<1> QED BY <1>2, <1>4, <1>5 DEF Coming, ToRead

(* What is put in the queue is to be written.                             *)
LEMMA QueuedComing ==
    ASSUME NEW ch, NEW o, NEW q \in 1..Len(o.queue), o.queue[q].kind = "own",
           NEW n \in Range(o.queue[q].frames)
    PROVE  Coming(ch, o, n)
BY DEF Coming, Queued

-----------------------------------------------------------------------------
(* A reading begins or ends: an item of its own is put behind the queue.   *)
Behind(o, w) ==
    /\ Len(w.queue) = Len(o.queue) + 1
    /\ \A i \in 1..Len(o.queue) : w.queue[i] = o.queue[i]
    /\ w.queue[Len(w.queue)].kind # "own"
    /\ w.reading = o.reading /\ w.batch = o.batch

LEMMA BehindReading ==
    ASSUME NEW o \in Outbounds, NEW w \in Outbounds, Behind(o, w)
    PROVE  /\ \A p \in Readings(w) : p \in Readings(o)
                                        \/ (p = Len(w.queue) /\ w.queue[p].kind = "sub")
           /\ \A p \in Readings(o) :
                 /\ p \in Readings(w)
                 /\ FeedAt(w, p) = FeedAt(o, p) /\ MeAt(w, p) = MeAt(o, p)
                 /\ AfterAt(w, p) = AfterAt(o, p)
                 /\ \A q \in Nat : q <= Len(o.queue) => (OwnUpTo(w, p, q) <=> OwnUpTo(o, p, q))
                 /\ ~OwnUpTo(w, p, Len(w.queue))
<1>0. /\ Len(o.queue) \in Nat /\ Len(w.queue) = Len(o.queue) + 1
      /\ w.reading = o.reading
      /\ \A i \in 1..Len(o.queue) : w.queue[i] = o.queue[i]
      /\ w.queue[Len(w.queue)].kind # "own"
    BY LenProperties DEF Outbounds, Behind
<1>1. ASSUME NEW p \in Readings(w)
      PROVE  p \in Readings(o) \/ (p = Len(w.queue) /\ w.queue[p].kind = "sub")
    <2>1. p \in 0..Len(w.queue)
        BY DEF Readings
    <2>2. CASE p = 0
        BY <1>0, <2>2 DEF Readings
    <2>3. CASE p # 0
        <3>1. w.queue[p].kind = "sub"
            BY <2>3 DEF Readings
        <3>2. CASE p = Len(w.queue)
            BY <3>1, <3>2
        <3>3. CASE p # Len(w.queue)
            <4>1. p \in 1..Len(o.queue) /\ p \in 0..Len(o.queue)
                BY <1>0, <2>1, <2>3, <3>3
            <4> QED BY <1>0, <2>3, <3>1, <4>1 DEF Readings
        <3> QED BY <3>2, <3>3
    <2> QED BY <2>2, <2>3
<1>2. ASSUME NEW p \in Readings(o)
      PROVE  /\ p \in Readings(w)
             /\ FeedAt(w, p) = FeedAt(o, p) /\ MeAt(w, p) = MeAt(o, p)
             /\ AfterAt(w, p) = AfterAt(o, p)
             /\ \A q \in Nat : q <= Len(o.queue) => (OwnUpTo(w, p, q) <=> OwnUpTo(o, p, q))
             /\ ~OwnUpTo(w, p, Len(w.queue))
    <2>0. p \in Nat /\ p \in 0..Len(o.queue) /\ p \in 0..Len(w.queue)
        BY <1>0, ReadingIs
    <2>1. /\ p \in Readings(w) /\ FeedAt(w, p) = FeedAt(o, p) /\ MeAt(w, p) = MeAt(o, p)
          /\ AfterAt(w, p) = AfterAt(o, p)
        <3>1. CASE p = 0
            BY <1>0, <2>0, <3>1 DEF FeedAt, MeAt, AfterAt, Readings
        <3>2. CASE p # 0
            <4>1. w.queue[p] = o.queue[p] /\ o.queue[p].kind = "sub"
                BY <1>0, <2>0, <3>2 DEF Readings
            <4> QED BY <2>0, <3>2, <4>1 DEF FeedAt, MeAt, AfterAt, Readings
        <3> QED BY <3>1, <3>2
    <2>2. ASSUME NEW q \in Nat, q <= Len(o.queue)
          PROVE  OwnUpTo(w, p, q) <=> OwnUpTo(o, p, q)
        <3>1. \A r \in (p + 1)..q : w.queue[r] = o.queue[r]
            BY <1>0, <2>0, <2>2
        <3> QED BY <3>1 DEF OwnUpTo
    <2>3. ~OwnUpTo(w, p, Len(w.queue))
        <3>1. Len(w.queue) \in (p + 1)..Len(w.queue)
            BY <1>0, <2>0
        <3> QED BY <1>0, <3>1 DEF OwnUpTo
    <2> QED BY <2>1, <2>2, <2>3
<1> QED BY <1>1, <1>2

LEMMA BehindStamped ==
    ASSUME NEW ch \in [Maps -> Seq(Chunks)], NEW o \in Outbounds, NEW w \in Outbounds,
           Behind(o, w), Stamped(ch, o),
           w.queue[Len(w.queue)].kind = "unsub"
                => o.sub.feed # Nobody /\ w.queue[Len(w.queue)].until = Len(ch[o.sub.feed]),
           w.queue[Len(w.queue)].kind = "sub"
                => LET x == w.queue[Len(w.queue)]
                   IN  x.after = Len(ch[x.feed]) /\ w.sub.feed = x.feed /\ w.sub.me = x.me
    PROVE  Stamped(ch, w)
<1>0. /\ Len(o.queue) \in Nat /\ Len(w.queue) = Len(o.queue) + 1 /\ Len(w.queue) # 0
      /\ \A f \in Maps : Len(ch[f]) \in Nat
      /\ \A i \in 1..Len(o.queue) : w.queue[i] = o.queue[i]
      /\ w.queue[Len(w.queue)].kind # "own"
    <2>1. Len(o.queue) \in Nat
        BY LenProperties DEF Outbounds
    <2>3. \A f \in Maps : Len(ch[f]) \in Nat
        BY LenProperties
    <2>2. /\ Len(w.queue) = Len(o.queue) + 1
          /\ \A i \in 1..Len(o.queue) : w.queue[i] = o.queue[i]
          /\ w.queue[Len(w.queue)].kind # "own"
        BY DEF Behind
    <2>4. Len(w.queue) # 0
        BY <2>1, <2>2
    <2> QED BY <2>1, <2>2, <2>3, <2>4
<1>1. ASSUME NEW p \in Readings(o)
      PROVE  /\ AfterAt(w, p) <= Len(ch[FeedAt(w, p)])
             /\ \A q \in (p + 1)..Len(w.queue) : OwnUpTo(w, p, q - 1) =>
                   /\ w.queue[q].kind = "own" => w.queue[q].stamp <= Len(ch[FeedAt(w, p)])
                   /\ w.queue[q].kind = "unsub" => w.queue[q].until <= Len(ch[FeedAt(w, p)])
             /\ OwnUpTo(w, p, Len(w.queue)) => FeedAt(w, p) = w.sub.feed /\ MeAt(w, p) = w.sub.me
    <2>0. p \in Nat /\ FeedAt(w, p) = FeedAt(o, p) /\ FeedAt(o, p) \in Maps
          /\ MeAt(w, p) = MeAt(o, p) /\ AfterAt(w, p) = AfterAt(o, p)
        BY BehindReading, ReadingIs
    <2>1. ASSUME NEW q \in (p + 1)..Len(w.queue), OwnUpTo(w, p, q - 1)
          PROVE  /\ w.queue[q].kind = "own" => w.queue[q].stamp <= Len(ch[FeedAt(w, p)])
                 /\ w.queue[q].kind = "unsub" => w.queue[q].until <= Len(ch[FeedAt(w, p)])
        <3>0. q - 1 \in Nat /\ q - 1 <= Len(o.queue)
            BY <1>0, <2>0
        <3>1. OwnUpTo(o, p, q - 1)
            BY <2>1, <3>0, BehindReading
        <3>2. CASE q = Len(w.queue)
            <4>1. q - 1 = Len(o.queue)
                BY <1>0, <3>2
            <4>2. FeedAt(o, p) = o.sub.feed
                BY <3>1, <4>1 DEF Stamped
            <4> QED BY <1>0, <2>0, <3>2, <4>2
        <3>3. CASE q # Len(w.queue)
            <4>1. q \in (p + 1)..Len(o.queue) /\ w.queue[q] = o.queue[q]
                BY <1>0, <2>0, <3>3
            <4> QED BY <2>0, <3>1, <4>1 DEF Stamped
        <3> QED BY <3>2, <3>3
    <2>2. AfterAt(o, p) <= Len(ch[FeedAt(o, p)])
        BY DEF Stamped
    <2> QED BY <2>0, <2>1, <2>2, BehindReading
<1>2. ASSUME w.queue[Len(w.queue)].kind = "sub", NEW p, p = Len(w.queue)
      PROVE  /\ AfterAt(w, p) <= Len(ch[FeedAt(w, p)])
             /\ \A q \in (p + 1)..Len(w.queue) : OwnUpTo(w, p, q - 1) =>
                   /\ w.queue[q].kind = "own" => w.queue[q].stamp <= Len(ch[FeedAt(w, p)])
                   /\ w.queue[q].kind = "unsub" => w.queue[q].until <= Len(ch[FeedAt(w, p)])
             /\ OwnUpTo(w, p, Len(w.queue)) => FeedAt(w, p) = w.sub.feed /\ MeAt(w, p) = w.sub.me
    <2>1. w.queue[p] \in Items
        <3>1. w.queue \in Seq(Items) /\ p \in 1..Len(w.queue)
            BY <1>0, <1>2 DEF Outbounds
        <3> QED BY <3>1, ElementOfSeq
    <2>2. w.queue[p].feed \in Maps
        BY <1>2, <2>1 DEF Items, OwnItems, SubItems, UnsubItems
    <2>3. /\ AfterAt(w, p) = Len(ch[w.queue[p].feed]) /\ FeedAt(w, p) = w.queue[p].feed
          /\ MeAt(w, p) = w.queue[p].me /\ w.sub.feed = w.queue[p].feed
          /\ w.sub.me = w.queue[p].me
        BY <1>0, <1>2 DEF AfterAt, FeedAt, MeAt
    <2>4. (p + 1)..Len(w.queue) = {}
        BY <1>0, <1>2
    <2>5. Len(ch[w.queue[p].feed]) <= Len(ch[w.queue[p].feed])
        BY <1>0, <2>2
    <2> QED BY <2>3, <2>4, <2>5
<1> QED BY <1>1, <1>2, BehindReading DEF Stamped

LEMMA BehindComing ==
    ASSUME NEW ch \in [Maps -> Seq(Chunks)], NEW o \in Outbounds, NEW w \in Outbounds,
           Behind(o, w), Stamped(ch, o), NEW n, Coming(ch, o, n),
           w.queue[Len(w.queue)].kind = "unsub"
                => w.queue[Len(w.queue)].until = Len(ch[o.sub.feed]),
           w.queue[Len(w.queue)].kind = "sub" => o.sub.feed = Nobody
    PROVE  Coming(ch, w, n)
<1>0. /\ Len(o.queue) \in Nat /\ Len(w.queue) = Len(o.queue) + 1 /\ Len(w.queue) # 0
      /\ w.batch = o.batch /\ w.queue \in Seq(Items) /\ \A f \in Maps : Len(ch[f]) \in Nat
      /\ \A i \in 1..Len(o.queue) : w.queue[i] = o.queue[i]
      /\ w.queue[Len(w.queue)].kind # "own"
    <2>1. /\ o.queue \in Seq(Items) /\ w.queue \in Seq(Items)
        BY DEF Outbounds
    <2>2. Len(o.queue) \in Nat /\ \A f \in Maps : Len(ch[f]) \in Nat
        BY <2>1, LenProperties
    <2> QED BY <2>1, <2>2 DEF Behind
<1>1. CASE Batched(o, n)
    BY <1>0, <1>1 DEF Coming, Batched
<1>2. CASE Queued(o, n)
    <2>1. PICK q \in 1..Len(o.queue) : o.queue[q].kind = "own" /\ n \in Range(o.queue[q].frames)
        BY <1>2 DEF Queued
    <2>2. q \in 1..Len(w.queue) /\ w.queue[q] = o.queue[q]
        BY <1>0
    <2> QED BY <2>1, <2>2 DEF Coming, Queued
<1>3. CASE ToRead(ch, o, n)
    <2>0. PICK p \in Readings(o) : \E k \in 1..Len(ch[FeedAt(o, p)]) :
            AfterAt(o, p) < k /\ Goes(o, p, k) /\ n \in Of(ch[FeedAt(o, p)][k], MeAt(o, p))
        BY <1>3 DEF ToRead
    <2>1. PICK k \in 1..Len(ch[FeedAt(o, p)]) :
            AfterAt(o, p) < k /\ Goes(o, p, k) /\ n \in Of(ch[FeedAt(o, p)][k], MeAt(o, p))
        BY <2>0
    <2>2. p \in Readings(w) /\ p \in Nat /\ FeedAt(w, p) = FeedAt(o, p) /\ FeedAt(o, p) \in Maps
          /\ MeAt(w, p) = MeAt(o, p) /\ AfterAt(w, p) = AfterAt(o, p)
        BY BehindReading, ReadingIs
    <2>3. Goes(w, p, k)
        <3>1. ASSUME NEW q \in (p + 1)..Len(w.queue), OwnUpTo(w, p, q - 1), w.queue[q].kind # "own"
              PROVE  w.queue[q].kind = "unsub" /\ k <= w.queue[q].until
            <4>0. q - 1 \in Nat /\ q - 1 <= Len(o.queue)
                BY <1>0, <2>2
            <4>1. OwnUpTo(o, p, q - 1)
                BY <3>1, <4>0, BehindReading
            <4>2. CASE q = Len(w.queue)
                <5>1. q - 1 = Len(o.queue)
                    BY <1>0, <4>2
                <5>2. FeedAt(o, p) = o.sub.feed /\ o.sub.feed # Nobody
                    BY <2>2, <4>1, <5>1, FeedAssumption DEF Stamped
                <5>3. w.queue[q] \in Items
                    <6>1. q \in 1..Len(w.queue)
                        BY <1>0, <4>2
                    <6> QED BY <1>0, <6>1, ElementOfSeq
                <5>4. w.queue[q].kind = "unsub"
                    BY <1>0, <4>2, <5>2, <5>3 DEF Items, OwnItems, SubItems, UnsubItems
                <5>5. k <= Len(ch[o.sub.feed])
                    BY <1>0, <2>2, <5>2
                <5> QED BY <4>2, <5>4, <5>5
            <4>3. CASE q # Len(w.queue)
                <5>1. q \in (p + 1)..Len(o.queue) /\ w.queue[q] = o.queue[q]
                    BY <1>0, <2>2, <4>3
                <5> QED BY <2>1, <3>1, <4>1, <5>1 DEF Goes
            <4> QED BY <4>2, <4>3
        <3> QED BY <3>1 DEF Goes
    <2> QED BY <2>1, <2>2, <2>3 DEF Coming, ToRead
<1> QED BY <1>1, <1>2, <1>3 DEF Coming

-----------------------------------------------------------------------------
(* The first item of a queue is taken: the reading r is then the reading p. *)
Shifted(o, w) ==
    /\ Len(o.queue) = Len(w.queue) + 1
    /\ \A i \in 1..Len(w.queue) : w.queue[i] = o.queue[i + 1]

Carries(o, w, p, r) ==
    /\ p \in Readings(w) /\ r \in Readings(o)
    /\ r = p + 1 \/ (r = 0 /\ p = 0 /\ o.queue[1].kind = "own")
    /\ FeedAt(w, p) = FeedAt(o, r) /\ MeAt(w, p) = MeAt(o, r)

LEMMA CarriesOwn ==
    ASSUME NEW o \in Outbounds, NEW w \in Outbounds, Shifted(o, w), NEW p, NEW r,
           Carries(o, w, p, r)
    PROVE  /\ \A q \in Nat : q <= Len(w.queue) => (OwnUpTo(w, p, q) <=> OwnUpTo(o, r, q + 1))
           /\ \A q \in (p + 1)..Len(w.queue) :
                 q + 1 \in (r + 1)..Len(o.queue) /\ w.queue[q] = o.queue[q + 1]
<1>0. /\ Len(o.queue) \in Nat /\ Len(w.queue) \in Nat /\ Len(o.queue) = Len(w.queue) + 1
      /\ p \in Nat /\ r \in Nat /\ (r = p + 1 \/ (r = 0 /\ p = 0 /\ o.queue[1].kind = "own"))
    BY LenProperties, ReadingIs DEF Outbounds, Shifted, Carries
<1>1. \A i \in 1..Len(w.queue) : w.queue[i] = o.queue[i + 1]
    BY DEF Shifted
<1>2. ASSUME NEW q \in Nat, q <= Len(w.queue)
      PROVE  OwnUpTo(w, p, q) <=> OwnUpTo(o, r, q + 1)
    <2>1. ASSUME OwnUpTo(w, p, q), NEW x \in (r + 1)..(q + 1)
          PROVE  o.queue[x].kind = "own"
        <3>1. CASE x = 1
            BY <1>0, <3>1
        <3>2. CASE x # 1
            <4>1. PICK y \in (p + 1)..q : x = y + 1
                <5>1. x - 1 \in (p + 1)..q /\ x = (x - 1) + 1
                    BY <1>0, <3>2
                <5> QED BY <5>1
            <4>2. y \in 1..Len(w.queue)
                BY <1>0, <1>2
            <4>3. w.queue[y].kind = "own"
                BY <2>1 DEF OwnUpTo
            <4> QED BY <1>1, <4>1, <4>2, <4>3
        <3> QED BY <3>1, <3>2
    <2>2. ASSUME OwnUpTo(o, r, q + 1), NEW y \in (p + 1)..q
          PROVE  w.queue[y].kind = "own"
        <3>1. y + 1 \in (r + 1)..(q + 1) /\ y \in 1..Len(w.queue)
            BY <1>0, <1>2
        <3>2. o.queue[y + 1].kind = "own"
            BY <2>2, <3>1 DEF OwnUpTo
        <3> QED BY <1>1, <3>1, <3>2
    <2> QED BY <2>1, <2>2 DEF OwnUpTo
<1>3. ASSUME NEW q \in (p + 1)..Len(w.queue)
      PROVE  q + 1 \in (r + 1)..Len(o.queue) /\ w.queue[q] = o.queue[q + 1]
    <2>1. q + 1 \in (r + 1)..Len(o.queue) /\ q \in 1..Len(w.queue)
        BY <1>0
    <2> QED BY <1>1, <2>1
<1> QED BY <1>2, <1>3

LEMMA CarriesStamped ==
    ASSUME NEW ch \in [Maps -> Seq(Chunks)], NEW o \in Outbounds, NEW w \in Outbounds,
           Shifted(o, w), w.sub = o.sub, Stamped(ch, o),
           \A p \in Readings(w) : /\ \E r : Carries(o, w, p, r)
                                  /\ AfterAt(w, p) <= Len(ch[FeedAt(w, p)])
    PROVE  Stamped(ch, w)
<1>0. /\ Len(o.queue) \in Nat /\ Len(w.queue) \in Nat /\ Len(o.queue) = Len(w.queue) + 1
    BY LenProperties DEF Outbounds, Shifted
<1>1. ASSUME NEW p \in Readings(w)
      PROVE  /\ \A q \in (p + 1)..Len(w.queue) : OwnUpTo(w, p, q - 1) =>
                   /\ w.queue[q].kind = "own" => w.queue[q].stamp <= Len(ch[FeedAt(w, p)])
                   /\ w.queue[q].kind = "unsub" => w.queue[q].until <= Len(ch[FeedAt(w, p)])
             /\ OwnUpTo(w, p, Len(w.queue)) => FeedAt(w, p) = w.sub.feed /\ MeAt(w, p) = w.sub.me
    <2>1. PICK r : Carries(o, w, p, r)
        OBVIOUS
    <2>2. r \in Readings(o) /\ FeedAt(w, p) = FeedAt(o, r) /\ MeAt(w, p) = MeAt(o, r) /\ p \in Nat
        BY <2>1, ReadingIs DEF Carries
    <2>3. ASSUME NEW q \in (p + 1)..Len(w.queue), OwnUpTo(w, p, q - 1)
          PROVE  /\ w.queue[q].kind = "own" => w.queue[q].stamp <= Len(ch[FeedAt(w, p)])
                 /\ w.queue[q].kind = "unsub" => w.queue[q].until <= Len(ch[FeedAt(w, p)])
        <3>1. q - 1 \in Nat /\ q - 1 <= Len(w.queue) /\ (q - 1) + 1 = q /\ (q + 1) - 1 = q
            BY <1>0, <2>2
        <3>2. OwnUpTo(o, r, (q - 1) + 1)
            BY <2>1, <2>3, <3>1, CarriesOwn
        <3>3. q + 1 \in (r + 1)..Len(o.queue) /\ w.queue[q] = o.queue[q + 1]
            BY <2>1, CarriesOwn
        <3>4. OwnUpTo(o, r, (q + 1) - 1)
            BY <3>1, <3>2
        <3> QED BY <2>2, <3>3, <3>4 DEF Stamped
    <2>4. ASSUME OwnUpTo(w, p, Len(w.queue))
          PROVE  FeedAt(w, p) = w.sub.feed /\ MeAt(w, p) = w.sub.me
        <3>1. OwnUpTo(o, r, Len(o.queue))
            BY <1>0, <2>1, <2>4, CarriesOwn
        <3> QED BY <2>2, <3>1 DEF Stamped
    <2> QED BY <2>3, <2>4
<1> QED BY <1>1 DEF Stamped

(* A chunk the reading gets to is, after the item, one it still gets to,   *)
(* if it is not one read with the item.                                   *)
LEMMA CarriesToRead ==
    ASSUME NEW ch, NEW o \in Outbounds, NEW w \in Outbounds, Shifted(o, w), NEW p, NEW r,
           Carries(o, w, p, r), NEW k \in 1..Len(ch[FeedAt(o, r)]), Goes(o, r, k),
           AfterAt(w, p) < k, NEW n \in Of(ch[FeedAt(o, r)][k], MeAt(o, r))
    PROVE  Coming(ch, w, n)
<1>0. /\ Len(o.queue) \in Nat /\ Len(w.queue) \in Nat /\ Len(o.queue) = Len(w.queue) + 1
      /\ p \in Nat
    BY LenProperties, ReadingIs DEF Outbounds, Shifted, Carries
<1>1. ASSUME NEW q \in (p + 1)..Len(w.queue), OwnUpTo(w, p, q - 1), w.queue[q].kind # "own"
      PROVE  w.queue[q].kind = "unsub" /\ k <= w.queue[q].until
    <2>1. q - 1 \in Nat /\ q - 1 <= Len(w.queue) /\ (q - 1) + 1 = q /\ (q + 1) - 1 = q
        BY <1>0
    <2>2. OwnUpTo(o, r, (q - 1) + 1)
        BY <1>1, <2>1, CarriesOwn
    <2>3. q + 1 \in (r + 1)..Len(o.queue) /\ w.queue[q] = o.queue[q + 1]
        BY CarriesOwn
    <2>4. OwnUpTo(o, r, (q + 1) - 1)
        BY <2>1, <2>2
    <2> QED BY <1>1, <2>3, <2>4 DEF Goes
<1>2. Goes(w, p, k)
    BY <1>1 DEF Goes
<1> QED BY <1>2 DEF Coming, ToRead, Carries

LEMMA CarriesQueued ==
    ASSUME NEW o \in Outbounds, NEW w \in Outbounds, Shifted(o, w), NEW n, Queued(o, n),
           ~(o.queue[1].kind = "own" /\ n \in Range(o.queue[1].frames))
    PROVE  Queued(w, n)
<1>0. /\ Len(o.queue) \in Nat /\ Len(w.queue) \in Nat /\ Len(o.queue) = Len(w.queue) + 1
    BY LenProperties DEF Outbounds, Shifted
<1>1. PICK q \in 1..Len(o.queue) : o.queue[q].kind = "own" /\ n \in Range(o.queue[q].frames)
    BY DEF Queued
<1>2. q # 1
    BY <1>1
<1>3. PICK i \in 1..Len(w.queue) : q = i + 1
    <2>1. q - 1 \in 1..Len(w.queue) /\ q = (q - 1) + 1
        BY <1>0, <1>2
    <2> QED BY <2>1
<1>4. w.queue[i] = o.queue[q]
    BY <1>3 DEF Shifted
<1> QED BY <1>1, <1>4 DEF Queued

(* The readings but the first: each is one place nearer.                   *)
LEMMA LaterReadings ==
    ASSUME NEW o \in Outbounds, NEW w \in Outbounds, Shifted(o, w)
    PROVE  /\ \A p \in Readings(w) : p # 0 =>
                 Carries(o, w, p, p + 1) /\ AfterAt(w, p) = AfterAt(o, p + 1)
           /\ \A r \in Readings(o) : r # 0 /\ r # 1 =>
                 Carries(o, w, r - 1, r) /\ AfterAt(w, r - 1) = AfterAt(o, r)
<1>0. /\ Len(o.queue) \in Nat /\ Len(w.queue) \in Nat /\ Len(o.queue) = Len(w.queue) + 1
    BY LenProperties DEF Outbounds, Shifted
<1>1. ASSUME NEW p \in 1..Len(w.queue), w.queue[p].kind = "sub" \/ o.queue[p + 1].kind = "sub"
      PROVE  Carries(o, w, p, p + 1) /\ AfterAt(w, p) = AfterAt(o, p + 1)
    <2>1. w.queue[p] = o.queue[p + 1] /\ p \in 0..Len(w.queue) /\ p + 1 \in 0..Len(o.queue)
          /\ p # 0 /\ p + 1 # 0
        BY <1>0 DEF Shifted
    <2> QED BY <1>1, <2>1 DEF Carries, Readings, FeedAt, MeAt, AfterAt
<1>2. ASSUME NEW p \in Readings(w), p # 0
      PROVE  Carries(o, w, p, p + 1) /\ AfterAt(w, p) = AfterAt(o, p + 1)
    <2>1. p \in 1..Len(w.queue) /\ w.queue[p].kind = "sub"
        BY <1>0, <1>2, ReadingIs
    <2> QED BY <1>1, <2>1
<1>3. ASSUME NEW r \in Readings(o), r # 0, r # 1
      PROVE  Carries(o, w, r - 1, r) /\ AfterAt(w, r - 1) = AfterAt(o, r)
    <2>1. r \in 0..Len(o.queue) /\ o.queue[r].kind = "sub"
        BY <1>3, ReadingIs
    <2>2. PICK p \in 1..Len(w.queue) : p + 1 = r /\ p = r - 1
        <3>1. r - 1 \in 1..Len(w.queue) /\ (r - 1) + 1 = r
            BY <1>0, <1>3, <2>1
        <3> QED BY <3>1
    <2>3. Carries(o, w, p, p + 1) /\ AfterAt(w, p) = AfterAt(o, p + 1)
        BY <1>1, <2>1, <2>2
    <2> QED BY <2>2, <2>3
<1> QED BY <1>2, <1>3

-----------------------------------------------------------------------------
(* What the writer reads of a feed joins its batch.                       *)
Chained == chain \in [Maps -> Seq(Chunks)]

LEMMA BatchCat ==
    ASSUME NEW s \in Seq(Bits), NEW t \in Seq(Bits)
    PROVE  /\ s \o t \in Seq(Bits)
           /\ \A n : (\E i \in 1..Len(s) : s[i].frame = n) \/ (\E i \in 1..Len(t) : t[i].frame = n)
                        => \E i \in 1..Len(s \o t) : (s \o t)[i].frame = n
           /\ s \o t = <<>> => s = <<>> /\ t = <<>>
<1>1. /\ Cat(s, t) \in Seq(Bits) /\ Len(Cat(s, t)) = Len(s) + Len(t)
      /\ Len(s) \in Nat /\ Len(t) \in Nat
    BY CatType, CatLen, LenProperties
<1>2. ASSUME NEW n, NEW i \in 1..Len(s), s[i].frame = n
      PROVE  \E j \in 1..Len(Cat(s, t)) : Cat(s, t)[j].frame = n
    <2>1. Cat(s, t)[i] = s[i]
        BY CatLeft
    <2>2. i \in 1..Len(Cat(s, t))
        BY <1>1
    <2> QED BY <1>2, <2>1, <2>2
<1>3. ASSUME NEW n, NEW i \in 1..Len(t), t[i].frame = n
      PROVE  \E j \in 1..Len(Cat(s, t)) : Cat(s, t)[j].frame = n
    <2>1. Cat(s, t)[Len(s) + i] = t[i]
        BY CatRight
    <2>2. Len(s) + i \in 1..Len(Cat(s, t))
        BY <1>1
    <2> QED BY <1>3, <2>1, <2>2
<1>4. Cat(s, t) = <<>> => s = <<>> /\ t = <<>>
    <2> SUFFICES ASSUME Cat(s, t) = <<>>
                 PROVE  s = <<>> /\ t = <<>>
        OBVIOUS
    <2>1. Len(s) + Len(t) = 0
        BY <1>1, EmptySeq
    <2>2. Len(s) = 0 /\ Len(t) = 0
        BY <1>1, <2>1
    <2> QED BY <2>2, EmptySeq
<1>5. s \o t = Cat(s, t)
    BY DEF Cat
<1> HIDE DEF Cat
<1> QED BY ONLY <1>1, <1>2, <1>3, <1>4, <1>5

Accounts == [due : Int, done : Int, open : BOOLEAN]
WithDone(s, a, n) == [s EXCEPT ![a].done = @ + n]
WithDue(s, a, n)  == [s EXCEPT ![a].due = @ + n]

LEMMA AccountSet ==
    ASSUME NEW s \in Seq(Accounts), NEW a, NEW v, a \in 1..Len(s) => v \in Accounts,
           NEW t, t = [s EXCEPT ![a] = v]
    PROVE  t \in Seq(Accounts) /\ Len(t) = Len(s)
<1>1. DOMAIN s = 1..Len(s) /\ s \in [1..Len(s) -> Accounts] /\ Len(s) \in Nat
    BY LenProperties
<1>2. t \in [1..Len(s) -> Accounts]
    BY <1>1
<1>3. PICK N \in Nat : N = Len(s)
    BY <1>1
<1>4. t \in Seq(Accounts) /\ Len(t) = N
    BY <1>2, <1>3
<1> QED BY <1>3, <1>4

LEMMA WithDoneIs ==
    ASSUME NEW s \in Seq(Accounts), NEW a, NEW n \in Int
    PROVE  /\ WithDone(s, a, n) \in Seq(Accounts) /\ Len(WithDone(s, a, n)) = Len(s)
           /\ \A i \in 1..Len(s) : WithDone(s, a, n)[i].open = s[i].open
<1> DEFINE v == [s[a] EXCEPT !.done = @ + n]
<1>1. DOMAIN s = 1..Len(s) /\ \A i \in 1..Len(s) : s[i] \in Accounts
    BY LenProperties, ElementOfSeq
<1>2. a \in 1..Len(s) => v \in Accounts /\ v.open = s[a].open
    <2> SUFFICES ASSUME a \in 1..Len(s)
                 PROVE  v \in Accounts /\ v.open = s[a].open
        OBVIOUS
    <2>1. s[a] \in Accounts
        BY <1>1
    <2> QED BY <2>1 DEF Accounts
<1>3. WithDone(s, a, n) = [s EXCEPT ![a] = v]
    BY DEF WithDone
<1> HIDE DEF v
<1>4. WithDone(s, a, n) \in Seq(Accounts) /\ Len(WithDone(s, a, n)) = Len(s)
    BY <1>2, <1>3, AccountSet
<1>5. \A i \in 1..Len(s) : WithDone(s, a, n)[i].open = s[i].open
    BY <1>1, <1>2, <1>3
<1> QED BY <1>4, <1>5

LEMMA WithDueIs ==
    ASSUME NEW s \in Seq(Accounts), NEW a, NEW n \in Int
    PROVE  /\ WithDue(s, a, n) \in Seq(Accounts) /\ Len(WithDue(s, a, n)) = Len(s)
           /\ \A i \in 1..Len(s) : WithDue(s, a, n)[i].open = s[i].open
<1> DEFINE v == [s[a] EXCEPT !.due = @ + n]
<1>1. DOMAIN s = 1..Len(s) /\ \A i \in 1..Len(s) : s[i] \in Accounts
    BY LenProperties, ElementOfSeq
<1>2. a \in 1..Len(s) => v \in Accounts /\ v.open = s[a].open
    <2> SUFFICES ASSUME a \in 1..Len(s)
                 PROVE  v \in Accounts /\ v.open = s[a].open
        OBVIOUS
    <2>1. s[a] \in Accounts
        BY <1>1
    <2> QED BY <2>1 DEF Accounts
<1>3. WithDue(s, a, n) = [s EXCEPT ![a] = v]
    BY DEF WithDue
<1> HIDE DEF v
<1>4. WithDue(s, a, n) \in Seq(Accounts) /\ Len(WithDue(s, a, n)) = Len(s)
    BY <1>2, <1>3, AccountSet
<1>5. \A i \in 1..Len(s) : WithDue(s, a, n)[i].open = s[i].open
    BY <1>1, <1>2, <1>3
<1> QED BY <1>4, <1>5

(* ReadTo: but for the batch, the place and the account, nothing changes.  *)
ReadBy(o, target, s) ==
    LET r == o.reading
    IN  /\ s \in Outbounds
        /\ s.queue = o.queue /\ s.sub = o.sub /\ s.holding = o.holding /\ s.held = o.held
        /\ s.closed = o.closed /\ s.at = o.at /\ s.head = o.head /\ s.ready = o.ready
        /\ Len(s.accounts) = Len(o.accounts)
        /\ \A a \in 1..Len(o.accounts) : s.accounts[a].open = o.accounts[a].open
        /\ s.reading.feed = r.feed /\ s.reading.me = r.me
        /\ r.at <= s.reading.at
        /\ r.feed # Nobody => target <= s.reading.at /\ s.reading.at <= Len(chain[r.feed])
        /\ r.feed # Nobody => s.reading.at = r.at \/ s.reading.at = target
        /\ \A n : Batched(o, n) => Batched(s, n)
        /\ s.batch = <<>> => o.batch = <<>>
        /\ r.feed # Nobody => \A k \in 1..Len(chain[r.feed]) : r.at < k /\ k <= target =>
              \A n \in Of(chain[r.feed][k], r.me) : Batched(s, n)

LEMMA ReadToIs ==
    ASSUME Chained, NEW o \in Outbounds, NEW target \in Nat,
           o.reading.feed # Nobody => /\ target <= Len(chain[o.reading.feed])
                                      /\ o.reading.at <= Len(chain[o.reading.feed])
    PROVE  ReadBy(o, target, ReadTo(o, target))
<1> USE DEF ReadBy
<1> DEFINE s == ReadTo(o, target)
           r == o.reading
           x == ShareOf(chain[r.feed], r.me, r.at, target)
<1>0. /\ r \in [feed : SomeMap, me : Nat, at : Nat, account : Nat] /\ o.batch \in Seq(Bits)
      /\ o.accounts \in Seq([due : Int, done : Int, open : BOOLEAN])
    BY DEF Outbounds
<1>1. CASE r.feed = Nobody \/ target <= r.at
    <2>1. s = o
        BY <1>1 DEF ReadTo
    <2>2. r.feed # Nobody => Len(chain[r.feed]) \in Nat
        BY <1>0, LenProperties DEF Chained, SomeMap
    <2> HIDE DEF s
    <2> QED BY <1>0, <1>1, <2>1, <2>2 DEF s
<1>2. CASE ~(r.feed = Nobody \/ target <= r.at)
    <2>1. /\ s = [o EXCEPT !.batch = @ \o x, !.reading.at = target,
                           !.accounts[r.account].done = @ + Bytes(x)]
        BY <1>2 DEF ReadTo
    <2>2. r.feed \in Maps /\ chain[r.feed] \in Seq(Chunks) /\ r.at \in Nat
          /\ Len(chain[r.feed]) \in Nat
        BY <1>0, <1>2, LenProperties DEF Chained, SomeMap
    <2>3. /\ x \in Seq(Bits)
          /\ \A k \in 1..Len(chain[r.feed]) : r.at < k /\ k <= target =>
                 \A n \in Of(chain[r.feed][k], r.me) : \E i \in 1..Len(x) : x[i].frame = n
        <3>1. r.me \in Nat /\ target <= Len(chain[r.feed]) /\ target \in Nat
            BY <1>0, <1>2
        <3>2. x \in Seq(Bits) /\ Gathers(x, chain[r.feed], r.me, r.at, target)
            BY ONLY <2>2, <3>1, ShareOfIs
        <3> HIDE DEF x
        <3> QED BY <3>2 DEF Gathers
    <2>4. Bytes(x) \in Nat
        BY <2>3, BytesNat
    <2> HIDE DEF x
    <2> DEFINE accounts == [o.accounts EXCEPT ![r.account].done = @ + Bytes(x)]
    <2>5. /\ accounts \in Seq([due : Int, done : Int, open : BOOLEAN])
          /\ Len(accounts) = Len(o.accounts)
          /\ \A a \in 1..Len(o.accounts) : accounts[a].open = o.accounts[a].open
        <3>1. accounts = WithDone(o.accounts, r.account, Bytes(x)) /\ Bytes(x) \in Int
            BY <2>4 DEF WithDone
        <3> HIDE DEF accounts
        <3> QED BY <1>0, <3>1, WithDoneIs DEF Accounts
    <2>6. o.batch \o x \in Seq(Bits)
        BY <1>0, <2>3, BatchCat
    <2>7. /\ s.batch = o.batch \o x /\ s.accounts = accounts
          /\ s.reading.feed = r.feed /\ s.reading.me = r.me /\ s.reading.at = target
          /\ s.queue = o.queue /\ s.sub = o.sub /\ s.holding = o.holding /\ s.held = o.held
          /\ s.closed = o.closed /\ s.at = o.at /\ s.head = o.head /\ s.ready = o.ready
        BY <2>1 DEF Outbounds
    <2>8. s \in Outbounds
        <3> HIDE DEF accounts
        <3>1. s = [o EXCEPT !.batch = o.batch \o x, !.reading = [r EXCEPT !.at = target],
                            !.accounts = accounts]
            BY <2>1 DEF accounts, Outbounds
        <3>2. [r EXCEPT !.at = target] \in [feed : SomeMap, me : Nat, at : Nat, account : Nat]
            BY <1>0
        <3> HIDE DEF r, s
        <3> QED BY <2>5, <2>6, <3>1, <3>2 DEF Outbounds
    <2> HIDE DEF s, accounts
    <2>9. /\ \A n : Batched(o, n) => Batched(s, n)
          /\ s.batch = <<>> => o.batch = <<>>
          /\ \A k \in 1..Len(chain[r.feed]) : r.at < k /\ k <= target =>
                 \A n \in Of(chain[r.feed][k], r.me) : Batched(s, n)
        <3>1. /\ s.batch = <<>> => o.batch = <<>>
              /\ \A n : (\E i \in 1..Len(o.batch) : o.batch[i].frame = n)
                            \/ (\E i \in 1..Len(x) : x[i].frame = n)
                         => \E i \in 1..Len(s.batch) : s.batch[i].frame = n
            <4>1. /\ o.batch \o x = <<>> => o.batch = <<>>
                  /\ \A n : (\E i \in 1..Len(o.batch) : o.batch[i].frame = n)
                                \/ (\E i \in 1..Len(x) : x[i].frame = n)
                             => \E i \in 1..Len(o.batch \o x) : (o.batch \o x)[i].frame = n
                BY ONLY <1>0, <2>3, BatchCat, Zenon
            <4>2. s.batch = o.batch \o x
                BY <2>7
            <4> QED BY ONLY <4>1, <4>2, Zenon
        <3>2. \A n : Batched(o, n) => Batched(s, n)
            BY <3>1 DEF Batched
        <3>3. ASSUME NEW k \in 1..Len(chain[r.feed]), r.at < k, k <= target,
                     NEW n \in Of(chain[r.feed][k], r.me)
              PROVE  Batched(s, n)
            BY <2>3, <3>1, <3>3 DEF Batched
        <3> QED BY <3>1, <3>2, <3>3
    <2>10. r.at <= s.reading.at /\ target <= s.reading.at /\ s.reading.at <= Len(chain[r.feed])
        BY <1>2, <2>2, <2>7
    <2>11. r.feed # Nobody
        BY <1>2
    <2> QED BY <2>5, <2>7, <2>8, <2>9, <2>10, <2>11 DEF s
<1> QED BY <1>1, <1>2

-----------------------------------------------------------------------------
(* Take: the item's frames, or what it lets be read, join the batch; the   *)
(* other readings stay.                                                   *)
LEMMA TookStamped ==
    ASSUME Chained, NEW o \in Outbounds, NEW w \in Outbounds, Shifted(o, w), w.sub = o.sub,
           Stamped(chain, o),
           0 \in Readings(w) => /\ \E r : Carries(o, w, 0, r)
                                /\ AfterAt(w, 0) <= Len(chain[FeedAt(w, 0)])
    PROVE  Stamped(chain, w)
<1>1. ASSUME NEW p \in Readings(w)
      PROVE  (\E r : Carries(o, w, p, r)) /\ AfterAt(w, p) <= Len(chain[FeedAt(w, p)])
    <2>1. CASE p = 0
        BY <2>1
    <2>2. CASE p # 0
        <3>1. Carries(o, w, p, p + 1) /\ AfterAt(w, p) = AfterAt(o, p + 1)
            BY <2>2, LaterReadings
        <3>2. p + 1 \in Readings(o) /\ FeedAt(w, p) = FeedAt(o, p + 1)
            BY <3>1 DEF Carries
        <3> QED BY <3>1, <3>2 DEF Stamped
    <2> QED BY <2>1, <2>2
<1> QED BY <1>1, CarriesStamped DEF Chained

LEMMA TookFollows ==
    ASSUME NEW o \in Outbounds, NEW w \in Outbounds, Shifted(o, w), w.sub = o.sub, Follows(o),
           \A r \in Readings(o) \cap {0, 1} :
              OwnUpTo(o, r, Len(o.queue)) => \E p : Carries(o, w, p, r)
    PROVE  Follows(w)
<1> SUFFICES ASSUME w.sub.feed # Nobody
             PROVE  \E p \in Readings(w) : OwnUpTo(w, p, Len(w.queue))
    BY DEF Follows
<1>1. PICK r \in Readings(o) : OwnUpTo(o, r, Len(o.queue))
    BY DEF Follows
<1>2. PICK p : Carries(o, w, p, r)
    <2>1. CASE r \in {0, 1}
        BY <1>1, <2>1
    <2>2. CASE r \notin {0, 1}
        <3>1. Carries(o, w, r - 1, r)
            BY <2>2, LaterReadings
        <3> QED BY <3>1
    <2> QED BY <2>1, <2>2
<1>3. Len(w.queue) \in Nat /\ Len(w.queue) <= Len(w.queue) /\ Len(o.queue) = Len(w.queue) + 1
    BY LenProperties DEF Outbounds, Shifted
<1>4. OwnUpTo(w, p, Len(w.queue)) <=> OwnUpTo(o, r, Len(w.queue) + 1)
    BY <1>2, <1>3, CarriesOwn
<1>5. p \in Readings(w)
    BY <1>2 DEF Carries
<1> QED BY <1>1, <1>3, <1>4, <1>5

LEMMA TookComing ==
    ASSUME Chained, NEW o \in Outbounds, NEW w \in Outbounds, Shifted(o, w),
           NEW n, Coming(chain, o, n), Batched(o, n) => Batched(w, n),
           o.queue[1].kind = "own" /\ n \in Range(o.queue[1].frames) => Batched(w, n),
           \A r \in Readings(o) \cap {0, 1} : \A k \in 1..Len(chain[FeedAt(o, r)]) :
              AfterAt(o, r) < k /\ Goes(o, r, k) /\ n \in Of(chain[FeedAt(o, r)][k], MeAt(o, r))
                => Batched(w, n) \/ \E p : Carries(o, w, p, r) /\ AfterAt(w, p) < k
    PROVE  Coming(chain, w, n)
<1>1. CASE Batched(o, n)
    BY <1>1 DEF Coming
<1>2. CASE Queued(o, n)
    BY <1>2, CarriesQueued DEF Coming
<1>3. CASE ToRead(chain, o, n)
    <2>0. PICK r \in Readings(o) : \E k \in 1..Len(chain[FeedAt(o, r)]) :
            AfterAt(o, r) < k /\ Goes(o, r, k) /\ n \in Of(chain[FeedAt(o, r)][k], MeAt(o, r))
        BY <1>3 DEF ToRead
    <2>1. PICK k \in 1..Len(chain[FeedAt(o, r)]) :
            AfterAt(o, r) < k /\ Goes(o, r, k) /\ n \in Of(chain[FeedAt(o, r)][k], MeAt(o, r))
        BY <2>0
    <2>2. Batched(w, n) \/ \E p : Carries(o, w, p, r) /\ AfterAt(w, p) < k
        <3>1. CASE r \in {0, 1}
            BY <2>1, <3>1
        <3>2. CASE r \notin {0, 1}
            <4>1. Carries(o, w, r - 1, r) /\ AfterAt(w, r - 1) = AfterAt(o, r)
                BY <3>2, LaterReadings
            <4> QED BY <2>1, <4>1
        <3> QED BY <3>1, <3>2
    <2>3. CASE Batched(w, n)
        BY <2>3 DEF Coming
    <2>4. ASSUME NEW p, Carries(o, w, p, r), AfterAt(w, p) < k
          PROVE  Coming(chain, w, n)
        BY <2>1, <2>4, CarriesToRead
    <2> QED BY <2>2, <2>3, <2>4
<1> QED BY <1>1, <1>2, <1>3 DEF Coming

LEMMA TailIs ==
    ASSUME NEW o \in Outbounds, o.queue # <<>>
    PROVE  LET t == [o EXCEPT !.queue = Tail(@)]
           IN  /\ t \in Outbounds /\ Shifted(o, t) /\ Head(o.queue) = o.queue[1]
               /\ Head(o.queue) \in Items /\ Len(o.queue) \in Nat /\ 1 \in 1..Len(o.queue)
               /\ t.closed = o.closed /\ t.sub = o.sub /\ t.holding = o.holding
               /\ t.held = o.held /\ t.accounts = o.accounts /\ t.at = o.at
               /\ t.head = o.head /\ t.reading = o.reading /\ t.batch = o.batch
               /\ t.ready = o.ready
<1>0. o.queue \in Seq(Items) /\ Len(o.queue) \in Nat /\ Len(o.queue) # 0
    BY LenProperties, EmptySeq DEF Outbounds
<1>1. /\ Tail(o.queue) \in Seq(Items) /\ Len(Tail(o.queue)) = Len(o.queue) - 1
      /\ \A i \in 1..Len(Tail(o.queue)) : Tail(o.queue)[i] = o.queue[i + 1]
      /\ Head(o.queue) = o.queue[1] /\ 1 \in 1..Len(o.queue)
    BY <1>0, HeadTailProperties
<1>2. Head(o.queue) \in Items
    BY <1>0, <1>1, ElementOfSeq
<1> DEFINE q == Tail(o.queue)
           t == [o EXCEPT !.queue = q]
<1>3. q \in Seq(Items) /\ Len(o.queue) = Len(q) + 1 /\ \A i \in 1..Len(q) : q[i] = o.queue[i + 1]
    BY <1>0, <1>1
<1> HIDE DEF q
<1>4. t.queue = q
    BY DEF Outbounds
<1>5. t \in Outbounds
    BY <1>3 DEF Outbounds
<1>6. Shifted(o, t)
    BY <1>3, <1>4 DEF Shifted
<1>7. /\ t.closed = o.closed /\ t.sub = o.sub /\ t.holding = o.holding
      /\ t.held = o.held /\ t.accounts = o.accounts /\ t.at = o.at
      /\ t.head = o.head /\ t.reading = o.reading /\ t.batch = o.batch
      /\ t.ready = o.ready
    OBVIOUS
<1> HIDE DEF t
<1> QED BY <1>0, <1>1, <1>2, <1>5, <1>6, <1>7 DEF t, q

Passed(o, w) ==
    /\ w \in Outbounds /\ w.closed = o.closed /\ w.sub = o.sub
    /\ w.holding = o.holding /\ w.held = o.held /\ Len(w.accounts) = Len(o.accounts)
    /\ \A a \in 1..Len(o.accounts) : w.accounts[a].open = o.accounts[a].open
    /\ Sound(chain, w) /\ (Woke(chain, waker, wakerAt, ahead, o) => Woke(chain, waker, wakerAt, ahead, w))
    /\ \A n : Coming(chain, o, n) => Coming(chain, w, n)

LEMMA TakenSub ==
    ASSUME Chained, NEW o \in Outbounds, o.queue # <<>>, Sound(chain, o),
           Head(o.queue).kind = "sub"
    PROVE  Passed(o, Taken([o EXCEPT !.queue = Tail(@)], Head(o.queue)))
<1> DEFINE t == [o EXCEPT !.queue = Tail(@)]
           x == Head(o.queue)
           w == Taken(t, x)
<1>1. /\ t \in Outbounds /\ Shifted(o, t) /\ x = o.queue[1] /\ x \in Items
      /\ Len(o.queue) \in Nat /\ 1 \in 1..Len(o.queue)
      /\ t.closed = o.closed /\ t.sub = o.sub /\ t.holding = o.holding
      /\ t.held = o.held /\ t.accounts = o.accounts /\ t.batch = o.batch
    BY TailIs
<1>2. x \in SubItems
    BY <1>1 DEF Items, OwnItems, UnsubItems
<1> HIDE DEF t, x
<1>3. w = [t EXCEPT !.reading = [feed |-> x.feed, me |-> x.me, at |-> x.after, account |-> x.account],
                    !.at = "look", !.head = 0]
    BY DEF Taken, x
<1>4. /\ w.closed = t.closed /\ w.sub = t.sub /\ w.holding = t.holding /\ w.held = t.held
      /\ w.accounts = t.accounts /\ w.batch = t.batch /\ w.queue = t.queue
      /\ w.at = "look" /\ w.head = 0
      /\ w.reading = [feed |-> x.feed, me |-> x.me, at |-> x.after, account |-> x.account]
    BY <1>1, <1>3 DEF Outbounds
<1>5. w \in Outbounds
    <2>1. [feed |-> x.feed, me |-> x.me, at |-> x.after, account |-> x.account]
            \in [feed : SomeMap, me : Nat, at : Nat, account : Nat]
        BY <1>2, FeedAssumption DEF SubItems, SomeMap
    <2>2. PICK r \in [feed : SomeMap, me : Nat, at : Nat, account : Nat] :
                r = [feed |-> x.feed, me |-> x.me, at |-> x.after, account |-> x.account]
        BY <2>1
    <2>3. w = [t EXCEPT !.reading = r, !.at = "look", !.head = 0]
        BY <1>3, <2>2
    <2> HIDE DEF w
    <2> QED BY <1>1, <2>3 DEF Outbounds
<1> HIDE DEF w
<1>6. Shifted(o, w)
    BY <1>1, <1>4 DEF Shifted
<1>7. /\ 1 \in Readings(o) /\ Carries(o, w, 0, 1) /\ AfterAt(w, 0) = AfterAt(o, 1)
      /\ FeedAt(w, 0) = FeedAt(o, 1)
    <2>1. x.feed # Nobody
        BY <1>2, FeedAssumption DEF SubItems
    <2>2. 1 \in Readings(o)
        BY <1>1 DEF Readings, x
    <2>3. 0 \in Readings(w)
        <3>1. 0 \in 0..Len(w.queue)
            BY <1>5, LenProperties DEF Outbounds
        <3> QED BY <1>4, <2>1, <3>1 DEF Readings
    <2> QED BY <1>1, <1>4, <2>2, <2>3 DEF Carries, FeedAt, MeAt, AfterAt
<1>8. Stamped(chain, w)
    <2>1. AfterAt(o, 1) <= Len(chain[FeedAt(o, 1)])
        BY <1>7 DEF Sound, Stamped
    <2> QED BY <1>1, <1>4, <1>5, <1>6, <1>7, <2>1, TookStamped DEF Sound
<1>9. \A r \in Readings(o) \cap {0, 1} : r = 0 =>
        ~OwnUpTo(o, r, Len(o.queue)) /\ \A k : ~Goes(o, r, k)
    <2>1. ~OwnUpTo(o, 0, Len(o.queue))
        BY <1>1 DEF OwnUpTo, x
    <2>2. OwnUpTo(o, 0, 1 - 1)
        BY DEF OwnUpTo
    <2>3. 1 \in (0 + 1)..Len(o.queue)
        BY <1>1
    <2>4. \A k : ~Goes(o, 0, k)
        BY <1>1, <2>2, <2>3 DEF Goes, x
    <2> QED BY <2>1, <2>4
<1>10. Follows(w)
    BY <1>1, <1>4, <1>5, <1>6, <1>7, <1>9, TookFollows DEF Sound
<1>11. ASSUME NEW n, Coming(chain, o, n)
       PROVE  Coming(chain, w, n)
    <2>1. Batched(o, n) => Batched(w, n)
        BY <1>1, <1>4 DEF Batched
    <2>2. ~(o.queue[1].kind = "own")
        BY <1>1 DEF x
    <2>3. ASSUME NEW r \in Readings(o) \cap {0, 1}, NEW k \in 1..Len(chain[FeedAt(o, r)]),
                 AfterAt(o, r) < k, Goes(o, r, k)
          PROVE  \E p : Carries(o, w, p, r) /\ AfterAt(w, p) < k
        <3>1. r = 1
            BY <1>9, <2>3
        <3> QED BY <1>7, <2>3, <3>1
    <2> QED BY <1>5, <1>6, <1>11, <2>1, <2>2, <2>3, TookComing
<1>12. Sound(chain, w)
    <2>1. w.reading.feed # Nobody => w.head <= Len(chain[w.reading.feed])
        <3>1. x.feed \in Maps
            BY <1>2 DEF SubItems
        <3>2. Len(chain[x.feed]) \in Nat
            BY <3>1, LenProperties DEF Chained
        <3> QED BY <1>4, <3>2
    <2>2. ~w.holding => w.held = <<>>
        BY <1>1, <1>4 DEF Sound
    <2> QED BY <1>4, <1>8, <1>10, <2>1, <2>2 DEF Sound
<1>13. Woke(chain, waker, wakerAt, ahead, w)
    BY <1>4 DEF Woke
<1>14. Passed(o, w)
    BY <1>1, <1>4, <1>5, <1>11, <1>12, <1>13 DEF Passed
<1> QED BY <1>14 DEF w, x, t

LEMMA TakenUnsub ==
    ASSUME Chained, NEW o \in Outbounds, o.queue # <<>>, Sound(chain, o),
           Head(o.queue).kind = "unsub"
    PROVE  Passed(o, Taken([o EXCEPT !.queue = Tail(@)], Head(o.queue)))
<1> DEFINE t == [o EXCEPT !.queue = Tail(@)]
           x == Head(o.queue)
           s == ReadTo(t, x.until)
           w == Taken(t, x)
<1>1. /\ t \in Outbounds /\ Shifted(o, t) /\ x = o.queue[1] /\ x \in Items
      /\ Len(o.queue) \in Nat /\ 1 \in 1..Len(o.queue)
      /\ t.closed = o.closed /\ t.sub = o.sub /\ t.holding = o.holding
      /\ t.held = o.held /\ t.accounts = o.accounts /\ t.batch = o.batch
      /\ t.reading = o.reading
    BY TailIs
<1>2. x.until \in Nat
    BY <1>1 DEF Items, OwnItems, SubItems, UnsubItems, x
<1>a. /\ OwnUpTo(o, 0, 1 - 1) /\ 1 \in (0 + 1)..Len(o.queue) /\ ~OwnUpTo(o, 0, Len(o.queue))
      /\ o.queue[1].kind = "unsub"
    <2>1. OwnUpTo(o, 0, 1 - 1)
        BY DEF OwnUpTo
    <2>2. o.queue[1].kind = "unsub" /\ 1 \in (0 + 1)..Len(o.queue)
        BY <1>1
    <2> QED BY <2>1, <2>2 DEF OwnUpTo
<1>b. o.reading.feed # Nobody => /\ 0 \in Readings(o) /\ x.until <= Len(chain[o.reading.feed])
                                 /\ o.reading.at <= Len(chain[o.reading.feed])
    <2>1. 0 \in 0..Len(o.queue)
        BY <1>1
    <2>2. o.reading.feed # Nobody => 0 \in Readings(o)
        BY <2>1 DEF Readings
    <2>3. FeedAt(o, 0) = o.reading.feed /\ AfterAt(o, 0) = o.reading.at
        BY DEF FeedAt, AfterAt
    <2> QED BY <1>1, <1>a, <2>2, <2>3 DEF Sound, Stamped
<1> HIDE DEF t, x
<1>3. w = [s EXCEPT !.reading = NoReading, !.at = "look", !.head = 0]
    BY DEF Taken, x
<1>4. /\ s \in Outbounds
      /\ s.queue = t.queue /\ s.sub = t.sub /\ s.holding = t.holding /\ s.held = t.held
      /\ s.closed = t.closed /\ Len(s.accounts) = Len(t.accounts)
      /\ \A a \in 1..Len(t.accounts) : s.accounts[a].open = t.accounts[a].open
      /\ \A n : Batched(t, n) => Batched(s, n)
      /\ t.reading.feed # Nobody => \A k \in 1..Len(chain[t.reading.feed]) :
                t.reading.at < k /\ k <= x.until =>
                     \A n \in Of(chain[t.reading.feed][k], t.reading.me) : Batched(s, n)
    <2>1. ReadBy(t, x.until, s)
        BY <1>1, <1>2, <1>b, ReadToIs
    <2> HIDE DEF s
    <2> QED BY <2>1 DEF ReadBy
<1> HIDE DEF s
<1>5. /\ w.closed = s.closed /\ w.sub = s.sub /\ w.holding = s.holding /\ w.held = s.held
      /\ w.accounts = s.accounts /\ w.batch = s.batch /\ w.queue = s.queue
      /\ w.at = "look" /\ w.head = 0 /\ w.reading = NoReading
    BY <1>3, <1>4 DEF Outbounds
<1>6. w \in Outbounds
    <2>1. NoReading \in [feed : SomeMap, me : Nat, at : Nat, account : Nat]
        BY DEF NoReading, SomeMap
    <2> HIDE DEF w
    <2> QED BY <1>3, <1>4, <2>1 DEF Outbounds
<1> HIDE DEF w
<1>7. Shifted(o, w)
    BY <1>1, <1>4, <1>5 DEF Shifted
<1>8. w.reading.feed = Nobody /\ 0 \notin Readings(w)
    BY <1>5 DEF NoReading, Readings
<1>9. Stamped(chain, w)
    BY <1>1, <1>4, <1>5, <1>6, <1>7, <1>8, TookStamped DEF Sound
<1>10. 1 \notin Readings(o)
    BY <1>a DEF Readings
<1>11. Follows(w)
    BY <1>1, <1>4, <1>5, <1>6, <1>7, <1>10, <1>a, TookFollows DEF Sound
<1>12. ASSUME NEW n, Coming(chain, o, n)
       PROVE  Coming(chain, w, n)
    <2>1. Batched(o, n) => Batched(w, n)
        BY <1>1, <1>4, <1>5 DEF Batched
    <2>3. ASSUME NEW r \in Readings(o) \cap {0, 1}, NEW k \in 1..Len(chain[FeedAt(o, r)]),
                 AfterAt(o, r) < k, Goes(o, r, k), n \in Of(chain[FeedAt(o, r)][k], MeAt(o, r))
          PROVE  Batched(w, n)
        <3>1. r = 0
            BY <1>10, <2>3
        <3>2. k <= x.until
            BY <1>1, <1>a, <2>3, <3>1 DEF Goes
        <3>3. o.reading.feed # Nobody
            BY <3>1 DEF Readings
        <3>4. FeedAt(o, r) = o.reading.feed /\ AfterAt(o, r) = o.reading.at /\ MeAt(o, r) = o.reading.me
            BY <3>1 DEF FeedAt, AfterAt, MeAt
        <3>5. Batched(s, n)
            BY <1>1, <1>4, <2>3, <3>2, <3>3, <3>4
        <3> QED BY <1>5, <3>5 DEF Batched
    <2> QED BY <1>6, <1>7, <1>a, <1>12, <2>1, <2>3, TookComing
<1>13. Sound(chain, w)
    <2>1. ~w.holding => w.held = <<>>
        BY <1>1, <1>4, <1>5 DEF Sound
    <2> QED BY <1>5, <1>8, <1>9, <1>11, <2>1 DEF Sound
<1>14. Woke(chain, waker, wakerAt, ahead, w)
    BY <1>5 DEF Woke
<1>15. Passed(o, w)
    BY <1>1, <1>4, <1>5, <1>6, <1>12, <1>13, <1>14 DEF Passed
<1> QED BY <1>15 DEF w, x, t

LEMMA TakenOwn ==
    ASSUME Chained, NEW o \in Outbounds, o.queue # <<>>, Sound(chain, o), o.at = "drain",
           Head(o.queue).kind = "own"
    PROVE  Passed(o, Taken([o EXCEPT !.queue = Tail(@)], Head(o.queue)))
<1> DEFINE t == [o EXCEPT !.queue = Tail(@)]
           x == Head(o.queue)
           s == ReadTo(t, x.stamp)
           own == [i \in 1..Len(x.frames) |-> [frame |-> x.frames[i], own |-> TRUE]]
           w == Taken(t, x)
<1>1. /\ t \in Outbounds /\ Shifted(o, t) /\ x = o.queue[1] /\ x \in Items
      /\ Len(o.queue) \in Nat /\ 1 \in 1..Len(o.queue)
      /\ t.closed = o.closed /\ t.sub = o.sub /\ t.holding = o.holding
      /\ t.held = o.held /\ t.accounts = o.accounts /\ t.batch = o.batch
      /\ t.reading = o.reading /\ t.at = o.at /\ t.head = o.head /\ t.ready = o.ready
    BY TailIs
<1>2. x.stamp \in Nat /\ x.frames \in Seq(Nat)
    BY <1>1 DEF Items, OwnItems, SubItems, UnsubItems, x
<1>a. /\ OwnUpTo(o, 0, 1 - 1) /\ 1 \in (0 + 1)..Len(o.queue)
      /\ o.queue[1].kind = "own"
    <2>1. OwnUpTo(o, 0, 1 - 1)
        BY DEF OwnUpTo
    <2>2. o.queue[1].kind = "own" /\ 1 \in (0 + 1)..Len(o.queue)
        BY <1>1
    <2> QED BY <2>1, <2>2
<1>b. o.reading.feed # Nobody => /\ 0 \in Readings(o) /\ x.stamp <= Len(chain[o.reading.feed])
                                 /\ o.reading.at <= Len(chain[o.reading.feed])
    <2>1. 0 \in 0..Len(o.queue)
        BY <1>1
    <2>2. o.reading.feed # Nobody => 0 \in Readings(o)
        BY <2>1 DEF Readings
    <2>3. FeedAt(o, 0) = o.reading.feed /\ AfterAt(o, 0) = o.reading.at
        BY DEF FeedAt, AfterAt
    <2> QED BY <1>1, <1>a, <2>2, <2>3 DEF Sound, Stamped
<1>c. own \in Seq(Bits) /\ \A n \in Range(x.frames) : \E i \in 1..Len(own) : own[i].frame = n
    <2>1. Len(x.frames) \in Nat /\ \A i \in 1..Len(x.frames) : x.frames[i] \in Nat
        BY <1>2, LenProperties, ElementOfSeq
    <2>2. PICK N \in Nat : N = Len(x.frames)
        BY <2>1
    <2>3. own \in [1..N -> Bits]
        BY <2>1, <2>2 DEF Bits
    <2>4. own \in Seq(Bits) /\ Len(own) = N
        <3> HIDE DEF own
        <3> QED BY <2>3
    <2>5. ASSUME NEW n \in Range(x.frames)
          PROVE  \E i \in 1..Len(own) : own[i].frame = n
        <3>1. PICK i \in 1..Len(x.frames) : n = x.frames[i]
            BY <1>2, RangeIs
        <3>2. own[i].frame = n
            BY <3>1
        <3>3. i \in 1..Len(own)
            BY <2>2, <2>4
        <3> QED BY <3>2, <3>3
    <2> QED BY <2>4, <2>5
<1> HIDE DEF t, x
<1>3. w = [s EXCEPT !.batch = @ \o own]
    BY <1>a, <1>1 DEF Taken, x
<1>4. ReadBy(t, x.stamp, s)
    BY <1>1, <1>2, <1>b, ReadToIs
<1> HIDE DEF s
<1>5. /\ s \in Outbounds
      /\ s.queue = t.queue /\ s.sub = t.sub /\ s.holding = t.holding /\ s.held = t.held
      /\ s.closed = t.closed /\ s.at = t.at /\ s.head = t.head /\ s.ready = t.ready
      /\ Len(s.accounts) = Len(t.accounts)
      /\ \A a \in 1..Len(t.accounts) : s.accounts[a].open = t.accounts[a].open
      /\ s.reading.feed = t.reading.feed /\ s.reading.me = t.reading.me
      /\ t.reading.at <= s.reading.at
      /\ \A n : Batched(t, n) => Batched(s, n)
    BY <1>4 DEF ReadBy
<1> HIDE DEF own
<1>6. /\ w.closed = s.closed /\ w.sub = s.sub /\ w.holding = s.holding /\ w.held = s.held
      /\ w.accounts = s.accounts /\ w.queue = s.queue /\ w.ready = s.ready
      /\ w.at = s.at /\ w.head = s.head /\ w.reading = s.reading /\ w.batch = s.batch \o own
    BY <1>3, <1>5 DEF Outbounds
<1>7. /\ \A n : Batched(s, n) => Batched(w, n)
      /\ \A n \in Range(x.frames) : Batched(w, n)
      /\ s.batch \o own \in Seq(Bits)
    <2>1. s.batch \in Seq(Bits)
        BY <1>5 DEF Outbounds
    <2>2. /\ s.batch \o own \in Seq(Bits)
          /\ \A n : (\E i \in 1..Len(s.batch) : s.batch[i].frame = n)
                        \/ (\E i \in 1..Len(own) : own[i].frame = n)
                    => \E i \in 1..Len(s.batch \o own) : (s.batch \o own)[i].frame = n
        BY ONLY <2>1, <1>c, BatchCat, Zenon
    <2>3. \A n : (\E i \in 1..Len(s.batch) : s.batch[i].frame = n)
                        \/ (\E i \in 1..Len(own) : own[i].frame = n)
                    => Batched(w, n)
        BY ONLY <2>2, <1>6, Zenon DEF Batched
    <2> HIDE DEF w
    <2> QED BY <2>2, <2>3, <1>c DEF Batched
<1>8. w \in Outbounds
    <2>1. PICK b \in Seq(Bits) : b = s.batch \o own
        BY <1>7
    <2>2. w = [s EXCEPT !.batch = b]
        BY <1>3, <2>1
    <2> HIDE DEF w
    <2> QED BY <1>5, <2>2 DEF Outbounds
<1> HIDE DEF w
<1>9. Shifted(o, w)
    BY <1>1, <1>5, <1>6 DEF Shifted
<1>10. Len(w.queue) \in Nat /\ 0 \in 0..Len(w.queue)
    BY <1>8, LenProperties DEF Outbounds
<1>11. /\ FeedAt(w, 0) = FeedAt(o, 0) /\ MeAt(w, 0) = MeAt(o, 0) /\ AfterAt(w, 0) = s.reading.at
       /\ 0 \in Readings(w) <=> w.reading.feed # Nobody
       /\ 0 \in Readings(o) <=> o.reading.feed # Nobody
       /\ 0 \in Readings(o) => Carries(o, w, 0, 0)
       /\ w.reading.feed = o.reading.feed /\ w.reading.me = o.reading.me
       /\ FeedAt(o, 0) = o.reading.feed /\ AfterAt(o, 0) = o.reading.at /\ MeAt(o, 0) = o.reading.me
    <2>1. 0 \in 0..Len(o.queue)
        BY <1>1
    <2> QED BY <1>1, <1>5, <1>6, <1>10, <1>a, <2>1 DEF FeedAt, MeAt, AfterAt, Readings, Carries
<1>12. o.reading.feed # Nobody => s.reading.at <= Len(chain[o.reading.feed])
    BY <1>1, <1>4 DEF ReadBy
<1>13. Stamped(chain, w)
    BY <1>1, <1>5, <1>6, <1>8, <1>9, <1>11, <1>12, TookStamped DEF Sound
<1>14. 1 \notin Readings(o)
    BY <1>a DEF Readings
<1>15. Follows(w)
    <2>1. \A r \in Readings(o) \cap {0, 1} : Carries(o, w, 0, r)
        BY <1>11, <1>14
    <2>2. w.sub = o.sub /\ Follows(o)
        BY <1>1, <1>5, <1>6 DEF Sound
    <2> QED BY <1>8, <1>9, <2>1, <2>2, TookFollows
<1>16. ASSUME NEW n, Coming(chain, o, n)
       PROVE  Coming(chain, w, n)
    <2>1. Batched(o, n) => Batched(w, n)
        <3>1. Batched(o, n) => Batched(t, n)
            BY <1>1 DEF Batched
        <3> QED BY <1>5, <1>7, <3>1
    <2>2. n \in Range(o.queue[1].frames) => Batched(w, n)
        BY <1>1, <1>7 DEF x
    <2>3. ASSUME NEW r \in Readings(o) \cap {0, 1}, NEW k \in 1..Len(chain[FeedAt(o, r)]),
                 AfterAt(o, r) < k, Goes(o, r, k), n \in Of(chain[FeedAt(o, r)][k], MeAt(o, r))
          PROVE  Batched(w, n) \/ \E p : Carries(o, w, p, r) /\ AfterAt(w, p) < k
        <3>1. r = 0
            BY <1>14, <2>3
        <3>2. o.reading.feed # Nobody
            BY <1>11, <3>1
        <3>3. /\ k \in 1..Len(chain[o.reading.feed]) /\ o.reading.at < k
              /\ n \in Of(chain[o.reading.feed][k], o.reading.me)
            BY <1>11, <2>3, <3>1
        <3>4. CASE k <= x.stamp
            <4>1. Batched(s, n)
                BY <1>1, <1>4, <3>2, <3>3, <3>4 DEF ReadBy
            <4> QED BY <1>7, <4>1
        <3>5. CASE ~(k <= x.stamp)
            <4>1. s.reading.at = o.reading.at \/ s.reading.at = x.stamp
                BY <1>1, <1>4, <3>2 DEF ReadBy
            <4>2. k \in Nat
                <5>1. o.reading.feed \in Maps
                    BY <3>2 DEF Outbounds, SomeMap
                <5> QED BY <3>3, <5>1, LenProperties DEF Chained
            <4>3. s.reading.at < k
                BY <1>2, <3>3, <3>5, <4>1, <4>2
            <4> QED BY <1>11, <3>1, <4>3, <2>3
        <3> QED BY <3>4, <3>5
    <2> QED BY <1>8, <1>9, <1>16, <2>1, <2>2, <2>3, TookComing
<1>17. Sound(chain, w)
    <2>1. ~w.holding => w.held = <<>>
        BY <1>1, <1>5, <1>6 DEF Sound
    <2>2. w.reading.feed # Nobody => w.head <= Len(chain[w.reading.feed])
        BY <1>1, <1>5, <1>6, <1>11 DEF Sound
    <2>3. w.at # "wait"
        BY <1>1, <1>5, <1>6
    <2> QED BY <1>13, <1>15, <2>1, <2>2, <2>3 DEF Sound
<1>18. Woke(chain, waker, wakerAt, ahead, o) => Woke(chain, waker, wakerAt, ahead, w)
    <2> SUFFICES ASSUME Woke(chain, waker, wakerAt, ahead, o), w.reading.feed # Nobody, OwnUpTo(w, 0, Len(w.queue)),
                        NEW k \in 1..Len(chain[w.reading.feed]), w.head < k, w.reading.at < k,
                        k <= Walked(waker, wakerAt, w.reading.feed), k \notin ahead[w.reading.feed],
                        Of(chain[w.reading.feed][k], w.reading.me) # {}
                 PROVE  w.ready
        BY DEF Woke
    <2>1. OwnUpTo(o, 0, Len(o.queue))
        <3>1. Len(w.queue) <= Len(w.queue) /\ Len(o.queue) = Len(w.queue) + 1
            BY <1>9, <1>10 DEF Shifted
        <3>2. Carries(o, w, 0, 0)
            BY <1>11
        <3>3. OwnUpTo(w, 0, Len(w.queue)) <=> OwnUpTo(o, 0, Len(w.queue) + 1)
            BY <1>8, <1>9, <1>10, <3>1, <3>2, CarriesOwn
        <3> QED BY <3>1, <3>3
    <2>2. o.reading.at < k
        <3>1. o.reading.at \in Nat /\ s.reading.at \in Nat
            BY <1>5 DEF Outbounds
        <3>2. k \in Nat
            <4>1. w.reading.feed \in Maps
                BY <1>8 DEF Outbounds, SomeMap
            <4> QED BY <4>1, LenProperties DEF Chained
        <3>3. o.reading.at <= s.reading.at /\ s.reading.at < k
            BY <1>1, <1>5, <1>6
        <3> QED BY <3>1, <3>2, <3>3
    <2>3. o.at \in {"drain", "wait"} /\ o.head < k
        BY <1>1, <1>5, <1>6
    <2>4. o.ready
        BY <1>11, <2>1, <2>2, <2>3 DEF Woke
    <2> QED BY <1>1, <1>5, <1>6, <2>4
<1>19. Passed(o, w)
    BY <1>1, <1>5, <1>6, <1>8, <1>16, <1>17, <1>18 DEF Passed
<1> QED BY <1>19 DEF w, x, t

LEMMA TakenIs ==
    ASSUME Chained, NEW o \in Outbounds, o.queue # <<>>, Sound(chain, o), o.at = "drain"
    PROVE  Passed(o, Taken([o EXCEPT !.queue = Tail(@)], Head(o.queue)))
<1>1. Head(o.queue).kind \in {"own", "sub", "unsub"}
    BY TailIs DEF Items, OwnItems, SubItems, UnsubItems
<1> QED BY <1>1, TakenOwn, TakenSub, TakenUnsub

-----------------------------------------------------------------------------
(* The steps of the model's own helpers on a client.                      *)
Same(o, w) ==
    /\ w \in Outbounds /\ w.closed = o.closed /\ w.queue = o.queue /\ w.sub = o.sub
    /\ w.holding = o.holding /\ w.held = o.held /\ w.accounts = o.accounts
    /\ w.at = o.at /\ w.head = o.head /\ w.reading = o.reading /\ w.batch = o.batch
    /\ w.ready = o.ready

LEMMA OpenedIs == Opened \in Outbounds
<1>1. /\ <<>> \in Seq(Items) /\ <<>> \in Seq(Nat) /\ <<>> \in Seq(Bits)
      /\ <<>> \in Seq([due : Int, done : Int, open : BOOLEAN])
    BY EmptySeq
<1>2. /\ NoSub \in [feed : SomeMap, me : Nat, account : Nat]
      /\ NoReading \in [feed : SomeMap, me : Nat, at : Nat, account : Nat]
    BY DEF NoSub, NoReading, SomeMap
<1> QED BY <1>1, <1>2 DEF Outbounds, Opened

LEMMA ClosedIs ==
    ASSUME NEW o
    PROVE  Closed(o) \in Outbounds /\ Closed(o).closed
BY OpenedIs DEF Closed, Outbounds

LEMMA ChargedIs ==
    ASSUME NEW o \in Outbounds
    PROVE  Charged(o) \in Outbounds /\ (Charged(o).closed \/ Same(o, Charged(o)))
<1>1. CASE InBudget(o)
    <2>1. Charged(o) = [o EXCEPT !.queued = @ + 1]
        BY <1>1 DEF Charged
    <2>2. o.queued + 1 \in Int
        BY DEF Outbounds
    <2> QED BY <2>1, <2>2 DEF Outbounds, Same
<1>2. CASE ~InBudget(o)
    BY <1>2, ClosedIs DEF Charged
<1> QED BY <1>1, <1>2

LEMMA KeptIs ==
    ASSUME NEW o \in Outbounds, NEW n \in Nat
    PROVE  /\ Kept(o, n) \in Outbounds
           /\ \/ Kept(o, n).closed
              \/ /\ Kept(o, n).closed = o.closed /\ Kept(o, n).holding = o.holding
                 /\ Kept(o, n).held = Append(o.held, n)
                 /\ Kept(o, n).queue = o.queue /\ Kept(o, n).sub = o.sub
                 /\ Kept(o, n).accounts = o.accounts /\ Kept(o, n).at = o.at
                 /\ Kept(o, n).head = o.head /\ Kept(o, n).reading = o.reading
                 /\ Kept(o, n).batch = o.batch /\ Kept(o, n).ready = o.ready
<1>1. CASE InBudget(o)
    <2>1. Kept(o, n) = [o EXCEPT !.queued = @ + 1, !.held = Append(@, n)]
        BY <1>1 DEF Kept
    <2>2. o.queued + 1 \in Int /\ Append(o.held, n) \in Seq(Nat)
        BY AppendProperties DEF Outbounds
    <2>3. PICK h \in Seq(Nat) : h = Append(o.held, n)
        BY <2>2
    <2>4. PICK b \in Int : b = o.queued + 1
        BY <2>2
    <2>5. PICK w : w = [o EXCEPT !.queued = b, !.held = h]
        OBVIOUS
    <2>6. /\ w \in Outbounds /\ w.held = h
          /\ w.closed = o.closed /\ w.queue = o.queue /\ w.sub = o.sub
          /\ w.holding = o.holding /\ w.accounts = o.accounts /\ w.at = o.at
          /\ w.head = o.head /\ w.reading = o.reading
          /\ w.batch = o.batch /\ w.ready = o.ready
        BY <2>5 DEF Outbounds
    <2>7. Kept(o, n) = w
        BY <2>1, <2>3, <2>4, <2>5
    <2> QED BY <1>1, <2>3, <2>6, <2>7
<1>2. CASE ~InBudget(o)
    BY <1>2, ClosedIs DEF Kept
<1> QED BY <1>1, <1>2

(* Frames of its own put in a client's queue.                             *)
Put(o, w) ==
    /\ w \in Outbounds /\ Grown(chain, o, w)
    /\ w.closed = o.closed /\ w.holding = o.holding /\ w.held = o.held

LEMMA StampIs ==
    ASSUME Chained, NEW o \in Outbounds
    PROVE  Stamp(o) \in Nat /\ (o.sub.feed # Nobody => Stamp(o) <= Len(chain[o.sub.feed]))
<1>1. CASE o.sub.feed = Nobody
    BY <1>1 DEF Stamp
<1>2. CASE o.sub.feed # Nobody
    <2>1. o.sub.feed \in Maps
        BY <1>2 DEF Outbounds, SomeMap
    <2>2. Len(chain[o.sub.feed]) \in Nat
        BY <2>1, LenProperties DEF Chained
    <2> QED BY <1>2, <2>2 DEF Stamp, published
<1> QED BY <1>1, <1>2

LEMMA PutIs ==
    ASSUME Chained, NEW o \in Outbounds, NEW ext \in Seq(OwnItems),
           \A i \in 1..Len(ext) : ext[i].stamp = Stamp(o),
           NEW w, w = [o EXCEPT !.queue = @ \o ext]
    PROVE  /\ Put(o, w)
           /\ \A i \in 1..Len(ext) : \A n \in Range(ext[i].frames) : Queued(w, n)
<1>0. /\ o.queue \in Seq(Items) /\ Len(o.queue) \in Nat /\ Len(ext) \in Nat
      /\ \A i \in 1..Len(ext) : ext[i] \in OwnItems
    BY LenProperties, ElementOfSeq DEF Outbounds
<1>1. ext \in Seq(Items)
    <2>1. \A i \in 1..Len(ext) : ext[i] \in Items
        BY <1>0 DEF Items
    <2>2. ext \in [1..Len(ext) -> Items]
        BY <2>1, LenProperties
    <2>3. PICK N \in Nat : N = Len(ext)
        BY <1>0
    <2> QED BY <2>2, <2>3
<1>2. PICK q \in Seq(Items) : q = Cat(o.queue, ext)
    BY <1>0, <1>1, CatType
<1>3. /\ Len(q) = Len(o.queue) + Len(ext)
      /\ \A i \in 1..Len(o.queue) : q[i] = o.queue[i]
      /\ \A i \in 1..Len(ext) : q[Len(o.queue) + i] = ext[i]
    <2>1. PICK s \in Seq(Items) : s = o.queue
        BY <1>0
    <2>2. Len(Cat(s, ext)) = Len(s) + Len(ext)
        BY <1>1, CatLen
    <2>3. ASSUME NEW i \in 1..Len(s)
          PROVE  Cat(s, ext)[i] = s[i]
        BY <1>1, CatLeft
    <2>4. ASSUME NEW i \in 1..Len(ext)
          PROVE  Cat(s, ext)[Len(s) + i] = ext[i]
        BY <1>1, CatRight
    <2> QED BY ONLY <1>2, <2>1, <2>2, <2>3, <2>4
<1>4. w = [o EXCEPT !.queue = q]
    BY <1>2 DEF Cat
<1>5. /\ w \in Outbounds /\ w.queue = q
      /\ w.sub = o.sub /\ w.reading = o.reading /\ w.batch = o.batch
      /\ w.at = o.at /\ w.head = o.head /\ w.ready = o.ready /\ w.accounts = o.accounts
      /\ w.closed = o.closed /\ w.holding = o.holding /\ w.held = o.held
    BY <1>4 DEF Outbounds
<1>6. ASSUME NEW i \in (Len(o.queue) + 1)..Len(q)
      PROVE  q[i].kind = "own" /\ (o.sub.feed # Nobody => q[i].stamp <= Len(chain[o.sub.feed]))
    <2>1. PICK j \in 1..Len(ext) : i = Len(o.queue) + j
        <3>1. i - Len(o.queue) \in 1..Len(ext) /\ i = Len(o.queue) + (i - Len(o.queue))
            BY <1>0, <1>3
        <3> QED BY <3>1
    <2>2. q[i] = ext[j]
        BY <1>3, <2>1
    <2>3. ext[j].kind = "own"
        BY <1>0 DEF OwnItems
    <2> QED BY <2>2, <2>3, StampIs
<1>7. Len(o.queue) <= Len(q)
    BY <1>0, <1>3
<1>8. Grown(chain, o, w)
    <2>1. /\ Len(o.queue) <= Len(w.queue)
          /\ \A i \in 1..Len(o.queue) : w.queue[i] = o.queue[i]
          /\ \A i \in (Len(o.queue) + 1)..Len(w.queue) :
                w.queue[i].kind = "own" /\ (o.sub.feed # Nobody => w.queue[i].stamp <= Len(chain[o.sub.feed]))
        BY <1>3, <1>5, <1>6, <1>7
    <2> QED BY <1>5, <2>1 DEF Grown
<1>9. ASSUME NEW i \in 1..Len(ext), NEW n \in Range(ext[i].frames)
      PROVE  Queued(w, n)
    <2>1. Len(o.queue) + i \in 1..Len(q)
        BY <1>0, <1>3
    <2>2. q[Len(o.queue) + i] = ext[i] /\ ext[i].kind = "own"
        BY <1>0, <1>3 DEF OwnItems
    <2> QED BY <1>5, <2>1, <2>2 DEF Queued
<1> QED BY <1>5, <1>8, <1>9 DEF Put

LEMMA SamePut ==
    ASSUME NEW o \in Outbounds, NEW w, Same(o, w)
    PROVE  Put(o, w)
<1>1. Len(o.queue) \in Nat
    BY LenProperties DEF Outbounds
<1>2. (Len(o.queue) + 1)..Len(o.queue) = {} /\ Len(o.queue) <= Len(o.queue)
    BY <1>1
<1> QED BY <1>2 DEF Same, Put, Grown

LEMMA AppendIs ==
    ASSUME NEW S, NEW s \in Seq(S), NEW e \in S
    PROVE  Append(s, e) = s \o <<e>>
OBVIOUS

LEMMA EnqueuedIs ==
    ASSUME Chained, NEW o \in Outbounds, ~o.closed, NEW ns \in Seq(Nat)
    PROVE  Put(o, Enqueued(o, ns)) /\ \A n \in Range(ns) : Queued(Enqueued(o, ns), n)
<1> DEFINE ext == [i \in 1..Len(ns) |-> Own(<<ns[i]>>, Stamp(o))]
<1>0. Len(ns) \in Nat /\ \A i \in 1..Len(ns) : ns[i] \in Nat
    BY LenProperties, ElementOfSeq
<1>1. PICK N \in Nat : N = Len(ns)
    BY <1>0
<1>2. ASSUME NEW i \in 1..N
      PROVE  /\ ext[i] \in OwnItems /\ ext[i].stamp = Stamp(o) /\ ext[i].frames = <<ns[i]>>
    <2>1. <<ns[i]>> \in Seq(Nat)
        BY <1>0, <1>1
    <2>2. ext[i] = [kind |-> "own", frames |-> <<ns[i]>>, stamp |-> Stamp(o)]
        BY <1>1 DEF Own
    <2>3. PICK s \in Seq(Nat) : s = <<ns[i]>>
        BY <2>1
    <2> HIDE DEF ext
    <2>4. ext[i] = [kind |-> "own", frames |-> s, stamp |-> Stamp(o)]
        BY <2>2, <2>3
    <2>5. ext[i] \in OwnItems /\ ext[i].stamp = Stamp(o) /\ ext[i].frames = s
        BY <2>4, StampIs DEF OwnItems
    <2> QED BY <2>3, <2>5
<1>3. ext \in [1..N -> OwnItems]
    BY <1>1, <1>2
<1>4. Enqueued(o, ns) = [o EXCEPT !.queue = @ \o ext]
    BY DEF Enqueued
<1> HIDE DEF ext
<1>5. ext \in Seq(OwnItems) /\ Len(ext) = N
    BY <1>3
<1>6. /\ Put(o, Enqueued(o, ns))
      /\ \A i \in 1..Len(ext) : \A n \in Range(ext[i].frames) : Queued(Enqueued(o, ns), n)
    BY <1>2, <1>4, <1>5, PutIs
<1>7. ASSUME NEW n \in Range(ns)
      PROVE  Queued(Enqueued(o, ns), n)
    <2>1. PICK i \in 1..N : n = ns[i]
        BY <1>1, RangeIs
    <2>2. n \in Range(<<ns[i]>>)
        <3>1. 1 \in DOMAIN <<ns[i]>> /\ <<ns[i]>>[1] = ns[i]
            OBVIOUS
        <3> QED BY <2>1, <3>1 DEF Range
    <2> QED BY <1>2, <1>5, <1>6, <2>2
<1> QED BY <1>6, <1>7

LEMMA PushedIs ==
    ASSUME Chained, NEW o \in Outbounds, NEW fs \in Seq(Nat)
    PROVE  LET w == [o EXCEPT !.queue = Append(@, Own(fs, Stamp(o)))]
           IN  Put(o, w) /\ \A n \in Range(fs) : Queued(w, n)
<1> DEFINE x == Own(fs, Stamp(o))
           ext == <<x>>
           w == [o EXCEPT !.queue = Append(@, x)]
<1>1. x \in OwnItems /\ x.stamp = Stamp(o) /\ x.frames = fs
    BY StampIs DEF Own, OwnItems
<1> HIDE DEF x
<1>2. ext \in Seq(OwnItems) /\ Len(ext) = 1 /\ ext[1] = x
    BY <1>1
<1>3. Append(o.queue, x) = o.queue \o ext
    <2>1. o.queue \in Seq(Items) /\ x \in Items
        BY <1>1 DEF Outbounds, Items
    <2> QED BY <2>1, AppendIs
<1>4. w = [o EXCEPT !.queue = @ \o ext]
    BY <1>3
<1>5. \A i \in 1..Len(ext) : ext[i].stamp = Stamp(o)
    BY <1>1, <1>2
<1> HIDE DEF ext, w
<1>6. /\ Put(o, w) /\ \A i \in 1..Len(ext) : \A n \in Range(ext[i].frames) : Queued(w, n)
    BY <1>2, <1>4, <1>5, PutIs
<1>7. 1 \in 1..Len(ext)
    BY <1>2
<1>8. \A n \in Range(fs) : Queued(w, n)
    BY <1>1, <1>2, <1>6, <1>7
<1> QED BY <1>6, <1>8 DEF w, x

LEMMA PutTwice ==
    ASSUME NEW o \in Outbounds, NEW v \in Outbounds, NEW w, Put(o, v), Put(v, w)
    PROVE  Put(o, w)
<1>0. Len(o.queue) \in Nat /\ Len(v.queue) \in Nat /\ Len(w.queue) \in Nat
    BY LenProperties DEF Outbounds, Put
<1>1. /\ Len(o.queue) <= Len(v.queue) /\ Len(v.queue) <= Len(w.queue)
      /\ \A i \in 1..Len(o.queue) : v.queue[i] = o.queue[i]
      /\ \A i \in 1..Len(v.queue) : w.queue[i] = v.queue[i]
      /\ v.sub = o.sub
    BY DEF Put, Grown
<1>2. ASSUME NEW i \in (Len(o.queue) + 1)..Len(w.queue)
      PROVE  /\ w.queue[i].kind = "own"
             /\ o.sub.feed # Nobody => w.queue[i].stamp <= Len(chain[o.sub.feed])
    <2>1. CASE i <= Len(v.queue)
        <3>1. i \in (Len(o.queue) + 1)..Len(v.queue) /\ i \in 1..Len(v.queue)
            BY <1>0, <2>1
        <3>2. w.queue[i] = v.queue[i]
            BY <1>1, <3>1
        <3> QED BY <3>1, <3>2 DEF Put, Grown
    <2>2. CASE ~(i <= Len(v.queue))
        <3>1. i \in (Len(v.queue) + 1)..Len(w.queue)
            BY <1>0, <2>2
        <3> QED BY <1>1, <3>1 DEF Put, Grown
    <2> QED BY <2>1, <2>2
<1>3. Len(o.queue) <= Len(w.queue) /\ \A i \in 1..Len(o.queue) : w.queue[i] = o.queue[i]
    <2>1. \A i \in 1..Len(o.queue) : i \in 1..Len(v.queue)
        BY <1>0, <1>1
    <2> QED BY <1>0, <1>1, <2>1
<1>4. /\ w.sub = o.sub /\ w.reading = o.reading /\ w.batch = o.batch
      /\ w.at = o.at /\ w.head = o.head /\ (o.ready => w.ready)
      /\ Len(w.accounts) = Len(o.accounts)
      /\ \A a \in 1..Len(o.accounts) : o.accounts[a].open => w.accounts[a].open
      /\ w \in Outbounds /\ w.closed = o.closed /\ w.holding = o.holding /\ w.held = o.held
    BY DEF Put, Grown
<1> QED BY <1>2, <1>3, <1>4 DEF Put, Grown

-----------------------------------------------------------------------------
(* What keeps a client's part of the invariant.                           *)
Walkable(ch, wk, wa, ah) ==
    /\ ch \in [Maps -> Seq(Chunks)]
    /\ \A f \in Maps :
          /\ Walked(wk, wa, f) \in Nat
          /\ \A k \in Nat : Len(ch[f]) < k /\ k <= Walked(wk, wa, f) => k \in ah[f]

LEMMA GrownInv ==
    ASSUME NEW ch, NEW dh \in [Maps -> Seq(Chunks)], Longer(ch, dh),
           NEW wk, NEW wa, NEW ah, Walkable(ch, wk, wa, ah),
           NEW o \in Outbounds, NEW w \in Outbounds, Grown(ch, o, w),
           ClientInv(ch, wk, wa, ah, o), ~w.holding => w.held = <<>>
    PROVE  ClientInv(dh, wk, wa, ah, w)
<1>0. ch \in [Maps -> Seq(Chunks)]
    BY DEF Walkable
<1>1. Stamped(dh, w) /\ Follows(w)
    BY <1>0, GrownStamped DEF ClientInv, Sound
<1>2. /\ w.reading = o.reading /\ w.at = o.at /\ w.head = o.head /\ w.batch = o.batch
      /\ o.ready => w.ready
      /\ \A f \in Maps : Len(ch[f]) \in Nat /\ Len(dh[f]) \in Nat /\ Len(ch[f]) <= Len(dh[f])
      /\ o.head \in Nat /\ o.reading.feed \in SomeMap
    BY <1>0, LenProperties DEF Grown, Longer, Outbounds
<1>3. Sound(dh, w)
    BY <1>1, <1>2 DEF Sound, ClientInv, SomeMap
<1>4. Woke(dh, wk, wa, ah, w)
    <2> SUFFICES ASSUME w.at \in {"drain", "wait"}, w.reading.feed # Nobody,
                        OwnUpTo(w, 0, Len(w.queue)),
                        NEW k \in 1..Len(dh[w.reading.feed]), w.head < k, w.reading.at < k,
                        k <= Walked(wk, wa, w.reading.feed), k \notin ah[w.reading.feed],
                        Of(dh[w.reading.feed][k], w.reading.me) # {}
                 PROVE  w.ready
        BY DEF Woke
    <2>1. o.reading.feed \in Maps
        BY <1>2 DEF SomeMap
    <2>2. k \in 1..Len(ch[o.reading.feed]) /\ dh[o.reading.feed][k] = ch[o.reading.feed][k]
        <3>1. k \in Nat /\ ~(Len(ch[o.reading.feed]) < k)
            BY <1>2, <2>1 DEF Walkable
        <3> QED BY <1>2, <2>1, <3>1 DEF Longer
    <2>3. OwnUpTo(o, 0, Len(o.queue))
        <3>1. 0 \in Readings(o)
            <4>1. 0 \in 0..Len(o.queue)
                BY LenProperties DEF Outbounds
            <4> QED BY <1>2, <4>1 DEF Readings
        <3> QED BY <3>1, GrownReading
    <2>4. o.ready
        BY <1>2, <2>2, <2>3 DEF Woke, ClientInv
    <2> QED BY <1>2, <2>4
<1> QED BY <1>3, <1>4 DEF ClientInv

LEMMA LongerSelf ==
    ASSUME NEW ch \in [Maps -> Seq(Chunks)]
    PROVE  Longer(ch, ch)
BY LenProperties DEF Longer

LEMMA GrownSelf ==
    ASSUME NEW ch, NEW o \in Outbounds
    PROVE  Grown(ch, o, o)
<1>1. Len(o.queue) \in Nat
    BY LenProperties DEF Outbounds
<1>2. (Len(o.queue) + 1)..Len(o.queue) = {} /\ Len(o.queue) <= Len(o.queue)
    BY <1>1
<1> QED BY <1>2 DEF Grown

(* A client that has grown has what it had, where what waited elsewhere is *)
(* accounted for.                                                         *)
Accounted(o, cr, ih, ck, S, wr, ch, w, cr2, ih2, ck2, T, c) ==
    \A n \in T : (n \in S => Elsewhere(o, cr, ih, ck, c, n))
                    => Has(wr, ch, w, cr2, ih2, ck2, c, n)

LEMMA FineGrown ==
    ASSUME NEW ch, NEW dh \in [Maps -> Seq(Chunks)], Longer(ch, dh),
           NEW wk, NEW wa, NEW ah, Walkable(ch, wk, wa, ah),
           NEW o \in Outbounds, NEW w \in Outbounds, Grown(ch, o, w), ~w.holding => w.held = <<>>,
           NEW wr, NEW cr, NEW cr2, NEW ih, NEW ih2, NEW ck, NEW ck2, NEW c, NEW S, NEW T,
           Fine(ch, wk, wa, ah, wr, o, cr, ih, ck, c, S),
           Accounted(o, cr, ih, ck, S, wr, dh, w, cr2, ih2, ck2, T, c)
    PROVE  Fine(dh, wk, wa, ah, wr, w, cr2, ih2, ck2, c, T)
<1>1. ClientInv(dh, wk, wa, ah, w)
    BY GrownInv DEF Fine
<1>2. ASSUME NEW n \in T
      PROVE  Has(wr, dh, w, cr2, ih2, ck2, c, n)
    <2>1. CASE n \in S /\ ~Elsewhere(o, cr, ih, ck, c, n)
        <3>1. Has(wr, ch, o, cr, ih, ck, c, n)
            BY <2>1 DEF Fine
        <3>2. Coming(ch, o, n) => Coming(dh, w, n)
            BY GrownComing DEF Walkable
        <3> QED BY <2>1, <3>1, <3>2 DEF Has
    <2>2. CASE n \in S => Elsewhere(o, cr, ih, ck, c, n)
        BY <1>2, <2>2 DEF Accounted
    <2> QED BY <2>1, <2>2
<1> QED BY <1>1, <1>2 DEF Fine

(* A client the step leaves alone.                                        *)
LEMMA FineSame ==
    ASSUME NEW ch, NEW dh \in [Maps -> Seq(Chunks)], Longer(ch, dh),
           NEW wk, NEW wa, NEW ah, Walkable(ch, wk, wa, ah),
           NEW o \in Outbounds,
           NEW wr, NEW cr, NEW ih, NEW ih2, NEW ck, NEW ck2, NEW c, NEW S, NEW T,
           Fine(ch, wk, wa, ah, wr, o, cr, ih, ck, c, S), T \subseteq S,
           ih.frame # 0 /\ ih.client = c => ih2 = ih,
           \A f \in Maps : Keeping(ck[f], f, c, o) \subseteq Keeping(ck2[f], f, c, o)
    PROVE  Fine(dh, wk, wa, ah, wr, o, cr, ih2, ck2, c, T)
<1>1. Grown(ch, o, o) /\ (~o.holding => o.held = <<>>)
    BY GrownSelf DEF Fine, ClientInv, Sound
<1>2. ASSUME NEW n \in T, Elsewhere(o, cr, ih, ck, c, n)
      PROVE  Elsewhere(o, cr, ih2, ck2, c, n)
    BY <1>2 DEF Elsewhere
<1>3. Accounted(o, cr, ih, ck, S, wr, dh, o, cr, ih2, ck2, T, c)
    BY <1>2 DEF Accounted, Has
<1> QED BY <1>1, <1>3, FineGrown

(* A client that stays what it is to the maps.                            *)
Steady(o, w) ==
    /\ w.sub = o.sub /\ Len(w.accounts) = Len(o.accounts)
    /\ \A a \in 1..Len(o.accounts) : o.accounts[a].open => w.accounts[a].open

LEMMA GrownSteady ==
    ASSUME NEW ch, NEW o \in Outbounds, NEW w \in Outbounds, Grown(ch, o, w)
    PROVE  Steady(o, w)
BY DEF Steady, Grown

LEMMA SeatKeeps ==
    ASSUME NEW sb \in [Maps -> [Indices -> Readers]], NEW hi, NEW hi2, NEW c, NEW o \in Outbounds, NEW w \in Outbounds,
           Steady(o, w),
           Reader(sb, c, o), Seat(sb, hi, c, o),
           o.sub.feed # Nobody /\ o.sub.me \in Indices /\ sb[o.sub.feed][o.sub.me].client = c
                /\ o.sub.me \in hi2[o.sub.feed] => w.holding
    PROVE  Reader(sb, c, w) /\ Seat(sb, hi2, c, w)
BY DEF Steady, Reader, Seat

LEMMA SeatedKeeps ==
    ASSUME Typed, Seated,
           UNCHANGED <<table, subs>>, out' \in [Clients -> Outbounds],
           \A c \in Clients : ~out'[c].closed => ~out[c].closed /\ Steady(out[c], out'[c]),
           \A c \in Clients : ~out'[c].closed /\ out[c].sub.feed # Nobody /\ out[c].sub.me \in Indices
                    /\ subs[out[c].sub.feed][out[c].sub.me].client = c
                    /\ out[c].sub.me \in heldIdx'[out[c].sub.feed]
                => out'[c].holding
    PROVE  Seated'
<1>2. ASSUME NEW c \in Clients, ~out'[c].closed
      PROVE  Reader(subs, c, out'[c]) /\ Seat(subs, heldIdx', c, out'[c])
    <2>1. /\ out[c] \in Outbounds /\ out'[c] \in Outbounds /\ Steady(out[c], out'[c])
          /\ subs \in [Maps -> [Indices -> Readers]]
          /\ Reader(subs, c, out[c]) /\ Seat(subs, heldIdx, c, out[c])
        BY <1>2 DEF Typed, Seated
    <2>2. out[c].sub.feed # Nobody /\ out[c].sub.me \in Indices
            /\ subs[out[c].sub.feed][out[c].sub.me].client = c
            /\ out[c].sub.me \in heldIdx'[out[c].sub.feed] => out'[c].holding
        BY <1>2
    <2> QED BY ONLY <2>1, <2>2, SeatKeeps
<1> QED BY <1>2 DEF Seated

LEMMA WalkableNow ==
    ASSUME Typed, Told
    PROVE  Walkable(chain, waker, wakerAt, ahead)
<1>1. ASSUME NEW f \in Maps
      PROVE  /\ Walked(waker, wakerAt, f) \in Nat
             /\ \A k \in Nat : Len(chain[f]) < k /\ k <= Walked(waker, wakerAt, f) => k \in ahead[f]
    <2>1. /\ wakerAt[f] \in Nat /\ Len(chain[f]) \in Nat
          /\ waker.from \in Nat /\ waker.to \in Nat
          /\ Walks(Len(chain[f]), wakerAt[f], ahead[f], pc[f])
        BY LenProperties DEF Typed, Told
    <2>2. Walked(waker, wakerAt, f) \in Nat /\ Walked(waker, wakerAt, f) <= wakerAt[f]
        BY <2>1 DEF Walked, Told
    <2> QED BY <2>1, <2>2 DEF Walks
<1> QED BY <1>1 DEF Walkable, Typed

LEMMA SendsIs ==
    ASSUME Typed, NEW a, NEW C, Sends(a, C)
    PROVE  /\ frames + 1 \in Nat /\ frames' = frames + 1
           /\ sent' \in [Clients -> SUBSET Nat]
           /\ \A c \in Clients : sent'[c] = IF c \in C THEN sent[c] \cup {frames + 1} ELSE sent[c]
BY DEF Typed, Sends

LEMMA RangeAppend ==
    ASSUME NEW S, NEW s \in Seq(S), NEW e \in S
    PROVE  Range(Append(s, e)) = Range(s) \cup {e}
<1>1. <<e>> \in Seq(S) /\ Append(s, e) = Cat(s, <<e>>)
    BY AppendIs DEF Cat
<1>2. Range(<<e>>) = {e}
    BY DEF Range
<1>3. Range(Cat(s, <<e>>)) = Range(s) \cup Range(<<e>>)
    BY <1>1, RangeCat
<1> QED BY <1>1, <1>2, <1>3

(* What a step starts from, and what it leaves, client by client.         *)
FineNow(c)  == Fine(chain, waker, wakerAt, ahead, written[c], out[c], creates[c], inHand, cork, c, sent[c])

LEMMA FeedInvIs ==
    ASSUME FeedInv
    PROVE  /\ Typed /\ Seated /\ Pushing /\ Told /\ Walkable(chain, waker, wakerAt, ahead) /\ Chained
           /\ Longer(chain, chain)
           /\ \A c \in Clients : out[c] \in Outbounds /\ (~out[c].closed => FineNow(c))
<1>1. Typed /\ Told
    BY DEF FeedInv
<1> QED BY <1>1, WalkableNow, LongerSelf DEF FeedInv, FineNow, Chained, Typed

LEMMA FeedInvThen ==
    ASSUME Typed', Seated', Pushing', Told',
           \A c \in Clients : ~out'[c].closed =>
              Fine(chain', waker', wakerAt', ahead', written'[c], out'[c], creates'[c], inHand', cork', c, sent'[c])
    PROVE  FeedInv'
BY DEF FeedInv

LEMMA ElsewhereKeeps ==
    ASSUME NEW o, NEW w, w.sub = o.sub, Range(o.held) \subseteq Range(w.held),
           o.holding => w.holding, NEW cr, NEW ih, NEW ck, NEW c, NEW n,
           Elsewhere(o, cr, ih, ck, c, n)
    PROVE  Elsewhere(w, cr, ih, ck, c, n)
<1>1. \A f \in Maps : Keeping(ck[f], f, c, o) = Keeping(ck[f], f, c, w)
    BY DEF Keeping
<1> QED BY <1>1 DEF Elsewhere

LEMMA KeptGrown ==
    ASSUME NEW ch, NEW o \in Outbounds, o.holding, NEW n \in Nat
    PROVE  LET w == Kept(o, n)
           IN  /\ w \in Outbounds
               /\ ~w.closed => /\ Grown(ch, o, w) /\ w.holding /\ w.sub = o.sub
                               /\ Range(w.held) = Range(o.held) \cup {n} /\ w.closed = o.closed
<1> DEFINE w == Kept(o, n)
<1>1. /\ w \in Outbounds
      /\ ~w.closed => /\ w.closed = o.closed /\ w.holding = o.holding
                      /\ w.held = Append(o.held, n)
                      /\ w.queue = o.queue /\ w.sub = o.sub
                      /\ w.accounts = o.accounts /\ w.at = o.at
                      /\ w.head = o.head /\ w.reading = o.reading
                      /\ w.batch = o.batch /\ w.ready = o.ready
    BY KeptIs
<1>2. PICK v \in Outbounds : v = w
    BY <1>1
<1>3. Range(Append(o.held, n)) = Range(o.held) \cup {n}
    <2>1. o.held \in Seq(Nat)
        BY DEF Outbounds
    <2> QED BY <2>1, RangeAppend
<1>4. Grown(ch, o, o)
    BY GrownSelf
<1> HIDE DEF w
<1>5. ~v.closed => Grown(ch, o, v)
    BY <1>1, <1>2, <1>4 DEF Grown
<1>6. /\ w \in Outbounds
      /\ ~w.closed => /\ Grown(ch, o, w) /\ w.holding /\ w.sub = o.sub
                      /\ Range(w.held) = Range(o.held) \cup {n} /\ w.closed = o.closed
    BY <1>1, <1>2, <1>3, <1>5
<1> QED BY <1>6 DEF w

LEMMA ChargedPut ==
    ASSUME Chained, NEW o \in Outbounds, ~o.closed, NEW ns \in Seq(Nat)
    PROVE  LET w == Enqueued(Charged(o), ns)
           IN  /\ w \in Outbounds
               /\ ~w.closed => /\ Put(o, w)
                               /\ \A n \in Range(ns) : Coming(chain, w, n)
<1> DEFINE v == Charged(o)
           w == Enqueued(v, ns)
<1>1. v \in Outbounds /\ (v.closed \/ Same(o, v))
    BY ChargedIs
<1>2. PICK u \in Outbounds : u = v
    BY <1>1
<1>3. CASE u.closed
    <2>1. w = u
        BY <1>2, <1>3 DEF Enqueued
    <2> HIDE DEF w
    <2>2. w \in Outbounds /\ w.closed
        BY <1>2, <1>3, <2>1
    <2> QED BY <2>2 DEF w
<1>4. CASE ~u.closed
    <2>1. Put(u, Enqueued(u, ns)) /\ \A n \in Range(ns) : Queued(Enqueued(u, ns), n)
        BY <1>4, EnqueuedIs
    <2>2. Put(o, u)
        BY <1>1, <1>2, <1>4, SamePut
    <2>3. Put(o, Enqueued(u, ns))
        BY <2>1, <2>2, PutTwice
    <2>4. Enqueued(u, ns) \in Outbounds /\ \A n \in Range(ns) : Coming(chain, Enqueued(u, ns), n)
        BY <2>1 DEF Put, Coming
    <2>5. w = Enqueued(u, ns)
        BY <1>2
    <2> HIDE DEF w
    <2>6. w \in Outbounds /\ Put(o, w) /\ \A n \in Range(ns) : Coming(chain, w, n)
        BY <2>3, <2>4, <2>5
    <2> QED BY <2>6 DEF w, v
<1> QED BY <1>3, <1>4

(* The others, when one client's queue is all that changes.                *)
LEMMA OnlySeated ==
    ASSUME FeedInv, UNCHANGED <<chain, table, subs, heldIdx>>, NEW d \in Clients, NEW w \in Outbounds,
           out' = [out EXCEPT ![d] = w],
           ~w.closed => Grown(chain, out[d], w) /\ w.closed = out[d].closed
                            /\ w.holding = out[d].holding
    PROVE  /\ Seated' /\ out' \in [Clients -> Outbounds] /\ out'[d] = w
           /\ \A c \in Clients : c # d => out'[c] = out[c]
<1>0. /\ Typed /\ Seated /\ Chained /\ Longer(chain, chain)
      /\ \A c \in Clients : out[c] \in Outbounds
    BY FeedInvIs
<1>1. out' \in [Clients -> Outbounds] /\ out'[d] = w /\ \A c \in Clients : c # d => out'[c] = out[c]
    BY <1>0 DEF Typed
<1>2. \A c \in Clients : ~out'[c].closed => ~out[c].closed /\ Steady(out[c], out'[c])
    BY <1>0, <1>1, GrownSelf, GrownSteady
<1>3. \A c \in Clients : ~out'[c].closed /\ out[c].sub.feed # Nobody /\ out[c].sub.me \in Indices
            /\ subs[out[c].sub.feed][out[c].sub.me].client = c
            /\ out[c].sub.me \in heldIdx'[out[c].sub.feed]
        => out'[c].holding
    BY <1>0, <1>1 DEF Seated, Seat
<1> QED BY <1>0, <1>1, <1>2, <1>3, SeatedKeeps DEF Chained

-----------------------------------------------------------------------------
(* The steps, one by one: those of sessions and connections.              *)
LEMMA KeptStep ==
    ASSUME FeedInv, NEW d \in Clients, NEW n \in Nat, out[d].holding, ~out[d].closed,
           UNCHANGED <<written, chain, subs, heldIdx, signalled, signals, waker, wakerAt, ahead,
                       table, cork, pc, job, creates, inHand>>,
           out' = [out EXCEPT ![d] = Kept(@, n)],
           frames' \in Nat, sent' \in [Clients -> SUBSET Nat],
           \A c \in Clients : sent'[c] = IF c \in {d} THEN sent[c] \cup {n} ELSE sent[c]
    PROVE  FeedInv'
<1>0. /\ Typed /\ Seated /\ Pushing /\ Told /\ Walkable(chain, waker, wakerAt, ahead) /\ Chained
      /\ Longer(chain, chain)
      /\ \A c \in Clients : out[c] \in Outbounds /\ (~out[c].closed => FineNow(c))
    BY FeedInvIs
<1> DEFINE w == Kept(out[d], n)
<1>1. /\ w \in Outbounds
      /\ ~w.closed => /\ Grown(chain, out[d], w) /\ w.holding /\ w.sub = out[d].sub
                      /\ Range(w.held) = Range(out[d].held) \cup {n} /\ w.closed = out[d].closed
    BY <1>0, KeptGrown
<1>2. out' = [out EXCEPT ![d] = w]
    OBVIOUS
<1> HIDE DEF w
<1>3. /\ Seated' /\ out' \in [Clients -> Outbounds] /\ out'[d] = w
      /\ \A c \in Clients : c # d => out'[c] = out[c]
    <2>1. w.closed \/ w.holding = out[d].holding
        BY <1>0, <1>1 DEF Outbounds
    <2> QED BY <1>1, <1>2, <2>1, OnlySeated
<1>4. Typed'
    BY <1>0, <1>3 DEF Typed
<1>5. Pushing' /\ Told'
    BY <1>0 DEF Pushing, Told, InMap, Empty
<1>6. ASSUME NEW c \in Clients, ~out'[c].closed
      PROVE  Fine(chain', waker', wakerAt', ahead', written'[c], out'[c], creates'[c], inHand', cork', c, sent'[c])
    <2>1. CASE c = d
        <3>1. ASSUME NEW m \in sent[d] \cup {n},
                     m \in sent[d] => Elsewhere(out[d], creates[d], inHand, cork, d, m)
              PROVE  Elsewhere(w, creates[d], inHand, cork, d, m)
            <4>1. m = n => m \in Range(w.held)
                BY <1>1, <1>3, <1>6, <2>1
            <4>2. m # n => Elsewhere(w, creates[d], inHand, cork, d, m)
                BY <1>1, <1>3, <1>6, <2>1, <3>1, ElsewhereKeeps
            <4> QED BY <4>1, <4>2 DEF Elsewhere
        <3>2. Accounted(out[d], creates[d], inHand, cork, sent[d], written[d], chain, w,
                        creates[d], inHand, cork, sent[d] \cup {n}, d)
            BY <3>1 DEF Accounted, Has
        <3>3. Fine(chain, waker, wakerAt, ahead, written[d], w, creates[d], inHand, cork, d, sent[d] \cup {n})
            BY <1>0, <1>1, <1>3, <1>6, <2>1, <3>2, FineGrown DEF FineNow, Chained
        <3> QED BY <1>3, <2>1, <3>3
    <2>2. CASE c # d
        <3>1. FineNow(c)
            BY <1>0, <1>3, <1>6, <2>2
        <3> QED BY <1>3, <2>2, <3>1 DEF FineNow
    <2> QED BY <2>1, <2>2
<1> QED BY <1>3, <1>4, <1>5, <1>6, FeedInvThen

LEMMA SessionSendInv ==
    ASSUME FeedInv, NEW d \in Clients, SessionSend(d)
    PROVE  FeedInv'
<1> DEFINE n == frames + 1
<1>0. /\ Typed /\ Seated /\ Pushing /\ Told
      /\ \A c \in Clients : out[c] \in Outbounds /\ (~out[c].closed => FineNow(c))
    BY FeedInvIs
<1>1. /\ n \in Nat /\ frames' \in Nat /\ sent' \in [Clients -> SUBSET Nat]
      /\ \A c \in Clients : sent'[c] = IF c \in {d} THEN sent[c] \cup {n} ELSE sent[c]
    <2>1. Sends(Nobody, {d})
        BY DEF SessionSend
    <2> QED BY <1>0, <2>1, SendsIs
<1>2. /\ UNCHANGED <<written, chain, subs, heldIdx, signalled, signals, waker, wakerAt, ahead,
                     table, cork, pc, job, creates>>
      /\ inHand.frame = 0 /\ ~out[d].closed
    BY DEF SessionSend, feeds, wakers, maps, bounds
<1>3. CASE out[d].holding
    <2>1. out' = [out EXCEPT ![d] = Kept(@, n)] /\ inHand' = inHand
        BY <1>3 DEF SessionSend
    <2> HIDE DEF n
    <2> QED BY <1>1, <1>2, <1>3, <2>1, KeptStep
<1>4. CASE ~out[d].holding
    <2>1. out' = out /\ inHand' = [frame |-> n, client |-> d]
        BY <1>4 DEF SessionSend
    <2> HIDE DEF n
    <2>2. Typed'
        BY <1>0, <1>1, <1>2, <2>1 DEF Typed, SomeOne
    <2>3. Seated'
        BY <1>0, <1>2, <2>1 DEF Seated
    <2>4. Pushing' /\ Told'
        BY <1>0, <1>2, <2>1 DEF Pushing, Told, InMap, Empty
    <2>5. ASSUME NEW c \in Clients, ~out'[c].closed
          PROVE  Fine(chain', waker', wakerAt', ahead', written'[c], out'[c], creates'[c], inHand', cork', c, sent'[c])
        <3>1. FineNow(c)
            BY <1>0, <2>1, <2>5
        <3>2. ASSUME NEW m, Has(written[c], chain, out[c], creates[c], inHand, cork, c, m)
              PROVE  Has(written[c], chain, out[c], creates[c], inHand', cork, c, m)
            BY <1>2, <3>2 DEF Has, Elsewhere
        <3>3. c = d => Has(written[c], chain, out[c], creates[c], inHand', cork, c, n)
            <4>1. n # 0
                BY <1>0, <1>1 DEF Typed, n
            <4> QED BY <2>1, <4>1 DEF Has, Elsewhere
        <3> QED BY <1>1, <1>2, <2>1, <3>1, <3>2, <3>3 DEF FineNow, Fine
    <2> QED BY <2>2, <2>3, <2>4, <2>5, FeedInvThen
<1> QED BY <1>3, <1>4

LEMMA SessionQueueInv ==
    ASSUME FeedInv, SessionQueue
    PROVE  FeedInv'
<1>0. /\ Typed /\ Seated /\ Pushing /\ Told /\ Walkable(chain, waker, wakerAt, ahead) /\ Chained
      /\ Longer(chain, chain)
      /\ \A c \in Clients : out[c] \in Outbounds /\ (~out[c].closed => FineNow(c))
    BY FeedInvIs
<1>1. /\ UNCHANGED <<written, chain, subs, heldIdx, signalled, signals, waker, wakerAt, ahead,
                     table, cork, pc, job, creates, sent, frames>>
      /\ inHand.frame # 0 /\ inHand' = [frame |-> 0, client |-> Nobody]
    BY DEF SessionQueue, feeds, wakers, maps, bounds, hist
<1>2. PICK d \in Clients, n \in Nat : d = inHand.client /\ n = inHand.frame
    BY <1>0, <1>1 DEF Told, Typed
<1>3. <<n>> \in Seq(Nat) /\ n \in Range(<<n>>)
    <2>1. 1 \in DOMAIN <<n>> /\ <<n>>[1] = n
        OBVIOUS
    <2> QED BY <2>1 DEF Range
<1>4. PICK w : w = IF out[d].closed THEN out[d] ELSE Enqueued(Charged(out[d]), <<n>>)
    OBVIOUS
<1>5. /\ w \in Outbounds
      /\ ~w.closed => ~out[d].closed /\ Put(out[d], w) /\ Coming(chain, w, n)
    <2>1. CASE out[d].closed
        BY <1>0, <1>4, <2>1
    <2>2. CASE ~out[d].closed
        BY <1>0, <1>3, <1>4, <2>2, ChargedPut
    <2> QED BY <2>1, <2>2
<1>6. out' = [out EXCEPT ![d] = w]
    BY <1>2, <1>4 DEF SessionQueue
<1>7. /\ Seated' /\ out' \in [Clients -> Outbounds] /\ out'[d] = w
      /\ \A c \in Clients : c # d => out'[c] = out[c]
    BY <1>1, <1>5, <1>6, OnlySeated DEF Put
<1>8. Typed'
    BY <1>0, <1>1, <1>7 DEF Typed, SomeOne
<1>9. Pushing' /\ Told'
    BY <1>0, <1>1 DEF Pushing, Told, InMap, Empty
<1>10. ASSUME NEW c \in Clients, ~out'[c].closed
       PROVE  Fine(chain', waker', wakerAt', ahead', written'[c], out'[c], creates'[c], inHand', cork', c, sent'[c])
    <2>1. CASE c = d
        <3>1. ASSUME NEW m \in sent[d],
                     m \in sent[d] => Elsewhere(out[d], creates[d], inHand, cork, d, m)
              PROVE  Has(written[d], chain, w, creates[d], inHand', cork, d, m)
            <4>1. CASE m = n
                BY <1>5, <1>7, <1>10, <2>1, <4>1 DEF Has
            <4>2. CASE m # n
                <5>1. Elsewhere(out[d], creates[d], inHand', cork, d, m)
                    BY <1>1, <1>2, <3>1, <4>2 DEF Elsewhere
                <5>2. w.sub = out[d].sub /\ w.held = out[d].held /\ w.holding = out[d].holding
                    BY <1>5, <1>7, <1>10, <2>1 DEF Put, Grown
                <5> QED BY <5>1, <5>2, ElsewhereKeeps DEF Has
            <4> QED BY <4>1, <4>2
        <3>2. Accounted(out[d], creates[d], inHand, cork, sent[d], written[d], chain, w,
                        creates[d], inHand', cork, sent[d], d)
            BY <3>1 DEF Accounted
        <3>3. FineNow(d) /\ Grown(chain, out[d], w) /\ (~w.holding => w.held = <<>>)
            BY <1>0, <1>5, <1>7, <1>10, <2>1 DEF Put, FineNow, Fine, ClientInv, Sound
        <3>4. Fine(chain, waker, wakerAt, ahead, written[d], w, creates[d], inHand', cork, d, sent[d])
            BY <1>0, <1>5, <3>2, <3>3, FineGrown DEF FineNow, Chained
        <3> QED BY <1>1, <1>7, <2>1, <3>4
    <2>2. CASE c # d
        <3>1. FineNow(c) /\ out[c] \in Outbounds
            BY <1>0, <1>7, <1>10, <2>2
        <3>2. Fine(chain, waker, wakerAt, ahead, written[c], out[c], creates[c], inHand', cork, c, sent[c])
            BY <1>0, <1>2, <2>2, <3>1, FineSame DEF FineNow, Chained
        <3> QED BY <1>1, <1>7, <2>2, <3>2
    <2> QED BY <2>1, <2>2
<1> QED BY <1>7, <1>8, <1>9, <1>10, FeedInvThen

LEMMA SessionUnheldInv ==
    ASSUME FeedInv, NEW d \in Clients, SessionUnheld(d)
    PROVE  FeedInv'
<1>0. /\ Typed /\ Seated /\ Pushing /\ Told /\ Walkable(chain, waker, wakerAt, ahead) /\ Chained
      /\ Longer(chain, chain)
      /\ \A c \in Clients : out[c] \in Outbounds /\ (~out[c].closed => FineNow(c))
    BY FeedInvIs
<1>1. PICK n \in Nat : n = frames + 1
    BY <1>0 DEF Typed
<1>2. /\ UNCHANGED <<written, chain, subs, heldIdx, signalled, signals, waker, wakerAt, ahead,
                     table, cork, pc, job, creates, inHand>>
      /\ ~out[d].closed /\ frames' = n
      /\ sent' = [sent EXCEPT ![d] = @ \cup {n}]
    BY <1>1 DEF SessionUnheld, feeds, wakers, maps, bounds
<1>3. <<n>> \in Seq(Nat) /\ n \in Range(<<n>>)
    <2>1. 1 \in DOMAIN <<n>> /\ <<n>>[1] = n
        OBVIOUS
    <2> QED BY <2>1 DEF Range
<1>4. PICK w : w = Enqueued(Charged(out[d]), <<n>>)
    OBVIOUS
<1>5. /\ w \in Outbounds
      /\ ~w.closed => Put(out[d], w) /\ Coming(chain, w, n)
    BY <1>0, <1>2, <1>3, <1>4, ChargedPut
<1>6. out' = [out EXCEPT ![d] = w]
    BY <1>1, <1>4 DEF SessionUnheld
<1>7. /\ Seated' /\ out' \in [Clients -> Outbounds] /\ out'[d] = w
      /\ \A c \in Clients : c # d => out'[c] = out[c]
    BY <1>2, <1>5, <1>6, OnlySeated DEF Put
<1>a. /\ sent' \in [Clients -> SUBSET Nat] /\ sent'[d] = sent[d] \cup {n}
      /\ \A c \in Clients : c # d => sent'[c] = sent[c]
    BY <1>0, <1>2 DEF Typed
<1>8. Typed'
    BY <1>0, <1>2, <1>7, <1>a DEF Typed
<1>9. Pushing' /\ Told'
    BY <1>0, <1>2 DEF Pushing, Told, InMap, Empty
<1>10. ASSUME NEW c \in Clients, ~out'[c].closed
       PROVE  Fine(chain', waker', wakerAt', ahead', written'[c], out'[c], creates'[c], inHand', cork', c, sent'[c])
    <2>1. CASE c = d
        <3>1. ASSUME NEW m \in sent[d] \cup {n},
                     m \in sent[d] => Elsewhere(out[d], creates[d], inHand, cork, d, m)
              PROVE  Has(written[d], chain, w, creates[d], inHand, cork, d, m)
            <4>1. CASE m = n
                BY <1>5, <1>7, <1>10, <2>1, <4>1 DEF Has
            <4>2. CASE m # n
                <5>1. Elsewhere(out[d], creates[d], inHand, cork, d, m)
                    BY <3>1, <4>2
                <5>2. w.sub = out[d].sub /\ w.held = out[d].held /\ w.holding = out[d].holding
                    BY <1>5, <1>7, <1>10, <2>1 DEF Put, Grown
                <5> QED BY <5>1, <5>2, ElsewhereKeeps DEF Has
            <4> QED BY <4>1, <4>2
        <3>2. Accounted(out[d], creates[d], inHand, cork, sent[d], written[d], chain, w,
                        creates[d], inHand, cork, sent[d] \cup {n}, d)
            BY <3>1 DEF Accounted
        <3>3. FineNow(d) /\ Grown(chain, out[d], w) /\ (~w.holding => w.held = <<>>)
            BY <1>0, <1>2, <1>5, <1>7, <1>10, <2>1 DEF Put, FineNow, Fine, ClientInv, Sound
        <3>4. Fine(chain, waker, wakerAt, ahead, written[d], w, creates[d], inHand, cork, d, sent[d] \cup {n})
            BY <1>0, <1>5, <3>2, <3>3, FineGrown DEF FineNow, Chained
        <3> QED BY <1>2, <1>7, <1>a, <2>1, <3>4
    <2>2. CASE c # d
        <3>1. FineNow(c)
            BY <1>0, <1>7, <1>10, <2>2
        <3> QED BY <1>2, <1>7, <1>a, <2>2, <3>1 DEF FineNow
    <2> QED BY <2>1, <2>2
<1> QED BY <1>7, <1>8, <1>9, <1>10, FeedInvThen

LEMMA DisconnectInv ==
    ASSUME FeedInv, NEW d \in Clients, Disconnect(d)
    PROVE  FeedInv'
<1>0. /\ Typed /\ Seated /\ Pushing /\ Told
      /\ \A c \in Clients : out[c] \in Outbounds /\ (~out[c].closed => FineNow(c))
    BY FeedInvIs
<1>2. /\ UNCHANGED <<written, chain, subs, heldIdx, signalled, signals, waker, wakerAt, ahead,
                     table, cork, pc, job, creates, inHand, sent, frames>>
      /\ out' = [out EXCEPT ![d] = Closed(@)]
    BY DEF Disconnect, feeds, wakers, maps, bounds, hist
<1>4. PICK w \in Outbounds : w = Closed(out[d]) /\ w.closed
    BY ClosedIs
<1>6. out' = [out EXCEPT ![d] = w]
    BY <1>2, <1>4
<1>7. /\ Seated' /\ out' \in [Clients -> Outbounds] /\ out'[d] = w
      /\ \A c \in Clients : c # d => out'[c] = out[c]
    BY <1>2, <1>4, <1>6, OnlySeated
<1>8. Typed'
    BY <1>0, <1>2, <1>7 DEF Typed
<1>9. Pushing' /\ Told'
    BY <1>0, <1>2 DEF Pushing, Told, InMap, Empty
<1>10. ASSUME NEW c \in Clients, ~out'[c].closed
       PROVE  Fine(chain', waker', wakerAt', ahead', written'[c], out'[c], creates'[c], inHand', cork', c, sent'[c])
    <2>1. out'[c] = out[c] /\ FineNow(c)
        BY <1>0, <1>4, <1>7, <1>10
    <2> QED BY <1>2, <2>1 DEF FineNow
<1> QED BY <1>7, <1>8, <1>9, <1>10, FeedInvThen

-----------------------------------------------------------------------------
(* What a map's cork keeps.                                               *)
Gains(k, l, f) == \A e \in Clients : \A v : Keeping(k, f, e, v) \subseteq Keeping(l, f, e, v)

LEMMA CorkIs ==
    ASSUME NEW k \in Corks
    PROVE  /\ k.on \in BOOLEAN /\ k.log \in Seq(Broadcasts) /\ k.directs \in Seq(Directs)
           /\ k.slots \in [Clients -> Seq(Nat)]
           /\ Len(k.log) \in Nat /\ Len(k.directs) \in Nat
           /\ \A i \in 1..Len(k.directs) : k.directs[i].before <= Len(k.log)
BY LenProperties DEF Corks

WithDirects(k, me, ns) ==
    [k EXCEPT !.directs = @ \o [i \in 1..Len(ns) |->
                                  [me |-> me, before |-> Len(k.log), frame |-> ns[i]]]]
WithSlot(k, c, ns) == [k EXCEPT !.slots[c] = @ \o ns]

LEMMA DirectsGain ==
    ASSUME NEW k \in Corks, NEW f, NEW me \in Nat, NEW ns \in Seq(Nat),
           NEW l, l = WithDirects(k, me, ns)
    PROVE  /\ l \in Corks /\ Gains(k, l, f)
           /\ \A e \in Clients : \A v : v.sub.feed = f /\ v.sub.me = me
                  => Range(ns) \subseteq Keeping(l, f, e, v)
<1> DEFINE ext == [i \in 1..Len(ns) |-> [me |-> me, before |-> Len(k.log), frame |-> ns[i]]]
<1>0. /\ k.on \in BOOLEAN /\ k.log \in Seq(Broadcasts) /\ k.directs \in Seq(Directs)
      /\ k.slots \in [Clients -> Seq(Nat)]
      /\ Len(k.log) \in Nat /\ Len(k.directs) \in Nat
      /\ \A i \in 1..Len(k.directs) : k.directs[i].before <= Len(k.log)
    BY CorkIs
<1>1. PICK N \in Nat : N = Len(ns)
    BY LenProperties
<1>2. \A i \in 1..N : ns[i] \in Nat
    BY <1>1, ElementOfSeq
<1>3. /\ ext \in [1..N -> Directs]
      /\ \A i \in 1..N : ext[i].before = Len(k.log) /\ ext[i].me = me /\ ext[i].frame = ns[i]
    BY <1>0, <1>1, <1>2 DEF Directs
<1> HIDE DEF ext
<1>4. ext \in Seq(Directs) /\ Len(ext) = N
    BY <1>3
<1>5. PICK ds \in Seq(Directs) : ds = Cat(k.directs, ext)
    BY <1>0, <1>4, CatType
<1>6. l = [k EXCEPT !.directs = ds]
    BY <1>5 DEF Cat, ext, WithDirects
<1>7. /\ l.on = k.on /\ l.log = k.log /\ l.directs = ds /\ l.slots = k.slots
      /\ l = [on |-> k.on, log |-> k.log, directs |-> ds, slots |-> k.slots]
    BY <1>6 DEF Corks
<1>8. ASSUME NEW i \in 1..Len(ds)
      PROVE  ds[i].before <= Len(k.log)
    <2>1. /\ Len(ds) = Len(k.directs) + N
          /\ \A j \in 1..Len(k.directs) : ds[j] = k.directs[j]
          /\ \A j \in 1..N : ds[Len(k.directs) + j] = ext[j]
        <3>1. Len(ds) = Len(k.directs) + N
            BY <1>0, <1>4, <1>5, CatLen
        <3>2. \A j \in 1..Len(k.directs) : ds[j] = k.directs[j]
            BY <1>0, <1>4, <1>5, CatLeft
        <3>3. ASSUME NEW j \in 1..N
              PROVE  ds[Len(k.directs) + j] = ext[j]
            <4>1. Cat(k.directs, ext)[Len(k.directs) + j] = ext[j]
                BY <1>0, <1>4, CatRight
            <4> QED BY <1>5, <4>1
        <3> QED BY <3>1, <3>2, <3>3
    <2>2. CASE i <= Len(k.directs)
        <3>1. i \in 1..Len(k.directs)
            BY <1>0, <2>1, <2>2
        <3> QED BY <1>0, <2>1, <3>1
    <2>3. CASE ~(i <= Len(k.directs))
        <3>1. i - Len(k.directs) \in 1..N /\ i = Len(k.directs) + (i - Len(k.directs))
            BY <1>0, <1>1, <2>1, <2>3
        <3>2. ds[i] = ext[i - Len(k.directs)]
            BY <2>1, <3>1
        <3>3. ds[i].before = Len(k.log)
            BY <1>3, <3>1, <3>2
        <3> QED BY <1>0, <3>3
    <2> QED BY <2>2, <2>3
<1>9. l \in Corks
    BY <1>0, <1>7, <1>8 DEF Corks
<1>10. Range(ds) = Range(k.directs) \cup Range(ext)
    BY <1>0, <1>4, <1>5, RangeCat
<1>11. Gains(k, l, f)
    BY <1>7, <1>10 DEF Gains, Keeping
<1>12. ASSUME NEW e \in Clients, NEW v, v.sub.feed = f, v.sub.me = me, NEW n \in Range(ns)
       PROVE  n \in Keeping(l, f, e, v)
    <2>1. PICK i \in 1..N : n = ns[i]
        BY <1>1, RangeIs
    <2>2. ext[i] \in Range(ext)
        BY <1>4, <2>1, RangeIs
    <2>3. ext[i] \in {x \in Range(l.directs) : v.sub.feed = f /\ x.me = v.sub.me}
        BY <1>3, <1>7, <1>10, <1>12, <2>2
    <2> QED BY <1>3, <2>1, <2>3 DEF Keeping
<1> QED BY <1>7, <1>9, <1>11, <1>12

LEMMA SlotGains ==
    ASSUME NEW k \in Corks, NEW f, NEW c \in Clients, NEW ns \in Seq(Nat),
           NEW l, l = WithSlot(k, c, ns)
    PROVE  /\ l \in Corks /\ Gains(k, l, f)
           /\ \A v : Range(ns) \subseteq Keeping(l, f, c, v)
<1>0. /\ k.on \in BOOLEAN /\ k.log \in Seq(Broadcasts) /\ k.directs \in Seq(Directs)
      /\ k.slots \in [Clients -> Seq(Nat)]
      /\ \A i \in 1..Len(k.directs) : k.directs[i].before <= Len(k.log)
    BY CorkIs
<1>1. PICK s \in Seq(Nat) : s = Cat(k.slots[c], ns)
    BY <1>0, CatType
<1>2. PICK sl : sl = [k.slots EXCEPT ![c] = s]
    OBVIOUS
<1>3. /\ sl \in [Clients -> Seq(Nat)] /\ sl[c] = s
      /\ \A e \in Clients : e # c => sl[e] = k.slots[e]
    BY <1>0, <1>2
<1>4. l = [k EXCEPT !.slots = sl]
    BY <1>0, <1>1, <1>2 DEF Cat, WithSlot
<1>5. /\ l.on = k.on /\ l.log = k.log /\ l.directs = k.directs /\ l.slots = sl
      /\ l = [on |-> k.on, log |-> k.log, directs |-> k.directs, slots |-> sl]
    BY <1>4 DEF Corks
<1>6. l \in Corks
    BY <1>0, <1>3, <1>5 DEF Corks
<1>7. Range(s) = Range(k.slots[c]) \cup Range(ns)
    BY <1>0, <1>1, RangeCat
<1>8. \A e \in Clients : Range(k.slots[e]) \subseteq Range(sl[e])
    BY <1>3, <1>7
<1>9. Gains(k, l, f)
    BY <1>5, <1>8 DEF Gains, Keeping
<1> QED BY <1>3, <1>5, <1>6, <1>7, <1>9 DEF Keeping

LEMMA CorkedIs ==
    ASSUME NEW f \in Maps, cork[f] \in Corks, NEW o \in Outbounds, NEW c \in Clients, NEW ns \in Seq(Nat)
    PROVE  LET k == Corked(f, o, c, ns)
           IN  /\ k \in Corks /\ k.on = cork[f].on /\ Gains(cork[f], k, f)
               /\ ~cork[f].on => k = cork[f]
               /\ cork[f].on /\ ~o.closed
                    => \A v : v.sub = o.sub => Range(ns) \subseteq Keeping(k, f, c, v)
<1> DEFINE k == Corked(f, o, c, ns)
<1>1. CASE ~cork[f].on \/ o.closed
    <2>1. k = cork[f]
        BY <1>1 DEF Corked
    <2>2. Gains(cork[f], cork[f], f)
        BY DEF Gains
    <2> HIDE DEF k
    <2>3. /\ k \in Corks /\ k.on = cork[f].on /\ Gains(cork[f], k, f)
          /\ ~cork[f].on => k = cork[f]
        BY <2>1, <2>2
    <2> QED BY <1>1, <2>3 DEF k
<1>2. CASE ~(~cork[f].on \/ o.closed) /\ o.sub.feed = f
    <2>1. k = WithDirects(cork[f], o.sub.me, ns)
        BY <1>2 DEF Corked, WithDirects
    <2>2. o.sub.me \in Nat
        BY DEF Outbounds
    <2> HIDE DEF k
    <2>3. PICK q \in Corks : q = cork[f]
        OBVIOUS
    <2>4. PICK l : l = WithDirects(q, o.sub.me, ns)
        OBVIOUS
    <2>5. /\ l \in Corks /\ l.on = q.on /\ Gains(q, l, f)
          /\ \A e \in Clients : \A v : v.sub.feed = f /\ v.sub.me = o.sub.me
                  => Range(ns) \subseteq Keeping(l, f, e, v)
        <3>1. l \in Corks
            BY <2>2, <2>4, DirectsGain
        <3>2. l.on = q.on
            BY <2>4 DEF WithDirects, Corks
        <3>3. Gains(q, l, f)
            BY <2>2, <2>4, DirectsGain
        <3>4. \A e \in Clients : \A v : v.sub.feed = f /\ v.sub.me = o.sub.me
                  => Range(ns) \subseteq Keeping(l, f, e, v)
            BY <2>2, <2>4, DirectsGain
        <3> QED BY <3>1, <3>2, <3>3, <3>4
    <2>6. /\ k \in Corks /\ k.on = cork[f].on /\ Gains(cork[f], k, f)
          /\ \A e \in Clients : \A v : v.sub.feed = f /\ v.sub.me = o.sub.me
                  => Range(ns) \subseteq Keeping(k, f, e, v)
        BY <2>1, <2>4, <2>5, <2>3
    <2> QED BY <1>2, <2>6 DEF k
<1>3. CASE ~(~cork[f].on \/ o.closed) /\ o.sub.feed # f
    <2>1. k = WithSlot(cork[f], c, ns)
        BY <1>3 DEF Corked, WithSlot
    <2> HIDE DEF k
    <2>2. PICK q \in Corks : q = cork[f]
        OBVIOUS
    <2>3. PICK l : l = WithSlot(q, c, ns)
        OBVIOUS
    <2>4. /\ l \in Corks /\ l.on = q.on /\ Gains(q, l, f)
          /\ \A v : Range(ns) \subseteq Keeping(l, f, c, v)
        <3>1. l \in Corks
            BY <2>3, SlotGains
        <3>2. l.on = q.on
            BY <2>3 DEF WithSlot, Corks
        <3>3. Gains(q, l, f)
            BY <2>3, SlotGains
        <3>4. \A v : Range(ns) \subseteq Keeping(l, f, c, v)
            BY <2>3, SlotGains
        <3> QED BY <3>1, <3>2, <3>3, <3>4
    <2>5. /\ k \in Corks /\ k.on = cork[f].on /\ Gains(cork[f], k, f)
          /\ \A v : Range(ns) \subseteq Keeping(k, f, c, v)
        BY <2>1, <2>3, <2>4, <2>2
    <2> QED BY <1>3, <2>5 DEF k
<1> QED BY <1>1, <1>2, <1>3

(* A map's frames to one client are in its queue or in the map's cork.     *)
LEMMA MappedIs ==
    ASSUME Chained, NEW f \in Maps, cork[f] \in Corks, NEW o \in Outbounds, NEW c \in Clients,
           NEW ns \in Seq(Nat)
    PROVE  LET w == MapQueued(f, o, ns)
               k == Corked(f, o, c, ns)
           IN  /\ w \in Outbounds /\ k \in Corks /\ k.on = cork[f].on /\ Gains(cork[f], k, f)
               /\ ~cork[f].on => k = cork[f]
               /\ Put(o, w)
               /\ ~w.closed => \A n \in Range(ns) : Coming(chain, w, n) \/ n \in Keeping(k, f, c, w)
<1> DEFINE w == MapQueued(f, o, ns)
           k == Corked(f, o, c, ns)
<1>1. /\ k \in Corks /\ k.on = cork[f].on /\ Gains(cork[f], k, f)
      /\ ~cork[f].on => k = cork[f]
      /\ cork[f].on /\ ~o.closed
            => \A v : v.sub = o.sub => Range(ns) \subseteq Keeping(k, f, c, v)
    BY CorkedIs
<1>2. Put(o, o)
    BY SamePut DEF Same
<1>3. /\ w \in Outbounds /\ Put(o, w)
      /\ ~w.closed => \A n \in Range(ns) : Coming(chain, w, n) \/ n \in Keeping(k, f, c, w)
    <2>1. CASE cork[f].on \/ o.closed
        <3>1. w = o
            BY <2>1 DEF MapQueued, Enqueued
        <3> HIDE DEF w, k
        <3> QED BY <1>1, <1>2, <2>1, <3>1
    <2>2. CASE ~(cork[f].on \/ o.closed)
        <3>1. w = Enqueued(o, ns)
            BY <2>2 DEF MapQueued
        <3>2. Put(o, Enqueued(o, ns)) /\ \A n \in Range(ns) : Queued(Enqueued(o, ns), n)
            BY <2>2, EnqueuedIs
        <3> HIDE DEF w, k
        <3> QED BY <3>1, <3>2 DEF Put, Coming
    <2> QED BY <2>1, <2>2
<1> HIDE DEF w, k
<1>4. /\ w \in Outbounds /\ k \in Corks /\ k.on = cork[f].on /\ Gains(cork[f], k, f)
      /\ ~cork[f].on => k = cork[f]
      /\ Put(o, w)
      /\ ~w.closed => \A n \in Range(ns) : Coming(chain, w, n) \/ n \in Keeping(k, f, c, w)
    BY <1>1, <1>3
<1> QED BY <1>4 DEF w, k

-----------------------------------------------------------------------------
(* A map's frames to a client, and its hold.                              *)
LEMMA PushingCork ==
    ASSUME Typed, Pushing, NEW f \in Maps, pc[f] = "run", NEW k \in Corks, k.on <=> cork[f].on,
           ~cork[f].on => k = cork[f], cork' = [cork EXCEPT ![f] = k],
           UNCHANGED <<pc, job, table>>
    PROVE  Pushing'
<1>1. cork'[f] = k /\ \A g \in Maps : g # f => cork'[g] = cork[g]
    BY DEF Typed
<1>2. ASSUME NEW g \in Maps
      PROVE  /\ job'[g].do = "leave" => job'[g].client \in Clients /\ InMap(g, job[g].client)
             /\ pc'[g] = "run" => job'[g].do = "none"
             /\ ~cork'[g].on /\ pc'[g] # "number" => Empty(cork'[g])
             /\ pc'[g] # "run" => \A c \in Clients : cork'[g].slots[c] = <<>>
             /\ pc'[g] \in {"signal", "done"} => Empty(cork'[g])
    BY <1>1 DEF Pushing
<1>3. \A g \in Maps : InMap(g, job[g].client) => InMap(g, job[g].client)'
    BY DEF InMap
<1> HIDE DEF InMap
<1> QED BY <1>2, <1>3 DEF Pushing

LEMMA ElsewhereGains ==
    ASSUME Typed, NEW f \in Maps, NEW k, Gains(cork[f], k, f), cork' = [cork EXCEPT ![f] = k],
           NEW c \in Clients
    PROVE  /\ \A v : \A g \in Maps : Keeping(cork[g], g, c, v) \subseteq Keeping(cork'[g], g, c, v)
           /\ \A o : \A cr : \A ih : \A n :
                Elsewhere(o, cr, ih, cork, c, n) => Elsewhere(o, cr, ih, cork', c, n)
           /\ \A v : \A cr : \A ih : \A n \in Keeping(k, f, c, v) : Elsewhere(v, cr, ih, cork', c, n)
<1>1. cork'[f] = k /\ \A g \in Maps : g # f => cork'[g] = cork[g]
    BY DEF Typed
<1>2. \A v : \A g \in Maps : Keeping(cork[g], g, c, v) \subseteq Keeping(cork'[g], g, c, v)
    BY <1>1 DEF Gains
<1> QED BY <1>1, <1>2 DEF Elsewhere

LEMMA DirectInv ==
    ASSUME FeedInv, NEW f \in Maps, NEW d \in Clients, Direct(f, d)
    PROVE  FeedInv'
<1>0. /\ Typed /\ Seated /\ Pushing /\ Told /\ Walkable(chain, waker, wakerAt, ahead) /\ Chained
      /\ Longer(chain, chain)
      /\ \A c \in Clients : out[c] \in Outbounds /\ (~out[c].closed => FineNow(c))
    BY FeedInvIs
<1>1. PICK n \in Nat : n = frames + 1
    BY <1>0 DEF Typed
<1>2. /\ frames' \in Nat /\ sent' \in [Clients -> SUBSET Nat]
      /\ \A c \in Clients : sent'[c] = IF c \in {d} THEN sent[c] \cup {n} ELSE sent[c]
    <2>1. Sends(f, {d})
        BY DEF Direct
    <2> QED BY <1>0, <1>1, <2>1, SendsIs
<1>3. /\ UNCHANGED <<written, chain, subs, heldIdx, signalled, signals, waker, wakerAt, ahead,
                     table, pc, job, creates, inHand>>
      /\ pc[f] = "run" /\ ~out[d].closed
    BY DEF Direct, feeds, wakers, maps, bounds
<1>4. CASE out[d].holding
    <2>1. out' = [out EXCEPT ![d] = Kept(@, n)] /\ cork' = cork
        BY <1>1, <1>4 DEF Direct
    <2> QED BY <1>2, <1>3, <1>4, <2>1, KeptStep
<1>5. CASE ~out[d].holding
    <2>1. PICK v \in Outbounds : v = Charged(out[d]) /\ (v.closed \/ Same(out[d], v))
        BY <1>0, ChargedIs
    <2>2. <<n>> \in Seq(Nat) /\ n \in Range(<<n>>)
        <3>1. 1 \in DOMAIN <<n>> /\ <<n>>[1] = n
            OBVIOUS
        <3> QED BY <3>1 DEF Range
    <2>3. PICK w, k : w = MapQueued(f, v, <<n>>) /\ k = Corked(f, v, d, <<n>>)
        OBVIOUS
    <2>4. /\ w \in Outbounds /\ k \in Corks /\ k.on = cork[f].on /\ Gains(cork[f], k, f)
          /\ ~cork[f].on => k = cork[f]
          /\ Put(v, w)
          /\ ~w.closed => Coming(chain, w, n) \/ n \in Keeping(k, f, d, w)
        <3>1. cork[f] \in Corks
            BY <1>0 DEF Typed
        <3> QED BY <1>0, <2>2, <2>3, <3>1, MappedIs
    <2>5. ~w.closed => Put(out[d], w)
        <3>1. ~w.closed => ~v.closed
            BY <2>4 DEF Put
        <3>2. ~w.closed => Put(out[d], v)
            BY <1>0, <2>1, <3>1, SamePut
        <3> QED BY <1>0, <2>4, <3>2, PutTwice
    <2>6. out' = [out EXCEPT ![d] = w] /\ cork' = [cork EXCEPT ![f] = k]
        BY <1>1, <1>5, <2>1, <2>3 DEF Direct
    <2>7. /\ Seated' /\ out' \in [Clients -> Outbounds] /\ out'[d] = w
          /\ \A c \in Clients : c # d => out'[c] = out[c]
        BY <1>3, <2>4, <2>5, <2>6, OnlySeated DEF Put
    <2>8. Typed'
        <3>1. cork' \in [Maps -> Corks]
            BY <1>0, <2>4, <2>6 DEF Typed
        <3> QED BY <1>0, <1>2, <1>3, <2>7, <3>1 DEF Typed
    <2>9. Pushing'
        BY <1>0, <1>3, <2>4, <2>6, PushingCork
    <2>10. Told'
        BY <1>0, <1>3 DEF Told
    <2>11. ASSUME NEW c \in Clients, ~out'[c].closed
           PROVE  Fine(chain', waker', wakerAt', ahead', written'[c], out'[c], creates'[c], inHand', cork', c, sent'[c])
        <3>0. /\ \A v2 : \A g \in Maps : Keeping(cork[g], g, c, v2) \subseteq Keeping(cork'[g], g, c, v2)
              /\ \A o : \A cr : \A ih : \A m :
                    Elsewhere(o, cr, ih, cork, c, m) => Elsewhere(o, cr, ih, cork', c, m)
              /\ \A v2 : \A cr : \A ih : \A m \in Keeping(k, f, c, v2) : Elsewhere(v2, cr, ih, cork', c, m)
            BY <1>0, <2>4, <2>6, ElsewhereGains
        <3>1. CASE c = d
            <4>1. ASSUME NEW m \in sent[d] \cup {n},
                         m \in sent[d] => Elsewhere(out[d], creates[d], inHand, cork, d, m)
                  PROVE  Has(written[d], chain, w, creates[d], inHand, cork', d, m)
                <5>1. CASE m = n
                    BY <2>4, <2>7, <2>11, <3>0, <3>1, <5>1 DEF Has
                <5>2. CASE m # n
                    <6>1. Elsewhere(out[d], creates[d], inHand, cork', d, m)
                        BY <3>0, <3>1, <4>1, <5>2
                    <6>2. w.sub = out[d].sub /\ w.held = out[d].held /\ w.holding = out[d].holding
                        BY <2>5, <2>7, <2>11, <3>1 DEF Put, Grown
                    <6> QED BY <6>1, <6>2, ElsewhereKeeps DEF Has
                <5> QED BY <5>1, <5>2
            <4>2. Accounted(out[d], creates[d], inHand, cork, sent[d], written[d], chain, w,
                            creates[d], inHand, cork', sent[d] \cup {n}, d)
                BY <4>1 DEF Accounted
            <4>3. FineNow(d) /\ Grown(chain, out[d], w) /\ (~w.holding => w.held = <<>>)
                BY <1>0, <1>3, <2>5, <2>7, <2>11, <3>1 DEF Put, FineNow, Fine, ClientInv, Sound
            <4>4. Fine(chain, waker, wakerAt, ahead, written[d], w, creates[d], inHand, cork', d, sent[d] \cup {n})
                BY <1>0, <2>4, <4>2, <4>3, FineGrown DEF FineNow, Chained
            <4> QED BY <1>2, <1>3, <2>7, <3>1, <4>4
        <3>2. CASE c # d
            <4>1. FineNow(c) /\ out[c] \in Outbounds
                BY <1>0, <2>7, <2>11, <3>2
            <4>2. Fine(chain, waker, wakerAt, ahead, written[c], out[c], creates[c], inHand, cork', c, sent[c])
                BY <1>0, <3>0, <4>1, FineSame DEF FineNow, Chained
            <4> QED BY <1>2, <1>3, <2>7, <3>2, <4>2
        <3> QED BY <3>1, <3>2
    <2> QED BY <2>7, <2>8, <2>9, <2>10, <2>11, FeedInvThen
<1> QED BY <1>4, <1>5

LEMMA HoldInv ==
    ASSUME FeedInv, NEW f \in Maps, NEW d \in Clients, Hold(f, d)
    PROVE  FeedInv'
<1>0. /\ Typed /\ Seated /\ Pushing /\ Told /\ Walkable(chain, waker, wakerAt, ahead) /\ Chained
      /\ Longer(chain, chain)
      /\ \A c \in Clients : out[c] \in Outbounds /\ (~out[c].closed => FineNow(c))
    BY FeedInvIs
<1>1. PICK n \in Nat : n = frames + 1
    BY <1>0 DEF Typed
<1>2. /\ frames' \in Nat /\ sent' \in [Clients -> SUBSET Nat]
      /\ \A c \in Clients : sent'[c] = IF c \in {d} THEN sent[c] \cup {n} ELSE sent[c]
    <2>1. Sends(f, {d})
        BY DEF Hold
    <2> QED BY <1>0, <1>1, <2>1, SendsIs
<1>3. /\ UNCHANGED <<written, chain, subs, signalled, signals, waker, wakerAt, ahead,
                     table, cork, pc, job, inHand>>
      /\ ~out[d].closed /\ ~out[d].holding
      /\ out' = [out EXCEPT ![d].holding = TRUE]
      /\ heldIdx' = [g \in Maps |-> IF out[d].sub.feed = g THEN heldIdx[g] \cup {out[d].sub.me}
                                    ELSE heldIdx[g]]
      /\ creates' = [creates EXCEPT ![d] = n]
    BY <1>1 DEF Hold, wakers
<1>4. PICK o \in Outbounds : o = out[d]
    BY <1>0
<1>5. PICK w : w = [o EXCEPT !.holding = TRUE]
    OBVIOUS
<1>6. /\ w \in Outbounds /\ w.holding /\ w.closed = o.closed /\ w.sub = o.sub /\ w.held = o.held
      /\ w.queue = o.queue /\ w.accounts = o.accounts /\ w.at = o.at
      /\ w.head = o.head /\ w.reading = o.reading /\ w.batch = o.batch /\ w.ready = o.ready
    BY <1>5 DEF Outbounds
<1>7. Grown(chain, o, w)
    <2>1. Grown(chain, o, o)
        BY GrownSelf
    <2> QED BY <1>6, <2>1 DEF Grown
<1>8. /\ out' \in [Clients -> Outbounds] /\ out'[d] = w
      /\ \A c \in Clients : c # d => out'[c] = out[c]
    BY <1>0, <1>3, <1>4, <1>5, <1>6 DEF Typed
<1>9. /\ creates' \in [Clients -> Nat] /\ creates'[d] = n
      /\ \A c \in Clients : c # d => creates'[c] = creates[c]
    BY <1>0, <1>3 DEF Typed
<1>10. /\ Seat(subs, heldIdx, d, o) /\ \A c \in Clients : ~out[c].closed => Seat(subs, heldIdx, c, out[c])
    BY <1>0, <1>3, <1>4 DEF Seated
<1>11. heldIdx' \in [Maps -> SUBSET Indices]
    <2>1. ASSUME NEW g \in Maps
          PROVE  heldIdx'[g] \in SUBSET Indices
        <3>1. o.sub.feed = g => o.sub.me \in Indices
            <4>1. g # Nobody
                BY FeedAssumption
            <4> QED BY <1>10, <4>1 DEF Seat
        <3>2. heldIdx[g] \in SUBSET Indices
            BY <1>0 DEF Typed
        <3> QED BY <1>3, <1>4, <3>1, <3>2
    <2> QED BY <1>3, <2>1
<1>12. Typed'
    BY <1>0, <1>2, <1>3, <1>8, <1>9, <1>11 DEF Typed
<1>13. Seated'
    <2>1. \A c \in Clients : ~out'[c].closed => ~out[c].closed /\ Steady(out[c], out'[c])
        BY <1>0, <1>3, <1>4, <1>6, <1>7, <1>8, GrownSelf, GrownSteady
    <2>2. ASSUME NEW c \in Clients, ~out'[c].closed, out[c].sub.feed # Nobody, out[c].sub.me \in Indices,
                 subs[out[c].sub.feed][out[c].sub.me].client = c,
                 out[c].sub.me \in heldIdx'[out[c].sub.feed]
          PROVE  out'[c].holding
        <3>1. CASE c = d
            BY <1>6, <1>8, <3>1
        <3>2. CASE c # d
            <4>1. out[c] \in Outbounds /\ out'[c] = out[c]
                BY <1>0, <1>8, <3>2
            <4>2. out[c].sub.feed \in Maps
                BY <2>2, <4>1 DEF Outbounds, SomeMap
            <4>3. CASE o.sub.feed = out[c].sub.feed /\ o.sub.me = out[c].sub.me
                BY <1>10, <2>2, <3>2, <4>3 DEF Seat
            <4>4. CASE ~(o.sub.feed = out[c].sub.feed /\ o.sub.me = out[c].sub.me)
                <5>1. out[c].sub.me \in heldIdx[out[c].sub.feed]
                    BY <1>3, <1>4, <2>2, <4>2, <4>4
                <5>2. Seat(subs, heldIdx, c, out[c])
                    BY <1>10, <2>2, <4>1
                <5> QED BY <2>2, <4>1, <5>1, <5>2 DEF Seat
            <4> QED BY <4>3, <4>4
        <3> QED BY <3>1, <3>2
    <2>3. \A c \in Clients : ~out'[c].closed /\ out[c].sub.feed # Nobody /\ out[c].sub.me \in Indices
                    /\ subs[out[c].sub.feed][out[c].sub.me].client = c
                    /\ out[c].sub.me \in heldIdx'[out[c].sub.feed]
                => out'[c].holding
        BY <2>2
    <2> QED BY <1>0, <1>3, <1>8, <2>1, <2>3, SeatedKeeps DEF Chained
<1>14. Pushing' /\ Told'
    BY <1>0, <1>3 DEF Pushing, Told, InMap, Empty
<1>15. ASSUME NEW c \in Clients, ~out'[c].closed
       PROVE  Fine(chain', waker', wakerAt', ahead', written'[c], out'[c], creates'[c], inHand', cork', c, sent'[c])
    <2>1. CASE c = d
        <3>1. ASSUME NEW m \in sent[d] \cup {n},
                     m \in sent[d] => Elsewhere(o, creates[d], inHand, cork, d, m)
              PROVE  Elsewhere(w, n, inHand, cork, d, m)
            <4>1. CASE m = n
                BY <1>6, <4>1 DEF Elsewhere
            <4>2. CASE m # n
                <5>1. Elsewhere(o, n, inHand, cork, d, m)
                    BY <1>3, <1>4, <3>1, <4>2 DEF Elsewhere
                <5> QED BY <1>6, <5>1, ElsewhereKeeps
            <4> QED BY <4>1, <4>2
        <3>2. Accounted(o, creates[d], inHand, cork, sent[d], written[d], chain, w,
                        n, inHand, cork, sent[d] \cup {n}, d)
            BY <3>1 DEF Accounted, Has
        <3>3. Fine(chain, waker, wakerAt, ahead, written[d], w, n, inHand, cork, d, sent[d] \cup {n})
            BY <1>0, <1>3, <1>4, <1>6, <1>7, <3>2, FineGrown DEF FineNow, Chained
        <3> QED BY <1>2, <1>3, <1>8, <1>9, <2>1, <3>3
    <2>2. CASE c # d
        <3>1. FineNow(c)
            BY <1>0, <1>8, <1>15, <2>2
        <3> QED BY <1>2, <1>3, <1>8, <1>9, <2>2, <3>1 DEF FineNow
    <2> QED BY <2>1, <2>2
<1> QED BY <1>12, <1>13, <1>14, <1>15, FeedInvThen

LEMMA LetGoIs ==
    ASSUME NEW o \in Outbounds
    PROVE  /\ LetGo(o) \in Outbounds /\ Grown(chain, o, LetGo(o))
           /\ LetGo(o).closed = o.closed /\ LetGo(o).sub = o.sub
           /\ LetGo(o).holding = FALSE /\ LetGo(o).held = <<>>
<1>1. PICK w : w = LetGo(o)
    OBVIOUS
<1>2. <<>> \in Seq(Nat)
    BY EmptySeq
<1>3. /\ w \in Outbounds /\ w.holding = FALSE /\ w.closed = o.closed /\ w.sub = o.sub /\ w.held = <<>>
      /\ w.queue = o.queue /\ w.accounts = o.accounts /\ w.at = o.at
      /\ w.head = o.head /\ w.reading = o.reading /\ w.batch = o.batch /\ w.ready = o.ready
    BY <1>1, <1>2 DEF Outbounds, LetGo
<1>4. Grown(chain, o, o)
    BY GrownSelf
<1>5. Grown(chain, o, w)
    BY <1>3, <1>4 DEF Grown
<1> QED BY <1>1, <1>3, <1>5

(* The frames a client is let go with, and its create.                    *)
LEMMA GrownTwice ==
    ASSUME NEW o \in Outbounds, NEW v \in Outbounds, NEW w \in Outbounds,
           Grown(chain, o, v), Grown(chain, v, w)
    PROVE  Grown(chain, o, w)
<1>1. PICK x \in Outbounds : x = [v EXCEPT !.closed = o.closed, !.holding = o.holding, !.held = o.held]
    <2>1. [v EXCEPT !.closed = o.closed, !.holding = o.holding, !.held = o.held] \in Outbounds
        BY DEF Outbounds
    <2> QED BY <2>1
<1>2. PICK y \in Outbounds : y = [w EXCEPT !.closed = o.closed, !.holding = o.holding, !.held = o.held]
    <2>1. [w EXCEPT !.closed = o.closed, !.holding = o.holding, !.held = o.held] \in Outbounds
        BY DEF Outbounds
    <2> QED BY <2>1
<1>3. /\ x.closed = o.closed /\ x.holding = o.holding /\ x.held = o.held
      /\ x.sub = v.sub /\ x.queue = v.queue /\ x.accounts = v.accounts /\ x.at = v.at
      /\ x.head = v.head /\ x.reading = v.reading /\ x.batch = v.batch /\ x.ready = v.ready
      /\ y.closed = o.closed /\ y.holding = o.holding /\ y.held = o.held
      /\ y.sub = w.sub /\ y.queue = w.queue /\ y.accounts = w.accounts /\ y.at = w.at
      /\ y.head = w.head /\ y.reading = w.reading /\ y.batch = w.batch /\ y.ready = w.ready
    BY <1>1, <1>2 DEF Outbounds
<1>4. Put(o, x) /\ Put(x, y)
    BY <1>3 DEF Put, Grown
<1>5. Put(o, y)
    BY <1>4, PutTwice
<1> QED BY <1>3, <1>5 DEF Put, Grown

(* A client let go, and what its index was held for.                       *)
LEMMA FreedSeated ==
    ASSUME FeedInv, NEW d \in Clients, NEW w \in Outbounds,
           ~w.closed => ~out[d].closed /\ Grown(chain, out[d], w),
           UNCHANGED <<chain, table, subs>>, out' \in [Clients -> Outbounds], out'[d] = w,
           \A c \in Clients : c # d /\ ~out'[c].closed =>
                ~out[c].closed /\ Grown(chain, out[c], out'[c]) /\ out'[c].holding = out[c].holding,
           \A g \in Maps : heldIdx'[g] \subseteq heldIdx[g]
                                /\ (out[d].sub.feed = g => out[d].sub.me \notin heldIdx'[g])
    PROVE  Seated'
<1>0. /\ Typed /\ Seated /\ Chained /\ Longer(chain, chain)
      /\ \A c \in Clients : out[c] \in Outbounds
    BY FeedInvIs
<1>1. \A c \in Clients : ~out'[c].closed => ~out[c].closed /\ Steady(out[c], out'[c])
    BY <1>0, GrownSteady
<1>2. ASSUME NEW c \in Clients, ~out'[c].closed, out[c].sub.feed # Nobody, out[c].sub.me \in Indices,
             subs[out[c].sub.feed][out[c].sub.me].client = c,
             out[c].sub.me \in heldIdx'[out[c].sub.feed]
      PROVE  out'[c].holding
    <2>1. out[c] \in Outbounds /\ ~out[c].closed
        BY <1>0, <1>1, <1>2
    <2>2. out[c].sub.feed \in Maps
        BY <1>2, <2>1 DEF Outbounds, SomeMap
    <2>3. c # d
        BY <1>2, <2>2
    <2>4. out[c].sub.me \in heldIdx[out[c].sub.feed]
        BY <1>2, <2>2
    <2>5. Seat(subs, heldIdx, c, out[c])
        BY <1>0, <2>1 DEF Seated
    <2> QED BY <1>2, <2>3, <2>4, <2>5 DEF Seat
<1>3. \A c \in Clients : ~out'[c].closed /\ out[c].sub.feed # Nobody /\ out[c].sub.me \in Indices
            /\ subs[out[c].sub.feed][out[c].sub.me].client = c
            /\ out[c].sub.me \in heldIdx'[out[c].sub.feed]
        => out'[c].holding
    BY <1>2
<1> QED BY <1>0, <1>1, <1>3, SeatedKeeps DEF Chained

LEMMA ReleaseInv ==
    ASSUME FeedInv, NEW f \in Maps, NEW d \in Clients, Release(f, d)
    PROVE  FeedInv'
<1>0. /\ Typed /\ Seated /\ Pushing /\ Told /\ Walkable(chain, waker, wakerAt, ahead) /\ Chained
      /\ Longer(chain, chain)
      /\ \A c \in Clients : out[c] \in Outbounds /\ (~out[c].closed => FineNow(c))
    BY FeedInvIs
<1>1. PICK o \in Outbounds : o = out[d]
    BY <1>0
<1>2. PICK cr \in Nat : cr = creates[d]
    BY <1>0 DEF Typed
<1>3. /\ UNCHANGED <<written, chain, subs, signalled, signals, waker, wakerAt, ahead,
                     table, pc, job, inHand, frames>>
      /\ pc[f] = "run" /\ o.holding
      /\ creates' = [creates EXCEPT ![d] = 0]
      /\ heldIdx' = [g \in Maps |-> IF o.sub.feed = g THEN heldIdx[g] \ {o.sub.me} ELSE heldIdx[g]]
    BY <1>1 DEF Release, wakers, bounds
<1>4. PICK w \in Outbounds, k \in Corks :
         /\ out' = [out EXCEPT ![d] = w] /\ cork' = [cork EXCEPT ![f] = k]
         /\ (k.on <=> cork[f].on) /\ (~cork[f].on => k = cork[f]) /\ Gains(cork[f], k, f)
         /\ sent' \in [Clients -> SUBSET Nat] /\ \A c \in Clients : c # d => sent'[c] = sent[c]
         /\ sent'[d] \subseteq sent[d]
         /\ ~w.closed =>
              /\ ~o.closed /\ Grown(chain, o, w) /\ w.holding = FALSE /\ w.held = <<>>
              /\ cr \notin sent'[d] \/ Coming(chain, w, cr) \/ cr \in Keeping(k, f, d, w)
              /\ \A m \in Range(o.held) : Coming(chain, w, m) \/ m \in Keeping(k, f, d, w)
    <2>1. CASE o.held = <<>>
        <3>1. PICK w \in Outbounds : w = LetGo(o)
            BY LetGoIs
        <3>2. out' = [out EXCEPT ![d] = w] /\ cork' = cork
              /\ sent' = [sent EXCEPT ![d] = @ \ {cr}]
            BY <1>1, <1>2, <2>1, <3>1 DEF Release
        <3>3. cork[f] \in Corks /\ cork' = [cork EXCEPT ![f] = cork[f]]
            BY <1>0, <3>2 DEF Typed
        <3>4. Gains(cork[f], cork[f], f)
            BY DEF Gains
        <3>5. /\ sent' \in [Clients -> SUBSET Nat] /\ \A c \in Clients : c # d => sent'[c] = sent[c]
              /\ sent'[d] = sent[d] \ {cr}
            BY <1>0, <3>2 DEF Typed
        <3>6. /\ w.closed = o.closed /\ Grown(chain, o, w) /\ w.holding = FALSE /\ w.held = <<>>
            BY <3>1, LetGoIs
        <3>7. \A m \in Range(o.held) : FALSE
            BY <2>1 DEF Range
        <3>8. /\ ~w.closed => ~o.closed
              /\ cr \notin sent'[d]
            BY <3>5, <3>6
        <3> QED BY <3>2, <3>3, <3>4, <3>5, <3>6, <3>7, <3>8
    <2>2. CASE o.held # <<>>
        <3>1. PICK v \in Outbounds : v = Charged(o) /\ (v.closed \/ Same(o, v))
            BY ChargedIs
        <3>2. PICK ns \in Seq(Nat) : ns = <<cr>> \o o.held
            <4>1. <<cr>> \in Seq(Nat) /\ o.held \in Seq(Nat)
                BY DEF Outbounds
            <4>2. Cat(<<cr>>, o.held) \in Seq(Nat)
                BY <4>1, CatType
            <4> QED BY <4>2 DEF Cat
        <3>3. Range(ns) = {cr} \cup Range(o.held)
            <4>1. PICK a \in Seq(Nat), b \in Seq(Nat) : a = <<cr>> /\ b = o.held
                <5>1. <<cr>> \in Seq(Nat)
                    OBVIOUS
                <5>2. o.held \in Seq(Nat)
                    BY DEF Outbounds
                <5> QED BY <5>1, <5>2, Zenon
            <4>2. Range(Cat(a, b)) = Range(a) \cup Range(b)
                BY RangeCat
            <4>3. Range(<<cr>>) = {cr}
                BY DEF Range
            <4> QED BY <3>2, <4>1, <4>2, <4>3 DEF Cat
        <3>4. PICK u, k : u = MapQueued(f, v, ns) /\ k = Corked(f, v, d, ns)
            OBVIOUS
        <3>5. /\ u \in Outbounds /\ k \in Corks /\ k.on = cork[f].on /\ Gains(cork[f], k, f)
              /\ ~cork[f].on => k = cork[f]
              /\ Put(v, u)
              /\ ~u.closed => \A n \in Range(ns) : Coming(chain, u, n) \/ n \in Keeping(k, f, d, u)
            <4>1. cork[f] \in Corks
                BY <1>0 DEF Typed
            <4> QED BY <1>0, <3>4, <4>1, MappedIs
        <3>6. PICK w \in Outbounds : w = IF v.closed THEN v ELSE LetGo(u)
            BY <3>5, LetGoIs
        <3>11. ns = Released(d)
            BY <1>1, <1>2, <3>2 DEF Released
        <3>7. out' = [out EXCEPT ![d] = w] /\ cork' = [cork EXCEPT ![f] = k] /\ sent' = sent
            BY <1>1, <1>2, <2>2, <3>1, <3>2, <3>4, <3>6, <3>11 DEF Release
        <3>8. ASSUME ~w.closed
              PROVE  /\ ~o.closed /\ Grown(chain, o, w) /\ w.holding = FALSE /\ w.held = <<>>
                     /\ Coming(chain, w, cr) \/ cr \in Keeping(k, f, d, w)
                     /\ \A m \in Range(o.held) : Coming(chain, w, m) \/ m \in Keeping(k, f, d, w)
            <4>1. ~v.closed /\ Same(o, v) /\ w = LetGo(u) /\ v.held = o.held /\ ~o.closed
                BY <3>1, <3>6, <3>8 DEF Same
            <4>2. /\ w.closed = u.closed /\ w.holding = FALSE /\ w.held = <<>>
                  /\ Grown(chain, u, w) /\ w.sub = u.sub
                BY <3>5, <4>1, LetGoIs
            <4>3. Grown(chain, o, w)
                <5>1. Grown(chain, o, v)
                    BY <4>1, SamePut DEF Put
                <5>2. Grown(chain, v, u)
                    BY <3>5 DEF Put
                <5>3. Grown(chain, o, u)
                    BY <3>5, <5>1, <5>2, GrownTwice
                <5> QED BY <3>5, <4>2, <5>3, GrownTwice
            <4>4. ASSUME NEW m \in Range(ns)
                  PROVE  Coming(chain, w, m) \/ m \in Keeping(k, f, d, w)
                <5>1. Coming(chain, u, m) \/ m \in Keeping(k, f, d, u)
                    BY <3>5, <3>8, <4>2
                <5>2. Coming(chain, u, m) => Coming(chain, w, m)
                    BY <1>0, <3>5, <4>2, GrownComing DEF Chained
                <5>3. Keeping(k, f, d, u) = Keeping(k, f, d, w)
                    BY <4>2 DEF Keeping
                <5> QED BY <5>1, <5>2, <5>3
            <4> QED BY <3>3, <4>1, <4>2, <4>3, <4>4
        <3>9. sent \in [Clients -> SUBSET Nat]
            BY <1>0 DEF Typed
        <3> QED BY <3>5, <3>7, <3>8, <3>9
    <2> QED BY <2>1, <2>2
<1>5. /\ out' \in [Clients -> Outbounds] /\ out'[d] = w
      /\ \A c \in Clients : c # d => out'[c] = out[c]
    BY <1>0, <1>4 DEF Typed
<1>6. /\ creates' \in [Clients -> Nat] /\ creates'[d] = 0
      /\ \A c \in Clients : c # d => creates'[c] = creates[c]
    BY <1>0, <1>3 DEF Typed
<1>7. /\ heldIdx' \in [Maps -> SUBSET Indices]
      /\ \A g \in Maps : heldIdx'[g] \subseteq heldIdx[g] /\ (o.sub.feed = g => o.sub.me \notin heldIdx'[g])
    BY <1>0, <1>3 DEF Typed
<1>8. cork' \in [Maps -> Corks]
    BY <1>0, <1>4 DEF Typed
<1>9. Typed'
    BY <1>0, <1>3, <1>4, <1>5, <1>6, <1>7, <1>8 DEF Typed
<1>10. Seated'
    <2>1. \A c \in Clients : c # d /\ ~out'[c].closed =>
            ~out[c].closed /\ Grown(chain, out[c], out'[c]) /\ out'[c].holding = out[c].holding
        BY <1>0, <1>5, GrownSelf
    <2> QED BY <1>1, <1>3, <1>4, <1>5, <1>7, <2>1, FreedSeated
<1>11. Pushing'
    BY <1>0, <1>3, <1>4, PushingCork
<1>12. Told'
    BY <1>0, <1>3 DEF Told
<1>13. ASSUME NEW c \in Clients, ~out'[c].closed
       PROVE  Fine(chain', waker', wakerAt', ahead', written'[c], out'[c], creates'[c], inHand', cork', c, sent'[c])
    <2>0. /\ \A v : \A g \in Maps : Keeping(cork[g], g, c, v) \subseteq Keeping(cork'[g], g, c, v)
          /\ \A v : \A e : \A ih : \A m :
                Elsewhere(v, e, ih, cork, c, m) => Elsewhere(v, e, ih, cork', c, m)
          /\ \A v : \A e : \A ih : \A m \in Keeping(k, f, c, v) : Elsewhere(v, e, ih, cork', c, m)
        BY <1>0, <1>4, ElsewhereGains
    <2>1. CASE c = d
        <3>0. /\ ~o.closed /\ Grown(chain, o, w) /\ w.holding = FALSE /\ w.held = <<>>
              /\ cr \notin sent'[d] \/ Coming(chain, w, cr) \/ cr \in Keeping(k, f, d, w)
              /\ \A m \in Range(o.held) : Coming(chain, w, m) \/ m \in Keeping(k, f, d, w)
            BY <1>4, <1>5, <1>13, <2>1
        <3>1. ASSUME NEW m \in sent'[d], Elsewhere(o, cr, inHand, cork, d, m)
              PROVE  Has(written[d], chain, w, 0, inHand, cork', d, m)
            <4>1. CASE m \in Range(o.held) \/ m = cr
                <5>1. Coming(chain, w, m) \/ m \in Keeping(k, f, d, w)
                    BY <3>0, <4>1
                <5> QED BY <2>0, <2>1, <5>1 DEF Has
            <4>2. CASE ~(m \in Range(o.held) \/ m = cr)
                <5>1. \/ inHand.frame # 0 /\ inHand.client = d /\ m = inHand.frame
                      \/ \E g \in Maps : m \in Keeping(cork[g], g, d, o)
                    BY <3>1, <4>2 DEF Elsewhere
                <5>2. \A g \in Maps : Keeping(cork[g], g, d, o) = Keeping(cork[g], g, d, w)
                    BY <3>0 DEF Keeping, Grown
                <5>3. Elsewhere(w, 0, inHand, cork, d, m)
                    BY <5>1, <5>2 DEF Elsewhere
                <5> QED BY <2>0, <2>1, <5>3 DEF Has
            <4> QED BY <4>1, <4>2
        <3>2. Accounted(o, cr, inHand, cork, sent[d], written[d], chain, w, 0, inHand, cork', sent'[d], d)
            <4>1. \A m \in sent'[d] : m \in sent[d]
                BY <1>4
            <4> QED BY <3>1, <4>1 DEF Accounted
        <3>3. Fine(chain, waker, wakerAt, ahead, written[d], o, cr, inHand, cork, d, sent[d])
            BY <1>0, <1>1, <1>2, <3>0 DEF FineNow
        <3>4. Fine(chain, waker, wakerAt, ahead, written[d], w, 0, inHand, cork', d, sent'[d])
            BY <1>0, <3>0, <3>2, <3>3, FineGrown DEF Chained
        <3> QED BY <1>3, <1>5, <1>6, <2>1, <3>4
    <2>2. CASE c # d
        <3>1. FineNow(c) /\ out[c] \in Outbounds
            BY <1>0, <1>5, <1>13, <2>2
        <3>2. Fine(chain, waker, wakerAt, ahead, written[c], out[c], creates[c], inHand, cork', c, sent[c])
            BY <1>0, <2>0, <3>1, FineSame DEF FineNow, Chained
        <3> QED BY <1>3, <1>4, <1>5, <1>6, <2>2, <3>2
    <2> QED BY <2>1, <2>2
<1> QED BY <1>9, <1>10, <1>11, <1>12, <1>13, FeedInvThen

-----------------------------------------------------------------------------
(* A client's writer.                                                     *)

(* A step that only the writer of d takes.                                *)
LEMMA WriterStep ==
    ASSUME FeedInv, NEW d \in Clients, ~out[d].closed, NEW w \in Outbounds, out' = [out EXCEPT ![d] = w],
           UNCHANGED <<chain, subs, heldIdx, signalled, signals, waker, wakerAt, ahead,
                       table, cork, pc, job, inHand, creates, frames, sent>>,
           w.closed = out[d].closed, w.holding = out[d].holding, w.held = out[d].held,
           Steady(out[d], w), ClientInv(chain, waker, wakerAt, ahead, w),
           written' \in [Clients -> Seq(Nat)],
           \A c \in Clients : c # d => written'[c] = written[c],
           \A n : n \in Range(written[d]) \/ Coming(chain, out[d], n)
                    => n \in Range(written'[d]) \/ Coming(chain, w, n)
    PROVE  FeedInv'
<1>0. /\ Typed /\ Seated /\ Pushing /\ Told /\ Walkable(chain, waker, wakerAt, ahead) /\ Chained
      /\ Longer(chain, chain)
      /\ \A c \in Clients : out[c] \in Outbounds /\ (~out[c].closed => FineNow(c))
    BY FeedInvIs
<1>1. /\ out' \in [Clients -> Outbounds] /\ out'[d] = w
      /\ \A c \in Clients : c # d => out'[c] = out[c]
    BY <1>0 DEF Typed
<1>2. Typed'
    BY <1>0, <1>1 DEF Typed
<1>3. Seated'
    <2>1. \A c \in Clients : ~out'[c].closed => ~out[c].closed /\ Steady(out[c], out'[c])
        BY <1>0, <1>1, GrownSelf, GrownSteady
    <2>2. \A c \in Clients : ~out'[c].closed /\ out[c].sub.feed # Nobody /\ out[c].sub.me \in Indices
                    /\ subs[out[c].sub.feed][out[c].sub.me].client = c
                    /\ out[c].sub.me \in heldIdx'[out[c].sub.feed]
                => out'[c].holding
        BY <1>0, <1>1 DEF Seated, Seat
    <2> QED BY <1>0, <1>1, <2>1, <2>2, SeatedKeeps DEF Chained
<1>4. Pushing' /\ Told'
    BY <1>0 DEF Pushing, Told, InMap, Empty
<1>5. ASSUME NEW c \in Clients, ~out'[c].closed
      PROVE  Fine(chain', waker', wakerAt', ahead', written'[c], out'[c], creates'[c], inHand', cork', c, sent'[c])
    <2>1. CASE c = d
        <3>1. ASSUME NEW m \in sent[d]
              PROVE  Has(written'[d], chain, w, creates[d], inHand, cork, d, m)
            <4>1. Has(written[d], chain, out[d], creates[d], inHand, cork, d, m)
                BY <1>0, <3>1 DEF FineNow, Fine
            <4>2. Elsewhere(out[d], creates[d], inHand, cork, d, m)
                    => Elsewhere(w, creates[d], inHand, cork, d, m)
                BY ElsewhereKeeps DEF Steady
            <4> QED BY <4>1, <4>2 DEF Has
        <3>2. Fine(chain, waker, wakerAt, ahead, written'[d], w, creates[d], inHand, cork, d, sent[d])
            BY <3>1 DEF Fine
        <3> QED BY <1>1, <2>1, <3>2
    <2>2. CASE c # d
        <3>1. FineNow(c)
            BY <1>0, <1>1, <1>5, <2>2
        <3> QED BY <1>1, <2>2, <3>1 DEF FineNow
    <2> QED BY <2>1, <2>2
<1> QED BY <1>2, <1>3, <1>4, <1>5, FeedInvThen

LEMMA SamePlaces ==
    ASSUME NEW ch, NEW o, NEW w, w.queue = o.queue, w.reading = o.reading, w.batch = o.batch,
           w.sub = o.sub
    PROVE  /\ Stamped(ch, o) => Stamped(ch, w)
           /\ Follows(o) => Follows(w)
           /\ \A n : Coming(ch, o, n) => Coming(ch, w, n)
<1>1. /\ Readings(w) = Readings(o)
      /\ \A p : FeedAt(w, p) = FeedAt(o, p) /\ MeAt(w, p) = MeAt(o, p) /\ AfterAt(w, p) = AfterAt(o, p)
      /\ \A p, q : OwnUpTo(w, p, q) <=> OwnUpTo(o, p, q)
    BY DEF Readings, FeedAt, MeAt, AfterAt, OwnUpTo
<1>2. \A p, k : Goes(o, p, k) => Goes(w, p, k)
    BY <1>1 DEF Goes
<1>3. Stamped(ch, o) => Stamped(ch, w)
    BY <1>1 DEF Stamped
<1>4. Follows(o) => Follows(w)
    BY <1>1 DEF Follows
<1>5. \A n : Batched(o, n) => Batched(w, n)
    BY DEF Batched
<1>6. \A n : Queued(o, n) => Queued(w, n)
    BY DEF Queued
<1>7. \A n : ToRead(ch, o, n) => ToRead(ch, w, n)
    BY <1>1, <1>2 DEF ToRead
<1> QED BY <1>3, <1>4, <1>5, <1>6, <1>7 DEF Coming

LEMMA LookInv ==
    ASSUME FeedInv, NEW d \in Clients, Look(d)
    PROVE  FeedInv'
<1>0. /\ Typed /\ Seated /\ Chained /\ Longer(chain, chain)
      /\ \A c \in Clients : out[c] \in Outbounds /\ (~out[c].closed => FineNow(c))
    BY FeedInvIs
<1>1. PICK o \in Outbounds : o = out[d]
    BY <1>0
<1>2. PICK h \in Nat : h = IF o.reading.feed = Nobody THEN 0 ELSE published(o.reading.feed)
    <2>1. o.reading.feed # Nobody => Len(chain[o.reading.feed]) \in Nat
        <3>1. o.reading.feed # Nobody => o.reading.feed \in Maps
            BY DEF Outbounds, SomeMap
        <3> QED BY <1>0, <3>1, LenProperties DEF Chained
    <2> QED BY <2>1 DEF published
<1>3. PICK r \in BOOLEAN : r = (o.ready /\ ~(o.at = "wait" /\ o.queue = <<>>))
    OBVIOUS
<1>4. PICK w : w = [o EXCEPT !.at = "drain", !.ready = r, !.head = h]
    OBVIOUS
<1>5. /\ w \in Outbounds /\ w.holding = o.holding /\ w.closed = o.closed /\ w.sub = o.sub
      /\ w.held = o.held /\ w.queue = o.queue /\ w.accounts = o.accounts /\ w.at = "drain"
      /\ w.head = h /\ w.reading = o.reading /\ w.batch = o.batch
    BY <1>4 DEF Outbounds
<1>6. /\ UNCHANGED <<written, chain, subs, heldIdx, signalled, signals, waker, wakerAt, ahead,
                     table, cork, pc, job, inHand, creates, frames, sent>>
      /\ ~o.closed
    BY <1>1 DEF Look, feeds, wakers, maps, bounds, hist
<1>7. out' = [out EXCEPT ![d] = w]
    BY <1>1, <1>2, <1>3, <1>4 DEF Look
<1>8. Steady(o, w)
    BY <1>5 DEF Steady
<1>9. ClientInv(chain, waker, wakerAt, ahead, w)
    <2>1. Sound(chain, o)
        BY <1>0, <1>1, <1>6 DEF FineNow, Fine, ClientInv
    <2>2. o.reading.feed # Nobody => h = Len(chain[o.reading.feed]) /\ o.reading.feed \in Maps
        BY <1>2 DEF published, Outbounds, SomeMap
    <2>3. \A f \in Maps : Len(chain[f]) \in Nat
        BY <1>0, LenProperties DEF Chained
    <2>4. Stamped(chain, w) /\ Follows(w)
        BY <1>5, <2>1, SamePlaces DEF Sound
    <2>5. Sound(chain, w)
        BY <1>5, <2>1, <2>2, <2>3, <2>4 DEF Sound
    <2>6. Woke(chain, waker, wakerAt, ahead, w)
        BY <1>5, <2>2, <2>3 DEF Woke
    <2> QED BY <2>5, <2>6 DEF ClientInv
<1>10. \A n : n \in Range(written[d]) \/ Coming(chain, o, n)
                => n \in Range(written'[d]) \/ Coming(chain, w, n)
    BY <1>5, <1>6, SamePlaces
<1>11. written' \in [Clients -> Seq(Nat)]
    BY <1>0, <1>6 DEF Typed
<1> QED BY <1>1, <1>5, <1>6, <1>7, <1>8, <1>9, <1>10, <1>11, WriterStep

LEMMA TakeInv ==
    ASSUME FeedInv, NEW d \in Clients, Take(d)
    PROVE  FeedInv'
<1>0. /\ Typed /\ Seated /\ Chained /\ Longer(chain, chain)
      /\ \A c \in Clients : out[c] \in Outbounds /\ (~out[c].closed => FineNow(c))
    BY FeedInvIs
<1>1. PICK o \in Outbounds : o = out[d]
    BY <1>0
<1>2. /\ UNCHANGED <<written, chain, subs, heldIdx, signalled, signals, waker, wakerAt, ahead,
                     table, cork, pc, job, inHand, creates, frames, sent>>
      /\ ~o.closed /\ o.at = "drain" /\ o.queue # <<>>
    BY <1>1 DEF Take, feeds, wakers, maps, bounds, hist
<1>3. PICK w : w = Taken([o EXCEPT !.queue = Tail(@)], Head(o.queue))
    OBVIOUS
<1>4. out' = [out EXCEPT ![d] = w]
    BY <1>1, <1>3 DEF Take
<1>5. ClientInv(chain, waker, wakerAt, ahead, o)
    BY <1>0, <1>1, <1>2 DEF FineNow, Fine
<1>6. Passed(o, w)
    BY <1>0, <1>2, <1>3, <1>5, TakenIs DEF ClientInv
<1>7. w \in Outbounds /\ w.closed = o.closed /\ w.holding = o.holding /\ w.held = o.held
    BY <1>6 DEF Passed
<1>8. Steady(o, w)
    BY <1>6 DEF Passed, Steady
<1>9. ClientInv(chain, waker, wakerAt, ahead, w)
    BY <1>5, <1>6 DEF Passed, ClientInv
<1>10. \A n : n \in Range(written[d]) \/ Coming(chain, o, n)
                => n \in Range(written'[d]) \/ Coming(chain, w, n)
    BY <1>2, <1>6 DEF Passed
<1>11. written' \in [Clients -> Seq(Nat)]
    BY <1>0, <1>2 DEF Typed
<1> QED BY <1>1, <1>2, <1>4, <1>7, <1>8, <1>9, <1>10, <1>11, WriterStep

LEMMA WriteInv ==
    ASSUME FeedInv, NEW d \in Clients, Write(d)
    PROVE  FeedInv'
<1>0. /\ Typed /\ Seated /\ Chained /\ Longer(chain, chain)
      /\ \A c \in Clients : out[c] \in Outbounds /\ (~out[c].closed => FineNow(c))
    BY FeedInvIs
<1>1. PICK o \in Outbounds : o = out[d]
    BY <1>0
<1>2. /\ UNCHANGED <<chain, subs, heldIdx, signalled, signals, waker, wakerAt, ahead,
                     table, cork, pc, job, inHand, creates, frames, sent>>
      /\ ~o.closed /\ o.at = "drain" /\ o.queue = <<>>
    BY <1>1 DEF Write, feeds, wakers, maps, bounds, hist
<1>3. ClientInv(chain, waker, wakerAt, ahead, o)
    BY <1>0, <1>1, <1>2 DEF FineNow, Fine
<1>4. PICK s : s = ReadTo(o, o.head)
    OBVIOUS
<1>5. Len(o.queue) = 0 /\ o.head \in Nat /\ \A f \in Maps : Len(chain[f]) \in Nat
    BY <1>0, <1>2, LenProperties DEF Outbounds, Chained
<1>6. o.reading.feed # Nobody =>
         /\ 0 \in Readings(o) /\ o.reading.feed \in Maps /\ o.reading.at \in Nat
         /\ o.head <= Len(chain[o.reading.feed]) /\ o.reading.at <= Len(chain[o.reading.feed])
    <2> HAVE o.reading.feed # Nobody
    <2>1. 0 \in Readings(o)
        BY <1>5 DEF Readings
    <2>2. o.reading.feed \in Maps /\ o.reading.at \in Nat
        BY DEF Outbounds, SomeMap
    <2> QED BY <1>3, <2>1, <2>2 DEF ClientInv, Sound, Stamped, AfterAt, FeedAt
<1>7. ReadBy(o, o.head, s)
    BY <1>0, <1>4, <1>5, <1>6, ReadToIs
<1>8. \A p : \A q : OwnUpTo(o, p, q) <=> \A r \in (p + 1)..q : o.queue[r].kind = "own"
    BY DEF OwnUpTo
<1>9. written \in [Clients -> Seq(Nat)] /\ written[d] \in Seq(Nat)
    BY <1>0 DEF Typed
<1>10. CASE s.batch = <<>>
    <2>1. out' = [out EXCEPT ![d] = [o EXCEPT !.at = "wait", !.head = 0]] /\ written' = written
        BY <1>1, <1>4, <1>10 DEF Write
    <2>2. PICK w : w = [o EXCEPT !.at = "wait", !.head = 0]
        OBVIOUS
    <2>3. /\ w \in Outbounds /\ w.holding = o.holding /\ w.closed = o.closed /\ w.sub = o.sub
          /\ w.held = o.held /\ w.queue = o.queue /\ w.accounts = o.accounts /\ w.at = "wait"
          /\ w.head = 0 /\ w.reading = o.reading /\ w.batch = o.batch /\ w.ready = o.ready
        BY <2>2 DEF Outbounds
    <2>4. Steady(o, w)
        BY <2>3 DEF Steady
    <2>5. Stamped(chain, w) /\ Follows(w)
        BY <1>3, <2>3, SamePlaces DEF Sound, ClientInv
    <2>6. o.batch = <<>>
        BY <1>7, <1>10 DEF ReadBy
    <2>7. Sound(chain, w)
        BY <1>3, <1>5, <1>6, <2>3, <2>5, <2>6 DEF Sound, ClientInv
    <2>8. Woke(chain, waker, wakerAt, ahead, w)
        <3> SUFFICES ASSUME w.reading.feed # Nobody, OwnUpTo(w, 0, Len(w.queue)),
                            NEW k \in 1..Len(chain[w.reading.feed]), w.reading.at < k,
                            k <= Walked(waker, wakerAt, w.reading.feed), k \notin ahead[w.reading.feed],
                            Of(chain[w.reading.feed][k], w.reading.me) # {}
                     PROVE  w.ready
            BY DEF Woke
        <3>1. k \in Nat /\ OwnUpTo(o, 0, Len(o.queue))
            BY <1>5, <1>6, <2>3 DEF OwnUpTo
        <3>2. CASE k <= o.head
            <4>1. PICK n : n \in Of(chain[o.reading.feed][k], o.reading.me)
                BY <2>3
            <4>2. Batched(s, n)
                BY <1>7, <2>3, <3>2, <4>1 DEF ReadBy
            <4>3. Len(s.batch) = 0
                BY <1>10
            <4> QED BY <4>2, <4>3 DEF Batched
        <3>3. CASE o.head < k
            BY <1>2, <1>3, <2>3, <3>1, <3>3 DEF Woke, ClientInv
        <3> QED BY <1>5, <3>1, <3>2, <3>3
    <2>9. \A n : n \in Range(written[d]) \/ Coming(chain, o, n)
                    => n \in Range(written'[d]) \/ Coming(chain, w, n)
        BY <2>1, <2>3, SamePlaces
    <2>10. out' = [out EXCEPT ![d] = w]
        BY <2>1, <2>2
    <2>11. ClientInv(chain, waker, wakerAt, ahead, w)
        BY <2>7, <2>8 DEF ClientInv
    <2> QED BY <1>1, <1>2, <1>9, <2>1, <2>3, <2>4, <2>9, <2>10, <2>11, WriterStep
<1>11. CASE s.batch # <<>>
    <2>1. PICK fr : fr = [i \in 1..Len(s.batch) |-> s.batch[i].frame]
        OBVIOUS
    <2>2. PICK w : w = [s EXCEPT !.batch = <<>>, !.at = "look", !.head = 0,
                                 !.queued = @ - (Len(s.batch) - Bytes(s.batch))]
        OBVIOUS
    <2>3. out' = [out EXCEPT ![d] = w] /\ written' = [written EXCEPT ![d] = @ \o fr]
        BY <1>1, <1>4, <1>11, <2>1, <2>2 DEF Write, GivenBack
    <2>4. s \in Outbounds /\ s.batch \in Seq(Bits) /\ Len(s.batch) \in Nat /\ Bytes(s.batch) \in Nat
        <3>1. s \in Outbounds /\ s.batch \in Seq(Bits)
            BY <1>7 DEF ReadBy, Outbounds
        <3> QED BY <3>1, BytesNat, LenProperties
    <2>5. fr \in Seq(Nat) /\ Len(fr) = Len(s.batch) /\ \A i \in 1..Len(s.batch) : fr[i] = s.batch[i].frame
        <3>1. \A i \in 1..Len(s.batch) : s.batch[i] \in Bits
            BY <2>4, ElementOfSeq
        <3> QED BY <2>1, <2>4, <3>1 DEF Bits
    <2>6. <<>> \in Seq(Bits)
        BY EmptySeq
    <2>7. /\ w \in Outbounds /\ w.holding = s.holding /\ w.closed = s.closed /\ w.sub = s.sub
          /\ w.held = s.held /\ w.queue = s.queue /\ w.accounts = s.accounts /\ w.at = "look"
          /\ w.head = 0 /\ w.reading = s.reading /\ w.batch = <<>>
        <3>1. PICK q \in Int : q = s.queued - (Len(s.batch) - Bytes(s.batch))
            <4>1. s.queued \in Int
                BY <2>4 DEF Outbounds
            <4> QED BY <2>4, <4>1
        <3>2. w = [s EXCEPT !.batch = <<>>, !.at = "look", !.head = 0, !.queued = q]
            BY <2>2, <3>1
        <3> QED BY <2>4, <2>6, <3>2 DEF Outbounds
    <2>8. /\ w.holding = o.holding /\ w.closed = o.closed /\ w.sub = o.sub /\ w.held = o.held
          /\ w.queue = o.queue /\ w.reading.feed = o.reading.feed /\ w.reading.me = o.reading.me
          /\ w.reading.at \in Nat /\ o.reading.at \in Nat
          /\ o.reading.at <= w.reading.at
          /\ Len(w.accounts) = Len(o.accounts)
          /\ \A a \in 1..Len(o.accounts) : w.accounts[a].open = o.accounts[a].open
        <3>1. w.reading.at \in Nat /\ o.reading.at \in Nat
            BY <2>7 DEF Outbounds
        <3> QED BY <1>7, <2>7, <3>1 DEF ReadBy
    <2>9. Readings(w) = Readings(o) /\ Readings(o) \subseteq {0}
        BY <1>5, <2>8 DEF Readings
    <2>10. /\ FeedAt(w, 0) = FeedAt(o, 0) /\ MeAt(w, 0) = MeAt(o, 0)
           /\ AfterAt(w, 0) = w.reading.at /\ AfterAt(o, 0) = o.reading.at
           /\ FeedAt(o, 0) = o.reading.feed /\ MeAt(o, 0) = o.reading.me
           /\ OwnUpTo(w, 0, Len(w.queue)) <=> OwnUpTo(o, 0, Len(o.queue))
        BY <2>8 DEF FeedAt, MeAt, AfterAt, OwnUpTo
    <2>11. Stamped(chain, w)
        <3> SUFFICES ASSUME NEW p \in Readings(w)
                     PROVE  /\ AfterAt(w, p) <= Len(chain[FeedAt(w, p)])
                            /\ OwnUpTo(w, p, Len(w.queue)) => FeedAt(w, p) = w.sub.feed /\ MeAt(w, p) = w.sub.me
            <4>1. \A p \in Readings(w) : (p + 1)..Len(w.queue) = {}
                BY <1>5, <2>8, <2>9
            <4> QED BY <4>1 DEF Stamped
        <3>1. p = 0 /\ p \in Readings(o) /\ o.reading.feed # Nobody
            BY <2>9 DEF Readings
        <3>2. AfterAt(w, p) <= Len(chain[FeedAt(w, p)])
            BY <1>7, <2>7, <2>10, <3>1 DEF ReadBy
        <3>3. OwnUpTo(o, p, Len(o.queue)) => FeedAt(o, p) = o.sub.feed /\ MeAt(o, p) = o.sub.me
            BY <1>3, <3>1 DEF Stamped, Sound, ClientInv
        <3> QED BY <2>8, <2>10, <3>1, <3>2, <3>3
    <2>12. Follows(w)
        <3>1. Follows(o)
            BY <1>3 DEF Sound, ClientInv
        <3> QED BY <2>8, <2>9, <2>10, <3>1 DEF Follows
    <2>13. ClientInv(chain, waker, wakerAt, ahead, w)
        <3>1. Sound(chain, w)
            BY <1>3, <1>5, <1>6, <2>7, <2>8, <2>11, <2>12 DEF Sound, ClientInv
        <3>2. Woke(chain, waker, wakerAt, ahead, w)
            BY <2>7 DEF Woke
        <3> QED BY <3>1, <3>2 DEF ClientInv
    <2>14. Steady(o, w)
        BY <2>8 DEF Steady
    <2>15. /\ written' \in [Clients -> Seq(Nat)]
           /\ \A c \in Clients : c # d => written'[c] = written[c]
           /\ Range(written'[d]) = Range(written[d]) \cup Range(fr)
        <3>1. Cat(written[d], fr) \in Seq(Nat)
            BY <1>9, <2>5, CatType
        <3>2. Range(Cat(written[d], fr)) = Range(written[d]) \cup Range(fr)
            BY <1>9, <2>5, RangeCat
        <3>3. written' = [written EXCEPT ![d] = Cat(written[d], fr)]
            BY <2>3 DEF Cat
        <3> QED BY <1>9, <3>1, <3>2, <3>3
    <2>16. ASSUME NEW n, Batched(s, n)
           PROVE  n \in Range(fr)
        <3>1. PICK i \in 1..Len(s.batch) : s.batch[i].frame = n
            BY <2>16 DEF Batched
        <3>2. fr[i] \in Range(fr)
            BY <2>5, <3>1, RangeIs
        <3> QED BY <2>5, <3>1, <3>2
    <2>17. ASSUME NEW n, Coming(chain, o, n)
           PROVE  n \in Range(fr) \/ Coming(chain, w, n)
        <3>1. CASE Batched(o, n)
            BY <1>7, <2>16, <3>1 DEF ReadBy
        <3>2. CASE Queued(o, n)
            BY <1>5, <3>2 DEF Queued
        <3>3. CASE ToRead(chain, o, n)
            <4>1. PICK p \in Readings(o) : \E k \in 1..Len(chain[FeedAt(o, p)]) :
                      AfterAt(o, p) < k /\ Goes(o, p, k) /\ n \in Of(chain[FeedAt(o, p)][k], MeAt(o, p))
                BY <3>3 DEF ToRead
            <4>2. PICK k \in 1..Len(chain[FeedAt(o, p)]) :
                      AfterAt(o, p) < k /\ n \in Of(chain[FeedAt(o, p)][k], MeAt(o, p))
                BY <4>1
            <4>3. p = 0 /\ o.reading.feed # Nobody /\ k \in Nat
                BY <1>6, <2>9 DEF Readings
            <4>4. CASE k <= s.reading.at
                <5>1. s.reading.at = o.head
                    BY <1>5, <1>7, <2>7, <2>8, <2>10, <4>2, <4>3, <4>4 DEF ReadBy
                <5>2. Batched(s, n)
                    BY <1>7, <2>10, <4>2, <4>3, <4>4, <5>1 DEF ReadBy
                <5> QED BY <2>16, <5>2
            <4>5. CASE s.reading.at < k
                <5>1. Goes(w, 0, k)
                    BY <1>5, <2>8 DEF Goes
                <5>2. ToRead(chain, w, n)
                    BY <2>7, <2>9, <2>10, <4>1, <4>2, <4>3, <4>5, <5>1 DEF ToRead
                <5> QED BY <5>2 DEF Coming
            <4> QED BY <2>7, <2>8, <4>3, <4>4, <4>5
        <3> QED BY <2>17, <3>1, <3>2, <3>3 DEF Coming
    <2>18. \A n : n \in Range(written[d]) \/ Coming(chain, o, n)
                    => n \in Range(written'[d]) \/ Coming(chain, w, n)
        BY <2>15, <2>17
    <2> QED BY <1>1, <1>2, <2>3, <2>7, <2>8, <2>13, <2>14, <2>15, <2>18, WriterStep
<1> QED BY <1>10, <1>11

-----------------------------------------------------------------------------
(* A map's cork put on, and what it kept published.                       *)
LEMMA CorkOnInv ==
    ASSUME FeedInv, NEW f \in Maps, CorkOn(f)
    PROVE  FeedInv'
<1>0. /\ Typed /\ Seated /\ Pushing /\ Told /\ Walkable(chain, waker, wakerAt, ahead) /\ Chained
      /\ Longer(chain, chain)
      /\ \A c \in Clients : out[c] \in Outbounds /\ (~out[c].closed => FineNow(c))
    BY FeedInvIs
<1>1. /\ UNCHANGED <<out, written, chain, subs, heldIdx, signalled, signals, waker, wakerAt, ahead,
                     table, pc, job, inHand, creates, frames, sent>>
      /\ pc[f] = "run" /\ ~cork[f].on
    BY DEF CorkOn, feeds, wakers, hist
<1>2. PICK k : k = [cork[f] EXCEPT !.on = TRUE]
    OBVIOUS
<1>3. cork[f] \in Corks
    BY <1>0 DEF Typed
<1>4. /\ k.on = TRUE /\ k.log = cork[f].log /\ k.directs = cork[f].directs /\ k.slots = cork[f].slots
      /\ k \in Corks
    BY <1>2, <1>3 DEF Corks
<1>5. cork' = [cork EXCEPT ![f] = k]
    BY <1>2 DEF CorkOn
<1>6. Gains(cork[f], k, f)
    BY <1>4 DEF Gains, Keeping
<1>7. cork' \in [Maps -> Corks] /\ cork'[f] = k /\ \A g \in Maps : g # f => cork'[g] = cork[g]
    BY <1>0, <1>4, <1>5 DEF Typed
<1>8. Typed'
    BY <1>0, <1>1, <1>7 DEF Typed
<1>9. Seated' /\ Told'
    BY <1>0, <1>1 DEF Seated, Told
<1>10. Pushing'
    <2>1. ASSUME NEW g \in Maps
          PROVE  /\ job'[g].do = "leave" => job'[g].client \in Clients /\ InMap(g, job[g].client)
                 /\ pc'[g] = "run" => job'[g].do = "none"
                 /\ ~cork'[g].on /\ pc'[g] # "number" => Empty(cork'[g])
                 /\ pc'[g] # "run" => \A c \in Clients : cork'[g].slots[c] = <<>>
                 /\ pc'[g] \in {"signal", "done"} => Empty(cork'[g])
        BY <1>0, <1>1, <1>4, <1>7 DEF Pushing
    <2>2. \A g \in Maps : InMap(g, job[g].client) => InMap(g, job[g].client)'
        BY <1>1 DEF InMap
    <2> HIDE DEF InMap
    <2> QED BY <1>1, <2>1, <2>2 DEF Pushing
<1>11. ASSUME NEW c \in Clients, ~out'[c].closed
       PROVE  Fine(chain', waker', wakerAt', ahead', written'[c], out'[c], creates'[c], inHand', cork', c, sent'[c])
    <2>0. \A v : \A g \in Maps : Keeping(cork[g], g, c, v) \subseteq Keeping(cork'[g], g, c, v)
        BY <1>0, <1>5, <1>6, ElsewhereGains
    <2>1. FineNow(c) /\ out[c] \in Outbounds
        BY <1>0, <1>1, <1>11
    <2>2. Fine(chain, waker, wakerAt, ahead, written[c], out[c], creates[c], inHand, cork', c, sent[c])
        BY <1>0, <2>0, <2>1, FineSame DEF FineNow, Chained
    <2> QED BY <1>1, <2>2
<1> QED BY <1>8, <1>9, <1>10, <1>11, FeedInvThen

LEMMA PublishIs ==
    ASSUME Chained, NEW f \in Maps, NEW x \in Chunks, chain' = [chain EXCEPT ![f] = Append(@, x)]
    PROVE  /\ chain' \in [Maps -> Seq(Chunks)] /\ Longer(chain, chain')
           /\ Len(chain[f]) \in Nat /\ Len(chain'[f]) = Len(chain[f]) + 1
           /\ chain'[f][Len(chain[f]) + 1] = x
           /\ \A g \in Maps : g # f => chain'[g] = chain[g]
<1>1. PICK s \in Seq(Chunks) : s = chain[f]
    BY DEF Chained
<1>2. PICK t : t = Append(s, x)
    OBVIOUS
<1>3. t \in Seq(Chunks) /\ Len(s) \in Nat /\ Len(t) = Len(s) + 1
    BY <1>2, AppendProperties, LenProperties
<1>4. t[Len(s) + 1] = x /\ \A i \in 1..Len(s) : t[i] = s[i]
    BY <1>2, AppendProperties
<1>5. /\ chain' \in [Maps -> Seq(Chunks)] /\ chain'[f] = t
      /\ \A g \in Maps : g # f => chain'[g] = chain[g]
    BY <1>1, <1>2, <1>3 DEF Chained
<1>6. \A g \in Maps : Len(chain[g]) \in Nat
    BY LenProperties DEF Chained
<1>7. Longer(chain, chain')
    BY <1>1, <1>3, <1>4, <1>5, <1>6 DEF Longer
<1> QED BY <1>1, <1>3, <1>4, <1>5, <1>7

LEMMA EmptyCorkIs ==
    ASSUME NEW f \in Maps, cork[f] \in Corks
    PROVE  EmptyCork(f) \in Corks /\ Empty(EmptyCork(f)) /\ EmptyCork(f).on = cork[f].on
<1>1. PICK k : k = EmptyCork(f)
    OBVIOUS
<1>2. PICK sl : sl = [c \in Clients |-> <<>>]
    OBVIOUS
<1>3. sl \in [Clients -> Seq(Nat)] /\ \A c \in Clients : sl[c] = <<>>
    BY <1>2, EmptySeq
<1>4. /\ k.on = cork[f].on /\ k.log = <<>> /\ k.directs = <<>> /\ k.slots = sl
      /\ k = [on |-> cork[f].on, log |-> <<>>, directs |-> <<>>, slots |-> sl]
    BY <1>1, <1>2 DEF EmptyCork, Corks
<1>5. k \in Corks
    <2>1. <<>> \in Seq(Broadcasts) /\ <<>> \in Seq(Directs) /\ cork[f].on \in BOOLEAN
        BY EmptySeq DEF Corks
    <2>2. 1..Len(<<>>) = {}
        OBVIOUS
    <2> QED BY <1>3, <1>4, <2>1, <2>2 DEF Corks
<1> QED BY <1>1, <1>3, <1>4, <1>5 DEF Empty

(* What the cork keeps but in slots is for the feed's readers.            *)
LEMMA KeepingOf ==
    ASSUME NEW k \in Corks, NEW f, NEW c \in Clients, k.slots[c] = <<>>, NEW o,
           NEW n \in Keeping(k, f, c, o)
    PROVE  o.sub.feed = f /\ n \in Of([log |-> k.log, directs |-> k.directs], o.sub.me)
<1>1. k.log \in Seq(Broadcasts) /\ k.directs \in Seq(Directs)
    BY CorkIs
<1>2. Range(k.slots[c]) = {}
    BY DEF Range
<1>3. CASE n \in {d.frame : d \in {x \in Range(k.directs) : o.sub.feed = f /\ x.me = o.sub.me}}
    <2>1. PICK d \in Range(k.directs) : o.sub.feed = f /\ d.me = o.sub.me /\ n = d.frame
        BY <1>3
    <2>2. PICK i \in 1..Len(k.directs) : d = k.directs[i]
        BY <1>1, <2>1, RangeIs
    <2> QED BY <2>1, <2>2 DEF Of
<1>4. CASE n \in {b.frame : b \in {x \in Range(k.log) : o.sub.feed = f /\ o.sub.me \in x.to}}
    <2>1. PICK b \in Range(k.log) : o.sub.feed = f /\ o.sub.me \in b.to /\ n = b.frame
        BY <1>4
    <2>2. PICK i \in 1..Len(k.log) : b = k.log[i]
        BY <1>1, <2>1, RangeIs
    <2> QED BY <2>1, <2>2 DEF Of
<1> QED BY <1>2, <1>3, <1>4 DEF Keeping

LEMMA SteadySelf ==
    ASSUME NEW o \in Outbounds
    PROVE  Steady(o, o)
BY GrownSelf, GrownSteady

LEMMA PublishCorkInv ==
    ASSUME FeedInv, NEW f \in Maps, PublishCork(f)
    PROVE  FeedInv'
<1>0. /\ Typed /\ Seated /\ Pushing /\ Told
      /\ \A c \in Clients : out[c] \in Outbounds /\ (~out[c].closed => FineNow(c))
    BY FeedInvIs
<1>1. /\ UNCHANGED <<out, written, chain, subs, heldIdx, signalled, signals, waker, wakerAt, ahead,
                     table, cork, job, inHand, creates, frames, sent>>
      /\ pc[f] = "publish" /\ pc' = [pc EXCEPT ![f] = "number"]
    BY DEF PublishCork, feeds, wakers, bounds, hist
<1>2. /\ pc' \in [Maps -> {"run", "publish", "number", "signal", "done"}]
      /\ pc'[f] = "number" /\ \A g \in Maps : g # f => pc'[g] = pc[g]
    BY <1>0, <1>1 DEF Typed
<1>3. Typed'
    BY <1>0, <1>1, <1>2 DEF Typed
<1>4. Seated'
    BY <1>0, <1>1 DEF Seated
<1>5. Pushing'
    <2>1. ASSUME NEW g \in Maps
          PROVE  /\ job'[g].do = "leave" => job'[g].client \in Clients /\ InMap(g, job[g].client)
                 /\ pc'[g] = "run" => job'[g].do = "none"
                 /\ ~cork'[g].on /\ pc'[g] # "number" => Empty(cork'[g])
                 /\ pc'[g] # "run" => \A c \in Clients : cork'[g].slots[c] = <<>>
                 /\ pc'[g] \in {"signal", "done"} => Empty(cork'[g])
        BY <1>0, <1>1, <1>2 DEF Pushing
    <2>2. \A g \in Maps : InMap(g, job[g].client) => InMap(g, job[g].client)'
        BY <1>1 DEF InMap
    <2> HIDE DEF InMap
    <2> QED BY <1>1, <2>1, <2>2 DEF Pushing
<1>6. Told'
    <2>1. ASSUME NEW g \in Maps
          PROVE  /\ Walks(Len(chain[g]), wakerAt[g], ahead[g], pc'[g])
                 /\ wakerAt[g] < Len(chain[g]) =>
                        \/ pc'[g] = "signal" \/ signalled[g]
                        \/ waker.at = "walk" /\ waker.feed = g
        BY <1>0, <1>1, <1>2 DEF Told, Walks
    <2> QED BY <1>0, <1>1, <2>1 DEF Told
<1>7. ASSUME NEW c \in Clients, ~out'[c].closed
      PROVE  Fine(chain', waker', wakerAt', ahead', written'[c], out'[c], creates'[c], inHand', cork', c, sent'[c])
    <2>1. FineNow(c)
        BY <1>0, <1>1, <1>7
    <2> QED BY <1>1, <2>1 DEF FineNow
<1> QED BY <1>3, <1>4, <1>5, <1>6, <1>7, FeedInvThen

LEMMA NumberInv ==
    ASSUME FeedInv, NEW f \in Maps, Number(f)
    PROVE  FeedInv'
<1>0. /\ Typed /\ Seated /\ Pushing /\ Told /\ Walkable(chain, waker, wakerAt, ahead) /\ Chained
      /\ Longer(chain, chain)
      /\ \A c \in Clients : out[c] \in Outbounds /\ (~out[c].closed => FineNow(c))
    BY FeedInvIs
<1>1. /\ UNCHANGED <<out, written, subs, heldIdx, signalled, signals, waker, wakerAt, ahead,
                     table, job, inHand, creates, frames, sent>>
      /\ pc[f] = "number" /\ pc' = [pc EXCEPT ![f] = "signal"]
    BY DEF Number, wakers, bounds, hist
<1>2. PICK q \in Corks : q = cork[f]
    BY <1>0 DEF Typed
<1>3. PICK x : x = [log |-> q.log, directs |-> q.directs]
    OBVIOUS
<1>4. x \in Chunks
    BY <1>3, CorkIs DEF Chunks
<1>5. chain' = [chain EXCEPT ![f] = Append(@, x)]
    BY <1>1, <1>2, <1>3 DEF Number, Linked
<1>6. /\ chain' \in [Maps -> Seq(Chunks)] /\ Longer(chain, chain')
      /\ Len(chain[f]) \in Nat /\ Len(chain'[f]) = Len(chain[f]) + 1
      /\ chain'[f][Len(chain[f]) + 1] = x
      /\ \A g \in Maps : g # f => chain'[g] = chain[g]
    BY <1>0, <1>4, <1>5, PublishIs
<1>7. PICK k \in Corks : k = EmptyCork(f) /\ Empty(k) /\ k.on = q.on
    BY <1>2, EmptyCorkIs
<1>8. /\ cork' \in [Maps -> Corks] /\ cork'[f] = k /\ \A g \in Maps : g # f => cork'[g] = cork[g]
    BY <1>0, <1>7 DEF Number, Typed
<1>9. /\ pc' \in [Maps -> {"run", "publish", "number", "signal", "done"}]
      /\ pc'[f] = "signal" /\ \A g \in Maps : g # f => pc'[g] = pc[g]
    BY <1>0, <1>1 DEF Typed
<1>10. Typed'
    BY <1>0, <1>1, <1>6, <1>8, <1>9 DEF Typed
<1>11. Seated'
    <2>1. \A c \in Clients : ~out'[c].closed => ~out[c].closed /\ Steady(out[c], out'[c])
        BY <1>0, <1>1, SteadySelf
    <2>2. \A c \in Clients : ~out'[c].closed /\ out[c].sub.feed # Nobody /\ out[c].sub.me \in Indices
                    /\ subs[out[c].sub.feed][out[c].sub.me].client = c
                    /\ out[c].sub.me \in heldIdx'[out[c].sub.feed]
                => out'[c].holding
        BY <1>0, <1>1 DEF Seated, Seat
    <2>3. out' \in [Clients -> Outbounds]
        BY <1>0, <1>1 DEF Typed
    <2> QED BY <1>0, <1>1, <1>6, <2>1, <2>2, <2>3, SeatedKeeps
<1>12. Pushing'
    <2>1. ASSUME NEW g \in Maps
          PROVE  /\ job'[g].do = "leave" => job'[g].client \in Clients /\ InMap(g, job[g].client)
                 /\ pc'[g] = "run" => job'[g].do = "none"
                 /\ ~cork'[g].on /\ pc'[g] # "number" => Empty(cork'[g])
                 /\ pc'[g] # "run" => \A c \in Clients : cork'[g].slots[c] = <<>>
                 /\ pc'[g] \in {"signal", "done"} => Empty(cork'[g])
        BY <1>0, <1>1, <1>7, <1>8, <1>9 DEF Pushing, Empty
    <2>2. \A g \in Maps : InMap(g, job[g].client) => InMap(g, job[g].client)'
        BY <1>1 DEF InMap
    <2> HIDE DEF InMap
    <2> QED BY <1>1, <2>1, <2>2 DEF Pushing
<1>13. Told'
    <2>1. ASSUME NEW g \in Maps
          PROVE  /\ Walks(Len(chain'[g]), wakerAt[g], ahead[g], pc'[g])
                 /\ wakerAt[g] < Len(chain'[g]) =>
                        \/ pc'[g] = "signal" \/ signalled[g]
                        \/ waker.at = "walk" /\ waker.feed = g
        <3>1. wakerAt[g] \in Nat /\ Walks(Len(chain[g]), wakerAt[g], ahead[g], pc[g])
            BY <1>0 DEF Typed, Told
        <3>2. Walks(Len(chain'[g]), wakerAt[g], ahead[g], pc'[g])
            BY <1>0, <1>6, <1>9, <3>1 DEF Walks
        <3> QED BY <1>0, <1>1, <1>6, <1>9, <3>2 DEF Told
    <2> QED BY <1>0, <1>1, <2>1 DEF Told
<1>14. ASSUME NEW c \in Clients, ~out'[c].closed
       PROVE  Fine(chain', waker', wakerAt', ahead', written'[c], out'[c], creates'[c], inHand', cork', c, sent'[c])
    <2>1. PICK o \in Outbounds : o = out[c]
        BY <1>0
    <2>2. FineNow(c) /\ ~o.closed
        BY <1>0, <1>1, <1>14, <2>1
    <2>3. Stamped(chain, o) /\ Follows(o) /\ (~o.holding => o.held = <<>>)
        BY <2>1, <2>2 DEF FineNow, Fine, ClientInv, Sound
    <2>4. ASSUME NEW n, Elsewhere(o, creates[c], inHand, cork, c, n)
          PROVE  Has(written[c], chain', o, creates[c], inHand, cork', c, n)
        <3>1. CASE n \in Keeping(q, f, c, o)
            <4>1. q.slots[c] = <<>>
                BY <1>0, <1>1, <1>2 DEF Pushing
            <4>2. o.sub.feed = f /\ n \in Of(x, o.sub.me)
                BY <1>3, <3>1, <4>1, KeepingOf
            <4>3. f # Nobody
                BY FeedAssumption
            <4>4. Len(chain[f]) + 1 \in 1..Len(chain'[f]) /\ Len(chain[f]) < Len(chain[f]) + 1
                BY <1>6
            <4>5. Coming(chain', o, n)
                BY <1>0, <1>6, <2>3, <4>2, <4>3, <4>4, PublishedComing DEF Chained
            <4> QED BY <4>5 DEF Has
        <3>2. CASE n \notin Keeping(q, f, c, o)
            BY <1>2, <1>8, <2>4, <3>2 DEF Elsewhere, Has
        <3> QED BY <3>1, <3>2
    <2>5. Accounted(o, creates[c], inHand, cork, sent[c], written[c], chain', o, creates[c],
                    inHand, cork', sent[c], c)
        BY <2>4 DEF Accounted
    <2>6. Fine(chain, waker, wakerAt, ahead, written[c], o, creates[c], inHand, cork, c, sent[c])
        BY <2>1, <2>2 DEF FineNow
    <2>7. Grown(chain, o, o)
        BY GrownSelf
    <2>8. Fine(chain', waker, wakerAt, ahead, written[c], o, creates[c], inHand, cork', c, sent[c])
        BY <1>0, <1>6, <2>3, <2>5, <2>6, <2>7, FineGrown
    <2> QED BY <1>1, <2>1, <2>8
<1> QED BY <1>10, <1>11, <1>12, <1>13, <1>14, FeedInvThen

-----------------------------------------------------------------------------
(* Players put in a map, and connections that take theirs over.            *)
LEMMA ArriveInv ==
    ASSUME FeedInv, NEW f \in Maps, NEW d \in Clients, Arrive(f, d)
    PROVE  FeedInv'
<1>0. /\ Typed /\ Seated /\ Pushing /\ Told
      /\ \A c \in Clients : out[c] \in Outbounds /\ (~out[c].closed => FineNow(c))
    BY FeedInvIs
<1>1. /\ UNCHANGED <<out, written, chain, subs, heldIdx, signalled, signals, waker, wakerAt, ahead,
                     cork, pc, job, inHand, creates, frames, sent>>
      /\ ~Placed(d)
    BY DEF Arrive, feeds, wakers, hist
<1>2. PICK i \in Indices : table[f][i] = Nobody /\ table' = [table EXCEPT ![f][i] = d]
    BY DEF Arrive
<1>3. /\ table' \in [Maps -> [Indices -> SomeOne]]
      /\ \A g \in Maps : \A j \in Indices :
            table'[g][j] = IF g = f /\ j = i THEN d ELSE table[g][j]
    BY <1>0, <1>2 DEF Typed, SomeOne
<1>4. d # Nobody /\ \A g \in Maps : \A j \in Indices : table[g][j] # d
    BY <1>1, FeedAssumption DEF Placed, InMap
<1>5. OnePlace(table')
    <2> SUFFICES ASSUME NEW g \in Maps, NEW h \in Maps, NEW j \in Indices, NEW k \in Indices,
                        table'[g][j] = table'[h][k], table'[g][j] # Nobody
                 PROVE  g = h /\ j = k
        BY DEF OnePlace
    <2>1. OnePlace(table)
        BY <1>0 DEF Seated
    <2>2. CASE g = f /\ j = i
        BY <1>3, <1>4, <2>2
    <2>3. CASE ~(g = f /\ j = i)
        <3>1. table'[g][j] = table[g][j]
            BY <1>3, <2>3
        <3>2. table'[h][k] = table[h][k]
            BY <1>3, <1>4, <3>1
        <3>3. table[g][j] = table[h][k] /\ table[g][j] # Nobody
            BY <3>1, <3>2
        <3> QED BY <2>1, <3>3 DEF OnePlace
    <2> QED BY <2>2, <2>3
<1>6. Known(table', subs)
    <2>1. Known(table, subs)
        BY <1>0 DEF Seated
    <2> QED BY <1>2, <1>3, <2>1 DEF Known
<1>7. Seated'
    BY <1>0, <1>1, <1>5, <1>6 DEF Seated
<1>8. Typed'
    BY <1>0, <1>1, <1>3 DEF Typed
<1>9. Pushing'
    <2>1. ASSUME NEW g \in Maps, NEW e \in Clients, InMap(g, e)
          PROVE  InMap(g, e)'
        BY <1>2, <1>3, <2>1, FeedAssumption DEF InMap
    <2> HIDE DEF InMap
    <2> QED BY <1>0, <1>1, <2>1 DEF Pushing
<1>10. Told'
    BY <1>0, <1>1 DEF Told
<1>11. ASSUME NEW c \in Clients, ~out'[c].closed
       PROVE  Fine(chain', waker', wakerAt', ahead', written'[c], out'[c], creates'[c], inHand', cork', c, sent'[c])
    <2>1. FineNow(c)
        BY <1>0, <1>1, <1>11
    <2> QED BY <1>1, <2>1 DEF FineNow
<1> QED BY <1>7, <1>8, <1>9, <1>10, <1>11, FeedInvThen

(* An index taken from a client that isn't `c`.                           *)
Without(sb, f, i) == [sb EXCEPT ![f][i] = NoReader]
SameBut(tb, tb2, f, i) ==
    \A g \in Maps : \A j \in Indices : ~(g = f /\ j = i) => tb2[g][j] = tb[g][j]

LEMMA OtherIndex ==
    ASSUME NEW sb \in [Maps -> [Indices -> Readers]], NEW hi, NEW hi2, NEW f \in Maps, NEW i \in Indices,
           NEW sb2, sb2 = Without(sb, f, i),
           \A g \in Maps : hi2[g] \subseteq hi[g],
           NEW c \in Clients, NEW o \in Outbounds, sb[f][i].client # c,
           Reader(sb, c, o), Seat(sb, hi, c, o)
    PROVE  Reader(sb2, c, o) /\ Seat(sb2, hi2, c, o)
<1>1. \A g \in Maps : \A j \in Indices :
            sb2[g][j] = IF g = f /\ j = i THEN NoReader ELSE sb[g][j]
    BY DEF Without
<1>2. NoReader.client # c
    BY FeedAssumption DEF NoReader
<1>3. Reader(sb2, c, o)
    BY <1>1, <1>2 DEF Reader
<1>4. CASE o.sub.feed = Nobody
    BY <1>3, <1>4 DEF Seat
<1>5. CASE o.sub.feed # Nobody
    <2>1. o.sub.feed \in Maps /\ o.sub.me \in Indices /\ sb[o.sub.feed][o.sub.me].client = c
        BY <1>5 DEF Seat, Outbounds, SomeMap
    <2>2. sb2[o.sub.feed][o.sub.me] = sb[o.sub.feed][o.sub.me]
        BY <1>1, <2>1
    <2>3. Seat(sb2, hi2, c, o)
        BY <1>5, <2>1, <2>2 DEF Seat
    <2> QED BY <1>3, <2>3
<1> QED BY <1>4, <1>5

LEMMA NoReaderIs ==
    ASSUME NEW sb \in [Maps -> [Indices -> Readers]], NEW f \in Maps, NEW i \in Indices,
           NEW sb2, sb2 = Without(sb, f, i),
           NEW tb, NEW tb2, Known(tb, sb), SameBut(tb, tb2, f, i)
    PROVE  sb2 \in [Maps -> [Indices -> Readers]] /\ Known(tb2, sb2)
<1>1. NoReader \in Readers /\ NoReader.client = Nobody
    BY DEF NoReader, Readers, SomeOne
<1>2. /\ sb2 \in [Maps -> [Indices -> Readers]]
      /\ \A g \in Maps : \A j \in Indices :
            sb2[g][j] = IF g = f /\ j = i THEN NoReader ELSE sb[g][j]
    BY <1>1 DEF Without
<1>3. Known(tb2, sb2)
    BY <1>1, <1>2 DEF Known, SameBut
<1> QED BY <1>2, <1>3

LEMMA TakeOverInv ==
    ASSUME FeedInv, NEW f \in Maps, NEW i \in Indices, NEW d \in Clients, TakeOver(f, i, d)
    PROVE  FeedInv'
<1>0. /\ Typed /\ Seated /\ Pushing /\ Told /\ Chained
      /\ \A c \in Clients : out[c] \in Outbounds /\ (~out[c].closed => FineNow(c))
    BY FeedInvIs
<1>1. /\ UNCHANGED <<written, chain, signalled, signals, waker, wakerAt, ahead,
                     cork, pc, job, inHand, creates, frames, sent>>
      /\ pc[f] = "run" /\ ~Placed(d) /\ table[f][i] # Nobody
      /\ table' = [table EXCEPT ![f][i] = d]
      /\ subs' = [subs EXCEPT ![f][i] = NoReader]
      /\ heldIdx' = [heldIdx EXCEPT ![f] = @ \ {i}]
    BY DEF TakeOver, wakers, hist
<1>2. PICK e \in Clients : e = table[f][i]
    <2>1. table[f][i] \in SomeOne
        BY <1>0 DEF Typed
    <2> QED BY <1>1, <2>1 DEF SomeOne
<1>3. PICK w \in Outbounds : w = Closed(out[e]) /\ w.closed
    BY ClosedIs
<1>4. out' = [out EXCEPT ![e] = w]
    BY <1>2, <1>3 DEF TakeOver
<1>5. /\ out' \in [Clients -> Outbounds] /\ out'[e] = w
      /\ \A c \in Clients : c # e => out'[c] = out[c]
    BY <1>0, <1>4 DEF Typed
<1>6. /\ table' \in [Maps -> [Indices -> SomeOne]]
      /\ \A g \in Maps : \A j \in Indices :
            table'[g][j] = IF g = f /\ j = i THEN d ELSE table[g][j]
    BY <1>0, <1>1 DEF Typed, SomeOne
<1>7. d # Nobody /\ \A g \in Maps : \A j \in Indices : table[g][j] # d
    BY <1>1, FeedAssumption DEF Placed, InMap
<1>8. OnePlace(table')
    <2> SUFFICES ASSUME NEW g \in Maps, NEW h \in Maps, NEW j \in Indices, NEW k \in Indices,
                        table'[g][j] = table'[h][k], table'[g][j] # Nobody
                 PROVE  g = h /\ j = k
        BY DEF OnePlace
    <2>1. OnePlace(table)
        BY <1>0 DEF Seated
    <2>2. CASE g = f /\ j = i
        BY <1>6, <1>7, <2>2
    <2>3. CASE ~(g = f /\ j = i)
        <3>1. table'[g][j] = table[g][j]
            BY <1>6, <2>3
        <3>2. table'[h][k] = table[h][k]
            BY <1>6, <1>7, <3>1
        <3>3. table[g][j] = table[h][k] /\ table[g][j] # Nobody
            BY <3>1, <3>2
        <3> QED BY <2>1, <3>3 DEF OnePlace
    <2> QED BY <2>2, <2>3
<1>9. subs \in [Maps -> [Indices -> Readers]] /\ Known(table, subs)
    BY <1>0 DEF Typed, Seated
<1>10. subs' \in [Maps -> [Indices -> Readers]] /\ Known(table', subs')
    <2>1. \A g \in Maps : \A j \in Indices : ~(g = f /\ j = i) => table'[g][j] = table[g][j]
        BY <1>6
    <2>2. PICK sb2, tb2 : sb2 = subs' /\ tb2 = table'
        OBVIOUS
    <2>3. sb2 = Without(subs, f, i)
        BY <1>1, <2>2 DEF Without
    <2>4. SameBut(table, tb2, f, i)
        BY <2>1, <2>2 DEF SameBut
    <2>5. sb2 \in [Maps -> [Indices -> Readers]] /\ Known(tb2, sb2)
        BY <1>0, <1>9, <2>3, <2>4, NoReaderIs
    <2> QED BY <2>2, <2>5
<1>11. heldIdx' \in [Maps -> SUBSET Indices] /\ \A g \in Maps : heldIdx'[g] \subseteq heldIdx[g]
    BY <1>0, <1>1 DEF Typed
<1>12. Seated'
    <2>1. ASSUME NEW c \in Clients, ~out'[c].closed
          PROVE  Reader(subs', c, out'[c]) /\ Seat(subs', heldIdx', c, out'[c])
        <3>1. c # e /\ out'[c] = out[c] /\ out[c] \in Outbounds
            BY <1>0, <1>3, <1>5, <2>1
        <3>2. subs[f][i].client # c
            BY <1>2, <1>9, <3>1, FeedAssumption DEF Known
        <3>3. Reader(subs, c, out[c]) /\ Seat(subs, heldIdx, c, out[c])
            BY <1>0, <2>1, <3>1 DEF Seated
        <3>a. PICK o \in Outbounds : o = out[c]
            BY <3>1
        <3>4. PICK sb2, hi2 : sb2 = subs' /\ hi2 = heldIdx'
            OBVIOUS
        <3>5. sb2 = Without(subs, f, i) /\ \A g \in Maps : hi2[g] \subseteq heldIdx[g]
            BY <1>1, <1>11, <3>4 DEF Without
        <3>6. Reader(subs, c, o) /\ Seat(subs, heldIdx, c, o)
            BY <3>3, <3>a
        <3>7. Reader(sb2, c, o) /\ Seat(sb2, hi2, c, o)
            BY <1>9, <3>2, <3>5, <3>6, OtherIndex
        <3> QED BY <3>1, <3>a, <3>4, <3>7
    <2> QED BY <1>1, <1>8, <1>10, <2>1 DEF Seated
<1>13. Typed'
    BY <1>0, <1>1, <1>5, <1>6, <1>10, <1>11 DEF Typed
<1>14. Pushing'
    <2>1. ASSUME NEW g \in Maps, g # f, NEW x, InMap(g, x)
          PROVE  InMap(g, x)'
        BY <1>6, <2>1 DEF InMap
    <2>2. job[f].do # "leave"
        BY <1>0, <1>1 DEF Pushing
    <2> HIDE DEF InMap
    <2> QED BY <1>0, <1>1, <2>1, <2>2 DEF Pushing
<1>15. Told'
    BY <1>0, <1>1 DEF Told
<1>16. ASSUME NEW c \in Clients, ~out'[c].closed
       PROVE  Fine(chain', waker', wakerAt', ahead', written'[c], out'[c], creates'[c], inHand', cork', c, sent'[c])
    <2>1. out'[c] = out[c] /\ FineNow(c)
        BY <1>0, <1>3, <1>5, <1>16
    <2> QED BY <1>1, <2>1 DEF FineNow
<1> QED BY <1>12, <1>13, <1>14, <1>15, <1>16, FeedInvThen

-----------------------------------------------------------------------------
(* The waker.                                                             *)
LEMMA WalkedWoke ==
    ASSUME NEW ch, NEW wk, NEW wa, NEW ah, NEW wk2, NEW wa2, NEW ah2, NEW o \in Outbounds,
           \A f \in Maps : Walked(wk2, wa2, f) = Walked(wk, wa, f) /\ ah[f] \subseteq ah2[f],
           Woke(ch, wk, wa, ah, o)
    PROVE  Woke(ch, wk2, wa2, ah2, o)
<1>1. o.reading.feed # Nobody => o.reading.feed \in Maps
    BY DEF Outbounds, SomeMap
<1> QED BY <1>1 DEF Woke

LEMMA WakerStep ==
    ASSUME FeedInv, UNCHANGED <<out, written, chain, subs, heldIdx, table, cork, pc, job, inHand,
                                creates, frames, sent>>,
           Typed', Told',
           \A f \in Maps : /\ Walked(waker', wakerAt', f) = Walked(waker, wakerAt, f)
                          /\ ahead[f] \subseteq ahead'[f]
    PROVE  FeedInv'
<1>0. /\ Seated /\ Pushing
      /\ \A c \in Clients : out[c] \in Outbounds /\ (~out[c].closed => FineNow(c))
    BY FeedInvIs
<1>1. Seated'
    BY <1>0 DEF Seated
<1>2. Pushing'
    BY <1>0 DEF Pushing, InMap
<1>3. ASSUME NEW c \in Clients, ~out'[c].closed
      PROVE  Fine(chain', waker', wakerAt', ahead', written'[c], out'[c], creates'[c], inHand', cork', c, sent'[c])
    <2>1. PICK o \in Outbounds : o = out[c]
        BY <1>0
    <2>2. Fine(chain, waker, wakerAt, ahead, written[c], o, creates[c], inHand, cork, c, sent[c])
        BY <1>0, <1>3, <2>1 DEF FineNow
    <2>3. Woke(chain, waker', wakerAt', ahead', o)
        BY <2>2, WalkedWoke DEF Fine, ClientInv
    <2>4. Fine(chain, waker', wakerAt', ahead', written[c], o, creates[c], inHand, cork, c, sent[c])
        BY <2>2, <2>3 DEF Fine, ClientInv
    <2> QED BY <2>1, <2>4
<1> QED BY <1>1, <1>2, <1>3, FeedInvThen

LEMMA WakerRecvInv ==
    ASSUME FeedInv, WakerRecv
    PROVE  FeedInv'
<1>0. Typed /\ Told
    BY FeedInvIs
<1>1. /\ UNCHANGED <<out, written, chain, subs, heldIdx, wakerAt, ahead, table, cork, pc, job, inHand,
                     creates, frames, sent>>
      /\ waker.at = "recv" /\ signals # <<>>
    BY DEF WakerRecv, maps, hist
<1>2. PICK f : f = Head(signals)
    OBVIOUS
<1>3. /\ f \in Maps /\ f = signals[1] /\ Len(signals) \in Nat /\ 1 \in 1..Len(signals)
      /\ Tail(signals) \in Seq(Maps) /\ Len(Tail(signals)) = Len(signals) - 1
      /\ \A i \in 1..Len(Tail(signals)) : Tail(signals)[i] = signals[i + 1]
    <2>1. signals \in Seq(Maps)
        BY <1>0 DEF Typed
    <2> QED BY <1>1, <1>2, <2>1, HeadTailProperties, EmptySeq, LenProperties
<1>4. /\ signalled' = [signalled EXCEPT ![f] = FALSE] /\ signals' = Tail(signals)
      /\ waker' = [at |-> "walk", feed |-> f, from |-> 0, to |-> 0]
    BY <1>2 DEF WakerRecv
<1>5. /\ waker' \in [at : {"recv", "walk", "charge"}, feed : SomeMap, from : Nat, to : Nat]
      /\ waker'.at = "walk" /\ waker'.feed = f
    BY <1>3, <1>4 DEF SomeMap
<1>6. /\ signalled' \in [Maps -> BOOLEAN] /\ ~signalled'[f]
      /\ \A g \in Maps : g # f => (signalled'[g] <=> signalled[g])
    <2>1. signalled \in [Maps -> BOOLEAN]
        BY <1>0 DEF Typed
    <2>2. signalled' \in [Maps -> BOOLEAN]
        BY <1>4, <2>1
    <2> QED BY <1>3, <1>4, <2>1, <2>2
<1>7. Typed'
    BY <1>0, <1>1, <1>3, <1>4, <1>5, <1>6 DEF Typed
<1>8. Told'
    <2>1. ASSUME NEW g \in Maps
          PROVE  /\ Walks(Len(chain[g]), wakerAt[g], ahead[g], pc[g])
                 /\ signalled'[g] => \E i \in 1..Len(signals') : signals'[i] = g
                 /\ wakerAt[g] < Len(chain[g]) =>
                        \/ pc[g] = "signal" \/ signalled'[g]
                        \/ waker'.at = "walk" /\ waker'.feed = g
        <3>1. CASE g = f
            BY <1>0, <1>5, <1>6, <3>1 DEF Told
        <3>2. CASE g # f
            <4>1. ASSUME signalled[g]
                  PROVE  \E i \in 1..Len(signals') : signals'[i] = g
                <5>1. PICK i \in 1..Len(signals) : signals[i] = g
                    BY <1>0, <4>1 DEF Told
                <5>2. i # 1
                    BY <1>3, <3>2, <5>1
                <5>3. i - 1 \in 1..Len(signals') /\ signals'[i - 1] = g
                    <6>1. i \in Nat /\ 1 < i /\ i <= Len(signals)
                        BY <1>3, <5>2
                    <6>2. i - 1 \in 1..Len(Tail(signals)) /\ (i - 1) + 1 = i
                        BY <1>3, <6>1
                    <6> QED BY <1>3, <1>4, <5>1, <6>2
                <5> QED BY <5>3
            <4> QED BY <1>0, <1>1, <1>6, <3>2, <4>1 DEF Told
        <3> QED BY <3>1, <3>2
    <2> QED BY <1>0, <1>1, <1>3, <1>5, <2>1 DEF Told
<1>9. \A g \in Maps : Walked(waker', wakerAt', g) = Walked(waker, wakerAt, g)
    BY <1>1, <1>5 DEF Walked
<1>10. \A g \in Maps : ahead[g] \subseteq ahead'[g]
    BY <1>1
<1> QED BY <1>1, <1>7, <1>8, <1>9, <1>10, WakerStep

(* The chunks as they are linked.                                         *)
LEMMA LinkedIs ==
    ASSUME Typed, NEW f \in Maps
    PROVE  /\ Linked(f) \in Seq(Chunks) /\ Len(chain[f]) \in Nat
           /\ Len(Linked(f)) = IF pc[f] = "number" THEN Len(chain[f]) + 1 ELSE Len(chain[f])
           /\ \A k \in 1..Len(chain[f]) : Linked(f)[k] = chain[f][k]
<1>1. PICK s \in Seq(Chunks) : s = chain[f]
    BY DEF Typed
<1>2. PICK q \in Corks : q = cork[f]
    BY DEF Typed
<1>3. PICK x : x = [log |-> q.log, directs |-> q.directs]
    OBVIOUS
<1>4. x \in Chunks
    BY <1>3, CorkIs DEF Chunks
<1>5. /\ Append(s, x) \in Seq(Chunks) /\ Len(s) \in Nat /\ Len(Append(s, x)) = Len(s) + 1
      /\ \A k \in 1..Len(s) : Append(s, x)[k] = s[k]
    BY <1>4, AppendProperties, LenProperties
<1>6. Linked(f) = IF pc[f] = "number" THEN Append(s, x) ELSE s
    BY <1>1, <1>2, <1>3 DEF Linked
<1>7. CASE pc[f] = "number"
    BY <1>1, <1>5, <1>6, <1>7
<1>8. CASE pc[f] # "number"
    BY <1>1, <1>5, <1>6, <1>8
<1> QED BY <1>7, <1>8

LEMMA WakerWalkInv ==
    ASSUME FeedInv, WakerWalk
    PROVE  FeedInv'
<1>0. Typed /\ Told /\ Chained
    BY FeedInvIs
<1>1. /\ UNCHANGED <<out, written, chain, subs, heldIdx, signalled, signals, table, cork, pc, job,
                     inHand, creates, frames, sent>>
      /\ waker.at = "walk"
    BY DEF WakerWalk, feeds, maps, bounds, hist
<1>2. PICK f \in Maps : f = waker.feed
    BY <1>0, <1>1 DEF Told
<1>3. PICK n \in Nat : /\ n = Len(Linked(f)) /\ Len(chain[f]) \in Nat
                       /\ n = IF pc[f] = "number" THEN Len(chain[f]) + 1 ELSE Len(chain[f])
    BY <1>0, LinkedIs, LenProperties
<1>4. /\ wakerAt' = [wakerAt EXCEPT ![f] = n]
      /\ waker' = [at |-> "charge", feed |-> f, from |-> wakerAt[f], to |-> n]
      /\ ahead' = [ahead EXCEPT ![f] = @ \cup (Len(chain[f]) + 1)..n]
    BY <1>2, <1>3 DEF WakerWalk, published
<1>10. /\ ahead' \in [Maps -> SUBSET Nat] /\ ahead'[f] = ahead[f] \cup (Len(chain[f]) + 1)..n
       /\ \A g \in Maps : g # f => ahead'[g] = ahead[g]
    <2>1. (Len(chain[f]) + 1)..n \in SUBSET Nat /\ ahead \in [Maps -> SUBSET Nat]
        BY <1>0, <1>3 DEF Typed
    <2> QED BY <1>4, <2>1
<1>11. \A g \in Maps : ahead[g] \subseteq ahead'[g]
    BY <1>10
<1>12. Walks(Len(chain[f]), n, ahead'[f], pc[f])
    BY <1>3, <1>10 DEF Walks
<1>5. /\ wakerAt' \in [Maps -> Nat] /\ wakerAt'[f] = n
      /\ \A g \in Maps : g # f => wakerAt'[g] = wakerAt[g]
      /\ wakerAt[f] \in Nat
    BY <1>0, <1>4 DEF Typed
<1>6. /\ waker' \in [at : {"recv", "walk", "charge"}, feed : SomeMap, from : Nat, to : Nat]
      /\ waker'.at = "charge" /\ waker'.feed = f /\ waker'.from = wakerAt[f] /\ waker'.to = n
    BY <1>4, <1>5 DEF SomeMap
<1>7. Typed'
    BY <1>0, <1>1, <1>5, <1>6, <1>10 DEF Typed
<1>8. Told'
    <2>1. ASSUME NEW g \in Maps
          PROVE  /\ Walks(Len(chain[g]), wakerAt'[g], ahead'[g], pc[g])
                 /\ signalled[g] => \E i \in 1..Len(signals) : signals[i] = g
                 /\ wakerAt'[g] < Len(chain[g]) =>
                        \/ pc[g] = "signal" \/ signalled[g]
                        \/ waker'.at = "walk" /\ waker'.feed = g
        <3>1. CASE g = f
            BY <1>0, <1>3, <1>5, <1>12, <3>1 DEF Told
        <3>2. CASE g # f
            BY <1>0, <1>2, <1>5, <1>10, <3>2 DEF Told
        <3> QED BY <3>1, <3>2
    <2>2. wakerAt[f] <= n
        BY <1>0, <1>3, <1>5 DEF Told, Walks
    <2> QED BY <1>0, <1>1, <1>5, <1>6, <2>1, <2>2 DEF Told
<1>9. \A g \in Maps : Walked(waker', wakerAt', g) = Walked(waker, wakerAt, g)
    BY <1>1, <1>5, <1>6 DEF Walked
<1> QED BY <1>1, <1>7, <1>8, <1>9, <1>11, WakerStep

(* A reader the waker walked chunks of is woken, if there is something of  *)
(* its own in one.                                                        *)
LEMMA WokenIs ==
    ASSUME Chained, NEW f \in Maps, NEW ch \in Seq(Chunks), ch = Linked(f), NEW i \in Indices, NEW r \in Readers, NEW o \in Outbounds,
           waker.from \in Nat, waker.to \in Nat, waker.to <= Len(ch)
    PROVE  LET w == Woken(o, f, i, r)
           IN  /\ w \in Outbounds
               /\ ~w.closed => Put(o, w)
               /\ ~w.closed /\ o.accounts[r.account].open =>
                    \A k \in 1..Len(ch) :
                        waker.from < k /\ k <= waker.to /\ Of(ch[k], i) # {} => w.ready
<1> DEFINE due == Bytes(ShareOf(ch, i, IF r.after > waker.from THEN r.after ELSE waker.from,
                                IF r.after > waker.to THEN r.after ELSE waker.to))
           a   == o.accounts[r.account]
           lag == IF a.due + due > a.done THEN a.due + due - a.done ELSE 0
           sh  == ShareOf(ch, i, waker.from, waker.to)
           w   == Woken(o, f, i, r)
<1>1. /\ sh \in Seq(Bits)
      /\ \A k \in 1..Len(ch) : waker.from < k /\ k <= waker.to =>
            \A n \in Of(ch[k], i) : \E j \in 1..Len(sh) : sh[j].frame = n
    <2>2. sh \in Seq(Bits) /\ Gathers(sh, ch, i, waker.from, waker.to)
        BY ShareOfIs
    <2> HIDE DEF sh
    <2> QED BY <2>2 DEF Gathers
<1>2. due \in Nat
    <2>1. PICK x, y : /\ x = IF r.after > waker.from THEN r.after ELSE waker.from
                      /\ y = IF r.after > waker.to THEN r.after ELSE waker.to
        OBVIOUS
    <2>2. r.after \in Nat
        BY DEF Readers
    <2>3. Len(ch) \in Nat
        BY LenProperties
    <2>4. x \in Nat /\ y \in Nat /\ (y <= Len(ch) \/ y <= x)
        BY <2>1, <2>2, <2>3
    <2>5. ShareOf(ch, i, x, y) \in Seq(Bits)
        BY <2>3, <2>4, ShareOfIs
    <2> QED BY <2>1, <2>5, BytesNat
<1>3. (\E k \in 1..Len(ch) : waker.from < k /\ k <= waker.to /\ Of(ch[k], i) # {})
         => sh # <<>>
    <2> SUFFICES ASSUME NEW k \in 1..Len(ch), waker.from < k, k <= waker.to,
                        Of(ch[k], i) # {}, sh = <<>>
                 PROVE  FALSE
        OBVIOUS
    <2>1. PICK n : n \in Of(ch[k], i)
        OBVIOUS
    <2>2. \E j \in 1..Len(sh) : sh[j].frame = n
        BY <1>1, <2>1
    <2>3. Len(sh) = 0
        OBVIOUS
    <2> HIDE DEF sh
    <2> QED BY <2>2, <2>3
<1>4. \/ w = o /\ (o.closed \/ ~a.open \/ sh = <<>>)
      \/ w = Closed(o)
      \/ w = [o EXCEPT !.accounts[r.account].due = @ + due, !.ready = TRUE]
    BY DEF Woken
<1> HIDE DEF sh, due, w
<1>5. CASE w = o /\ (o.closed \/ ~a.open \/ sh = <<>>)
    <2>1. Put(o, o)
        BY SamePut DEF Same
    <2>2. /\ w \in Outbounds
          /\ ~w.closed => Put(o, w)
          /\ ~w.closed /\ o.accounts[r.account].open =>
                \A k \in 1..Len(ch) :
                    waker.from < k /\ k <= waker.to /\ Of(ch[k], i) # {} => w.ready
        BY <1>3, <1>5, <2>1
    <2> QED BY <2>2 DEF w
<1>6. CASE w = Closed(o)
    <2>1. w \in Outbounds /\ w.closed
        BY <1>6, ClosedIs
    <2> QED BY <2>1 DEF w
<1>7. CASE w = [o EXCEPT !.accounts[r.account].due = @ + due, !.ready = TRUE]
    <2>1. PICK acc : acc = WithDue(o.accounts, r.account, due)
        OBVIOUS
    <2>2. w = [o EXCEPT !.accounts = acc, !.ready = TRUE]
        BY <1>7, <2>1 DEF WithDue, Outbounds
    <2>3. o.accounts \in Seq(Accounts)
        BY DEF Outbounds, Accounts
    <2>4. /\ acc \in Seq(Accounts) /\ Len(acc) = Len(o.accounts)
          /\ \A j \in 1..Len(o.accounts) : acc[j].open = o.accounts[j].open
        BY <1>2, <2>1, <2>3, WithDueIs
    <2>5. /\ w \in Outbounds /\ w.closed = o.closed /\ w.queue = o.queue /\ w.sub = o.sub
          /\ w.holding = o.holding /\ w.held = o.held /\ w.accounts = acc
          /\ w.at = o.at /\ w.head = o.head /\ w.reading = o.reading /\ w.batch = o.batch
          /\ w.ready = TRUE
        BY <2>2, <2>4 DEF Outbounds, Accounts
    <2>6. Grown(chain, o, w)
        <3>1. Grown(chain, o, o)
            BY GrownSelf
        <3> QED BY <2>4, <2>5, <3>1 DEF Grown
    <2>7. Put(o, w)
        BY <2>5, <2>6 DEF Put
    <2> QED BY <2>5, <2>7 DEF w
<1> QED BY <1>4, <1>5, <1>6, <1>7

LEMMA FinePut ==
    ASSUME Chained, NEW wk, NEW wa, NEW ah, Walkable(chain, wk, wa, ah),
           NEW o \in Outbounds, NEW w \in Outbounds, Put(o, w),
           NEW wr, NEW cr, NEW ih, NEW ck, NEW c, NEW S,
           Fine(chain, wk, wa, ah, wr, o, cr, ih, ck, c, S)
    PROVE  Fine(chain, wk, wa, ah, wr, w, cr, ih, ck, c, S)
<1>1. /\ Grown(chain, o, w) /\ w.sub = o.sub /\ w.held = o.held /\ w.holding = o.holding
      /\ ~o.holding => o.held = <<>>
    BY DEF Put, Grown, Fine, ClientInv, Sound
<1>2. \A n : Elsewhere(o, cr, ih, ck, c, n) => Elsewhere(w, cr, ih, ck, c, n)
    BY <1>1, ElsewhereKeeps
<1>3. Accounted(o, cr, ih, ck, S, wr, chain, w, cr, ih, ck, S, c)
    BY <1>2 DEF Accounted, Has
<1>4. Longer(chain, chain)
    BY LongerSelf DEF Chained
<1>5. ~w.holding => w.held = <<>>
    BY <1>1
<1> QED BY <1>1, <1>3, <1>4, <1>5, FineGrown DEF Chained

LEMMA WakerChargeInv ==
    ASSUME FeedInv, WakerCharge
    PROVE  FeedInv'
<1>0. /\ Typed /\ Seated /\ Pushing /\ Told /\ Walkable(chain, waker, wakerAt, ahead) /\ Chained
      /\ \A c \in Clients : out[c] \in Outbounds /\ (~out[c].closed => FineNow(c))
    BY FeedInvIs
<1>1. /\ UNCHANGED <<written, chain, subs, heldIdx, signalled, signals, wakerAt, ahead, table, cork, pc, job,
                     inHand, creates, frames, sent>>
      /\ waker.at = "charge"
      /\ waker' = [at |-> "recv", feed |-> Nobody, from |-> 0, to |-> 0]
    BY DEF WakerCharge, feeds, maps, bounds, hist
<1>2. PICK f \in Maps : f = waker.feed
    BY <1>0, <1>1 DEF Told
<1>3. /\ waker.from \in Nat /\ waker.to \in Nat /\ waker.to = wakerAt[f]
      /\ subs \in [Maps -> [Indices -> Readers]]
      /\ \A g \in Maps : Len(chain[g]) \in Nat /\ wakerAt[g] \in Nat
    BY <1>0, <1>1, <1>2, LenProperties DEF Told, Typed
<1>15. PICK ch \in Seq(Chunks) :
         /\ ch = Linked(f) /\ waker.to <= Len(ch) /\ Len(chain[f]) <= Len(ch)
         /\ Len(ch) \in Nat /\ \A k \in 1..Len(chain[f]) : ch[k] = chain[f][k]
    <2>1. /\ Linked(f) \in Seq(Chunks)
          /\ Len(Linked(f)) = IF pc[f] = "number" THEN Len(chain[f]) + 1 ELSE Len(chain[f])
          /\ \A k \in 1..Len(chain[f]) : Linked(f)[k] = chain[f][k]
        BY <1>0, LinkedIs
    <2>2. Walks(Len(chain[f]), wakerAt[f], ahead[f], pc[f])
        BY <1>0 DEF Told
    <2>3. /\ waker.to <= Len(Linked(f)) /\ Len(chain[f]) <= Len(Linked(f))
          /\ Len(Linked(f)) \in Nat
        BY <1>3, <2>1, <2>2 DEF Walks
    <2> QED BY <2>1, <2>3
<1>4. /\ waker' \in [at : {"recv", "walk", "charge"}, feed : SomeMap, from : Nat, to : Nat]
      /\ waker'.at = "recv"
    BY <1>1 DEF SomeMap
<1>5. /\ \A g \in Maps : Walked(waker', wakerAt', g) = wakerAt[g]
      /\ \A g \in Maps : g # f => Walked(waker, wakerAt, g) = wakerAt[g]
      /\ Walked(waker, wakerAt, f) = waker.from
    BY <1>1, <1>2, <1>4 DEF Walked
<1>6. ASSUME NEW c \in Clients
      PROVE  \/ /\ out'[c] = out[c]
                /\ out[c].closed \/ \A i \in Indices : subs[f][i].client # c
             \/ /\ ~out[c].closed
                /\ \E i \in Indices : subs[f][i].client = c /\ out'[c] = Woken(out[c], f, i, subs[f][i])
    <2> DEFINE mine == {i \in Indices : subs[f][i].client = c}
    <2>1. out'[c] = IF out[c].closed \/ mine = {} THEN out[c]
                    ELSE LET i == CHOOSE x \in mine : TRUE IN Woken(out[c], f, i, subs[f][i])
        BY <1>2 DEF WakerCharge
    <2>2. CASE out[c].closed \/ mine = {}
        BY <2>1, <2>2
    <2>3. CASE ~(out[c].closed \/ mine = {})
        <3>1. PICK i : i = CHOOSE x \in mine : TRUE
            OBVIOUS
        <3>2. i \in mine
            BY <2>3, <3>1
        <3>3. out'[c] = Woken(out[c], f, i, subs[f][i])
            BY <2>1, <2>3, <3>1
        <3> QED BY <2>3, <3>2, <3>3
    <2> QED BY <2>2, <2>3
<1>7. \A c \in Clients : \A i \in Indices :
        subs[f][i].client = c /\ ~out[c].closed =>
            /\ out[c].sub.feed = f /\ out[c].sub.me = i
            /\ out[c].accounts[subs[f][i].account].open
    <2> SUFFICES ASSUME NEW c \in Clients, NEW i \in Indices, subs[f][i].client = c, ~out[c].closed
                 PROVE  /\ out[c].sub.feed = f /\ out[c].sub.me = i
                        /\ out[c].accounts[subs[f][i].account].open
        OBVIOUS
    <2>1. Reader(subs, c, out[c]) /\ Seat(subs, heldIdx, c, out[c])
        BY <1>0 DEF Seated
    <2>2. out[c].sub.feed = f /\ out[c].sub.me = i
        BY <2>1 DEF Reader
    <2>3. f # Nobody
        BY FeedAssumption
    <2> QED BY <2>1, <2>2, <2>3 DEF Seat
<1>8. ASSUME NEW c \in Clients
      PROVE  /\ out'[c] \in Outbounds
             /\ ~out'[c].closed => /\ ~out[c].closed /\ Put(out[c], out'[c])
                                   /\ Woke(chain, waker', wakerAt', ahead', out'[c])
    <2>1. PICK o \in Outbounds : o = out[c]
        BY <1>0
    <2>2. ASSUME ~o.closed, o.reading.feed = f, OwnUpTo(o, 0, Len(o.queue))
          PROVE  o.sub.feed = f /\ o.reading.me = o.sub.me /\ o.sub.me \in Indices
                 /\ subs[f][o.sub.me].client = c
        <3>1. Stamped(chain, o) /\ Seat(subs, heldIdx, c, o)
            BY <1>0, <2>1, <2>2 DEF FineNow, Fine, ClientInv, Sound, Seated
        <3>2. f # Nobody /\ 0 \in Readings(o)
            <4>1. 0 \in 0..Len(o.queue)
                BY LenProperties DEF Outbounds
            <4> QED BY <2>2, <4>1, FeedAssumption DEF Readings
        <3>3. o.sub.feed = f /\ o.reading.me = o.sub.me
            BY <2>2, <3>1, <3>2 DEF Stamped, FeedAt, MeAt
        <3> QED BY <3>1, <3>2, <3>3 DEF Seat
    <2>3. ~o.closed => Woke(chain, waker, wakerAt, ahead, o)
        BY <1>0, <2>1 DEF FineNow, Fine, ClientInv
    <2>4. CASE out'[c] = o /\ (o.closed \/ \A i \in Indices : subs[f][i].client # c)
        <3>1. Put(o, o)
            BY SamePut DEF Same
        <3>2. ASSUME ~o.closed
              PROVE  Woke(chain, waker', wakerAt', ahead', o)
            <4>1. ~(o.reading.feed = f /\ OwnUpTo(o, 0, Len(o.queue)))
                BY <2>2, <2>4, <3>2
            <4>2. o.reading.feed # Nobody => o.reading.feed \in Maps
                BY DEF Outbounds, SomeMap
            <4> QED BY <1>1, <1>5, <2>3, <3>2, <4>1, <4>2 DEF Woke
        <3> QED BY <2>1, <2>4, <3>1, <3>2
    <2>5. CASE ~o.closed /\ \E i \in Indices : subs[f][i].client = c /\ out'[c] = Woken(o, f, i, subs[f][i])
        <3>1. PICK i \in Indices : subs[f][i].client = c /\ out'[c] = Woken(o, f, i, subs[f][i])
            BY <2>5
        <3>2. PICK r \in Readers : r = subs[f][i]
            BY <1>3
        <3>3. PICK w : w = Woken(o, f, i, r)
            OBVIOUS
        <3>4. o.accounts[r.account].open /\ o.sub.me = i
            BY <1>7, <2>1, <2>5, <3>1, <3>2
        <3>5. /\ w \in Outbounds
              /\ ~w.closed => Put(o, w)
              /\ ~w.closed => \A k \in 1..Len(ch) :
                     waker.from < k /\ k <= waker.to /\ Of(ch[k], i) # {} => w.ready
            BY <1>0, <1>3, <1>15, <3>3, <3>4, WokenIs
        <3>6. ASSUME ~w.closed
              PROVE  Woke(chain, waker', wakerAt', ahead', w)
            <4> SUFFICES ASSUME w.at \in {"drain", "wait"}, w.reading.feed # Nobody,
                                OwnUpTo(w, 0, Len(w.queue)),
                                NEW k \in 1..Len(chain[w.reading.feed]), w.head < k, w.reading.at < k,
                                k <= Walked(waker', wakerAt', w.reading.feed),
                                k \notin ahead'[w.reading.feed],
                                Of(chain[w.reading.feed][k], w.reading.me) # {}
                         PROVE  w.ready
                BY DEF Woke
            <4>1. /\ Grown(chain, o, w) /\ w.at = o.at /\ w.reading = o.reading /\ w.head = o.head
                  /\ o.ready => w.ready
                BY <3>5, <3>6 DEF Put, Grown
            <4>2. w.reading.feed \in Maps
                BY <3>5 DEF Outbounds, SomeMap
            <4>3. OwnUpTo(o, 0, Len(o.queue))
                <5>1. 0 \in 0..Len(o.queue)
                    BY LenProperties DEF Outbounds
                <5>2. 0 \in Readings(o)
                    BY <4>1, <5>1 DEF Readings
                <5> QED BY <3>5, <4>1, <5>2, GrownReading
            <4>4. CASE w.reading.feed # f
                BY <1>1, <1>5, <2>3, <2>5, <4>1, <4>2, <4>3, <4>4 DEF Woke
            <4>5. CASE w.reading.feed = f /\ k <= waker.from
                BY <1>1, <1>5, <2>3, <2>5, <4>1, <4>2, <4>3, <4>5 DEF Woke
            <4>6. CASE w.reading.feed = f /\ waker.from < k
                <5>1. w.reading.me = i
                    BY <2>2, <2>5, <3>4, <4>1, <4>3, <4>6
                <5>2. k <= waker.to
                    BY <1>3, <1>5, <4>6
                <5>3. k \in 1..Len(ch) /\ ch[k] = chain[f][k]
                    BY <1>3, <1>15, <4>6
                <5> QED BY <3>5, <3>6, <4>6, <5>1, <5>2, <5>3
            <4> QED BY <1>3, <4>2, <4>4, <4>5, <4>6
        <3> QED BY <2>1, <2>5, <3>1, <3>2, <3>3, <3>5, <3>6
    <2> QED BY <1>6, <2>1, <2>4, <2>5
<1>9. out' \in [Clients -> Outbounds]
    <2>1. \E g : out' = [c \in Clients |-> g[c]]
        <3>1. out' = [c \in Clients |-> out'[c]]
            BY DEF WakerCharge
        <3> QED BY <3>1
    <2> QED BY <1>8, <2>1
<1>10. Typed'
    BY <1>0, <1>1, <1>4, <1>9 DEF Typed
<1>11. Seated'
    <2>1. \A c \in Clients : ~out'[c].closed =>
             ~out[c].closed /\ Steady(out[c], out'[c]) /\ out'[c].holding = out[c].holding
        BY <1>0, <1>8, GrownSteady DEF Put
    <2>2. \A c \in Clients : ~out'[c].closed /\ out[c].sub.feed # Nobody /\ out[c].sub.me \in Indices
                    /\ subs[out[c].sub.feed][out[c].sub.me].client = c
                    /\ out[c].sub.me \in heldIdx'[out[c].sub.feed]
                => out'[c].holding
        BY <1>0, <1>1, <2>1 DEF Seated, Seat
    <2> QED BY <1>0, <1>1, <1>9, <2>1, <2>2, SeatedKeeps
<1>12. Pushing'
    BY <1>0, <1>1 DEF Pushing, InMap
<1>13. Told'
    BY <1>0, <1>1, <1>4 DEF Told
<1>14. ASSUME NEW c \in Clients, ~out'[c].closed
       PROVE  Fine(chain', waker', wakerAt', ahead', written'[c], out'[c], creates'[c], inHand', cork', c, sent'[c])
    <2>1. /\ out'[c] \in Outbounds /\ Put(out[c], out'[c]) /\ Woke(chain, waker', wakerAt', ahead', out'[c])
          /\ FineNow(c) /\ out[c] \in Outbounds
        BY <1>0, <1>8, <1>14
    <2>2. Fine(chain, waker, wakerAt, ahead, written[c], out'[c], creates[c], inHand, cork, c, sent[c])
        BY <1>0, <2>1, FinePut DEF FineNow
    <2>3. Fine(chain, waker', wakerAt', ahead', written[c], out'[c], creates[c], inHand, cork, c, sent[c])
        BY <2>1, <2>2 DEF Fine, ClientInv
    <2> QED BY <1>1, <2>3
<1> QED BY <1>10, <1>11, <1>12, <1>13, <1>14, FeedInvThen

-----------------------------------------------------------------------------
(* A client whose reading begins or ends.                                 *)
Ends(ch, o, w) ==
    LET x == w.queue[Len(w.queue)]
    IN  /\ x.kind = "unsub" => o.sub.feed # Nobody /\ x.until = Len(ch[o.sub.feed])
        /\ x.kind = "sub" => /\ o.sub.feed = Nobody /\ x.after = Len(ch[x.feed])
                             /\ w.sub.feed = x.feed /\ w.sub.me = x.me

Moved(o, cr, ih, ck, w, ck2, c) ==
    \A n : Elsewhere(o, cr, ih, ck, c, n) => Elsewhere(w, cr, ih, ck2, c, n)

LEMMA FineBehind ==
    ASSUME Chained, NEW wk, NEW wa, NEW ah, NEW o \in Outbounds, NEW w \in Outbounds, Behind(o, w),
           w.at = o.at, w.head = o.head, w.holding = o.holding, w.held = o.held,
           Ends(chain, o, w), Follows(w),
           NEW wr, NEW cr, NEW ih, NEW ck, NEW ck2, NEW c, NEW S,
           Fine(chain, wk, wa, ah, wr, o, cr, ih, ck, c, S), Moved(o, cr, ih, ck, w, ck2, c)
    PROVE  Fine(chain, wk, wa, ah, wr, w, cr, ih, ck2, c, S)
<1>0. Sound(chain, o) /\ Stamped(chain, o)
    BY DEF Fine, ClientInv, Sound
<1>1. Stamped(chain, w)
    BY <1>0, BehindStamped DEF Chained, Ends
<1>2. \A n : Coming(chain, o, n) => Coming(chain, w, n)
    BY <1>0, BehindComing DEF Chained, Ends
<1>3. Sound(chain, w)
    BY <1>0, <1>1 DEF Sound, Behind
<1>4. Woke(chain, wk, wa, ah, w)
    <2>1. w.reading.feed # Nobody => 0 \in Readings(o)
        <3>1. 0 \in 0..Len(o.queue)
            BY LenProperties DEF Outbounds
        <3> QED BY <3>1 DEF Readings, Behind
    <2>2. w.reading.feed # Nobody => ~OwnUpTo(w, 0, Len(w.queue))
        BY <2>1, BehindReading
    <2> QED BY <2>2 DEF Woke
<1>5. ASSUME NEW n \in S
      PROVE  Has(wr, chain, w, cr, ih, ck2, c, n)
    <2>1. Has(wr, chain, o, cr, ih, ck, c, n)
        BY <1>5 DEF Fine
    <2> QED BY <1>2, <2>1 DEF Has, Moved
<1> QED BY <1>3, <1>4, <1>5 DEF Fine, ClientInv

(* The waker told of what a map has published.                            *)
LEMMA SignalTold ==
    ASSUME Typed, Told, NEW f \in Maps, pc[f] \in {"signal", "done"},
           UNCHANGED <<chain, waker, wakerAt, ahead, inHand>>, pc' = [pc EXCEPT ![f] = "run"],
           IF pc[f] = "done" \/ signalled[f] THEN UNCHANGED <<signalled, signals>>
           ELSE /\ signalled' = [signalled EXCEPT ![f] = TRUE]
                /\ signals' = Append(signals, f)
    PROVE  Told' /\ signals' \in Seq(Maps) /\ signalled' \in [Maps -> BOOLEAN]
<1>1. signals \in Seq(Maps) /\ signalled \in [Maps -> BOOLEAN] /\ Len(signals) \in Nat
    BY LenProperties DEF Typed
<1>2. pc'[f] = "run" /\ \A g \in Maps : g # f => pc'[g] = pc[g]
    BY DEF Typed
<1>3. /\ signals' \in Seq(Maps) /\ signalled' \in [Maps -> BOOLEAN]
      /\ \A g \in Maps : signalled[g] => signalled'[g]
      /\ \A g \in Maps : signalled'[g] => signalled[g] \/ \E i \in 1..Len(signals') : signals'[i] = g
      /\ Len(signals) <= Len(signals') /\ \A i \in 1..Len(signals) : signals'[i] = signals[i]
      /\ Len(signals') \in Nat
      /\ pc[f] = "signal" => signalled'[f]
    <2>1. CASE pc[f] = "done" \/ signalled[f]
        <3>1. signals' = signals /\ signalled' = signalled
            BY <2>1
        <3>2. pc[f] = "signal" => signalled[f]
            BY <2>1
        <3> QED BY ONLY <1>1, <3>1, <3>2, f \in Maps
    <2>2. CASE ~(pc[f] = "done" \/ signalled[f])
        <3>1. signalled' = [signalled EXCEPT ![f] = TRUE] /\ signals' = Append(signals, f)
            BY <2>2
        <3>2. /\ Append(signals, f) \in Seq(Maps) /\ Len(Append(signals, f)) = Len(signals) + 1
              /\ Append(signals, f)[Len(signals) + 1] = f
              /\ \A i \in 1..Len(signals) : Append(signals, f)[i] = signals[i]
            BY <1>1, AppendProperties
        <3>3. signalled' \in [Maps -> BOOLEAN]
            BY <1>1, <3>1
        <3>4. \A g \in Maps : signalled[g] => signalled'[g]
            BY <1>1, <3>1
        <3>5. \A g \in Maps : signalled'[g] => signalled[g] \/ g = f
            BY <1>1, <3>1
        <3>6. signalled'[f]
            BY <1>1, <3>1
        <3>7. Len(signals') \in 1..Len(signals') /\ signals'[Len(signals')] = f
            BY <1>1, <3>1, <3>2
        <3> QED BY <1>1, <3>1, <3>2, <3>3, <3>4, <3>5, <3>6, <3>7
    <2> QED BY <2>1, <2>2
<1>4. ASSUME NEW g \in Maps, signalled'[g]
      PROVE  \E i \in 1..Len(signals') : signals'[i] = g
    <2>1. CASE signalled[g]
        <3>1. PICK i \in 1..Len(signals) : signals[i] = g
            BY <2>1 DEF Told
        <3>2. i \in 1..Len(signals')
            BY <1>1, <1>3
        <3> QED BY <1>3, <3>1, <3>2
    <2>2. CASE ~signalled[g]
        BY <1>3, <1>4, <2>2
    <2> QED BY <2>1, <2>2
<1>5. ASSUME NEW g \in Maps, wakerAt[g] < Len(chain[g])
      PROVE  pc'[g] = "signal" \/ signalled'[g] \/ (waker.at = "walk" /\ waker.feed = g)
    <2>1. pc[g] = "signal" \/ signalled[g] \/ (waker.at = "walk" /\ waker.feed = g)
        BY <1>5 DEF Told
    <2> QED BY <1>2, <1>3, <2>1
<1>6. ASSUME NEW g \in Maps
      PROVE  Walks(Len(chain[g]), wakerAt[g], ahead[g], pc'[g])
    BY <1>2 DEF Told, Walks
<1> QED BY <1>3, <1>4, <1>5, <1>6 DEF Told

(* A client whose index is let go reads the feed to its end, and no more.  *)
LEMMA UnsubscribedIs ==
    ASSUME Chained, NEW f \in Maps, NEW i \in Indices, NEW o \in Outbounds, ~o.closed,
           subs[f][i].client # Nobody, o.sub.feed = f, o.sub.me = i
    PROVE  LET w == Unsubscribed(o, f, i)
           IN  /\ w \in Outbounds /\ Behind(o, w) /\ Ends(chain, o, w) /\ w.sub = NoSub
               /\ w.at = o.at /\ w.head = o.head /\ w.holding = o.holding /\ w.held = o.held
               /\ w.closed = o.closed
<1>1. PICK w : w = Unsubscribed(o, f, i)
    OBVIOUS
<1>2. PICK x : x = Unsub(published(f))
    OBVIOUS
<1>3. PICK q : q = Append(o.queue, x)
    OBVIOUS
<1>4. PICK acc : acc = [o.accounts EXCEPT ![subs[f][i].account].open = FALSE]
    OBVIOUS
<1>5. x \in UnsubItems /\ x.kind = "unsub" /\ x.until = Len(chain[f]) /\ x \in Items
    <2>1. Len(chain[f]) \in Nat
        BY LenProperties DEF Chained
    <2>2. x = [kind |-> "unsub", until |-> Len(chain[f])]
        BY <1>2 DEF Unsub, published
    <2> QED BY <2>1, <2>2 DEF UnsubItems, Items
<1>6. /\ q \in Seq(Items) /\ Len(o.queue) \in Nat /\ Len(q) = Len(o.queue) + 1
      /\ \A j \in 1..Len(o.queue) : q[j] = o.queue[j]
      /\ q[Len(o.queue) + 1] = x
    <2>1. o.queue \in Seq(Items)
        BY DEF Outbounds
    <2> QED BY <1>3, <1>5, <2>1, AppendProperties, LenProperties
<1>7. acc \in Seq(Accounts)
    <2>1. o.accounts \in Seq(Accounts)
        BY DEF Outbounds, Accounts
    <2>2. PICK a : a = subs[f][i].account
        OBVIOUS
    <2>3. PICK v : v = [o.accounts[a] EXCEPT !.open = FALSE]
        OBVIOUS
    <2>4. a \in 1..Len(o.accounts) => v \in Accounts
        <3> HAVE a \in 1..Len(o.accounts)
        <3>1. o.accounts[a] \in Accounts
            BY <2>1, ElementOfSeq
        <3> QED BY <2>3, <3>1 DEF Accounts
    <2>5. acc = [o.accounts EXCEPT ![a] = v]
        BY <1>4, <2>2, <2>3
    <2> QED BY <2>1, <2>4, <2>5, AccountSet
<1>8. w = [o EXCEPT !.queue = q, !.accounts = acc, !.sub = NoSub]
    <2>1. w = [o EXCEPT !.queue = Append(@, Unsub(published(f))),
                        !.accounts[subs[f][i].account].open = FALSE,
                        !.sub = NoSub]
        BY <1>1 DEF Unsubscribed
    <2> QED BY <1>2, <1>3, <1>4, <2>1 DEF Outbounds
<1>9. NoSub \in [feed : SomeMap, me : Nat, account : Nat]
    BY DEF NoSub, SomeMap
<1>10. /\ w \in Outbounds /\ w.queue = q /\ w.sub = NoSub /\ w.closed = o.closed
       /\ w.at = o.at /\ w.head = o.head /\ w.holding = o.holding /\ w.held = o.held
       /\ w.reading = o.reading /\ w.batch = o.batch
    BY <1>6, <1>7, <1>8, <1>9 DEF Outbounds, Accounts
<1>11. Behind(o, w)
    BY <1>5, <1>6, <1>10 DEF Behind
<1>12. Ends(chain, o, w)
    BY <1>5, <1>6, <1>10, FeedAssumption DEF Ends
<1> QED BY <1>1, <1>10, <1>11, <1>12

LEMMA SignalInv ==
    ASSUME FeedInv, NEW f \in Maps, Signal(f)
    PROVE  FeedInv'
<1>0. /\ Typed /\ Seated /\ Pushing /\ Told /\ Walkable(chain, waker, wakerAt, ahead) /\ Chained
      /\ Longer(chain, chain)
      /\ \A c \in Clients : out[c] \in Outbounds /\ (~out[c].closed => FineNow(c))
    BY FeedInvIs
<1>1. /\ UNCHANGED <<written, chain, waker, wakerAt, ahead, inHand, creates, frames, sent>>
      /\ pc[f] \in {"signal", "done"} /\ pc' = [pc EXCEPT ![f] = "run"]
      /\ job' = [job EXCEPT ![f] = NoJob]
    BY DEF Signal, hist
<1>2. Told' /\ signals' \in Seq(Maps) /\ signalled' \in [Maps -> BOOLEAN]
    <2>1. IF pc[f] = "done" \/ signalled[f] THEN UNCHANGED <<signalled, signals>>
          ELSE /\ signalled' = [signalled EXCEPT ![f] = TRUE]
               /\ signals' = Append(signals, f)
        BY DEF Signal
    <2> QED BY <1>0, <1>1, <2>1, SignalTold
<1>3. /\ pc' \in [Maps -> {"run", "publish", "number", "signal", "done"}]
      /\ pc'[f] = "run" /\ \A g \in Maps : g # f => pc'[g] = pc[g]
    BY <1>0, <1>1 DEF Typed
<1>4. /\ job' \in [Maps -> [do : {"none", "stay", "off", "leave"}, client : SomeOne]]
      /\ job'[f].do = "none" /\ \A g \in Maps : g # f => job'[g] = job[g]
    <2>1. NoJob \in [do : {"none", "stay", "off", "leave"}, client : SomeOne] /\ NoJob.do = "none"
        BY DEF NoJob, SomeOne
    <2> QED BY <1>0, <1>1, <2>1 DEF Typed
<1>5. PICK k \in Corks : cork' = [cork EXCEPT ![f] = k] /\ Empty(k)
    <2>1. cork[f] \in Corks /\ cork \in [Maps -> Corks] /\ Empty(cork[f])
        BY <1>0, <1>1 DEF Typed, Pushing
    <2>2. CASE job[f].do = "off"
        <3>1. PICK k : k = [cork[f] EXCEPT !.on = FALSE]
            OBVIOUS
        <3>2. /\ k.on = FALSE /\ k.log = cork[f].log /\ k.directs = cork[f].directs /\ k.slots = cork[f].slots
              /\ k \in Corks
            BY <2>1, <3>1 DEF Corks
        <3>3. cork' = [cork EXCEPT ![f] = k]
            BY <2>2, <3>1 DEF Signal
        <3> QED BY <2>1, <3>2, <3>3 DEF Empty
    <2>3. CASE job[f].do # "off"
        <3>1. cork' = [cork EXCEPT ![f] = cork[f]]
            BY <2>1, <2>3 DEF Signal
        <3> QED BY <2>1, <3>1
    <2> QED BY <2>2, <2>3
<1>6. cork' \in [Maps -> Corks] /\ cork'[f] = k /\ \A g \in Maps : g # f => cork'[g] = cork[g]
    BY <1>0, <1>5 DEF Typed
<1>7. \A c \in Clients : \A v : Keeping(cork[f], f, c, v) = {}
    <2>1. Empty(cork[f])
        BY <1>0, <1>1 DEF Pushing
    <2> QED BY <2>1 DEF Empty, Keeping, Range
<1>8. \A c \in Clients : \A v : \A cr : \A n :
         Elsewhere(v, cr, inHand, cork, c, n) => Elsewhere(v, cr, inHand, cork', c, n)
    BY <1>6, <1>7 DEF Elsewhere
<1>9. ASSUME \A g \in Maps : g # f => \A x : InMap(g, x) => InMap(g, x)'
      PROVE  Pushing'
    <2>1. ASSUME NEW g \in Maps
          PROVE  /\ job'[g].do = "leave" => job'[g].client \in Clients
                 /\ pc'[g] = "run" => job'[g].do = "none"
                 /\ ~cork'[g].on /\ pc'[g] # "number" => Empty(cork'[g])
                 /\ pc'[g] # "run" => \A c \in Clients : cork'[g].slots[c] = <<>>
                 /\ pc'[g] \in {"signal", "done"} => Empty(cork'[g])
        <3>1. CASE g = f
            BY <1>3, <1>4, <1>5, <1>6, <3>1
        <3>2. CASE g # f
            BY <1>0, <1>3, <1>4, <1>6, <3>2 DEF Pushing
        <3> QED BY <3>1, <3>2
    <2>2. ASSUME NEW g \in Maps, job'[g].do = "leave"
          PROVE  InMap(g, job[g].client)'
        <3>1. g # f
            BY <1>4, <2>2
        <3>2. job[g].do = "leave" /\ job'[g] = job[g]
            BY <1>4, <2>2, <3>1
        <3>3. PICK j : j = job[g].client
            OBVIOUS
        <3>4. InMap(g, j)
            BY <1>0, <3>2, <3>3 DEF Pushing
        <3>5. InMap(g, j)'
            BY <1>9, <3>1, <3>4
        <3>6. j = job'[g].client
            BY <3>2, <3>3
        <3> QED BY <3>5, <3>6 DEF InMap
    <2> QED BY <2>1, <2>2 DEF Pushing
<1>10. CASE job[f].do # "leave"
    <2>1. UNCHANGED <<out, subs, heldIdx, table>>
        BY <1>10 DEF Signal
    <2>2. Typed'
        BY <1>0, <1>1, <1>2, <1>3, <1>4, <1>6, <2>1 DEF Typed
    <2>3. Seated'
        BY <1>0, <1>1, <2>1 DEF Seated
    <2>4. Pushing'
        <3>1. \A g \in Maps : g # f => \A x : InMap(g, x) => InMap(g, x)'
            BY <2>1 DEF InMap
        <3> QED BY <1>9, <3>1
    <2>5. ASSUME NEW c \in Clients, ~out'[c].closed
          PROVE  Fine(chain', waker', wakerAt', ahead', written'[c], out'[c], creates'[c], inHand', cork', c, sent'[c])
        <3>1. FineNow(c)
            BY <1>0, <2>1, <2>5
        <3>2. Fine(chain, waker, wakerAt, ahead, written[c], out[c], creates[c], inHand, cork', c, sent[c])
            BY <1>8, <3>1 DEF FineNow, Fine, Has
        <3> QED BY <1>1, <2>1, <3>2
    <2> QED BY <1>2, <2>2, <2>3, <2>4, <2>5, FeedInvThen
<1>11. CASE job[f].do = "leave"
    <2>1. PICK d \in Clients : d = job[f].client /\ InMap(f, d)
        BY <1>0, <1>11 DEF Pushing
    <2>2. PICK i : i = CHOOSE x \in Indices : table[f][x] = d
        OBVIOUS
    <2>3. i \in Indices /\ table[f][i] = d
        BY <2>1, <2>2 DEF InMap
    <2>4. PICK o \in Outbounds : o = out[d]
        BY <1>0
    <2>5. PICK w : w = Unsubscribed(o, f, i)
        OBVIOUS
    <2>6. /\ table' = [table EXCEPT ![f][i] = Nobody] /\ out' = [out EXCEPT ![d] = w]
          /\ subs' = Without(subs, f, i) /\ heldIdx' = [heldIdx EXCEPT ![f] = @ \ {i}]
        BY <1>11, <2>1, <2>2, <2>4, <2>5 DEF Signal, Without
    <2>7. subs \in [Maps -> [Indices -> Readers]] /\ Known(table, subs) /\ subs[f][i].client \in {Nobody, d}
        BY <1>0, <2>3 DEF Typed, Seated, Known
    <2>8. /\ table' \in [Maps -> [Indices -> SomeOne]]
          /\ \A g \in Maps : \A j \in Indices :
                table'[g][j] = IF g = f /\ j = i THEN Nobody ELSE table[g][j]
        BY <1>0, <2>3, <2>6 DEF Typed, SomeOne
    <2>9. OnePlace(table')
        <3> SUFFICES ASSUME NEW g \in Maps, NEW h \in Maps, NEW j \in Indices, NEW l \in Indices,
                            table'[g][j] = table'[h][l], table'[g][j] # Nobody
                     PROVE  g = h /\ j = l
            BY DEF OnePlace
        <3>1. table[g][j] = table[h][l] /\ table[g][j] # Nobody
            BY <2>8
        <3> QED BY <1>0, <3>1 DEF Seated, OnePlace
    <2>10. subs' \in [Maps -> [Indices -> Readers]] /\ Known(table', subs')
        <3>1. PICK sb2, tb2 : sb2 = subs' /\ tb2 = table'
            OBVIOUS
        <3>2. sb2 = Without(subs, f, i) /\ SameBut(table, tb2, f, i)
            BY <2>6, <2>8, <3>1 DEF SameBut
        <3>3. sb2 \in [Maps -> [Indices -> Readers]] /\ Known(tb2, sb2)
            BY <2>3, <2>7, <3>2, NoReaderIs
        <3> QED BY <3>1, <3>3
    <2>11. heldIdx' \in [Maps -> SUBSET Indices] /\ \A g \in Maps : heldIdx'[g] \subseteq heldIdx[g]
        BY <1>0, <2>6 DEF Typed
    <2>12. \/ w = o /\ (o.closed \/ subs[f][i].client = Nobody)
           \/ /\ w \in Outbounds /\ Behind(o, w) /\ Ends(chain, o, w) /\ w.sub = NoSub
              /\ w.at = o.at /\ w.head = o.head /\ w.holding = o.holding /\ w.held = o.held
              /\ w.closed = o.closed /\ ~o.closed /\ o.sub.feed = f /\ o.sub.me = i
              /\ subs[f][i].client = d
        <3>1. CASE o.closed \/ subs[f][i].client = Nobody
            BY <2>5, <3>1 DEF Unsubscribed
        <3>2. CASE ~(o.closed \/ subs[f][i].client = Nobody)
            <4>1. subs[f][i].client = d
                BY <2>7, <3>2
            <4>2. Reader(subs, d, o)
                BY <1>0, <2>4, <3>2 DEF Seated
            <4>3. o.sub.feed = f /\ o.sub.me = i
                BY <2>3, <4>1, <4>2 DEF Reader
            <4> QED BY <1>0, <2>3, <2>5, <3>2, <4>1, <4>3, UnsubscribedIs
        <3> QED BY <3>1, <3>2
    <2>13. /\ out' \in [Clients -> Outbounds] /\ out'[d] = w
           /\ \A c \in Clients : c # d => out'[c] = out[c]
        <3>1. w \in Outbounds
            BY <2>12
        <3> QED BY <1>0, <2>6, <3>1 DEF Typed
    <2>14. Typed'
        BY <1>0, <1>1, <1>2, <1>3, <1>4, <1>6, <2>8, <2>10, <2>11, <2>13 DEF Typed
    <2>15. PICK sb2, hi2 : sb2 = subs' /\ hi2 = heldIdx'
        OBVIOUS
    <2>16. ASSUME NEW c \in Clients, ~out'[c].closed
           PROVE  Reader(sb2, c, out'[c]) /\ Seat(sb2, hi2, c, out'[c])
        <3>1. CASE c # d \/ w = o
            <4>1. PICK v \in Outbounds : v = out[c] /\ v = out'[c]
                BY <1>0, <2>4, <2>13, <3>1
            <4>2. subs[f][i].client # c
                BY <2>7, <2>12, <2>13, <2>16, <3>1, FeedAssumption DEF Behind
            <4>3. Reader(subs, c, v) /\ Seat(subs, heldIdx, c, v)
                BY <1>0, <2>16, <4>1 DEF Seated
            <4>4. sb2 = Without(subs, f, i) /\ \A g \in Maps : hi2[g] \subseteq heldIdx[g]
                BY <2>6, <2>11, <2>15
            <4>5. Reader(sb2, c, v) /\ Seat(sb2, hi2, c, v)
                BY <2>3, <2>7, <4>2, <4>3, <4>4, OtherIndex
            <4> QED BY <4>1, <4>5
        <3>2. CASE c = d /\ w # o
            <4>1. w.sub = NoSub /\ ~o.closed /\ o.sub.feed = f /\ o.sub.me = i
                BY <2>12, <3>2
            <4>2. Seat(sb2, hi2, c, out'[c])
                <5>1. PICK v : v = out'[c] /\ v.sub.feed = Nobody
                    BY <2>13, <3>2, <4>1 DEF NoSub
                <5>2. Seat(sb2, hi2, c, v)
                    BY <5>1 DEF Seat
                <5> QED BY <5>1, <5>2
            <4>3. ASSUME NEW g \in Maps, NEW j \in Indices, sb2[g][j].client = c
                  PROVE  FALSE
                <5>1. ~(g = f /\ j = i)
                    BY <2>3, <2>6, <2>7, <2>15, <4>3, FeedAssumption DEF Without, NoReader
                <5>2. sb2[g][j] = subs[g][j]
                    BY <2>3, <2>6, <2>7, <2>15, <5>1 DEF Without
                <5>3. Reader(subs, d, o)
                    BY <1>0, <2>4, <4>1 DEF Seated
                <5> QED BY <3>2, <4>1, <4>3, <5>1, <5>2, <5>3 DEF Reader
            <4> QED BY <4>2, <4>3 DEF Reader
        <3> QED BY <3>1, <3>2
    <2>17. Seated'
        BY <2>9, <2>10, <2>15, <2>16 DEF Seated
    <2>18. Pushing'
        <3>1. ASSUME NEW g \in Maps, g # f, NEW x, InMap(g, x)
              PROVE  InMap(g, x)'
            BY <2>8, <3>1 DEF InMap
        <3> HIDE DEF InMap
        <3> QED BY <1>9, <3>1
    <2>19. ASSUME NEW c \in Clients, ~out'[c].closed
           PROVE  Fine(chain', waker', wakerAt', ahead', written'[c], out'[c], creates'[c], inHand', cork', c, sent'[c])
        <3>1. CASE c # d \/ w = o
            <4>1. FineNow(c) /\ out'[c] = out[c]
                BY <1>0, <2>4, <2>13, <2>19, <3>1
            <4>2. Fine(chain, waker, wakerAt, ahead, written[c], out[c], creates[c], inHand, cork', c, sent[c])
                BY <1>8, <4>1 DEF FineNow, Fine, Has
            <4> QED BY <1>1, <4>1, <4>2
        <3>2. CASE c = d /\ w # o
            <4>1. /\ w \in Outbounds /\ Behind(o, w) /\ Ends(chain, o, w) /\ w.sub = NoSub
                  /\ w.at = o.at /\ w.head = o.head /\ w.holding = o.holding /\ w.held = o.held
                  /\ ~o.closed /\ o.sub.feed = f
                BY <2>12, <3>2
            <4>2. Follows(w)
                BY <4>1 DEF Follows, NoSub
            <4>3. ASSUME NEW n, Elsewhere(o, creates[d], inHand, cork, d, n)
                  PROVE  Elsewhere(w, creates[d], inHand, cork', d, n)
                <5>1. Elsewhere(o, creates[d], inHand, cork', d, n)
                    BY <1>8, <4>3
                <5>2. \A v : Keeping(cork'[f], f, d, v) = {}
                    BY <1>5, <1>6 DEF Empty, Keeping, Range
                <5>3. ASSUME NEW g \in Maps, g # f, n \in Keeping(cork'[g], g, d, o)
                      PROVE  n \in Keeping(cork'[g], g, d, w)
                    BY <4>1, <5>3 DEF Keeping
                <5>4. CASE \E g \in Maps : n \in Keeping(cork'[g], g, d, o)
                    BY <5>2, <5>3, <5>4 DEF Elsewhere
                <5>5. CASE ~\E g \in Maps : n \in Keeping(cork'[g], g, d, o)
                    BY <4>1, <5>1, <5>5 DEF Elsewhere
                <5> QED BY <5>4, <5>5
            <4>4. Fine(chain, waker, wakerAt, ahead, written[d], o, creates[d], inHand, cork, d, sent[d])
                BY <1>0, <2>4, <4>1 DEF FineNow
            <4>5. Moved(o, creates[d], inHand, cork, w, cork', d)
                BY <4>3 DEF Moved
            <4>6. Fine(chain, waker, wakerAt, ahead, written[d], w, creates[d], inHand, cork', d, sent[d])
                BY <1>0, <4>1, <4>2, <4>4, <4>5, FineBehind
            <4> QED BY <1>1, <2>13, <3>2, <4>6
        <3> QED BY <3>1, <3>2
    <2> QED BY <1>2, <2>14, <2>17, <2>18, <2>19, FeedInvThen
<1> QED BY <1>10, <1>11

-----------------------------------------------------------------------------
(* A map's thread uncorks.                                                *)

(* A slot is pushed onto its client's queue.                              *)
Flushed(k, c, v) ==
    IF k.slots[c] = <<>> \/ v.closed THEN v
    ELSE [v EXCEPT !.queue = Append(@, Own(k.slots[c], Stamp(v)))]

LEMMA FlushedIs ==
    ASSUME Chained, NEW k \in Corks, NEW c \in Clients, NEW v \in Outbounds
    PROVE  /\ Put(v, Flushed(k, c, v))
           /\ ~v.closed => \A n \in Range(k.slots[c]) : Coming(chain, Flushed(k, c, v), n)
<1>1. CASE k.slots[c] = <<>> \/ v.closed
    <2>1. Flushed(k, c, v) = v
        BY <1>1 DEF Flushed
    <2>2. Put(v, v)
        BY GrownSelf DEF Put
    <2>3. k.slots[c] = <<>> => Range(k.slots[c]) = {}
        BY DEF Range
    <2> QED BY <1>1, <2>1, <2>2, <2>3
<1>2. CASE ~(k.slots[c] = <<>> \/ v.closed)
    <2>1. PICK fs \in Seq(Nat) : fs = k.slots[c]
        BY CorkIs
    <2>2. Flushed(k, c, v) = [v EXCEPT !.queue = Append(@, Own(fs, Stamp(v)))]
        BY <1>2, <2>1 DEF Flushed
    <2>3. Put(v, Flushed(k, c, v)) /\ \A n \in Range(fs) : Queued(Flushed(k, c, v), n)
        BY <2>2, PushedIs
    <2> QED BY <2>1, <2>3 DEF Coming
<1> QED BY <1>1, <1>2

(* The cork pushed: its slots are empty.                                  *)
Swept(k) == [k EXCEPT !.slots = [c \in Clients |-> <<>>]]

LEMMA SweptIs ==
    ASSUME NEW k \in Corks
    PROVE  /\ Swept(k) \in Corks /\ Swept(k).on = k.on
           /\ \A c \in Clients : Swept(k).slots[c] = <<>>
           /\ k.log = <<>> /\ k.directs = <<>> => Empty(Swept(k))
           /\ \A f : \A c \in Clients : \A v :
                Keeping(k, f, c, v) \subseteq Range(k.slots[c]) \cup Keeping(Swept(k), f, c, v)
<1>1. PICK s \in [Clients -> Seq(Nat)] : s = [c \in Clients |-> <<>>]
    BY EmptySeq
<1>2. PICK l : l = Swept(k)
    OBVIOUS
<1>3. l = [k EXCEPT !.slots = s]
    BY <1>1, <1>2 DEF Swept
<1>4. l \in Corks /\ l.on = k.on /\ l.log = k.log /\ l.directs = k.directs /\ l.slots = s
    BY <1>3 DEF Corks
<1>5. \A c \in Clients : l.slots[c] = <<>>
    BY <1>1, <1>4
<1> QED BY <1>2, <1>4, <1>5 DEF Empty, Keeping

(* What a step lets a client go, and what it keeps for it.                 *)
LetOff(f, k, c, o, v) ==
    /\ v \in Outbounds /\ Grown(chain, o, v) /\ v.closed = o.closed
    /\ v.holding = FALSE /\ v.held = <<>>
    /\ ~v.closed => \A n \in Range(o.held) : Coming(chain, v, n) \/ n \in Keeping(k, f, c, v)

LEMMA LetOffIs ==
    ASSUME Chained, NEW f \in Maps, cork[f] \in Corks, NEW o \in Outbounds, NEW c \in Clients
    PROVE  /\ LetOff(f, Corked(f, o, c, o.held), c, o, LetGo(MapQueued(f, o, o.held)))
           /\ Corked(f, o, c, o.held) \in Corks /\ Corked(f, o, c, o.held).on = cork[f].on
           /\ Gains(cork[f], Corked(f, o, c, o.held), f)
           /\ ~cork[f].on => Corked(f, o, c, o.held) = cork[f]
<1>1. PICK ns \in Seq(Nat) : ns = o.held
    BY DEF Outbounds
<1>2. PICK u, k : u = MapQueued(f, o, ns) /\ k = Corked(f, o, c, ns)
    OBVIOUS
<1>3. /\ u \in Outbounds /\ k \in Corks /\ k.on = cork[f].on /\ Gains(cork[f], k, f)
      /\ ~cork[f].on => k = cork[f]
      /\ Put(o, u)
      /\ ~u.closed => \A n \in Range(ns) : Coming(chain, u, n) \/ n \in Keeping(k, f, c, u)
    BY <1>2, MappedIs
<1>4. PICK v : v = LetGo(u)
    OBVIOUS
<1>5. /\ v \in Outbounds /\ Grown(chain, u, v) /\ v.closed = u.closed /\ v.sub = u.sub
      /\ v.holding = FALSE /\ v.held = <<>>
    BY <1>3, <1>4, LetGoIs
<1>6. Grown(chain, o, v)
    BY <1>3, <1>5, GrownTwice DEF Put
<1>7. ASSUME ~v.closed, NEW n \in Range(ns)
      PROVE  Coming(chain, v, n) \/ n \in Keeping(k, f, c, v)
    <2>1. Coming(chain, u, n) \/ n \in Keeping(k, f, c, u)
        BY <1>3, <1>5, <1>7
    <2>2. Coming(chain, u, n) => Coming(chain, v, n)
        BY <1>3, <1>5, LongerSelf, GrownComing DEF Chained
    <2>3. Keeping(k, f, c, u) = Keeping(k, f, c, v)
        BY <1>5 DEF Keeping
    <2> QED BY <2>1, <2>2, <2>3
<1>8. LetOff(f, k, c, o, v)
    BY <1>1, <1>3, <1>5, <1>6, <1>7 DEF LetOff, Put
<1> QED BY <1>1, <1>2, <1>3, <1>4, <1>8

(* What Push does, of the clients D it lets go: the one that leaves, if it *)
(* is held.                                                               *)
PushTo(f, k, D, v) ==
    /\ k \in Corks /\ (k.on <=> cork[f].on) /\ (~cork[f].on => k = cork[f])
    /\ Gains(cork[f], k, f)
    /\ D \in SUBSET Clients /\ (D = {} \/ \E d \in Clients : D = {d})
    /\ v \in [Clients -> Outbounds]
    /\ \A c \in Clients : c \notin D => v[c] = out[c]
    /\ \A c \in D : LetOff(f, k, c, out[c], v[c])

Pushes(f, k, D, v) ==
    /\ PushTo(f, k, D, v)
    /\ out' = [c \in Clients |-> Flushed(k, c, v[c])]
    /\ cork' = [cork EXCEPT ![f] = Swept(k)]
    /\ pc' = [pc EXCEPT ![f] = IF k.log = <<>> /\ k.directs = <<>> THEN "done" ELSE "publish"]
    /\ heldIdx' = [g \in Maps |-> heldIdx[g] \ {i \in Indices :
                      \E d \in D : out[d].sub.feed = g /\ out[d].sub.me = i}]
    /\ sent' = [c \in Clients |-> IF c \in D THEN sent[c] \ {creates[c]} ELSE sent[c]]
    /\ creates' = [c \in Clients |-> IF c \in D THEN 0 ELSE creates[c]]

LEMMA PushIs ==
    ASSUME FeedInv, NEW f \in Maps, NEW j \in Jobs, Push(f, j)
    PROVE  \E k, D, v : Pushes(f, k, D, v)
<1>0. /\ Typed /\ Chained /\ cork[f] \in Corks /\ out \in [Clients -> Outbounds]
      /\ \A c \in Clients : out[c] \in Outbounds
    BY FeedInvIs DEF Typed
<1>1. j.client \in Clients \/ j.client = Nobody
    BY DEF Jobs
<1>2. CASE j.client \in Clients /\ out[j.client].holding
    <2>1. PICK d \in Clients : d = j.client
        BY <1>2
    <2>2. PICK k : k = Corked(f, out[d], d, out[d].held)
        OBVIOUS
    <2>3. PICK u : u = LetGo(MapQueued(f, out[d], out[d].held))
        OBVIOUS
    <2>4. PICK v : v = [out EXCEPT ![d] = u]
        OBVIOUS
    <2>5. /\ LetOff(f, k, d, out[d], u) /\ k \in Corks /\ k.on = cork[f].on
          /\ Gains(cork[f], k, f) /\ (~cork[f].on => k = cork[f])
        BY <1>0, <2>2, <2>3, LetOffIs
    <2>6. /\ v \in [Clients -> Outbounds] /\ v[d] = u
          /\ \A c \in Clients : c # d => v[c] = out[c]
        BY <1>0, <2>4, <2>5 DEF LetOff
    <2>7. PushTo(f, k, {d}, v)
        <3>1. PICK D : D = {d}
            OBVIOUS
        <3>2. k.on <=> cork[f].on
            BY <2>5
        <3>3. \A c \in D : LetOff(f, k, c, out[c], v[c])
            BY <2>5, <2>6, <3>1
        <3>4. \A c \in Clients : c \notin D => v[c] = out[c]
            BY <2>6, <3>1
        <3>5. D \in SUBSET Clients /\ \E e \in Clients : D = {e}
            BY <3>1
        <3>6. k \in Corks /\ (~cork[f].on => k = cork[f]) /\ Gains(cork[f], k, f)
            BY <2>5
        <3>7. v \in [Clients -> Outbounds]
            BY <2>6
        <3>8. PushTo(f, k, D, v)
            BY ONLY <3>2, <3>3, <3>4, <3>5, <3>6, <3>7, Zenon DEF PushTo
        <3> QED BY <3>1, <3>8
    <2>8. j.do = "leave" /\ d # Nobody
        BY <2>1, FeedAssumption DEF Jobs
    <2>9. /\ out' = [c \in Clients |->
                        IF k.slots[c] = <<>> \/ out[c].closed
                        THEN IF c = d THEN u ELSE out[c]
                        ELSE [IF c = d THEN u ELSE out[c] EXCEPT
                                !.queue = Append(@, Own(k.slots[c], Stamp(IF c = d THEN u ELSE out[c])))]]
          /\ cork' = [cork EXCEPT ![f] = [k EXCEPT !.slots = [c \in Clients |-> <<>>]]]
          /\ pc' = [pc EXCEPT ![f] = IF k.log = <<>> /\ k.directs = <<>> THEN "done" ELSE "publish"]
          /\ heldIdx' = [g \in Maps |-> heldIdx[g] \ {i \in Indices : out[d].sub.feed = g /\ out[d].sub.me = i}]
          /\ sent' = [sent EXCEPT ![d] = @ \ {creates[d]}]
          /\ creates' = [creates EXCEPT ![d] = 0]
        BY <1>2, <2>1, <2>2, <2>3, <2>8, FeedAssumption DEF Push
    <2>10. ASSUME NEW c \in Clients
           PROVE  out'[c] = Flushed(k, c, v[c])
        <3>1. v[c] = (IF c = d THEN u ELSE out[c]) /\ v[c].closed = out[c].closed
            BY <2>5, <2>6 DEF LetOff
        <3>2. PICK x : x = v[c]
            OBVIOUS
        <3>3. out'[c] = IF k.slots[c] = <<>> \/ x.closed THEN x
                        ELSE [x EXCEPT !.queue = Append(@, Own(k.slots[c], Stamp(x)))]
            BY <2>9, <3>1, <3>2
        <3> QED BY <3>2, <3>3 DEF Flushed
    <2>11. out' = [c \in Clients |-> Flushed(k, c, v[c])]
        <3>1. out' = [c \in Clients |-> out'[c]]
            BY <2>9
        <3> QED BY <2>10, <3>1
    <2>12. heldIdx' = [g \in Maps |-> heldIdx[g] \ {i \in Indices :
                          \E e \in {d} : out[e].sub.feed = g /\ out[e].sub.me = i}]
        BY <2>9
    <2>13. /\ sent' = [c \in Clients |-> IF c \in {d} THEN sent[c] \ {creates[c]} ELSE sent[c]]
           /\ creates' = [c \in Clients |-> IF c \in {d} THEN 0 ELSE creates[c]]
        BY <1>0, <2>9 DEF Typed
    <2>14. cork' = [cork EXCEPT ![f] = Swept(k)]
        BY <2>9 DEF Swept
    <2>15. Pushes(f, k, {d}, v)
        BY <2>7, <2>9, <2>11, <2>12, <2>13, <2>14 DEF Pushes
    <2> QED BY <2>15
<1>3. CASE ~(j.client \in Clients /\ out[j.client].holding)
    <2>1. PICK k : k = cork[f]
        OBVIOUS
    <2>2. PushTo(f, k, {}, out)
        BY <1>0, <2>1 DEF PushTo, Gains
    <2>3. j.client = Nobody => j.do # "leave"
        BY FeedAssumption DEF Jobs
    <2>4. \A c \in Clients : ~(c = j.client /\ out[c].holding)
        BY <1>3
    <2>5. ~(j.do = "leave" /\ j.client = j.client /\ out[j.client].holding)
        BY <1>1, <1>3, <2>3
    <2>6. ~(j.client # Nobody /\ j.client = j.client /\ out[j.client].holding)
        BY <1>1, <1>3
    <2>7. /\ out' = [c \in Clients |->
                        IF k.slots[c] = <<>> \/ out[c].closed THEN out[c]
                        ELSE [out[c] EXCEPT !.queue = Append(@, Own(k.slots[c], Stamp(out[c])))]]
          /\ cork' = [cork EXCEPT ![f] = [k EXCEPT !.slots = [c \in Clients |-> <<>>]]]
          /\ pc' = [pc EXCEPT ![f] = IF k.log = <<>> /\ k.directs = <<>> THEN "done" ELSE "publish"]
          /\ heldIdx' = [g \in Maps |-> heldIdx[g] \ {}]
          /\ UNCHANGED <<sent, creates>>
        BY <2>1, <2>4, <2>5, <2>6 DEF Push
    <2>8. out' = [c \in Clients |-> Flushed(k, c, out[c])]
        BY <2>7 DEF Flushed
    <2>9. heldIdx' = [g \in Maps |-> heldIdx[g] \ {i \in Indices :
                          \E e \in {} : out[e].sub.feed = g /\ out[e].sub.me = i}]
        BY <2>7
    <2>10. /\ sent' = [c \in Clients |-> IF c \in {} THEN sent[c] \ {creates[c]} ELSE sent[c]]
           /\ creates' = [c \in Clients |-> IF c \in {} THEN 0 ELSE creates[c]]
        BY <1>0, <2>7 DEF Typed
    <2>11. cork' = [cork EXCEPT ![f] = Swept(k)]
        BY <2>7 DEF Swept
    <2>12. Pushes(f, k, {}, out)
        BY <2>2, <2>7, <2>8, <2>9, <2>10, <2>11 DEF Pushes
    <2> QED BY <2>12
<1> QED BY <1>1, <1>2, <1>3

(* A client after a push: w, of the cork ck2, with S sent to it.            *)
PushedAs(f, k, D, v, c, w, ck2, S, cr2) ==
    /\ PushTo(f, k, D, v)
    /\ w = Flushed(k, c, v[c]) /\ ck2 = [cork EXCEPT ![f] = Swept(k)]
    /\ S \subseteq sent[c] /\ (c \in D => creates[c] \notin S)
    /\ c \notin D => cr2 = creates[c]

LEMMA PushedOne ==
    ASSUME FeedInv, NEW f \in Maps, NEW c \in Clients,
           NEW k, NEW D, NEW v, NEW w, NEW ck2, NEW S, NEW cr2, PushedAs(f, k, D, v, c, w, ck2, S, cr2)
    PROVE  /\ w \in Outbounds /\ Grown(chain, out[c], w) /\ w.closed = out[c].closed
           /\ c \notin D => w.holding = out[c].holding
           /\ ~w.closed => Fine(chain, waker, wakerAt, ahead, written[c], w, cr2, inHand, ck2, c, S)
<1>0. /\ Typed /\ Walkable(chain, waker, wakerAt, ahead) /\ Chained /\ Longer(chain, chain)
      /\ \A e \in Clients : out[e] \in Outbounds /\ (~out[e].closed => FineNow(e))
    BY FeedInvIs
<1>1. PICK o \in Outbounds : o = out[c]
    BY <1>0
<1>2. PICK u \in Outbounds : u = v[c]
    BY DEF PushTo, PushedAs
<1>3. w = Flushed(k, c, u)
    BY <1>2 DEF PushedAs
<1>4. k \in Corks /\ Gains(cork[f], k, f)
    BY DEF PushTo, PushedAs
<1>5. /\ Put(u, w) /\ w \in Outbounds /\ w.closed = u.closed /\ w.holding = u.holding /\ w.held = u.held
      /\ Grown(chain, u, w)
      /\ ~u.closed => \A n \in Range(k.slots[c]) : Coming(chain, w, n)
    BY <1>0, <1>3, <1>4, FlushedIs DEF Put
<1>6. \/ c \notin D /\ u = o
      \/ c \in D /\ LetOff(f, k, c, o, u)
    BY <1>1, <1>2 DEF PushTo, PushedAs
<1>7. /\ Grown(chain, o, u) /\ u.closed = o.closed
      /\ c \notin D => u.holding = o.holding
    BY <1>6, GrownSelf DEF LetOff
<1>8. Grown(chain, o, w) /\ w.closed = o.closed /\ w.sub = o.sub
    <2>1. Grown(chain, o, w)
        BY <1>5, <1>7, GrownTwice
    <2>2. w.closed = o.closed
        BY <1>5, <1>7
    <2> QED BY <2>1, <2>2 DEF Grown
<1>9. ASSUME ~w.closed
      PROVE  Fine(chain, waker, wakerAt, ahead, written[c], w, cr2, inHand, ck2, c, S)
    <2>1. FineNow(c) /\ ~o.closed
        BY <1>0, <1>1, <1>8, <1>9
    <2>2. Fine(chain, waker, wakerAt, ahead, written[c], o, creates[c], inHand, cork, c, sent[c])
        BY <1>1, <2>1 DEF FineNow
    <2>3. ~w.holding => w.held = <<>>
        BY <1>5, <1>6, <2>2 DEF LetOff, Fine, ClientInv, Sound
    <2>4. ck2[f] = Swept(k) /\ \A g \in Maps : g # f => ck2[g] = cork[g]
        BY <1>0 DEF Typed, PushedAs
    <2>5. ASSUME NEW n, NEW x, x.sub = w.sub, n \in Keeping(k, f, c, x)
          PROVE  Has(written[c], chain, w, cr2, inHand, ck2, c, n)
        <3>1. n \in Keeping(k, f, c, w)
            BY <2>5 DEF Keeping
        <3>2. n \in Range(k.slots[c]) \/ n \in Keeping(Swept(k), f, c, w)
            BY <1>4, <3>1, SweptIs
        <3>3. n \in Range(k.slots[c]) => Coming(chain, w, n)
            BY <1>5, <1>9
        <3>4. n \in Keeping(Swept(k), f, c, w) => Elsewhere(w, cr2, inHand, ck2, c, n)
            BY <2>4 DEF Elsewhere
        <3> QED BY <3>2, <3>3, <3>4 DEF Has
    <2>6. ASSUME NEW n \in S, Elsewhere(o, creates[c], inHand, cork, c, n)
          PROVE  Has(written[c], chain, w, cr2, inHand, ck2, c, n)
        <3>1. CASE n \in Range(o.held)
            <4>1. CASE c \notin D
                BY <1>5, <1>6, <3>1, <4>1 DEF Has, Elsewhere
            <4>2. CASE c \in D
                <5>1. Coming(chain, u, n) \/ n \in Keeping(k, f, c, u)
                    BY <1>5, <1>6, <1>9, <3>1, <4>2 DEF LetOff
                <5>2. Coming(chain, u, n) => Coming(chain, w, n)
                    BY <1>0, <1>5, GrownComing DEF Chained
                <5>3. u.sub = w.sub
                    BY <1>5 DEF Grown
                <5> QED BY <2>5, <5>1, <5>2, <5>3 DEF Has
            <4> QED BY <4>1, <4>2
        <3>2. CASE o.holding /\ n = creates[c]
            <4>1. c \notin D
                BY <2>6, <3>2 DEF PushedAs
            <4>2. w.holding /\ cr2 = creates[c]
                BY <1>5, <1>6, <3>2, <4>1 DEF PushedAs
            <4> QED BY <3>2, <4>2 DEF Has, Elsewhere
        <3>3. CASE inHand.frame # 0 /\ inHand.client = c /\ n = inHand.frame
            BY <3>3 DEF Has, Elsewhere
        <3>4. ASSUME NEW g \in Maps, n \in Keeping(cork[g], g, c, o)
              PROVE  Has(written[c], chain, w, cr2, inHand, ck2, c, n)
            <4>1. CASE g = f
                <5>1. n \in Keeping(k, f, c, o)
                    BY <1>4, <3>4, <4>1 DEF Gains
                <5>2. o.sub = w.sub
                    BY <1>8
                <5> QED BY <2>5, <5>1, <5>2
            <4>2. CASE g # f
                <5>1. n \in Keeping(ck2[g], g, c, w)
                    BY <1>8, <2>4, <3>4, <4>2 DEF Keeping
                <5> QED BY <5>1 DEF Has, Elsewhere
            <4> QED BY <4>1, <4>2
        <3> QED BY <2>6, <3>1, <3>2, <3>3, <3>4 DEF Elsewhere
    <2>7. Accounted(o, creates[c], inHand, cork, sent[c], written[c], chain, w, cr2, inHand, ck2, S, c)
        BY <2>6 DEF Accounted, PushedAs
    <2> QED BY <1>0, <1>5, <1>8, <2>2, <2>3, <2>7, FineGrown DEF Chained
<1>10. c \notin D => w.holding = o.holding
    BY <1>5, <1>7
<1> QED BY <1>1, <1>2, <1>3, <1>5, <1>8, <1>9, <1>10

LEMMA PushInv ==
    ASSUME FeedInv, NEW f \in Maps, NEW j \in Jobs, Push(f, j)
    PROVE  FeedInv'
<1>0. /\ Typed /\ Seated /\ Pushing /\ Told /\ Walkable(chain, waker, wakerAt, ahead) /\ Chained
      /\ Longer(chain, chain)
      /\ \A c \in Clients : out[c] \in Outbounds /\ (~out[c].closed => FineNow(c))
    BY FeedInvIs
<1>1. PICK k, D, v : Pushes(f, k, D, v)
    BY PushIs
<1>2. /\ UNCHANGED <<written, chain, subs, signalled, signals, waker, wakerAt, ahead, table, inHand, frames>>
      /\ pc[f] = "run" /\ job' = [job EXCEPT ![f] = j]
    BY DEF Push, wakers, bounds
<1>3. /\ PushTo(f, k, D, v) /\ k \in Corks /\ (k.on <=> cork[f].on) /\ (~cork[f].on => k = cork[f])
      /\ D \in SUBSET Clients
    BY <1>1 DEF Pushes, PushTo
<1>4. ASSUME NEW c \in Clients
      PROVE  /\ sent'[c] = IF c \in D THEN sent[c] \ {creates[c]} ELSE sent[c]
             /\ creates'[c] = IF c \in D THEN 0 ELSE creates[c]
             /\ out'[c] = Flushed(k, c, v[c])
    BY <1>1 DEF Pushes
<1>5. /\ sent' \in [Clients -> SUBSET Nat] /\ creates' \in [Clients -> Nat]
    <2>1. sent \in [Clients -> SUBSET Nat] /\ creates \in [Clients -> Nat]
        BY <1>0 DEF Typed
    <2> QED BY <1>1, <2>1 DEF Pushes
<1>6. ASSUME NEW c \in Clients
      PROVE  /\ out'[c] \in Outbounds /\ Grown(chain, out[c], out'[c]) /\ out'[c].closed = out[c].closed
             /\ c \notin D => out'[c].holding = out[c].holding
             /\ ~out'[c].closed => Fine(chain, waker, wakerAt, ahead, written[c], out'[c], creates'[c],
                                        inHand, cork', c, sent'[c])
    <2>1. PICK ck2 : ck2 = cork' /\ ck2 = [cork EXCEPT ![f] = Swept(k)]
        BY <1>1 DEF Pushes
    <2>2. PICK S, cr2 : S = sent'[c] /\ cr2 = creates'[c]
        OBVIOUS
    <2>3. PICK w : w = Flushed(k, c, v[c])
        OBVIOUS
    <2>4. PushedAs(f, k, D, v, c, w, ck2, S, cr2)
        BY <1>3, <1>4, <2>1, <2>2, <2>3 DEF PushedAs
    <2>5. /\ w \in Outbounds /\ Grown(chain, out[c], w) /\ w.closed = out[c].closed
          /\ c \notin D => w.holding = out[c].holding
          /\ ~w.closed => Fine(chain, waker, wakerAt, ahead, written[c], w, cr2, inHand, ck2, c, S)
        BY <2>4, PushedOne
    <2> QED BY <1>2, <1>4, <2>1, <2>2, <2>3, <2>5
<1>7. out' \in [Clients -> Outbounds]
    <2>1. out' = [c \in Clients |-> Flushed(k, c, v[c])]
        BY <1>1 DEF Pushes
    <2> QED BY <1>6, <2>1
<1>8. /\ Swept(k) \in Corks /\ cork' \in [Maps -> Corks] /\ cork'[f] = Swept(k)
      /\ \A g \in Maps : g # f => cork'[g] = cork[g]
    <2>1. cork' = [cork EXCEPT ![f] = Swept(k)] /\ cork \in [Maps -> Corks] /\ Swept(k) \in Corks
        BY <1>0, <1>1, <1>3, SweptIs DEF Pushes, Typed
    <2> QED BY <2>1
<1>9. /\ pc' \in [Maps -> {"run", "publish", "number", "signal", "done"}]
      /\ pc'[f] \in {"done", "publish"} /\ (pc'[f] = "done" => k.log = <<>> /\ k.directs = <<>>)
      /\ \A g \in Maps : g # f => pc'[g] = pc[g]
    <2>1. pc \in [Maps -> {"run", "publish", "number", "signal", "done"}]
        BY <1>0 DEF Typed
    <2>2. PICK p \in {"done", "publish"} : /\ pc' = [pc EXCEPT ![f] = p]
                                           /\ p = "done" => k.log = <<>> /\ k.directs = <<>>
        BY <1>1 DEF Pushes
    <2> QED BY <2>1, <2>2
<1>10. /\ job' \in [Maps -> [do : {"none", "stay", "off", "leave"}, client : SomeOne]]
       /\ job'[f] = j /\ \A g \in Maps : g # f => job'[g] = job[g]
    <2>1. j \in [do : {"none", "stay", "off", "leave"}, client : SomeOne]
        BY DEF Jobs, SomeOne
    <2>2. job \in [Maps -> [do : {"none", "stay", "off", "leave"}, client : SomeOne]]
        BY <1>0 DEF Typed
    <2> QED BY <1>2, <2>1, <2>2
<1>11. /\ heldIdx' \in [Maps -> SUBSET Indices]
       /\ \A g \in Maps : heldIdx'[g] \subseteq heldIdx[g]
       /\ \A d \in D : \A g \in Maps : out[d].sub.feed = g => out[d].sub.me \notin heldIdx'[g]
       /\ D = {} => heldIdx' = heldIdx
    <2>1. heldIdx' = [g \in Maps |-> heldIdx[g] \ {i \in Indices :
                            \E d \in D : out[d].sub.feed = g /\ out[d].sub.me = i}]
        BY <1>1 DEF Pushes
    <2>2. heldIdx \in [Maps -> SUBSET Indices]
        BY <1>0 DEF Typed
    <2> QED BY <2>1, <2>2
<1>12. Typed'
    BY <1>0, <1>2, <1>5, <1>7, <1>8, <1>9, <1>10, <1>11 DEF Typed
<1>13. Seated'
    <2>1. CASE D = {}
        <3>1. heldIdx' = heldIdx
            BY <1>11, <2>1
        <3>2. \A c \in Clients : ~out'[c].closed => ~out[c].closed /\ Steady(out[c], out'[c])
            BY <1>0, <1>6, GrownSteady
        <3>3. ASSUME NEW c \in Clients, ~out'[c].closed, out[c].sub.feed # Nobody, out[c].sub.me \in Indices,
                     subs[out[c].sub.feed][out[c].sub.me].client = c,
                     out[c].sub.me \in heldIdx[out[c].sub.feed]
              PROVE  out'[c].holding
            <4>1. Seat(subs, heldIdx, c, out[c])
                BY <1>0, <1>6, <3>3 DEF Seated
            <4>2. out'[c].holding = out[c].holding
                BY <1>6, <2>1
            <4> QED BY <3>3, <4>1, <4>2 DEF Seat
        <3>4. \A c \in Clients : ~out'[c].closed /\ out[c].sub.feed # Nobody /\ out[c].sub.me \in Indices
                    /\ subs[out[c].sub.feed][out[c].sub.me].client = c
                    /\ out[c].sub.me \in heldIdx'[out[c].sub.feed]
                => out'[c].holding
            BY <3>1, <3>3
        <3> QED BY <1>0, <1>2, <1>7, <3>2, <3>4, SeatedKeeps
    <2>2. CASE D # {}
        <3>1. PICK d \in Clients : D = {d}
            BY <1>3, <2>2 DEF PushTo
        <3>2. PICK w \in Outbounds : w = out'[d]
            BY <1>6
        <3>3. ~w.closed => ~out[d].closed /\ Grown(chain, out[d], w)
            BY <1>6, <3>2
        <3>4. \A c \in Clients : c # d /\ ~out'[c].closed =>
                ~out[c].closed /\ Grown(chain, out[c], out'[c]) /\ out'[c].holding = out[c].holding
            BY <1>6, <3>1
        <3>5. \A g \in Maps : heldIdx'[g] \subseteq heldIdx[g]
                    /\ (out[d].sub.feed = g => out[d].sub.me \notin heldIdx'[g])
            BY <1>11, <3>1
        <3> QED BY <1>2, <1>7, <3>2, <3>3, <3>4, <3>5, FreedSeated
    <2> QED BY <2>1, <2>2
<1>14. Pushing'
    <2>1. j.do = "leave" => j.client \in Clients /\ InMap(f, j.client)
        BY <1>2 DEF Push, Jobs
    <2>2. \A x : \A g \in Maps : InMap(g, x) <=> InMap(g, x)'
        BY <1>2 DEF InMap
    <2>3. ASSUME NEW g \in Maps
          PROVE  /\ job'[g].do = "leave" => job'[g].client \in Clients
                 /\ pc'[g] = "run" => job'[g].do = "none"
                 /\ ~cork'[g].on /\ pc'[g] # "number" => Empty(cork'[g])
                 /\ pc'[g] # "run" => \A c \in Clients : cork'[g].slots[c] = <<>>
                 /\ pc'[g] \in {"signal", "done"} => Empty(cork'[g])
        <3>1. CASE g = f
            <4>1. Empty(cork[f]) => (k.log = <<>> /\ k.directs = <<>>) \/ k # cork[f]
                BY DEF Empty
            <4>2. ~cork[f].on => Empty(cork[f])
                BY <1>0, <1>2 DEF Pushing
            <4>3. ~cork'[f].on => Empty(cork'[f])
                BY <1>3, <1>8, <4>1, <4>2, SweptIs
            <4>4. \A c \in Clients : cork'[f].slots[c] = <<>>
                BY <1>3, <1>8, SweptIs
            <4>5. pc'[f] = "done" => Empty(cork'[f])
                BY <1>3, <1>8, <1>9, SweptIs
            <4>6. /\ job'[f].do = "leave" => job'[f].client \in Clients
                  /\ pc'[f] # "run" /\ pc'[f] # "signal"
                BY <1>9, <1>10, <2>1
            <4> QED BY <3>1, <4>3, <4>4, <4>5, <4>6
        <3>2. CASE g # f
            BY <1>0, <1>8, <1>9, <1>10, <3>2 DEF Pushing
        <3> QED BY <3>1, <3>2
    <2>4. ASSUME NEW g \in Maps, job'[g].do = "leave"
          PROVE  \E i \in Indices : table'[g][i] = job'[g].client
        <3>1. CASE g = f
            BY <1>2, <1>10, <2>1, <2>4, <3>1 DEF InMap
        <3>2. CASE g # f
            <4>1. job[g].do = "leave" /\ job'[g] = job[g]
                BY <1>10, <2>4, <3>2
            <4>2. InMap(g, job[g].client)
                BY <1>0, <4>1 DEF Pushing
            <4> QED BY <1>2, <4>1, <4>2 DEF InMap
        <3> QED BY <3>1, <3>2
    <2> QED BY <2>3, <2>4 DEF Pushing, InMap
<1>15. Told'
    <2>1. ASSUME NEW g \in Maps, wakerAt[g] < Len(chain[g])
          PROVE  pc'[g] = "signal" \/ signalled[g] \/ (waker.at = "walk" /\ waker.feed = g)
        <3>1. pc[g] = "signal" \/ signalled[g] \/ (waker.at = "walk" /\ waker.feed = g)
            BY <1>0, <2>1 DEF Told
        <3> QED BY <1>2, <1>9, <3>1
    <2>2. ASSUME NEW g \in Maps
          PROVE  Walks(Len(chain[g]), wakerAt[g], ahead[g], pc'[g])
        BY <1>0, <1>2, <1>9 DEF Told, Walks
    <2> QED BY <1>0, <1>2, <2>1, <2>2 DEF Told
<1> QED BY <1>2, <1>6, <1>12, <1>13, <1>14, <1>15, FeedInvThen

-----------------------------------------------------------------------------
(* A broadcast.                                                           *)

(* A client that the feed reaches for the first time begins to read it.    *)
LEMMA SubscribedIs ==
    ASSUME Chained, NEW f \in Maps, NEW i \in Indices, NEW o \in Outbounds, ~o.closed,
           o.sub.feed = Nobody
    PROVE  LET w == Subscribed(o, f, i)
           IN  /\ w \in Outbounds /\ Behind(o, w) /\ Ends(chain, o, w) /\ Follows(w)
               /\ w.sub.feed = f /\ w.sub.me = i
               /\ w.sub.account \in 1..Len(w.accounts) /\ w.accounts[w.sub.account].open
               /\ w.at = o.at /\ w.head = o.head /\ w.holding = o.holding /\ w.held = o.held
               /\ w.closed = o.closed
<1>1. PICK w : w = Subscribed(o, f, i)
    OBVIOUS
<1>2. PICK a \in Nat : a = Len(o.accounts) + 1 /\ Len(o.accounts) \in Nat
    BY LenProperties DEF Outbounds
<1>3. PICK x : x = Sub(f, i, published(f), a)
    OBVIOUS
<1>4. /\ x \in Items /\ x.kind = "sub" /\ x.feed = f /\ x.me = i /\ x.after = Len(chain[f])
    <2>1. Len(chain[f]) \in Nat
        BY LenProperties DEF Chained
    <2>2. x = [kind |-> "sub", feed |-> f, me |-> i, after |-> Len(chain[f]), account |-> a]
        BY <1>3 DEF Sub, published
    <2> QED BY <2>1, <2>2 DEF SubItems, Items
<1>5. PICK q : q = Append(o.queue, x)
    OBVIOUS
<1>6. /\ q \in Seq(Items) /\ Len(o.queue) \in Nat /\ Len(q) = Len(o.queue) + 1
      /\ \A j \in 1..Len(o.queue) : q[j] = o.queue[j]
      /\ q[Len(o.queue) + 1] = x
    <2>1. o.queue \in Seq(Items)
        BY DEF Outbounds
    <2> QED BY <1>4, <1>5, <2>1, AppendProperties, LenProperties
<1>7. (o.queue \o <<>>) \o <<x>> = q
    <2>1. o.queue \in Seq(Items)
        BY DEF Outbounds
    <2>2. o.queue \o <<>> = o.queue
        BY <2>1, CatNil DEF Cat
    <2>3. o.queue \o <<x>> = q
        BY <1>4, <1>5, <2>1, AppendIs
    <2> QED BY <2>2, <2>3
<1>8. PICK e : e = [due |-> 0, done |-> 0, open |-> TRUE]
    OBVIOUS
<1>9. PICK acc : acc = Append(o.accounts, e)
    OBVIOUS
<1>10. acc \in Seq(Accounts) /\ Len(acc) = a /\ acc[a].open
    <2>1. o.accounts \in Seq(Accounts) /\ e \in Accounts /\ e.open
        BY <1>8 DEF Outbounds, Accounts
    <2>2. acc[Len(o.accounts) + 1] = e
        BY <1>9, <2>1, AppendProperties
    <2> QED BY <1>2, <1>9, <2>1, <2>2, AppendProperties
<1>11. PICK s : s = [feed |-> f, me |-> i, account |-> a]
    OBVIOUS
<1>12. /\ s \in [feed : SomeMap, me : Nat, account : Nat]
       /\ s.feed = f /\ s.me = i /\ s.account = a
    BY <1>11, FeedAssumption DEF SomeMap
<1>13. w = [o EXCEPT !.queue = q, !.accounts = acc, !.sub = s]
    <2>1. w = [o EXCEPT !.queue = (@ \o <<>>) \o <<Sub(f, i, published(f), Len(o.accounts) + 1)>>,
                        !.accounts = Append(o.accounts, [due |-> 0, done |-> 0, open |-> TRUE]),
                        !.sub = [feed |-> f, me |-> i, account |-> Len(o.accounts) + 1]]
        BY <1>1 DEF Subscribed
    <2>2. w = [o EXCEPT !.queue = (@ \o <<>>) \o <<x>>, !.accounts = acc, !.sub = s]
        BY <1>2, <1>3, <1>8, <1>9, <1>11, <2>1
    <2> QED BY <1>7, <2>2
<1>14. /\ w \in Outbounds /\ w.queue = q /\ w.sub = s /\ w.accounts = acc /\ w.closed = o.closed
       /\ w.at = o.at /\ w.head = o.head /\ w.holding = o.holding /\ w.held = o.held
       /\ w.reading = o.reading /\ w.batch = o.batch
    BY <1>6, <1>10, <1>12, <1>13 DEF Outbounds, Accounts
<1>15. Behind(o, w)
    BY <1>4, <1>6, <1>14 DEF Behind
<1>16. Ends(chain, o, w)
    BY <1>4, <1>6, <1>12, <1>14 DEF Ends
<1>17. Follows(w)
    <2>1. Len(w.queue) \in Readings(w)
        BY <1>4, <1>6, <1>14 DEF Readings
    <2>2. OwnUpTo(w, Len(w.queue), Len(w.queue))
        <3>1. (Len(w.queue) + 1)..Len(w.queue) = {}
            BY <1>6, <1>14
        <3> QED BY <3>1 DEF OwnUpTo
    <2> QED BY <2>1, <2>2 DEF Follows
<1>18. w.sub.account \in 1..Len(w.accounts) /\ w.accounts[w.sub.account].open
    BY <1>2, <1>10, <1>12, <1>14
<1> QED BY <1>1, <1>12, <1>14, <1>15, <1>16, <1>17, <1>18

(* The client an index is whose, and what it is to be sent as.             *)
LEMMA IndexIs ==
    ASSUME Seated, NEW f \in Maps, NEW to \in SUBSET Indices, NEW i \in to, table[f][i] # Nobody
    PROVE  (CHOOSE j \in to : table[f][j] = table[f][i]) = i
<1>1. PICK j : j = CHOOSE x \in to : table[f][x] = table[f][i]
    OBVIOUS
<1>2. j \in to /\ table[f][j] = table[f][i]
    BY <1>1
<1>3. j = i
    BY <1>2 DEF Seated, OnePlace
<1> QED BY <1>1, <1>3

Joined(f, to, c, i) == IF i \in New(f, to) THEN Subscribed(out[c], f, i) ELSE out[c]
Helds(f, to) == (heldIdx[f] \ New(f, to)) \cup {i \in New(f, to) : out[table[f][i]].holding}

LEMMA JoinedIs ==
    ASSUME FeedInv, NEW f \in Maps, NEW to \in SUBSET Indices, NEW i \in to,
           NEW c \in Clients, table[f][i] = c
    PROVE  LET u == Joined(f, to, c, i)
           IN  /\ u \in Outbounds /\ u.closed = out[c].closed
               /\ ~u.closed =>
                    /\ u.sub.feed = f /\ u.sub.me = i /\ u.holding = out[c].holding
                    /\ i \in Helds(f, to) => u.holding
                    /\ IF i \in New(f, to)
                       THEN /\ out[c].sub.feed = Nobody
                            /\ u.sub.account \in 1..Len(u.accounts) /\ u.accounts[u.sub.account].open
                       ELSE u = out[c]
                    /\ Fine(chain, waker, wakerAt, ahead, written[c], u, creates[c], inHand, cork, c, sent[c])
<1>0. /\ Typed /\ Seated /\ Walkable(chain, waker, wakerAt, ahead) /\ Chained
      /\ \A e \in Clients : out[e] \in Outbounds /\ (~out[e].closed => FineNow(e))
    BY FeedInvIs
<1>1. PICK o \in Outbounds : o = out[c]
    BY <1>0
<1>2. PICK u : u = Joined(f, to, c, i)
    OBVIOUS
<1>3. i \in Indices /\ c # Nobody
    BY FeedAssumption
<1>4. subs[f][i].client \in {Nobody, c}
    BY <1>0, <1>3 DEF Seated, Known
<1>5. CASE o.closed
    BY <1>1, <1>2, <1>5 DEF Joined, Subscribed
<1>6. CASE ~o.closed
    <2>0. /\ Reader(subs, c, o) /\ Seat(subs, heldIdx, c, o)
          /\ Fine(chain, waker, wakerAt, ahead, written[c], o, creates[c], inHand, cork, c, sent[c])
        BY <1>0, <1>1, <1>6 DEF Seated, FineNow
    <2>1. CASE i \in New(f, to)
        <3>1. subs[f][i].client = Nobody
            BY <2>1 DEF New
        <3>2. o.sub.feed = Nobody
            <4> SUFFICES ASSUME o.sub.feed # Nobody
                         PROVE  FALSE
                OBVIOUS
            <4>1. PICK g \in Maps : g = o.sub.feed
                BY DEF Outbounds, SomeMap
            <4>2. PICK j \in Indices : j = o.sub.me
                BY <2>0 DEF Seat
            <4>3. subs[g][j].client = c
                BY <2>0, <4>1, <4>2 DEF Seat
            <4>4. table[g][j] = c
                BY <1>0, <1>3, <4>3 DEF Seated, Known
            <4>5. g = f /\ j = i
                BY <1>0, <1>3, <4>4 DEF Seated, OnePlace
            <4> QED BY <1>3, <3>1, <4>3, <4>5
        <3>3. u = Subscribed(o, f, i)
            BY <1>1, <1>2, <2>1 DEF Joined
        <3>4. /\ u \in Outbounds /\ Behind(o, u) /\ Ends(chain, o, u) /\ Follows(u)
              /\ u.sub.feed = f /\ u.sub.me = i
              /\ u.sub.account \in 1..Len(u.accounts) /\ u.accounts[u.sub.account].open
              /\ u.at = o.at /\ u.head = o.head /\ u.holding = o.holding /\ u.held = o.held
              /\ u.closed = o.closed
            BY <1>0, <1>3, <1>6, <3>2, <3>3, SubscribedIs
        <3>5. ASSUME NEW n, Elsewhere(o, creates[c], inHand, cork, c, n)
              PROVE  Elsewhere(u, creates[c], inHand, cork, c, n)
            <4>1. ASSUME NEW g \in Maps, n \in Keeping(cork[g], g, c, o)
                  PROVE  n \in Keeping(cork[g], g, c, u)
                <5>1. o.sub.feed # g
                    BY <3>2, FeedAssumption
                <5> QED BY <4>1, <5>1 DEF Keeping
            <4>2. CASE \E g \in Maps : n \in Keeping(cork[g], g, c, o)
                BY <4>1, <4>2 DEF Elsewhere
            <4>3. CASE ~\E g \in Maps : n \in Keeping(cork[g], g, c, o)
                BY <3>4, <3>5, <4>3 DEF Elsewhere
            <4> QED BY <4>2, <4>3
        <3>6. Moved(o, creates[c], inHand, cork, u, cork, c)
            BY <3>5 DEF Moved
        <3>7. Fine(chain, waker, wakerAt, ahead, written[c], u, creates[c], inHand, cork, c, sent[c])
            BY <1>0, <2>0, <3>4, <3>6, FineBehind
        <3>8. i \in Helds(f, to) => u.holding
            BY <1>1, <2>1, <3>4 DEF Helds
        <3> QED BY <1>1, <1>2, <2>1, <3>2, <3>4, <3>7, <3>8
    <2>2. CASE i \notin New(f, to)
        <3>1. subs[f][i].client = c
            BY <1>4, <2>2 DEF New
        <3>2. o.sub.feed = f /\ o.sub.me = i
            BY <1>3, <2>0, <3>1 DEF Reader
        <3>3. u = o
            BY <1>1, <1>2, <2>2 DEF Joined
        <3>4. i \in Helds(f, to) => u.holding
            <4>1. i \in Helds(f, to) => i \in heldIdx[f]
                BY <2>2 DEF Helds
            <4>2. f # Nobody
                BY FeedAssumption
            <4> QED BY <2>0, <3>2, <3>3, <4>1, <4>2 DEF Seat
        <3> QED BY <1>1, <1>2, <2>0, <2>2, <3>2, <3>3, <3>4
    <2> QED BY <2>1, <2>2
<1> QED BY <1>5, <1>6

(* What Broadcast does, in those terms.                                   *)
At(f, to, c, i) == i \in to /\ table[f][i] = c
Reached(f, to, c) == \E i \in to : At(f, to, c, i)
Sending(f, to, c, i, n) ==
    IF i \in Helds(f, to) /\ Joined(f, to, c, i).holding THEN Kept(Joined(f, to, c, i), n)
    ELSE Joined(f, to, c, i)

Casts(f, to, n) ==
    /\ out' \in [Clients -> Outbounds]
    /\ \A c \in Clients : ~Reached(f, to, c) => out'[c] = out[c] /\ sent'[c] = sent[c]
    /\ \A c \in Clients : \A i \in to : At(f, to, c, i) =>
          out'[c] = Sending(f, to, c, i, n) /\ sent'[c] = sent[c] \cup {n}
    /\ sent' \in [Clients -> SUBSET Nat] /\ frames' = n
    /\ subs' \in [Maps -> [Indices -> Readers]]
    /\ \A g \in Maps : \A j \in Indices : ~(g = f /\ j \in New(f, to)) => subs'[g][j] = subs[g][j]
    /\ \A c \in Clients : \A i \in New(f, to) : At(f, to, c, i) =>
          subs'[f][i].client = c /\ subs'[f][i].account = Joined(f, to, c, i).sub.account
    /\ heldIdx' \in [Maps -> SUBSET Indices] /\ heldIdx'[f] = Helds(f, to)
    /\ \A g \in Maps : g # f => heldIdx'[g] = heldIdx[g]

LEMMA BroadcastIs ==
    ASSUME FeedInv, NEW f \in Maps, NEW to \in SUBSET Indices, Broadcast(f, to),
           NEW n \in Nat, n = frames + 1
    PROVE  Casts(f, to, n)
<1>0. /\ Typed /\ Seated /\ Chained
      /\ \A e \in Clients : out[e] \in Outbounds
    BY FeedInvIs
<1>1. \A i \in to : i \in Indices /\ table[f][i] \in Clients
    BY <1>0 DEF Broadcast, Typed, SomeOne
<1> DEFINE index(c) == CHOOSE i \in to : table[f][i] = c
           C == {table[f][i] : i \in to}
           joined == [c \in C |-> IF index(c) \in New(f, to)
                                  THEN Subscribed(out[c], f, index(c)) ELSE out[c]]
<1>2. ASSUME NEW c \in Clients, NEW i \in to, At(f, to, c, i)
      PROVE  c \in C /\ index(c) = i /\ joined[c] = Joined(f, to, c, i)
    <2>1. table[f][i] = c /\ table[f][i] # Nobody
        BY <1>1, <1>2, FeedAssumption DEF At
    <2>2. c \in C
        BY <2>1
    <2>3. index(c) = i
        BY <1>0, <2>1, IndexIs
    <2>4. joined[c] = IF index(c) \in New(f, to) THEN Subscribed(out[c], f, index(c)) ELSE out[c]
        BY <2>2
    <2> HIDE DEF joined, index
    <2> QED BY <2>2, <2>3, <2>4 DEF Joined
<1>3. \A c \in Clients : ~Reached(f, to, c) => c \notin C
    BY DEF Reached, At
<1>4. /\ out' = [c \in Clients |->
                    IF c \notin C THEN out[c]
                    ELSE IF index(c) \in Helds(f, to) /\ joined[c].holding THEN Kept(joined[c], n)
                    ELSE joined[c]]
      /\ subs' = [subs EXCEPT ![f] = [i \in Indices |->
                    IF i \notin New(f, to) THEN @[i]
                    ELSE [client |-> table[f][i], after |-> published(f),
                          account |-> joined[table[f][i]].sub.account]]]
      /\ heldIdx' = [heldIdx EXCEPT ![f] = Helds(f, to)]
      /\ Sends(f, C)
    BY DEF Broadcast, Helds
<1> HIDE DEF index, joined
<1>5. /\ sent' \in [Clients -> SUBSET Nat] /\ frames' = n
      /\ \A c \in Clients : sent'[c] = IF c \in C THEN sent[c] \cup {n} ELSE sent[c]
    BY <1>0, <1>4, SendsIs
<1>6. ASSUME NEW c \in Clients, ~Reached(f, to, c)
      PROVE  out'[c] = out[c] /\ sent'[c] = sent[c]
    BY <1>3, <1>4, <1>5, <1>6
<1>7. ASSUME NEW c \in Clients, NEW i \in to, At(f, to, c, i)
      PROVE  out'[c] = Sending(f, to, c, i, n) /\ sent'[c] = sent[c] \cup {n}
    <2>1. c \in C /\ index(c) = i
        BY <1>2, <1>7
    <2>2. PICK u : u = joined[c] /\ u = Joined(f, to, c, i)
        BY <1>2, <1>7
    <2>3. out'[c] = IF i \in Helds(f, to) /\ u.holding THEN Kept(u, n) ELSE u
        BY <1>4, <2>1, <2>2
    <2> QED BY <1>5, <2>1, <2>2, <2>3 DEF Sending
<1> HIDE DEF C
<1>8. out' \in [Clients -> Outbounds]
    <2>1. ASSUME NEW c \in Clients
          PROVE  out'[c] \in Outbounds
        <3>1. CASE ~Reached(f, to, c)
            BY <1>0, <1>6, <3>1
        <3>2. CASE Reached(f, to, c)
            <4>1. PICK i \in to : At(f, to, c, i)
                BY <3>2 DEF Reached
            <4>2. PICK u \in Outbounds : u = Joined(f, to, c, i)
                BY <4>1, JoinedIs DEF At
            <4>3. out'[c] = IF i \in Helds(f, to) /\ u.holding THEN Kept(u, n) ELSE u
                BY <1>7, <4>1, <4>2 DEF Sending
            <4>4. Kept(u, n) \in Outbounds
                BY KeptIs
            <4> QED BY <4>3, <4>4
        <3> QED BY <3>1, <3>2
    <2>2. \E h : out' = [c \in Clients |-> h[c]]
        <3>1. PICK h : h = [c \in Clients |->
                    IF c \notin C THEN out[c]
                    ELSE IF index(c) \in Helds(f, to) /\ joined[c].holding THEN Kept(joined[c], n)
                    ELSE joined[c]]
            OBVIOUS
        <3>2. h = [c \in Clients |-> h[c]]
            BY <3>1
        <3> QED BY <1>4, <3>1, <3>2
    <2> QED BY <2>1, <2>2
<1>9. ASSUME NEW i \in New(f, to)
      PROVE  /\ subs'[f][i].client = table[f][i]
             /\ subs'[f][i].account = Joined(f, to, table[f][i], i).sub.account
             /\ subs'[f][i] \in Readers
    <2>1. i \in to /\ i \in Indices
        BY <1>9 DEF New
    <2>2. PICK c \in Clients : c = table[f][i]
        BY <1>1, <2>1
    <2>3. At(f, to, c, i)
        BY <2>1, <2>2 DEF At
    <2>4. PICK u \in Outbounds : u = joined[c] /\ u = Joined(f, to, c, i)
        BY <1>2, <2>1, <2>3, <2>2, JoinedIs
    <2>5. PICK a \in Nat : a = u.sub.account
        BY DEF Outbounds
    <2>6. subs \in [Maps -> [Indices -> Readers]]
        BY <1>0 DEF Typed
    <2>7. PICK m \in Nat : m = published(f)
        BY <1>0, LenProperties DEF Chained, published
    <2>8. subs'[f][i] = [client |-> c, after |-> m, account |-> a]
        BY <1>4, <1>9, <2>1, <2>2, <2>4, <2>5, <2>6, <2>7
    <2> QED BY <2>2, <2>4, <2>5, <2>8 DEF Readers, SomeOne
<1>10. \A g \in Maps : \A j \in Indices : ~(g = f /\ j \in New(f, to)) => subs'[g][j] = subs[g][j]
    <2>1. subs \in [Maps -> [Indices -> Readers]]
        BY <1>0 DEF Typed
    <2> QED BY <1>4, <2>1
<1>11. subs' \in [Maps -> [Indices -> Readers]]
    <2>1. subs \in [Maps -> [Indices -> Readers]]
        BY <1>0 DEF Typed
    <2>2. PICK r : /\ subs' = [subs EXCEPT ![f] = r] /\ r = [i \in Indices |-> r[i]]
        <3>1. PICK r : r = [i \in Indices |->
                    IF i \notin New(f, to) THEN subs[f][i]
                    ELSE [client |-> table[f][i], after |-> published(f),
                          account |-> joined[table[f][i]].sub.account]]
            OBVIOUS
        <3>2. r = [i \in Indices |-> r[i]]
            BY <3>1
        <3>3. subs' = [subs EXCEPT ![f] = r]
            BY <1>4, <3>1
        <3> QED BY <3>2, <3>3
    <2>3. subs'[f] = r
        BY <2>1, <2>2
    <2>4. ASSUME NEW i \in Indices
          PROVE  r[i] \in Readers
        <3>1. CASE i \in New(f, to)
            BY <1>9, <2>3, <3>1
        <3>2. CASE i \notin New(f, to)
            BY <1>10, <2>1, <2>3, <3>2
        <3> QED BY <3>1, <3>2
    <2>5. r \in [Indices -> Readers]
        BY <2>2, <2>4
    <2> QED BY <2>1, <2>2, <2>5
<1>12. /\ heldIdx' \in [Maps -> SUBSET Indices] /\ heldIdx'[f] = Helds(f, to)
       /\ \A g \in Maps : g # f => heldIdx'[g] = heldIdx[g]
    <2>1. heldIdx \in [Maps -> SUBSET Indices] /\ Helds(f, to) \subseteq Indices
        BY <1>0 DEF Typed, Helds, New
    <2>2. PICK hs \in SUBSET Indices : hs = Helds(f, to)
        BY <2>1
    <2> QED BY <1>4, <2>1, <2>2
<1>13. ASSUME NEW c \in Clients, NEW i \in New(f, to), At(f, to, c, i)
       PROVE  subs'[f][i].client = c /\ subs'[f][i].account = Joined(f, to, c, i).sub.account
    BY <1>9, <1>13 DEF At
<1> QED BY <1>5, <1>6, <1>7, <1>8, <1>10, <1>11, <1>12, <1>13 DEF Casts

(* The frame gets to those not held: it is in the cork, or yet to publish.  *)
Delivers(f, rest, n) ==
    \A u \in Outbounds : \A i \in rest :
        Stamped(chain, u) /\ Follows(u) /\ u.sub.feed = f /\ u.sub.me = i =>
            Coming(chain', u, n) \/ \A c \in Clients : n \in Keeping(cork'[f], f, c, u)

LEMMA FrameIs ==
    ASSUME NEW n \in Nat, NEW rest \in SUBSET Indices
    PROVE  \E b \in Broadcasts : b = [frame |-> n, to |-> rest] /\ b.frame = n /\ b.to = rest
<1>1. PICK b : b = [frame |-> n, to |-> rest]
    OBVIOUS
<1>2. b \in Broadcasts /\ b.frame = n /\ b.to = rest
    BY <1>1 DEF Broadcasts
<1> QED BY <1>1, <1>2

LoggedIn(k, n, rest) == [k EXCEPT !.log = Append(@, [frame |-> n, to |-> rest])]

LEMMA LoggedIs ==
    ASSUME NEW k \in Corks, NEW f \in Maps, NEW n \in Nat, NEW rest \in SUBSET Indices
    PROVE  LET l == LoggedIn(k, n, rest)
           IN  /\ l \in Corks /\ l.on = k.on /\ l.slots = k.slots /\ Gains(k, l, f)
               /\ \A c \in Clients : \A u : u.sub.feed = f /\ u.sub.me \in rest => n \in Keeping(l, f, c, u)
<1>1. PICK b \in Broadcasts : b = [frame |-> n, to |-> rest] /\ b.frame = n /\ b.to = rest
    BY FrameIs
<1>2. PICK s : s = Append(k.log, b)
    OBVIOUS
<1>3. k.log \in Seq(Broadcasts) /\ Len(k.log) \in Nat
    BY CorkIs
<1>4. s \in Seq(Broadcasts) /\ Len(s) = Len(k.log) + 1 /\ Range(s) = Range(k.log) \cup {b}
    BY <1>2, <1>3, AppendProperties, RangeAppend
<1>5. PICK l : l = LoggedIn(k, n, rest)
    OBVIOUS
<1>6. l = [k EXCEPT !.log = s]
    BY <1>1, <1>2, <1>5 DEF LoggedIn
<1>7. l.log = s /\ l.on = k.on /\ l.directs = k.directs /\ l.slots = k.slots
    BY <1>6 DEF Corks
<1>8. l \in Corks
    <2>1. \A i \in 1..Len(k.directs) : k.directs[i].before <= Len(s)
        <3>1. ASSUME NEW i \in 1..Len(k.directs)
              PROVE  k.directs[i].before <= Len(s)
            <4>1. k.directs[i] \in Directs /\ k.directs[i].before <= Len(k.log)
                BY CorkIs, ElementOfSeq
            <4>2. k.directs[i].before \in Nat
                BY <4>1 DEF Directs
            <4> QED BY <1>3, <1>4, <4>1, <4>2
        <3> QED BY <3>1
    <2> QED BY <1>4, <1>6, <2>1 DEF Corks
<1>9. Gains(k, l, f)
    BY <1>4, <1>7 DEF Gains, Keeping
<1>10. ASSUME NEW c \in Clients, NEW u, u.sub.feed = f, u.sub.me \in rest
       PROVE  n \in Keeping(l, f, c, u)
    BY <1>1, <1>4, <1>7, <1>10 DEF Keeping
<1> QED BY <1>5, <1>7, <1>8, <1>9, <1>10

Rests(f, rest, n) ==
    /\ IF rest = {} THEN UNCHANGED <<cork, pc>>
       ELSE /\ cork' = [cork EXCEPT ![f].log = Append(@, [frame |-> n, to |-> rest])]
            /\ pc' = [pc EXCEPT ![f] = IF cork[f].on THEN "run" ELSE "number"]
    /\ UNCHANGED chain

LEMMA RestsIs ==
    ASSUME FeedInv, NEW f \in Maps, NEW rest \in SUBSET Indices, NEW n \in Nat, Rests(f, rest, n),
           pc[f] = "run", UNCHANGED <<table, job, signalled, signals, waker, wakerAt, ahead, inHand>>
    PROVE  /\ chain' \in [Maps -> Seq(Chunks)] /\ Longer(chain, chain')
           /\ cork' \in [Maps -> Corks] /\ pc' \in [Maps -> {"run", "publish", "number", "signal", "done"}]
           /\ \A g \in Maps : Gains(cork[g], cork'[g], g)
           /\ Delivers(f, rest, n) /\ Pushing' /\ Told'
<1>0. /\ Typed /\ Pushing /\ Told /\ Chained /\ Longer(chain, chain)
      /\ cork[f] \in Corks /\ cork \in [Maps -> Corks]
      /\ pc \in [Maps -> {"run", "publish", "number", "signal", "done"}]
      /\ chain' = chain
    BY FeedInvIs DEF Typed, Rests
<1>1. \A g \in Maps : Gains(cork[g], cork[g], g)
    BY DEF Gains
<1>2. CASE rest = {}
    <2>1. UNCHANGED <<chain, cork, pc>>
        BY <1>2 DEF Rests
    <2>2. Pushing'
        BY <1>0, <2>1 DEF Pushing, InMap
    <2>3. Told'
        BY <1>0, <2>1 DEF Told
    <2>4. Delivers(f, rest, n)
        BY <1>2 DEF Delivers
    <2> QED BY <1>0, <1>1, <2>1, <2>2, <2>3, <2>4 DEF Chained
<1>3. CASE rest # {}
    <2>1. PICK l : l = LoggedIn(cork[f], n, rest)
        OBVIOUS
    <2>2. /\ l \in Corks /\ l.on = cork[f].on /\ Gains(cork[f], l, f)
          /\ \A c \in Clients : \A u : u.sub.feed = f /\ u.sub.me \in rest => n \in Keeping(l, f, c, u)
          /\ l.slots = cork[f].slots
        BY <1>0, <2>1, LoggedIs
    <2>3. cork' = [cork EXCEPT ![f] = l]
        BY <1>0, <1>3, <2>1 DEF Rests, LoggedIn
    <2>4. cork' \in [Maps -> Corks] /\ cork'[f] = l /\ \A g \in Maps : g # f => cork'[g] = cork[g]
        BY <1>0, <2>2, <2>3
    <2>5. PICK at \in {"run", "number"} :
             /\ pc' = [pc EXCEPT ![f] = at] /\ (at = "run" <=> cork[f].on)
        BY <1>3 DEF Rests
    <2>6. /\ pc' \in [Maps -> {"run", "publish", "number", "signal", "done"}]
          /\ pc'[f] = at /\ \A g \in Maps : g # f => pc'[g] = pc[g]
        BY <1>0, <2>5
    <2>7. Pushing'
        <3>1. ASSUME NEW g \in Maps
              PROVE  /\ job'[g].do = "leave" => job'[g].client \in Clients /\ InMap(g, job[g].client)
                     /\ pc'[g] = "run" => job'[g].do = "none"
                     /\ ~cork'[g].on /\ pc'[g] # "number" => Empty(cork'[g])
                     /\ pc'[g] # "run" => \A c \in Clients : cork'[g].slots[c] = <<>>
                     /\ pc'[g] \in {"signal", "done"} => Empty(cork'[g])
            <4>1. CASE g = f
                <5>1. ~cork[f].on => \A c \in Clients : l.slots[c] = <<>>
                    BY <1>0, <2>2 DEF Pushing, Empty
                <5>2. job[f].do = "none"
                    BY <1>0 DEF Pushing
                <5> QED BY <2>2, <2>4, <2>5, <2>6, <4>1, <5>1, <5>2
            <4>2. CASE g # f
                BY <1>0, <2>4, <2>6, <4>2 DEF Pushing
            <4> QED BY <4>1, <4>2
        <3>2. \A g \in Maps : InMap(g, job[g].client) => InMap(g, job[g].client)'
            BY DEF InMap
        <3> HIDE DEF InMap
        <3> QED BY <3>1, <3>2 DEF Pushing
    <2>8. Told'
        <3>1. ASSUME NEW g \in Maps
              PROVE  /\ Walks(Len(chain[g]), wakerAt[g], ahead[g], pc'[g])
                     /\ wakerAt[g] < Len(chain[g]) =>
                            \/ pc'[g] = "signal" \/ signalled[g]
                            \/ waker.at = "walk" /\ waker.feed = g
            BY <1>0, <2>6 DEF Told, Walks
        <3> QED BY <1>0, <3>1 DEF Told
    <2>9. Delivers(f, rest, n)
        BY <2>2, <2>4 DEF Delivers
    <2>10. \A g \in Maps : Gains(cork[g], cork'[g], g)
        BY <1>1, <2>2, <2>4
    <2> QED BY <1>0, <2>4, <2>6, <2>7, <2>8, <2>9, <2>10 DEF Chained
<1> QED BY <1>2, <1>3

(* A client the broadcast reaches, after it.                              *)
SentAs(f, to, i, n, u, w) ==
    /\ Grown(chain, u, w) /\ w.sub = u.sub /\ (w.holding <=> u.holding)
    /\ Range(u.held) \subseteq Range(w.held)
    /\ ~w.holding => w.held = <<>>
    /\ i \in Helds(f, to) => n \in Range(w.held) /\ w.holding
    /\ i \notin Helds(f, to) => w = u

LEMMA SendingIs ==
    ASSUME FeedInv, NEW f \in Maps, NEW to \in SUBSET Indices, NEW i \in to,
           NEW c \in Clients, At(f, to, c, i), NEW n \in Nat,
           NEW w, w = Sending(f, to, c, i, n), ~w.closed
    PROVE  ~out[c].closed /\ w \in Outbounds /\ SentAs(f, to, i, n, Joined(f, to, c, i), w)
<1>1. PICK u \in Outbounds : u = Joined(f, to, c, i)
    BY JoinedIs DEF At
<1>2. /\ u.closed = out[c].closed
      /\ ~u.closed =>
           /\ i \in Helds(f, to) => u.holding
           /\ Fine(chain, waker, wakerAt, ahead, written[c], u, creates[c], inHand, cork, c, sent[c])
    BY <1>1, JoinedIs DEF At
<1>3. CASE i \in Helds(f, to) /\ u.holding
    <2>1. w = Kept(u, n)
        BY <1>1, <1>3 DEF Sending
    <2>2. /\ w \in Outbounds /\ Grown(chain, u, w) /\ w.holding /\ w.sub = u.sub
          /\ Range(w.held) = Range(u.held) \cup {n} /\ w.closed = u.closed
        BY <1>3, <2>1, KeptGrown
    <2>3. ~out[c].closed
        BY <1>2, <2>2
    <2> QED BY <1>1, <1>3, <2>2, <2>3 DEF SentAs
<1>4. CASE ~(i \in Helds(f, to) /\ u.holding)
    <2>1. w = u
        BY <1>1, <1>4 DEF Sending
    <2>2. i \notin Helds(f, to) /\ ~out[c].closed
        BY <1>2, <1>4, <2>1
    <2>3. ~u.holding => u.held = <<>>
        BY <1>2, <2>1 DEF Fine, ClientInv, Sound
    <2>4. Grown(chain, u, u)
        BY GrownSelf
    <2> QED BY <1>1, <2>1, <2>2, <2>3, <2>4 DEF SentAs
<1> QED BY <1>3, <1>4

LEMMA CastSeated ==
    ASSUME FeedInv, NEW f \in Maps, NEW to \in SUBSET Indices, NEW n \in Nat, Casts(f, to, n),
           UNCHANGED table, \A i \in to : table[f][i] \in Clients
    PROVE  Seated'
<1>0. /\ Typed /\ Seated /\ \A c \in Clients : out[c] \in Outbounds
    BY FeedInvIs
<1>1. PICK sb2, hi2 : sb2 = subs' /\ hi2 = heldIdx'
    OBVIOUS
<1>2. /\ sb2 \in [Maps -> [Indices -> Readers]]
      /\ \A g \in Maps : \A j \in Indices : ~(g = f /\ j \in New(f, to)) => sb2[g][j] = subs[g][j]
      /\ \A c \in Clients : \A i \in New(f, to) : At(f, to, c, i) =>
            sb2[f][i].client = c /\ sb2[f][i].account = Joined(f, to, c, i).sub.account
      /\ hi2[f] = Helds(f, to) /\ \A g \in Maps : g # f => hi2[g] = heldIdx[g]
    BY <1>1 DEF Casts
<1>3. \A i \in New(f, to) : i \in to /\ i \in Indices
    BY DEF New
<1>4. Known(table, sb2)
    <2>1. ASSUME NEW g \in Maps, NEW j \in Indices
          PROVE  sb2[g][j].client \in {Nobody, table[g][j]}
        <3>1. CASE g = f /\ j \in New(f, to)
            <4>1. At(f, to, table[f][j], j)
                BY <1>3, <3>1 DEF At
            <4> QED BY <1>2, <1>3, <3>1, <4>1
        <3>2. CASE ~(g = f /\ j \in New(f, to))
            BY <1>0, <1>2, <3>2 DEF Seated, Known
        <3> QED BY <3>1, <3>2
    <2> QED BY <2>1 DEF Known
<1>5. ASSUME NEW c \in Clients, NEW w \in Outbounds, w = out'[c], ~w.closed
      PROVE  Reader(sb2, c, w) /\ Seat(sb2, hi2, c, w)
    <2>1. PICK o \in Outbounds : o = out[c]
        BY <1>0
    <2>2. c # Nobody
        BY FeedAssumption
    <2>3. CASE \E i \in New(f, to) : At(f, to, c, i)
        <3>1. PICK i \in New(f, to) : At(f, to, c, i)
            BY <2>3
        <3>2. i \in to /\ i \in Indices /\ table[f][i] = c
            BY <1>3, <3>1 DEF At
        <3>3. w = Sending(f, to, c, i, n)
            BY <1>5, <3>1, <3>2 DEF Casts
        <3>4. PICK u \in Outbounds : u = Joined(f, to, c, i)
            BY <3>2, JoinedIs
        <3>5. /\ ~o.closed /\ Grown(chain, u, w) /\ w.sub = u.sub
              /\ i \in Helds(f, to) => w.holding
            BY <1>5, <2>1, <3>1, <3>2, <3>3, <3>4, SendingIs DEF SentAs
        <3>6. /\ u.sub.feed = f /\ u.sub.me = i /\ o.sub.feed = Nobody
              /\ u.sub.account \in 1..Len(u.accounts) /\ u.accounts[u.sub.account].open
            <4>1. u.closed = o.closed
                BY <2>1, <3>2, <3>4, JoinedIs
            <4> QED BY <2>1, <3>1, <3>2, <3>4, <3>5, <4>1, JoinedIs
        <3>7. w.sub.account \in 1..Len(w.accounts) /\ w.accounts[w.sub.account].open
            BY <3>5, <3>6 DEF Grown
        <3>8. sb2[f][i].client = c /\ sb2[f][i].account = w.sub.account
            BY <1>2, <3>1, <3>4, <3>5
        <3>9. Seat(sb2, hi2, c, w)
            BY <1>2, <3>2, <3>5, <3>6, <3>7, <3>8 DEF Seat
        <3>10. ASSUME NEW g \in Maps, NEW j \in Indices, sb2[g][j].client = c
               PROVE  w.sub.feed = g /\ w.sub.me = j
            <4>1. table[g][j] = c
                BY <1>4, <2>2, <3>10 DEF Known
            <4>2. g = f /\ j = i
                BY <1>0, <2>2, <3>2, <4>1 DEF Seated, OnePlace
            <4> QED BY <3>5, <3>6, <4>2
        <3> QED BY <3>9, <3>10 DEF Reader
    <2>4. CASE ~\E i \in New(f, to) : At(f, to, c, i)
        <3>1. \A g \in Maps : \A j \in Indices : sb2[g][j].client = c => sb2[g][j] = subs[g][j]
            <4> SUFFICES ASSUME NEW g \in Maps, NEW j \in Indices, sb2[g][j].client = c
                         PROVE  ~(g = f /\ j \in New(f, to))
                BY <1>2
            <4>1. table[g][j] = c
                BY <1>4, <2>2 DEF Known
            <4> QED BY <1>3, <2>4, <4>1 DEF At
        <3>2. /\ ~o.closed /\ Grown(chain, o, w) /\ (w.holding <=> o.holding)
            <4>1. CASE Reached(f, to, c)
                <5>1. PICK i \in to : At(f, to, c, i)
                    BY <4>1 DEF Reached
                <5>2. i \notin New(f, to) /\ table[f][i] = c
                    BY <2>4, <5>1 DEF At
                <5>3. w = Sending(f, to, c, i, n)
                    BY <1>5, <5>1 DEF Casts
                <5>4. o = Joined(f, to, c, i)
                    BY <2>1, <5>2 DEF Joined
                <5>5. /\ ~out[c].closed /\ Grown(chain, Joined(f, to, c, i), w)
                      /\ (w.holding <=> Joined(f, to, c, i).holding)
                    BY <1>5, <5>1, <5>3, SendingIs DEF SentAs
                <5> QED BY <2>1, <5>4, <5>5
            <4>2. CASE ~Reached(f, to, c)
                <5>1. w = o
                    BY <1>5, <2>1, <4>2 DEF Casts
                <5> QED BY <1>5, <5>1, GrownSelf
            <4> QED BY <4>1, <4>2
        <3>3. Reader(subs, c, o) /\ Seat(subs, heldIdx, c, o)
            BY <1>0, <2>1, <3>2 DEF Seated
        <3>4. /\ w.sub = o.sub /\ Len(w.accounts) = Len(o.accounts)
              /\ \A a \in 1..Len(o.accounts) : o.accounts[a].open => w.accounts[a].open
            BY <3>2 DEF Grown
        <3>5. Reader(sb2, c, w)
            BY <3>1, <3>3, <3>4 DEF Reader
        <3>6. ASSUME w.sub.feed # Nobody
              PROVE  Seat(sb2, hi2, c, w)
            <4>1. PICK g \in Maps : g = o.sub.feed /\ g = w.sub.feed
                BY <3>4, <3>6 DEF Outbounds, SomeMap
            <4>2. PICK j \in Indices : j = o.sub.me /\ j = w.sub.me
                BY <3>3, <3>4, <3>6 DEF Seat
            <4>3. /\ subs[g][j].client = c /\ subs[g][j].account = o.sub.account
                  /\ subs[g][j].account \in 1..Len(o.accounts) /\ o.accounts[subs[g][j].account].open
                  /\ j \in heldIdx[g] => o.holding
                BY <3>3, <3>4, <3>6, <4>1, <4>2 DEF Seat
            <4>4. sb2[g][j] = subs[g][j] /\ ~(g = f /\ j \in New(f, to))
                <5>1. ~(g = f /\ j \in New(f, to))
                    BY <2>2, <4>3 DEF New
                <5> QED BY <1>2, <5>1
            <4>5. j \in hi2[g] => j \in heldIdx[g]
                BY <1>2, <4>4 DEF Helds
            <4> QED BY <3>2, <3>4, <4>1, <4>2, <4>3, <4>4, <4>5 DEF Seat
        <3>7. w.sub.feed = Nobody => Seat(sb2, hi2, c, w)
            BY DEF Seat
        <3> QED BY <3>5, <3>6, <3>7
    <2> QED BY <2>3, <2>4
<1>6. ASSUME NEW c \in Clients, ~out'[c].closed
      PROVE  Reader(sb2, c, out'[c]) /\ Seat(sb2, hi2, c, out'[c])
    <2>1. PICK w \in Outbounds : w = out'[c]
        BY DEF Casts
    <2> QED BY <1>5, <1>6, <2>1
<1> QED BY <1>0, <1>1, <1>4, <1>6 DEF Seated

LEMMA BroadcastInv ==
    ASSUME FeedInv, NEW f \in Maps, NEW to \in SUBSET Indices, Broadcast(f, to)
    PROVE  FeedInv'
<1>0. /\ Typed /\ Seated /\ Walkable(chain, waker, wakerAt, ahead) /\ Chained
      /\ \A c \in Clients : out[c] \in Outbounds /\ (~out[c].closed => FineNow(c))
    BY FeedInvIs
<1>1. PICK n \in Nat : n = frames + 1
    BY <1>0 DEF Typed
<1>2. Casts(f, to, n)
    BY <1>1, BroadcastIs
<1>3. /\ UNCHANGED <<written, signalled, signals, waker, wakerAt, ahead, table, job, inHand, creates>>
      /\ pc[f] = "run"
    BY DEF Broadcast, wakers
<1>4. PICK rest \in SUBSET Indices : rest = to \ Helds(f, to)
    OBVIOUS
<1>5. Rests(f, rest, n)
    BY <1>1, <1>4 DEF Broadcast, Rests, Helds
<1>6. /\ chain' \in [Maps -> Seq(Chunks)] /\ Longer(chain, chain')
      /\ cork' \in [Maps -> Corks] /\ pc' \in [Maps -> {"run", "publish", "number", "signal", "done"}]
      /\ \A g \in Maps : Gains(cork[g], cork'[g], g)
      /\ Delivers(f, rest, n) /\ Pushing' /\ Told'
    BY <1>3, <1>5, RestsIs
<1>7. Typed'
    BY <1>0, <1>2, <1>3, <1>6 DEF Casts, Typed
<1>8. Seated'
    <2>1. \A i \in to : table[f][i] \in Clients
        BY <1>0 DEF Broadcast, Typed, SomeOne
    <2> QED BY <1>2, <1>3, <2>1, CastSeated
<1>9. ASSUME NEW c \in Clients, ~out'[c].closed
      PROVE  Fine(chain', waker', wakerAt', ahead', written'[c], out'[c], creates'[c], inHand', cork', c, sent'[c])
    <2>0. \A v : \A g \in Maps : Keeping(cork[g], g, c, v) \subseteq Keeping(cork'[g], g, c, v)
        BY <1>6 DEF Gains
    <2>1. CASE ~Reached(f, to, c)
        <3>1. out'[c] = out[c] /\ sent'[c] = sent[c]
            BY <1>2, <2>1 DEF Casts
        <3>2. FineNow(c) /\ out[c] \in Outbounds
            BY <1>0, <1>9, <3>1
        <3>3. Fine(chain', waker, wakerAt, ahead, written[c], out[c], creates[c], inHand, cork', c, sent[c])
            BY <1>0, <1>6, <2>0, <3>2, FineSame DEF FineNow
        <3> QED BY <1>3, <3>1, <3>3
    <2>2. CASE Reached(f, to, c)
        <3>1. PICK i \in to : At(f, to, c, i)
            BY <2>2 DEF Reached
        <3>2. table[f][i] = c
            BY <3>1 DEF At
        <3>3. PICK w \in Outbounds : w = out'[c]
            BY <1>2 DEF Casts
        <3>4. w = Sending(f, to, c, i, n) /\ sent'[c] = sent[c] \cup {n}
            BY <1>2, <3>1, <3>3 DEF Casts
        <3>5. PICK u \in Outbounds : u = Joined(f, to, c, i)
            BY <3>2, JoinedIs
        <3>6. /\ ~out[c].closed /\ Grown(chain, u, w) /\ w.sub = u.sub
              /\ (w.holding <=> u.holding) /\ Range(u.held) \subseteq Range(w.held)
              /\ (~w.holding => w.held = <<>>)
              /\ (i \in Helds(f, to) => n \in Range(w.held) /\ w.holding)
              /\ (i \notin Helds(f, to) => w = u)
            <4>1. ~w.closed
                BY <1>9, <3>3
            <4>2. ~out[c].closed /\ SentAs(f, to, i, n, Joined(f, to, c, i), w)
                BY <3>1, <3>4, <4>1, SendingIs
            <4>3. SentAs(f, to, i, n, u, w)
                BY <3>5, <4>2
            <4> QED BY <4>2, <4>3 DEF SentAs
        <3>7. /\ u.sub.feed = f /\ u.sub.me = i
              /\ Fine(chain, waker, wakerAt, ahead, written[c], u, creates[c], inHand, cork, c, sent[c])
            <4>1. ~u.closed
                BY <3>2, <3>5, <3>6, JoinedIs
            <4> QED BY <3>2, <3>5, <4>1, JoinedIs
        <3>8. Has(written[c], chain', w, creates[c], inHand, cork', c, n)
            <4>1. CASE i \in Helds(f, to)
                BY <3>6, <4>1 DEF Has, Elsewhere
            <4>2. CASE i \notin Helds(f, to)
                <5>1. w = u /\ i \in rest
                    BY <1>4, <3>6, <4>2
                <5>2. Stamped(chain, u) /\ Follows(u)
                    BY <3>7 DEF Fine, ClientInv, Sound
                <5>3. Coming(chain', u, n) \/ \A e \in Clients : n \in Keeping(cork'[f], f, e, u)
                    BY <1>6, <3>7, <5>1, <5>2 DEF Delivers
                <5> QED BY <5>1, <5>3 DEF Has, Elsewhere
            <4> QED BY <4>1, <4>2
        <3>9. ASSUME NEW m, Elsewhere(u, creates[c], inHand, cork, c, m)
              PROVE  Elsewhere(w, creates[c], inHand, cork', c, m)
            <4>1. Elsewhere(w, creates[c], inHand, cork, c, m)
                BY <3>6, <3>9, ElsewhereKeeps
            <4> QED BY <2>0, <4>1 DEF Elsewhere
        <3>10. PICK S : S = sent'[c]
            OBVIOUS
        <3>11. Accounted(u, creates[c], inHand, cork, sent[c], written[c], chain', w, creates[c],
                         inHand, cork', S, c)
            <4> SUFFICES ASSUME NEW m \in S, m \in sent[c] => Elsewhere(u, creates[c], inHand, cork, c, m)
                         PROVE  Has(written[c], chain', w, creates[c], inHand, cork', c, m)
                BY DEF Accounted
            <4>1. CASE m = n
                BY <3>8, <4>1
            <4>2. CASE m # n
                <5>1. m \in sent[c]
                    BY <3>4, <3>10, <4>2
                <5> QED BY <3>9, <5>1 DEF Has
            <4> QED BY <4>1, <4>2
        <3>12. Fine(chain', waker, wakerAt, ahead, written[c], w, creates[c], inHand, cork', c, S)
            BY <1>0, <1>6, <3>6, <3>7, <3>11, FineGrown
        <3> QED BY <1>3, <3>3, <3>10, <3>12
    <2> QED BY <2>1, <2>2
<1> QED BY <1>6, <1>7, <1>8, <1>9, FeedInvThen


-----------------------------------------------------------------------------
(* The whole.                                                             *)
LEMMA InitInv == Init => FeedInv
<1> SUFFICES ASSUME Init PROVE FeedInv
    OBVIOUS
<1>1. /\ <<>> \in Seq(Nat) /\ <<>> \in Seq(Chunks) /\ <<>> \in Seq(Broadcasts)
      /\ <<>> \in Seq(Directs) /\ <<>> \in Seq(Maps) /\ Len(<<>>) = 0
    BY EmptySeq
<1>2. NoCork \in Corks
    BY <1>1 DEF NoCork, Corks
<1>3. Empty(NoCork)
    BY DEF NoCork, Empty
<1>4. Typed
    <2>1. out \in [Clients -> Outbounds]
        BY OpenedIs DEF Init
    <2>2. /\ written \in [Clients -> Seq(Nat)] /\ chain \in [Maps -> Seq(Chunks)]
          /\ signals \in Seq(Maps)
        BY <1>1 DEF Init
    <2>3. cork \in [Maps -> Corks]
        BY <1>2 DEF Init
    <2>4. /\ subs \in [Maps -> [Indices -> Readers]]
          /\ heldIdx \in [Maps -> SUBSET Indices] /\ signalled \in [Maps -> BOOLEAN]
          /\ waker \in [at : {"recv", "walk", "charge"}, feed : SomeMap, from : Nat, to : Nat]
          /\ wakerAt \in [Maps -> Nat] /\ table \in [Maps -> [Indices -> SomeOne]]
        BY DEF Init, Readers, SomeOne, SomeMap
    <2>5. /\ ahead \in [Maps -> SUBSET Nat] /\ pc \in [Maps -> {"run", "publish", "number", "signal", "done"}]
          /\ job \in [Maps -> [do : {"none", "stay", "off", "leave"}, client : SomeOne]]
          /\ inHand \in [frame : Nat, client : SomeOne]
          /\ creates \in [Clients -> Nat] /\ frames \in Nat /\ sent \in [Clients -> SUBSET Nat]
        BY DEF Init, SomeOne, NoJob
    <2> QED BY <2>1, <2>2, <2>3, <2>4, <2>5 DEF Typed
<1>5. Seated
    <2>1. OnePlace(table) /\ Known(table, subs)
        BY DEF Init, OnePlace, Known
    <2>2. ASSUME NEW c \in Clients
          PROVE  Reader(subs, c, out[c]) /\ Seat(subs, heldIdx, c, out[c])
        <3>1. c # Nobody
            BY FeedAssumption
        <3>2. out[c].sub.feed = Nobody
            BY DEF Init, Opened, NoSub
        <3>3. \A f \in Maps : \A i \in Indices : subs[f][i].client = Nobody
            BY DEF Init
        <3> QED BY <3>1, <3>2, <3>3 DEF Reader, Seat
    <2> QED BY <2>1, <2>2 DEF Seated
<1>6. Pushing
    <2>1. ASSUME NEW f \in Maps
          PROVE  job[f].do = "none" /\ pc[f] = "run" /\ cork[f] = NoCork
        BY DEF Init, NoJob
    <2> QED BY <1>3, <2>1 DEF Pushing
<1>7. Told
    <2>1. /\ inHand.frame = 0 /\ waker.at = "recv"
          /\ \A f \in Maps : wakerAt[f] = 0 /\ chain[f] = <<>> /\ ~signalled[f]
        BY DEF Init
    <2>2. \A f \in Maps : Walks(Len(chain[f]), wakerAt[f], ahead[f], pc[f])
        BY <1>1, <2>1 DEF Walks
    <2> QED BY <1>1, <2>1, <2>2 DEF Told
<1>8. ASSUME NEW c \in Clients
      PROVE  FineNow(c)
    <2>1. PICK o \in Outbounds : o = out[c]
        BY <1>4 DEF Typed
    <2>2. /\ o.queue = <<>> /\ o.sub.feed = Nobody /\ o.reading.feed = Nobody
          /\ o.at = "look" /\ o.held = <<>> /\ sent[c] = {}
        BY <2>1 DEF Init, Opened, NoSub, NoReading
    <2>3. Readings(o) = {}
        BY <1>1, <2>2 DEF Readings
    <2>4. Sound(chain, o)
        BY <2>2, <2>3 DEF Sound, Stamped, Follows
    <2>5. Woke(chain, waker, wakerAt, ahead, o)
        BY <2>2 DEF Woke
    <2> QED BY <2>1, <2>2, <2>4, <2>5 DEF FineNow, Fine, ClientInv
<1> QED BY <1>4, <1>5, <1>6, <1>7, <1>8 DEF FeedInv, FineNow

LEMMA StepInv == FeedInv /\ [Next]_vars => FeedInv'
<1> SUFFICES ASSUME FeedInv, [Next]_vars PROVE FeedInv'
    OBVIOUS
<1>1. CASE UNCHANGED vars
    <2>1. /\ UNCHANGED <<out, written, chain, subs, heldIdx, signalled, signals>>
          /\ UNCHANGED <<waker, wakerAt, ahead, table, cork, pc, job, inHand, creates, frames, sent>>
        BY <1>1 DEF vars
    <2>2. Typed'
        BY <2>1 DEF FeedInv, Typed
    <2>3. Seated'
        BY <2>1 DEF FeedInv, Seated
    <2>4. Pushing'
        BY <2>1 DEF FeedInv, Pushing, InMap
    <2>5. Told'
        BY <2>1 DEF FeedInv, Told
    <2> QED BY <2>1, <2>2, <2>3, <2>4, <2>5, FeedInvThen DEF FeedInv
<1>2. ASSUME NEW f \in Maps, NEW c \in Clients,
             Direct(f, c) \/ Arrive(f, c) \/ Hold(f, c) \/ Release(f, c)
      PROVE  FeedInv'
    BY <1>2, DirectInv, ArriveInv, HoldInv, ReleaseInv
<1>3. ASSUME NEW f \in Maps, NEW to \in SUBSET Indices, Broadcast(f, to)
      PROVE  FeedInv'
    BY <1>3, BroadcastInv
<1>4. ASSUME NEW f \in Maps, NEW i \in Indices, NEW c \in Clients, TakeOver(f, i, c)
      PROVE  FeedInv'
    BY <1>4, TakeOverInv
<1>5. ASSUME NEW f \in Maps, NEW j \in Jobs, Push(f, j)
      PROVE  FeedInv'
    BY <1>5, PushInv
<1>6. ASSUME NEW f \in Maps, CorkOn(f) \/ PublishCork(f) \/ Number(f) \/ Signal(f)
      PROVE  FeedInv'
    BY <1>6, CorkOnInv, PublishCorkInv, NumberInv, SignalInv
<1>7. ASSUME NEW c \in Clients, SessionSend(c) \/ SessionUnheld(c) \/ Disconnect(c)
      PROVE  FeedInv'
    BY <1>7, SessionSendInv, SessionUnheldInv, DisconnectInv
<1>8. CASE SessionQueue \/ WakerRecv \/ WakerWalk \/ WakerCharge
    BY <1>8, SessionQueueInv, WakerRecvInv, WakerWalkInv, WakerChargeInv
<1>9. ASSUME NEW c \in Clients, Look(c) \/ Take(c) \/ Write(c)
      PROVE  FeedInv'
    BY <1>9, LookInv, TakeInv, WriteInv
<1>10. CASE Next
    BY <1>2, <1>3, <1>4, <1>5, <1>6, <1>7, <1>8, <1>9, <1>10 DEF Next
<1> QED BY <1>1, <1>10

(* A player is at one index of one map and their client reads that map's   *)
(* feed by it; a pushed cork is empty; the waker is told of all it has not *)
(* walked, and the writers of all it has but what it walked before its     *)
(* number was stored; and each frame sent is written or on its way: what   *)
(* OnlyOvertaken rests on (conn.rs: Feed, Outbound).                       *)
THEOREM Inductive == Spec => []FeedInv
BY InitInv, StepInv, PTL DEF Spec

(* With nothing under way, all the chunks have been walked.                *)
LEMMA AllWalked ==
    ASSUME FeedInv, NEW c \in Clients, Quiet(c), NEW f \in Maps
    PROVE  /\ Walked(waker, wakerAt, f) = Len(chain[f])
           /\ Empty(cork[f])
<1>0. /\ Typed /\ Told /\ pc[f] = "run" /\ waker.at = "recv" /\ Len(signals) = 0
      /\ cork[f] = [EmptyCork(f) EXCEPT !.on = cork[f].on]
    BY EmptySeq DEF FeedInv, Quiet
<1>1. wakerAt[f] \in Nat /\ Len(chain[f]) \in Nat /\ cork[f] \in Corks
    BY <1>0, LenProperties DEF Typed
<1>2. ~signalled[f]
    BY <1>0 DEF Told
<1>3. wakerAt[f] = Len(chain[f])
    BY <1>0, <1>1, <1>2 DEF Told, Walks
<1>4. /\ cork[f].log = <<>> /\ cork[f].directs = <<>>
      /\ cork[f].slots = [e \in Clients |-> <<>>]
    <2>1. PICK k \in Corks : k = cork[f]
        BY <1>1
    <2>2. k = [[k EXCEPT !.log = <<>>, !.directs = <<>>, !.slots = [e \in Clients |-> <<>>]]
                  EXCEPT !.on = k.on]
        BY <1>0, <2>1 DEF EmptyCork
    <2> QED BY <2>1, <2>2 DEF Corks
<1> QED BY <1>0, <1>3, <1>4 DEF Walked, Empty

(* What a chunk has for a reader is in its share of it.                   *)
LEMMA OvertakenHas ==
    ASSUME NEW o \in Outbounds, NEW f \in Maps, f = o.reading.feed, chain[f] \in Seq(Chunks),
           NEW k \in 1..Len(chain[f]), o.reading.at < k, k \in ahead[f],
           NEW n \in Of(chain[f][k], o.reading.me)
    PROVE  n \in Overtaken(o)
<1>1. k \in Nat /\ k - 1 \in Nat /\ k - 1 < k /\ k <= Len(chain[f]) /\ Len(chain[f]) \in Nat
    BY LenProperties
<1>2. PICK me : me = o.reading.me
    OBVIOUS
<1>3. PICK s : s = ShareOf(chain[f], me, k - 1, k)
    OBVIOUS
<1>4. s \in Seq(Bits) /\ Gathers(s, chain[f], me, k - 1, k)
    BY <1>1, <1>3, ShareOfIs
<1>5. PICK i \in 1..Len(s) : s[i].frame = n
    <2>1. n \in Of(chain[f][k], me)
        BY <1>2
    <2>2. \A x \in 1..Len(chain[f]) : k - 1 < x /\ x <= k =>
            \A m \in Of(chain[f][x], me) : \E i \in 1..Len(s) : s[i].frame = m
        BY <1>4, Zenon DEF Gathers
    <2>3. k - 1 < k /\ k <= k
        BY <1>1
    <2>4. \A m \in Of(chain[f][k], me) : \E i \in 1..Len(s) : s[i].frame = m
        BY <2>2, <2>3, Zenon
    <2> QED BY <2>1, <2>4, Zenon
<1>6. s[i] \in Range(s)
    BY <1>4, RangeIs
<1>7. n \in {b.frame : b \in Range(s)}
    BY <1>5, <1>6
<1>8. k \in {x \in ahead[f] : o.reading.at < x /\ x <= published(f)}
    BY <1>1 DEF published
<1> QED BY <1>2, <1>3, <1>7, <1>8 DEF Overtaken

LEMMA Arrived == FeedInv => OnlyOvertaken
<1> SUFFICES ASSUME FeedInv, NEW c \in Clients, Quiet(c), NEW n \in sent[c],
                    n \notin Range(written[c])
             PROVE  out[c].reading.feed # Nobody /\ n \in Overtaken(out[c])
    BY DEF OnlyOvertaken
<1>0. /\ out[c] \in Outbounds /\ FineNow(c)
      /\ \A f \in Maps : Walked(waker, wakerAt, f) = Len(chain[f]) /\ Empty(cork[f])
    BY FeedInvIs, AllWalked DEF Quiet
<1>1. PICK o \in Outbounds : o = out[c]
    BY <1>0
<1>2. /\ o.at = "wait" /\ o.queue = <<>> /\ Len(o.queue) = 0 /\ ~o.ready /\ ~o.holding
      /\ inHand.frame = 0
    BY <1>1, EmptySeq DEF Quiet
<1>3. Sound(chain, o) /\ Woke(chain, waker, wakerAt, ahead, o)
      /\ Has(written[c], chain, o, creates[c], inHand, cork, c, n)
    BY <1>0, <1>1 DEF FineNow, Fine, ClientInv
<1>4. o.batch = <<>> /\ o.head = 0 /\ o.held = <<>>
    BY <1>2, <1>3 DEF Sound
<1>5. ~Elsewhere(o, creates[c], inHand, cork, c, n)
    <2>1. n \notin Range(<<>>)
        BY EmptySeq DEF Range
    <2>2. ASSUME NEW f \in Maps
          PROVE  n \notin Keeping(cork[f], f, c, o)
        <3>1. cork[f].log = <<>> /\ cork[f].directs = <<>> /\ cork[f].slots[c] = <<>>
            BY <1>0 DEF Empty
        <3>2. \A x : x \notin Range(<<>>)
            BY EmptySeq DEF Range
        <3> QED BY <3>1, <3>2 DEF Keeping
    <2> QED BY <1>2, <1>4, <2>1, <2>2 DEF Elsewhere
<1>6. ~Batched(o, n) /\ ~Queued(o, n)
    BY <1>2, <1>4, EmptySeq DEF Batched, Queued
<1>7. ASSUME ToRead(chain, o, n)
      PROVE  o.reading.feed # Nobody /\ n \in Overtaken(o)
    <2>a. PICK p \in Readings(o) :
             \E k \in 1..Len(chain[FeedAt(o, p)]) :
                AfterAt(o, p) < k /\ n \in Of(chain[FeedAt(o, p)][k], MeAt(o, p))
        BY <1>7 DEF ToRead
    <2>0. PICK k \in 1..Len(chain[FeedAt(o, p)]) :
             AfterAt(o, p) < k /\ n \in Of(chain[FeedAt(o, p)][k], MeAt(o, p))
        BY <2>a
    <2>1. p = 0 /\ FeedAt(o, p) \in Maps
        BY <1>2, ReadingIs
    <2>2. /\ FeedAt(o, p) = o.reading.feed /\ MeAt(o, p) = o.reading.me
          /\ AfterAt(o, p) = o.reading.at
        BY <2>1 DEF FeedAt, MeAt, AfterAt
    <2>3. PICK f \in Maps : f = o.reading.feed
        BY <2>1, <2>2
    <2>4. k \in 1..Len(chain[f]) /\ o.reading.at < k /\ n \in Of(chain[f][k], o.reading.me)
        BY <2>0, <2>2, <2>3
    <2>5. f # Nobody /\ OwnUpTo(o, 0, Len(o.queue)) /\ k <= Walked(waker, wakerAt, f) /\ o.head < k
        <3>1. Len(chain[f]) \in Nat
            BY FeedInvIs, LenProperties DEF Chained
        <3> QED BY <1>0, <1>2, <1>4, <2>4, <3>1, FeedAssumption DEF OwnUpTo
    <2>6. k \in ahead[f]
        BY <1>2, <1>3, <2>3, <2>4, <2>5 DEF Woke
    <2>7. chain[f] \in Seq(Chunks)
        BY FeedInvIs DEF Chained
    <2> QED BY <2>3, <2>4, <2>5, <2>6, <2>7, OvertakenHas
<1> QED BY <1>1, <1>3, <1>5, <1>6, <1>7 DEF Has, Coming

(* No frame sent to a client is lost between its senders and its writer    *)
(* (conn.rs: send_frame, broadcast, push, read_to), and a wakeup is missed *)
(* in one case only: once the client's queue is drained and nothing is     *)
(* held, in hand, corked or signalled, its writer has written it all, but  *)
(* for chunks that the waker walked between their link and their number    *)
(* (376, 377), which are there to be read with the next.                  *)
THEOREM LateIsOvertaken == Spec => []OnlyOvertaken
BY Inductive, Arrived, PTL

=============================================================================
