---------------------------- MODULE StoreProofs ----------------------------
(***************************************************************************)
(* What holds of the character store for every number of characters,       *)
(* records and requests: its types, that logins wait while a save is kept, *)
(* and that no GUID that reached the tables is handed out again, a crash   *)
(* at any point included.                                                  *)
(***************************************************************************)
EXTENDS Store, FiniteSetTheorems, SequenceTheorems, WellFoundedInduction, TLAPS

-----------------------------------------------------------------------------
(* Sets of indices.                                                       *)

(* A set of natural numbers that isn't empty has a least, *)
LEMMA LeastOf ==
    ASSUME NEW I, I \subseteq Nat, I # {}
    PROVE  \E m \in I : \A i \in I : m <= i
<1>1. PICK m \in I : \A i \in I : <<i, m>> \notin OpToRel(<, Nat)
    BY NatLessThanWellFounded, WFMin
<1>2. \A i \in I : ~(i < m)
    <2> SUFFICES ASSUME NEW i \in I, i < m PROVE FALSE
        OBVIOUS
    <2>1. <<i, m>> \in Nat \X Nat
        OBVIOUS
    <2>2. <<i, m>>[1] < <<i, m>>[2]
        OBVIOUS
    <2> QED BY <1>1, <2>1, <2>2, Zenon DEF OpToRel
<1> QED BY <1>2

(* and one that is bounded has a greatest.                                *)
LEMMA GreatestOf ==
    ASSUME NEW n \in Nat, NEW I, I \subseteq 1..n, I # {}
    PROVE  \E m \in I : \A i \in I : i <= m
<1> DEFINE J == {n - i : i \in I}
<1>1. J \subseteq Nat /\ J # {}
    <2>1. \A i \in I : n - i \in Nat
        OBVIOUS
    <2>2. PICK i \in I : TRUE
        OBVIOUS
    <2>3. n - i \in J
        OBVIOUS
    <2> QED BY <2>1, <2>3
<1>2. PICK j \in J : \A x \in J : j <= x
    BY <1>1, LeastOf
<1>3. PICK m \in I : j = n - m
    OBVIOUS
<1>4. \A i \in I : n - m <= n - i
    BY <1>2, <1>3
<1> QED BY <1>4

(* Every place up to the number of indices is the rank of one of them.     *)
LEMMA RankOnto ==
    ASSUME NEW n \in Nat, NEW I, I \subseteq 1..n
    PROVE  /\ Cardinality(I) \in Nat
           /\ I = {} => Cardinality(I) = 0
           /\ \A j \in 1..Cardinality(I) : \E i \in I : Rank(I, i) = j
<1> DEFINE f == [i \in I |-> Rank(I, i)]
<1> DEFINE C == Cardinality(I)
<1>1. IsFiniteSet(I) /\ C \in Nat
    BY FS_Interval, FS_Subset, FS_CardinalityType, 1 \in Int, n \in Int
<1>2. ASSUME NEW i \in I, NEW k \in I, i < k
      PROVE  Rank(I, i) < Rank(I, k)
    <2> DEFINE A == {x \in I : x <= i}
               B == {x \in I : x <= k}
    <2>1. IsFiniteSet(A) /\ IsFiniteSet(B)
        BY <1>1, FS_Subset
    <2>2. A \subseteq B /\ k \in B /\ k \notin A
        <3>1. \A x \in I : x <= i => x <= k
            BY <1>2
        <3>2. k <= k /\ ~(k <= i)
            BY <1>2
        <3> QED BY <3>1, <3>2
    <2>3. Cardinality(A) <= Cardinality(B) /\ Cardinality(A) # Cardinality(B)
        BY <2>1, <2>2, FS_Subset
    <2>4. Cardinality(A) \in Nat /\ Cardinality(B) \in Nat
        BY <2>1, FS_CardinalityType
    <2> QED BY <2>3, <2>4 DEF Rank
<1>3. ASSUME NEW i \in I PROVE Rank(I, i) \in 1..C
    <2> DEFINE A == {x \in I : x <= i}
    <2>1. IsFiniteSet(A) /\ Cardinality(A) <= C /\ Cardinality(A) \in Nat
        BY <1>1, FS_Subset, FS_CardinalityType
    <2>2. i \in A
        OBVIOUS
    <2>3. Cardinality(A) # 0
        BY <2>1, <2>2, FS_EmptySet
    <2> QED BY <1>1, <2>1, <2>3 DEF Rank
<1>4. f \in [I -> 1..C]
    BY <1>3
<1>5. ASSUME NEW i \in I, NEW k \in I, f[i] = f[k] PROVE i = k
    <2>1. Rank(I, i) \in Nat /\ Rank(I, k) \in Nat /\ Rank(I, i) = Rank(I, k)
        BY <1>1, <1>3, <1>5
    <2>2. ~(i < k) /\ ~(k < i)
        BY <1>2, <2>1
    <2> QED BY <2>2
<1>6. f \in Injection(I, 1..C)
    BY <1>4, <1>5 DEF Injection, IsInjective
<1>7. IsFiniteSet(1..C) /\ Cardinality(1..C) = C
    BY <1>1, FS_Interval
<1>8. f \in Surjection(I, 1..C)
    BY <1>6, <1>7, FS_Injection
<1>9. \A j \in 1..C : \E i \in I : f[i] = j
    BY <1>8 DEF Surjection
<1> QED BY <1>1, <1>9, FS_EmptySet
(* The elements picked out of a sequence are elements of it.               *)
LEMMA AtOf ==
    ASSUME NEW S, NEW s \in Seq(S), NEW I, I \subseteq 1..Len(s)
    PROVE  /\ At(s, I) \in Seq(S)
           /\ I = {} => At(s, I) = <<>>
           /\ \A j \in 1..Len(At(s, I)) : \E i \in I : At(s, I)[j] = s[i]
<1> DEFINE C == Cardinality(I)
<1> DEFINE e(j) == s[CHOOSE i \in I : Rank(I, i) = j]
<1>1. C \in Nat /\ (I = {} => C = 0) /\ \A j \in 1..C : \E i \in I : Rank(I, i) = j
    BY RankOnto, LenProperties
<1>2. \A j \in 1..C : \E i \in I : e(j) = s[i]
    BY <1>1
<1>3. \A j \in 1..C : e(j) \in S
    BY <1>2, ElementOfSeq
<1>4. At(s, I) = [j \in 1..C |-> e(j)]
    BY DEF At
<1>5. At(s, I) \in [1..C -> S]
    BY <1>3, <1>4
<1>6. At(s, I) \in Seq(S)
    BY <1>1, <1>5, SeqDef
<1>7. Len(At(s, I)) = C
    BY <1>1, <1>5, <1>6, LenProperties
<1>8. I = {} => At(s, I) = <<>>
    BY <1>1, <1>6, <1>7, EmptySeq
<1>9. \A j \in 1..Len(At(s, I)) : \E i \in I : At(s, I)[j] = s[i]
    <2> HIDE DEF C, e
    <2> QED BY <1>2, <1>4, <1>7
<1> QED BY <1>6, <1>8, <1>9

(* The row after a run of saves is the one before it, or what one of them  *)
(* wrote.                                                                 *)
LEMMA AfterIs ==
    ASSUME NEW saves \in Seq(Save), NEW k \in Keys, NEW r
    PROVE  \/ /\ After(saves, k, r) = r
              /\ \A i \in 1..Len(saves) : k \notin Of(saves[i])
           \/ \E i \in 1..Len(saves) : /\ k \in Of(saves[i])
                                       /\ After(saves, k, r) = saves[i].rows[k]
<1> DEFINE I == {i \in 1..Len(saves) : k \in Of(saves[i])}
<1>1. Len(saves) \in Nat
    BY LenProperties
<1>2. CASE I = {}
    BY <1>2 DEF After, SelectLastInSeq
<1>3. CASE I # {}
    <2>1. \E m \in I : \A i \in I : i <= m
        BY <1>1, <1>3, GreatestOf
    <2>2. \E m \in I : \A i \in I : m >= i
        BY <2>1, <1>1
    <2>3. Max(I) \in I
        BY <2>2 DEF Max
    <2>4. Max(I) # 0
        BY <2>3, <1>1
    <2>5. After(saves, k, r) = saves[Max(I)].rows[k]
        BY <1>3, <2>4 DEF After, SelectLastInSeq
    <2> QED BY <2>3, <2>5
<1> QED BY <1>2, <1>3

(* And where the tables refuse some, what one they don't refuse wrote.     *)
LEMMA AfterGoodIs ==
    ASSUME NEW saves \in Seq(Save), NEW k \in Keys, NEW r
    PROVE  \/ /\ AfterGood(saves, k, r) = r
              /\ \A i \in 1..Len(saves) : k \notin Of(saves[i]) \/ Bad(saves[i])
           \/ \E i \in 1..Len(saves) : /\ k \in Of(saves[i]) /\ ~Bad(saves[i])
                                       /\ AfterGood(saves, k, r) = saves[i].rows[k]
<1> DEFINE I == {i \in 1..Len(saves) : k \in Of(saves[i]) /\ ~Bad(saves[i])}
<1>1. Len(saves) \in Nat
    BY LenProperties
<1>2. CASE I = {}
    BY <1>2 DEF AfterGood, SelectLastInSeq
<1>3. CASE I # {}
    <2>1. \E m \in I : \A i \in I : i <= m
        BY <1>1, <1>3, GreatestOf
    <2>2. \E m \in I : \A i \in I : m >= i
        BY <2>1, <1>1
    <2>3. Max(I) \in I
        BY <2>2 DEF Max
    <2>4. Max(I) # 0
        BY <2>3, <1>1
    <2>5. AfterGood(saves, k, r) = saves[Max(I)].rows[k]
        BY <1>3, <2>4 DEF AfterGood, SelectLastInSeq
    <2> QED BY <2>3, <2>5
<1> QED BY <1>2, <1>3

-----------------------------------------------------------------------------
(* The inductive invariant.                                               *)

(* What the thread holds is where it is: what it kept on its own but while *)
(* it writes, when it is among what it writes.                             *)
Phases ==
    /\ pc # "alone" => unwritten = <<>>
    /\ pc \in {"idle", "batch", "serve"} => writing = <<>>
    /\ pc \in {"write", "alone"} => pending = <<>>

KeptFails == pending # <<>> => failing

(* GUIDs in rows come from the counter: those in the tables are under the  *)
(* counter in the tables, those being written under the one written with   *)
(* them, and all under the one in memory.                                  *)
Under(s, n) == \A k \in Of(s) : s.rows[k].id <= n
AllUnder(saves, n) == \A i \in 1..Len(saves) : Under(saves[i], n)
AskedUnder(requests, n) ==
    \A i \in 1..Len(requests) :
        /\ IsSave(requests[i]) => Under(requests[i], n)
        /\ requests[i].op = "create" => requests[i].id <= n
Counted ==
    /\ counter <= next /\ captured <= next
    /\ \A id \in used : id <= counter
    /\ \A k \in Keys : db[k] # Absent => db[k].id <= counter
    /\ AllUnder(writing, captured) /\ AllUnder(unwritten, captured)
    /\ AllUnder(pending, next)
    /\ AskedUnder(queue, next) /\ AskedUnder(todo, next)

(* Nothing is in the tables, or on its way there, that no client saved.    *)
SavedIn(rows, saves) ==
    \A i \in 1..Len(saves) : ~Bad(saves[i]) => \A k \in Of(saves[i]) : rows[k] # Absent
Known ==
    /\ \A k \in Keys : db[k] # Absent => value[k] # Absent
    /\ SavedIn(value, pending) /\ SavedIn(value, unwritten) /\ SavedIn(value, writing)

IInv == TypeOK /\ Phases /\ KeptFails /\ Counted /\ Known

-----------------------------------------------------------------------------
(* Types.                                                                 *)

LEMMA Disjoint == Absent \notin Row /\ Chars \subseteq Keys /\ Refused \subseteq Chars
BY StoreAssumption DEF Keys

LEMMA RequestTypes ==
    /\ \A r \in Save : r \in Request /\ IsSave(r)
    /\ \A r \in Request : IsSave(r) => r \in Save
    /\ \A r \in Request : r.op \in {"load", "create", "delete", "rename"} =>
          r.key \in Chars /\ r.id \in Nat
BY DEF Request, Save, IsSave

LEMMA SaveTypes ==
    \A s \in Save : /\ s.id \in Nat /\ s.rows \in [Keys -> Row \cup {Absent}]
                    /\ \A k \in Keys : s.rows[k] \in Row \cup {Absent}
BY DEF Save

LEMMA InitTypes == Init => TypeOK
<1> SUFFICES ASSUME Init PROVE TypeOK
    OBVIOUS
<1>1. db \in [Keys -> Row \cup {Absent}] /\ value = db
    BY DEF Init, Row
<1>2. life \in [Chars -> {"unborn", "asked", "alive", "deleted"}]
    BY DEF Init
<1>3. answer \in [got : Row \cup {Absent}, want : Row \cup {Absent}, refused : BOOLEAN]
    BY DEF Init, NoAnswer
<1>4. /\ queue \in Seq(Request) /\ todo \in Seq(Request)
      /\ writing \in Seq(Save) /\ unwritten \in Seq(Save) /\ pending \in Seq(Save)
    BY EmptySeq DEF Init
<1> QED BY <1>1, <1>2, <1>3, <1>4 DEF Init, TypeOK

(* A run of saves taken from the front of a batch, and what is left of it. *)
LEMMA GatherTypes ==
    ASSUME TypeOK, Gather
    PROVE  \E n \in 0..Len(todo) :
              /\ SubSeq(todo, 1, n) \in Seq(Save)
              /\ todo' = SubSeq(todo, n + 1, Len(todo)) /\ todo' \in Seq(Request)
              /\ writing' = pending \o SubSeq(todo, 1, n) /\ writing' \in Seq(Save)
              /\ value' = [k \in Keys |-> AfterGood(SubSeq(todo, 1, n), k, value[k])]
<1> DEFINE others == {i \in 1..Len(todo) : ~IsSave(todo[i])}
<1> DEFINE n == IF others = {} THEN Len(todo)
                ELSE (CHOOSE i \in others : \A j \in others : i <= j) - 1
<1>1. todo \in Seq(Request) /\ Len(todo) \in Nat
    BY LenProperties DEF TypeOK
<1>2. n \in 0..Len(todo) /\ \A i \in 1..n : i \notin others
    <2>1. CASE others = {}
        BY <1>1, <2>1
    <2>2. CASE others # {}
        <3> DEFINE m == CHOOSE i \in others : \A j \in others : i <= j
        <3>1. \E i \in others : \A j \in others : i <= j
            <4>1. others \subseteq Nat
                BY <1>1
            <4> HIDE DEF others
            <4> QED BY <2>2, <4>1, LeastOf
        <3>2. m \in others /\ \A j \in others : m <= j
            <4> HIDE DEF others
            <4> QED BY <3>1
        <3>3. n = m - 1
            BY <2>2
        <3> HIDE DEF m, n
        <3> QED BY <1>1, <3>2, <3>3
    <2> QED BY <2>1, <2>2
<1>3. \A i \in 1..n : todo[i] \in Save
    BY <1>1, <1>2, ElementOfSeq, RequestTypes
<1>4. /\ todo' = SubSeq(todo, n + 1, Len(todo))
      /\ writing' = pending \o SubSeq(todo, 1, n)
      /\ value' = [k \in Keys |-> AfterGood(SubSeq(todo, 1, n), k, value[k])]
    BY DEF Gather, BeginWrite
<1> HIDE DEF n
<1>5. SubSeq(todo, 1, n) \in Seq(Save)
    BY <1>1, <1>2, <1>3, SubSeqProperties
<1>6. todo' \in Seq(Request)
    BY <1>1, <1>2, <1>4, SubSeqProperties
<1>7. writing' \in Seq(Save)
    BY <1>4, <1>5, ConcatProperties DEF TypeOK
<1> QED BY <1>2, <1>4, <1>5, <1>6, <1>7

(* What is kept is some of what was, and of what couldn't be written.      *)
LEMMA KeepIs ==
    ASSUME TypeOK, NEW saves \in Seq(Save), Keep(saves)
    PROVE  /\ pending' \in Seq(Save) /\ failing' = TRUE
           /\ dropped' \subseteq Nat
           /\ \A j \in 1..Len(pending') :
                 \/ \E i \in 1..Len(pending) : pending'[j] = pending[i]
                 \/ \E i \in 1..Len(saves) : pending'[j] = saves[i]
<1> DEFINE all == pending \o saves
           live == {i \in 1..Len(all) :
                      ~\E j \in i+1..Len(all) : Replaces(all[j], all[i])}
           kept == At(all, live)
           over == IF Len(kept) > MaxKept THEN Len(kept) - MaxKept ELSE 0
<1>1. /\ pending' = SubSeq(kept, over + 1, Len(kept)) /\ failing' = TRUE
      /\ dropped' = dropped \cup {kept[i].id : i \in 1..over}
    BY DEF Keep
<1>2. all \in Seq(Save) /\ pending \in Seq(Save)
    BY ConcatProperties DEF TypeOK
<1>3. live \subseteq 1..Len(all)
    OBVIOUS
<1> HIDE DEF all, live
<1>4. /\ kept \in Seq(Save)
      /\ \A j \in 1..Len(kept) : \E i \in 1..Len(all) : kept[j] = all[i]
    BY <1>2, <1>3, AtOf
<1> HIDE DEF kept
<1>5. Len(kept) \in Nat /\ over \in 0..Len(kept)
    BY <1>4, LenProperties, StoreAssumption
<1> HIDE DEF over
<1>6. /\ pending' \in Seq(Save) /\ Len(pending') = Len(kept) - over
      /\ \A j \in 1..Len(pending') : pending'[j] = kept[j + over]
    BY <1>1, <1>4, <1>5, SubSeqProperties
<1>7. \A i \in 1..over : kept[i].id \in Nat
    <2> TAKE i \in 1..over
    <2>1. i \in 1..Len(kept)
        BY <1>5
    <2> QED BY <1>4, <2>1, ElementOfSeq, SaveTypes
<1>8. dropped' \subseteq Nat
    <2>1. dropped \subseteq Nat
        BY DEF TypeOK
    <2> QED BY <1>1, <1>7, <2>1
<1>9. ASSUME NEW j \in 1..Len(pending')
      PROVE  \/ \E i \in 1..Len(pending) : pending'[j] = pending[i]
             \/ \E i \in 1..Len(saves) : pending'[j] = saves[i]
    <2>1. j + over \in 1..Len(kept) /\ pending'[j] = kept[j + over]
        BY <1>5, <1>6
    <2>2. PICK i \in 1..Len(all) : pending'[j] = all[i]
        BY <1>4, <2>1
    <2>3. /\ Len(all) = Len(pending) + Len(saves)
          /\ all[i] = IF i <= Len(pending) THEN pending[i] ELSE saves[i - Len(pending)]
        BY <1>2, ConcatProperties DEF all
    <2>4. Len(pending) \in Nat /\ Len(saves) \in Nat
        BY <1>2, LenProperties
    <2> QED BY <2>2, <2>3, <2>4
<1> QED BY <1>1, <1>6, <1>8, <1>9

LEMMA CommitTypes ==
    ASSUME TypeOK, NEW saves \in Seq(Save), Commit(saves)
    PROVE  /\ db' \in [Keys -> Row \cup {Absent}]
           /\ counter' \in Nat /\ used' \subseteq Nat
<1>1. \A k \in Keys : After(saves, k, db[k]) \in Row \cup {Absent}
    <2> TAKE k \in Keys
    <2>1. db[k] \in Row \cup {Absent}
        BY DEF TypeOK
    <2>2. \A i \in 1..Len(saves) : saves[i].rows[k] \in Row \cup {Absent}
        BY ElementOfSeq, SaveTypes
    <2> QED BY <2>1, <2>2, AfterIs
<1>2. db' \in [Keys -> Row \cup {Absent}]
    BY <1>1 DEF Commit, Applied
<1>3. Ids(db') \subseteq Nat
    BY <1>2 DEF Ids, Row
<1> QED BY <1>2, <1>3 DEF Commit, MaxOf, TypeOK

(* The types of a step: one action at a time.                             *)
LEMMA BatchTypes ==
    ASSUME TypeOK
    PROVE  /\ \A i \in 1..Len(queue) : queue[i] \in Request
           /\ todo # <<>> => /\ Head(todo) \in Request /\ Tail(todo) \in Seq(Request)
           /\ writing # <<>> => /\ Head(writing) \in Save /\ Tail(writing) \in Seq(Save)
           /\ \A k \in Keys : db[k] \in Row \cup {Absent} /\ value[k] \in Row \cup {Absent}
BY ElementOfSeq, HeadTailProperties DEF TypeOK

LEMMA ClientTypes ==
    ASSUME TypeOK, Clients
    PROVE  TypeOK'
<1>1. ASSUME NEW K \in SUBSET Keys \ {{}}, SendSave(K) PROVE TypeOK'
    <2> DEFINE name(k) == IF value[k] = Absent THEN 0 ELSE value[k].name
               rows == [k \in Keys |-> IF k \in K THEN [id |-> next', name |-> name(k)]
                                       ELSE Absent]
               s == [op |-> "save", id |-> next', together |-> K \notin {{k} : k \in Keys},
                     rows |-> rows]
    <2>1. next' \in Nat
        BY <1>1 DEF SendSave, TypeOK
    <2>2. \A k \in Keys : name(k) \in Nat
        BY BatchTypes DEF Row
    <2>3. rows \in [Keys -> Row \cup {Absent}]
        BY <2>1, <2>2 DEF Row
    <2>4. queue' = Append(queue, s)
        BY <1>1 DEF SendSave, Send
    <2> HIDE DEF rows
    <2>5. s \in Request
        BY <2>1, <2>3, RequestTypes DEF Save
    <2>6. queue' \in Seq(Request)
        BY <2>4, <2>5, AppendProperties DEF TypeOK
    <2> QED BY <1>1, <2>1, <2>6 DEF SendSave, TypeOK, durable, thread
<1>2. ASSUME NEW r \in Request, Ask(r)
      PROVE  queue' \in Seq(Request) /\ asks' \in Nat
    BY <1>2, AppendProperties DEF Ask, Send, TypeOK
<1>3. ASSUME NEW c \in Chars, SendLoad(c) PROVE TypeOK'
    <2>1. [op |-> "load", key |-> c, id |-> 0] \in Request
        BY DEF Request
    <2> QED BY <1>2, <1>3, <2>1 DEF SendLoad, TypeOK, durable, thread
<1>4. ASSUME NEW c \in Chars, SendCreate(c) PROVE TypeOK'
    <2>1. next' \in Nat
        BY <1>4 DEF SendCreate, TypeOK
    <2>2. [op |-> "create", key |-> c, id |-> next'] \in Request
        BY <2>1 DEF Request
    <2>3. queue' \in Seq(Request) /\ asks' \in Nat
        BY <1>2, <1>4, <2>2 DEF SendCreate
    <2> QED BY <1>4, <2>1, <2>3 DEF SendCreate, TypeOK, durable, thread
<1>5. ASSUME NEW c \in Chars, NEW op \in {"rename", "delete"}, SendChange(c, op)
      PROVE  TypeOK'
    <2>1. [op |-> op, key |-> c, id |-> 0] \in Request
        BY DEF Request
    <2>2. queue' \in Seq(Request) /\ asks' \in Nat
        BY <1>2, <1>5, <2>1 DEF SendChange
    <2> QED BY <1>5, <2>2 DEF SendChange, TypeOK, durable, thread
<1>6. ASSUME SendFlush PROVE TypeOK'
    <2>1. [op |-> "flush"] \in Request
        BY DEF Request
    <2> QED BY <1>2, <1>6, <2>1 DEF SendFlush, TypeOK, durable, thread
<1> QED BY <1>1, <1>3, <1>4, <1>5, <1>6 DEF Clients

LEMMA BatchStepTypes ==
    ASSUME TypeOK
    PROVE  /\ Take => TypeOK'
           /\ Gather => TypeOK'
           /\ Retry => TypeOK'
           /\ Idle => TypeOK'
<1>1. ASSUME Take PROVE TypeOK'
    <2> DEFINE n == IF Len(queue) < MaxBatch THEN Len(queue) ELSE MaxBatch
    <2>1. todo' = SubSeq(queue, 1, n) /\ queue' = SubSeq(queue, n + 1, Len(queue))
        BY <1>1 DEF Take
    <2>2. queue \in Seq(Request) /\ Len(queue) \in Nat /\ n \in 0..Len(queue)
        BY LenProperties, StoreAssumption DEF TypeOK
    <2> HIDE DEF n
    <2>3. todo' \in Seq(Request) /\ queue' \in Seq(Request)
        BY <2>1, <2>2, ElementOfSeq, SubSeqProperties
    <2> QED BY <1>1, <2>3 DEF Take, TypeOK, durable
<1>2. ASSUME Gather PROVE TypeOK'
    <2>1. PICK n \in 0..Len(todo) :
              /\ SubSeq(todo, 1, n) \in Seq(Save)
              /\ todo' \in Seq(Request) /\ writing' \in Seq(Save)
              /\ value' = [k \in Keys |-> AfterGood(SubSeq(todo, 1, n), k, value[k])]
        BY <1>2, GatherTypes
    <2> DEFINE saves == SubSeq(todo, 1, n)
    <2>2. \A k \in Keys : AfterGood(saves, k, value[k]) \in Row \cup {Absent}
        <3> HIDE DEF saves
        <3> TAKE k \in Keys
        <3>1. saves \in Seq(Save)
            BY <2>1 DEF saves
        <3>2. \A i \in 1..Len(saves) : saves[i].rows[k] \in Row \cup {Absent}
            BY <3>1, ElementOfSeq, SaveTypes
        <3> QED BY <3>1, <3>2, AfterGoodIs, BatchTypes
    <2>3. value' \in [Keys -> Row \cup {Absent}]
        BY <2>1, <2>2
    <2>4. /\ tries' \in Nat /\ captured' \in Nat /\ pending' \in Seq(Save)
          /\ pc' \in {"serve", "write"}
          /\ UNCHANGED <<disk, durable, clients, dropped, crashes, unwritten, failing>>
          /\ answer' = NoAnswer
        BY <1>2, EmptySeq DEF Gather, BeginWrite, TypeOK
    <2>5. answer' \in [got : Row \cup {Absent}, want : Row \cup {Absent}, refused : BOOLEAN]
        BY <2>4 DEF NoAnswer
    <2> QED BY <2>1, <2>3, <2>4, <2>5 DEF TypeOK, durable, clients
<1>3. ASSUME Retry PROVE TypeOK'
    <2>1. writing' \in Seq(Save)
        BY <1>3, EmptySeq, ConcatProperties DEF Retry, BeginWrite, TypeOK
    <2>2. /\ tries' \in Nat /\ captured' \in Nat /\ pending' \in Seq(Save)
          /\ pc' \in {"serve", "write"}
          /\ UNCHANGED <<disk, durable, clients, todo, value, dropped, answer, crashes,
                         unwritten, failing>>
        BY <1>3, EmptySeq DEF Retry, BeginWrite, TypeOK
    <2> QED BY <2>1, <2>2 DEF TypeOK, durable, clients
<1>4. ASSUME Idle PROVE TypeOK'
    BY <1>4 DEF Idle, TypeOK, durable, clients
<1> QED BY <1>1, <1>2, <1>3, <1>4

LEMMA WriteTypes ==
    ASSUME TypeOK, Write
    PROVE  TypeOK'
<1>1. CASE WriteAll
    <2>1. /\ db' \in [Keys -> Row \cup {Absent}] /\ counter' \in Nat /\ used' \subseteq Nat
        BY <1>1, CommitTypes DEF WriteAll, TypeOK
    <2>2. failing' \in BOOLEAN /\ UNCHANGED <<pending, dropped>>
        BY <1>1 DEF WriteAll, WritesAgain
    <2>3. /\ pc' = "serve" /\ writing' \in Seq(Save)
          /\ UNCHANGED <<unwritten, tries, disk, clients, todo, captured, value, answer,
                         crashes>>
        BY <1>1, EmptySeq DEF WriteAll, Written
    <2> QED BY <2>1, <2>2, <2>3 DEF TypeOK, clients
<1>2. CASE WriteBusy
    BY <1>2 DEF WriteBusy, TypeOK, durable, clients
<1>3. CASE WriteCant
    <2>1. pending' \in Seq(Save) /\ failing' \in BOOLEAN /\ dropped' \subseteq Nat
        BY <1>3, KeepIs DEF WriteCant, TypeOK
    <2>2. /\ pc' = "serve" /\ writing' \in Seq(Save)
          /\ UNCHANGED <<unwritten, tries, disk, durable, clients, todo, captured, value,
                         answer, crashes>>
        BY <1>3, EmptySeq DEF WriteCant, Written
    <2> QED BY <2>1, <2>2 DEF TypeOK, durable, clients
<1>4. CASE WriteFails
    <2>1. /\ pc' \in {"serve", "alone"} /\ writing' \in Seq(Save)
          /\ failing' \in BOOLEAN
          /\ UNCHANGED <<pending, dropped, unwritten, tries, disk, durable, clients, todo,
                         captured, value, answer, crashes>>
        BY <1>4, EmptySeq DEF WriteFails, Written, WritesAgain, TypeOK
    <2> QED BY <2>1 DEF TypeOK, durable, clients
<1>5. CASE Alone
    <2>1. writing # <<>> /\ Head(writing) \in Save /\ writing' \in Seq(Save)
        BY <1>5, BatchTypes DEF Alone
    <2> DEFINE s == Head(writing)
    <2>2. <<s>> \in Seq(Save) /\ Append(unwritten, s) \in Seq(Save)
        BY <2>1, AppendProperties DEF TypeOK
    <2>3. /\ db' \in [Keys -> Row \cup {Absent}] /\ counter' \in Nat /\ used' \subseteq Nat
          /\ unwritten' \in Seq(Save)
        <3>1. CASE Commit(<<s>>) /\ UNCHANGED unwritten
            BY <3>1, <2>2, CommitTypes DEF TypeOK
        <3>2. CASE unwritten' = Append(unwritten, s) /\ UNCHANGED durable
            BY <3>2, <2>2 DEF TypeOK, durable
        <3>3. CASE UNCHANGED <<durable, unwritten>>
            BY <3>3 DEF TypeOK, durable
        <3> QED BY <1>5, <3>1, <3>2, <3>3 DEF Alone
    <2> QED BY <1>5, <2>1, <2>3 DEF Alone, TypeOK, clients
<1>6. CASE AloneDone
    <2>1. pending' \in Seq(Save) /\ failing' \in BOOLEAN /\ dropped' \subseteq Nat
        <3>1. CASE unwritten = <<>>
            BY <1>6, <3>1 DEF AloneDone, WritesAgain, TypeOK
        <3>2. CASE unwritten # <<>>
            BY <1>6, <3>2, KeepIs DEF AloneDone, TypeOK
        <3> QED BY <3>1, <3>2
    <2> QED BY <1>6, <2>1, EmptySeq DEF AloneDone, TypeOK, durable, clients
<1> QED BY <1>1, <1>2, <1>3, <1>4, <1>5, <1>6 DEF Write

(* What is left of what was kept once a character's row is deleted.        *)
LEMMA WithoutIs ==
    ASSUME NEW s \in Save, NEW c \in Chars
    PROVE  /\ Without(s, c) \in Save
           /\ Of(Without(s, c)) = Of(s) \ {c}
           /\ \A k \in Of(s) \ {c} : Without(s, c).rows[k] = s.rows[k]
BY Disjoint, SaveTypes DEF Without, Save, Of

LEMMA RenamedIs ==
    ASSUME NEW s \in Save, NEW c \in Chars, NEW name \in Nat
    PROVE  /\ Renamed(s, c, name) \in Save
           /\ Of(Renamed(s, c, name)) = Of(s)
           /\ \A k \in Of(s) : Renamed(s, c, name).rows[k].id = s.rows[k].id
<1>1. CASE c \notin Of(s)
    BY <1>1 DEF Renamed
<1>2. CASE c \in Of(s)
    <2> DEFINE r == [s.rows[c] EXCEPT !.name = name]
    <2>1. s.rows[c] \in Row /\ s.rows \in [Keys -> Row \cup {Absent}] /\ c \in Keys
        BY <1>2, SaveTypes, Disjoint DEF Of
    <2>2. r \in Row /\ r # Absent /\ r.id = s.rows[c].id
        BY <2>1, Disjoint DEF Row
    <2>3. Renamed(s, c, name) = [s EXCEPT !.rows = [s.rows EXCEPT ![c] = r]]
        BY <1>2, <2>1 DEF Renamed, Save
    <2> HIDE DEF r
    <2>4. /\ Renamed(s, c, name) \in Save
          /\ Renamed(s, c, name).rows = [s.rows EXCEPT ![c] = r]
        BY <2>1, <2>2, <2>3 DEF Save
    <2> QED BY <1>2, <2>1, <2>2, <2>4 DEF Of
<1> QED BY <1>1, <1>2

LEMMA KeptAfterDelete ==
    ASSUME NEW kept \in Seq(Save), NEW c \in Chars
    PROVE  /\ KeptWithout(kept, c) \in Seq(Save)
           /\ KeptWithout(kept, c) # <<>> => kept # <<>>
           /\ \A j \in 1..Len(KeptWithout(kept, c)) : \E i \in 1..Len(kept) :
                 KeptWithout(kept, c)[j] = Without(kept[i], c)
<1> DEFINE I == {i \in 1..Len(kept) : kept[i].together \/ Of(kept[i]) # {c}}
           rest == At(kept, I)
           left == KeptWithout(kept, c)
<1>1. I \subseteq 1..Len(kept)
    OBVIOUS
<1>2. left = [i \in 1..Len(rest) |-> Without(rest[i], c)]
    BY DEF KeptWithout
<1> HIDE DEF I, left
<1>3. /\ rest \in Seq(Save) /\ Len(rest) \in Nat
      /\ I = {} => rest = <<>>
      /\ \A j \in 1..Len(rest) : \E i \in I : rest[j] = kept[i]
    BY <1>1, AtOf, LenProperties
<1> HIDE DEF rest
<1>4. \A i \in 1..Len(rest) : Without(rest[i], c) \in Save
    BY <1>3, ElementOfSeq, WithoutIs
<1>5. left \in [1..Len(rest) -> Save]
    BY <1>2, <1>4
<1>6. left \in Seq(Save)
    BY <1>3, <1>5, SeqDef
<1>7. Len(left) = Len(rest)
    BY <1>3, <1>5, <1>6, LenProperties
<1>8. left # <<>> => kept # <<>>
    <2> SUFFICES ASSUME kept = <<>> PROVE left = <<>>
        OBVIOUS
    <2>1. I = {}
        BY <1>1, EmptySeq
    <2>2. Len(left) = 0
        BY <1>3, <1>7, <2>1, EmptySeq
    <2> QED BY <1>6, <2>2, EmptySeq
<1>9. \A j \in 1..Len(left) : \E i \in 1..Len(kept) : left[j] = Without(kept[i], c)
    <2> TAKE j \in 1..Len(left)
    <2>1. j \in 1..Len(rest) /\ left[j] = Without(rest[j], c)
        BY <1>2, <1>7
    <2> QED BY <1>1, <1>3, <2>1
<1> QED BY <1>6, <1>8, <1>9 DEF left

LEMMA KeptAfterRename ==
    ASSUME NEW kept \in Seq(Save), NEW c \in Chars, NEW name \in Nat
    PROVE  /\ KeptRenamed(kept, c, name) \in Seq(Save)
           /\ KeptRenamed(kept, c, name) # <<>> => kept # <<>>
           /\ \A j \in 1..Len(KeptRenamed(kept, c, name)) :
                 /\ j \in 1..Len(kept)
                 /\ KeptRenamed(kept, c, name)[j] = Renamed(kept[j], c, name)
<1> DEFINE left == KeptRenamed(kept, c, name)
<1>1. Len(kept) \in Nat /\ left = [i \in 1..Len(kept) |-> Renamed(kept[i], c, name)]
    BY LenProperties DEF KeptRenamed
<1> HIDE DEF left
<1>2. left \in [1..Len(kept) -> Save]
    BY <1>1, ElementOfSeq, RenamedIs
<1>3. left \in Seq(Save)
    BY <1>1, <1>2, SeqDef
<1>4. Len(left) = Len(kept)
    BY <1>1, <1>2, <1>3, LenProperties
<1>5. left # <<>> => kept # <<>>
    <2> SUFFICES ASSUME kept = <<>> PROVE left = <<>>
        OBVIOUS
    <2>1. Len(left) = 0
        BY <1>4, EmptySeq
    <2> QED BY <1>3, <2>1, EmptySeq
<1> QED BY <1>1, <1>3, <1>4, <1>5 DEF left

LEMMA ServeTypes ==
    ASSUME TypeOK, Known, Serve
    PROVE  TypeOK'
<1> DEFINE r == Head(todo)
<1>1. todo # <<>> /\ r \in Request /\ Tail(todo) \in Seq(Request)
    BY BatchTypes DEF Serve, ServeLoad, ServeCreate, ServeDelete, ServeRename, ServeFlush,
                      Serving
<1> HIDE DEF r
<1>2. CASE ServeLoad
    <2>1. Served /\ UNCHANGED <<durable, life, pending, value>>
        BY <1>2 DEF ServeLoad
    <2> DEFINE c == r.key
               i == SelectLastInSeq(pending, LAMBDA s : c \in Of(s))
    <2>2. answer' = [got |-> After(pending, c, db[c]), want |-> value[c],
                     refused |-> i # 0 /\ Bad(pending[i])]
        BY <1>2 DEF ServeLoad, r
    <2>3. c \in Keys
        BY <1>1, <1>2, RequestTypes, Disjoint DEF ServeLoad, Serving, r
    <2> HIDE DEF i, c
    <2>4. After(pending, c, db[c]) \in Row \cup {Absent} /\ value[c] \in Row \cup {Absent}
        <3>1. pending \in Seq(Save)
            BY DEF TypeOK
        <3>2. \A j \in 1..Len(pending) : pending[j].rows[c] \in Row \cup {Absent}
            BY <2>3, <3>1, ElementOfSeq, SaveTypes
        <3> QED BY <2>3, <3>1, <3>2, AfterIs, BatchTypes
    <2>5. (i # 0 /\ Bad(pending[i])) \in BOOLEAN
        OBVIOUS
    <2>6. answer' \in [got : Row \cup {Absent}, want : Row \cup {Absent}, refused : BOOLEAN]
        BY <2>2, <2>4, <2>5, Zenon
    <2> QED BY <1>1, <2>1, <2>6 DEF TypeOK, Served, durable, r
<1>3. CASE ServeCreate
    <2> DEFINE c == r.key
               row == [id |-> r.id, name |-> 0]
    <2>1. c \in Chars /\ c \in Keys /\ row \in Row
        BY <1>1, <1>3, RequestTypes, Disjoint DEF ServeCreate, Serving, r, Row
    <2>2. Served /\ UNCHANGED <<pending, answer>>
        BY <1>3 DEF ServeCreate
    <2>3. \/ /\ db' = [db EXCEPT ![c] = row] /\ value' = [value EXCEPT ![c] = row]
             /\ counter' = MaxOf(counter, next) /\ used' = used \cup {row.id}
             /\ life' = [life EXCEPT ![c] = "alive"]
          \/ life' = [life EXCEPT ![c] = "unborn"] /\ UNCHANGED <<durable, value>>
        BY <1>3 DEF ServeCreate, r
    <2>4. row.id \in Nat
        BY <2>1 DEF Row
    <2> HIDE DEF c, row
    <2>5. /\ db' \in [Keys -> Row \cup {Absent}] /\ value' \in [Keys -> Row \cup {Absent}]
          /\ counter' \in Nat /\ used' \subseteq Nat
          /\ life' \in [Chars -> {"unborn", "asked", "alive", "deleted"}]
        <3>1. CASE UNCHANGED <<durable, value>> /\ life' = [life EXCEPT ![c] = "unborn"]
            BY <2>1, <3>1 DEF TypeOK, durable
        <3>2. CASE /\ db' = [db EXCEPT ![c] = row] /\ value' = [value EXCEPT ![c] = row]
                   /\ counter' = MaxOf(counter, next) /\ used' = used \cup {row.id}
                   /\ life' = [life EXCEPT ![c] = "alive"]
            <4>1. db' \in [Keys -> Row \cup {Absent}] /\ value' \in [Keys -> Row \cup {Absent}]
                BY <2>1, <3>2 DEF TypeOK
            <4>2. counter' \in Nat /\ used' \subseteq Nat
                BY <2>4, <3>2 DEF TypeOK, MaxOf
            <4>3. life' \in [Chars -> {"unborn", "asked", "alive", "deleted"}]
                BY <3>2 DEF TypeOK
            <4> QED BY <4>1, <4>2, <4>3
        <3> QED BY <2>3, <3>1, <3>2
    <2> QED BY <1>1, <2>2, <2>5 DEF TypeOK, Served, r
<1>4. CASE ServeDelete
    <2> DEFINE c == r.key
               left == KeptWithout(pending, c)
    <2>1. c \in Chars /\ c \in Keys
        BY <1>1, <1>4, RequestTypes, Disjoint DEF ServeDelete, Serving, r
    <2>2. Served /\ UNCHANGED <<counter, used, answer>>
        BY <1>4 DEF ServeDelete
    <2>3. \/ /\ db' = [db EXCEPT ![c] = Absent]
             /\ pending' = left
             /\ value' = [k \in Keys |-> IF k = c THEN Absent
                                         ELSE AfterGood(pending', k, value[k])]
             /\ life' = [life EXCEPT ![c] = "deleted"]
          \/ life' = [life EXCEPT ![c] = "alive"] /\ UNCHANGED <<db, value, pending>>
        BY <1>4 DEF ServeDelete, r
    <2>4. left \in Seq(Save)
        BY <2>1, KeptAfterDelete DEF TypeOK
    <2> HIDE DEF c, left
    <2>5. \A k \in Keys : AfterGood(left, k, value[k]) \in Row \cup {Absent}
        <3> TAKE k \in Keys
        <3>1. \A i \in 1..Len(left) : left[i].rows[k] \in Row \cup {Absent}
            BY <2>4, ElementOfSeq, SaveTypes
        <3> QED BY <2>4, <3>1, AfterGoodIs, BatchTypes
    <2>6. /\ db' \in [Keys -> Row \cup {Absent}] /\ value' \in [Keys -> Row \cup {Absent}]
          /\ pending' \in Seq(Save)
          /\ life' \in [Chars -> {"unborn", "asked", "alive", "deleted"}]
        <3>1. CASE life' = [life EXCEPT ![c] = "alive"] /\ UNCHANGED <<db, value, pending>>
            BY <3>1 DEF TypeOK
        <3>2. CASE /\ db' = [db EXCEPT ![c] = Absent]
                   /\ pending' = left
                   /\ value' = [k \in Keys |-> IF k = c THEN Absent
                                               ELSE AfterGood(pending', k, value[k])]
                   /\ life' = [life EXCEPT ![c] = "deleted"]
            <4>1. db' \in [Keys -> Row \cup {Absent}]
                  /\ life' \in [Chars -> {"unborn", "asked", "alive", "deleted"}]
                BY <3>2 DEF TypeOK
            <4>2. value' \in [Keys -> Row \cup {Absent}]
                BY <2>5, <3>2
            <4> QED BY <2>4, <3>2, <4>1, <4>2
        <3> QED BY <2>3, <3>1, <3>2
    <2> QED BY <1>1, <2>2, <2>6 DEF TypeOK, Served, r
<1>5. CASE ServeRename
    <2> DEFINE c == r.key
               name == value[c].name + 1
               left == KeptRenamed(pending, c, name)
    <2>1. c \in Chars /\ c \in Keys
        BY <1>1, <1>5, RequestTypes, Disjoint DEF ServeRename, Serving, r
    <2>2. Served /\ UNCHANGED <<counter, used, answer>> /\ life' = [life EXCEPT ![c] = "alive"]
        BY <1>5 DEF ServeRename, r
    <2>3. \/ /\ db[c] # Absent
             /\ db' = [db EXCEPT ![c].name = name]
             /\ value' = [value EXCEPT ![c].name = name]
             /\ pending' = left
          \/ UNCHANGED <<db, value, pending>>
        BY <1>5 DEF ServeRename, r
    <2> HIDE DEF c
    <2>4. CASE db[c] # Absent
        <3>1. db[c] \in Row /\ value[c] \in Row
            BY <2>1, <2>4, BatchTypes DEF Known
        <3>2. name \in Nat
            BY <3>1 DEF Row
        <3> HIDE DEF name
        <3>3. [db[c] EXCEPT !.name = name] \in Row /\ [value[c] EXCEPT !.name = name] \in Row
            BY <3>1, <3>2 DEF Row
        <3>4. left \in Seq(Save)
            BY <2>1, <3>2, KeptAfterRename DEF TypeOK
        <3> DEFINE was == [db[c] EXCEPT !.name = name]
                   val == [value[c] EXCEPT !.name = name]
        <3>5. \/ /\ db' = [db EXCEPT ![c] = was] /\ value' = [value EXCEPT ![c] = val]
                 /\ pending' = left
              \/ UNCHANGED <<db, value, pending>>
            BY <2>1, <2>3, Zenon
        <3> HIDE DEF was, val, left
        <3>6. was \in Row /\ val \in Row
            BY <3>3 DEF was, val
        <3>7. /\ db' \in [Keys -> Row \cup {Absent}] /\ value' \in [Keys -> Row \cup {Absent}]
              /\ pending' \in Seq(Save)
            BY <2>1, <3>4, <3>5, <3>6 DEF TypeOK
        <3> QED BY <1>1, <2>2, <3>7 DEF TypeOK, Served, r
    <2>5. CASE UNCHANGED <<db, value, pending>>
        BY <1>1, <2>1, <2>2, <2>5 DEF TypeOK, Served, r
    <2> QED BY <2>3, <2>4, <2>5
<1>6. CASE ServeFlush
    BY <1>1, <1>6 DEF ServeFlush, Served, TypeOK, durable, r
<1> QED BY <1>2, <1>3, <1>4, <1>5, <1>6 DEF Serve

(* After a crash the counter is the one in the tables.                     *)
LEMMA CrashCounts ==
    ASSUME TypeOK, Counted, Crash
    PROVE  next' = counter
<1> DEFINE S == Ids(db) \cup {counter}
<1>1. counter \in Nat /\ S \subseteq Nat /\ \A m \in S : m <= counter
    BY BatchTypes DEF Counted, TypeOK, Ids, Row
<1>2. next' = Highest(S)
    BY DEF Crash
<1>3. counter \in S
    OBVIOUS
<1> HIDE DEF S
<1>4. Highest(S) \in S /\ \A m \in S : m <= Highest(S)
    BY <1>1, <1>3 DEF Highest
<1>5. Highest(S) \in Nat /\ Highest(S) <= counter /\ counter <= Highest(S)
    BY <1>1, <1>3, <1>4
<1> QED BY <1>1, <1>2, <1>5

LEMMA TypeStep ==
    ASSUME TypeOK, Counted, Known, [Next]_vars
    PROVE  TypeOK'
<1>1. CASE Clients
    BY <1>1, ClientTypes
<1>2. CASE Thread
    BY <1>2, BatchStepTypes, WriteTypes, ServeTypes DEF Thread
<1>3. CASE DiskChanges
    BY <1>3 DEF DiskChanges, TypeOK, durable, clients, thread
<1>4. CASE Crash
    <2>1. next' \in Nat
        BY <1>4, CrashCounts DEF TypeOK
    <2>2. value' = db /\ answer' = NoAnswer /\ UNCHANGED <<disk, durable, asks>>
        BY <1>4 DEF Crash
    <2>3. answer' \in [got : Row \cup {Absent}, want : Row \cup {Absent}, refused : BOOLEAN]
        BY <2>2 DEF NoAnswer
    <2>4. life' \in [Chars -> {"unborn", "asked", "alive", "deleted"}]
        BY <1>4 DEF Crash
    <2>5. /\ queue' = <<>> /\ todo' = <<>> /\ writing' = <<>> /\ unwritten' = <<>>
          /\ pending' = <<>> /\ pc' = "idle" /\ failing' = FALSE /\ dropped' = {}
          /\ tries' = 0 /\ captured' = 0 /\ crashes' = crashes + 1
        BY <1>4 DEF Crash
    <2>6. /\ queue' \in Seq(Request) /\ todo' \in Seq(Request)
          /\ writing' \in Seq(Save) /\ unwritten' \in Seq(Save) /\ pending' \in Seq(Save)
        BY <2>5, EmptySeq
    <2>7. /\ disk' \in {"ok", "busy", "full"} /\ db' \in [Keys -> Row \cup {Absent}]
          /\ value' \in [Keys -> Row \cup {Absent}]
          /\ counter' \in Nat /\ used' \subseteq Nat /\ asks' \in Nat
        BY <2>2 DEF TypeOK, durable
    <2>8. crashes' \in Nat
        BY <2>5 DEF TypeOK
    <2> HIDE DEF TypeOK
    <2> QED BY <2>1, <2>3, <2>4, <2>5, <2>6, <2>7, <2>8 DEF TypeOK
<1>5. CASE UNCHANGED vars
    BY <1>5 DEF vars, TypeOK
<1> QED BY <1>1, <1>2, <1>3, <1>4, <1>5 DEF Next

-----------------------------------------------------------------------------
(* Where the saves are.                                                   *)

LEMMA PhaseStep ==
    ASSUME TypeOK, Phases, [Next]_vars
    PROVE  Phases'
<1>1. CASE Clients
    BY <1>1 DEF Clients, SendSave, SendLoad, SendCreate, SendChange, SendFlush, thread, Phases
<1>2. CASE Take
    BY <1>2 DEF Take, Phases
<1>3. CASE Gather
    BY <1>3 DEF Gather, BeginWrite, Phases
<1>4. CASE Retry
    BY <1>4 DEF Retry, BeginWrite, Phases
<1>5. CASE WriteAll
    BY <1>5 DEF WriteAll, Written, WritesAgain, Phases
<1>6. CASE WriteBusy
    BY <1>6 DEF WriteBusy, Phases
<1>7. CASE WriteCant
    BY <1>7 DEF WriteCant, Written, Phases
<1>8. CASE WriteFails
    BY <1>8 DEF WriteFails, Written, WritesAgain, Phases
<1>9. CASE Alone
    BY <1>9 DEF Alone, Phases
<1>10. CASE AloneDone
    BY <1>10 DEF AloneDone, Phases
<1>11. CASE Serve
    <2>1. pc = "serve" /\ Served
        BY <1>11 DEF Serve, ServeLoad, ServeCreate, ServeDelete, ServeRename, ServeFlush, Serving
    <2> QED BY <2>1 DEF Served, Phases
<1>12. CASE Idle
    BY <1>12 DEF Idle, Phases
<1>13. CASE DiskChanges
    BY <1>13 DEF DiskChanges, thread, Phases
<1>14. CASE Crash
    BY <1>14 DEF Crash, Phases
<1>15. CASE UNCHANGED vars
    BY <1>15 DEF vars, Phases
<1> QED BY <1>1, <1>2, <1>3, <1>4, <1>5, <1>6, <1>7, <1>8, <1>9, <1>10, <1>11, <1>12,
           <1>13, <1>14, <1>15 DEF Next, Thread, Write

(* What a deletion and a rename leave of what was kept.                   *)
LEMMA ServeKept ==
    ASSUME TypeOK, Known, Serve
    PROVE  /\ pending' # <<>> => pending # <<>>
           /\ \A j \in 1..Len(pending') : \E i \in 1..Len(pending) :
                 /\ Of(pending'[j]) \subseteq Of(pending[i])
                 /\ \A k \in Of(pending'[j]) : pending'[j].rows[k].id = pending[i].rows[k].id
<1> DEFINE r == Head(todo)
           c == r.key
<1>1. todo # <<>> /\ r \in Request
    BY BatchTypes DEF Serve, ServeLoad, ServeCreate, ServeDelete, ServeRename, ServeFlush,
                      Serving
<1>2. pending \in Seq(Save)
    BY DEF TypeOK
<1>3. CASE ServeDelete
    <2> DEFINE left == KeptWithout(pending, c)
    <2>1. c \in Chars
        BY <1>1, <1>3, RequestTypes DEF ServeDelete, Serving
    <2>2. pending' = left \/ pending' = pending
        BY <1>3 DEF ServeDelete
    <2> HIDE DEF c
    <2>4. /\ left # <<>> => pending # <<>>
          /\ \A j \in 1..Len(left) : \E i \in 1..Len(pending) : left[j] = Without(pending[i], c)
        BY <1>2, <2>1, KeptAfterDelete
    <2> HIDE DEF left
    <2>5. \A i \in 1..Len(pending) :
              /\ Of(Without(pending[i], c)) \subseteq Of(pending[i])
              /\ \A k \in Of(Without(pending[i], c)) :
                    Without(pending[i], c).rows[k].id = pending[i].rows[k].id
        <3> TAKE i \in 1..Len(pending)
        <3>1. pending[i] \in Save
            BY <1>2, ElementOfSeq
        <3> QED BY <2>1, <3>1, WithoutIs
    <2>6. CASE pending' = left
        <3>1. pending' # <<>> => pending # <<>>
            BY <2>4, <2>6
        <3>2. \A j \in 1..Len(pending') : \E i \in 1..Len(pending) :
                 pending'[j] = Without(pending[i], c)
            BY <2>4, <2>6
        <3> SUFFICES ASSUME NEW j \in 1..Len(pending')
                     PROVE  \E i \in 1..Len(pending) :
                              /\ Of(pending'[j]) \subseteq Of(pending[i])
                              /\ \A k \in Of(pending'[j]) :
                                    pending'[j].rows[k].id = pending[i].rows[k].id
            BY <3>1
        <3>3. PICK i \in 1..Len(pending) : pending'[j] = Without(pending[i], c)
            BY <3>2
        <3> QED BY <2>5, <3>3
    <2>7. CASE pending' = pending
        BY <2>7
    <2> QED BY <2>2, <2>6, <2>7
<1>4. CASE ServeRename
    <2> DEFINE name == value[c].name + 1
               left == KeptRenamed(pending, c, name)
    <2>1. c \in Chars /\ c \in Keys
        BY <1>1, <1>4, RequestTypes, Disjoint DEF ServeRename, Serving
    <2>2. (db[c] # Absent /\ pending' = left) \/ pending' = pending
        BY <1>4 DEF ServeRename
    <2> HIDE DEF c
    <2>3. CASE db[c] # Absent
        <3>1. value[c] \in Row
            BY <2>1, <2>3, BatchTypes DEF Known
        <3>2. name \in Nat
            BY <3>1 DEF Row
        <3> HIDE DEF name
        <3>3. /\ left # <<>> => pending # <<>>
              /\ \A j \in 1..Len(left) :
                    j \in 1..Len(pending) /\ left[j] = Renamed(pending[j], c, name)
            BY <1>2, <2>1, <3>2, KeptAfterRename
        <3> HIDE DEF left
        <3>4. \A i \in 1..Len(pending) :
                  /\ Of(Renamed(pending[i], c, name)) = Of(pending[i])
                  /\ \A k \in Of(pending[i]) :
                        Renamed(pending[i], c, name).rows[k].id = pending[i].rows[k].id
            <4> TAKE i \in 1..Len(pending)
            <4>1. pending[i] \in Save
                BY <1>2, ElementOfSeq
            <4> QED BY <2>1, <3>2, <4>1, RenamedIs
        <3> QED BY <2>2, <3>3, <3>4
    <2>4. CASE db[c] = Absent
        BY <2>2, <2>4
    <2> QED BY <2>3, <2>4
<1>5. CASE pending' = pending
    BY <1>5
<1> QED BY <1>3, <1>4, <1>5 DEF Serve, ServeLoad, ServeCreate, ServeFlush

-----------------------------------------------------------------------------
(* A save kept means a store that says it fails.                          *)

LEMMA FailStep ==
    ASSUME TypeOK, Known, KeptFails, [Next]_vars
    PROVE  KeptFails'
<1>1. CASE Clients
    BY <1>1 DEF Clients, SendSave, SendLoad, SendCreate, SendChange, SendFlush, thread,
                KeptFails
<1>2. CASE Take \/ Idle
    BY <1>2 DEF Take, Idle, KeptFails
<1>3. CASE Gather \/ Retry
    BY <1>3 DEF Gather, Retry, BeginWrite, KeptFails
<1>4. CASE WriteAll
    BY <1>4 DEF WriteAll, WritesAgain, KeptFails
<1>5. CASE WriteBusy
    BY <1>5 DEF WriteBusy, KeptFails
<1>6. CASE WriteCant
    BY <1>6 DEF WriteCant, Keep, KeptFails
<1>7. CASE WriteFails
    BY <1>7 DEF WriteFails, WritesAgain, KeptFails
<1>8. CASE Alone
    BY <1>8 DEF Alone, KeptFails
<1>9. CASE AloneDone
    BY <1>9 DEF AloneDone, WritesAgain, Keep, KeptFails
<1>10. CASE Serve
    <2>1. failing' = failing
        BY <1>10 DEF Serve, ServeLoad, ServeCreate, ServeDelete, ServeRename, ServeFlush, Served
    <2> QED BY <1>10, <2>1, ServeKept DEF KeptFails
<1>11. CASE DiskChanges
    BY <1>11 DEF DiskChanges, thread, KeptFails
<1>12. CASE Crash
    BY <1>12 DEF Crash, KeptFails
<1>13. CASE UNCHANGED vars
    BY <1>13 DEF vars, KeptFails
<1> QED BY <1>1, <1>2, <1>3, <1>4, <1>5, <1>6, <1>7, <1>8, <1>9, <1>10, <1>11, <1>12,
           <1>13 DEF Next, Thread, Write

-----------------------------------------------------------------------------
(* GUIDs and the counters.                                                *)

LEMMA UnderMore ==
    ASSUME NEW s \in Save, NEW n \in Nat, NEW m \in Nat, n <= m, Under(s, n)
    PROVE  Under(s, m)
<1> SUFFICES ASSUME NEW k \in Of(s) PROVE s.rows[k].id <= m
    BY DEF Under
<1>1. s.rows[k] \in Row
    BY SaveTypes DEF Of
<1>2. s.rows[k].id \in Nat /\ s.rows[k].id <= n
    BY <1>1 DEF Under, Row
<1> QED BY <1>2

LEMMA AllUnderMore ==
    ASSUME NEW saves \in Seq(Save), NEW n \in Nat, NEW m \in Nat, n <= m,
           AllUnder(saves, n)
    PROVE  AllUnder(saves, m)
BY ElementOfSeq, UnderMore DEF AllUnder

LEMMA AskedMore ==
    ASSUME NEW requests \in Seq(Request), NEW n \in Nat, NEW m \in Nat, n <= m,
           AskedUnder(requests, n)
    PROVE  AskedUnder(requests, m)
<1> SUFFICES ASSUME NEW i \in 1..Len(requests)
             PROVE  /\ IsSave(requests[i]) => Under(requests[i], m)
                    /\ requests[i].op = "create" => requests[i].id <= m
    BY DEF AskedUnder
<1>1. requests[i] \in Request
    BY ElementOfSeq
<1>2. /\ IsSave(requests[i]) => Under(requests[i], n)
      /\ requests[i].op = "create" => requests[i].id <= n
    BY DEF AskedUnder
<1>3. IsSave(requests[i]) => Under(requests[i], m)
    BY <1>1, <1>2, UnderMore, RequestTypes
<1>4. requests[i].op = "create" => requests[i].id <= m
    BY <1>1, <1>2, RequestTypes
<1> QED BY <1>3, <1>4

LEMMA AskedAppend ==
    ASSUME NEW requests \in Seq(Request), NEW r \in Request, NEW n \in Nat,
           AskedUnder(requests, n),
           IsSave(r) => Under(r, n), r.op = "create" => r.id <= n
    PROVE  AskedUnder(Append(requests, r), n)
<1> DEFINE q == Append(requests, r)
<1>1. /\ Len(requests) \in Nat /\ Len(q) = Len(requests) + 1
      /\ \A i \in 1..Len(requests) : q[i] = requests[i]
      /\ q[Len(requests) + 1] = r
    BY AppendProperties, LenProperties
<1> HIDE DEF q
<1>2. AskedUnder(q, n)
    <2> SUFFICES ASSUME NEW i \in 1..Len(q)
                 PROVE  /\ IsSave(q[i]) => Under(q[i], n)
                        /\ q[i].op = "create" => q[i].id <= n
        BY DEF AskedUnder
    <2>1. CASE i \in 1..Len(requests)
        BY <1>1, <2>1 DEF AskedUnder
    <2>2. CASE i = Len(requests) + 1
        BY <1>1, <2>2
    <2> QED BY <1>1, <2>1, <2>2
<1> QED BY <1>2 DEF q

LEMMA AskedPart ==
    ASSUME NEW requests \in Seq(Request), NEW n \in Nat, AskedUnder(requests, n),
           NEW a \in 1..Len(requests) + 1, NEW b \in 0..Len(requests)
    PROVE  AskedUnder(SubSeq(requests, a, b), n)
<1> DEFINE q == SubSeq(requests, a, b)
<1>1. Len(requests) \in Nat
    BY LenProperties
<1>2. \A i \in a..b : requests[i] \in Request
    BY <1>1, ElementOfSeq
<1>3. /\ Len(q) = IF a <= b THEN b - a + 1 ELSE 0
      /\ \A i \in 1..b - a + 1 : q[i] = requests[a + i - 1]
    BY <1>1, <1>2, SubSeqProperties
<1> HIDE DEF q
<1>4. ASSUME NEW i \in 1..Len(q) PROVE \E j \in 1..Len(requests) : q[i] = requests[j]
    <2>1. i \in 1..b - a + 1 /\ a + i - 1 \in 1..Len(requests)
        BY <1>1, <1>3
    <2> QED BY <1>3, <2>1
<1>5. AskedUnder(q, n)
    BY <1>4 DEF AskedUnder
<1> QED BY <1>5 DEF q

LEMMA AllUnderConcat ==
    ASSUME NEW s \in Seq(Save), NEW t \in Seq(Save), NEW n \in Nat,
           AllUnder(s, n), AllUnder(t, n)
    PROVE  AllUnder(s \o t, n)
<1>1. /\ Len(s) \in Nat /\ Len(t) \in Nat /\ Len(s \o t) = Len(s) + Len(t)
      /\ \A i \in 1..Len(s) + Len(t) :
            (s \o t)[i] = IF i <= Len(s) THEN s[i] ELSE t[i - Len(s)]
    BY ConcatProperties, LenProperties
<1> SUFFICES ASSUME NEW i \in 1..Len(s \o t) PROVE Under((s \o t)[i], n)
    BY DEF AllUnder
<1>2. CASE i <= Len(s)
    BY <1>1, <1>2 DEF AllUnder
<1>3. CASE ~(i <= Len(s))
    <2>1. i - Len(s) \in 1..Len(t) /\ (s \o t)[i] = t[i - Len(s)]
        BY <1>1, <1>3
    <2> QED BY <2>1 DEF AllUnder
<1> QED BY <1>2, <1>3

LEMMA NoneUnder ==
    ASSUME NEW n
    PROVE  AllUnder(<<>>, n) /\ AskedUnder(<<>>, n)
<1>1. Len(<<>>) = 0
    BY EmptySeq
<1> QED BY <1>1 DEF AllUnder, AskedUnder

(* A commit raises the tables' counter with the rows.                      *)
LEMMA CommitCounts ==
    ASSUME TypeOK, Counted, NEW saves \in Seq(Save), AllUnder(saves, captured),
           Commit(saves)
    PROVE  /\ counter' <= next
           /\ \A id \in used' : id <= counter'
           /\ \A k \in Keys : db'[k] # Absent => db'[k].id <= counter'
<1>1. /\ counter \in Nat /\ captured \in Nat /\ next \in Nat /\ used \subseteq Nat
      /\ counter' \in Nat /\ counter <= counter' /\ captured <= counter' /\ counter' <= next
    BY DEF TypeOK, Counted, Commit, MaxOf
<1>2. ASSUME NEW k \in Keys, db'[k] # Absent PROVE db'[k].id <= counter'
    <2>1. db'[k] = After(saves, k, db[k])
        BY DEF Commit, Applied
    <2>2. CASE db'[k] = db[k]
        <3>1. db[k] \in Row /\ db[k].id <= counter
            BY <1>2, <2>2, BatchTypes DEF Counted
        <3> QED BY <1>1, <2>2, <3>1 DEF Row
    <2>3. CASE \E i \in 1..Len(saves) : k \in Of(saves[i]) /\ db'[k] = saves[i].rows[k]
        <3>1. PICK i \in 1..Len(saves) : k \in Of(saves[i]) /\ db'[k] = saves[i].rows[k]
            BY <2>3
        <3>2. saves[i] \in Save /\ Under(saves[i], captured)
            BY ElementOfSeq DEF AllUnder
        <3>3. saves[i].rows[k] \in Row /\ saves[i].rows[k].id <= captured
            BY <3>1, <3>2, SaveTypes DEF Of, Under
        <3> QED BY <1>1, <3>1, <3>3 DEF Row
    <2> QED BY <2>1, <2>2, <2>3, AfterIs
<1>3. ASSUME NEW id \in used' PROVE id <= counter'
    <2>1. CASE id \in used
        <3>1. id \in Nat /\ id <= counter
            BY <1>1, <2>1 DEF Counted
        <3> QED BY <1>1, <3>1
    <2>2. CASE id \in Ids(db')
        BY <1>2, <2>2 DEF Ids
    <2> QED BY <1>3, <2>1, <2>2 DEF Commit
<1> QED BY <1>1, <1>2, <1>3

LEMMA Numbers ==
    ASSUME TypeOK
    PROVE  /\ counter \in Nat /\ captured \in Nat /\ next \in Nat /\ used \subseteq Nat
           /\ writing \in Seq(Save) /\ unwritten \in Seq(Save) /\ pending \in Seq(Save)
           /\ queue \in Seq(Request) /\ todo \in Seq(Request)
           /\ Len(queue) \in Nat /\ Len(todo) \in Nat
BY LenProperties DEF TypeOK

LEMMA ClientCounts ==
    ASSUME TypeOK, Counted, Clients
    PROVE  Counted'
<1>1. ASSUME NEW r \in Request, next' \in Nat, next <= next', queue' = Append(queue, r),
             IsSave(r) => Under(r, next'), r.op = "create" => r.id <= next',
             UNCHANGED <<durable, thread>>
      PROVE  Counted'
    <2>1. AskedUnder(queue, next') /\ AskedUnder(todo, next') /\ AllUnder(pending, next')
        BY <1>1, Numbers, AskedMore, AllUnderMore DEF Counted
    <2>2. AskedUnder(queue', next')
        BY <1>1, <2>1, Numbers, AskedAppend
    <2>3. counter <= next' /\ captured <= next'
        BY <1>1, Numbers DEF Counted
    <2> QED BY <1>1, <2>1, <2>2, <2>3 DEF Counted, durable, thread
<1>2. ASSUME NEW K \in SUBSET Keys \ {{}}, SendSave(K) PROVE Counted'
    <2> DEFINE name(k) == IF value[k] = Absent THEN 0 ELSE value[k].name
               rows == [k \in Keys |-> IF k \in K THEN [id |-> next', name |-> name(k)]
                                       ELSE Absent]
               s == [op |-> "save", id |-> next', together |-> K \notin {{k} : k \in Keys},
                     rows |-> rows]
    <2>1. next' \in Nat /\ next <= next'
        BY <1>2, Numbers DEF SendSave
    <2>2. queue' = Append(queue, s) /\ UNCHANGED <<durable, thread>>
        BY <1>2 DEF SendSave, Send
    <2>3. \A k \in Keys : name(k) \in Nat
        BY BatchTypes DEF Row
    <2>4. rows \in [Keys -> Row \cup {Absent}]
        BY <2>1, <2>3 DEF Row
    <2>5. \A k \in Keys : rows[k] # Absent => rows[k].id = next'
        OBVIOUS
    <2> HIDE DEF rows
    <2>6. s \in Save /\ s \in Request
        BY <2>1, <2>4, RequestTypes DEF Save
    <2>7. Under(s, next') /\ s.op # "create"
        BY <2>1, <2>5 DEF Under, Of
    <2> HIDE DEF s
    <2> QED BY <1>1, <2>1, <2>2, <2>6, <2>7
<1>3. ASSUME NEW c \in Chars, SendCreate(c) PROVE Counted'
    <2> DEFINE r == [op |-> "create", key |-> c, id |-> next']
    <2>1. next' \in Nat /\ next <= next'
        BY <1>3, Numbers DEF SendCreate
    <2>2. queue' = Append(queue, r) /\ UNCHANGED <<durable, thread>>
        BY <1>3 DEF SendCreate, Ask, Send
    <2>3. r \in Request /\ ~IsSave(r) /\ r.id <= next'
        BY <2>1 DEF Request, IsSave
    <2> HIDE DEF r
    <2> QED BY <1>1, <2>1, <2>2, <2>3
<1>4. ASSUME NEW r \in Request, r.op \notin {"save", "create"}, queue' = Append(queue, r),
             UNCHANGED <<next, durable, thread>>
      PROVE  Counted'
    BY <1>1, <1>4, Numbers DEF IsSave
<1>5. ASSUME NEW c \in Chars, SendLoad(c) PROVE Counted'
    <2> DEFINE r == [op |-> "load", key |-> c, id |-> 0]
    <2>1. r \in Request /\ r.op \notin {"save", "create"}
        BY DEF Request
    <2>2. queue' = Append(queue, r) /\ UNCHANGED <<next, durable, thread>>
        BY <1>5 DEF SendLoad, Ask, Send
    <2> HIDE DEF r
    <2> QED BY <1>4, <2>1, <2>2
<1>6. ASSUME NEW c \in Chars, NEW op \in {"rename", "delete"}, SendChange(c, op)
      PROVE  Counted'
    <2> DEFINE r == [op |-> op, key |-> c, id |-> 0]
    <2>1. r \in Request /\ r.op \notin {"save", "create"}
        BY DEF Request
    <2>2. queue' = Append(queue, r) /\ UNCHANGED <<next, durable, thread>>
        BY <1>6 DEF SendChange, Ask, Send
    <2> HIDE DEF r
    <2> QED BY <1>4, <2>1, <2>2
<1>7. ASSUME SendFlush PROVE Counted'
    <2> DEFINE r == [op |-> "flush"]
    <2>1. r \in Request /\ r.op \notin {"save", "create"}
        BY DEF Request
    <2>2. queue' = Append(queue, r) /\ UNCHANGED <<next, durable, thread>>
        BY <1>7 DEF SendFlush, Ask, Send
    <2> HIDE DEF r
    <2> QED BY <1>4, <2>1, <2>2
<1> QED BY <1>2, <1>3, <1>5, <1>6, <1>7 DEF Clients

LEMMA BatchCounts ==
    ASSUME TypeOK, Counted
    PROVE  /\ Take => Counted'
           /\ Gather => Counted'
           /\ Retry => Counted'
<1>1. ASSUME Take PROVE Counted'
    <2> DEFINE n == IF Len(queue) < MaxBatch THEN Len(queue) ELSE MaxBatch
    <2>1. todo' = SubSeq(queue, 1, n) /\ queue' = SubSeq(queue, n + 1, Len(queue))
        BY <1>1 DEF Take
    <2>2. n \in 0..Len(queue)
        BY Numbers, StoreAssumption
    <2> HIDE DEF n
    <2>3. AskedUnder(todo', next) /\ AskedUnder(queue', next)
        <3>1. /\ 1 \in 1..Len(queue) + 1 /\ n + 1 \in 1..Len(queue) + 1
              /\ Len(queue) \in 0..Len(queue) /\ AskedUnder(queue, next)
            BY <2>2, Numbers DEF Counted
        <3>2. AskedUnder(SubSeq(queue, 1, n), next)
            BY <2>2, <3>1, Numbers, AskedPart
        <3>3. AskedUnder(SubSeq(queue, n + 1, Len(queue)), next)
            BY <2>2, <3>1, Numbers, AskedPart
        <3> QED BY <2>1, <3>2, <3>3
    <2> QED BY <1>1, <2>3 DEF Take, Counted, durable
<1>2. ASSUME Gather PROVE Counted'
    <2>1. PICK n \in 0..Len(todo) :
              /\ SubSeq(todo, 1, n) \in Seq(Save)
              /\ todo' = SubSeq(todo, n + 1, Len(todo))
              /\ writing' = pending \o SubSeq(todo, 1, n)
        BY <1>2, GatherTypes
    <2> DEFINE saves == SubSeq(todo, 1, n)
    <2>2. AskedUnder(saves, next) /\ AskedUnder(todo', next)
        <3>1. /\ 1 \in 1..Len(todo) + 1 /\ n + 1 \in 1..Len(todo) + 1
              /\ Len(todo) \in 0..Len(todo) /\ AskedUnder(todo, next)
            BY Numbers DEF Counted
        <3>2. AskedUnder(SubSeq(todo, 1, n), next)
            BY <3>1, Numbers, AskedPart
        <3>3. AskedUnder(SubSeq(todo, n + 1, Len(todo)), next)
            BY <3>1, Numbers, AskedPart
        <3> QED BY <2>1, <3>2, <3>3
    <2>3. AllUnder(saves, next)
        <3> HIDE DEF saves
        <3>1. \A i \in 1..Len(saves) : IsSave(saves[i])
            BY <2>1, ElementOfSeq, RequestTypes DEF saves
        <3> QED BY <2>2, <3>1 DEF AllUnder, AskedUnder
    <2>4. AllUnder(writing', next)
        BY <2>1, <2>3, Numbers, AllUnderConcat DEF Counted
    <2>5. AllUnder(unwritten, next)
        BY Numbers, AllUnderMore DEF Counted
    <2>6. /\ captured' = next /\ pending' = <<>> /\ unwritten' = unwritten
          /\ UNCHANGED <<durable, clients>>
        BY <1>2 DEF Gather, BeginWrite
    <2>7. AllUnder(pending', next)
        BY <2>6, NoneUnder
    <2>8. next <= next
        BY Numbers
    <2> QED BY <2>2, <2>4, <2>5, <2>6, <2>7, <2>8 DEF Counted, durable, clients
<1>3. ASSUME Retry PROVE Counted'
    <2>1. /\ captured' = next /\ pending' = <<>> /\ unwritten' = unwritten
          /\ writing' = pending \o <<>> /\ UNCHANGED <<todo, durable, clients>>
        BY <1>3 DEF Retry, BeginWrite
    <2>2. AllUnder(writing', next)
        BY <2>1, Numbers, NoneUnder, EmptySeq, AllUnderConcat DEF Counted
    <2>3. AllUnder(unwritten, next)
        BY Numbers, AllUnderMore DEF Counted
    <2>4. AllUnder(pending', next)
        BY <2>1, NoneUnder
    <2>5. next <= next
        BY Numbers
    <2> QED BY <2>1, <2>2, <2>3, <2>4, <2>5 DEF Counted, durable, clients
<1> QED BY <1>1, <1>2, <1>3

(* What is kept comes from what was, and from what was being written.      *)
LEMMA KeepCounts ==
    ASSUME TypeOK, Counted, NEW saves \in Seq(Save), AllUnder(saves, captured), Keep(saves)
    PROVE  AllUnder(pending', next)
<1>1. AllUnder(saves, next)
    BY Numbers, AllUnderMore DEF Counted
<1>2. \A j \in 1..Len(pending') :
         \/ \E i \in 1..Len(pending) : pending'[j] = pending[i]
         \/ \E i \in 1..Len(saves) : pending'[j] = saves[i]
    BY KeepIs
<1>3. ASSUME NEW j \in 1..Len(pending') PROVE Under(pending'[j], next)
    BY <1>1, <1>2 DEF Counted, AllUnder
<1> QED BY <1>3 DEF AllUnder

LEMMA WriteCounts ==
    ASSUME TypeOK, Counted, Write
    PROVE  Counted'
<1>1. CASE WriteAll
    <2>1. /\ counter' <= next /\ \A id \in used' : id <= counter'
          /\ \A k \in Keys : db'[k] # Absent => db'[k].id <= counter'
        BY <1>1, Numbers, CommitCounts DEF WriteAll, Counted
    <2>2. /\ writing' = <<>>
          /\ UNCHANGED <<unwritten, pending, captured, queue, todo, next>>
        BY <1>1 DEF WriteAll, Written, WritesAgain, clients
    <2> QED BY <2>1, <2>2, NoneUnder DEF Counted
<1>2. CASE WriteBusy
    BY <1>2 DEF WriteBusy, Counted, durable, clients
<1>3. CASE WriteCant
    <2>1. AllUnder(pending', next)
        BY <1>3, Numbers, KeepCounts DEF WriteCant, Counted
    <2>2. writing' = <<>> /\ UNCHANGED <<unwritten, captured, todo, durable, clients>>
        BY <1>3 DEF WriteCant, Written
    <2> QED BY <2>1, <2>2, NoneUnder DEF Counted, durable, clients
<1>4. CASE WriteFails
    <2>1. /\ writing' = <<>> \/ writing' = writing
          /\ UNCHANGED <<unwritten, pending, captured, todo, durable, clients>>
        BY <1>4 DEF WriteFails, Written, WritesAgain
    <2> QED BY <2>1, NoneUnder DEF Counted, durable, clients
<1>5. CASE Alone
    <2> DEFINE s == Head(writing)
    <2>1. /\ writing # <<>> /\ writing' = Tail(writing)
          /\ UNCHANGED <<pending, captured, todo, clients>>
          /\ \/ Commit(<<s>>) /\ UNCHANGED unwritten
             \/ unwritten' = Append(unwritten, s) /\ UNCHANGED durable
             \/ UNCHANGED <<durable, unwritten>>
        BY <1>5 DEF Alone
    <2>2. s \in Save /\ Under(s, captured) /\ AllUnder(writing', captured)
        <3>1. s = writing[1] /\ 1 \in 1..Len(writing)
            BY <2>1, Numbers, EmptySeq, LenProperties
        <3>2. \A i \in 1..Len(writing') :
                  i + 1 \in 1..Len(writing) /\ writing'[i] = writing[i + 1]
            BY <2>1, Numbers, HeadTailProperties, LenProperties
        <3>3. s \in Save
            BY <3>1, Numbers, ElementOfSeq
        <3> HIDE DEF s
        <3> QED BY <3>1, <3>2, <3>3 DEF Counted, AllUnder
    <2> HIDE DEF s
    <2>3. CASE Commit(<<s>>) /\ UNCHANGED unwritten
        <3>1. <<s>> \in Seq(Save) /\ AllUnder(<<s>>, captured)
            BY <2>2 DEF AllUnder
        <3>2. /\ counter' <= next /\ \A id \in used' : id <= counter'
              /\ \A k \in Keys : db'[k] # Absent => db'[k].id <= counter'
            BY <2>3, <3>1, CommitCounts
        <3> QED BY <2>1, <2>2, <2>3, <3>2 DEF Counted, clients
    <2>4. CASE unwritten' = Append(unwritten, s) /\ UNCHANGED durable
        <3>1. AllUnder(unwritten', captured)
            <4>1. /\ Len(unwritten) \in Nat /\ Len(unwritten') = Len(unwritten) + 1
                  /\ \A i \in 1..Len(unwritten) : unwritten'[i] = unwritten[i]
                  /\ unwritten'[Len(unwritten) + 1] = s
                BY <2>2, <2>4, Numbers, AppendProperties, LenProperties
            <4> SUFFICES ASSUME NEW i \in 1..Len(unwritten')
                         PROVE  Under(unwritten'[i], captured)
                BY DEF AllUnder
            <4>2. CASE i \in 1..Len(unwritten)
                BY <4>1, <4>2 DEF Counted, AllUnder
            <4>3. CASE i = Len(unwritten) + 1
                BY <2>2, <4>1, <4>3
            <4> QED BY <4>1, <4>2, <4>3
        <3> QED BY <2>1, <2>2, <2>4, <3>1 DEF Counted, durable, clients
    <2>5. CASE UNCHANGED <<durable, unwritten>>
        BY <2>1, <2>2, <2>5 DEF Counted, durable, clients
    <2> QED BY <2>1, <2>3, <2>4, <2>5
<1>6. CASE AloneDone
    <2>1. AllUnder(pending', next)
        <3>1. CASE unwritten = <<>>
            BY <1>6, <3>1 DEF AloneDone, WritesAgain, Counted
        <3>2. CASE unwritten # <<>>
            BY <1>6, <3>2, Numbers, KeepCounts DEF AloneDone, Counted
        <3> QED BY <3>1, <3>2
    <2>2. unwritten' = <<>> /\ UNCHANGED <<writing, captured, todo, durable, clients>>
        BY <1>6 DEF AloneDone
    <2> QED BY <2>1, <2>2, NoneUnder DEF Counted, durable, clients
<1> QED BY <1>1, <1>2, <1>3, <1>4, <1>5, <1>6 DEF Write

LEMMA ServeCounts ==
    ASSUME TypeOK, Known, Counted, Serve
    PROVE  Counted'
<1> DEFINE r == Head(todo)
<1>1. todo # <<>> /\ r \in Request
    BY BatchTypes DEF Serve, ServeLoad, ServeCreate, ServeDelete, ServeRename, ServeFlush,
                      Serving
<1>2. /\ todo' = Tail(todo)
      /\ UNCHANGED <<next, queue, writing, unwritten, captured>>
    BY DEF Serve, ServeLoad, ServeCreate, ServeDelete, ServeRename, ServeFlush, Served
<1>3. AskedUnder(todo', next)
    <2>1. Len(todo) # 0
        BY <1>1, Numbers, EmptySeq
    <2>2. Tail(todo) = SubSeq(todo, 2, Len(todo))
        BY <1>1, Numbers, TailIsSubSeq
    <2>3. 2 \in 1..Len(todo) + 1 /\ Len(todo) \in 0..Len(todo)
        BY <2>1, Numbers
    <2> QED BY <1>2, <2>2, <2>3, Numbers, AskedPart DEF Counted
<1>4. AllUnder(pending', next)
    <2> SUFFICES ASSUME NEW j \in 1..Len(pending') PROVE Under(pending'[j], next)
        BY DEF AllUnder
    <2>1. PICK i \in 1..Len(pending) :
             /\ Of(pending'[j]) \subseteq Of(pending[i])
             /\ \A k \in Of(pending'[j]) : pending'[j].rows[k].id = pending[i].rows[k].id
        BY ServeKept
    <2>2. Under(pending[i], next)
        BY DEF Counted, AllUnder
    <2> QED BY <2>1, <2>2 DEF Under
<1>5. /\ counter' <= next
      /\ \A id \in used' : id <= counter'
      /\ \A k \in Keys : db'[k] # Absent => db'[k].id <= counter'
    <2>1. CASE UNCHANGED <<counter, used>> /\ \A k \in Keys : db'[k] # Absent =>
                  db[k] # Absent /\ db'[k].id = db[k].id
        BY <2>1 DEF Counted
    <2>2. CASE ServeLoad \/ ServeFlush
        BY <2>1, <2>2 DEF ServeLoad, ServeFlush, durable
    <2>3. CASE ServeDelete
        <3> DEFINE c == r.key
        <3>1. UNCHANGED <<counter, used>> /\ (db' = [db EXCEPT ![c] = Absent] \/ db' = db)
            BY <2>3 DEF ServeDelete
        <3> HIDE DEF c
        <3> QED BY <2>1, <3>1 DEF TypeOK
    <2>4. CASE ServeRename
        <3> DEFINE c == r.key
                   name == value[c].name + 1
                   was == [db[c] EXCEPT !.name = name]
        <3>1. /\ UNCHANGED <<counter, used>>
              /\ (db[c] # Absent /\ db' = [db EXCEPT ![c] = was]) \/ db' = db
            BY <2>4, Zenon DEF ServeRename
        <3>2. c \in Keys
            BY <1>1, <2>4, RequestTypes, Disjoint DEF ServeRename, Serving
        <3> HIDE DEF c, name
        <3>3. db[c] # Absent => was.id = db[c].id
            BY <3>2, BatchTypes DEF Row
        <3> HIDE DEF was
        <3> QED BY <2>1, <3>1, <3>3 DEF TypeOK
    <2>5. CASE ServeCreate
        <3> DEFINE c == r.key
                   row == [id |-> r.id, name |-> 0]
        <3>1. \/ UNCHANGED durable
              \/ /\ db' = [db EXCEPT ![c] = row]
                 /\ counter' = MaxOf(counter, next) /\ used' = used \cup {row.id}
            BY <2>5 DEF ServeCreate
        <3>2. r.op = "create" /\ r = todo[1] /\ 1 \in 1..Len(todo)
            BY <1>1, <2>5, Numbers, EmptySeq DEF ServeCreate, Serving
        <3>3. row.id \in Nat /\ row.id <= next
            BY <1>1, <3>2, RequestTypes DEF Counted, AskedUnder
        <3> HIDE DEF c, row
        <3>4. CASE UNCHANGED durable
            BY <3>4 DEF Counted, durable
        <3>5. CASE /\ db' = [db EXCEPT ![c] = row]
                   /\ counter' = MaxOf(counter, next) /\ used' = used \cup {row.id}
            <4>1. counter' = next /\ counter <= next
                BY <3>5, Numbers DEF MaxOf, Counted
            <4>2. ASSUME NEW id \in used PROVE id <= next
                <5>1. id \in Nat /\ id <= counter
                    BY <4>2, Numbers DEF Counted
                <5> QED BY <4>1, <5>1, Numbers
            <4>3. ASSUME NEW k \in Keys, db[k] # Absent PROVE db[k].id <= next
                <5>1. db[k].id \in Nat /\ db[k].id <= counter
                    BY <4>3, BatchTypes DEF Counted, Row
                <5> QED BY <4>1, <5>1, Numbers
            <4>4. ASSUME NEW k \in Keys, db'[k] # Absent PROVE db'[k].id <= next
                <5>1. db'[k] = row \/ db'[k] = db[k]
                    BY <3>5 DEF TypeOK
                <5> QED BY <3>3, <4>3, <4>4, <5>1
            <4>5. counter' <= next
                BY <4>1, Numbers
            <4> QED BY <3>3, <3>5, <4>1, <4>2, <4>4, <4>5
        <3> QED BY <3>1, <3>4, <3>5
    <2> QED BY <2>2, <2>3, <2>4, <2>5 DEF Serve
<1> QED BY <1>2, <1>3, <1>4, <1>5 DEF Counted

LEMMA CountStep ==
    ASSUME TypeOK, Known, Counted, [Next]_vars
    PROVE  Counted'
<1>1. CASE Clients
    BY <1>1, ClientCounts
<1>2. CASE Take \/ Gather \/ Retry
    BY <1>2, BatchCounts
<1>3. CASE Write
    BY <1>3, WriteCounts
<1>4. CASE Serve
    BY <1>4, ServeCounts
<1>5. CASE Idle
    BY <1>5 DEF Idle, Counted, durable, clients
<1>6. CASE DiskChanges
    BY <1>6 DEF DiskChanges, Counted, durable, clients, thread
<1>7. CASE Crash
    <2>1. next' = counter /\ UNCHANGED durable
        BY <1>7, CrashCounts DEF Crash
    <2>2. /\ queue' = <<>> /\ todo' = <<>> /\ writing' = <<>> /\ unwritten' = <<>>
          /\ pending' = <<>> /\ captured' = 0
        BY <1>7 DEF Crash
    <2>3. counter <= counter /\ 0 <= counter
        BY Numbers
    <2> QED BY <2>1, <2>2, <2>3, NoneUnder DEF Counted, durable
<1>8. CASE UNCHANGED vars
    BY <1>8 DEF vars, Counted
<1> QED BY <1>1, <1>2, <1>3, <1>4, <1>5, <1>6, <1>7, <1>8 DEF Next, Thread

-----------------------------------------------------------------------------
(* Nothing held that wasn't saved.                                        *)

LEMMA StillSaved ==
    ASSUME NEW saves \in Seq(Save), NEW rows, NEW later, SavedIn(rows, saves),
           \A k \in Keys : rows[k] # Absent => later[k] # Absent
    PROVE  SavedIn(later, saves)
BY DEF SavedIn, Of

LEMMA NoneSaved == \A rows : SavedIn(rows, <<>>)
BY EmptySeq DEF SavedIn

(* Saves once applied leave no row they are of absent.                     *)
LEMMA AppliedSaved ==
    ASSUME TypeOK, NEW saves \in Seq(Save), NEW rows,
           rows = [k \in Keys |-> AfterGood(saves, k, value[k])]
    PROVE  /\ \A k \in Keys : value[k] # Absent => rows[k] # Absent
           /\ SavedIn(rows, saves)
<1>1. ASSUME NEW k \in Keys, value[k] # Absent PROVE rows[k] # Absent
    BY <1>1, AfterGoodIs DEF Of
<1>2. ASSUME NEW i \in 1..Len(saves), ~Bad(saves[i]), NEW k \in Of(saves[i])
      PROVE  rows[k] # Absent
    <2>1. k \in Keys
        BY DEF Of
    <2>2. \E j \in 1..Len(saves) : k \in Of(saves[j]) /\ rows[k] = saves[j].rows[k]
        BY <1>2, <2>1, AfterGoodIs
    <2> QED BY <2>2 DEF Of
<1> QED BY <1>1, <1>2 DEF SavedIn

LEMMA SavedConcat ==
    ASSUME NEW s \in Seq(Save), NEW t \in Seq(Save), NEW rows,
           SavedIn(rows, s), SavedIn(rows, t)
    PROVE  SavedIn(rows, s \o t)
<1>1. /\ Len(s) \in Nat /\ Len(t) \in Nat /\ Len(s \o t) = Len(s) + Len(t)
      /\ \A i \in 1..Len(s) + Len(t) :
            (s \o t)[i] = IF i <= Len(s) THEN s[i] ELSE t[i - Len(s)]
    BY ConcatProperties, LenProperties
<1>2. ASSUME NEW i \in 1..Len(s \o t)
      PROVE  \/ \E j \in 1..Len(s) : (s \o t)[i] = s[j]
             \/ \E j \in 1..Len(t) : (s \o t)[i] = t[j]
    <2>1. CASE i <= Len(s)
        BY <1>1, <2>1
    <2>2. CASE ~(i <= Len(s))
        <3>1. i - Len(s) \in 1..Len(t) /\ (s \o t)[i] = t[i - Len(s)]
            BY <1>1, <2>2
        <3> QED BY <3>1
    <2> QED BY <2>1, <2>2
<1> QED BY <1>2 DEF SavedIn

LEMMA KeepSaved ==
    ASSUME TypeOK, Known, NEW saves \in Seq(Save), SavedIn(value, saves), Keep(saves)
    PROVE  SavedIn(value, pending')
<1>1. \A j \in 1..Len(pending') :
         \/ \E i \in 1..Len(pending) : pending'[j] = pending[i]
         \/ \E i \in 1..Len(saves) : pending'[j] = saves[i]
    BY KeepIs
<1> QED BY <1>1 DEF Known, SavedIn

(* The rows of a commit are rows of the saves it commits.                  *)
LEMMA CommitSaved ==
    ASSUME TypeOK, Known, NEW saves \in Seq(Save), SavedIn(value, saves),
           \A i \in 1..Len(saves) : ~Bad(saves[i]), Commit(saves)
    PROVE  \A k \in Keys : db'[k] # Absent => value[k] # Absent
<1> SUFFICES ASSUME NEW k \in Keys, db'[k] # Absent PROVE value[k] # Absent
    OBVIOUS
<1>1. db'[k] = After(saves, k, db[k])
    BY DEF Commit, Applied
<1>2. CASE db'[k] = db[k]
    BY <1>2 DEF Known
<1>3. CASE \E i \in 1..Len(saves) : k \in Of(saves[i])
    BY <1>3 DEF SavedIn
<1> QED BY <1>1, <1>2, <1>3, AfterIs

LEMMA WriteKnown ==
    ASSUME TypeOK, Known, Write
    PROVE  Known'
<1>0. value' = value
    BY DEF Write, WriteAll, WriteBusy, WriteCant, WriteFails, Alone, AloneDone
<1>1. CASE WriteAll
    <2>1. \A k \in Keys : db'[k] # Absent => value[k] # Absent
        BY <1>1, Numbers, CommitSaved DEF WriteAll, SomeBad, Known
    <2>2. writing' = <<>> /\ UNCHANGED <<unwritten, pending>>
        BY <1>1 DEF WriteAll, Written, WritesAgain
    <2> QED BY <1>0, <2>1, <2>2, NoneSaved DEF Known
<1>2. CASE WriteBusy
    BY <1>2 DEF WriteBusy, Known, durable
<1>3. CASE WriteCant
    <2>1. SavedIn(value, pending')
        BY <1>3, Numbers, KeepSaved DEF WriteCant, Known
    <2>2. writing' = <<>> /\ unwritten' = unwritten /\ db' = db
        BY <1>3 DEF WriteCant, Written, durable
    <2> QED BY <1>0, <2>1, <2>2, NoneSaved DEF Known
<1>4. CASE WriteFails
    <2>1. (writing' = <<>> \/ writing' = writing) /\ UNCHANGED <<unwritten, pending, db>>
        BY <1>4 DEF WriteFails, Written, WritesAgain, durable
    <2> QED BY <1>0, <2>1, NoneSaved DEF Known
<1>5. CASE Alone
    <2> DEFINE s == Head(writing)
    <2>1. /\ writing # <<>> /\ writing' = Tail(writing) /\ pending' = pending
          /\ \/ ~Bad(s) /\ Commit(<<s>>) /\ UNCHANGED unwritten
             \/ unwritten' = Append(unwritten, s) /\ db' = db
             \/ UNCHANGED <<db, unwritten>>
        BY <1>5 DEF Alone, durable
    <2>2. s = writing[1] /\ 1 \in 1..Len(writing) /\ s \in Save
        BY <2>1, Numbers, EmptySeq, LenProperties, HeadTailProperties
    <2>3. SavedIn(value, writing')
        <3>1. \A i \in 1..Len(writing') :
                  i + 1 \in 1..Len(writing) /\ writing'[i] = writing[i + 1]
            BY <2>1, Numbers, HeadTailProperties, LenProperties
        <3> HIDE DEF s
        <3> QED BY <3>1 DEF Known, SavedIn
    <2> HIDE DEF s
    <2>4. ~Bad(s) => \A k \in Of(s) : value[k] # Absent
        BY <2>2 DEF Known, SavedIn
    <2>5. CASE ~Bad(s) /\ Commit(<<s>>) /\ UNCHANGED unwritten
        <3>1. /\ <<s>> \in Seq(Save) /\ SavedIn(value, <<s>>)
              /\ \A i \in 1..Len(<<s>>) : ~Bad(<<s>>[i])
            BY <2>2, <2>4, <2>5 DEF SavedIn
        <3>2. \A k \in Keys : db'[k] # Absent => value[k] # Absent
            BY <2>5, <3>1, CommitSaved
        <3> QED BY <1>0, <2>1, <2>3, <2>5, <3>2 DEF Known
    <2>6. CASE unwritten' = Append(unwritten, s) /\ db' = db
        <3>1. SavedIn(value, unwritten')
            <4>1. /\ Len(unwritten) \in Nat /\ Len(unwritten') = Len(unwritten) + 1
                  /\ \A i \in 1..Len(unwritten) : unwritten'[i] = unwritten[i]
                  /\ unwritten'[Len(unwritten) + 1] = s
                BY <2>2, <2>6, Numbers, AppendProperties, LenProperties
            <4>2. \A i \in 1..Len(unwritten') :
                     unwritten'[i] = s \/ \E j \in 1..Len(unwritten) : unwritten'[i] = unwritten[j]
                BY <4>1
            <4> QED BY <2>4, <4>2 DEF Known, SavedIn
        <3> QED BY <1>0, <2>1, <2>3, <2>6, <3>1 DEF Known
    <2>7. CASE UNCHANGED <<db, unwritten>>
        BY <1>0, <2>1, <2>3, <2>7 DEF Known
    <2> QED BY <2>1, <2>5, <2>6, <2>7
<1>6. CASE AloneDone
    <2>1. SavedIn(value, pending')
        <3>1. CASE unwritten = <<>>
            BY <1>6, <3>1 DEF AloneDone, WritesAgain, Known
        <3>2. CASE unwritten # <<>>
            BY <1>6, <3>2, Numbers, KeepSaved DEF AloneDone, Known
        <3> QED BY <3>1, <3>2
    <2>2. unwritten' = <<>> /\ UNCHANGED <<writing, db>>
        BY <1>6 DEF AloneDone, durable
    <2> QED BY <1>0, <2>1, <2>2, NoneSaved DEF Known
<1> QED BY <1>1, <1>2, <1>3, <1>4, <1>5, <1>6 DEF Write

LEMMA ServeKnown ==
    ASSUME TypeOK, Phases, Known, Serve
    PROVE  Known'
<1> DEFINE r == Head(todo)
           c == r.key
<1>1. todo # <<>> /\ r \in Request
    BY BatchTypes DEF Serve, ServeLoad, ServeCreate, ServeDelete, ServeRename, ServeFlush,
                      Serving
<1>2. /\ writing = <<>> /\ unwritten = <<>> /\ writing' = <<>> /\ unwritten' = <<>>
    BY DEF Serve, ServeLoad, ServeCreate, ServeDelete, ServeRename, ServeFlush, Served,
           Serving, Phases
<1>3. SavedIn(value', writing') /\ SavedIn(value', unwritten')
    BY <1>2, NoneSaved
<1>4. CASE UNCHANGED <<db, value, pending>>
    BY <1>3, <1>4 DEF Known
<1>5. CASE ServeCreate
    <2> DEFINE row == [id |-> r.id, name |-> 0]
    <2>1. c \in Keys /\ row \in Row
        BY <1>1, <1>5, RequestTypes, Disjoint DEF ServeCreate, Serving, Row
    <2>2. row # Absent
        BY <2>1, Disjoint
    <2>3. /\ pending' = pending
          /\ \/ db' = [db EXCEPT ![c] = row] /\ value' = [value EXCEPT ![c] = row]
             \/ UNCHANGED <<db, value>>
        BY <1>5 DEF ServeCreate, durable
    <2> HIDE DEF c, row
    <2>4. CASE db' = [db EXCEPT ![c] = row] /\ value' = [value EXCEPT ![c] = row]
        <3>1. \A k \in Keys : value[k] # Absent => value'[k] # Absent
            BY <2>1, <2>2, <2>4 DEF TypeOK
        <3>2. \A k \in Keys : db'[k] # Absent => value'[k] # Absent
            BY <2>1, <2>2, <2>4 DEF TypeOK, Known
        <3>3. SavedIn(value', pending)
            BY <3>1, Numbers, StillSaved DEF Known
        <3> QED BY <1>3, <2>3, <3>2, <3>3 DEF Known
    <2> QED BY <1>4, <2>3, <2>4
<1>6. CASE ServeDelete
    <2> DEFINE left == KeptWithout(pending, c)
               rows == [k \in Keys |-> AfterGood(left, k, value[k])]
    <2>1. c \in Chars /\ c \in Keys
        BY <1>1, <1>6, RequestTypes, Disjoint DEF ServeDelete, Serving
    <2>2. \/ /\ db' = [db EXCEPT ![c] = Absent] /\ pending' = left
             /\ value' = [k \in Keys |-> IF k = c THEN Absent
                                         ELSE AfterGood(pending', k, value[k])]
          \/ UNCHANGED <<db, value, pending>>
        BY <1>6 DEF ServeDelete
    <2>3. /\ left \in Seq(Save)
          /\ \A j \in 1..Len(left) : c \notin Of(left[j])
        <3> HIDE DEF c
        <3>1. /\ left \in Seq(Save)
              /\ \A j \in 1..Len(left) : \E i \in 1..Len(pending) :
                    left[j] = Without(pending[i], c)
            BY <2>1, Numbers, KeptAfterDelete
        <3>2. \A i \in 1..Len(pending) : c \notin Of(Without(pending[i], c))
            <4> TAKE i \in 1..Len(pending)
            <4>1. pending[i] \in Save
                BY Numbers, ElementOfSeq
            <4> QED BY <2>1, <4>1, WithoutIs
        <3> HIDE DEF left
        <3> QED BY <3>1, <3>2
    <2> HIDE DEF left, c
    <2>4. /\ \A k \in Keys : value[k] # Absent => rows[k] # Absent
          /\ SavedIn(rows, left)
        BY <2>3, AppliedSaved
    <2>5. CASE /\ db' = [db EXCEPT ![c] = Absent] /\ pending' = left
               /\ value' = [k \in Keys |-> IF k = c THEN Absent
                                           ELSE AfterGood(pending', k, value[k])]
        <3>1. \A k \in Keys \ {c} : value'[k] = rows[k]
            BY <2>5
        <3> HIDE DEF rows
        <3>2. \A k \in Keys : db'[k] # Absent => k # c /\ db[k] # Absent
            BY <2>1, <2>5 DEF TypeOK
        <3>3. \A k \in Keys : db'[k] # Absent => value'[k] # Absent
            BY <2>4, <3>1, <3>2 DEF Known
        <3>4. SavedIn(value', left)
            BY <2>3, <2>4, <3>1 DEF SavedIn, Of
        <3> QED BY <1>3, <2>5, <3>3, <3>4 DEF Known
    <2> QED BY <1>4, <2>2, <2>5
<1>7. CASE ServeRename
    <2> DEFINE name == value[c].name + 1
               left == KeptRenamed(pending, c, name)
               was == [db[c] EXCEPT !.name = name]
               val == [value[c] EXCEPT !.name = name]
    <2>1. c \in Chars /\ c \in Keys
        BY <1>1, <1>7, RequestTypes, Disjoint DEF ServeRename, Serving
    <2>2. \/ /\ db[c] # Absent /\ pending' = left
             /\ db' = [db EXCEPT ![c] = was] /\ value' = [value EXCEPT ![c] = val]
          \/ UNCHANGED <<db, value, pending>>
        BY <1>7, Zenon DEF ServeRename
    <2> HIDE DEF c
    <2>3. CASE db[c] # Absent
        <3>1. value[c] \in Row
            BY <2>1, <2>3, BatchTypes DEF Known
        <3>2. name \in Nat
            BY <3>1 DEF Row
        <3> HIDE DEF name
        <3>3. val \in Row
            BY <3>1, <3>2 DEF Row
        <3>4. val # Absent
            BY <3>3, Disjoint
        <3>5. /\ left \in Seq(Save)
              /\ \A j \in 1..Len(left) :
                    j \in 1..Len(pending) /\ left[j] = Renamed(pending[j], c, name)
            BY <2>1, <3>2, Numbers, KeptAfterRename
        <3> HIDE DEF left, was, val
        <3>6. SavedIn(value, left)
            <4>1. \A j \in 1..Len(pending) :
                      Of(Renamed(pending[j], c, name)) = Of(pending[j])
                <5> TAKE j \in 1..Len(pending)
                <5>1. pending[j] \in Save
                    BY Numbers, ElementOfSeq
                <5> QED BY <2>1, <3>2, <5>1, RenamedIs
            <4> QED BY <3>5, <4>1 DEF Known, SavedIn, Bad
        <3>7. CASE /\ pending' = left /\ db' = [db EXCEPT ![c] = was]
                   /\ value' = [value EXCEPT ![c] = val]
            <4>1. \A k \in Keys : value[k] # Absent => value'[k] # Absent
                BY <2>1, <3>4, <3>7 DEF TypeOK
            <4>2. \A k \in Keys : db'[k] # Absent => value'[k] # Absent
                BY <2>1, <3>4, <3>7 DEF TypeOK, Known
            <4>3. SavedIn(value', left)
                BY <3>5, <3>6, <4>1, StillSaved
            <4> QED BY <1>3, <3>7, <4>2, <4>3 DEF Known
        <3> QED BY <1>4, <2>2, <3>7
    <2> QED BY <1>4, <2>2, <2>3
<1> QED BY <1>4, <1>5, <1>6, <1>7 DEF Serve, ServeLoad, ServeFlush, durable

LEMMA KnownStep ==
    ASSUME TypeOK, Phases, Known, [Next]_vars
    PROVE  Known'
<1>1. CASE UNCHANGED <<db, value, pending, unwritten, writing>>
    BY <1>1 DEF Known
<1>2. CASE Clients
    <2>1. UNCHANGED <<db, value, pending, unwritten, writing>>
        BY <1>2 DEF Clients, SendSave, SendLoad, SendCreate, SendChange, SendFlush, thread,
                    durable
    <2> QED BY <1>1, <2>1
<1>3. CASE Take \/ Idle \/ DiskChanges \/ UNCHANGED vars
    <2>1. UNCHANGED <<db, value, pending, unwritten, writing>>
        BY <1>3 DEF Take, Idle, DiskChanges, vars, durable, thread
    <2> QED BY <1>1, <2>1
<1>4. CASE Gather
    <2>1. PICK n \in 0..Len(todo) :
              /\ SubSeq(todo, 1, n) \in Seq(Save)
              /\ writing' = pending \o SubSeq(todo, 1, n)
              /\ value' = [k \in Keys |-> AfterGood(SubSeq(todo, 1, n), k, value[k])]
        BY <1>4, GatherTypes
    <2> DEFINE saves == SubSeq(todo, 1, n)
    <2>2. pending' = <<>> /\ unwritten' = unwritten /\ db' = db
        BY <1>4 DEF Gather, BeginWrite, durable
    <2> HIDE DEF saves
    <2>3. saves \in Seq(Save) /\ value' = [k \in Keys |-> AfterGood(saves, k, value[k])]
        BY <2>1 DEF saves
    <2>4. (\A k \in Keys : value[k] # Absent => value'[k] # Absent) /\ SavedIn(value', saves)
        BY <2>3, AppliedSaved
    <2>5. SavedIn(value', pending) /\ SavedIn(value', unwritten)
        BY <2>4, Numbers, StillSaved DEF Known
    <2>6. SavedIn(value', writing')
        BY <2>1, <2>3, <2>4, <2>5, Numbers, SavedConcat DEF saves
    <2> QED BY <2>2, <2>4, <2>5, <2>6, NoneSaved DEF Known
<1>5. CASE Retry
    <2>1. /\ writing' = pending \o <<>> /\ pending' = <<>>
          /\ UNCHANGED <<unwritten, db, value>>
        BY <1>5 DEF Retry, BeginWrite, durable
    <2>2. SavedIn(value, writing')
        BY <2>1, Numbers, NoneSaved, EmptySeq, SavedConcat DEF Known
    <2> QED BY <2>1, <2>2, NoneSaved DEF Known
<1>6. CASE Write
    BY <1>6, WriteKnown
<1>7. CASE Serve
    BY <1>7, ServeKnown
<1>8. CASE Crash
    <2>1. /\ value' = db /\ db' = db
          /\ pending' = <<>> /\ unwritten' = <<>> /\ writing' = <<>>
        BY <1>8 DEF Crash, durable
    <2> QED BY <2>1, NoneSaved DEF Known
<1> QED BY <1>2, <1>3, <1>4, <1>5, <1>6, <1>7, <1>8 DEF Next, Thread

-----------------------------------------------------------------------------
(* The theorems.                                                          *)

LEMMA InitIInv == Init => IInv
<1> SUFFICES ASSUME Init PROVE IInv
    OBVIOUS
<1>1. TypeOK
    BY InitTypes
<1>2. Phases /\ KeptFails
    BY DEF Init, Phases, KeptFails
<1>3. Counted
    <2>1. \A k \in Keys : db[k] # Absent => db[k].id <= 0
        BY DEF Init
    <2> QED BY <2>1, NoneUnder DEF Init, Counted
<1>4. Known
    BY NoneSaved DEF Init, Known
<1> QED BY <1>1, <1>2, <1>3, <1>4 DEF IInv

LEMMA IInvStep == IInv /\ [Next]_vars => IInv'
BY TypeStep, PhaseStep, FailStep, CountStep, KnownStep DEF IInv

(* IInv holds of every behaviour of the store.                            *)
THEOREM Inductive == Spec => []IInv
BY InitIInv, IInvStep, PTL DEF Spec

(* The store's state is always well formed: what it keeps and writes are   *)
(* saves, and what it takes are requests.                                  *)
THEOREM TypeCorrect == Spec => []TypeOK
<1>1. IInv => TypeOK
    BY DEF IInv
<1> QED BY <1>1, Inductive, PTL

(* While the store keeps a save it couldn't write, it says so, and logins  *)
(* wait (kept.keep, writes_again, Store::failing).                         *)
THEOREM KeptMeansWait == Spec => []LoginsWait
<1>1. IInv => LoginsWait
    BY DEF IInv, KeptFails, LoginsWait
<1> QED BY <1>1, Inductive, PTL

(* A GUID that ever reached the tables isn't handed out again, whatever was *)
(* deleted, and wherever the process crashed: the counter goes into each    *)
(* transaction with the rows (Counters, write_batch, read_startup).        *)
THEOREM GuidsOnce == Spec => []GuidsNeverReused
<1>1. IInv => GuidsNeverReused
    <2> SUFFICES ASSUME IInv, NEW id \in used PROVE id <= next
        BY DEF GuidsNeverReused
    <2>1. /\ id \in Nat /\ counter \in Nat /\ next \in Nat
          /\ id <= counter /\ counter <= next
        BY Numbers DEF IInv, Counted
    <2> QED BY <2>1
<1> QED BY <1>1, Inductive, PTL
=============================================================================
