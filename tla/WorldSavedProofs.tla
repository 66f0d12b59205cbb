-------------------------- MODULE WorldSavedProofs --------------------------
(***************************************************************************)
(* That what a player did is never lost nor undone, for any number of       *)
(* characters, connections, maps and copies, as long as none of the races   *)
(* the code leaves open was lost: who isn't online is saved as they last    *)
(* were, and who is in the world is as they last were.  And that one        *)
(* session is at work at a time, none having ended before its turn.        *)
(***************************************************************************)
EXTENDS WorldProofs

-----------------------------------------------------------------------------
(* What is in queues, wherever in them.                                   *)
InQueues(q, D) == UNION {{q[x][i] : i \in 1..Len(q[x])} : x \in D}
Mails == InQueues(mq, Handles)
Said  == InQueues(ctl, Sessions)

LEMMA InQueuesIs ==
    ASSUME NEW q, NEW D, NEW e
    PROVE  e \in InQueues(q, D) <=> \E x \in D : \E i \in 1..Len(q[x]) : e = q[x][i]
BY DEF InQueues

LEMMA AppendIs ==
    ASSUME NEW D, NEW S, NEW q, NEW r, NEW x \in D, q[x] \in Seq(S), NEW e \in S,
           r[x] = Append(q[x], e), \A y \in D : y # x => r[y] = q[y]
    PROVE  InQueues(r, D) = InQueues(q, D) \cup {e}
<1>1. /\ q[x] \in Seq(S) /\ Append(q[x], e) \in Seq(S)
      /\ Len(q[x]) \in Nat /\ Len(Append(q[x], e)) = Len(q[x]) + 1
      /\ \A i \in 1..Len(q[x]) : Append(q[x], e)[i] = q[x][i]
      /\ Append(q[x], e)[Len(q[x]) + 1] = e
    BY AppendProperties, LenProperties
<1>2. r[x] = Append(q[x], e) /\ \A y \in D : y # x => r[y] = q[y]
    OBVIOUS
<1>3. ASSUME NEW a \in InQueues(r, D)
      PROVE  a \in InQueues(q, D) \cup {e}
    <2>0. \E y \in D : \E i \in 1..Len(r[y]) : a = r[y][i]
        BY ONLY <1>3, InQueuesIs
    <2>1. PICK y \in D : \E i \in 1..Len(r[y]) : a = r[y][i]
        BY ONLY <2>0
    <2>2. PICK i \in 1..Len(r[y]) : a = r[y][i]
        BY <2>1
    <2>3. CASE y = x
        <3>1. i \in 1..(Len(q[x]) + 1) /\ a = Append(q[x], e)[i]
            BY <1>1, <1>2, <2>2, <2>3
        <3>2. i \in 1..Len(q[x]) \/ i = Len(q[x]) + 1
            BY <1>1, <3>1
        <3>3. (i \in 1..Len(q[x]) /\ a = q[x][i]) \/ a = e
            BY <1>1, <3>1, <3>2
        <3> QED BY <3>3, InQueuesIs
    <2>4. CASE y # x
        BY <1>2, <2>2, <2>4, InQueuesIs
    <2> QED BY <2>3, <2>4
<1>4. ASSUME NEW a \in InQueues(q, D)
      PROVE  a \in InQueues(r, D)
    <2>1. PICK y \in D : \E i \in 1..Len(q[y]) : a = q[y][i]
        BY <1>4, InQueuesIs
    <2>2. PICK i \in 1..Len(q[y]) : a = q[y][i]
        BY <2>1
    <2>3. i \in 1..Len(r[y]) /\ a = r[y][i]
        BY <1>1, <1>2, <2>2
    <2> QED BY <2>3, InQueuesIs
<1>5. e \in InQueues(r, D)
    <2>1. Len(q[x]) + 1 \in 1..Len(r[x]) /\ e = r[x][Len(q[x]) + 1]
        BY <1>1, <1>2
    <2> QED BY <2>1, InQueuesIs
<1> QED BY <1>3, <1>4, <1>5

LEMMA TailLen ==
    ASSUME NEW S, NEW q \in Seq(S), q # <<>>
    PROVE  /\ Len(q) \in Nat \ {0} /\ Len(Tail(q)) = Len(q) - 1 /\ Tail(q) \in Seq(S)
           /\ \A i \in 1..Len(Tail(q)) : Tail(q)[i] = q[i + 1]
           /\ Head(q) = q[1] /\ q[1] \in S
BY HeadTailProperties, LenProperties, EmptySeq

LEMMA TailIs ==
    ASSUME NEW D, NEW q, NEW r, NEW x \in D, Len(q[x]) \in Nat \ {0}, Len(r[x]) = Len(q[x]) - 1,
           \A i \in 1..Len(r[x]) : r[x][i] = q[x][i + 1], \A y \in D : y # x => r[y] = q[y]
    PROVE  /\ q[x][1] \in InQueues(q, D)
           /\ InQueues(r, D) \subseteq InQueues(q, D)
           /\ InQueues(q, D) \subseteq InQueues(r, D) \cup {q[x][1]}
<1>1. 1 \in 1..Len(q[x])
    OBVIOUS
<1>2. q[x][1] \in InQueues(q, D)
    BY <1>1, InQueuesIs
<1>3. ASSUME NEW a \in InQueues(r, D)
      PROVE  a \in InQueues(q, D)
    <2>1. PICK y \in D : \E i \in 1..Len(r[y]) : a = r[y][i]
        BY <1>3, InQueuesIs
    <2>2. PICK i \in 1..Len(r[y]) : a = r[y][i]
        BY <2>1
    <2>3. CASE y = x
        <3>1. i + 1 \in 1..Len(q[x]) /\ a = q[x][i + 1]
            BY <2>2, <2>3
        <3> QED BY <3>1, InQueuesIs
    <2>4. CASE y # x
        BY <2>2, <2>4, InQueuesIs
    <2> QED BY <2>3, <2>4
<1>4. ASSUME NEW a \in InQueues(q, D), a # q[x][1]
      PROVE  a \in InQueues(r, D)
    <2>1. PICK y \in D : \E i \in 1..Len(q[y]) : a = q[y][i]
        BY <1>4, InQueuesIs
    <2>2. PICK i \in 1..Len(q[y]) : a = q[y][i]
        BY <2>1
    <2>3. CASE y = x
        <3>1. i # 1 /\ i \in 1..Len(q[x])
            BY <1>4, <2>2, <2>3
        <3>2. i - 1 \in 1..Len(r[x]) /\ (i - 1) + 1 = i
            BY <3>1
        <3>3. a = r[x][i - 1]
            BY <2>2, <2>3, <3>2
        <3> QED BY <3>2, <3>3, InQueuesIs
    <2>4. CASE y # x
        BY <2>2, <2>4, InQueuesIs
    <2> QED BY <2>3, <2>4
<1> QED BY <1>2, <1>3, <1>4

-----------------------------------------------------------------------------
(* Whoever is in the world, or about to be, is as they last were; and who   *)
(* is not saved as they last were is in it, to be saved from there.         *)
New(p) == p.ver = latest[p.on.g]
Brings(e) == e.op = "arrive" /\ e.kind = "transfer"

AllNew ==
    /\ \A h \in Handles, g \in Chars : Here(h, g) => New(players[h][g])
    /\ \A e \in Mails : e.op = "arrive" => New(e.p)
    /\ \A w \in Said : w.op = "transfer" => New(w.p)
    /\ \A s \in Sessions : passing[s] # None => New(passing[s].p)

(* Where the character is in the world, their row older than they are.     *)
Aboard(c) ==
    \/ \E h \in Handles : Here(h, c)
    \/ \E e \in Mails : Brings(e) /\ e.p.on.g = c
    \/ \E w \in Said : w.op = "transfer" /\ w.p.on.g = c
    \/ \E s \in Sessions : passing[s] # None /\ passing[s].p.on.g = c
Unsaved == \A c \in Chars : saved[c] # latest[c] => Aboard(c)

(* The row a login has read stands until it is in the world or looks again. *)
Rows ==
    /\ \A s \in Sessions : phase[s] = "loading" => online = None
    /\ \A s \in Sessions : phase[s] \in {"loading", "arriving"} => row[s] = latest[goal[s]]

SInv == AllNew /\ Unsaved /\ Rows

-----------------------------------------------------------------------------
(* What a step drops from the queues and puts in them.                    *)
Sends(D, N) == Mails \subseteq Mails' \cup D /\ Mails' \subseteq Mails \cup N
Tells(D, N) == Said \subseteq Said' \cup D /\ Said' \subseteq Said \cup N

LEMMA MailsSame ==
    ASSUME mq' = mq
    PROVE  Sends({}, {})
BY DEF Sends, Mails, InQueues

LEMMA MailsPut ==
    ASSUME ActorTypes, NEW h \in Handles, NEW e \in OwnEvent, mq' = Put(mq, h, e)
    PROVE  Sends({}, {e}) /\ e \in Mails'
<1>1. PICK r : r = mq'
    OBVIOUS
<1>2. /\ mq[h] \in Seq(OwnEvent) /\ r[h] = Append(mq[h], e)
      /\ \A k \in Handles : k # h => r[k] = mq[k]
    BY <1>1 DEF Put, ActorTypes
<1>3. InQueues(r, Handles) = InQueues(mq, Handles) \cup {e}
    BY <1>2, AppendIs
<1> QED BY <1>1, <1>3 DEF Sends, Mails

LEMMA MailsTaken ==
    ASSUME ActorTypes, NEW h \in Handles, mq[h] # <<>>, mq' = Taken(h)
    PROVE  Sends({mq[h][1]}, {}) /\ mq[h][1] \in Mails
<1>1. PICK r : r = mq'
    OBVIOUS
<1>2. /\ mq[h] \in Seq(OwnEvent) /\ mq[h] # <<>> /\ r[h] = Tail(mq[h])
      /\ \A k \in Handles : k # h => r[k] = mq[k]
    BY <1>1 DEF Taken, ActorTypes
<1>4. /\ Len(mq[h]) \in Nat \ {0} /\ Len(r[h]) = Len(mq[h]) - 1
      /\ \A i \in 1..Len(r[h]) : r[h][i] = mq[h][i + 1]
    BY <1>2, TailLen
<1>3. /\ InQueues(r, Handles) \subseteq InQueues(mq, Handles)
      /\ InQueues(mq, Handles) \subseteq InQueues(r, Handles) \cup {mq[h][1]}
      /\ mq[h][1] \in InQueues(mq, Handles)
    BY <1>2, <1>4, TailIs
<1> QED BY <1>1, <1>3 DEF Sends, Mails

LEMMA MailsOn ==
    ASSUME ActorTypes, NEW h \in Handles, mq[h] # <<>>, NEW t \in Handles, NEW e \in OwnEvent,
           mq' = Put(Taken(h), t, e)
    PROVE  Sends({mq[h][1]}, {e}) /\ mq[h][1] \in Mails /\ e \in Mails'
<1>1. PICK r : r = mq'
    OBVIOUS
<1>2. PICK q : q = Taken(h)
    OBVIOUS
<1>3. /\ mq[h] \in Seq(OwnEvent) /\ mq[h] # <<>> /\ q[h] = Tail(mq[h])
      /\ \A k \in Handles : k # h => q[k] = mq[k]
    BY <1>2 DEF Taken, ActorTypes
<1>4. /\ InQueues(q, Handles) \subseteq InQueues(mq, Handles)
      /\ InQueues(mq, Handles) \subseteq InQueues(q, Handles) \cup {mq[h][1]}
      /\ mq[h][1] \in InQueues(mq, Handles)
    <2>1. /\ Len(mq[h]) \in Nat \ {0} /\ Len(q[h]) = Len(mq[h]) - 1
          /\ \A i \in 1..Len(q[h]) : q[h][i] = mq[h][i + 1]
        BY <1>3, TailLen
    <2> QED BY <1>3, <2>1, TailIs
<1>5. q \in [Handles -> Seq(OwnEvent)]
    <2>1. Tail(mq[h]) \in Seq(OwnEvent)
        BY <1>3, Tails
    <2> QED BY <1>2, <2>1 DEF Taken, ActorTypes
<1>6. q[t] \in Seq(OwnEvent) /\ r[t] = Append(q[t], e) /\ \A k \in Handles : k # t => r[k] = q[k]
    BY <1>1, <1>2, <1>5 DEF Put
<1>7. InQueues(r, Handles) = InQueues(q, Handles) \cup {e}
    BY <1>6, AppendIs
<1> QED BY <1>1, <1>4, <1>7 DEF Sends, Mails

LEMMA MailsTwice ==
    ASSUME ActorTypes, NEW h \in Handles, NEW e \in OwnEvent, NEW f \in OwnEvent,
           mq' = Put(Put(mq, h, e), h, f)
    PROVE  Sends({}, {e, f}) /\ e \in Mails'
<1>1. PICK r : r = mq'
    OBVIOUS
<1>2. PICK q : q = Put(mq, h, e)
    OBVIOUS
<1>3. /\ mq[h] \in Seq(OwnEvent) /\ q[h] = Append(mq[h], e)
      /\ \A k \in Handles : k # h => q[k] = mq[k]
    BY <1>2 DEF Put, ActorTypes
<1>4. InQueues(q, Handles) = InQueues(mq, Handles) \cup {e}
    BY <1>3, AppendIs
<1>5. q \in [Handles -> Seq(OwnEvent)]
    <2>1. Append(mq[h], e) \in Seq(OwnEvent)
        BY <1>3, AppendProperties
    <2> QED BY <1>2, <2>1 DEF Put, ActorTypes
<1>6. q[h] \in Seq(OwnEvent) /\ r[h] = Append(q[h], f) /\ \A k \in Handles : k # h => r[k] = q[k]
    BY <1>1, <1>2, <1>5 DEF Put
<1>7. InQueues(r, Handles) = InQueues(q, Handles) \cup {f}
    BY <1>6, AppendIs
<1> QED BY <1>1, <1>4, <1>7 DEF Sends, Mails

LEMMA SaidSame ==
    ASSUME ctl' = ctl
    PROVE  Tells({}, {})
BY DEF Tells, Said, InQueues

LEMMA SaidTold ==
    ASSUME SessTypes, NEW s \in Sessions, NEW w \in OwnWord, ctl' = Tell(ctl, s, w)
    PROVE  Tells({}, {w}) /\ (Hears(s) => w \in Said')
<1>1. CASE ~Hears(s)
    BY <1>1, SaidSame DEF Tell, Tells
<1>2. CASE Hears(s)
    <2>1. PICK r : r = ctl'
        OBVIOUS
    <2>2. /\ ctl[s] \in Seq(OwnWord) /\ r[s] = Append(ctl[s], w)
          /\ \A t \in Sessions : t # s => r[t] = ctl[t]
        BY <1>2, <2>1 DEF Tell, SessTypes
    <2>3. InQueues(r, Sessions) = InQueues(ctl, Sessions) \cup {w}
        BY <2>2, AppendIs
    <2> QED BY <2>1, <2>3 DEF Tells, Said
<1> QED BY <1>1, <1>2

LEMMA SaidRest ==
    ASSUME SessTypes, NEW s \in Sessions, ctl[s] # <<>>, ctl' = Rest(s)
    PROVE  Tells({Head(ctl[s])}, {}) /\ Head(ctl[s]) \in Said /\ Head(ctl[s]) \in OwnWord
<1>1. PICK r : r = ctl'
    OBVIOUS
<1>2. /\ ctl[s] \in Seq(OwnWord) /\ ctl[s] # <<>> /\ r[s] = Tail(ctl[s])
      /\ \A t \in Sessions : t # s => r[t] = ctl[t]
    BY <1>1 DEF Rest, SessTypes
<1>3. /\ InQueues(r, Sessions) \subseteq InQueues(ctl, Sessions)
      /\ InQueues(ctl, Sessions) \subseteq InQueues(r, Sessions) \cup {ctl[s][1]}
      /\ ctl[s][1] \in InQueues(ctl, Sessions)
    <2>1. /\ Len(ctl[s]) \in Nat \ {0} /\ Len(r[s]) = Len(ctl[s]) - 1
          /\ \A i \in 1..Len(r[s]) : r[s][i] = ctl[s][i + 1]
        BY <1>2, TailLen
    <2> QED BY <1>2, <2>1, TailIs
<1>4. Head(ctl[s]) = ctl[s][1] /\ ctl[s][1] \in OwnWord
    BY <1>2, TailLen
<1> QED BY <1>1, <1>3, <1>4 DEF Tells, Said

-----------------------------------------------------------------------------
(* A step from place to place.  All but m stay aboard: whoever was in a map *)
(* is in it, no transfer is dropped from a queue, nobody on a session's     *)
(* hands lost.                                                            *)
Aboards(m, D, E) ==
    /\ \A h \in Handles, g \in Chars : Here(h, g) => Here(h, g)' \/ g = m
    /\ \A e \in D : Brings(e) => e.p.on.g = m
    /\ \A w \in E : w.op = "transfer" => w.p.on.g = m
    /\ \A s \in Sessions : passing[s] # None => passing'[s] = passing[s] \/ passing[s].p.on.g = m

(* And whoever comes is as they last were.                                *)
Fresh(N, M) ==
    /\ \A h \in Handles, g \in Chars : Here(h, g)' =>
          \/ Here(h, g) /\ players'[h][g].ver = players[h][g].ver
                        /\ players'[h][g].on.g = players[h][g].on.g
          \/ New(players'[h][g])
    /\ \A e \in N : e.op = "arrive" => New(e.p)
    /\ \A w \in M : w.op = "transfer" => New(w.p)
    /\ \A s \in Sessions : passing'[s] # None => passing'[s] = passing[s] \/ New(passing'[s].p)

LEMMA AboardKept ==
    ASSUME NEW m, NEW D, NEW N, NEW E, NEW M, Sends(D, N), Tells(E, M), Aboards(m, D, E),
           NEW c \in Chars, c # m, Aboard(c)
    PROVE  Aboard(c)'
<1>1. CASE \E h \in Handles : Here(h, c)
    BY <1>1 DEF Aboards, Aboard
<1>2. CASE \E e \in Mails : Brings(e) /\ e.p.on.g = c
    <2>1. PICK e \in Mails : Brings(e) /\ e.p.on.g = c
        BY <1>2
    <2>2. e \in Mails'
        BY <2>1 DEF Aboards, Sends
    <2> QED BY <2>1, <2>2 DEF Aboard, Brings
<1>3. CASE \E w \in Said : w.op = "transfer" /\ w.p.on.g = c
    <2>1. PICK w \in Said : w.op = "transfer" /\ w.p.on.g = c
        BY <1>3
    <2>2. w \in Said'
        BY <2>1 DEF Aboards, Tells
    <2> QED BY <2>1, <2>2 DEF Aboard
<1>4. CASE \E s \in Sessions : passing[s] # None /\ passing[s].p.on.g = c
    <2>1. PICK s \in Sessions : passing[s] # None /\ passing[s].p.on.g = c
        BY <1>4
    <2>2. passing'[s] = passing[s]
        BY <2>1 DEF Aboards
    <2> QED BY <2>1, <2>2 DEF Aboard
<1> QED BY <1>1, <1>2, <1>3, <1>4 DEF Aboard

LEMMA UnsavedKept ==
    ASSUME Unsaved, NEW m, NEW D, NEW N, NEW E, NEW M, Sends(D, N), Tells(E, M), Aboards(m, D, E),
           \A c \in Chars : c # m => saved'[c] = saved[c] /\ latest'[c] = latest[c],
           m \in Chars => saved'[m] = latest'[m] \/ Aboard(m)'
    PROVE  Unsaved'
<1> SUFFICES ASSUME NEW c \in Chars, saved'[c] # latest'[c], c # m
             PROVE  Aboard(c)'
    BY DEF Unsaved
<1>1. Aboard(c)
    BY DEF Unsaved
<1> QED BY <1>1, AboardKept

LEMMA AllNewKept ==
    ASSUME AllNew, NEW D, NEW N, NEW E, NEW M, Sends(D, N), Tells(E, M), Fresh(N, M), latest' = latest
    PROVE  AllNew'
<1>1. ASSUME NEW h \in Handles, NEW g \in Chars, Here(h, g)'
      PROVE  New(players[h][g])'
    BY <1>1 DEF Fresh, AllNew, New
<1>2. ASSUME NEW e \in Mails', e.op = "arrive"
      PROVE  New(e.p)'
    <2>1. e \in Mails \/ e \in N
        BY DEF Sends
    <2> QED BY <1>2, <2>1 DEF AllNew, Fresh, New
<1>3. ASSUME NEW w \in Said', w.op = "transfer"
      PROVE  New(w.p)'
    <2>1. w \in Said \/ w \in M
        BY DEF Tells
    <2> QED BY <1>3, <2>1 DEF AllNew, Fresh, New
<1>4. ASSUME NEW s \in Sessions, passing'[s] # None
      PROVE  New(passing[s].p)'
    BY <1>4 DEF Fresh, AllNew, New
<1> QED BY <1>1, <1>2, <1>3, <1>4 DEF AllNew

(* A session reading a row, or about to be in the world from it, read it    *)
(* before, and nobody came online where nobody was.                        *)
RowsGo ==
    /\ online' \in {online, None} \/ online # None
    /\ \A s \in Sessions : phase'[s] \in {"loading", "arriving"} =>
          phase'[s] = phase[s] /\ row'[s] = row[s] /\ goal'[s] = goal[s]

LEMMA RowsKept ==
    ASSUME Rows, RowsGo, latest' = latest
    PROVE  Rows'
BY DEF Rows, RowsGo

(* Nobody goes from place to place.                                       *)
LEMMA Quiet ==
    ASSUME SInv, NEW D, NEW N, NEW E, NEW M, Sends(D, N), Tells(E, M),
           UNCHANGED <<players, passing, saved, latest>>, Rows',
           \A e \in D : ~Brings(e), \A e \in N : e.op = "arrive" => New(e.p),
           \A w \in E \cup M : w.op # "transfer"
    PROVE  SInv'
<1>1. Aboards(None, D, E)
    BY DEF Aboards, Here
<1>2. Fresh(N, M)
    BY DEF Fresh, Here
<1>3. None \notin Chars
    BY WorldAssumption
<1> QED BY <1>1, <1>2, <1>3, UnsavedKept, AllNewKept DEF SInv

-----------------------------------------------------------------------------
(* A session's own steps: those that neither send nor hear.               *)
LEMMA RowsOwn ==
    ASSUME TInv, SInv, NEW s \in Sessions,
           \/ Begin(s) \/ WaitHeard(s) \/ LostMap(s) \/ LoginFails(s) \/ TakenOver(s) \/ LookAgain(s)
           \/ \E k \in Keys : Resume(s, k)
           \/ \E c \in Chars : AskLogin(s, c)
           \/ \E flood \in BOOLEAN : ClientGoes(s, flood)
    PROVE  Rows' /\ UNCHANGED <<mq, ctl, players, passing, saved, latest>>
<1>1. UNCHANGED <<mq, ctl, players, passing, saved, latest>>
    BY DEF Begin, WaitHeard, LostMap, LoginFails, TakenOver, LookAgain, Resume, AskLogin, ClientGoes,
           mapsV, actorV, sessV, dataV
<1>2. RowsGo
    BY DEF Begin, WaitHeard, LostMap, LoginFails, TakenOver, LookAgain, Resume, AskLogin, ClientGoes, Ends,
           mapsV, actorV, regV, sessV, dataV, RowsGo, TInv, Types, SessTypes
<1> QED BY <1>1, <1>2, RowsKept DEF SInv

LEMMA QuietOwn ==
    ASSUME SInv, Rows', UNCHANGED <<mq, ctl, players, passing, saved, latest>>
    PROVE  SInv'
<1>1. Sends({}, {}) /\ Tells({}, {})
    BY MailsSame, SaidSame
<1> QED BY <1>1, Quiet

(* Nobody of the account is online: nobody is in the world, and the row is  *)
(* as they last were.                                                      *)
LEMMA NobodyAboard ==
    ASSUME SpotsListed, NEW c \in Chars, Aboard(c)
    PROVE  online # None /\ online.g = c
<1>1. CASE \E h \in Handles : Here(h, c)
    BY <1>1 DEF SpotsListed, OnList
<1>2. CASE \E e \in Mails : Brings(e) /\ e.p.on.g = c
    <2>1. PICK e \in Mails : Brings(e) /\ e.p.on.g = c
        BY <1>2
    <2>2. PICK h \in Handles : \E i \in Box(h) : e = mq[h][i]
        BY <2>1, InQueuesIs DEF Mails, Box
    <2>3. PICK i \in Box(h) : e = mq[h][i]
        BY <2>2
    <2>4. mq[h][i].op = "arrive" /\ mq[h][i].p.on.g = c
        BY <2>1, <2>3 DEF Brings
    <2> QED BY <2>4 DEF SpotsListed, OnList
<1>3. CASE \E w \in Said : w.op = "transfer" /\ w.p.on.g = c
    <2>1. PICK w \in Said : w.op = "transfer" /\ w.p.on.g = c
        BY <1>3
    <2>2. PICK s \in Sessions : \E i \in Words(s) : w = ctl[s][i]
        BY <2>1, InQueuesIs DEF Said, Words
    <2>3. PICK i \in Words(s) : w = ctl[s][i]
        BY <2>2
    <2>4. ctl[s][i].op = "transfer" /\ ctl[s][i].p.on.g = c
        BY <2>1, <2>3
    <2> QED BY <2>4 DEF SpotsListed, OnList
<1>4. CASE \E s \in Sessions : passing[s] # None /\ passing[s].p.on.g = c
    BY <1>4 DEF SpotsListed, OnList
<1> QED BY <1>1, <1>2, <1>3, <1>4 DEF Aboard

LEMMA LookNobodySaved ==
    ASSUME TInv, WInv, SInv, NEW s \in Sessions, LookNobody(s)
    PROVE  SInv'
<1>1. goal[s] \in Chars
    BY DEF TInv, Phases, Holds, LookNobody
<1>2. saved[goal[s]] = latest[goal[s]]
    BY <1>1, NobodyAboard DEF WInv, SInv, Unsaved, LookNobody
<1>3. /\ UNCHANGED <<mq, ctl, players, passing, saved, latest, goal, online>> /\ online = None
      /\ row'[s] = saved[goal[s]] /\ phase'[s] = "loading"
      /\ \A t \in Sessions : t # s => phase'[t] = phase[t] /\ row'[t] = row[t]
    BY DEF LookNobody, mapsV, actorV, regV, dataV, TInv, Types, SessTypes
<1>4. Rows'
    BY <1>2, <1>3 DEF SInv, Rows
<1> QED BY <1>3, <1>4, QuietOwn

(* Reading its row the only one, as one session works at a time, a login    *)
(* goes online with it.                                                    *)
LEMMA EnterSaved ==
    ASSUME TInv, SInv, OneWorks, NEW s \in Sessions, NEW k \in Keys, Enter(s, k)
    PROVE  SInv'
<1>1. /\ UNCHANGED <<mq, ctl, players, passing, saved, latest, goal>> /\ phase[s] = "loading"
      /\ \A t \in Sessions : t # s => phase'[t] = phase[t] /\ row'[t] = row[t]
      /\ \/ phase'[s] = "login" /\ online' = online /\ online # None
         \/ phase'[s] = "arriving" /\ row'[s] = row[s]
    BY DEF Enter, actorV, dataV, TInv, Types, SessTypes
<1>2. \A t \in Sessions : phase'[t] = "loading" => t # s /\ phase[t] = "loading"
    BY <1>1
<1>3. \A t \in Sessions : phase'[t] # "loading"
    BY <1>1, <1>2 DEF OneWorks, Works
<1>4. Rows'
    BY <1>1, <1>3 DEF SInv, Rows
<1> QED BY <1>1, <1>4, QuietOwn

(* Those that send and hear words.                                        *)
LEMMA RowsHeard ==
    ASSUME TInv, SInv, NEW s \in Sessions,
           HearHandedOn(s) \/ HearLoggedOut(s) \/ HearKick(s) \/ HearLeave(s) \/ DropRest(s) \/ Connect(s)
           \/ Kick(s) \/ SendLogout(s) \/ LookTheirs(s) \/ LookOther(s) \/ GivesUp(s)
           \/ Disconnect(s) \/ DisconnectScreen(s) \/ ReapLeft(s)
    PROVE  Rows' /\ UNCHANGED <<players, passing, saved, latest>>
<1>1. UNCHANGED <<players, passing, saved, latest>>
    BY DEF HearHandedOn, HearLoggedOut, HearKick, HearLeave, DropRest, Connect, Kick, SendLogout,
           LookTheirs, LookOther, GivesUp, Disconnect, DisconnectScreen, ReapLeft,
           mapsV, actorV, sessV, dataV
<1>2. online' \in {online, None}
    <2>1. CASE LookOther(s) \/ GivesUp(s)
        <3>1. PICK e \in Entry : KickOther(s, e)
            BY <2>1 DEF TInv, Types, RegTypes, Phases, Holds, LookOther, GivesUp
        <3> QED BY <3>1 DEF KickOther, Reap
    <2>2. CASE HearHandedOn(s) \/ HearLoggedOut(s) \/ HearKick(s) \/ HearLeave(s) \/ DropRest(s)
               \/ Connect(s) \/ Kick(s) \/ SendLogout(s) \/ LookTheirs(s)
        BY <2>2 DEF HearHandedOn, HearLoggedOut, HearKick, HearLeave, DropRest, Connect, Kick,
                    SendLogout, LookTheirs, regV
    <2>3. CASE Disconnect(s) \/ DisconnectScreen(s) \/ ReapLeft(s)
        BY <2>3 DEF Disconnect, DisconnectScreen, ReapLeft, Reap
    <2> QED BY <2>1, <2>2, <2>3
<1>3. /\ \A t \in Sessions : t # s => phase'[t] = phase[t] /\ row'[t] = row[t] /\ goal'[t] = goal[t]
      /\ phase'[s] \in {"loading", "arriving"} =>
            phase'[s] = phase[s] /\ row'[s] = row[s] /\ goal'[s] = goal[s]
    <2>1. CASE HearHandedOn(s) \/ DropRest(s) \/ Kick(s) \/ SendLogout(s)
        BY <2>1 DEF HearHandedOn, DropRest, Kick, SendLogout, sessV
    <2>2. CASE HearLoggedOut(s) \/ HearKick(s) \/ HearLeave(s) \/ Connect(s) \/ Disconnect(s)
        BY <2>2 DEF HearLoggedOut, HearKick, HearLeave, Ends, Connect, Disconnect, TInv, Types, SessTypes
    <2>3. CASE DisconnectScreen(s) \/ ReapLeft(s) \/ LookTheirs(s) \/ LookOther(s) \/ GivesUp(s)
        BY <2>3 DEF LookTheirs, LookOther, GivesUp, KickOther, DisconnectScreen, ReapLeft, TInv, Types, SessTypes
    <2> QED BY <2>1, <2>2, <2>3
<1>4. RowsGo
    BY <1>2, <1>3 DEF RowsGo
<1> QED BY <1>1, <1>4, RowsKept DEF SInv

(* What goes into a queue and out of one, nobody's place.                  *)
LEMMA QuietSent ==
    ASSUME SInv, Rows', UNCHANGED <<players, passing, saved, latest>>, NEW N, NEW E, NEW M,
           Sends({}, N), \A e \in N : e.op # "arrive",
           Tells(E, M), \A w \in E \cup M : w.op # "transfer"
    PROVE  SInv'
BY Quiet

LEMMA ReapSends ==
    ASSUME TInv, NEW e \in Entry, Reap(e)
    PROVE  Sends({}, {[op |-> "reap", e |-> e]})
<1>1. omap[e.sess] \in Handles \cup {None}
    BY EntryIs DEF TInv, Types, RegTypes
<1>2. CASE Open(omap[e.sess])
    <2>1. omap[e.sess] \in Handles
        BY <1>1, <1>2 DEF Open
    <2> QED BY <1>2, <2>1, MailsPut, ReapSent DEF Reap, TInv, Types
<1>3. CASE ~Open(omap[e.sess])
    BY <1>3, MailsSame DEF Reap, Sends
<1> QED BY <1>2, <1>3

LEMMA HeardSaved ==
    ASSUME TInv, SInv, NEW s \in Sessions,
           HearHandedOn(s) \/ HearLoggedOut(s) \/ HearKick(s) \/ HearLeave(s) \/ DropRest(s)
    PROVE  SInv'
<1>1. Rows' /\ UNCHANGED <<players, passing, saved, latest>>
    BY RowsHeard
<1>2. ctl[s] # <<>> /\ Head(ctl[s]).op # "transfer" /\ ctl' = Rest(s)
    BY DEF HearHandedOn, HearLoggedOut, HearKick, HearLeave, DropRest, HearsNext
<1>3. Tells({Head(ctl[s])}, {})
    BY <1>2, SaidRest DEF TInv, Types
<1>4. CASE mq' = mq
    BY <1>1, <1>2, <1>3, <1>4, MailsSame, QuietSent
<1>5. CASE mq' # mq
    <2>1. /\ HearLeave(s) /\ state[s] = "InWorld" /\ Open(handle[s])
          /\ mq' = Put(mq, handle[s], [op |-> "linger", g |-> goal[s], sess |-> s])
        BY <1>5 DEF HearHandedOn, HearLoggedOut, HearKick, HearLeave, DropRest, actorV
    <2>2. handle[s] \in Handles /\ goal[s] \in Chars
        BY <2>1 DEF Open, TInv, Types, SessTypes, Phases, Holds
    <2>3. [op |-> "linger", g |-> goal[s], sess |-> s] \in OwnEvent
        BY <2>2, GoingSent
    <2>4. Sends({}, {[op |-> "linger", g |-> goal[s], sess |-> s]})
        BY <2>1, <2>2, <2>3, MailsPut DEF TInv, Types
    <2> QED BY <1>1, <1>2, <1>3, <2>4, QuietSent
<1> QED BY <1>4, <1>5

LEMMA ToldSaved ==
    ASSUME TInv, SInv, NEW s \in Sessions, Connect(s) \/ Kick(s)
    PROVE  SInv'
<1>1. Rows' /\ UNCHANGED <<players, passing, saved, latest>> /\ mq' = mq
    BY RowsHeard DEF Connect, Kick, actorV
<1>2. CASE ctl' = ctl
    BY <1>1, <1>2, QuietOwn
<1>3. CASE ctl' # ctl
    <2>1. PICK t \in Sessions, o \in {"replaced", "kick"} : ctl' = Tell(ctl, t, [op |-> o])
        BY <1>3 DEF Connect, Kick, TInv, Types, RegTypes
    <2>2. Tells({}, {[op |-> o]})
        BY <2>1, PlainWord, SaidTold DEF TInv, Types
    <2> QED BY <1>1, <2>2, MailsSame, QuietSent
<1> QED BY <1>2, <1>3

LEMMA SentSaved ==
    ASSUME TInv, SInv, NEW s \in Sessions,
           SendLogout(s) \/ LookTheirs(s) \/ Disconnect(s) \/ DisconnectScreen(s) \/ ReapLeft(s)
    PROVE  SInv'
<1>1. Rows' /\ UNCHANGED <<players, passing, saved, latest>> /\ ctl' = ctl
    BY RowsHeard DEF SendLogout, LookTheirs, Disconnect, DisconnectScreen, ReapLeft, sessV
<1>2. CASE mq' = mq
    BY <1>1, <1>2, QuietOwn
<1>3. CASE mq' # mq
    <2>1. CASE SendLogout(s) \/ LookTheirs(s) \/ Disconnect(s)
        <3>1. CASE SendLogout(s) \/ Disconnect(s)
            <4>1. PICK o \in {"logout", "disconnect", "leave"} :
                     /\ handle[s] # None /\ state[s] = "InWorld"
                     /\ mq' = Put(mq, handle[s], [op |-> o, g |-> goal[s], sess |-> s])
                BY <1>3, <3>1 DEF SendLogout, Disconnect, Open, TInv, Types, SessTypes
            <4>2. handle[s] \in Handles /\ goal[s] \in Chars
                BY <4>1 DEF TInv, Types, SessTypes, Phases, Holds
            <4>3. [op |-> o, g |-> goal[s], sess |-> s] \in OwnEvent
                BY <4>2, GoingSent
            <4>4. Sends({}, {[op |-> o, g |-> goal[s], sess |-> s]})
                BY <4>1, <4>2, <4>3, MailsPut DEF TInv, Types
            <4> QED BY <1>1, <4>4, SaidSame, QuietSent
        <3>2. CASE LookTheirs(s)
            <4> DEFINE h == omap[online.sess]
                       e == [op |-> "takeover", old |-> online, new |-> NewEntry(s)]
            <4>1. Open(h) /\ mq' = Put(mq, h, e) /\ online # None /\ online.g = goal[s] /\ phase[s] = "login"
                BY <1>3, <3>2 DEF LookTheirs
            <4>2. online \in Entry /\ online.sess \in Sessions /\ goal[s] \in Chars /\ h \in Handles
                BY <4>1, EntryIs DEF Open, TInv, Types, RegTypes, Phases, Holds
            <4>3. e \in OwnEvent /\ e.op = "takeover"
                BY <4>1, <4>2, NewEntryIs, TakeOverSent DEF TInv, Types
            <4> HIDE DEF e, h
            <4>4. Sends({}, {e})
                BY <4>1, <4>2, <4>3, MailsPut DEF TInv, Types
            <4> QED BY <1>1, <4>3, <4>4, SaidSame, QuietSent
        <3> QED BY <2>1, <3>1, <3>2
    <2>2. CASE DisconnectScreen(s) \/ ReapLeft(s)
        <3>1. \E e \in Entry : Reap(e)
            <4>1. ~DisconnectScreen(s)
                BY <1>3 DEF DisconnectScreen, actorV
            <4>2. existing[s] \in Entry /\ Reap(existing[s])
                BY <2>2, <4>1 DEF ReapLeft, TInv, Phases, Holds
            <4> QED BY <4>2
        <3>2. PICK e \in Entry : Reap(e)
            BY <3>1
        <3>3. Sends({}, {[op |-> "reap", e |-> e]})
            BY <3>2, ReapSends
        <3> QED BY <1>1, <3>3, SaidSame, QuietSent
    <2> QED BY <2>1, <2>2
<1> QED BY <1>2, <1>3

LEMMA KickedSaved ==
    ASSUME TInv, SInv, NEW s \in Sessions, LookOther(s) \/ GivesUp(s)
    PROVE  SInv'
<1>1. Rows' /\ UNCHANGED <<players, passing, saved, latest>>
    BY RowsHeard
<1>2. PICK e \in Entry : KickOther(s, e)
    BY DEF TInv, Types, RegTypes, Phases, Holds, LookOther, GivesUp
<1>3. Tells({}, {[op |-> "kick"]})
    BY <1>2, EntryIs, PlainWord, SaidTold DEF KickOther, TInv, Types
<1>4. CASE Hears(e.sess)
    BY <1>1, <1>2, <1>3, <1>4, MailsSame, QuietSent DEF KickOther
<1>5. CASE ~Hears(e.sess)
    <2>1. Sends({}, {[op |-> "reap", e |-> e]})
        BY <1>2, <1>5, ReapSends DEF KickOther
    <2> QED BY <1>1, <1>3, <2>1, QuietSent
<1> QED BY <1>4, <1>5

(* A login is sent to its map as it read itself.                          *)
LEMMA ArriveSaved ==
    ASSUME TInv, SInv, NEW s \in Sessions, Arrive(s)
    PROVE  SInv'
<1>1. /\ phase[s] = "arriving" /\ phase'[s] = "serving" /\ goal[s] \in Chars /\ omap[s] \in Handles
      /\ \A t \in Sessions : t # s => phase'[t] = phase[t] /\ row'[t] = row[t] /\ goal'[t] = goal[t]
      /\ online' \in {online, None} /\ UNCHANGED <<ctl, players, passing, saved, latest>>
    BY DEF Arrive, Offline, mapsV, dataV, TInv, Types, RegTypes, SessTypes, Phases, Holds
<1>2. Rows'
    <2>1. RowsGo
        BY <1>1 DEF RowsGo
    <2> QED BY <1>1, <2>1, RowsKept DEF SInv
<1>3. CASE mq' = mq
    BY <1>1, <1>2, <1>3, QuietOwn
<1>4. CASE mq' # mq
    <2>1. mq' = Put(mq, omap[s], LoginOf(s))
        BY <1>4 DEF Arrive, LoginOf
    <2>2. LoginOf(s) \in OwnEvent /\ LoginOf(s).op = "arrive" /\ LoginOf(s).p.on = NewEntry(s)
        BY <1>1, LoginSent
    <2>3. LoginOf(s).p.ver = row[s] /\ NewEntry(s).g = goal[s]
        BY DEF LoginOf, NewEntry
    <2>4. row[s] = latest[goal[s]]
        BY <1>1 DEF SInv, Rows
    <2>5. New(LoginOf(s).p)
        BY <2>2, <2>3, <2>4 DEF New
    <2>6. Sends({}, {LoginOf(s)})
        BY <1>1, <2>1, <2>2, MailsPut DEF TInv, Types
    <2> QED BY <1>1, <1>2, <2>5, <2>6, SaidSame, Quiet
<1> QED BY <1>3, <1>4

-----------------------------------------------------------------------------
(* A player on the move: by the one step out of a place and in at another,  *)
(* or, let go there, saved.                                                *)
LEMMA Moved ==
    ASSUME SInv, Rows', latest' = latest, NEW m \in Chars, NEW D, NEW N, NEW E, NEW M,
           Sends(D, N), Tells(E, M), Aboards(m, D, E), Fresh(N, M),
           \A c \in Chars : c # m => saved'[c] = saved[c],
           saved'[m] = latest[m] \/ Aboard(m)'
    PROVE  SInv'
<1>1. AllNew'
    BY AllNewKept DEF SInv
<1>2. Unsaved'
    BY UnsavedKept DEF SInv
<1> QED BY <1>1, <1>2 DEF SInv

LEMMA TransferSaved ==
    ASSUME TInv, SInv, NEW s \in Sessions, HearTransfer(s)
    PROVE  SInv'
<1> DEFINE w == Head(ctl[s])
<1>1. /\ ctl[s] # <<>> /\ w.op = "transfer" /\ ctl' = Rest(s) /\ passing[s] = None
      /\ GetMap(w.to) /\ passing' = [passing EXCEPT ![s] = [p |-> w.p, to |-> Target(w.to)]]
      /\ UNCHANGED <<mq, players, saved, latest, online, phase, row, goal>>
    BY DEF HearTransfer, HearsNext, actorV, regV, dataV
<1>2. Tells({w}, {}) /\ w \in Said /\ w \in OwnWord
    BY <1>1, SaidRest DEF TInv, Types
<1> HIDE DEF w
<1>3. w.p \in OwnPlayer /\ w.to \in Keys /\ w.p.on.g \in Chars /\ New(w.p)
    BY <1>1, <1>2, WordIs, OwnIs DEF SInv, AllNew
<1>4. Target(w.to) \in Handles
    BY <1>1, <1>3, GetTyped DEF Got
<1>5. passing'[s] # None /\ passing'[s].p = w.p /\ \A t \in Sessions : t # s => passing'[t] = passing[t]
    <2>1. [p |-> w.p, to |-> Target(w.to)] \in [p : Player, to : Handles]
        BY <1>3, <1>4 DEF OwnPlayer
    <2>2. passing'[s] = [p |-> w.p, to |-> Target(w.to)]
        BY <1>1 DEF TInv, Types, SessTypes
    <2> QED BY <1>1, <2>1, <2>2, NobodyAssumption DEF TInv, Types, SessTypes
<1>6. Rows'
    <2>1. RowsGo
        BY <1>1 DEF RowsGo
    <2> QED BY <1>1, <2>1, RowsKept DEF SInv
<1>7. Sends({}, {})
    BY <1>1, MailsSame
<1>0. PICK g \in Chars : g = w.p.on.g
    BY <1>3
<1>8. Aboards(g, {}, {w})
    BY <1>0, <1>1, <1>5 DEF Aboards, Here
<1>9. Fresh({}, {})
    BY <1>1, <1>3, <1>5 DEF Fresh, Here
<1>10. Aboard(g)'
    BY <1>0, <1>5 DEF Aboard
<1> QED BY <1>1, <1>2, <1>6, <1>7, <1>8, <1>9, <1>10, Moved

LEMMA PassOnSaved ==
    ASSUME TInv, SInv, NEW s \in Sessions, PassOn(s)
    PROVE  SInv'
<1> DEFINE p == passing[s].p
           h == passing[s].to
           a == Transferred(passing[s].p)
<1>1. p \in OwnPlayer /\ h \in Handles /\ passing[s] # None /\ phase[s] \in {"serving", "ending"}
    BY DEF PassOn, TInv, Types, SessTypes, Passage, Phases, Holds
<1>2. p.on.g \in Chars /\ p.on.sess \in Sessions /\ New(p)
    BY <1>1, OwnIs DEF SInv, AllNew
<1>3. a \in OwnEvent /\ a.op = "arrive" /\ a.kind = "transfer" /\ a.p = p /\ Brings(a)
    BY <1>1, ArriveSent DEF Transferred, Brings
<1>4. Deliver(a, h, mq, ctl)
    BY DEF PassOn
<1>5. /\ UNCHANGED <<players, latest, phase, row>> /\ passing'[s] = None
      /\ \A t \in Sessions : t # s => passing'[t] = passing[t] /\ goal'[t] = goal[t]
    BY DEF PassOn, TInv, Types, SessTypes
<1> HIDE DEF a, p, h
<1>0. PICK g \in Chars : g = p.on.g
    BY <1>2
<1>6. Aboards(g, {}, {})
    BY <1>0, <1>5 DEF Aboards, Here, p
<1>7. CASE LetsGo(h) /\ LetGo(a, ctl) /\ mq' = mq
    <2>1. /\ saved' = [saved EXCEPT ![p.on.g] = p.ver] /\ online' \in {online, None}
          /\ ctl' = Tell(ctl, p.on.sess, [op |-> "kick"])
        BY <1>3, <1>7 DEF LetGo, Offline
    <2>2. saved'[g] = latest[g] /\ \A c \in Chars : c # g => saved'[c] = saved[c]
        BY <1>0, <1>2, <2>1 DEF TInv, Types, DataTypes, New
    <2>3. RowsGo
        BY <1>1, <1>5, <2>1 DEF RowsGo
    <2>4. Rows'
        BY <1>5, <2>3, RowsKept DEF SInv
    <2>5. Sends({}, {}) /\ Tells({}, {[op |-> "kick"]})
        BY <1>2, <1>7, <2>1, MailsSame, PlainWord, SaidTold DEF TInv, Types
    <2>6. Fresh({}, {[op |-> "kick"]})
        BY <1>5 DEF Fresh, Here
    <2> QED BY <1>5, <1>6, <2>2, <2>4, <2>5, <2>6, Moved
<1>8. CASE Got(TakenBy(h)) /\ mq' = Put(mq, TakenBy(h), a) /\ UNCHANGED <<ctl, saved, online>>
    <2>1. Sends({}, {a}) /\ a \in Mails'
        BY <1>3, <1>8, MailsPut DEF Got, TInv, Types
    <2>2. RowsGo
        BY <1>1, <1>5, <1>8 DEF RowsGo
    <2>3. Rows'
        BY <1>5, <2>2, RowsKept DEF SInv
    <2>4. Fresh({a}, {})
        BY <1>2, <1>3, <1>5 DEF Fresh, Here
    <2>5. Aboard(g)'
        BY <1>0, <1>3, <2>1 DEF Aboard, Brings
    <2>6. Tells({}, {})
        BY <1>8, SaidSame
    <2> QED BY <1>5, <1>6, <1>8, <2>1, <2>3, <2>4, <2>5, <2>6, Moved
<1> QED BY <1>1, <1>4, <1>7, <1>8, DeliverIs

LEMMA SessionSaved ==
    ASSUME TInv, WInv, SInv, OneWorks, NEW s \in Sessions, Session(s) \/ Client(s) \/ Kick(s)
    PROVE  SInv'
<1>1. CASE \/ Begin(s) \/ WaitHeard(s) \/ LostMap(s) \/ LoginFails(s) \/ TakenOver(s) \/ LookAgain(s)
           \/ \E k \in Keys : Resume(s, k)
           \/ \E c \in Chars : AskLogin(s, c)
           \/ \E flood \in BOOLEAN : ClientGoes(s, flood)
    BY <1>1, RowsOwn, QuietOwn
<1>2. CASE HearHandedOn(s) \/ HearLoggedOut(s) \/ HearKick(s) \/ HearLeave(s) \/ DropRest(s)
    BY <1>2, HeardSaved
<1>3. CASE Connect(s) \/ Kick(s)
    BY <1>3, ToldSaved
<1>4. CASE SendLogout(s) \/ LookTheirs(s) \/ Disconnect(s) \/ DisconnectScreen(s) \/ ReapLeft(s)
    BY <1>4, SentSaved
<1>5. CASE LookOther(s) \/ GivesUp(s)
    BY <1>5, KickedSaved
<1>6. CASE \E k \in Keys : Enter(s, k)
    BY <1>6, EnterSaved
<1>7. CASE LookNobody(s) \/ Arrive(s) \/ HearTransfer(s) \/ PassOn(s)
    BY <1>7, LookNobodySaved, ArriveSaved, TransferSaved, PassOnSaved
<1> QED BY <1>1, <1>2, <1>3, <1>4, <1>5, <1>6, <1>7 DEF Session, Client

-----------------------------------------------------------------------------
(* A map's steps.  Who is in maps stays, whoever's they become.           *)
Keeps ==
    /\ \A h \in Handles, g \in Chars : Here(h, g) => Here(h, g)'
    /\ \A h \in Handles, g \in Chars : Here(h, g)' =>
          /\ Here(h, g) /\ players'[h][g].ver = players[h][g].ver
          /\ players'[h][g].on.g = players[h][g].on.g

LEMMA QuietMap ==
    ASSUME SInv, Keeps, Rows', UNCHANGED <<passing, saved, latest>>,
           NEW D, NEW N, NEW E, NEW M, Sends(D, N), Tells(E, M),
           \A e \in D : ~Brings(e), \A e \in N : e.op # "arrive",
           \A w \in E \cup M : w.op # "transfer"
    PROVE  SInv'
<1>1. Aboards(None, D, E)
    BY DEF Aboards, Keeps
<1>2. Fresh(N, M)
    BY DEF Fresh, Keeps
<1>3. None \notin Chars
    BY WorldAssumption
<1> QED BY <1>1, <1>2, <1>3, UnsavedKept, AllNewKept DEF SInv

LEMMA SomePlayer == \A p \in OwnPlayer : p # None
BY NobodyAssumption DEF OwnPlayer

LEMMA KeepsSame ==
    ASSUME players' = players
    PROVE  Keeps
BY DEF Keeps, Here

LEMMA KeepsNow ==
    ASSUME NEW h \in Handles, NEW g \in Chars, Here(h, g), NEW q \in OwnPlayer, PlayerNow(h, g, q),
           q.ver = players[h][g].ver, q.on.g = players[h][g].on.g
    PROVE  Keeps
<1>1. q # None
    BY SomePlayer
<1>2. /\ players'[h][g] = q
      /\ \A k \in Handles, c \in Chars : k # h \/ c # g => players'[k][c] = players[k][c]
    BY DEF PlayerNow
<1>3. ASSUME NEW k \in Handles, NEW c \in Chars
      PROVE  /\ Here(k, c) => Here(k, c)'
             /\ Here(k, c)' => /\ Here(k, c) /\ players'[k][c].ver = players[k][c].ver
                               /\ players'[k][c].on.g = players[k][c].on.g
    <2>1. CASE k = h /\ c = g
        BY <1>1, <1>2, <2>1 DEF Here
    <2>2. CASE k # h \/ c # g
        BY <1>2, <2>2 DEF Here
    <2> QED BY <2>1, <2>2
<1> QED BY <1>3 DEF Keeps

LEMMA SameVer ==
    ASSUME NEW p \in OwnPlayer
    PROVE  /\ [p EXCEPT !.linger = TRUE].ver = p.ver
           /\ \A due : [p EXCEPT !.logout = due].ver = p.ver
           /\ \A e : [p EXCEPT !.on = e, !.linger = FALSE, !.logout = None].ver = p.ver
           /\ [p EXCEPT !.ver = @ + 1].ver = p.ver + 1
<1>1. p = [on |-> p.on, ver |-> p.ver, linger |-> p.linger, logout |-> p.logout]
    BY DEF OwnPlayer, Player
<1> QED BY <1>1

(* One in the map goes, saved, or starts to linger, or nobody does.        *)
LEMMA LeftSaved ==
    ASSUME TInv, WInv, SInv, UNCHANGED <<phase, row, goal, passing, latest>>,
           online' \in {online, None},
           \/ Stayed
           \/ \E h \in Handles, g \in Chars : Here(h, g) /\ (Left(h, g) \/ Lingered(h, g)),
           NEW D, NEW M, Sends(D, {}), Tells({}, M), \A e \in D : ~Brings(e), \A w \in M : w.op # "transfer"
    PROVE  SInv'
<1>1. Rows'
    <2>1. RowsGo
        BY DEF RowsGo
    <2> QED BY <2>1, RowsKept DEF SInv
<1>2. CASE Stayed
    BY <1>1, <1>2, KeepsSame, QuietMap DEF Stayed
<1>3. ASSUME NEW h \in Handles, NEW g \in Chars, Here(h, g), Lingered(h, g)
      PROVE  SInv'
    <2>1. /\ players[h][g] \in OwnPlayer /\ [players[h][g] EXCEPT !.linger = TRUE] \in OwnPlayer
          /\ PlayerNow(h, g, [players[h][g] EXCEPT !.linger = TRUE]) /\ UNCHANGED saved
        BY <1>3 DEF Lingered
    <2>2. /\ [players[h][g] EXCEPT !.linger = TRUE].ver = players[h][g].ver
          /\ [players[h][g] EXCEPT !.linger = TRUE].on = players[h][g].on
        BY <2>1, SameVer, ChangedIs
    <2>3. Keeps
        BY <1>3, <2>1, <2>2, KeepsNow
    <2> QED BY <1>1, <2>1, <2>3, QuietMap
<1>4. ASSUME NEW h \in Handles, NEW g \in Chars, Here(h, g), Left(h, g)
      PROVE  SInv'
    <2>1. /\ players[h][g] \in OwnPlayer /\ PlayerNow(h, g, None)
          /\ saved' = [saved EXCEPT ![g] = players[h][g].ver]
        BY <1>4 DEF Left
    <2>3. players[h][g].on.g = g /\ New(players[h][g])
        BY <1>4 DEF WInv, SpotsListed, OnList, SInv, AllNew
    <2>4. saved'[g] = latest[g] /\ \A c \in Chars : c # g => saved'[c] = saved[c]
        BY <2>1, <2>3 DEF New, TInv, Types, DataTypes
    <2>5. Aboards(g, D, {})
        BY <2>1 DEF Aboards, PlayerNow, Here
    <2>6. Fresh({}, M)
        BY <2>1 DEF Fresh, PlayerNow, Here
    <2> QED BY <1>1, <2>4, <2>5, <2>6, Moved
<1> QED BY <1>2, <1>3, <1>4

LEMMA EventTaken ==
    ASSUME TInv, NEW h \in Handles, NEW o, mq[h] # <<>>, Event1(h).op = o, o # "arrive", mq' = Taken(h)
    PROVE  /\ Sends({Event1(h)}, {}) /\ ~Brings(Event1(h))
<1>1. Event1(h) = mq[h][1]
    BY FirstEvent DEF TInv, Types
<1> QED BY <1>1, MailsTaken DEF Brings, TInv, Types

LEMMA GoneSaved ==
    ASSUME TInv, WInv, SInv, NEW h \in Handles,
           \/ HandleGone(h) \/ HandleReap(h) \/ HandleStop(h)
           \/ \E g \in Chars : LogoutDue(h, g) \/ SendToScreen(h, g) \/ LingerEnd(h, g)
    PROVE  SInv'
<1>1. UNCHANGED <<phase, row, goal, passing, latest, ctl>> /\ online' \in {online, None}
    BY DEF HandleGone, HandleReap, HandleStop, LogoutDue, SendToScreen, LingerEnd, Goes, regV, sessV
<1>2. \/ Stayed
      \/ \E k \in Handles, g \in Chars : Here(k, g) /\ (Left(k, g) \/ Lingered(k, g))
    <2>1. CASE HandleGone(h)
        BY <2>1, HandleGoneTyped
    <2>2. CASE HandleReap(h)
        BY <2>2, HandleReapTyped
    <2>3. CASE HandleStop(h)
        BY <2>3, HandleStopTyped
    <2>4. ASSUME NEW g \in Chars, LogoutDue(h, g) \/ SendToScreen(h, g) \/ LingerEnd(h, g)
          PROVE  Here(h, g) /\ Left(h, g)
        BY <2>4, GoesTyped
    <2> QED BY <2>1, <2>2, <2>3, <2>4
<1>3. CASE mq' = mq
    BY <1>1, <1>2, <1>3, MailsSame, SaidSame, LeftSaved
<1>4. CASE mq' # mq
    <2>1. /\ mq[h] # <<>> /\ mq' = Taken(h)
          /\ Event1(h).op \in {"disconnect", "leave", "linger", "reap", "stop", "shutdown"}
        BY <1>4 DEF HandleGone, HandleReap, HandleStop, Takes, Event1, LogoutDue, SendToScreen, LingerEnd, Goes
    <2>2. Sends({Event1(h)}, {}) /\ ~Brings(Event1(h))
        BY <2>1, EventTaken
    <2> QED BY <1>1, <1>2, <2>2, SaidSame, LeftSaved
<1> QED BY <1>3, <1>4

LEMMA HandedSaved ==
    ASSUME TInv, WInv, SInv, NEW h \in Handles, HandleHandedOn(h)
    PROVE  SInv'
<1>1. /\ UNCHANGED <<phase, row, goal, passing, latest, online>>
      /\ mq[h] # <<>> /\ mq' = Taken(h) /\ Event1(h).op = "handedon"
    BY DEF HandleHandedOn, regV, Takes, Event1
<1>2. Sends({Event1(h)}, {}) /\ ~Brings(Event1(h))
    BY <1>1, EventTaken
<1>3. \/ Stayed
      \/ \E g \in Chars : Here(h, g) /\ (Left(h, g) \/ Lingered(h, g))
    BY HandedTyped
<1>4. CASE ctl' = ctl
    BY <1>1, <1>2, <1>3, <1>4, SaidSame, LeftSaved
<1>5. CASE ctl' # ctl
    <2> DEFINE g == Event1(h).g
               s == players[h][g].on.sess
               w == [op |-> "handedon", g |-> g, map |-> h]
    <2>1. g \in Chars
        BY <1>1, FirstEvent DEF TInv, Types
    <2>2. Here(h, g) /\ ctl' = Tell(ctl, s, w)
        BY <1>5 DEF HandleHandedOn
    <2>3. s \in Sessions
        BY <2>1, <2>2, PlayerHere, OwnIs DEF TInv, Types
    <2>4. w \in OwnWord /\ w.op = "handedon"
        BY <2>1, HandedWord
    <2> HIDE DEF w, s
    <2>5. Tells({}, {w})
        BY <2>2, <2>3, <2>4, SaidTold DEF TInv, Types
    <2> QED BY <1>1, <1>2, <1>3, <2>4, <2>5, LeftSaved
<1> QED BY <1>4, <1>5

LEMMA LeaveDoneSaved ==
    ASSUME TInv, SInv, NEW h \in Handles, LeaveDone(h)
    PROVE  SInv'
<1>1. /\ UNCHANGED <<phase, row, goal, passing, latest, saved, players, mq>>
      /\ online' \in {online, None} /\ leaving[h] \in Departure
    BY DEF LeaveDone, Offline, dataV, TInv, Types, ActorTypes
<1>2. Rows'
    <2>1. RowsGo
        BY <1>1 DEF RowsGo
    <2> QED BY <1>1, <2>1, RowsKept DEF SInv
<1>3. CASE ctl' = ctl
    BY <1>1, <1>2, <1>3, QuietOwn
<1>4. CASE ctl' # ctl
    <2>1. ctl' = Tell(ctl, leaving[h].sess, [op |-> "loggedout"]) /\ leaving[h].sess \in Sessions
        BY <1>1, <1>4 DEF LeaveDone, Departure
    <2>2. Tells({}, {[op |-> "loggedout"]})
        BY <2>1, PlainWord, SaidTold DEF TInv, Types
    <2> QED BY <1>1, <1>2, <2>2, MailsSame, QuietSent
<1> QED BY <1>3, <1>4

LEMMA LogoutSaved ==
    ASSUME TInv, SInv, NEW h \in Handles, HandleLogout(h)
    PROVE  SInv'
<1>1. /\ UNCHANGED <<phase, row, goal, passing, latest, saved, ctl, online>>
      /\ mq[h] # <<>> /\ mq' = Taken(h) /\ Event1(h).op = "logout"
    BY DEF HandleLogout, regV, sessV, dataV, Takes, Event1
<1>2. Sends({Event1(h)}, {}) /\ ~Brings(Event1(h))
    BY <1>1, EventTaken
<1>3. Rows'
    <2>1. RowsGo
        BY <1>1 DEF RowsGo
    <2> QED BY <1>1, <2>1, RowsKept DEF SInv
<1>4. Keeps
    <2> DEFINE g == Event1(h).g
    <2>0. g \in Chars
        BY <1>1, FirstEvent DEF TInv, Types
    <2>1. CASE Here(h, g) /\ Theirs(h, Event1(h))
        <3>1. players[h][g] \in OwnPlayer /\ players[h][g].on.sess = Event1(h).sess
            BY <2>0, <2>1, PlayerHere DEF TInv, Types, Theirs
        <3>2. PICK due \in {players[h][g].on.sess, None} : players' = [players EXCEPT ![h][g].logout = due]
            BY <2>1, <3>1 DEF HandleLogout
        <3> DEFINE q == [players[h][g] EXCEPT !.logout = due]
        <3>3. q \in OwnPlayer /\ q.on = players[h][g].on /\ q.ver = players[h][g].ver
            BY <3>1, ChangedIs, SameVer
        <3>4. PlayerNow(h, g, q)
            BY <2>0, <2>1, <3>2, <3>3, PlayerChanged DEF TInv, Types
        <3> HIDE DEF q
        <3> QED BY <2>0, <2>1, <3>3, <3>4, KeepsNow
    <2>2. CASE ~(Here(h, g) /\ Theirs(h, Event1(h)))
        BY <2>2, KeepsSame DEF HandleLogout
    <2> QED BY <2>1, <2>2
<1> QED BY <1>1, <1>2, <1>3, <1>4, SaidSame, QuietMap

LEMMA TakeOverSaved ==
    ASSUME TInv, WInv, SInv, NEW h \in Handles, HandleTakeOver(h)
    PROVE  SInv'
<1>1. /\ UNCHANGED <<phase, row, goal, passing, latest, saved>>
      /\ mq[h] # <<>> /\ mq' = Taken(h) /\ Event1(h).op = "takeover"
    BY DEF HandleTakeOver, dataV, Takes, Event1
<1>2. Sends({Event1(h)}, {}) /\ ~Brings(Event1(h))
    BY <1>1, EventTaken
<1> DEFINE old == Event1(h).old
           new == Event1(h).new
<1>3. old \in Entry /\ new \in Entry /\ old.g = new.g /\ old.g \in Chars /\ old.sess \in Sessions
    BY <1>1, FirstEvent, EntryIs DEF TInv, Types
<1>4. CASE Replaces(h, old)
    <2> DEFINE p == players[h][old.g]
               q == [p EXCEPT !.on = new, !.linger = FALSE, !.logout = None]
    <2>1. Here(h, old.g) /\ p \in OwnPlayer /\ p.on = old /\ online = old
        BY <1>3, <1>4, PlayerHere DEF Replaces, TInv, Types
    <2>2. q \in OwnPlayer /\ q.on = new /\ q.ver = p.ver
        BY <1>3, <2>1, ChangedIs, SameVer
    <2>3. players' = [players EXCEPT ![h][new.g] = [@ EXCEPT !.on = new, !.linger = FALSE, !.logout = None]]
        BY <1>4 DEF HandleTakeOver, HasClient
    <2>4. players' = [players EXCEPT ![h][old.g] = q]
        BY <1>3, <2>3
    <2> HIDE DEF q
    <2>5. PlayerNow(h, old.g, q)
        BY <1>3, <2>2, <2>4, PlayerPut DEF TInv, Types
    <2>6. Keeps
        BY <1>3, <2>1, <2>2, <2>5, KeepsNow
    <2>7. ctl' = Tell(ctl, old.sess, [op |-> "takenover"])
        BY <1>4 DEF HandleTakeOver
    <2>8. Tells({}, {[op |-> "takenover"]})
        BY <1>3, <2>7, PlainWord, SaidTold DEF TInv, Types
    <2>9. Rows'
        <3>1. online # None
            BY <1>3, <2>1 DEF WInv, SpotsListed, OnList
        <3>2. RowsGo
            BY <1>1, <3>1 DEF RowsGo
        <3> QED BY <1>1, <3>2, RowsKept DEF SInv
    <2> QED BY <1>1, <1>2, <2>6, <2>8, <2>9, QuietMap
<1>5. CASE ~Replaces(h, old)
    <2>1. UNCHANGED <<online, players, ctl>>
        BY <1>5 DEF HandleTakeOver
    <2>2. Rows'
        <3>1. RowsGo
            BY <1>1, <2>1 DEF RowsGo
        <3> QED BY <1>1, <3>1, RowsKept DEF SInv
    <2> QED BY <1>1, <1>2, <2>1, <2>2, KeepsSame, SaidSame, QuietMap
<1> QED BY <1>4, <1>5

LEMMA HandleArriveSaved ==
    ASSUME TInv, SInv, NEW h \in Handles, HandleArrive(h)
    PROVE  SInv'
<1>1. /\ UNCHANGED <<phase, row, goal, passing, latest, saved, ctl, online>>
      /\ mq[h] # <<>> /\ mq' = Taken(h) /\ Event1(h) = mq[h][1]
    BY HandleArriveTyped DEF HandleArrive, sessV, dataV, Takes
<1>2. PICK e : e = mq[h][1]
    OBVIOUS
<1>3. e.op = "arrive" /\ e.p \in OwnPlayer /\ PlayerNow(h, e.p.on.g, e.p) /\ e.p.on.g \in Chars
    BY <1>2, HandleArriveTyped, OwnIs
<1>4. Sends({e}, {}) /\ e \in Mails /\ New(e.p)
    <2>1. Sends({e}, {}) /\ e \in Mails
        BY <1>1, <1>2, MailsTaken DEF TInv, Types
    <2> QED BY <1>3, <2>1 DEF SInv, AllNew
<1>5. e.p # None
    BY <1>3, SomePlayer
<1>6. PICK g \in Chars : g = e.p.on.g
    BY <1>3
<1>7. Rows'
    <2>1. RowsGo
        BY <1>1 DEF RowsGo
    <2> QED BY <1>1, <2>1, RowsKept DEF SInv
<1>8. players'[h][g] = e.p /\ \A k \in Handles, c \in Chars : k # h \/ c # g => players'[k][c] = players[k][c]
    BY <1>3, <1>6 DEF PlayerNow
<1>9. Aboards(g, {e}, {})
    BY <1>1, <1>6, <1>8 DEF Aboards, Here
<1>10. Fresh({}, {})
    BY <1>1, <1>4, <1>8 DEF Fresh, Here
<1>11. Aboard(g)'
    BY <1>5, <1>8 DEF Aboard, Here
<1> QED BY <1>1, <1>4, <1>7, <1>9, <1>10, <1>11, SaidSame, Moved

(* One in a map is nowhere else, so what they do makes nobody stale.       *)
LEMMA ProgressSaved ==
    ASSUME TInv, WInv, SInv, NEW h \in Handles, NEW g \in Chars, Progress(h, g)
    PROVE  SInv'
<1>1. Here(h, g) /\ UNCHANGED <<phase, row, goal, passing, saved, mq, ctl, online>>
    BY DEF Progress, regV, sessV
<1>2. players[h][g] \in OwnPlayer /\ players[h][g].ver \in Nat
    BY <1>1, PlayerHere, OwnIs DEF TInv, Types
<1>3. PICK q \in OwnPlayer : q = [players[h][g] EXCEPT !.ver = @ + 1]
    BY <1>2, ChangedIs
<1>4. q.on = players[h][g].on /\ q.ver = players[h][g].ver + 1
    BY <1>2, <1>3, ChangedIs, SameVer
<1>5. PlayerNow(h, g, q)
    BY <1>1, <1>2, <1>3, PlayerChanged DEF Progress, TInv, Types
<1>6. online # None /\ players[h][g].on.g = g
    BY <1>1 DEF WInv, SpotsListed, OnList
<1>7. PICK k, x, y : AllAt(k, x, y)
    BY DEF WInv, OneSpot
<1>8. k = "map" /\ x = h /\ y = g
    BY <1>1, <1>7 DEF AllAt
<1>9. latest'[g] = q.ver /\ \A c \in Chars : c # g => latest'[c] = latest[c]
    BY <1>2, <1>4 DEF Progress, TInv, Types, DataTypes
<1>10. AllNew'
    <2>1. ASSUME NEW m \in Handles, NEW c \in Chars, Here(m, c)'
          PROVE  New(players[m][c])'
        <3>1. CASE m = h /\ c = g
            BY <1>4, <1>5, <1>6, <1>9, <3>1 DEF New, PlayerNow
        <3>2. CASE m # h \/ c # g
            <4>1. Here(m, c)
                BY <1>5, <2>1, <3>2 DEF Here, PlayerNow
            <4> QED BY <1>7, <1>8, <3>2, <4>1 DEF AllAt
        <3> QED BY <3>1, <3>2
    <2>2. ASSUME NEW e \in Mails'
          PROVE  e.op # "arrive"
        <3>1. e \in Mails
            BY <1>1 DEF Mails, InQueues
        <3>2. PICK m \in Handles : \E i \in Box(m) : e = mq[m][i]
            BY <3>1, InQueuesIs DEF Mails, Box
        <3> QED BY <1>7, <1>8, <3>2 DEF AllAt
    <2>3. ASSUME NEW w \in Said'
          PROVE  w.op # "transfer"
        <3>1. w \in Said
            BY <1>1 DEF Said, InQueues
        <3>2. PICK s \in Sessions : \E i \in Words(s) : w = ctl[s][i]
            BY <3>1, InQueuesIs DEF Said, Words
        <3> QED BY <1>7, <1>8, <3>2 DEF AllAt
    <2>4. \A s \in Sessions : passing'[s] = None
        BY <1>1, <1>7, <1>8 DEF AllAt
    <2> QED BY <2>1, <2>2, <2>3, <2>4 DEF AllNew
<1>11. Rows'
    <2>1. \A s \in Sessions : phase[s] \notin {"loading", "arriving"}
        BY <1>6, <1>7, <1>8 DEF AllAt, SInv, Rows
    <2> QED BY <1>1, <2>1 DEF Rows
<1>12. Unsaved'
    <2>1. Aboards(g, {}, {})
        BY <1>1, <1>5 DEF Aboards, PlayerNow, Here
    <2>2. Aboard(g)'
        BY <1>5, SomePlayer DEF Aboard, PlayerNow, Here
    <2>3. Sends({}, {}) /\ Tells({}, {})
        BY <1>1, MailsSame, SaidSame
    <2> QED BY <1>1, <1>9, <2>1, <2>2, <2>3, UnsavedKept DEF SInv
<1> QED BY <1>10, <1>11, <1>12 DEF SInv

LEMMA SaveDueSaved ==
    ASSUME TInv, WInv, SInv, NEW h \in Handles, NEW g \in Chars, SaveDue(h, g)
    PROVE  SInv'
<1>1. /\ Here(h, g) /\ UNCHANGED <<phase, row, goal, passing, latest, mq, ctl, online, players>>
      /\ saved' = [saved EXCEPT ![g] = players[h][g].ver]
    BY DEF SaveDue, actorV, regV, sessV
<1>2. players[h][g].ver = latest[g]
    BY <1>1 DEF WInv, SpotsListed, OnList, SInv, AllNew, New
<1>3. saved'[g] = latest[g] /\ \A c \in Chars : c # g => saved'[c] = saved[c]
    BY <1>1, <1>2 DEF TInv, Types, DataTypes
<1>4. Rows'
    <2>1. RowsGo
        BY <1>1 DEF RowsGo
    <2> QED BY <1>1, <2>1, RowsKept DEF SInv
<1>5. Aboards(g, {}, {}) /\ Fresh({}, {})
    BY <1>1 DEF Aboards, Fresh, Here
<1> QED BY <1>1, <1>3, <1>4, <1>5, MailsSame, SaidSame, Moved

(* Out of the map and on the way to the other, by their session or past it. *)
LEMMA TeleportSaved ==
    ASSUME TInv, WInv, SInv, NEW h \in Handles, NEW g \in Chars, NEW k \in Keys, Teleport(h, g, k)
    PROVE  SInv'
<1>1. UNCHANGED <<phase, row, goal, passing, latest, saved, online>>
    BY DEF Teleport
<1>2. PICK p \in OwnPlayer : p = players[h][g]
    BY TeleportTyped
<1>3. Here(h, g) /\ PlayerNow(h, g, None)
    BY TeleportTyped
<1>4. p.on.g = g /\ New(p) /\ p.on.sess \in Sessions
    BY <1>2, <1>3, OwnIs DEF WInv, SpotsListed, OnList, SInv, AllNew
<1>5. Rows'
    <2>1. RowsGo
        BY <1>1 DEF RowsGo
    <2> QED BY <1>1, <2>1, RowsKept DEF SInv
<1>6. Aboards(g, {}, {})
    BY <1>1, <1>3 DEF Aboards, PlayerNow, Here
<1>7. CASE Hears(p.on.sess)
    <2>1. PICK w : w = [op |-> "transfer", p |-> p, to |-> k]
        OBVIOUS
    <2>2. w \in OwnWord /\ w.op = "transfer" /\ w.p = p
        BY <2>1, TransferSent
    <2>3. ctl' = Tell(ctl, p.on.sess, w) /\ mq' = mq
        BY <1>2, <1>7, <2>1 DEF Teleport
    <2>4. Tells({}, {w}) /\ w \in Said'
        BY <1>4, <1>7, <2>2, <2>3, SaidTold DEF TInv, Types
    <2>5. Fresh({}, {w})
        BY <1>1, <1>3, <1>4, <2>2 DEF Fresh, PlayerNow, Here
    <2>6. Aboard(g)'
        BY <1>4, <2>2, <2>4 DEF Aboard
    <2> QED BY <1>1, <1>5, <1>6, <2>3, <2>4, <2>5, <2>6, MailsSame, Moved
<1>8. CASE ~Hears(p.on.sess)
    <2>1. PICK d : d = [op |-> "disconnect", g |-> g, sess |-> p.on.sess]
        OBVIOUS
    <2>2. PICK e : e = Transferred(p)
        OBVIOUS
    <2>3. d \in OwnEvent /\ d.op = "disconnect" /\ e \in OwnEvent /\ Brings(e) /\ e.p = p
        BY <1>4, <2>1, <2>2, ArriveSent, GoingSent DEF Transferred, Brings
    <2>4. /\ Target(k) \in Handles /\ ctl' = ctl
          /\ mq' = Put(Put(mq, Target(k), e), Target(k), d)
        <3>1. GetMap(k) /\ ctl' = ctl /\ mq' = Put(Put(mq, Target(k), e), Target(k), d)
            BY <1>2, <1>8, <2>1, <2>2 DEF Teleport
        <3> QED BY <3>1, GetTyped DEF Got
    <2>5. Sends({}, {e, d}) /\ e \in Mails'
        BY <2>3, <2>4, MailsTwice DEF TInv, Types
    <2>6. Fresh({e, d}, {})
        BY <1>1, <1>3, <1>4, <2>3 DEF Fresh, PlayerNow, Here
    <2>7. Aboard(g)'
        BY <1>4, <2>3, <2>5 DEF Aboard, Brings
    <2> QED BY <1>1, <1>5, <1>6, <2>4, <2>5, <2>6, <2>7, SaidSame, Moved
<1> QED BY <1>7, <1>8

-----------------------------------------------------------------------------
(* Copies that stop, and the shutdown.                                    *)
LEMMA StillSaved ==
    ASSUME SInv, UNCHANGED <<phase, row, goal, online, players, passing, saved, latest>>,
           NEW D, NEW N, Sends(D, N), ctl' = ctl,
           \A e \in D : ~Brings(e), \A e \in N : e.op = "arrive" => New(e.p)
    PROVE  SInv'
<1>1. RowsGo
    BY DEF RowsGo
<1>2. Rows'
    BY <1>1, RowsKept DEF SInv
<1> QED BY <1>2, SaidSame, Quiet

LEMMA StopSends ==
    ASSUME TInv, NEW k \in Keys, Stop(k)
    PROVE  Sends({}, {[op |-> "stop"]})
<1>1. CASE Runs(k)
    <2>1. cur[k] \in Nat /\ made[k] \in Nat /\ Starts(k) \in Nat /\ cur[k] <= made[k] /\ made[k] <= Starts(k) /\ cur[k] # 0
        BY <1>1, HandleIs DEF TInv, Types, MapTypes, Born, Runs
    <2>2. <<k, cur[k]>> \in Handles
        BY <2>1, HandleIs
    <2> QED BY <1>1, <2>2, MailsPut, StopSent DEF Stop, TInv, Types
<1>2. CASE ~Runs(k)
    BY <1>2, MailsSame DEF Stop, Sends
<1> QED BY <1>1, <1>2

LEMMA StoppedSaved ==
    ASSUME TInv, SInv,
           \/ \E h \in Handles : Unload(h) \/ HandGet(h) \/ LetGone(h)
           \/ \E k \in Copies : Reset(k) \/ ResetStops(k)
    PROVE  SInv'
<1>1. UNCHANGED <<phase, row, goal, online, players, passing, saved, latest, ctl>>
    BY DEF Unload, HandGet, LetGone, Reset, ResetStops, regV, sessV, dataV, actorV
<1>2. mq' = mq \/ \E k \in Keys : Stop(k)
    BY HandleIs DEF Unload, HandGet, LetGone, Reset, ResetStops, actorV, Keys
<1>3. CASE mq' = mq
    BY <1>1, <1>3, MailsSame, StillSaved
<1>4. ASSUME NEW k \in Keys, Stop(k)
      PROVE  SInv'
    BY <1>1, <1>4, StopSends, StillSaved
<1> QED BY <1>2, <1>3, <1>4

LEMMA FinishSaved ==
    ASSUME TInv, SInv, NEW h \in Handles, Finish(h)
    PROVE  SInv'
<1>1. UNCHANGED <<phase, row, goal, online, players, passing, saved, latest, ctl>>
    BY DEF Finish, regV, dataV
<1>2. CASE mq' = mq
    BY <1>1, <1>2, MailsSame, StillSaved
<1>3. CASE mq' # mq
    <2>1. mq' = [mq EXCEPT ![h] = <<>>] /\ \A i \in Box(h) : mq[h][i].op # "arrive"
        <3> DEFINE coming == \E i \in 1..Len(mq[h]) : mq[h][i].op = "arrive"
        <3>1. mq' = mq \/ mq' = [mq EXCEPT ![h] = IF coming THEN @ ELSE <<>>]
            BY DEF Finish
        <3>2. [mq EXCEPT ![h] = mq[h]] = mq
            BY DEF TInv, Types, ActorTypes
        <3>3. ~coming
            BY <1>3, <3>1, <3>2
        <3> QED BY <1>3, <3>1, <3>3 DEF Box
    <2>2. mq'[h] = <<>> /\ \A k \in Handles : k # h => mq'[k] = mq[k]
        BY <2>1 DEF TInv, Types, ActorTypes
    <2> DEFINE D == {e \in Mails : ~Brings(e)}
    <2>3. PICK r : r = mq'
        OBVIOUS
    <2>4. ASSUME NEW e \in Mails
          PROVE  e \in InQueues(r, Handles) \/ ~Brings(e)
        <3>1. PICK k \in Handles : \E i \in 1..Len(mq[k]) : e = mq[k][i]
            BY <2>4, InQueuesIs DEF Mails
        <3>2. CASE k = h
            BY <2>1, <3>1, <3>2 DEF Box, Brings
        <3>3. CASE k # h
            <4>1. r[k] = mq[k]
                BY <2>2, <2>3, <3>3
            <4> QED BY <3>1, <4>1, InQueuesIs
        <3> QED BY <3>2, <3>3
    <2>5. ASSUME NEW e \in InQueues(r, Handles)
          PROVE  e \in Mails
        <3>1. PICK k \in Handles : \E i \in 1..Len(r[k]) : e = r[k][i]
            BY <2>5, InQueuesIs
        <3>2. k # h
            BY <2>2, <2>3, <3>1
        <3>3. r[k] = mq[k]
            BY <2>2, <2>3, <3>2
        <3> QED BY <3>1, <3>3, InQueuesIs DEF Mails
    <2>6. InQueues(r, Handles) = Mails'
        BY <2>3 DEF Mails
    <2>7. Sends(D, {})
        BY <2>4, <2>5, <2>6 DEF Sends
    <2> QED BY <1>1, <2>7, StillSaved
<1> QED BY <1>2, <1>3

LEMMA ShutdownSaved ==
    ASSUME TInv, SInv, Shutdown
    PROVE  SInv'
<1>1. UNCHANGED <<phase, row, goal, online, players, passing, saved, latest, ctl>>
    BY DEF Shutdown, regV, sessV, dataV
<1>2. PICK e : e = [op |-> "shutdown"]
    OBVIOUS
<1>3. e \in OwnEvent /\ e.op = "shutdown"
    BY <1>2, StopSent
<1>4. PICK r : r = mq'
    OBVIOUS
<1>5. ASSUME NEW h \in Handles
      PROVE  /\ \A i \in 1..Len(mq[h]) : i \in 1..Len(r[h]) /\ r[h][i] = mq[h][i]
             /\ \A i \in 1..Len(r[h]) : r[h][i] = e \/ (i \in 1..Len(mq[h]) /\ r[h][i] = mq[h][i])
    <2>1. r[h] = mq[h] \/ r[h] = Append(mq[h], e)
        BY <1>2, <1>4 DEF Shutdown
    <2>2. mq[h] \in Seq(OwnEvent)
        BY DEF TInv, Types, ActorTypes
    <2>3. CASE r[h] = mq[h]
        BY <2>3
    <2>4. CASE r[h] = Append(mq[h], e)
        BY <1>3, <2>2, <2>4, AppendProperties, LenProperties
    <2> QED BY <2>1, <2>3, <2>4
<1>6. ASSUME NEW a \in Mails
      PROVE  a \in InQueues(r, Handles)
    <2>1. PICK h \in Handles : \E i \in 1..Len(mq[h]) : a = mq[h][i]
        BY <1>6, InQueuesIs DEF Mails
    <2>2. \E i \in 1..Len(r[h]) : a = r[h][i]
        BY <1>5, <2>1
    <2> QED BY <2>2, InQueuesIs
<1>7. ASSUME NEW a \in InQueues(r, Handles)
      PROVE  a \in Mails \cup {e}
    <2>1. PICK h \in Handles : \E i \in 1..Len(r[h]) : a = r[h][i]
        BY <1>7, InQueuesIs
    <2>2. a = e \/ \E i \in 1..Len(mq[h]) : a = mq[h][i]
        BY <1>5, <2>1
    <2> QED BY <2>2, InQueuesIs DEF Mails
<1>8. InQueues(r, Handles) = Mails'
    BY <1>4 DEF Mails
<1>9. Sends({}, {e})
    BY <1>6, <1>7, <1>8 DEF Sends
<1> QED BY <1>1, <1>3, <1>9, StillSaved

LEMMA HandedOnSaved ==
    ASSUME TInv, SInv, NEW h \in Handles, HandedOn(h)
    PROVE  SInv'
<1>1. UNCHANGED <<phase, row, goal, online, players, passing, saved, latest, ctl>>
    BY DEF HandedOn, regV, sessV, dataV
<1>2. CASE mq' = mq
    BY <1>1, <1>2, MailsSame, StillSaved
<1>3. CASE mq' # mq
    <2>1. PICK g \in handed[h] : mq' = Put(mq, next[h], [op |-> "handedon", g |-> g])
        BY <1>3 DEF HandedOn
    <2>2. g \in Chars /\ next[h] \in Handles
        BY DEF HandedOn, TInv, Types, ActorTypes
    <2>3. Sends({}, {[op |-> "handedon", g |-> g]})
        BY <2>1, <2>2, HandedOnSent, MailsPut DEF TInv, Types
    <2> QED BY <1>1, <2>3, StillSaved
<1> QED BY <1>2, <1>3

(* One let go is saved, or, logging in, was.                               *)
LEMMA LetGoSaved ==
    ASSUME TInv, SInv, NEW e \in Mails, e \in OwnEvent, e.op = "arrive", LetGo(e, ctl), Sends({e}, {}),
           UNCHANGED <<phase, row, goal, players, passing, latest>>
    PROVE  SInv'
<1>1. e.p \in OwnPlayer /\ e.p.on.g \in Chars /\ e.p.on.sess \in Sessions /\ New(e.p)
    BY EventIs, OwnIs DEF SInv, AllNew
<1>2. online' \in {online, None} /\ ctl' = Tell(ctl, e.p.on.sess, [op |-> "kick"])
    BY DEF LetGo, Offline
<1>3. Tells({}, {[op |-> "kick"]})
    BY <1>1, <1>2, PlainWord, SaidTold DEF TInv, Types
<1>4. RowsGo
    BY <1>2 DEF RowsGo
<1>5. Rows'
    BY <1>4, RowsKept DEF SInv
<1>6. CASE e.kind = "transfer"
    <2>1. PICK g \in Chars : g = e.p.on.g
        BY <1>1
    <2>2. saved'[g] = latest[g] /\ \A c \in Chars : c # g => saved'[c] = saved[c]
        BY <1>1, <1>6, <2>1 DEF LetGo, New, TInv, Types, DataTypes
    <2>3. Aboards(g, {e}, {})
        BY <2>1 DEF Aboards, Here
    <2>4. Fresh({}, {[op |-> "kick"]})
        BY DEF Fresh, Here
    <2> QED BY <1>3, <1>5, <2>2, <2>3, <2>4, Moved
<1>7. CASE e.kind # "transfer"
    <2>1. saved' = saved /\ ~Brings(e)
        BY <1>7 DEF LetGo, Brings
    <2> QED BY <1>3, <1>5, <2>1, Quiet
<1> QED BY <1>6, <1>7

LEMMA LetGoEachSaved ==
    ASSUME TInv, SInv, NEW h \in Handles, LetGoEach(h)
    PROVE  SInv'
<1>1. UNCHANGED <<phase, row, goal, players, passing, latest>> /\ mq[h] # <<>> /\ mq' = Taken(h)
    BY DEF LetGoEach
<1>2. PICK e \in OwnEvent : e = mq[h][1] /\ e = Event1(h)
    BY <1>1, HeadIs DEF TInv, Types
<1>3. Sends({e}, {}) /\ e \in Mails
    BY <1>1, <1>2, MailsTaken DEF TInv, Types
<1>4. CASE e.op = "arrive"
    <2>1. LetGo(e, ctl)
        BY <1>2, <1>4 DEF LetGoEach
    <2> QED BY <1>1, <1>3, <1>4, <2>1, LetGoSaved
<1>5. CASE e.op # "arrive"
    <2>1. UNCHANGED <<saved, online, ctl>>
        BY <1>2, <1>5 DEF LetGoEach
    <2> QED BY <1>1, <1>3, <1>5, <2>1, StillSaved DEF Brings
<1> QED BY <1>4, <1>5

LEMMA HandOnSaved ==
    ASSUME TInv, SInv, NEW h \in Handles, HandOn(h)
    PROVE  SInv'
<1>1. UNCHANGED <<phase, row, goal, players, passing, latest>> /\ mq[h] # <<>>
    BY DEF HandOn
<1>2. PICK e \in OwnEvent : e = mq[h][1] /\ e = Event1(h)
    BY <1>1, HeadIs DEF TInv, Types
<1>3. e \in Mails /\ (mq' = Taken(h) => Sends({e}, {}))
    BY <1>1, <1>2, InQueuesIs, HeadIs, MailsTaken DEF TInv, Types, Mails, Box
<1>4. CASE mq' = Taken(h) /\ e.op = "arrive" /\ LetGo(e, ctl)
    BY <1>1, <1>3, <1>4, LetGoSaved
<1>5. CASE mq' = Taken(h) /\ e.op # "arrive" /\ UNCHANGED <<saved, online, ctl>>
    BY <1>1, <1>3, <1>5, StillSaved DEF Brings
<1>6. ASSUME NEW t \in Handles, mq' = Put(Taken(h), t, e), UNCHANGED <<saved, online, ctl>>
      PROVE  SInv'
    <2>1. Sends({e}, {e}) /\ e \in Mails'
        BY <1>1, <1>2, <1>6, MailsOn DEF TInv, Types
    <2>2. e.op = "arrive" => New(e.p)
        BY <1>3 DEF SInv, AllNew
    <2>3. CASE Brings(e)
        <3>1. PICK g \in Chars : g = e.p.on.g
            BY <2>3, EventIs, OwnIs DEF Brings
        <3>2. Aboards(g, {e}, {})
            BY <1>1, <3>1 DEF Aboards, Here
        <3>3. Fresh({e}, {})
            BY <1>1, <2>2 DEF Fresh, Here
        <3>4. Aboard(g)'
            BY <2>1, <2>3, <3>1 DEF Aboard, Brings
        <3>5. RowsGo
            BY <1>1, <1>6 DEF RowsGo
        <3>6. Rows'
            BY <1>1, <3>5, RowsKept DEF SInv
        <3> QED BY <1>1, <1>6, <2>1, <3>2, <3>3, <3>4, <3>6, SaidSame, Moved
    <2>4. CASE ~Brings(e)
        BY <1>1, <1>6, <2>1, <2>2, <2>4, StillSaved
    <2> QED BY <2>3, <2>4
<1>7. \/ mq' = Taken(h) /\ e.op = "arrive" /\ LetGo(e, ctl)
      \/ mq' = Taken(h) /\ e.op # "arrive" /\ UNCHANGED <<saved, online, ctl>>
      \/ \E t \in Handles : mq' = Put(Taken(h), t, e) /\ UNCHANGED <<saved, online, ctl>>
    <2>1. next[h] \in Handles
        BY DEF HandOn, TInv, Types, ActorTypes
    <2>2. CASE e.op = "arrive"
        <3>1. Deliver(e, next[h], Taken(h), ctl)
            BY <1>2, <2>2 DEF HandOn
        <3> QED BY <2>1, <2>2, <3>1, DeliverIs DEF Got
    <2>3. CASE e.op # "arrive"
        BY <1>2, <2>1, <2>3 DEF HandOn
    <2> QED BY <2>2, <2>3
<1> QED BY <1>4, <1>5, <1>6, <1>7

-----------------------------------------------------------------------------
LEMMA MapSaved ==
    ASSUME TInv, WInv, SInv, NEW h \in Handles, Map(h) \/ Doings(h)
    PROVE  SInv'
<1>1. CASE LeaveDone(h) \/ HandleArrive(h) \/ HandleLogout(h) \/ HandleTakeOver(h) \/ HandleHandedOn(h)
    BY <1>1, LeaveDoneSaved, HandleArriveSaved, LogoutSaved, TakeOverSaved, HandedSaved
<1>2. CASE \/ HandleGone(h) \/ HandleReap(h) \/ HandleStop(h)
           \/ \E g \in Chars : LogoutDue(h, g) \/ SendToScreen(h, g) \/ LingerEnd(h, g)
    BY <1>2, GoneSaved
<1>3. CASE Finish(h) \/ HandOn(h) \/ HandedOn(h) \/ LetGoEach(h)
    BY <1>3, FinishSaved, HandOnSaved, HandedOnSaved, LetGoEachSaved
<1>4. CASE Unload(h) \/ HandGet(h) \/ LetGone(h)
    BY <1>4, StoppedSaved
<1>5. ASSUME NEW g \in Chars, Progress(h, g) \/ SaveDue(h, g) \/ \E k \in Keys : Teleport(h, g, k)
      PROVE  SInv'
    BY <1>5, ProgressSaved, SaveDueSaved, TeleportSaved
<1> QED BY <1>1, <1>2, <1>3, <1>4, <1>5 DEF Map, Doings

LEMMA SInvInit == Init => SInv
<1> SUFFICES ASSUME Init
             PROVE  SInv
    OBVIOUS
<1>1. /\ \A h \in Handles, g \in Chars : ~Here(h, g)
      /\ \A s \in Sessions : passing[s] = None /\ phase[s] = "new"
      /\ \A c \in Chars : saved[c] = latest[c]
    BY DEF Init, Here
<1>2. Mails = {} /\ Said = {}
    BY DEF Init, Mails, Said, InQueues
<1> QED BY <1>1, <1>2 DEF SInv, AllNew, Unsaved, Rows

LEMMA SInvNext == TInv /\ WInv /\ SInv /\ OneWorks /\ [Next]_vars => SInv'
<1> SUFFICES ASSUME TInv, WInv, SInv, OneWorks, [Next]_vars
             PROVE  SInv'
    OBVIOUS
<1>1. ASSUME NEW s \in Sessions, Session(s) \/ Client(s) \/ Kick(s)
      PROVE  SInv'
    BY <1>1, SessionSaved
<1>2. ASSUME NEW h \in Handles, Map(h) \/ Doings(h)
      PROVE  SInv'
    BY <1>2, MapSaved
<1>3. CASE Realm
    BY <1>3, ShutdownSaved, StoppedSaved DEF Realm
<1>4. CASE UNCHANGED vars
    <2>1. UNCHANGED <<phase, row, goal, online, players, passing, saved, latest, ctl, mq>>
        BY <1>4 DEF vars, actorV, regV, sessV, dataV
    <2> QED BY <2>1, MailsSame, StillSaved
<1> QED BY <1>1, <1>2, <1>3, <1>4 DEF Next

(* A player in the world, wherever they are, is one of those AllNew is of.  *)
LEMMA NewIsNotStale == TInv /\ AllNew => NobodyStale
<1> SUFFICES ASSUME TInv, AllNew, NEW p \in ThePlayers
             PROVE  New(p)
    BY DEF NobodyStale, New
<1>1. ASSUME NEW o \in InMap, p = players[o[1]][o[2]]
      PROVE  New(p)
    BY <1>1 DEF InMap, AllNew
<1>2. ASSUME NEW o \in InMail, p = mq[o[1]][o[2]].p
      PROVE  New(p)
    <2>1. PICK h \in Handles : o \in {h} \X DOMAIN mq[h]
        BY <1>2 DEF InMail
    <2>2. mq[h] \in Seq(OwnEvent)
        BY DEF TInv, Types, ActorTypes
    <2>3. o = <<h, o[2]>> /\ o[2] \in 1..Len(mq[h]) /\ mq[h][o[2]].op = "arrive"
        BY <1>2, <2>1, <2>2, LenProperties DEF InMail
    <2>4. mq[h][o[2]] \in Mails
        BY <2>3, InQueuesIs DEF Mails
    <2> QED BY <1>2, <2>3, <2>4 DEF AllNew
<1>3. ASSUME NEW o \in InWords, p = ctl[o[1]][o[2]].p
      PROVE  New(p)
    <2>1. PICK s \in Sessions : o \in {s} \X DOMAIN ctl[s]
        BY <1>3 DEF InWords
    <2>2. ctl[s] \in Seq(OwnWord)
        BY DEF TInv, Types, SessTypes
    <2>3. o = <<s, o[2]>> /\ o[2] \in 1..Len(ctl[s]) /\ ctl[s][o[2]].op = "transfer"
        BY <1>3, <2>1, <2>2, LenProperties DEF InWords
    <2>4. ctl[s][o[2]] \in Said
        BY <2>3, InQueuesIs DEF Said
    <2> QED BY <1>3, <2>3, <2>4 DEF AllNew
<1>4. ASSUME NEW s \in InPass, p = passing[s].p
      PROVE  New(p)
    BY <1>4 DEF InPass, AllNew
<1> QED BY <1>1, <1>2, <1>3, <1>4 DEF ThePlayers

LEMMA UnsavedIsOnline == SpotsListed /\ Unsaved => OfflineIsSaved
BY NobodyAboard DEF Unsaved, OfflineIsSaved

-----------------------------------------------------------------------------
(* One session at work.  But for a connection's beginning, and one that     *)
(* ends as it waits, a session that works or worked goes on or ends, and    *)
(* the account is released only by one that has ended.                     *)
Worked(s) == phase[s] \notin {"new", "waiting"}
Steady ==
    /\ \A t \in Sessions :
          /\ \/ phase'[t] = phase[t]
             \/ Worked(t) /\ Worked(t)' /\ (Hears(t)' => Hears(t))
          /\ phase'[t] = "waiting" => waits'[t] = waits[t]
    /\ \/ current' = current
       \/ current' = None /\ current \in Sessions /\ Worked(current) /\ ~Hears(current)
EndsWaiting(s) ==
    /\ phase[s] = "waiting" /\ phase'[s] = "ending" /\ current' = current
    /\ "turn" \notin races' => ~Hears(waits[s])
    /\ \A t \in Sessions : t # s => phase'[t] = phase[t] /\ waits'[t] = waits[t]

LEMMA SessionTurn ==
    ASSUME TInv, NEW s \in Sessions, Session(s) \/ Client(s) \/ Kick(s)
    PROVE  Steady \/ Connect(s) \/ Begin(s) \/ EndsWaiting(s)
<1>1. CASE WaitHeard(s) \/ \E flood \in BOOLEAN : ClientGoes(s, flood)
    <2>1. /\ phase' = [phase EXCEPT ![s] = "ending"] /\ current' = current
          /\ waits' = [waits EXCEPT ![s] = None] /\ phase[s] \in {"waiting", "serving"}
        BY <1>1 DEF WaitHeard, ClientGoes, Ends, regV
    <2>2. phase[s] = "waiting" /\ Hears(waits[s]) => "turn" \in races'
        BY <1>1 DEF WaitHeard, ClientGoes, QuitsTurn, Lost
    <2>3. CASE phase[s] = "waiting"
        <3>1. EndsWaiting(s)
            BY <2>1, <2>2, <2>3 DEF EndsWaiting, TInv, Types, SessTypes
        <3> QED BY <3>1
    <2>4. CASE phase[s] = "serving"
        <3>1. Steady
            BY <2>1, <2>4 DEF Steady, Worked, Hears, TInv, Types, SessTypes
        <3> QED BY <3>1
    <2> QED BY <2>1, <2>3, <2>4
<1>2. CASE \/ LookNobody(s) \/ LookTheirs(s) \/ LookOther(s) \/ LoginFails(s) \/ TakenOver(s) \/ LookAgain(s)
           \/ GivesUp(s) \/ Arrive(s) \/ (\E k \in Keys : Enter(s, k)) \/ (\E c \in Chars : AskLogin(s, c))
    <2>1. /\ \A t \in Sessions : t # s => phase'[t] = phase[t]
          /\ UNCHANGED <<current, waits>>
        BY <1>2 DEF LookNobody, LookTheirs, LookOther, LoginFails, TakenOver, LookAgain, GivesUp, KickOther,
                    Arrive, Enter, AskLogin, regV, TInv, Types, SessTypes
    <2>2. phase[s] \in {"serving", "login", "loading", "arriving", "asking"}
        BY <1>2 DEF LookNobody, LookTheirs, LookOther, LoginFails, TakenOver, LookAgain, GivesUp,
                    Arrive, Enter, AskLogin
    <2>3. phase'[s] \in {"serving", "login", "loading", "arriving", "asking"}
        BY <1>2 DEF LookNobody, LookTheirs, LookOther, LoginFails, TakenOver, LookAgain, GivesUp, KickOther,
                    Arrive, Enter, AskLogin, TInv, Types, SessTypes
    <2> QED BY <2>1, <2>2, <2>3 DEF Steady, Worked, Hears
<1>3. CASE LostMap(s) \/ HearKick(s) \/ HearLeave(s)
    <2>1. /\ phase' = [phase EXCEPT ![s] = "ending"] /\ phase[s] = "serving" /\ UNCHANGED <<current, waits>>
        BY <1>3 DEF LostMap, HearKick, HearLeave, Ends, regV
    <2> QED BY <2>1 DEF Steady, Worked, Hears, TInv, Types, SessTypes
<1>4. CASE \/ HearTransfer(s) \/ PassOn(s) \/ HearHandedOn(s) \/ HearLoggedOut(s) \/ DropRest(s)
           \/ SendLogout(s) \/ Kick(s) \/ \E k \in Keys : Resume(s, k)
    <2>1. UNCHANGED <<phase, current, waits>>
        BY <1>4 DEF HearTransfer, PassOn, HearHandedOn, HearLoggedOut, DropRest, SendLogout, Kick, Resume, regV, sessV
    <2> QED BY <2>1 DEF Steady
<1>5. CASE Disconnect(s) \/ DisconnectScreen(s) \/ ReapLeft(s)
    <2>1. /\ phase[s] \in {"ending", "releasing"} /\ phase'[s] \in {"releasing", "gone"} /\ waits' = waits
          /\ \A t \in Sessions : t # s => phase'[t] = phase[t]
        BY <1>5 DEF Disconnect, DisconnectScreen, ReapLeft, TInv, Types, SessTypes
    <2>2. current' = current \/ (current' = None /\ current = s)
        BY <1>5 DEF Disconnect, DisconnectScreen, ReapLeft, Released
    <2> QED BY <2>1, <2>2 DEF Steady, Worked, Hears
<1> QED BY <1>1, <1>2, <1>3, <1>4, <1>5 DEF Session, Client

LEMMA Turn ==
    ASSUME TInv, [Next]_vars
    PROVE  Steady \/ \E s \in Sessions : Connect(s) \/ Begin(s) \/ EndsWaiting(s)
<1>1. ASSUME NEW h \in Handles, Map(h) \/ Doings(h)
      PROVE  UNCHANGED <<phase, current, waits>>
    <2>1. CASE \/ LeaveDone(h) \/ HandleArrive(h) \/ HandleLogout(h) \/ HandleGone(h)
               \/ HandleReap(h) \/ HandleTakeOver(h) \/ HandleHandedOn(h) \/ HandleStop(h)
        BY <2>1 DEF LeaveDone, HandleArrive, HandleLogout, HandleGone, HandleReap, HandleTakeOver,
                    HandleHandedOn, HandleStop, regV, sessV
    <2>2. CASE \/ Finish(h) \/ HandGet(h) \/ HandOn(h) \/ HandedOn(h) \/ LetGoEach(h) \/ LetGone(h) \/ Unload(h)
        BY <2>2 DEF Finish, HandGet, HandOn, HandedOn, LetGoEach, LetGone, Unload, regV, sessV
    <2>3. ASSUME NEW g \in Chars,
                 \/ LogoutDue(h, g) \/ LingerEnd(h, g) \/ Progress(h, g) \/ SaveDue(h, g) \/ SendToScreen(h, g)
                 \/ \E k \in Keys : Teleport(h, g, k)
          PROVE  UNCHANGED <<phase, current, waits>>
        BY <2>3 DEF LogoutDue, LingerEnd, SendToScreen, Goes, Progress, SaveDue, Teleport, regV, sessV
    <2> QED BY <1>1, <2>1, <2>2, <2>3 DEF Map, Doings
<1>2. CASE Realm \/ UNCHANGED vars
    <2>1. UNCHANGED <<phase, current, waits>>
        BY <1>2 DEF Realm, Shutdown, Reset, ResetStops, vars, regV, sessV
    <2> QED BY <2>1 DEF Steady
<1>3. ASSUME NEW h \in Handles, Map(h) \/ Doings(h)
      PROVE  Steady
    BY <1>1, <1>3 DEF Steady
<1> QED BY <1>2, <1>3, SessionTurn DEF Next

(* As they connect, each behind all before it: who waits is behind the one  *)
(* it waits for with no other that hears between them, who works or worked  *)
(* is before all that hear, and the account is the last one's.             *)
Hearing(s) == Hears(s) /\ phase[s] # "new"
InTurn(r) ==
    /\ \A t \in Sessions : phase[t] = "waiting" =>
          /\ waits[t] \in Sessions /\ phase[waits[t]] # "new"
          /\ \A u \in Sessions : Hearing(u) /\ r[u] < r[t] => r[u] <= r[waits[t]]
    /\ \A u, v \in Sessions : Hearing(u) /\ phase[v] # "new" /\ u # v => r[u] # r[v]
    /\ \A v, u \in Sessions : Worked(v) /\ Hearing(u) => r[v] <= r[u]
    /\ current = None => \A u \in Sessions : ~Hearing(u)
    /\ current # None => /\ phase[current] # "new"
                         /\ \A u \in Sessions : phase[u] # "new" => r[u] <= r[current]
Turns == \E r \in [Sessions -> Nat] : InTurn(r)

LEMMA TurnsWork == Turns => OneWorks
<1> SUFFICES ASSUME NEW r \in [Sessions -> Nat], InTurn(r), NEW s \in Sessions, NEW t \in Sessions,
                    Works(s), Works(t)
             PROVE  s = t
    BY DEF Turns, OneWorks
<1>1. /\ Worked(s) /\ Worked(t) /\ Hearing(s) /\ Hearing(t)
    BY DEF Works, Worked, Hearing, Hears
<1>2. r[s] <= r[t] /\ r[t] <= r[s] /\ r[s] \in Nat /\ r[t] \in Nat
    BY <1>1 DEF InTurn
<1>3. r[s] = r[t]
    BY <1>2
<1> QED BY <1>1, <1>3 DEF InTurn, Worked

LEMMA TurnsInit == Init => Turns
<1> SUFFICES ASSUME Init
             PROVE  Turns
    OBVIOUS
<1> DEFINE r == [s \in Sessions |-> 0]
<1>1. r \in [Sessions -> Nat]
    OBVIOUS
<1>2. current = None /\ \A s \in Sessions : phase[s] = "new"
    BY DEF Init
<1>3. InTurn(r)
    BY <1>2 DEF InTurn, Hearing, Worked
<1> QED BY <1>1, <1>3 DEF Turns

LEMMA ConnectTurn ==
    ASSUME TInv, Turns, NEW s \in Sessions, Connect(s)
    PROVE  Turns'
<1>1. PICK r \in [Sessions -> Nat] : InTurn(r)
    BY DEF Turns
<1>2. /\ phase[s] = "new" /\ current' = s
      /\ \A t \in Sessions : t # s => phase'[t] = phase[t] /\ waits'[t] = waits[t]
      /\ phase'[s] = IF current = None THEN "serving" ELSE "waiting"
      /\ waits'[s] = current
    BY DEF Connect, TInv, Types, SessTypes
<1>3. s # None
    BY WorldAssumption
<1>4. \A t \in Sessions : t # s => /\ Hearing(t)' <=> Hearing(t)
                                   /\ Worked(t)' <=> Worked(t)
    BY <1>2 DEF Hearing, Hears, Worked
<1>5. CASE current = None
    <2> DEFINE q == [t \in Sessions |-> IF t = s THEN 1 ELSE 0]
    <2>1. q \in [Sessions -> Nat] /\ q[s] = 1 /\ \A t \in Sessions : t # s => q[t] = 0
        OBVIOUS
    <2> HIDE DEF q
    <2>2. \A t \in Sessions : t # s => ~Hearing(t)'
        BY <1>1, <1>4, <1>5 DEF InTurn
    <2>3. phase'[s] = "serving"
        BY <1>2, <1>5
    <2>4. \A t \in Sessions : phase'[t] # "waiting"
        BY <2>2, <2>3 DEF Hearing, Hears
    <2>5. \A t \in Sessions : q[t] \in {0, 1}
        BY <2>1
    <2>6. \A u, v \in Sessions : Hearing(u)' /\ phase'[v] # "new" /\ u # v => q[u] # q[v]
        BY <2>1, <2>2
    <2>7. \A v, u \in Sessions : Worked(v)' /\ Hearing(u)' => q[v] <= q[u]
        BY <2>1, <2>2, <2>5
    <2>8. \A u \in Sessions : q[u] <= q[s]
        BY <2>1, <2>5
    <2>9. PICK p \in [Sessions -> Nat] : p = q
        BY <2>1
    <2>10. InTurn(p)'
        BY <1>2, <1>3, <2>3, <2>4, <2>6, <2>7, <2>8, <2>9 DEF InTurn
    <2> QED BY <2>10 DEF Turns
<1>6. CASE current # None
    <2> DEFINE c == current
    <2>1. c \in Sessions /\ phase[c] # "new" /\ c # s /\ \A u \in Sessions : phase[u] # "new" => r[u] <= r[c]
        BY <1>1, <1>2, <1>6 DEF InTurn, TInv, Types, RegTypes
    <2> DEFINE q == [r EXCEPT ![s] = r[c] + 1]
    <2>2. /\ q \in [Sessions -> Nat] /\ q[s] = r[c] + 1 /\ r[c] \in Nat
          /\ \A t \in Sessions : t # s => q[t] = r[t]
        BY <2>1
    <2>3. PICK p \in [Sessions -> Nat] : p = q
        BY <2>2
    <2>4. \A t \in Sessions : phase'[t] # "new" /\ t # s => p[t] <= r[c] /\ p[t] < p[s] /\ p[t] \in Nat
        BY <1>2, <2>1, <2>2, <2>3
    <2> HIDE DEF q
    <2>5. phase'[s] = "waiting" /\ waits'[s] = c /\ phase'[c] # "new" /\ p[c] = r[c] /\ p[s] = r[c] + 1
        BY <1>2, <1>6, <2>1, <2>2, <2>3
    <2>6. \A t \in Sessions : t # s => p[t] = r[t]
        BY <2>2, <2>3
    <2>7. ASSUME NEW t \in Sessions, phase'[t] = "waiting"
          PROVE  /\ waits'[t] \in Sessions /\ phase'[waits'[t]] # "new"
                 /\ \A u \in Sessions : Hearing(u)' /\ p[u] < p[t] => p[u] <= p[waits'[t]]
        <3>1. CASE t = s
            <4>1. ASSUME NEW u \in Sessions, Hearing(u)', p[u] < p[t]
                  PROVE  p[u] <= p[waits'[t]]
                <5>1. phase'[u] # "new" /\ u # s
                    BY <3>1, <4>1, <2>2, <2>3 DEF Hearing
                <5> QED BY <2>4, <2>5, <3>1, <5>1
            <4> QED BY <2>1, <2>5, <3>1, <4>1
        <3>2. CASE t # s
            <4>1. phase[t] = "waiting" /\ waits'[t] = waits[t]
                BY <1>2, <2>7, <3>2
            <4>2. waits[t] \in Sessions /\ phase[waits[t]] # "new"
                BY <1>1, <4>1 DEF InTurn
            <4>3. waits[t] # s /\ phase'[waits[t]] # "new" /\ p[waits[t]] = r[waits[t]]
                BY <1>2, <2>6, <4>2
            <4>4. ASSUME NEW u \in Sessions, Hearing(u)', p[u] < p[t]
                  PROVE  p[u] <= p[waits[t]]
                <5>1. p[t] < p[s] /\ p[t] \in Nat /\ p[u] \in Nat /\ p[s] \in Nat
                    BY <2>4, <2>7, <3>2
                <5>2. u # s
                    BY <4>4, <5>1
                <5>3. Hearing(u) /\ r[u] < r[t]
                    BY <1>4, <2>6, <3>2, <4>4, <5>2
                <5>4. r[u] <= r[waits[t]]
                    BY <1>1, <4>1, <5>3 DEF InTurn
                <5> QED BY <2>6, <4>3, <5>2, <5>4
            <4> QED BY <4>1, <4>2, <4>3, <4>4
        <3> QED BY <3>1, <3>2
    <2>8. ASSUME NEW u \in Sessions, NEW v \in Sessions, Hearing(u)', phase'[v] # "new", u # v
          PROVE  p[u] # p[v]
        <3>0. phase'[u] # "new" /\ p[u] \in Nat /\ p[v] \in Nat /\ p[s] \in Nat
            BY <2>8 DEF Hearing
        <3>1. CASE u = s \/ v = s
            BY <2>4, <2>8, <3>0, <3>1
        <3>2. CASE u # s /\ v # s
            <4>1. Hearing(u) /\ phase[v] # "new"
                BY <1>2, <1>4, <2>8, <3>2
            <4>2. r[u] # r[v]
                BY <1>1, <2>8, <4>1 DEF InTurn
            <4> QED BY <2>6, <3>2, <4>2
        <3> QED BY <3>1, <3>2
    <2>9. ASSUME NEW v \in Sessions, NEW u \in Sessions, Worked(v)', Hearing(u)'
          PROVE  p[v] <= p[u]
        <3>1. v # s /\ phase'[v] # "new"
            BY <2>5, <2>9 DEF Worked
        <3>2. CASE u = s
            BY <2>4, <3>1, <3>2
        <3>3. CASE u # s
            <4>1. Worked(v) /\ Hearing(u)
                BY <1>4, <2>9, <3>1, <3>3
            <4>2. r[v] <= r[u]
                BY <1>1, <4>1 DEF InTurn
            <4> QED BY <2>6, <3>1, <3>3, <4>2
        <3> QED BY <3>2, <3>3
    <2>10. \A u \in Sessions : phase'[u] # "new" => p[u] <= p[s]
        <3>1. p[s] <= p[s] /\ \A u \in Sessions : p[u] \in Nat
            BY <2>2, <2>3
        <3> QED BY <2>4, <3>1
    <2>11. current' # None /\ phase'[current'] # "new" /\ current' = s
        BY <1>2, <1>3, <2>5
    <2>12. InTurn(p)'
        BY <2>7, <2>8, <2>9, <2>10, <2>11 DEF InTurn
    <2> QED BY <2>12 DEF Turns
<1> QED BY <1>5, <1>6

LEMMA BeginTurn ==
    ASSUME TInv, Turns, "turn" \notin races', NEW s \in Sessions, Begin(s) \/ EndsWaiting(s)
    PROVE  Turns'
<1>1. PICK r \in [Sessions -> Nat] : InTurn(r)
    BY DEF Turns
<1> DEFINE w == waits[s]
<1>2. /\ phase[s] = "waiting" /\ phase'[s] \in {"serving", "ending"} /\ current' = current /\ ~Hears(w)
      /\ \A t \in Sessions : t # s => phase'[t] = phase[t] /\ waits'[t] = waits[t]
    BY DEF Begin, EndsWaiting, regV, TInv, Types, SessTypes
<1>3. w \in Sessions /\ Worked(w) /\ w # s
    BY <1>1, <1>2 DEF InTurn, Worked, Hears
<1>4. \A t \in Sessions : /\ Hearing(t)' => Hearing(t)
                          /\ phase'[t] = "new" <=> phase[t] = "new"
                          /\ t # s => (Worked(t)' <=> Worked(t))
    BY <1>2 DEF Hearing, Hears, Worked
<1>5. ASSUME NEW u \in Sessions, Hearing(u)
      PROVE  r[s] <= r[u]
    <2> SUFFICES ASSUME r[u] < r[s]
                 PROVE  FALSE
        OBVIOUS
    <2>1. r[u] <= r[w] /\ r[w] <= r[u]
        BY <1>1, <1>2, <1>3, <1>5 DEF InTurn
    <2>2. r[u] = r[w]
        BY <1>3, <2>1
    <2>3. u # w
        BY <1>2, <1>5 DEF Hearing
    <2> QED BY <1>1, <1>3, <1>5, <2>2, <2>3 DEF InTurn, Worked
<1>6. ASSUME NEW t \in Sessions, phase'[t] = "waiting"
      PROVE  /\ waits'[t] \in Sessions /\ phase'[waits'[t]] # "new"
             /\ \A u \in Sessions : Hearing(u)' /\ r[u] < r[t] => r[u] <= r[waits'[t]]
    <2>1. t # s /\ phase[t] = "waiting" /\ waits'[t] = waits[t]
        BY <1>2, <1>6
    <2> QED BY <1>1, <1>4, <2>1 DEF InTurn
<1>7. ASSUME NEW v \in Sessions, NEW u \in Sessions, Worked(v)', Hearing(u)'
      PROVE  r[v] <= r[u]
    BY <1>1, <1>4, <1>5, <1>7 DEF InTurn
<1>8. \A u, v \in Sessions : Hearing(u)' /\ phase'[v] # "new" /\ u # v => r[u] # r[v]
    BY <1>1, <1>4 DEF InTurn
<1>9. /\ current' = None => \A u \in Sessions : ~Hearing(u)'
      /\ current' # None => /\ phase'[current'] # "new"
                            /\ \A u \in Sessions : phase'[u] # "new" => r[u] <= r[current']
    BY <1>1, <1>2, <1>4 DEF InTurn, TInv, Types, RegTypes
<1>10. InTurn(r)'
    BY <1>6, <1>7, <1>8, <1>9 DEF InTurn
<1> QED BY <1>10 DEF Turns

LEMMA SteadyTurn ==
    ASSUME TInv, Turns, Steady
    PROVE  Turns'
<1>1. PICK r \in [Sessions -> Nat] : InTurn(r)
    BY DEF Turns
<1>2. \A t \in Sessions : /\ Hearing(t)' => Hearing(t)
                          /\ Worked(t)' <=> Worked(t)
                          /\ phase'[t] = "new" <=> phase[t] = "new"
                          /\ phase'[t] = "waiting" => phase[t] = "waiting" /\ waits'[t] = waits[t]
    BY DEF Steady, Hearing, Hears, Worked
<1>3. ASSUME NEW t \in Sessions, phase'[t] = "waiting"
      PROVE  /\ waits'[t] \in Sessions /\ phase'[waits'[t]] # "new"
             /\ \A u \in Sessions : Hearing(u)' /\ r[u] < r[t] => r[u] <= r[waits'[t]]
    BY <1>1, <1>2, <1>3 DEF InTurn
<1>4. \A u, v \in Sessions : Hearing(u)' /\ phase'[v] # "new" /\ u # v => r[u] # r[v]
    BY <1>1, <1>2 DEF InTurn
<1>5. \A v, u \in Sessions : Worked(v)' /\ Hearing(u)' => r[v] <= r[u]
    BY <1>1, <1>2 DEF InTurn
<1>6. ASSUME current' = None
      PROVE  \A u \in Sessions : ~Hearing(u)'
    <2>1. CASE current = None
        BY <1>1, <1>2, <2>1 DEF InTurn
    <2>2. CASE current # None
        <3>1. current \in Sessions /\ Worked(current) /\ ~Hears(current)
            BY <1>6, <2>2 DEF Steady
        <3> SUFFICES ASSUME NEW u \in Sessions, Hearing(u)'
                     PROVE  FALSE
            OBVIOUS
        <3>2. Hearing(u) /\ phase[u] # "new" /\ u # current
            BY <1>2, <3>1 DEF Hearing
        <3>3. r[u] <= r[current] /\ r[current] <= r[u]
            BY <1>1, <2>2, <3>1, <3>2 DEF InTurn
        <3>4. r[u] = r[current]
            BY <3>1, <3>3
        <3> QED BY <1>1, <3>1, <3>2, <3>4 DEF InTurn, Worked
    <2> QED BY <2>1, <2>2
<1>7. ASSUME current' # None
      PROVE  /\ phase'[current'] # "new"
             /\ \A u \in Sessions : phase'[u] # "new" => r[u] <= r[current']
    <2>1. current' = current /\ current \in Sessions
        BY <1>7 DEF Steady, TInv, Types, RegTypes
    <2> QED BY <1>1, <1>2, <1>7, <2>1 DEF InTurn
<1>8. InTurn(r)'
    BY <1>3, <1>4, <1>5, <1>6, <1>7 DEF InTurn
<1> QED BY <1>8 DEF Turns

LEMMA TurnsNext ==
    ASSUME TInv, Turns, "turn" \notin races', [Next]_vars
    PROVE  Turns'
BY Turn, ConnectTurn, BeginTurn, SteadyTurn

(* Whatever the number of connections to an account, each replacing the     *)
(* last, at most one session is at work at a time, but after one that ended *)
(* before the one it waited for, when the next begins beside that one.     *)
THEOREM WorkInTurn == Spec => []OneWorksInTurn
<1>1. Init => TInv /\ Turns
    BY TInvInit, TurnsInit
<1>2. TInv /\ ("turn" \notin races => Turns) /\ [Next]_vars => (TInv /\ ("turn" \notin races => Turns))'
    <2> SUFFICES ASSUME TInv, "turn" \notin races => Turns, [Next]_vars
                 PROVE  TInv' /\ ("turn" \notin races' => Turns')
        OBVIOUS
    <2>1. "turn" \notin races' => "turn" \notin races
        BY RacesGrow
    <2> QED BY <2>1, TInvNext, TurnsNext
<1>3. ("turn" \notin races => Turns) => OneWorksInTurn
    BY TurnsWork DEF OneWorksInTurn
<1> QED BY <1>1, <1>2, <1>3, PTL DEF Spec

-----------------------------------------------------------------------------
LEMMA SavedInit == Init => TInv /\ WInv /\ Turns /\ SInv
BY TInvInit, WInvInit, TurnsInit, SInvInit

LEMMA SavedNext ==
    ASSUME TInv, NoneMissed => WInv, "turn" \notin races => Turns, races = {} => SInv, [Next]_vars
    PROVE  /\ TInv' /\ (NoneMissed' => WInv') /\ ("turn" \notin races' => Turns')
           /\ (races' = {} => SInv')
<1>1. TInv'
    BY TInvNext
<1>2. NoneMissed' => NoneMissed
    BY RacesGrow DEF NoneMissed
<1>3. "turn" \notin races' => "turn" \notin races
    BY RacesGrow
<1>4. races' = {} => races = {}
    BY RacesGrow
<1>5. NoneMissed' => WInv'
    BY <1>1, <1>2, WInvNext
<1>6. "turn" \notin races' => Turns'
    BY <1>3, TurnsNext
<1>7. races' = {} => SInv'
    <2> SUFFICES ASSUME races' = {}
                 PROVE  SInv'
        OBVIOUS
    <2>1. NoneMissed /\ "turn" \notin races
        BY <1>4 DEF NoneMissed
    <2>2. WInv /\ Turns /\ SInv
        BY <1>4, <2>1
    <2> QED BY <2>2, TurnsWork, SInvNext
<1> QED BY <1>1, <1>5, <1>6, <1>7

LEMMA SInvHolds == Spec => [](races = {} => TInv /\ WInv /\ SInv)
<1> DEFINE Inv == /\ TInv /\ (NoneMissed => WInv) /\ ("turn" \notin races => Turns)
                  /\ (races = {} => SInv)
<1>1. Init => Inv
    BY SavedInit
<1>2. Inv /\ [Next]_vars => Inv'
    BY SavedNext
<1>3. Inv => (races = {} => TInv /\ WInv /\ SInv)
    BY DEF NoneMissed
<1> HIDE DEF Inv
<1> QED BY <1>1, <1>2, <1>3, PTL DEF Spec

(* A character not online is saved as they last were, for any number of     *)
(* maps, copies, connections, moves and starts: what they did is never      *)
(* lost, however they left, but after a race lost.                         *)
THEOREM SavedWhenOffline == Spec => []SavedUnraced
<1>1. (races = {} => TInv /\ WInv /\ SInv) => SavedUnraced
    BY UnsavedIsOnline DEF WInv, SInv, SavedUnraced
<1> QED BY <1>1, SInvHolds, PTL

(* Nobody is in the world as they were once, a login reading the row only   *)
(* after the save of those who left, but after a race lost.                *)
THEOREM NeverStale == Spec => []FreshUnraced
<1>1. (races = {} => TInv /\ WInv /\ SInv) => FreshUnraced
    BY NewIsNotStale DEF SInv, FreshUnraced
<1> QED BY <1>1, SInvHolds, PTL

=============================================================================
