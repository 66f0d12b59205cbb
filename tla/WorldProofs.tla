---------------------------- MODULE WorldProofs ----------------------------
(***************************************************************************)
(* Who has the player, for any number of characters, connections, maps and *)
(* copies, and of logins, moves and starts: types, whose logout it is, and  *)
(* that a player in the world is in one place and is who the online list    *)
(* says.                                                                  *)
(***************************************************************************)
EXTENDS World, SequenceTheorems, FiniteSetTheorems, TLAPS

-----------------------------------------------------------------------------
(* Types.  A player's logout, wherever they are, is their own session's,    *)
(* and a login takes over the character it is for.                        *)
OwnPlayer == {p \in Player : p.logout \in {None, p.on.sess}}
OwnEvent  == {e \in Event : /\ e.op = "arrive" => e.p \in OwnPlayer
                            /\ e.op = "takeover" => e.old.g = e.new.g}
OwnWord   == {w \in Word : w.op = "transfer" => w.p \in OwnPlayer}
Departure == [g : Chars, sess : Sessions, told : BOOLEAN]
Passage   == [p : OwnPlayer, to : Handles]

Box(h)   == 1..Len(mq[h])
Words(s) == 1..Len(ctl[s])

MapTypes ==
    /\ closed \in BOOLEAN
    /\ cur \in [Keys -> Nat] /\ made \in [Keys -> Nat]
    /\ mst \in [Handles -> {"unborn", "running", "stopping", "handing",
                           "letting", "standin", "gone"}]
    /\ expired \in [Copies -> BOOLEAN]
    /\ reset \in [Copies -> {"none", "decided", "done"}]
ActorTypes ==
    /\ mq \in [Handles -> Seq(OwnEvent)]
    /\ players \in [Handles -> [Chars -> OwnPlayer \cup {None}]]
    /\ leaving \in [Handles -> Departure \cup {None}]
    /\ next \in [Handles -> Handles \cup {None}]
    /\ handed \in [Handles -> SUBSET Chars]
RegTypes ==
    /\ online \in Entry \cup {None}
    /\ omap \in [Sessions -> Handles \cup {None}]
    /\ current \in Sessions \cup {None}
SessTypes ==
    /\ phase \in [Sessions -> {"new", "waiting", "serving", "login", "loading",
                               "arriving", "asking", "ending", "releasing", "gone"}]
    /\ state \in [Sessions -> {"Screen", "InWorld", "Left"}]
    /\ goal \in [Sessions -> Chars \cup {None}]
    /\ handle \in [Sessions -> Handles \cup {None}]
    /\ row \in [Sessions -> Nat]
    /\ existing \in [Sessions -> Entry \cup {None}]
    /\ waits \in [Sessions -> Sessions \cup {None}]
    /\ reply \in [Sessions -> Handles \cup {None, No}]
    /\ ctl \in [Sessions -> Seq(OwnWord)]
    /\ passing \in [Sessions -> Passage \cup {None}]
    /\ kicked \in [Sessions -> BOOLEAN]
    /\ logins \in [Sessions -> Nat]
DataTypes ==
    /\ saved \in [Chars -> Nat] /\ latest \in [Chars -> Nat]
    /\ kicks \in Nat /\ moves \in Nat /\ races \subseteq {"reap", "handon", "turn"}
Types == MapTypes /\ ActorTypes /\ RegTypes /\ SessTypes /\ DataTypes

(* A key's actors are numbered as they start; what a stopped one hands on   *)
(* goes to one that has started.                                          *)
Born ==
    /\ \A k \in Keys : made[k] <= Starts(k) /\ cur[k] <= made[k]
    /\ \A h \in Handles : mst[h] # "unborn" => h[2] <= made[h[1]]
    /\ \A h \in Handles : next[h] # None => mst[next[h]] # "unborn"

(* What a session holds, by where its task is.                            *)
Holds(s) ==
    /\ phase[s] \in {"login", "loading", "arriving", "asking"} => goal[s] \in Chars
    /\ phase[s] \notin {"serving", "ending"} => state[s] = "Screen"
    /\ phase[s] = "waiting" => waits[s] \in Sessions
    /\ phase[s] \in {"asking", "releasing"} => existing[s] \in Entry
    /\ state[s] = "InWorld" => goal[s] \in Chars
    /\ passing[s] # None => phase[s] \in {"serving", "ending"}
Lets(s) == phase[s] = "releasing" => existing[s].sess \in Sessions /\ ~Hears(existing[s].sess)
Phases  == \A s \in Sessions : Holds(s) /\ Lets(s)

TInv == Types /\ Born /\ Phases

-----------------------------------------------------------------------------
(* Handles.                                                               *)
LEMMA HandleIs ==
    /\ \A h \in Handles : h[1] \in Keys /\ h[2] \in 1..Starts(h[1]) /\ h = <<h[1], h[2]>>
    /\ \A k \in Keys : /\ Starts(k) \in Nat \ {0} /\ Starts(k) <= MaxStarts
                       /\ \A n \in 1..Starts(k) : <<k, n>> \in Handles
    /\ None \notin Handles /\ No \notin Handles
<1>1. \A k \in Keys : Starts(k) \in Nat \ {0} /\ Starts(k) <= MaxStarts
    BY WorldAssumption DEF Starts
<1>2. \A h \in Handles : h[1] \in Keys /\ h[2] \in 1..Starts(h[1]) /\ h = <<h[1], h[2]>>
    BY <1>1 DEF Handles
<1>3. ASSUME NEW k \in Keys, NEW n \in 1..Starts(k)
      PROVE  <<k, n>> \in Handles
    <2>1. n \in 1..MaxStarts
        BY <1>1, WorldAssumption
    <2> QED BY <1>1, <2>1 DEF Handles
<1> QED BY <1>1, <1>2, <1>3, WorldAssumption

(* The actor a key names, or one it is given.                             *)
Got(t) ==
    /\ t \in Handles /\ mst'[t] \in {"running", "stopping", "standin"}
    /\ \A h \in Handles : mst'[h] = mst[h] \/ (h = t /\ mst[h] = "unborn")
    /\ cur' \in [Keys -> Nat] /\ made' \in [Keys -> Nat]
    /\ mst' \in [Handles -> {"unborn", "running", "stopping", "handing",
                            "letting", "standin", "gone"}]
    /\ \A j \in Keys : made'[j] <= Starts(j) /\ cur'[j] <= made'[j] /\ made[j] <= made'[j]
    /\ \A h \in Handles : mst'[h] # "unborn" => h[2] <= made'[h[1]]

LEMMA TargetGot ==
    ASSUME MapTypes, Born, NEW k \in Keys, GetMap(k)
    PROVE  Got(Target(k))
<1>1. made[k] \in Nat /\ cur[k] \in Nat /\ Starts(k) \in Nat /\ cur[k] <= made[k] /\ made[k] <= Starts(k)
    BY HandleIs DEF MapTypes, Born
<1>2. CASE Runs(k)
    <2>1. Target(k) = <<k, cur[k]>> /\ cur[k] \in 1..Starts(k) /\ UNCHANGED <<cur, made, mst>>
        BY <1>1, <1>2 DEF Target, Runs, GetMap
    <2>2. Target(k) \in Handles
        BY <2>1, HandleIs
    <2>3. mst[Target(k)] \in {"running", "stopping", "standin"}
        BY <1>2, <2>1 DEF Runs, Open
    <2> QED BY <2>1, <2>2, <2>3 DEF Got, MapTypes, Born
<1>3. CASE ~Runs(k)
    <2>1. /\ Target(k) = <<k, made[k] + 1>> /\ made[k] + 1 \in 1..Starts(k)
          /\ made' = [made EXCEPT ![k] = made[k] + 1] /\ cur' = [cur EXCEPT ![k] = made[k] + 1]
        BY <1>1, <1>3 DEF Target, GetMap, MapTypes
    <2>2. Target(k) \in Handles /\ Target(k)[1] = k /\ Target(k)[2] = made[k] + 1
        BY <2>1, HandleIs
    <2> DEFINE t == Target(k)
               st == IF closed THEN "standin" ELSE "running"
    <2>3. mst' = [mst EXCEPT ![t] = st]
        BY <1>3, <2>1 DEF GetMap
    <2>4. mst[t] = "unborn"
        BY <1>1, <2>2 DEF Born, MapTypes
    <2> HIDE DEF t
    <2>5. /\ mst'[t] = st /\ \A h \in Handles : h # t => mst'[h] = mst[h]
          /\ mst' \in [Handles -> {"unborn", "running", "stopping", "handing",
                                  "letting", "standin", "gone"}]
        BY <2>2, <2>3 DEF MapTypes, t
    <2>6. /\ made'[k] = made[k] + 1 /\ cur'[k] = made[k] + 1
          /\ \A j \in Keys : j # k => made'[j] = made[j] /\ cur'[j] = cur[j]
          /\ cur' \in [Keys -> Nat] /\ made' \in [Keys -> Nat]
        BY <1>1, <2>1 DEF MapTypes
    <2>7. \A j \in Keys : made'[j] <= Starts(j) /\ cur'[j] <= made'[j] /\ made[j] <= made'[j]
        BY <1>1, <2>1, <2>6 DEF Born, MapTypes
    <2>8. ASSUME NEW h \in Handles, mst'[h] # "unborn"
          PROVE  h[2] <= made'[h[1]]
        <3>1. CASE h = t
            BY <2>2, <2>6, <3>1 DEF t
        <3>2. CASE h # t
            <4>1. h[2] <= made[h[1]] /\ h[1] \in Keys /\ h[2] \in Nat
                BY <2>5, <2>8, <3>2, HandleIs DEF Born
            <4>2. made[h[1]] \in Nat /\ made'[h[1]] \in Nat /\ made[h[1]] <= made'[h[1]]
                BY <2>6, <2>7, <4>1 DEF MapTypes
            <4> QED BY <4>1, <4>2
        <3> QED BY <3>1, <3>2
    <2> QED BY <2>2, <2>4, <2>5, <2>6, <2>7, <2>8 DEF Got, t
<1> QED BY <1>2, <1>3

-----------------------------------------------------------------------------
(* Queues.  Each event in a mailbox was in it, one place on if its first    *)
(* was taken (in the maps of P), or is new there (among N); so with words.  *)
MailGoes(P, N) ==
    /\ mq' \in [Handles -> Seq(OwnEvent)]
    /\ \A h \in Handles : \A i \in Box(h)' : LET j == IF h \in P THEN i + 1 ELSE i IN
          \/ j \in Box(h) /\ mq'[h][i] = mq[h][j]
          \/ j \notin Box(h) /\ <<h, mq'[h][i]>> \in N
WordsGo(P, N) ==
    /\ ctl' \in [Sessions -> Seq(OwnWord)]
    /\ \A s \in Sessions : \A i \in Words(s)' : LET j == IF s \in P THEN i + 1 ELSE i IN
          \/ j \in Words(s) /\ ctl'[s][i] = ctl[s][j]
          \/ j \notin Words(s) /\ <<s, ctl'[s][i]>> \in N

LEMMA Tails ==
    ASSUME NEW S, NEW s \in Seq(S), s # <<>>
    PROVE  /\ Tail(s) \in Seq(S) /\ Len(s) \in Nat /\ 1 \in 1..Len(s) /\ Head(s) = s[1] /\ s[1] \in S
           /\ \A i \in 1..Len(Tail(s)) : i + 1 \in 1..Len(s) /\ Tail(s)[i] = s[i + 1]
<1>1. /\ Len(s) \in Nat /\ Len(s) > 0 /\ Tail(s) \in Seq(S)
      /\ Head(s) = s[1] /\ Len(Tail(s)) = Len(s) - 1
      /\ \A i \in 1..(Len(s) - 1) : Tail(s)[i] = s[i + 1]
    BY HeadTailProperties, LenProperties, EmptySeq
<1>2. s[1] \in S
    BY <1>1, ElementOfSeq
<1> QED BY <1>1, <1>2

LEMMA Appends ==
    ASSUME NEW S, NEW s \in Seq(S), NEW e \in S
    PROVE  /\ Append(s, e) \in Seq(S) /\ Len(s) \in Nat
           /\ \A i \in 1..Len(Append(s, e)) :
                 \/ i \in 1..Len(s) /\ Append(s, e)[i] = s[i]
                 \/ i \notin 1..Len(s) /\ Append(s, e)[i] = e
BY AppendProperties, LenProperties

LEMMA MailSame ==
    ASSUME ActorTypes, mq' = mq
    PROVE  MailGoes({}, {})
BY DEF ActorTypes, MailGoes, Box

LEMMA MailPut ==
    ASSUME ActorTypes, NEW h \in Handles, NEW e \in OwnEvent, mq' = Put(mq, h, e)
    PROVE  MailGoes({}, {<<h, e>>})
<1>1. /\ mq'[h] = Append(mq[h], e) /\ \A k \in Handles : k # h => mq'[k] = mq[k]
      /\ mq[h] \in Seq(OwnEvent)
    BY DEF ActorTypes, Put
<1>2. /\ mq'[h] \in Seq(OwnEvent)
      /\ \A i \in 1..Len(mq'[h]) : \/ i \in 1..Len(mq[h]) /\ mq'[h][i] = mq[h][i]
                                   \/ i \notin 1..Len(mq[h]) /\ mq'[h][i] = e
    BY <1>1, Appends
<1>3. mq' \in [Handles -> Seq(OwnEvent)]
    BY <1>2 DEF ActorTypes, Put
<1> QED BY <1>1, <1>2, <1>3 DEF MailGoes, Box

LEMMA HeadIs ==
    ASSUME ActorTypes, NEW h \in Handles, mq[h] # <<>>
    PROVE  Event1(h) = mq[h][1] /\ mq[h][1] \in OwnEvent /\ 1 \in Box(h) /\ Head(mq[h]) = mq[h][1]
<1>1. mq[h] \in Seq(OwnEvent)
    BY DEF ActorTypes
<1> QED BY <1>1, Tails DEF Event1, Box

LEMMA MailTaken ==
    ASSUME ActorTypes, NEW h \in Handles, mq[h] # <<>>, mq' = Taken(h)
    PROVE  MailGoes({h}, {})
<1>1. mq'[h] = Tail(mq[h]) /\ (\A k \in Handles : k # h => mq'[k] = mq[k]) /\ mq[h] \in Seq(OwnEvent)
    BY DEF ActorTypes, Taken
<1>2. /\ mq'[h] \in Seq(OwnEvent)
      /\ \A i \in 1..Len(mq'[h]) : i + 1 \in 1..Len(mq[h]) /\ mq'[h][i] = mq[h][i + 1]
    BY <1>1, Tails
<1>3. mq' \in [Handles -> Seq(OwnEvent)]
    BY <1>2 DEF ActorTypes, Taken
<1> QED BY <1>1, <1>2, <1>3 DEF MailGoes, Box

LEMMA MailPassed ==
    ASSUME ActorTypes, NEW h \in Handles, mq[h] # <<>>, NEW k \in Handles, k # h,
           NEW e \in OwnEvent, mq' = Put(Taken(h), k, e)
    PROVE  MailGoes({h}, {<<k, e>>})
<1>1. /\ mq'[h] = Tail(mq[h]) /\ mq'[k] = Append(mq[k], e)
      /\ \A o \in Handles : o \notin {h, k} => mq'[o] = mq[o]
      /\ mq[h] \in Seq(OwnEvent) /\ mq[k] \in Seq(OwnEvent)
    BY DEF ActorTypes, Taken, Put
<1>2. /\ mq'[h] \in Seq(OwnEvent)
      /\ \A i \in 1..Len(mq'[h]) : i + 1 \in 1..Len(mq[h]) /\ mq'[h][i] = mq[h][i + 1]
    BY <1>1, Tails
<1>3. /\ mq'[k] \in Seq(OwnEvent)
      /\ \A i \in 1..Len(mq'[k]) : \/ i \in 1..Len(mq[k]) /\ mq'[k][i] = mq[k][i]
                                   \/ i \notin 1..Len(mq[k]) /\ mq'[k][i] = e
    BY <1>1, Appends
<1>4. mq' \in [Handles -> Seq(OwnEvent)]
    BY <1>2, <1>3 DEF ActorTypes, Taken, Put
<1> QED BY ZenonT(40), <1>1, <1>2, <1>3, <1>4 DEF MailGoes, Box

LEMMA MailTwice ==
    ASSUME ActorTypes, NEW h \in Handles, NEW e \in OwnEvent, NEW f \in OwnEvent,
           mq' = Put(Put(mq, h, e), h, f)
    PROVE  MailGoes({}, {<<h, e>>, <<h, f>>})
<1> DEFINE s == Append(mq[h], e)
<1>1. /\ mq'[h] = Append(s, f) /\ \A k \in Handles : k # h => mq'[k] = mq[k]
      /\ mq[h] \in Seq(OwnEvent)
    BY DEF ActorTypes, Put
<1>2. /\ s \in Seq(OwnEvent)
      /\ \A i \in 1..Len(s) : \/ i \in 1..Len(mq[h]) /\ s[i] = mq[h][i]
                              \/ i \notin 1..Len(mq[h]) /\ s[i] = e
    BY <1>1, Appends
<1>0. Len(mq[h]) \in Nat /\ Len(s) = Len(mq[h]) + 1
    BY <1>1, AppendProperties, LenProperties
<1> HIDE DEF s
<1>3. /\ mq'[h] \in Seq(OwnEvent) /\ Len(s) \in Nat
      /\ \A i \in 1..Len(mq'[h]) : \/ i \in 1..Len(s) /\ mq'[h][i] = s[i]
                                   \/ i \notin 1..Len(s) /\ mq'[h][i] = f
    BY <1>1, <1>2, Appends
<1>4. mq' \in [Handles -> Seq(OwnEvent)]
    BY <1>3 DEF ActorTypes, Put
<1>5. \A i \in 1..Len(mq'[h]) : \/ i \in 1..Len(mq[h]) /\ mq'[h][i] = mq[h][i]
                                \/ i \notin 1..Len(mq[h]) /\ mq'[h][i] \in {e, f}
    BY <1>0, <1>2, <1>3
<1> QED BY <1>1, <1>4, <1>5 DEF MailGoes, Box

LEMMA MailCleared ==
    ASSUME ActorTypes, NEW h \in Handles, mq' = [mq EXCEPT ![h] = <<>>]
    PROVE  MailGoes({}, {}) /\ mq'[h] = <<>>
<1>1. mq'[h] = <<>> /\ (\A k \in Handles : k # h => mq'[k] = mq[k]) /\ <<>> \in Seq(OwnEvent)
    BY DEF ActorTypes
<1>2. Box(h)' = {}
    BY <1>1 DEF Box
<1>3. mq' \in [Handles -> Seq(OwnEvent)]
    BY <1>1 DEF ActorTypes
<1> QED BY <1>1, <1>2, <1>3 DEF MailGoes, Box

LEMMA WordsSame ==
    ASSUME SessTypes, ctl' = ctl
    PROVE  WordsGo({}, {})
BY DEF SessTypes, WordsGo, Words

LEMMA WordTold ==
    ASSUME SessTypes, NEW s \in Sessions, NEW w \in OwnWord, ctl' = Tell(ctl, s, w)
    PROVE  WordsGo({}, {x \in {<<s, w>>} : Hears(s)})
<1>1. CASE ~Hears(s)
    BY <1>1 DEF SessTypes, WordsGo, Words, Tell
<1>2. CASE Hears(s)
    <2>1. /\ ctl'[s] = Append(ctl[s], w) /\ \A k \in Sessions : k # s => ctl'[k] = ctl[k]
          /\ ctl[s] \in Seq(OwnWord)
        BY <1>2 DEF SessTypes, Tell
    <2>2. /\ ctl'[s] \in Seq(OwnWord)
          /\ \A i \in 1..Len(ctl'[s]) : \/ i \in 1..Len(ctl[s]) /\ ctl'[s][i] = ctl[s][i]
                                        \/ i \notin 1..Len(ctl[s]) /\ ctl'[s][i] = w
        BY <2>1, Appends
    <2>3. ctl' \in [Sessions -> Seq(OwnWord)]
        BY <1>2, <2>2 DEF SessTypes, Tell
    <2> QED BY <1>2, <2>1, <2>2, <2>3 DEF WordsGo, Words
<1> QED BY <1>1, <1>2

LEMMA WordHeard ==
    ASSUME SessTypes, NEW s \in Sessions, ctl[s] # <<>>, ctl' = Rest(s)
    PROVE  WordsGo({s}, {})
<1>1. ctl'[s] = Tail(ctl[s]) /\ (\A k \in Sessions : k # s => ctl'[k] = ctl[k]) /\ ctl[s] \in Seq(OwnWord)
    BY DEF SessTypes, Rest
<1>2. /\ ctl'[s] \in Seq(OwnWord)
      /\ \A i \in 1..Len(ctl'[s]) : i + 1 \in 1..Len(ctl[s]) /\ ctl'[s][i] = ctl[s][i + 1]
    BY <1>1, Tails
<1>3. ctl' \in [Sessions -> Seq(OwnWord)]
    BY <1>2 DEF SessTypes, Rest
<1> QED BY <1>1, <1>2, <1>3 DEF WordsGo, Words

LEMMA FirstWord ==
    ASSUME SessTypes, NEW s \in Sessions, ctl[s] # <<>>
    PROVE  Head(ctl[s]) = ctl[s][1] /\ ctl[s][1] \in OwnWord /\ 1 \in Words(s)
<1>1. ctl[s] \in Seq(OwnWord)
    BY DEF SessTypes
<1> QED BY <1>1, Tails DEF Words

-----------------------------------------------------------------------------
(* Events and words: what is sent is one, and what an event is.           *)
LEMMA EntryIs ==
    ASSUME NEW e \in Entry
    PROVE  e.g \in Chars /\ e.sess \in Sessions /\ e.n \in Nat
BY DEF Entry
LEMMA NewEntryIs ==
    ASSUME SessTypes, NEW s \in Sessions, goal[s] \in Chars
    PROVE  /\ NewEntry(s) \in Entry /\ NewEntry(s).sess = s /\ NewEntry(s).g = goal[s]
           /\ NewEntry(s).n = logins[s]
BY DEF SessTypes, NewEntry, Entry
LEMMA OwnIs ==
    ASSUME NEW p \in OwnPlayer
    PROVE  /\ p.on \in Entry /\ p.on.g \in Chars /\ p.on.sess \in Sessions /\ p.ver \in Nat
           /\ p.logout \in {None, p.on.sess}
BY DEF OwnPlayer, Player, Entry

LEMMA ArriveSent ==
    ASSUME NEW p \in OwnPlayer, NEW k \in {"login", "transfer"}
    PROVE  [op |-> "arrive", kind |-> k, p |-> p] \in OwnEvent
<1>1. p \in Player
    BY DEF OwnPlayer
<1>2. [op |-> "arrive", kind |-> k, p |-> p] \in [op : {"arrive"}, kind : {"login", "transfer"}, p : Player]
    BY <1>1
<1>3. [op |-> "arrive", kind |-> k, p |-> p] \in Event
    BY <1>2 DEF Event
<1> QED BY <1>3 DEF OwnEvent
LEMMA GoingSent ==
    ASSUME NEW o \in {"logout", "disconnect", "leave", "linger"}, NEW g \in Chars, NEW s \in Sessions
    PROVE  [op |-> o, g |-> g, sess |-> s] \in OwnEvent
<1>1. [op |-> o, g |-> g, sess |-> s] \in
         [op : {"logout", "disconnect", "leave", "linger"}, g : Chars, sess : Sessions]
    OBVIOUS
<1>2. [op |-> o, g |-> g, sess |-> s] \in Event
    BY <1>1 DEF Event
<1> QED BY <1>2 DEF OwnEvent
LEMMA TakeOverSent ==
    ASSUME NEW d \in Entry, NEW e \in Entry, d.g = e.g
    PROVE  [op |-> "takeover", old |-> d, new |-> e] \in OwnEvent
<1>1. [op |-> "takeover", old |-> d, new |-> e] \in [op : {"takeover"}, old : Entry, new : Entry]
    OBVIOUS
<1>2. [op |-> "takeover", old |-> d, new |-> e] \in Event
    BY <1>1 DEF Event
<1> QED BY <1>2 DEF OwnEvent
LEMMA ReapSent ==
    ASSUME NEW e \in Entry
    PROVE  [op |-> "reap", e |-> e] \in OwnEvent
<1>1. [op |-> "reap", e |-> e] \in [op : {"reap"}, e : Entry]
    OBVIOUS
<1>2. [op |-> "reap", e |-> e] \in Event
    BY <1>1 DEF Event
<1> QED BY <1>2 DEF OwnEvent
LEMMA HandedOnSent ==
    ASSUME NEW g \in Chars
    PROVE  [op |-> "handedon", g |-> g] \in OwnEvent
<1>1. [op |-> "handedon", g |-> g] \in [op : {"handedon"}, g : Chars]
    OBVIOUS
<1>2. [op |-> "handedon", g |-> g] \in Event
    BY <1>1 DEF Event
<1> QED BY <1>2 DEF OwnEvent
LEMMA StopSent ==
    ASSUME NEW o \in {"stop", "shutdown"}
    PROVE  [op |-> o] \in OwnEvent
<1>1. [op |-> o] \in [op : {"stop", "shutdown"}]
    OBVIOUS
<1>2. [op |-> o] \in Event
    BY <1>1 DEF Event
<1> QED BY <1>2 DEF OwnEvent

LEMMA TransferSent ==
    ASSUME NEW p \in OwnPlayer, NEW k \in Keys
    PROVE  [op |-> "transfer", p |-> p, to |-> k] \in OwnWord
<1>1. [op |-> "transfer", p |-> p, to |-> k] \in [op : {"transfer"}, p : Player, to : Keys]
    BY DEF OwnPlayer
<1>2. [op |-> "transfer", p |-> p, to |-> k] \in Word
    BY <1>1 DEF Word
<1> QED BY <1>2 DEF OwnWord
LEMMA HandedWord ==
    ASSUME NEW g \in Chars, NEW h \in Handles
    PROVE  [op |-> "handedon", g |-> g, map |-> h] \in OwnWord
<1>1. [op |-> "handedon", g |-> g, map |-> h] \in [op : {"handedon"}, g : Chars, map : Handles]
    OBVIOUS
<1>2. [op |-> "handedon", g |-> g, map |-> h] \in Word
    BY <1>1 DEF Word
<1> QED BY <1>2 DEF OwnWord
LEMMA PlainWord ==
    ASSUME NEW o \in {"loggedout", "kick", "takenover", "replaced"}
    PROVE  [op |-> o] \in OwnWord
<1>1. [op |-> o] \in [op : {"loggedout", "kick", "takenover", "replaced"}]
    OBVIOUS
<1>2. [op |-> o] \in Word
    BY <1>1 DEF Word
<1> QED BY <1>2 DEF OwnWord

LEMMA EventIs ==
    ASSUME NEW e \in OwnEvent
    PROVE  /\ e.op = "arrive" => e.p \in OwnPlayer /\ e.kind \in {"login", "transfer"}
                                 /\ e = [op |-> "arrive", kind |-> e.kind, p |-> e.p]
           /\ e.op \in {"logout", "disconnect", "leave", "linger"} => e.g \in Chars /\ e.sess \in Sessions
           /\ e.op = "takeover" => e.old \in Entry /\ e.new \in Entry /\ e.old.g = e.new.g
           /\ e.op = "reap" => e.e \in Entry
           /\ e.op = "handedon" => e.g \in Chars
<1>1. /\ e \in Event /\ (e.op = "arrive" => e.p \in OwnPlayer)
      /\ e.op = "takeover" => e.old.g = e.new.g
    BY DEF OwnEvent
<1>2. CASE e \in [op : {"arrive"}, kind : {"login", "transfer"}, p : Player]
    <2>1. e = [op |-> "arrive", kind |-> e.kind, p |-> e.p] /\ e.kind \in {"login", "transfer"} /\ e.op = "arrive"
        BY <1>2
    <2> QED BY <1>1, <2>1
<1>3. CASE e \in [op : {"logout", "disconnect", "leave", "linger"}, g : Chars, sess : Sessions]
    BY <1>3
<1>4. CASE e \in [op : {"takeover"}, old : Entry, new : Entry]
    BY <1>1, <1>4
<1>5. CASE e \in [op : {"reap"}, e : Entry]
    BY <1>5
<1>6. CASE e \in [op : {"handedon"}, g : Chars]
    BY <1>6
<1>7. CASE e \in [op : {"stop", "shutdown"}]
    BY <1>7
<1> QED BY <1>1, <1>2, <1>3, <1>4, <1>5, <1>6, <1>7 DEF Event

LEMMA WordIs ==
    ASSUME NEW w \in OwnWord
    PROVE  /\ w.op = "transfer" => w.p \in OwnPlayer /\ w.to \in Keys
           /\ w.op = "handedon" => w.g \in Chars /\ w.map \in Handles
<1>1. w \in Word /\ (w.op = "transfer" => w.p \in OwnPlayer)
    BY DEF OwnWord
<1>2. CASE w \in [op : {"transfer"}, p : Player, to : Keys]
    BY <1>1, <1>2
<1>3. CASE w \in [op : {"handedon"}, g : Chars, map : Handles]
    BY <1>3
<1>4. CASE w \in [op : {"loggedout", "kick", "takenover", "replaced"}]
    BY <1>4
<1> QED BY <1>1, <1>2, <1>3, <1>4 DEF Word

(* What was sent from the front of a mailbox.                             *)
LEMMA FirstEvent ==
    ASSUME ActorTypes, NEW h \in Handles, mq[h] # <<>>
    PROVE  /\ Event1(h) = mq[h][1] /\ Event1(h) \in OwnEvent /\ 1 \in Box(h)
           /\ Event1(h).op = "arrive" =>
                 /\ Event1(h).p \in OwnPlayer /\ Event1(h).kind \in {"login", "transfer"}
                 /\ Event1(h) = [op |-> "arrive", kind |-> Event1(h).kind, p |-> Event1(h).p]
           /\ Event1(h).op \in {"logout", "disconnect", "leave", "linger"} =>
                 Event1(h).g \in Chars /\ Event1(h).sess \in Sessions
           /\ Event1(h).op = "takeover" =>
                 Event1(h).old \in Entry /\ Event1(h).new \in Entry /\ Event1(h).old.g = Event1(h).new.g
           /\ Event1(h).op = "reap" => Event1(h).e \in Entry
           /\ Event1(h).op = "handedon" => Event1(h).g \in Chars
<1>1. Event1(h) = mq[h][1] /\ mq[h][1] \in OwnEvent /\ 1 \in Box(h)
    BY HeadIs
<1> QED BY <1>1, EventIs

-----------------------------------------------------------------------------
(* A step of one session: the others hold what they held, and none that has *)
(* closed its queue hears again.                                          *)
Ended == {"ending", "releasing", "gone"}
LEMMA PhaseStep ==
    ASSUME TInv, NEW s \in Sessions, Holds(s)',
           phase'[s] = "releasing" => existing'[s].sess \in Sessions /\ ~Hears(existing'[s].sess),
           phase[s] \in Ended => phase'[s] \in Ended,
           \A t \in Sessions : t # s =>
               /\ phase'[t] = phase[t] /\ state'[t] = state[t] /\ goal'[t] = goal[t]
               /\ waits'[t] = waits[t] /\ existing'[t] = existing[t] /\ reply'[t] = reply[t]
               /\ passing'[t] = passing[t]
    PROVE  Phases' /\ \A t \in Sessions : ~Hears(t) => ~Hears(t)'
<1>1. ASSUME NEW t \in Sessions, ~Hears(t)
      PROVE  ~Hears(t)'
    BY <1>1 DEF Hears, Ended
<1>2. ASSUME NEW t \in Sessions, t # s
      PROVE  Holds(t)'
    BY <1>2 DEF TInv, Phases, Holds
<1>3. ASSUME NEW t \in Sessions, phase'[t] = "releasing"
      PROVE  existing'[t].sess \in Sessions /\ ~Hears(existing'[t].sess)
    <2>1. CASE t = s
        BY <1>3, <2>1
    <2>2. CASE t # s
        BY <1>3, <2>2 DEF TInv, Phases, Lets
    <2> QED BY <2>1, <2>2
<1>4. ASSUME NEW t \in Sessions
      PROVE  Lets(t)'
    <2>1. SUFFICES ASSUME phase'[t] = "releasing"
                   PROVE  existing'[t].sess \in Sessions /\ (~Hears(existing[t].sess))'
        BY DEF Lets
    <2>2. existing'[t].sess \in Sessions /\ ~Hears(existing'[t].sess)
        BY <1>3, <2>1
    <2> QED BY <2>2 DEF Hears, Ended
<1> QED BY <1>1, <1>2, <1>4 DEF Phases

-----------------------------------------------------------------------------
(* What a session does of its own.                                        *)
(* A step that may lose a race, and none before it.                       *)
RacesGo == races \subseteq races' /\ races' \subseteq {"reap", "handon", "turn"}

LEMMA RacesLost == ASSUME TInv, NEW r \in {"reap", "handon", "turn"}, NEW w, Lost(r, w) PROVE RacesGo
    BY DEF RacesGo, Lost, TInv, Types, DataTypes

LEMMA RacesReap == ASSUME TInv, NEW e, Reap(e) PROVE RacesGo
    BY DEF RacesGo, Reap, TInv, Types, DataTypes

LEMMA RacesSame == ASSUME TInv, races' = races PROVE RacesGo
    BY DEF RacesGo, TInv, Types, DataTypes

LEMMA SessionRaces ==
    ASSUME TInv, NEW s \in Sessions, Session(s) \/ Client(s) \/ Kick(s)
    PROVE  RacesGo
<1>1. ASSUME NEW e, KickOther(s, e)
      PROVE  RacesGo
    BY <1>1, RacesReap, RacesSame DEF KickOther
<1>2. CASE LookOther(s) \/ GivesUp(s)
    BY <1>1, <1>2 DEF LookOther, GivesUp
<1>3. CASE ReapLeft(s)
    BY <1>3, RacesReap DEF ReapLeft
<1>4. CASE WaitHeard(s) \/ \E flood \in BOOLEAN : ClientGoes(s, flood)
    BY <1>4, RacesLost DEF WaitHeard, ClientGoes, QuitsTurn
<1>5. CASE Disconnect(s)
    BY <1>5, RacesLost, RacesSame DEF Disconnect
<1>6. CASE \/ Begin(s) \/ LostMap(s) \/ LookNobody(s) \/ LookTheirs(s) \/ LoginFails(s)
           \/ \E k \in Keys : Enter(s, k) \/ Resume(s, k)
    <2>1. races' = races
        BY <1>6 DEF Begin, LostMap, LookNobody, LookTheirs, LoginFails, Enter, Resume, dataV
    <2> QED BY <2>1, RacesSame
<1>7. CASE \/ Arrive(s) \/ TakenOver(s) \/ LookAgain(s) \/ HearTransfer(s) \/ PassOn(s) \/ HearHandedOn(s)
           \/ HearLoggedOut(s)
    <2>1. races' = races
        BY <1>7 DEF Arrive, TakenOver, LookAgain, HearTransfer, PassOn, HearHandedOn, HearLoggedOut, dataV
    <2> QED BY <2>1, RacesSame
<1>8. CASE \/ HearKick(s) \/ HearLeave(s) \/ DropRest(s) \/ DisconnectScreen(s)
           \/ Connect(s) \/ SendLogout(s) \/ Kick(s)
           \/ \E c \in Chars : AskLogin(s, c)
    <2>1. races' = races
        BY <1>8 DEF HearKick, HearLeave, DropRest, DisconnectScreen, Connect, AskLogin, SendLogout, Kick, dataV
    <2> QED BY <2>1, RacesSame
<1> QED BY <1>2, <1>3, <1>4, <1>5, <1>6, <1>7, <1>8 DEF Session, Client

LEMMA MapRaces ==
    ASSUME TInv, NEW h \in Handles, Map(h) \/ Doings(h)
    PROVE  RacesGo
<1>1. CASE \/ LeaveDone(h) \/ HandleArrive(h) \/ HandleLogout(h) \/ HandleGone(h)
           \/ HandleReap(h) \/ HandleTakeOver(h) \/ HandleHandedOn(h) \/ HandleStop(h)
    <2>1. races' = races
        BY <1>1 DEF LeaveDone, HandleArrive, HandleLogout, HandleGone, HandleReap, HandleTakeOver,
                    HandleHandedOn, HandleStop, dataV
    <2> QED BY <2>1, RacesSame
<1>2. CASE \/ Finish(h) \/ HandGet(h) \/ HandOn(h) \/ HandedOn(h) \/ LetGoEach(h) \/ LetGone(h)
           \/ \E g \in Chars : LogoutDue(h, g) \/ LingerEnd(h, g)
    <2>1. races' = races
        BY <1>2 DEF Finish, HandGet, HandOn, HandedOn, LetGoEach, LetGone, LogoutDue, LingerEnd, Goes, dataV
    <2> QED BY <2>1, RacesSame
<1>3. CASE \/ \E g \in Chars : Progress(h, g) \/ SaveDue(h, g) \/ SendToScreen(h, g)
           \/ Unload(h)
    <2>1. races' = races
        BY <1>3 DEF Progress, SaveDue, SendToScreen, Unload, Goes, dataV
    <2> QED BY <2>1, RacesSame
<1>4. CASE \E g \in Chars, k \in Keys : Teleport(h, g, k)
    BY <1>4, RacesLost DEF Teleport
<1> QED BY <1>1, <1>2, <1>3, <1>4 DEF Map, Doings

LEMMA ConnectTyped ==
    ASSUME TInv, NEW s \in Sessions, Connect(s)
    PROVE  TInv'
<1>1. WordsGo({}, {<<current, [op |-> "replaced"]>>})
    <2>1. CASE current = None
        BY <2>1, WordsSame DEF TInv, Types, Connect, WordsGo
    <2>2. CASE current # None
        <3>1. current \in Sessions /\ [op |-> "replaced"] \in OwnWord
            BY <2>2, PlainWord DEF TInv, Types, RegTypes
        <3>2. ctl' = Tell(ctl, current, [op |-> "replaced"])
            BY <2>2 DEF Connect
        <3>3. WordsGo({}, {x \in {<<current, [op |-> "replaced"]>>} : Hears(current)})
            BY <3>1, <3>2, WordTold DEF TInv, Types
        <3> QED BY <3>3 DEF WordsGo
    <2> QED BY <2>1, <2>2
<1>2. MapTypes' /\ ActorTypes' /\ DataTypes' /\ RegTypes' /\ Born'
    BY DEF TInv, Types, MapTypes, ActorTypes, DataTypes, RegTypes, Born, Connect, mapsV, actorV, dataV
<1>3. SessTypes'
    BY <1>1 DEF TInv, Types, SessTypes, RegTypes, Connect, WordsGo
<1>4. Phases'
    <2>1. Holds(s)' /\ phase'[s] # "releasing" /\ (phase[s] \in Ended => phase'[s] \in Ended)
        BY DEF TInv, Types, SessTypes, RegTypes, Phases, Holds, Connect, Ended
    <2> QED BY <2>1, PhaseStep DEF TInv, Types, SessTypes, Connect
<1> QED BY <1>2, <1>3, <1>4 DEF TInv, Types

LEMMA OwnTyped ==
    ASSUME TInv, NEW s \in Sessions,
           \/ Begin(s) \/ WaitHeard(s) \/ \E flood \in BOOLEAN : ClientGoes(s, flood)
           \/ LostMap(s) \/ \E c \in Chars : AskLogin(s, c)
           \/ LookNobody(s) \/ LoginFails(s) \/ TakenOver(s) \/ LookAgain(s)
    PROVE  TInv'
<1>0. RacesGo
    BY SessionRaces DEF Session, Client
<1>1. MapTypes' /\ ActorTypes' /\ RegTypes' /\ Born' /\ DataTypes'
    BY <1>0 DEF RacesGo, TInv, Types, MapTypes, ActorTypes, RegTypes, Born, DataTypes, mapsV, actorV, regV, dataV,
           Begin, WaitHeard, ClientGoes, LostMap, AskLogin, LookNobody, LoginFails, TakenOver, LookAgain
<1>2. CASE Begin(s)
    <2>1. SessTypes'
        BY <1>2 DEF TInv, Types, SessTypes, Begin
    <2>2. Phases'
        <3>1. Holds(s)' /\ phase'[s] # "releasing" /\ (phase[s] \in Ended => phase'[s] \in Ended)
            BY <1>2 DEF TInv, Types, SessTypes, Phases, Holds, Begin, Ended
        <3> QED BY <1>2, <3>1, PhaseStep DEF TInv, Types, SessTypes, Begin
    <2> QED BY <1>1, <2>1, <2>2 DEF TInv, Types
<1>3. CASE WaitHeard(s)
    <2>1. SessTypes'
        BY <1>3 DEF TInv, Types, SessTypes, WaitHeard, Ends
    <2>2. Phases'
        <3>1. Holds(s)' /\ phase'[s] # "releasing" /\ (phase[s] \in Ended => phase'[s] \in Ended)
            BY <1>3 DEF TInv, Types, SessTypes, Phases, Holds, WaitHeard, Ends, Ended
        <3> QED BY <1>3, <3>1, PhaseStep DEF TInv, Types, SessTypes, WaitHeard, Ends
    <2> QED BY <1>1, <2>1, <2>2 DEF TInv, Types
<1>4. CASE \E flood \in BOOLEAN : ClientGoes(s, flood)
    <2>1. SessTypes'
        BY <1>4 DEF TInv, Types, SessTypes, ClientGoes, Ends
    <2>2. Phases'
        <3>1. Holds(s)' /\ phase'[s] # "releasing" /\ (phase[s] \in Ended => phase'[s] \in Ended)
            BY <1>4 DEF TInv, Types, SessTypes, Phases, Holds, ClientGoes, Ends, Ended
        <3> QED BY <1>4, <3>1, PhaseStep DEF TInv, Types, SessTypes, ClientGoes, Ends
    <2> QED BY <1>1, <2>1, <2>2 DEF TInv, Types
<1>5. CASE LostMap(s)
    <2>1. SessTypes'
        BY <1>5 DEF TInv, Types, SessTypes, LostMap, Ends
    <2>2. Phases'
        <3>1. Holds(s)' /\ phase'[s] # "releasing" /\ (phase[s] \in Ended => phase'[s] \in Ended)
            BY <1>5 DEF TInv, Types, SessTypes, Phases, Holds, LostMap, Ends, Ended
        <3> QED BY <1>5, <3>1, PhaseStep DEF TInv, Types, SessTypes, LostMap, Ends
    <2> QED BY <1>1, <2>1, <2>2 DEF TInv, Types
<1>6. CASE \E c \in Chars : AskLogin(s, c)
    <2>1. SessTypes'
        BY <1>6 DEF TInv, Types, SessTypes, AskLogin
    <2>2. Phases'
        <3>1. Holds(s)' /\ phase'[s] # "releasing" /\ (phase[s] \in Ended => phase'[s] \in Ended)
            BY <1>6 DEF TInv, Types, SessTypes, Phases, Holds, AskLogin, Ended
        <3> QED BY <1>6, <3>1, PhaseStep DEF TInv, Types, SessTypes, AskLogin
    <2> QED BY <1>1, <2>1, <2>2 DEF TInv, Types
<1>7. CASE LookNobody(s)
    <2>1. SessTypes'
        BY <1>7 DEF TInv, Types, SessTypes, DataTypes, Phases, Holds, LookNobody
    <2>2. Phases'
        <3>1. Holds(s)' /\ phase'[s] # "releasing" /\ (phase[s] \in Ended => phase'[s] \in Ended)
            BY <1>7 DEF TInv, Types, SessTypes, DataTypes, Phases, Holds, LookNobody, Ended
        <3> QED BY <1>7, <3>1, PhaseStep DEF TInv, Types, SessTypes, DataTypes, LookNobody
    <2> QED BY <1>1, <2>1, <2>2 DEF TInv, Types
<1>8. CASE LoginFails(s)
    <2>1. SessTypes'
        BY <1>8 DEF TInv, Types, SessTypes, LoginFails
    <2>2. Phases'
        <3>1. Holds(s)' /\ phase'[s] # "releasing" /\ (phase[s] \in Ended => phase'[s] \in Ended)
            BY <1>8 DEF TInv, Types, SessTypes, Phases, Holds, LoginFails, Ended
        <3> QED BY <1>8, <3>1, PhaseStep DEF TInv, Types, SessTypes, LoginFails
    <2> QED BY <1>1, <2>1, <2>2 DEF TInv, Types
<1>9. CASE TakenOver(s)
    <2>1. SessTypes'
        BY <1>9, HandleIs DEF TInv, Types, SessTypes, TakenOver
    <2>2. Phases'
        <3>1. Holds(s)' /\ phase'[s] # "releasing" /\ (phase[s] \in Ended => phase'[s] \in Ended)
            BY <1>9 DEF TInv, Types, SessTypes, Phases, Holds, TakenOver, Ended
        <3> QED BY <1>9, <3>1, PhaseStep DEF TInv, Types, SessTypes, TakenOver
    <2> QED BY <1>1, <2>1, <2>2 DEF TInv, Types
<1>10. CASE LookAgain(s)
    <2>1. SessTypes'
        BY <1>10 DEF TInv, Types, SessTypes, LookAgain
    <2>2. Phases'
        <3>1. Holds(s)' /\ phase'[s] # "releasing" /\ (phase[s] \in Ended => phase'[s] \in Ended)
            BY <1>10 DEF TInv, Types, SessTypes, Phases, Holds, LookAgain, Ended
        <3> QED BY <1>10, <3>1, PhaseStep DEF TInv, Types, SessTypes, LookAgain
    <2> QED BY <1>1, <2>1, <2>2 DEF TInv, Types
<1> QED BY <1>2, <1>3, <1>4, <1>5, <1>6, <1>7, <1>8, <1>9, <1>10

-----------------------------------------------------------------------------
(* Logging in.                                                            *)
LEMMA LookTheirsTyped ==
    ASSUME TInv, NEW s \in Sessions, LookTheirs(s)
    PROVE  TInv'
<1>1. /\ online \in Entry /\ goal[s] \in Chars /\ NewEntry(s) \in Entry /\ online.g = NewEntry(s).g
      /\ omap[online.sess] \in Handles \cup {None}
    BY NewEntryIs, EntryIs DEF TInv, Types, RegTypes, Phases, Holds, LookTheirs
<1>2. MailGoes({}, {<<omap[online.sess], [op |-> "takeover", old |-> online, new |-> NewEntry(s)]>>})
    <2>1. CASE Open(omap[online.sess])
        <3>1. omap[online.sess] \in Handles
            BY <1>1, <2>1 DEF Open
        <3> QED BY <1>1, <2>1, <3>1, MailPut, TakeOverSent DEF LookTheirs, TInv, Types
    <2>2. CASE ~Open(omap[online.sess])
        BY <2>2, MailSame DEF LookTheirs, TInv, Types, MailGoes
    <2> QED BY <2>1, <2>2
<1>3. MapTypes' /\ RegTypes' /\ Born' /\ DataTypes'
    BY DEF TInv, Types, MapTypes, RegTypes, Born, DataTypes, mapsV, regV, dataV, LookTheirs
<1>4. ActorTypes'
    BY <1>2 DEF TInv, Types, ActorTypes, LookTheirs, MailGoes
<1>5. SessTypes'
    BY <1>1 DEF TInv, Types, SessTypes, LookTheirs
<1>6. Phases'
    <2>1. Holds(s)' /\ phase'[s] # "releasing" /\ (phase[s] \in Ended => phase'[s] \in Ended)
        BY <1>1 DEF TInv, Types, SessTypes, Phases, Holds, LookTheirs, Ended
    <2> QED BY <1>1, <2>1, PhaseStep DEF TInv, Types, SessTypes, LookTheirs
<1> QED BY <1>3, <1>4, <1>5, <1>6 DEF TInv, Types

LEMMA ReapMail ==
    ASSUME TInv, NEW e \in Entry, Reap(e)
    PROVE  /\ MailGoes({}, {<<omap[e.sess], [op |-> "reap", e |-> e]>>})
           /\ online' \in {online, None}
<1>1. omap[e.sess] \in Handles \cup {None}
    BY EntryIs DEF TInv, Types, RegTypes
<1>2. CASE Open(omap[e.sess])
    <2>1. omap[e.sess] \in Handles
        BY <1>1, <1>2 DEF Open
    <2> QED BY <1>2, <2>1, MailPut, ReapSent DEF Reap, TInv, Types
<1>3. CASE ~Open(omap[e.sess])
    BY <1>3, MailSame DEF Reap, TInv, Types, MailGoes
<1> QED BY <1>2, <1>3

LEMMA KickOtherTyped ==
    ASSUME TInv, NEW s \in Sessions, NEW e \in Entry, KickOther(s, e)
    PROVE  /\ MailGoes({}, {<<omap[e.sess], [op |-> "reap", e |-> e]>>})
           /\ WordsGo({}, {<<e.sess, [op |-> "kick"]>>})
           /\ online' \in {online, None}
<1>1. e.sess \in Sessions
    BY EntryIs
<1>2. WordsGo({}, {x \in {<<e.sess, [op |-> "kick"]>>} : Hears(e.sess)})
    BY <1>1, WordTold, PlainWord DEF KickOther, TInv, Types
<1>3. CASE Hears(e.sess)
    BY <1>2, <1>3, MailSame DEF KickOther, TInv, Types, MailGoes, WordsGo
<1>4. CASE ~Hears(e.sess)
    BY <1>2, <1>4, ReapMail DEF KickOther, WordsGo
<1> QED BY <1>3, <1>4

LEMMA KicksTyped ==
    ASSUME TInv, NEW s \in Sessions, LookOther(s) \/ GivesUp(s)
    PROVE  TInv'
<1>1. PICK e \in Entry : KickOther(s, e)
    BY DEF TInv, Types, RegTypes, Phases, Holds, LookOther, GivesUp
<1>2. /\ MailGoes({}, {<<omap[e.sess], [op |-> "reap", e |-> e]>>})
      /\ WordsGo({}, {<<e.sess, [op |-> "kick"]>>})
      /\ online' \in {online, None}
    BY <1>1, KickOtherTyped
<1>3. MapTypes' /\ RegTypes' /\ Born' /\ DataTypes'
    <2>1. RacesGo
        BY SessionRaces DEF Session
    <2> QED BY <1>2, <2>1 DEF RacesGo, TInv, Types, MapTypes, RegTypes, Born, DataTypes, mapsV, regV, dataV, LookOther, GivesUp
<1>4. ActorTypes'
    BY <1>2 DEF TInv, Types, ActorTypes, LookOther, GivesUp, MailGoes
<1>5. phase' = [phase EXCEPT ![s] = "serving"] /\ goal' = [goal EXCEPT ![s] = None] /\ phase[s] \in {"login", "asking"}
    BY <1>1 DEF LookOther, GivesUp, KickOther
<1>6. CASE LookOther(s)
    <2>1. SessTypes'
        BY <1>2, <1>5, <1>6 DEF TInv, Types, SessTypes, LookOther, WordsGo
    <2>2. Phases'
        <3>1. Holds(s)' /\ phase'[s] # "releasing" /\ (phase[s] \in Ended => phase'[s] \in Ended)
            BY <1>5, <1>6 DEF TInv, Types, SessTypes, Phases, Holds, LookOther, Ended
        <3> QED BY <1>5, <1>6, <3>1, PhaseStep DEF TInv, Types, SessTypes, LookOther
    <2> QED BY <1>3, <1>4, <2>1, <2>2 DEF TInv, Types
<1>7. CASE GivesUp(s)
    <2>1. SessTypes'
        BY <1>2, <1>5, <1>7 DEF TInv, Types, SessTypes, GivesUp, WordsGo
    <2>2. Phases'
        <3>1. Holds(s)' /\ phase'[s] # "releasing" /\ (phase[s] \in Ended => phase'[s] \in Ended)
            BY <1>5, <1>7 DEF TInv, Types, SessTypes, Phases, Holds, GivesUp, Ended
        <3> QED BY <1>5, <1>7, <3>1, PhaseStep DEF TInv, Types, SessTypes, GivesUp
    <2> QED BY <1>3, <1>4, <2>1, <2>2 DEF TInv, Types
<1> QED BY <1>6, <1>7

-----------------------------------------------------------------------------
(* Sending a player to a map.                                             *)
LEMMA GotKeeps ==
    ASSUME TInv, NEW t, Got(t), UNCHANGED <<closed, expired, reset>>,
           \A h \in Handles : next'[h] = next[h] \/ next'[h] = t
    PROVE  MapTypes' /\ Born'
<1>1. MapTypes'
    BY DEF TInv, Types, MapTypes, Got
<1>2. ASSUME NEW h \in Handles, next'[h] # None
      PROVE  mst'[next'[h]] # "unborn"
    <2>1. CASE next'[h] = t
        BY <2>1 DEF Got
    <2>2. CASE next'[h] = next[h]
        <3>1. next[h] \in Handles /\ mst[next[h]] # "unborn"
            BY <1>2, <2>2 DEF TInv, Types, ActorTypes, Born
        <3> QED BY <2>2, <3>1 DEF Got
    <2> QED BY <2>1, <2>2
<1> QED BY <1>1, <1>2 DEF Born, Got

LEMMA GetTyped ==
    ASSUME TInv, NEW k \in Keys, GetMap(k)
    PROVE  Got(Target(k))
BY TargetGot DEF TInv, Types

LEMMA DeliverIs ==
    ASSUME TInv, NEW h \in Handles, NEW a, NEW boxes, Deliver(a, h, boxes, ctl)
    PROVE  \/ /\ LetsGo(h) /\ LetGo(a, ctl) /\ mq' = boxes
              /\ UNCHANGED <<cur, made, mst, omap>>
           \/ /\ ~LetsGo(h) /\ Got(TakenBy(h)) /\ mq' = Put(boxes, TakenBy(h), a)
              /\ omap' = [omap EXCEPT ![a.p.on.sess] = TakenBy(h)]
              /\ UNCHANGED <<ctl, saved, online>>
<1>1. CASE LetsGo(h)
    BY <1>1 DEF Deliver
<1>2. CASE ~LetsGo(h) /\ Open(h)
    <2>1. TakenBy(h) = h /\ UNCHANGED <<cur, made, mst>>
        BY <1>2 DEF TakenBy, Deliver
    <2>2. Got(h)
        BY <1>2, <2>1 DEF TInv, Types, MapTypes, Born, Got, Open
    <2> QED BY <1>2, <2>1, <2>2 DEF Deliver
<1>3. CASE ~LetsGo(h) /\ ~Open(h)
    <2>1. TakenBy(h) = Target(h[1]) /\ GetMap(h[1]) /\ h[1] \in Keys
        BY <1>3, HandleIs DEF TakenBy, Deliver
    <2>2. Got(Target(h[1]))
        BY <2>1, GetTyped
    <2> QED BY <1>3, <2>1, <2>2 DEF Deliver
<1> QED BY <1>1, <1>2, <1>3

LEMMA LetGoTyped ==
    ASSUME TInv, NEW a \in OwnEvent, a.op = "arrive", LetGo(a, ctl)
    PROVE  /\ saved' \in [Chars -> Nat] /\ online' \in {online, None}
           /\ WordsGo({}, {<<a.p.on.sess, [op |-> "kick"]>>})
<1>1. a.p \in OwnPlayer /\ a.p.on.sess \in Sessions /\ a.p.on.g \in Chars /\ a.p.ver \in Nat
    BY EventIs, OwnIs
<1>2. WordsGo({}, {x \in {<<a.p.on.sess, [op |-> "kick"]>>} : Hears(a.p.on.sess)})
    BY <1>1, WordTold, PlainWord DEF LetGo, TInv, Types
<1> QED BY <1>1, <1>2 DEF LetGo, Offline, TInv, Types, DataTypes, WordsGo

LEMMA EnterTyped ==
    ASSUME TInv, NEW s \in Sessions, NEW k \in Keys, Enter(s, k)
    PROVE  TInv'
<1>1. goal[s] \in Chars /\ NewEntry(s) \in Entry
    BY NewEntryIs DEF TInv, Types, Phases, Holds, Enter
<1>2. (k \in Worlds => Got(Target(k))) /\ (k \notin Worlds => UNCHANGED <<cur, made, mst>>)
    BY GetTyped DEF Enter
<1>3. MapTypes' /\ Born'
    <2>1. CASE k \in Worlds
        BY <1>2, <2>1, GotKeeps DEF Enter, actorV
    <2>2. CASE k \notin Worlds
        BY <1>2, <2>2 DEF Enter, actorV, TInv, Types, MapTypes, Born
    <2> QED BY <2>1, <2>2
<1>4. ActorTypes' /\ DataTypes'
    BY DEF TInv, Types, ActorTypes, DataTypes, actorV, dataV, Enter
<1>5. RegTypes'
    BY <1>1, <1>2 DEF TInv, Types, RegTypes, Enter, Got
<1>6. SessTypes'
    <2>1. CASE online # None
        <3>1. /\ phase' = [phase EXCEPT ![s] = "login"] /\ row' = [row EXCEPT ![s] = 0]
              /\ UNCHANGED <<state, goal, handle, existing, waits, reply, ctl, passing, kicked, logins>>
            BY <2>1 DEF Enter
        <3> QED BY <3>1 DEF TInv, Types, SessTypes
    <2>2. CASE online = None
        <3>1. /\ phase' = [phase EXCEPT ![s] = "arriving"]
              /\ UNCHANGED <<row, state, goal, handle, existing, waits, reply, ctl, passing, kicked, logins>>
            BY <2>2 DEF Enter
        <3> QED BY <3>1 DEF TInv, Types, SessTypes
    <2> QED BY <2>1, <2>2
<1>7. Phases'
    <2>1. Holds(s)' /\ phase'[s] # "releasing" /\ (phase[s] \in Ended => phase'[s] \in Ended)
        BY ZenonT(40) DEF TInv, Types, SessTypes, Phases, Holds, Enter, Ended
    <2> QED BY <2>1, PhaseStep DEF TInv, Types, SessTypes, Enter
<1> QED BY <1>3, <1>4, <1>5, <1>6, <1>7 DEF TInv, Types

LEMMA ResumeTyped ==
    ASSUME TInv, NEW s \in Sessions, NEW k \in Keys, Resume(s, k)
    PROVE  TInv'
<1>1. Got(Target(k))
    BY GetTyped DEF Resume
<1>2. MapTypes' /\ Born'
    BY <1>1, GotKeeps DEF Resume, actorV
<1>3. ActorTypes' /\ DataTypes' /\ SessTypes'
    BY DEF TInv, Types, ActorTypes, DataTypes, SessTypes, actorV, dataV, sessV, Resume
<1>4. RegTypes'
    BY <1>1 DEF TInv, Types, RegTypes, Resume, Got
<1>5. Phases'
    BY DEF TInv, Phases, Holds, Lets, Hears, Resume, sessV
<1> QED BY <1>2, <1>3, <1>4, <1>5 DEF TInv, Types

(* The player who logs in, as their map is sent them.                     *)
LoginOf(s) == [op |-> "arrive", kind |-> "login",
               p |-> [on |-> NewEntry(s), ver |-> row[s], linger |-> FALSE, logout |-> None]]
LEMMA LoginSent ==
    ASSUME TInv, NEW s \in Sessions, goal[s] \in Chars
    PROVE  LoginOf(s) \in OwnEvent /\ LoginOf(s).op = "arrive" /\ LoginOf(s).p.on = NewEntry(s)
<1>1. NewEntry(s) \in Entry /\ row[s] \in Nat
    BY NewEntryIs DEF TInv, Types, SessTypes
<1> DEFINE p == [on |-> NewEntry(s), ver |-> row[s], linger |-> FALSE, logout |-> None]
<1>2. p \in OwnPlayer
    BY <1>1 DEF OwnPlayer, Player
<1> HIDE DEF p
<1>3. [op |-> "arrive", kind |-> "login", p |-> p] \in OwnEvent
    BY <1>2, ArriveSent
<1> QED BY <1>3 DEF p, LoginOf

LEMMA ArriveTyped ==
    ASSUME TInv, NEW s \in Sessions, Arrive(s)
    PROVE  TInv' /\ MailGoes({}, {<<omap[s], LoginOf(s)>>})
<1>1. goal[s] \in Chars /\ omap[s] \in Handles
    BY DEF TInv, Types, RegTypes, Phases, Holds, Arrive
<1>2. MailGoes({}, {<<omap[s], LoginOf(s)>>})
    <2>1. CASE Open(omap[s])
        BY <1>1, <2>1, LoginSent, MailPut DEF Arrive, LoginOf, TInv, Types
    <2>2. CASE ~Open(omap[s])
        BY <2>2, MailSame DEF Arrive, TInv, Types, MailGoes
    <2> QED BY <2>1, <2>2
<1>3. MapTypes' /\ Born' /\ DataTypes' /\ RegTypes'
    BY DEF TInv, Types, MapTypes, Born, DataTypes, RegTypes, mapsV, dataV, Arrive, Offline
<1>4. ActorTypes'
    BY <1>2 DEF TInv, Types, ActorTypes, Arrive, MailGoes
<1>5. SessTypes'
    BY <1>1 DEF TInv, Types, SessTypes, Arrive
<1>6. Phases'
    <2>1. Holds(s)' /\ phase'[s] # "releasing" /\ (phase[s] \in Ended => phase'[s] \in Ended)
        BY DEF TInv, Types, SessTypes, Phases, Holds, Arrive, Ended
    <2> QED BY <2>1, PhaseStep DEF TInv, Types, SessTypes, Arrive
<1> QED BY <1>2, <1>3, <1>4, <1>5, <1>6 DEF TInv, Types

-----------------------------------------------------------------------------
(* The words a session hears.                                             *)
LEMMA TransferTyped ==
    ASSUME TInv, NEW s \in Sessions, HearTransfer(s)
    PROVE  /\ TInv' /\ WordsGo({s}, {}) /\ Got(Target(ctl[s][1].to))
           /\ ctl[s][1] \in OwnWord /\ ctl[s][1].op = "transfer"
           /\ passing' = [passing EXCEPT ![s] = [p |-> ctl[s][1].p, to |-> Target(ctl[s][1].to)]]
<1>1. ctl[s] # <<>> /\ phase[s] \in {"serving", "ending"} /\ Head(ctl[s]).op = "transfer"
    BY DEF HearTransfer, HearsNext
<1>2. Head(ctl[s]) = ctl[s][1] /\ ctl[s][1] \in OwnWord
    BY <1>1, FirstWord DEF TInv, Types
<1>3. ctl[s][1].p \in OwnPlayer /\ ctl[s][1].to \in Keys
    BY <1>1, <1>2, WordIs
<1>4. WordsGo({s}, {})
    BY <1>1, WordHeard DEF HearTransfer, TInv, Types
<1>5. Got(Target(ctl[s][1].to))
    BY <1>2, <1>3, GetTyped DEF HearTransfer
<1>6. passing' = [passing EXCEPT ![s] = [p |-> ctl[s][1].p, to |-> Target(ctl[s][1].to)]]
    BY <1>2 DEF HearTransfer
<1>7. MapTypes' /\ Born'
    BY <1>5, GotKeeps DEF HearTransfer, actorV
<1>8. ActorTypes' /\ DataTypes' /\ RegTypes'
    BY DEF TInv, Types, ActorTypes, DataTypes, RegTypes, actorV, dataV, regV, HearTransfer
<1>9. SessTypes'
    <2>1. [p |-> ctl[s][1].p, to |-> Target(ctl[s][1].to)] \in Passage
        BY <1>3, <1>5 DEF Passage, Got
    <2>2. passing' \in [Sessions -> Passage \cup {None}]
        BY <1>6, <2>1 DEF TInv, Types, SessTypes
    <2> QED BY <1>4, <2>2 DEF TInv, Types, SessTypes, HearTransfer, WordsGo
<1>10. Phases'
    <2>1. Holds(s)' /\ phase'[s] # "releasing" /\ (phase[s] \in Ended => phase'[s] \in Ended)
        BY <1>1 DEF TInv, Types, SessTypes, Phases, Holds, HearTransfer, Ended
    <2>2. \A t \in Sessions : t # s => passing'[t] = passing[t]
        BY <1>6 DEF TInv, Types, SessTypes
    <2> QED BY <2>1, <2>2, PhaseStep DEF HearTransfer
<1> QED BY <1>1, <1>2, <1>4, <1>5, <1>6, <1>7, <1>8, <1>9, <1>10 DEF TInv, Types

LEMMA PassOnTyped ==
    ASSUME TInv, NEW s \in Sessions, PassOn(s)
    PROVE  TInv'
<1> DEFINE h == passing[s].to
           p == passing[s].p
<1>1. h \in Handles /\ p \in OwnPlayer /\ p.on.g \in Chars /\ p.on.sess \in Sessions
    BY OwnIs DEF TInv, Types, SessTypes, Passage, PassOn
<1>2. Transferred(p) \in OwnEvent /\ Transferred(p).op = "arrive" /\ Transferred(p).p = p
    BY <1>1, ArriveSent DEF Transferred
<1>3. Deliver(Transferred(p), h, mq, ctl)
    BY DEF PassOn
<1> HIDE DEF h, p
<1>4. \/ /\ LetsGo(h) /\ LetGo(Transferred(p), ctl) /\ mq' = mq
         /\ UNCHANGED <<cur, made, mst, omap>>
      \/ /\ ~LetsGo(h) /\ Got(TakenBy(h)) /\ mq' = Put(mq, TakenBy(h), Transferred(p))
         /\ omap' = [omap EXCEPT ![p.on.sess] = TakenBy(h)]
         /\ UNCHANGED <<ctl, saved, online>>
    BY <1>1, <1>2, <1>3, DeliverIs
<1>5. /\ passing' = [passing EXCEPT ![s] = None] /\ passing[s] # None
      /\ UNCHANGED <<closed, expired, reset, players, leaving, next, handed, current, phase,
                     row, existing, waits, reply, kicked, logins, latest, kicks, moves, races>>
      /\ \/ /\ LetsGo(h) /\ state' = [state EXCEPT ![s] = "Screen"]
            /\ goal' = [goal EXCEPT ![s] = None] /\ handle' = [handle EXCEPT ![s] = None]
         \/ /\ ~LetsGo(h) /\ state' = [state EXCEPT ![s] = "InWorld"]
            /\ goal' = [goal EXCEPT ![s] = p.on.g] /\ handle' = [handle EXCEPT ![s] = TakenBy(h)]
    BY DEF PassOn, h, p
<1>6. phase[s] \in {"serving", "ending"}
    BY <1>5 DEF TInv, Phases, Holds
<1>7. CASE LetsGo(h)
    <2>1. /\ saved' \in [Chars -> Nat] /\ online' \in {online, None} /\ WordsGo({}, {<<p.on.sess, [op |-> "kick"]>>})
          /\ mq' = mq /\ UNCHANGED <<cur, made, mst, omap>>
        BY <1>2, <1>4, <1>7, LetGoTyped
    <2>2. MapTypes' /\ Born' /\ DataTypes' /\ RegTypes' /\ ActorTypes'
        BY <1>5, <2>1 DEF TInv, Types, MapTypes, Born, DataTypes, RegTypes, ActorTypes
    <2>3. SessTypes'
        BY <1>5, <1>7, <2>1 DEF TInv, Types, SessTypes, WordsGo
    <2>4. Phases'
        <3>1. Holds(s)' /\ phase'[s] # "releasing" /\ (phase[s] \in Ended => phase'[s] \in Ended)
            BY <1>5, <1>6, <1>7 DEF TInv, Types, SessTypes, Phases, Holds, Ended
        <3> QED BY <1>5, <1>7, <3>1, PhaseStep DEF TInv, Types, SessTypes
    <2> QED BY <2>2, <2>3, <2>4 DEF TInv, Types
<1>8. CASE ~LetsGo(h)
    <2>1. TakenBy(h) \in Handles
        BY <1>4, <1>8 DEF Got
    <2>2. MailGoes({}, {<<TakenBy(h), Transferred(p)>>})
        BY <1>2, <1>4, <1>8, <2>1, MailPut DEF TInv, Types
    <2>3. MapTypes' /\ Born'
        BY <1>4, <1>5, <1>8, GotKeeps
    <2>4. DataTypes' /\ RegTypes' /\ ActorTypes'
        BY <1>1, <1>4, <1>5, <1>8, <2>1, <2>2 DEF TInv, Types, DataTypes, RegTypes, ActorTypes, MailGoes
    <2>5. SessTypes'
        <3>1. /\ state' = [state EXCEPT ![s] = "InWorld"] /\ goal' = [goal EXCEPT ![s] = p.on.g]
              /\ handle' = [handle EXCEPT ![s] = TakenBy(h)] /\ passing' = [passing EXCEPT ![s] = None]
            BY <1>5, <1>8
        <3>2. UNCHANGED <<phase, row, existing, waits, reply, kicked, logins, ctl>>
            BY <1>4, <1>5, <1>8
        <3> QED BY <1>1, <2>1, <3>1, <3>2 DEF TInv, Types, SessTypes
    <2>6. Phases'
        <3>1. Holds(s)' /\ phase'[s] # "releasing" /\ (phase[s] \in Ended => phase'[s] \in Ended)
            BY <1>1, <1>5, <1>6, <1>8 DEF TInv, Types, SessTypes, Phases, Holds, Ended
        <3> QED BY <1>5, <1>8, <3>1, PhaseStep DEF TInv, Types, SessTypes
    <2> QED BY <2>3, <2>4, <2>5, <2>6 DEF TInv, Types
<1> QED BY <1>7, <1>8

LEMMA HeardTyped ==
    ASSUME TInv, NEW s \in Sessions,
           HearHandedOn(s) \/ HearLoggedOut(s) \/ HearKick(s) \/ DropRest(s)
    PROVE  TInv' /\ WordsGo({s}, {}) /\ phase[s] \in {"serving", "ending"} /\ Head(ctl[s]) = ctl[s][1]
<1>1. ctl[s] # <<>> /\ phase[s] \in {"serving", "ending"} /\ ctl' = Rest(s)
    BY DEF HearHandedOn, HearLoggedOut, HearKick, DropRest, HearsNext
<1>2. Head(ctl[s]) = ctl[s][1] /\ ctl[s][1] \in OwnWord
    BY <1>1, FirstWord DEF TInv, Types
<1>3. WordsGo({s}, {})
    BY <1>1, WordHeard DEF TInv, Types
<1>4. MapTypes' /\ ActorTypes' /\ RegTypes' /\ Born' /\ DataTypes'
    BY DEF TInv, Types, MapTypes, ActorTypes, RegTypes, Born, DataTypes, mapsV, actorV, regV, dataV,
           HearHandedOn, HearLoggedOut, HearKick, DropRest
<1>5. CASE HearHandedOn(s)
    <2>1. Head(ctl[s]).map \in Handles
        BY <1>2, <1>5, WordIs DEF HearHandedOn, HearsNext
    <2>2. SessTypes'
        BY <1>3, <1>5, <2>1 DEF TInv, Types, SessTypes, HearHandedOn, WordsGo
    <2>3. Phases'
        BY <1>5 DEF TInv, Phases, Holds, Lets, Hears, HearHandedOn
    <2> QED BY <1>1, <1>2, <1>3, <1>4, <2>2, <2>3 DEF TInv, Types
<1>6. CASE HearLoggedOut(s)
    <2>1. SessTypes'
        BY <1>3, <1>6 DEF TInv, Types, SessTypes, HearLoggedOut, WordsGo
    <2>2. Phases'
        <3>1. Holds(s)' /\ phase'[s] # "releasing" /\ (phase[s] \in Ended => phase'[s] \in Ended)
            BY <1>1, <1>6 DEF TInv, Types, SessTypes, Phases, Holds, HearLoggedOut, Ended
        <3> QED BY <1>6, <3>1, PhaseStep DEF TInv, Types, SessTypes, HearLoggedOut
    <2> QED BY <1>1, <1>2, <1>3, <1>4, <2>1, <2>2 DEF TInv, Types
<1>7. CASE HearKick(s)
    <2>1. SessTypes'
        BY <1>3, <1>7 DEF TInv, Types, SessTypes, HearKick, Ends, WordsGo
    <2>2. Phases'
        <3>1. Holds(s)' /\ phase'[s] # "releasing" /\ (phase[s] \in Ended => phase'[s] \in Ended)
            BY <1>1, <1>7 DEF TInv, Types, SessTypes, Phases, Holds, HearKick, Ends, Ended
        <3> QED BY <1>7, <3>1, PhaseStep DEF TInv, Types, SessTypes, HearKick, Ends
    <2> QED BY <1>1, <1>2, <1>3, <1>4, <2>1, <2>2 DEF TInv, Types
<1>8. CASE DropRest(s)
    <2>1. SessTypes'
        BY <1>3, <1>8 DEF TInv, Types, SessTypes, DropRest, WordsGo
    <2>2. Phases'
        BY <1>8 DEF TInv, Phases, Holds, Lets, Hears, DropRest
    <2> QED BY <1>1, <1>2, <1>3, <1>4, <2>1, <2>2 DEF TInv, Types
<1> QED BY <1>5, <1>6, <1>7, <1>8

LEMMA LeaveTyped ==
    ASSUME TInv, NEW s \in Sessions, HearLeave(s)
    PROVE  /\ TInv' /\ WordsGo({s}, {}) /\ Head(ctl[s]) = ctl[s][1] /\ ctl[s][1].op \in {"takenover", "replaced"}
           /\ MailGoes({}, {<<handle[s], [op |-> "linger", g |-> goal[s], sess |-> s]>>})
<1>1. ctl[s] # <<>> /\ phase[s] = "serving" /\ ctl' = Rest(s) /\ Head(ctl[s]).op \in {"takenover", "replaced"}
    BY DEF HearLeave, HearsNext
<1>2. Head(ctl[s]) = ctl[s][1] /\ ctl[s][1] \in OwnWord
    BY <1>1, FirstWord DEF TInv, Types
<1>3. WordsGo({s}, {})
    BY <1>1, WordHeard DEF TInv, Types
<1>4. MailGoes({}, {<<handle[s], [op |-> "linger", g |-> goal[s], sess |-> s]>>})
    <2>1. CASE state[s] = "InWorld" /\ Head(ctl[s]).op = "replaced" /\ Open(handle[s])
        <3>1. goal[s] \in Chars /\ handle[s] \in Handles
            BY <2>1 DEF TInv, Types, SessTypes, Phases, Holds, Open
        <3>2. [op |-> "linger", g |-> goal[s], sess |-> s] \in OwnEvent
            BY <3>1, GoingSent
        <3> QED BY <2>1, <3>1, <3>2, MailPut DEF HearLeave, TInv, Types
    <2>2. CASE ~(state[s] = "InWorld" /\ Head(ctl[s]).op = "replaced" /\ Open(handle[s]))
        <3>1. mq' = mq
            BY <2>2 DEF HearLeave
        <3> QED BY <3>1, MailSame DEF TInv, Types, MailGoes
    <2> QED BY <2>1, <2>2
<1>5. MapTypes' /\ RegTypes' /\ Born' /\ DataTypes'
    BY DEF TInv, Types, MapTypes, RegTypes, Born, DataTypes, mapsV, regV, dataV, HearLeave
<1>6. ActorTypes'
    BY <1>4 DEF TInv, Types, ActorTypes, HearLeave, MailGoes
<1>7. SessTypes'
    <2>1. state' \in [Sessions -> {"Screen", "InWorld", "Left"}]
        BY DEF TInv, Types, SessTypes, HearLeave
    <2>2. /\ phase' = [phase EXCEPT ![s] = "ending"] /\ kicked' = [kicked EXCEPT ![s] = @ \/ FALSE]
          /\ goal' = [goal EXCEPT ![s] = None] /\ handle' = [handle EXCEPT ![s] = None]
          /\ UNCHANGED <<row, existing, waits, reply, passing, logins>>
        BY DEF HearLeave, Ends
    <2> QED BY <1>3, <2>1, <2>2 DEF TInv, Types, SessTypes, WordsGo
<1>8. Phases'
    <2>1. Holds(s)' /\ phase'[s] # "releasing" /\ (phase[s] \in Ended => phase'[s] \in Ended)
        BY <1>1 DEF TInv, Types, SessTypes, Phases, Holds, HearLeave, Ends, Ended
    <2> QED BY <2>1, PhaseStep DEF TInv, Types, SessTypes, HearLeave, Ends
<1> QED BY <1>1, <1>2, <1>3, <1>4, <1>5, <1>6, <1>7, <1>8 DEF TInv, Types

-----------------------------------------------------------------------------
(* A session's end; what its client and an administrator do.              *)
LEMMA DisconnectTyped ==
    ASSUME TInv, NEW s \in Sessions, Disconnect(s)
    PROVE  /\ TInv'
           /\ \E op \in {"leave", "disconnect"} :
                 MailGoes({}, {<<handle[s], [op |-> op, g |-> goal[s], sess |-> s]>>})
<1>1. PICK op \in {"leave", "disconnect"} : op = IF kicked[s] THEN "leave" ELSE "disconnect"
    OBVIOUS
<1>2. MailGoes({}, {<<handle[s], [op |-> op, g |-> goal[s], sess |-> s]>>})
    <2>1. CASE closed \/ state[s] = "Left" \/ ~Open(handle[s])
        <3>1. mq' = mq
            BY <2>1 DEF Disconnect
        <3> QED BY <3>1, MailSame DEF TInv, Types, MailGoes
    <2>2. CASE ~(closed \/ state[s] = "Left" \/ ~Open(handle[s]))
        <3>1. mq' = Put(mq, handle[s], [op |-> op, g |-> goal[s], sess |-> s])
            BY <1>1, <2>2 DEF Disconnect
        <3>2. state[s] = "InWorld" /\ goal[s] \in Chars /\ handle[s] \in Handles
            BY <2>2 DEF TInv, Types, SessTypes, Phases, Holds, Disconnect, Open
        <3>3. [op |-> op, g |-> goal[s], sess |-> s] \in OwnEvent
            BY <3>2, GoingSent
        <3> QED BY <3>1, <3>2, <3>3, MailPut DEF TInv, Types
    <2> QED BY <2>1, <2>2
<1>3. MapTypes' /\ Born' /\ DataTypes'
    <2>1. RacesGo
        BY SessionRaces DEF Session
    <2> QED BY <2>1 DEF RacesGo, TInv, Types, MapTypes, Born, DataTypes, mapsV, Disconnect
<1>4. RegTypes'
    <2>1. online' \in {online, None} /\ current' \in {current, None} /\ omap' = omap
        BY DEF Disconnect, Released
    <2> QED BY <2>1 DEF TInv, Types, RegTypes
<1>5. ActorTypes'
    BY <1>2 DEF TInv, Types, ActorTypes, Disconnect, MailGoes
<1>6. SessTypes'
    <2>1. /\ phase' = [phase EXCEPT ![s] = "gone"] /\ state' = [state EXCEPT ![s] = "Screen"]
          /\ goal' = [goal EXCEPT ![s] = None] /\ handle' = [handle EXCEPT ![s] = None]
          /\ kicked' = [kicked EXCEPT ![s] = FALSE]
          /\ UNCHANGED <<row, existing, waits, reply, ctl, passing, logins>>
        BY DEF Disconnect
    <2> QED BY <2>1 DEF TInv, Types, SessTypes
<1>7. Phases'
    <2>1. Holds(s)' /\ phase'[s] # "releasing" /\ (phase[s] \in Ended => phase'[s] \in Ended)
        BY DEF TInv, Types, SessTypes, Phases, Holds, Disconnect, Ended
    <2> QED BY <2>1, PhaseStep DEF TInv, Types, SessTypes, Disconnect
<1> QED BY <1>2, <1>3, <1>4, <1>5, <1>6, <1>7 DEF TInv, Types

LEMMA ScreenTyped ==
    ASSUME TInv, NEW s \in Sessions, DisconnectScreen(s)
    PROVE  /\ TInv' /\ online' \in {online, None}
           /\ MailGoes({}, {})
<1>1. online' \in {online, None} /\ mq' = mq /\ MailGoes({}, {})
    BY MailSame DEF DisconnectScreen, actorV, TInv, Types
<1>2. MapTypes' /\ Born' /\ DataTypes' /\ ActorTypes'
    <2>1. UNCHANGED <<mapsV, actorV, dataV>>
        BY DEF DisconnectScreen
    <2> QED BY <2>1 DEF TInv, Types, MapTypes, Born, DataTypes, ActorTypes, mapsV, dataV, actorV
<1>3. RegTypes'
    BY <1>1 DEF TInv, Types, RegTypes, DisconnectScreen, Released
<1>5. /\ phase[s] = "ending"
      /\ \/ /\ LeftBehind(s) /\ phase' = [phase EXCEPT ![s] = "releasing"]
            /\ existing' = [existing EXCEPT ![s] = online]
         \/ phase' = [phase EXCEPT ![s] = "gone"] /\ existing' = existing
      /\ kicked' = [kicked EXCEPT ![s] = FALSE] /\ state[s] = "Screen"
      /\ UNCHANGED <<state, goal, handle, row, waits, reply, ctl, passing, logins>>
      /\ passing[s] = None
    BY DEF DisconnectScreen
<1>6. SessTypes'
    <2>1. phase' \in [Sessions -> {"new", "waiting", "serving", "login", "loading",
                                   "arriving", "asking", "ending", "releasing", "gone"}]
        BY ZenonT(40), <1>5 DEF TInv, Types, SessTypes
    <2>2. existing' \in [Sessions -> Entry \cup {None}]
        BY <1>5 DEF TInv, Types, SessTypes, RegTypes
    <2> QED BY <1>5, <2>1, <2>2 DEF TInv, Types, SessTypes
<1>7. Phases'
    <2>1. CASE phase' = [phase EXCEPT ![s] = "gone"] /\ existing' = existing
        <3>1. Holds(s)' /\ phase'[s] # "releasing" /\ (phase[s] \in Ended => phase'[s] \in Ended)
            BY <1>5, <2>1 DEF TInv, Types, SessTypes, Phases, Holds, Ended
        <3> QED BY <1>5, <2>1, <3>1, PhaseStep DEF TInv, Types, SessTypes
    <2>2. CASE /\ LeftBehind(s) /\ phase' = [phase EXCEPT ![s] = "releasing"]
               /\ existing' = [existing EXCEPT ![s] = online]
        <3>1. online \in Entry /\ online.sess \in Sessions /\ ~Hears(online.sess)
            BY <2>2, EntryIs DEF LeftBehind, TInv, Types, RegTypes
        <3>2. existing'[s] = online /\ phase'[s] = "releasing"
            BY <2>2 DEF TInv, Types, SessTypes
        <3>3. Holds(s)' /\ (phase[s] \in Ended => phase'[s] \in Ended)
            BY <1>5, <3>1, <3>2 DEF TInv, Types, SessTypes, Phases, Holds, Ended
        <3>4. \A t \in Sessions : t # s => phase'[t] = phase[t] /\ existing'[t] = existing[t]
            BY <2>2 DEF TInv, Types, SessTypes
        <3> QED BY <1>5, <3>1, <3>2, <3>3, <3>4, PhaseStep
    <2> QED BY <1>5, <2>1, <2>2
<1> QED BY <1>1, <1>2, <1>3, <1>6, <1>7 DEF TInv, Types

LEMMA ReapLeftTyped ==
    ASSUME TInv, NEW s \in Sessions, ReapLeft(s)
    PROVE  /\ TInv' /\ online' \in {online, None} /\ existing[s] \in Entry /\ ~Hears(existing[s].sess)
           /\ MailGoes({}, {<<omap[existing[s].sess], [op |-> "reap", e |-> existing[s]]>>})
<1>1. existing[s] \in Entry /\ ~Hears(existing[s].sess)
    BY DEF ReapLeft, TInv, Phases, Holds, Lets
<1>2. /\ online' \in {online, None}
      /\ MailGoes({}, {<<omap[existing[s].sess], [op |-> "reap", e |-> existing[s]]>>})
    BY <1>1, ReapMail DEF ReapLeft
<1>3. MapTypes' /\ Born' /\ DataTypes' /\ RegTypes'
    <2>1. RacesGo
        BY SessionRaces DEF Session
    <2> QED BY <1>2, <2>1 DEF RacesGo, TInv, Types, MapTypes, Born, DataTypes, RegTypes, mapsV, ReapLeft
<1>4. ActorTypes'
    BY <1>2 DEF TInv, Types, ActorTypes, ReapLeft, MailGoes
<1>5. SessTypes'
    BY DEF TInv, Types, SessTypes, ReapLeft
<1>6. Phases'
    <2>1. Holds(s)' /\ phase'[s] # "releasing" /\ (phase[s] \in Ended => phase'[s] \in Ended)
        BY DEF TInv, Types, SessTypes, Phases, Holds, ReapLeft, Ended
    <2> QED BY <2>1, PhaseStep DEF TInv, Types, SessTypes, ReapLeft
<1> QED BY <1>1, <1>2, <1>3, <1>4, <1>5, <1>6 DEF TInv, Types

LEMMA ClientTyped ==
    ASSUME TInv, NEW s \in Sessions, SendLogout(s)
    PROVE  TInv' /\ MailGoes({}, {<<handle[s], [op |-> "logout", g |-> goal[s], sess |-> s]>>})
<1>1. goal[s] \in Chars /\ handle[s] \in Handles
    BY DEF TInv, Types, SessTypes, Phases, Holds, SendLogout, Open
<1>2. MailGoes({}, {<<handle[s], [op |-> "logout", g |-> goal[s], sess |-> s]>>})
    BY <1>1, GoingSent, MailPut DEF SendLogout, TInv, Types
<1>3. MapTypes' /\ Born' /\ DataTypes' /\ RegTypes' /\ SessTypes'
    BY DEF TInv, Types, MapTypes, Born, DataTypes, RegTypes, SessTypes, mapsV, dataV, regV, sessV, SendLogout
<1>4. ActorTypes'
    BY <1>2 DEF TInv, Types, ActorTypes, SendLogout, MailGoes
<1>5. Phases'
    BY DEF TInv, Phases, Holds, Lets, Hears, SendLogout, sessV
<1> QED BY <1>2, <1>3, <1>4, <1>5 DEF TInv, Types

LEMMA KickTyped ==
    ASSUME TInv, NEW s \in Sessions, Kick(s)
    PROVE  TInv' /\ WordsGo({}, {<<s, [op |-> "kick"]>>})
<1>1. WordsGo({}, {x \in {<<s, [op |-> "kick"]>>} : Hears(s)})
    BY WordTold, PlainWord DEF Kick, TInv, Types
<1>2. MapTypes' /\ Born' /\ DataTypes' /\ RegTypes' /\ ActorTypes'
    BY DEF TInv, Types, MapTypes, Born, DataTypes, RegTypes, ActorTypes, mapsV, regV, actorV, Kick
<1>3. SessTypes'
    BY <1>1 DEF TInv, Types, SessTypes, Kick, WordsGo
<1>4. Phases'
    BY DEF TInv, Phases, Holds, Lets, Hears, Kick
<1> QED BY <1>1, <1>2, <1>3, <1>4 DEF TInv, Types, WordsGo

-----------------------------------------------------------------------------
(* The players of a map: one comes, goes or changes.                      *)
PlayerNow(h, g, p) ==
    /\ players' \in [Handles -> [Chars -> OwnPlayer \cup {None}]]
    /\ players'[h][g] = p
    /\ \A k \in Handles, c \in Chars : k # h \/ c # g => players'[k][c] = players[k][c]

LEMMA PlayerPut ==
    ASSUME ActorTypes, NEW h \in Handles, NEW g \in Chars, NEW p \in OwnPlayer \cup {None},
           players' = [players EXCEPT ![h][g] = p]
    PROVE  PlayerNow(h, g, p)
<1>1. players[h] \in [Chars -> OwnPlayer \cup {None}]
    BY DEF ActorTypes
<1> DEFINE f == [players[h] EXCEPT ![g] = p]
<1>2. f \in [Chars -> OwnPlayer \cup {None}] /\ f[g] = p /\ \A c \in Chars : c # g => f[c] = players[h][c]
    BY <1>1
<1>3. players' = [players EXCEPT ![h] = f]
    OBVIOUS
<1> HIDE DEF f
<1>4. players'[h] = f /\ \A k \in Handles : k # h => players'[k] = players[k]
    BY <1>3 DEF ActorTypes
<1>5. players' \in [Handles -> [Chars -> OwnPlayer \cup {None}]]
    BY <1>2, <1>3 DEF ActorTypes
<1> QED BY <1>2, <1>4, <1>5 DEF PlayerNow

LEMMA PlayerHere ==
    ASSUME ActorTypes, NEW h \in Handles, NEW g \in Chars, Here(h, g)
    PROVE  players[h][g] \in OwnPlayer
BY DEF ActorTypes, Here

LEMMA PlayerChanged ==
    ASSUME ActorTypes, NEW h \in Handles, NEW g \in Chars, Here(h, g), NEW q \in OwnPlayer,
           \/ players' = [players EXCEPT ![h][g].linger = TRUE] /\ q = [players[h][g] EXCEPT !.linger = TRUE]
           \/ \E due \in {players[h][g].on.sess, None} :
                 /\ players' = [players EXCEPT ![h][g].logout = due]
                 /\ q = [players[h][g] EXCEPT !.logout = due]
           \/ players' = [players EXCEPT ![h][g].ver = @ + 1] /\ q = [players[h][g] EXCEPT !.ver = @ + 1]
    PROVE  PlayerNow(h, g, q)
<1>1. players' = [players EXCEPT ![h][g] = q]
    OBVIOUS
<1> QED BY <1>1, PlayerPut

(* What a player's change keeps of them.                                  *)
LEMMA ChangedIs ==
    ASSUME NEW p \in OwnPlayer
    PROVE  /\ [p EXCEPT !.linger = TRUE] \in OwnPlayer /\ [p EXCEPT !.linger = TRUE].on = p.on
           /\ \A due \in {p.on.sess, None} :
                 [p EXCEPT !.logout = due] \in OwnPlayer /\ [p EXCEPT !.logout = due].on = p.on
           /\ [p EXCEPT !.ver = @ + 1] \in OwnPlayer /\ [p EXCEPT !.ver = @ + 1].on = p.on
           /\ \A e \in Entry : LET q == [p EXCEPT !.on = e, !.linger = FALSE, !.logout = None]
                               IN  q \in OwnPlayer /\ q.on = e
<1>1. p \in Player /\ p.logout \in {None, p.on.sess} /\ p.on \in Entry /\ p.on.sess \in Sessions
    BY OwnIs DEF OwnPlayer
<1>2. p = [on |-> p.on, ver |-> p.ver, linger |-> p.linger, logout |-> p.logout] /\ p.ver \in Nat /\ p.linger \in BOOLEAN
    BY <1>1 DEF Player
<1>3. [p EXCEPT !.linger = TRUE] \in OwnPlayer /\ [p EXCEPT !.linger = TRUE].on = p.on
    BY <1>1, <1>2 DEF OwnPlayer, Player
<1>4. ASSUME NEW due \in {p.on.sess, None}
      PROVE  [p EXCEPT !.logout = due] \in OwnPlayer /\ [p EXCEPT !.logout = due].on = p.on
    BY <1>1, <1>2 DEF OwnPlayer, Player
<1>5. [p EXCEPT !.ver = @ + 1] \in OwnPlayer /\ [p EXCEPT !.ver = @ + 1].on = p.on
    <2>1. [p EXCEPT !.ver = @ + 1] = [on |-> p.on, ver |-> p.ver + 1, linger |-> p.linger, logout |-> p.logout]
        BY <1>2
    <2>2. p.ver + 1 \in Nat
        BY <1>2
    <2> QED BY <1>1, <1>2, <2>1, <2>2 DEF OwnPlayer, Player
<1>6. ASSUME NEW e \in Entry
      PROVE  LET q == [p EXCEPT !.on = e, !.linger = FALSE, !.logout = None]
             IN  q \in OwnPlayer /\ q.on = e
    <2> DEFINE q == [p EXCEPT !.on = e, !.linger = FALSE, !.logout = None]
    <2>1. q \in Player
        BY <1>1, <1>2 DEF Player
    <2>2. q.on = e /\ q.logout = None
        BY <1>2
    <2> QED BY <2>1, <2>2 DEF OwnPlayer
<1> QED BY <1>3, <1>4, <1>5, <1>6

(* One in the map goes or starts to linger, or nobody does.               *)
Stayed == UNCHANGED <<players, leaving, saved>>
Left(h, g) ==
    /\ players[h][g] \in OwnPlayer /\ PlayerNow(h, g, None)
    /\ leaving' \in [Handles -> Departure \cup {None}]
    /\ leaving'[h].g = g /\ leaving'[h].sess = players[h][g].on.sess
    /\ \A k \in Handles : k # h => leaving'[k] = leaving[k]
    /\ saved' = [saved EXCEPT ![g] = players[h][g].ver]
Lingered(h, g) ==
    /\ players[h][g] \in OwnPlayer /\ [players[h][g] EXCEPT !.linger = TRUE] \in OwnPlayer
    /\ PlayerNow(h, g, [players[h][g] EXCEPT !.linger = TRUE])
    /\ UNCHANGED <<leaving, saved>>

LEMMA LeavesIs ==
    ASSUME Types, NEW h \in Handles, NEW g \in Chars, NEW told \in BOOLEAN, Here(h, g), Leaves(h, g, told)
    PROVE  Left(h, g)
<1>1. players[h][g] \in OwnPlayer /\ players[h][g].on.sess \in Sessions
    BY PlayerHere, OwnIs DEF Types
<1>2. PlayerNow(h, g, None)
    BY PlayerPut DEF Leaves, Types
<1> DEFINE d == [g |-> g, sess |-> players[h][g].on.sess, told |-> told]
<1>3. d \in Departure /\ d.g = g /\ d.sess = players[h][g].on.sess
    BY <1>1 DEF Departure
<1>4. leaving' = [leaving EXCEPT ![h] = d] /\ saved' = [saved EXCEPT ![g] = players[h][g].ver]
    BY DEF Leaves
<1> HIDE DEF d
<1>5. /\ leaving' \in [Handles -> Departure \cup {None}] /\ leaving'[h] = d
      /\ \A k \in Handles : k # h => leaving'[k] = leaving[k]
    BY <1>3, <1>4 DEF Types, ActorTypes
<1> QED BY <1>1, <1>2, <1>3, <1>4, <1>5 DEF Left

LEMMA LingersIs ==
    ASSUME Types, NEW h \in Handles, NEW g \in Chars, Here(h, g), Lingers(h, g)
    PROVE  Lingered(h, g)
<1>1. players[h][g] \in OwnPlayer
    BY PlayerHere DEF Types
<1>2. [players[h][g] EXCEPT !.linger = TRUE] \in OwnPlayer
    BY <1>1, ChangedIs
<1>3. PlayerNow(h, g, [players[h][g] EXCEPT !.linger = TRUE])
    BY <1>2, PlayerChanged DEF Lingers, Types
<1> QED BY <1>1, <1>2, <1>3 DEF Lingered, Lingers

LEMMA ClientGoneIs ==
    ASSUME Types, NEW h \in Handles, NEW g \in Chars, Here(h, g), ClientGone(h, g)
    PROVE  Left(h, g) \/ Lingered(h, g)
BY LeavesIs, LingersIs DEF ClientGone

LEMMA LeavingTyped ==
    ASSUME Types, NEW h \in Handles, NEW g \in Chars, Stayed \/ Left(h, g) \/ Lingered(h, g)
    PROVE  /\ players' \in [Handles -> [Chars -> OwnPlayer \cup {None}]]
           /\ leaving' \in [Handles -> Departure \cup {None}]
           /\ saved' \in [Chars -> Nat]
<1>1. CASE Stayed
    BY <1>1 DEF Types, ActorTypes, DataTypes, Stayed
<1>2. CASE Left(h, g)
    <2>1. players[h][g].ver \in Nat
        BY <1>2, OwnIs DEF Left
    <2> QED BY <1>2, <2>1 DEF Types, DataTypes, Left, PlayerNow
<1>3. CASE Lingered(h, g)
    BY <1>3 DEF Types, ActorTypes, DataTypes, Lingered, PlayerNow
<1> QED BY <1>1, <1>2, <1>3

LEMMA UnansweredTyped ==
    ASSUME SessTypes, NEW events
    PROVE  Unanswered(events) \in [Sessions -> Handles \cup {None, No}]
BY DEF SessTypes, Unanswered

(* A map's step that changes nothing of the sessions but words and answers. *)
LEMMA PhasesKept ==
    ASSUME TInv, UNCHANGED <<phase, state, goal, existing, waits, passing>>
    PROVE  Phases'
BY DEF TInv, Phases, Holds, Lets, Hears

-----------------------------------------------------------------------------
(* A map's events.                                                        *)
LEMMA LeaveDoneTyped ==
    ASSUME TInv, NEW h \in Handles, LeaveDone(h)
    PROVE  /\ TInv' /\ leaving[h] \in Departure /\ leaving'[h] = None
           /\ WordsGo({}, {x \in {<<leaving[h].sess, [op |-> "loggedout"]>>} : Hears(leaving[h].sess)})
<1>1. leaving[h] \in Departure /\ leaving[h].sess \in Sessions
    BY DEF LeaveDone, TInv, Types, ActorTypes, Departure
<1>2. leaving' = [leaving EXCEPT ![h] = None]
    BY DEF LeaveDone
<1>3. WordsGo({}, {x \in {<<leaving[h].sess, [op |-> "loggedout"]>>} : Hears(leaving[h].sess)})
    <2>1. CASE leaving[h].told
        BY <1>1, <2>1, WordTold, PlainWord DEF LeaveDone, TInv, Types
    <2>2. CASE ~leaving[h].told
        BY <2>2, WordsSame DEF LeaveDone, TInv, Types, WordsGo
    <2> QED BY <2>1, <2>2
<1>4. MapTypes' /\ Born' /\ DataTypes'
    BY DEF TInv, Types, MapTypes, Born, DataTypes, mapsV, dataV, LeaveDone
<1>5. RegTypes'
    <2>1. online' \in {online, None} /\ omap' = omap /\ current' = current
        BY DEF LeaveDone, Offline
    <2> QED BY <2>1 DEF TInv, Types, RegTypes
<1>6. ActorTypes' /\ leaving'[h] = None
    BY <1>2 DEF TInv, Types, ActorTypes, LeaveDone
<1>7. SessTypes'
    BY <1>3 DEF TInv, Types, SessTypes, LeaveDone, WordsGo
<1>8. Phases'
    BY PhasesKept DEF LeaveDone
<1> QED BY <1>1, <1>3, <1>4, <1>5, <1>6, <1>7, <1>8 DEF TInv, Types

LEMMA HandleArriveTyped ==
    ASSUME TInv, NEW h \in Handles, HandleArrive(h)
    PROVE  /\ TInv' /\ MailGoes({h}, {}) /\ Event1(h) = mq[h][1] /\ 1 \in Box(h) /\ mq[h][1].op = "arrive"
           /\ mq[h][1].p \in OwnPlayer /\ PlayerNow(h, mq[h][1].p.on.g, mq[h][1].p)
           /\ omap' = [omap EXCEPT ![mq[h][1].p.on.sess] = h]
<1>1. mq[h] # <<>> /\ Event1(h).op = "arrive"
    BY DEF HandleArrive, Takes, Event1
<1>2. Event1(h) = mq[h][1] /\ 1 \in Box(h) /\ mq[h][1].p \in OwnPlayer
    BY <1>1, FirstEvent DEF TInv, Types
<1> DEFINE p == mq[h][1].p
<1>3. p.on.g \in Chars /\ p.on.sess \in Sessions
    BY <1>2, OwnIs
<1>4. players' = [players EXCEPT ![h][p.on.g] = p] /\ omap' = [omap EXCEPT ![p.on.sess] = h] /\ mq' = Taken(h)
    BY <1>2 DEF HandleArrive
<1>5. MailGoes({h}, {})
    BY <1>1, <1>4, MailTaken DEF TInv, Types
<1>6. PlayerNow(h, p.on.g, p)
    BY <1>2, <1>3, <1>4, PlayerPut DEF TInv, Types
<1>7. MapTypes' /\ Born' /\ DataTypes' /\ SessTypes'
    BY DEF TInv, Types, MapTypes, Born, DataTypes, SessTypes, mapsV, dataV, sessV, HandleArrive
<1>8. RegTypes'
    BY <1>3, <1>4 DEF TInv, Types, RegTypes, HandleArrive
<1>9. ActorTypes'
    BY <1>5, <1>6 DEF TInv, Types, ActorTypes, HandleArrive, MailGoes, PlayerNow
<1>10. Phases'
    BY PhasesKept DEF HandleArrive, sessV
<1> QED BY <1>1, <1>2, <1>4, <1>5, <1>6, <1>7, <1>8, <1>9, <1>10 DEF TInv, Types

(* One is here still the same, but for a logout under way.                *)
LEMMA HandleLogoutTyped ==
    ASSUME TInv, NEW h \in Handles, HandleLogout(h)
    PROVE  /\ TInv' /\ MailGoes({h}, {}) /\ mq[h][1].op = "logout"
           /\ \/ players' = players
              \/ \E g \in Chars, q \in OwnPlayer :
                    /\ Here(h, g) /\ PlayerNow(h, g, q) /\ q.on = players[h][g].on
<1>1. mq[h] # <<>> /\ Event1(h).op = "logout" /\ mq' = Taken(h)
    BY DEF HandleLogout, Takes, Event1
<1>2. Event1(h) = mq[h][1] /\ Event1(h).g \in Chars /\ Event1(h).sess \in Sessions
    BY <1>1, FirstEvent DEF TInv, Types
<1>3. MailGoes({h}, {})
    BY <1>1, MailTaken DEF TInv, Types
<1>4. \/ players' = players
      \/ \E g \in Chars, q \in OwnPlayer :
            /\ Here(h, g) /\ PlayerNow(h, g, q) /\ q.on = players[h][g].on
    <2> DEFINE g == Event1(h).g
    <2>1. CASE Here(h, g) /\ Theirs(h, Event1(h))
        <3>1. players[h][g] \in OwnPlayer /\ players[h][g].on.sess = Event1(h).sess
            BY <1>2, <2>1, PlayerHere DEF TInv, Types, Theirs
        <3>2. PICK due \in {players[h][g].on.sess, None} : players' = [players EXCEPT ![h][g].logout = due]
            BY <2>1, <3>1 DEF HandleLogout
        <3> DEFINE q == [players[h][g] EXCEPT !.logout = due]
        <3>3. q \in OwnPlayer /\ q.on = players[h][g].on
            BY <3>1, ChangedIs
        <3>4. PlayerNow(h, g, q)
            BY <1>2, <2>1, <3>2, <3>3, PlayerChanged DEF TInv, Types
        <3> QED BY <1>2, <2>1, <3>3, <3>4
    <2>2. CASE ~(Here(h, g) /\ Theirs(h, Event1(h)))
        BY <2>2 DEF HandleLogout
    <2> QED BY <2>1, <2>2
<1>5. players' \in [Handles -> [Chars -> OwnPlayer \cup {None}]]
    BY <1>4 DEF TInv, Types, ActorTypes, PlayerNow
<1>6. MapTypes' /\ Born' /\ DataTypes' /\ SessTypes' /\ RegTypes'
    BY DEF TInv, Types, MapTypes, Born, DataTypes, SessTypes, RegTypes, mapsV, dataV, sessV, regV, HandleLogout
<1>7. ActorTypes'
    BY <1>3, <1>5 DEF TInv, Types, ActorTypes, HandleLogout, MailGoes
<1>8. Phases'
    BY PhasesKept DEF HandleLogout, sessV
<1> QED BY <1>1, <1>2, <1>3, <1>4, <1>6, <1>7, <1>8 DEF TInv, Types

LEMMA HandleGoneTyped ==
    ASSUME TInv, NEW h \in Handles, HandleGone(h)
    PROVE  /\ TInv' /\ MailGoes({h}, {}) /\ mq[h][1].op \in {"disconnect", "leave", "linger"}
           /\ \/ Stayed
              \/ \E g \in Chars : Here(h, g) /\ (Left(h, g) \/ Lingered(h, g))
<1>1. mq[h] # <<>> /\ Event1(h).op \in {"disconnect", "leave", "linger"} /\ mq' = Taken(h)
    BY DEF HandleGone, Takes, Event1
<1>2. Event1(h) = mq[h][1] /\ Event1(h).g \in Chars
    BY <1>1, FirstEvent DEF TInv, Types
<1>3. MailGoes({h}, {})
    BY <1>1, MailTaken DEF TInv, Types
<1>4. \/ Stayed
      \/ \E g \in Chars : Here(h, g) /\ (Left(h, g) \/ Lingered(h, g))
    <2> DEFINE g == Event1(h).g
    <2>1. CASE ~Here(h, g) \/ ~Theirs(h, Event1(h))
        BY <2>1 DEF HandleGone, Stays, Stayed
    <2>2. CASE Here(h, g) /\ Theirs(h, Event1(h))
        <3>1. ClientGone(h, g) \/ Leaves(h, g, FALSE) \/ Lingers(h, g) \/ Stays
            BY <1>1, <2>2 DEF HandleGone
        <3> QED BY <1>2, <2>2, <3>1, ClientGoneIs, LeavesIs, LingersIs DEF TInv, Stays, Stayed
    <2> QED BY <2>1, <2>2
<1>5. /\ players' \in [Handles -> [Chars -> OwnPlayer \cup {None}]]
      /\ leaving' \in [Handles -> Departure \cup {None}] /\ saved' \in [Chars -> Nat]
    BY <1>2, <1>4, LeavingTyped DEF TInv
<1>6. MapTypes' /\ Born' /\ SessTypes' /\ RegTypes'
    BY DEF TInv, Types, MapTypes, Born, SessTypes, RegTypes, mapsV, sessV, regV, HandleGone
<1>7. ActorTypes' /\ DataTypes'
    BY <1>3, <1>5 DEF TInv, Types, ActorTypes, DataTypes, HandleGone, MailGoes
<1>8. Phases'
    BY PhasesKept DEF HandleGone, sessV
<1> QED BY <1>1, <1>2, <1>3, <1>4, <1>6, <1>7, <1>8 DEF TInv, Types

LEMMA HandleReapTyped ==
    ASSUME TInv, NEW h \in Handles, HandleReap(h)
    PROVE  /\ TInv' /\ MailGoes({h}, {}) /\ 1 \in Box(h) /\ mq[h][1].op = "reap" /\ mq[h][1].e \in Entry
           /\ \/ /\ online' = online
                 /\ \E g \in Chars : Here(h, g) /\ (Left(h, g) \/ Lingered(h, g))
              \/ /\ Stayed /\ ~Here(h, mq[h][1].e.g)
                 /\ online' = IF online = mq[h][1].e THEN None ELSE online
<1>1. mq[h] # <<>> /\ Event1(h).op = "reap" /\ mq' = Taken(h)
    BY DEF HandleReap, Takes, Event1
<1>2. Event1(h) = mq[h][1] /\ Event1(h).e \in Entry /\ Event1(h).e.g \in Chars /\ 1 \in Box(h)
    BY <1>1, FirstEvent, EntryIs DEF TInv, Types
<1>3. MailGoes({h}, {})
    BY <1>1, MailTaken DEF TInv, Types
<1>4. \/ /\ online' = online
         /\ \E g \in Chars : Here(h, g) /\ (Left(h, g) \/ Lingered(h, g))
      \/ /\ Stayed /\ ~Here(h, mq[h][1].e.g)
         /\ online' = IF online = mq[h][1].e THEN None ELSE online
    <2> DEFINE g == Event1(h).e.g
    <2>1. CASE ~Here(h, g)
        BY <1>2, <2>1 DEF HandleReap, Stays, Stayed
    <2>2. CASE Here(h, g)
        <3>1. ClientGone(h, g) /\ online' = online
            BY <2>2 DEF HandleReap
        <3> QED BY <1>2, <2>2, <3>1, ClientGoneIs DEF TInv
    <2> QED BY <2>1, <2>2
<1>5. /\ players' \in [Handles -> [Chars -> OwnPlayer \cup {None}]]
      /\ leaving' \in [Handles -> Departure \cup {None}] /\ saved' \in [Chars -> Nat]
    BY <1>2, <1>4, LeavingTyped DEF TInv
<1>6. MapTypes' /\ Born' /\ SessTypes'
    BY DEF TInv, Types, MapTypes, Born, SessTypes, mapsV, sessV, HandleReap
<1>7. RegTypes'
    BY <1>4 DEF TInv, Types, RegTypes, HandleReap
<1>8. ActorTypes' /\ DataTypes'
    BY <1>3, <1>5 DEF TInv, Types, ActorTypes, DataTypes, HandleReap, MailGoes
<1>9. Phases'
    BY PhasesKept DEF HandleReap, sessV
<1> QED BY <1>1, <1>2, <1>3, <1>4, <1>6, <1>7, <1>8, <1>9 DEF TInv, Types

(* A take-over: the entry is the new login's, or they are refused.        *)
LEMMA TakeOverTyped ==
    ASSUME TInv, NEW h \in Handles, HandleTakeOver(h)
    PROVE  /\ TInv' /\ MailGoes({h}, {}) /\ 1 \in Box(h) /\ mq[h][1].op = "takeover"
           /\ mq[h][1].old \in Entry /\ mq[h][1].new \in Entry /\ mq[h][1].old.g = mq[h][1].new.g
           /\ LET old == mq[h][1].old  new == mq[h][1].new IN
              \/ /\ Replaces(h, old) /\ online' = new /\ omap' = [omap EXCEPT ![new.sess] = h]
                 /\ WordsGo({}, {<<old.sess, [op |-> "takenover"]>>})
                 /\ reply' = [reply EXCEPT ![new.sess] = h]
                 /\ \E q \in OwnPlayer : PlayerNow(h, old.g, q) /\ q.on = new
              \/ /\ UNCHANGED <<players, online, omap, ctl>> /\ reply' = [reply EXCEPT ![new.sess] = No]
<1>1. mq[h] # <<>> /\ Event1(h).op = "takeover" /\ mq' = Taken(h)
    BY DEF HandleTakeOver, Takes, Event1
<1>2. Event1(h) = mq[h][1] /\ 1 \in Box(h)
      /\ mq[h][1].old \in Entry /\ mq[h][1].new \in Entry /\ mq[h][1].old.g = mq[h][1].new.g
    BY <1>1, FirstEvent DEF TInv, Types
<1> DEFINE old == mq[h][1].old
           new == mq[h][1].new
<1>3. /\ old \in Entry /\ new \in Entry /\ old.g \in Chars /\ old.sess \in Sessions
      /\ new.g = old.g /\ new.sess \in Sessions
    BY <1>2, EntryIs
<1>4. MailGoes({h}, {})
    BY <1>1, MailTaken DEF TInv, Types
<1>5. \/ /\ Replaces(h, old) /\ Listed(h, new) /\ HasClient(h, new)
         /\ ctl' = Tell(ctl, old.sess, [op |-> "takenover"]) /\ reply' = [reply EXCEPT ![new.sess] = h]
      \/ Refuses(new.sess) /\ UNCHANGED <<online, omap, players, ctl>>
    BY <1>2 DEF HandleTakeOver
<1> HIDE DEF old, new
<1>6. MapTypes' /\ Born' /\ DataTypes'
    BY DEF TInv, Types, MapTypes, Born, DataTypes, mapsV, dataV, HandleTakeOver
<1>7. Phases'
    BY PhasesKept DEF HandleTakeOver
<1>8. CASE Refuses(new.sess) /\ UNCHANGED <<online, omap, players, ctl>>
    <2>1. RegTypes' /\ ActorTypes'
        BY <1>4, <1>8 DEF TInv, Types, RegTypes, ActorTypes, HandleTakeOver, MailGoes
    <2>2. SessTypes'
        BY <1>8 DEF TInv, Types, SessTypes, HandleTakeOver, Refuses
    <2> QED BY <1>1, <1>2, <1>4, <1>6, <1>7, <1>8, <2>1, <2>2 DEF TInv, Types, Refuses, old, new
<1>9. CASE /\ Replaces(h, old) /\ Listed(h, new) /\ HasClient(h, new)
           /\ ctl' = Tell(ctl, old.sess, [op |-> "takenover"]) /\ reply' = [reply EXCEPT ![new.sess] = h]
    <2>1. WordsGo({}, {x \in {<<old.sess, [op |-> "takenover"]>>} : Hears(old.sess)})
        BY <1>3, <1>9, WordTold, PlainWord DEF TInv, Types
    <2>2. online' = new /\ omap' = [omap EXCEPT ![new.sess] = h]
        BY <1>9 DEF Listed
    <2>3. RegTypes'
        BY <1>3, <2>2 DEF TInv, Types, RegTypes, HandleTakeOver
    <2>4. SessTypes'
        <3>1. ctl' \in [Sessions -> Seq(OwnWord)]
            BY <2>1 DEF WordsGo
        <3>2. reply' \in [Sessions -> Handles \cup {None, No}]
            BY <1>3, <1>9 DEF TInv, Types, SessTypes
        <3> QED BY <3>1, <3>2 DEF TInv, Types, SessTypes, HandleTakeOver
    <2>5. players' = [players EXCEPT ![h][new.g] = [@ EXCEPT !.on = new, !.linger = FALSE, !.logout = None]]
        BY <1>9 DEF HasClient
    <2> DEFINE q == [players[h][old.g] EXCEPT !.on = new, !.linger = FALSE, !.logout = None]
    <2>6. q \in OwnPlayer /\ q.on = new
        <3>1. players[h][old.g] \in OwnPlayer
            BY <1>3, <1>9, PlayerHere DEF TInv, Types, Replaces
        <3> QED BY <1>3, <3>1, ChangedIs
    <2>7. players' = [players EXCEPT ![h][old.g] = q]
        BY <1>3, <2>5
    <2> HIDE DEF q
    <2>8. PlayerNow(h, old.g, q)
        BY <1>3, <2>6, <2>7, PlayerPut DEF TInv, Types
    <2>9. ActorTypes'
        BY <1>4, <2>8 DEF TInv, Types, ActorTypes, HandleTakeOver, MailGoes, PlayerNow
    <2> QED BY <1>1, <1>2, <1>4, <1>6, <1>7, <1>9, <2>1, <2>2, <2>3, <2>4, <2>6, <2>8, <2>9 DEF TInv, Types, WordsGo, old, new
<1> QED BY <1>5, <1>8, <1>9

LEMMA HandedTyped ==
    ASSUME TInv, NEW h \in Handles, HandleHandedOn(h)
    PROVE  /\ TInv' /\ MailGoes({h}, {}) /\ mq[h][1].op = "handedon"
           /\ \/ Stayed
              \/ \E g \in Chars : Here(h, g) /\ (Left(h, g) \/ Lingered(h, g))
           /\ \/ WordsGo({}, {})
              \/ \E s \in Sessions, g \in Chars : WordsGo({}, {<<s, [op |-> "handedon", g |-> g, map |-> h]>>})
<1>1. mq[h] # <<>> /\ Event1(h).op = "handedon" /\ mq' = Taken(h)
    BY DEF HandleHandedOn, Takes, Event1
<1>2. Event1(h) = mq[h][1] /\ Event1(h).g \in Chars
    BY <1>1, FirstEvent DEF TInv, Types
<1>3. MailGoes({h}, {})
    BY <1>1, MailTaken DEF TInv, Types
<1> DEFINE g == Event1(h).g
           w == [op |-> "handedon", g |-> g, map |-> h]
<1>4. Stayed \/ (Here(h, g) /\ (Left(h, g) \/ Lingered(h, g)))
    <2>1. CASE ~Here(h, g) \/ (Here(h, g) /\ Hears(players[h][g].on.sess))
        BY <2>1 DEF HandleHandedOn, Stays, Stayed
    <2>2. CASE Here(h, g) /\ ~Hears(players[h][g].on.sess)
        <3>1. ClientGone(h, g)
            BY <2>2 DEF HandleHandedOn
        <3> QED BY <1>2, <2>2, <3>1, ClientGoneIs DEF TInv
    <2> QED BY <2>1, <2>2
<1>5. \/ ctl' = ctl
      \/ \E s \in Sessions : WordsGo({}, {<<s, w>>})
    <2>1. CASE ~Here(h, g) \/ (Here(h, g) /\ ~Hears(players[h][g].on.sess))
        BY <2>1 DEF HandleHandedOn
    <2>2. CASE Here(h, g) /\ Hears(players[h][g].on.sess)
        <3> DEFINE s == players[h][g].on.sess
        <3>1. s \in Sessions
            BY <1>2, <2>2, PlayerHere, OwnIs DEF TInv, Types
        <3>2. ctl' = Tell(ctl, s, w)
            BY <2>2 DEF HandleHandedOn
        <3>3. w \in OwnWord
            BY <1>2, HandedWord
        <3> HIDE DEF s, w
        <3>4. WordsGo({}, {x \in {<<s, w>>} : Hears(s)})
            BY <3>1, <3>2, <3>3, WordTold DEF TInv, Types
        <3> QED BY <3>1, <3>4 DEF WordsGo
    <2> QED BY <2>1, <2>2
<1>6. ctl' = ctl => WordsGo({}, {})
    BY WordsSame DEF TInv, Types
<1>7. ctl' \in [Sessions -> Seq(OwnWord)]
    BY <1>5, <1>6 DEF WordsGo
<1>8. /\ players' \in [Handles -> [Chars -> OwnPlayer \cup {None}]]
      /\ leaving' \in [Handles -> Departure \cup {None}] /\ saved' \in [Chars -> Nat]
    BY <1>2, <1>4, LeavingTyped DEF TInv
<1>9. MapTypes' /\ Born' /\ RegTypes'
    BY DEF TInv, Types, MapTypes, Born, RegTypes, mapsV, regV, HandleHandedOn
<1>10. ActorTypes' /\ DataTypes'
    BY <1>3, <1>8 DEF TInv, Types, ActorTypes, DataTypes, HandleHandedOn, MailGoes
<1>11. SessTypes'
    BY <1>7 DEF TInv, Types, SessTypes, HandleHandedOn
<1>12. Phases'
    BY PhasesKept DEF HandleHandedOn
<1> QED BY <1>1, <1>2, <1>3, <1>4, <1>5, <1>6, <1>9, <1>10, <1>11, <1>12 DEF TInv, Types

LEMMA HandleStopTyped ==
    ASSUME TInv, NEW h \in Handles, HandleStop(h)
    PROVE  /\ TInv' /\ mq[h][1].op \in {"stop", "shutdown"}
           /\ \/ /\ \E g \in Chars : Here(h, g) /\ Left(h, g)
                 /\ UNCHANGED <<mst, mq>>
              \/ /\ Stayed /\ (\A g \in Chars : ~Here(h, g)) /\ MailGoes({h}, {})
                 /\ mst' = [mst EXCEPT ![h] = "stopping"]
<1>1. mq[h] # <<>> /\ Event1(h).op \in {"stop", "shutdown"} /\ mst[h] = "running"
    BY DEF HandleStop, Takes, At, Event1
<1>2. Event1(h) = mq[h][1]
    BY <1>1, FirstEvent DEF TInv, Types
<1>3. \/ /\ \E g \in Chars : Here(h, g) /\ Left(h, g)
         /\ UNCHANGED <<mst, mq>>
      \/ /\ Stayed /\ (\A g \in Chars : ~Here(h, g)) /\ MailGoes({h}, {})
         /\ mst' = [mst EXCEPT ![h] = "stopping"]
    <2>1. CASE \E g \in Chars : Here(h, g)
        <3>1. PICK g \in Chars : Here(h, g) /\ Leaves(h, g, Event1(h).op = "stop")
            BY <2>1 DEF HandleStop
        <3>2. UNCHANGED <<mst, mq>>
            BY <2>1 DEF HandleStop
        <3>3. PICK told \in BOOLEAN : told = (Event1(h).op = "stop")
            OBVIOUS
        <3>4. Left(h, g)
            BY <3>1, <3>3, LeavesIs DEF TInv
        <3> QED BY <3>1, <3>2, <3>4
    <2>2. CASE \A g \in Chars : ~Here(h, g)
        <3>1. Stayed /\ mst' = [mst EXCEPT ![h] = "stopping"] /\ mq' = Taken(h)
            BY <2>2 DEF HandleStop, Stays, Stayed
        <3>2. MailGoes({h}, {})
            BY <1>1, <3>1, MailTaken DEF TInv, Types
        <3> QED BY <2>2, <3>1, <3>2
    <2> QED BY <2>1, <2>2
<1>4. /\ players' \in [Handles -> [Chars -> OwnPlayer \cup {None}]]
      /\ leaving' \in [Handles -> Departure \cup {None}] /\ saved' \in [Chars -> Nat]
    <2>1. CASE \E g \in Chars : Here(h, g) /\ Left(h, g)
        BY <2>1, LeavingTyped DEF TInv
    <2>2. CASE Stayed
        BY <2>2 DEF Stayed, TInv, Types, ActorTypes, DataTypes
    <2> QED BY <1>3, <2>1, <2>2
<1>5. MapTypes' /\ Born'
    BY <1>1, <1>3 DEF TInv, Types, MapTypes, ActorTypes, Born, HandleStop
<1>6. RegTypes' /\ SessTypes'
    BY DEF TInv, Types, RegTypes, SessTypes, regV, sessV, HandleStop
<1>7. ActorTypes' /\ DataTypes'
    <2>1. mq' \in [Handles -> Seq(OwnEvent)]
        BY <1>3 DEF MailGoes, TInv, Types, ActorTypes
    <2> QED BY <1>4, <2>1 DEF TInv, Types, ActorTypes, DataTypes, HandleStop
<1>8. Phases'
    BY PhasesKept DEF HandleStop, sessV
<1> QED BY <1>1, <1>2, <1>3, <1>5, <1>6, <1>7, <1>8 DEF TInv, Types

-----------------------------------------------------------------------------
(* What a map does of its own.                                            *)
LEMMA ProgressTyped ==
    ASSUME TInv, NEW h \in Handles, NEW g \in Chars, Progress(h, g)
    PROVE  /\ TInv' /\ Here(h, g)
           /\ \E q \in OwnPlayer : PlayerNow(h, g, q) /\ q.on = players[h][g].on
<1>1. Here(h, g) /\ players[h][g] \in OwnPlayer /\ players[h][g].ver \in Nat
    BY PlayerHere, OwnIs DEF Progress, TInv, Types
<1> DEFINE q == [players[h][g] EXCEPT !.ver = @ + 1]
<1>2. q \in OwnPlayer /\ q.on = players[h][g].on
    BY <1>1, ChangedIs
<1>3. PlayerNow(h, g, q)
    BY <1>1, <1>2, PlayerChanged DEF Progress, TInv, Types
<1> HIDE DEF q
<1>4. MapTypes' /\ Born' /\ RegTypes' /\ SessTypes'
    BY DEF TInv, Types, MapTypes, Born, RegTypes, SessTypes, mapsV, regV, sessV, Progress
<1>5. DataTypes'
    BY <1>1 DEF TInv, Types, DataTypes, Progress
<1>6. ActorTypes'
    BY <1>3 DEF TInv, Types, ActorTypes, Progress, PlayerNow
<1>7. Phases'
    BY PhasesKept DEF Progress, sessV
<1> QED BY <1>1, <1>2, <1>3, <1>4, <1>5, <1>6, <1>7 DEF TInv, Types

LEMMA SaveDueTyped ==
    ASSUME TInv, NEW h \in Handles, NEW g \in Chars, SaveDue(h, g)
    PROVE  TInv'
<1>1. players[h][g].ver \in Nat
    BY PlayerHere, OwnIs DEF SaveDue, TInv, Types
<1>2. MapTypes' /\ Born' /\ RegTypes' /\ SessTypes' /\ ActorTypes'
    BY DEF TInv, Types, MapTypes, Born, RegTypes, SessTypes, ActorTypes, mapsV, regV, sessV, actorV, SaveDue
<1>3. DataTypes'
    BY <1>1 DEF TInv, Types, DataTypes, SaveDue
<1>4. Phases'
    BY PhasesKept DEF SaveDue, sessV
<1> QED BY <1>2, <1>3, <1>4 DEF TInv, Types

LEMMA GoesTyped ==
    ASSUME TInv, NEW h \in Handles, NEW g \in Chars,
           LogoutDue(h, g) \/ SendToScreen(h, g) \/ LingerEnd(h, g)
    PROVE  TInv' /\ Here(h, g) /\ Left(h, g)
<1>1. PICK told \in BOOLEAN : Goes(h, g, told)
    BY DEF LogoutDue, SendToScreen, LingerEnd
<1>2. Here(h, g) /\ Left(h, g)
    BY <1>1, LeavesIs DEF Goes, TInv
<1>3. MapTypes' /\ Born' /\ RegTypes' /\ SessTypes'
    BY <1>1 DEF TInv, Types, MapTypes, Born, RegTypes, SessTypes, mapsV, regV, sessV, Goes
<1>4. /\ players' \in [Handles -> [Chars -> OwnPlayer \cup {None}]]
      /\ leaving' \in [Handles -> Departure \cup {None}] /\ saved' \in [Chars -> Nat]
    BY <1>2, LeavingTyped DEF TInv
<1>5. DataTypes' /\ ActorTypes'
    BY <1>1, <1>4 DEF TInv, Types, DataTypes, ActorTypes, Goes
<1>6. Phases'
    BY <1>1, PhasesKept DEF Goes, sessV
<1> QED BY <1>2, <1>3, <1>5, <1>6 DEF TInv, Types

(* A player leaves for another map, by their session or past it.           *)
LEMMA TeleportTyped ==
    ASSUME TInv, NEW h \in Handles, NEW g \in Chars, NEW k \in Keys, Teleport(h, g, k)
    PROVE  /\ TInv' /\ Here(h, g) /\ players[h][g] \in OwnPlayer /\ PlayerNow(h, g, None)
           /\ LET p == players[h][g]  t == Target(k) IN
              \/ /\ Hears(p.on.sess) /\ MailGoes({}, {})
                 /\ WordsGo({}, {<<p.on.sess, [op |-> "transfer", p |-> p, to |-> k]>>})
                 /\ UNCHANGED <<mst, omap, mq>>
              \/ /\ ~Hears(p.on.sess) /\ Got(t) /\ WordsGo({}, {})
                 /\ omap' = [omap EXCEPT ![p.on.sess] = t]
                 /\ mq' = Put(Put(mq, t, Transferred(p)), t, [op |-> "disconnect", g |-> g, sess |-> p.on.sess])
                 /\ MailGoes({}, {<<t, Transferred(p)>>, <<t, [op |-> "disconnect", g |-> g, sess |-> p.on.sess]>>})
<1> DEFINE p == players[h][g]
           t == Target(k)
           d == [op |-> "disconnect", g |-> g, sess |-> p.on.sess]
<1>0. RacesGo
    BY MapRaces DEF Doings
<1>1. Here(h, g) /\ p \in OwnPlayer /\ p.on.sess \in Sessions
    BY PlayerHere, OwnIs DEF Teleport, TInv, Types
<1>2. PlayerNow(h, g, None)
    BY PlayerPut DEF Teleport, TInv, Types
<1>3. CASE Hears(p.on.sess)
    <2> DEFINE w == [op |-> "transfer", p |-> p, to |-> k]
    <2>1. ctl' = Tell(ctl, p.on.sess, w) /\ UNCHANGED <<cur, made, mst, mq, omap>>
        BY <1>3 DEF Teleport
    <2>2. w \in OwnWord
        BY <1>1, TransferSent
    <2> HIDE DEF w
    <2>3. WordsGo({}, {x \in {<<p.on.sess, w>>} : Hears(p.on.sess)})
        BY <1>1, <2>1, <2>2, WordTold DEF TInv, Types
    <2>4. WordsGo({}, {<<p.on.sess, w>>})
        BY <2>3 DEF WordsGo
    <2>5. MailGoes({}, {})
        BY <2>1, MailSame DEF TInv, Types
    <2>6. MapTypes' /\ Born' /\ RegTypes' /\ DataTypes'
        BY <1>0, <2>1 DEF RacesGo, TInv, Types, MapTypes, Born, RegTypes, DataTypes, Teleport
    <2>7. ActorTypes'
        BY <1>2, <2>5 DEF TInv, Types, ActorTypes, Teleport, MailGoes, PlayerNow
    <2>8. SessTypes'
        BY <2>3 DEF TInv, Types, SessTypes, Teleport, WordsGo
    <2>9. Phases'
        BY PhasesKept DEF Teleport
    <2> QED BY <1>1, <1>2, <1>3, <2>1, <2>4, <2>5, <2>6, <2>7, <2>8, <2>9 DEF TInv, Types, w
<1>4. CASE ~Hears(p.on.sess)
    <2>1. /\ GetMap(k) /\ ctl' = ctl /\ omap' = [omap EXCEPT ![p.on.sess] = t]
          /\ mq' = Put(Put(mq, t, Transferred(p)), t, d)
        BY <1>4 DEF Teleport
    <2>2. Got(t)
        BY <2>1, GetTyped
    <2>3. t \in Handles
        BY <2>2 DEF Got
    <2>4. Transferred(p) \in OwnEvent /\ d \in OwnEvent
        BY <1>1, ArriveSent, GoingSent DEF Transferred
    <2> HIDE DEF d, t
    <2>5. MailGoes({}, {<<t, Transferred(p)>>, <<t, d>>})
        BY <2>1, <2>3, <2>4, MailTwice DEF TInv, Types
    <2>6. WordsGo({}, {})
        BY <2>1, WordsSame DEF TInv, Types
    <2>7. MapTypes' /\ Born'
        BY <2>2, GotKeeps DEF Teleport
    <2>8. RegTypes' /\ DataTypes'
        BY <1>0, <1>1, <2>1, <2>3 DEF RacesGo, TInv, Types, RegTypes, DataTypes, Teleport
    <2>9. ActorTypes'
        BY <1>2, <2>5 DEF TInv, Types, ActorTypes, Teleport, MailGoes, PlayerNow
    <2>10. SessTypes'
        BY <2>1 DEF TInv, Types, SessTypes, Teleport
    <2>11. Phases'
        BY PhasesKept DEF Teleport
    <2> QED BY <1>1, <1>2, <1>4, <2>1, <2>2, <2>5, <2>6, <2>7, <2>8, <2>9, <2>10, <2>11 DEF TInv, Types, t, d
<1> QED BY <1>3, <1>4

-----------------------------------------------------------------------------
(* Copies that stop, and the shutdown.                                    *)
LEMMA StopMail ==
    ASSUME TInv, NEW k \in Keys, Stop(k)
    PROVE  /\ MailGoes({}, {<<<<k, cur[k]>>, [op |-> "stop"]>>})
           /\ cur' \in [Keys -> Nat] /\ \A j \in Keys : cur'[j] \in {0, cur[j]}
<1>1. cur' \in [Keys -> Nat] /\ \A j \in Keys : cur'[j] \in {0, cur[j]}
    BY DEF TInv, Types, MapTypes, Stop
<1>2. CASE Runs(k)
    <2>1. cur[k] \in Nat /\ made[k] \in Nat /\ Starts(k) \in Nat /\ cur[k] <= made[k] /\ made[k] <= Starts(k) /\ cur[k] # 0
        BY <1>2, HandleIs DEF TInv, Types, MapTypes, Born, Runs
    <2>2. <<k, cur[k]>> \in Handles
        BY <2>1, HandleIs
    <2> QED BY <1>1, <1>2, <2>2, MailPut, StopSent DEF Stop, TInv, Types
<1>3. CASE ~Runs(k)
    <2>1. mq' = mq
        BY <1>3 DEF Stop
    <2> QED BY <1>1, <2>1, MailSame DEF TInv, Types, MailGoes
<1> QED BY <1>2, <1>3

LEMMA StoppedTyped ==
    ASSUME TInv,
           \/ \E h \in Handles : Unload(h)
           \/ \E k \in Copies : ResetStops(k)
    PROVE  /\ TInv' /\ \E k \in Keys : MailGoes({}, {<<<<k, cur[k]>>, [op |-> "stop"]>>})
<1>1. CASE \E h \in Handles : Unload(h)
    <2>1. PICK h \in Handles : Unload(h)
        BY <1>1
    <2>2. h[1] \in Keys /\ Stop(h[1])
        BY <2>1, HandleIs DEF Unload
    <2>3. /\ MailGoes({}, {<<<<h[1], cur[h[1]]>>, [op |-> "stop"]>>})
          /\ cur' \in [Keys -> Nat] /\ \A j \in Keys : cur'[j] \in {0, cur[j]}
        BY <2>2, StopMail
    <2>4. MapTypes'
        BY <2>1, <2>3 DEF TInv, Types, MapTypes, Unload
    <2>5. Born'
        <3>1. \A j \in Keys : made'[j] <= Starts(j) /\ cur'[j] <= made'[j]
            BY <2>1, <2>3 DEF TInv, Types, MapTypes, Born, Unload
        <3>2. mst[h] = "running" /\ mst' = [mst EXCEPT ![h] = "stopping"] /\ made' = made /\ next' = next
            BY <2>1 DEF Unload, At
        <3> QED BY <3>1, <3>2 DEF TInv, Types, MapTypes, ActorTypes, Born
    <2>6. RegTypes' /\ SessTypes' /\ DataTypes'
        BY <2>1 DEF TInv, Types, RegTypes, SessTypes, DataTypes, regV, sessV, dataV, Unload
    <2>7. ActorTypes'
        BY <2>1, <2>3 DEF TInv, Types, ActorTypes, Unload, MailGoes
    <2>8. Phases'
        BY <2>1, PhasesKept DEF Unload, sessV
    <2> QED BY <2>2, <2>3, <2>4, <2>5, <2>6, <2>7, <2>8 DEF TInv, Types
<1>2. CASE \E k \in Copies : ResetStops(k)
    <2>1. PICK k \in Copies : ResetStops(k)
        BY <1>2
    <2>2. k \in Keys /\ Stop(k)
        BY <2>1 DEF ResetStops, Keys
    <2>3. /\ MailGoes({}, {<<<<k, cur[k]>>, [op |-> "stop"]>>})
          /\ cur' \in [Keys -> Nat] /\ \A j \in Keys : cur'[j] \in {0, cur[j]}
        BY <2>2, StopMail
    <2>4. MapTypes'
        BY <2>1, <2>3 DEF TInv, Types, MapTypes, ResetStops
    <2>5. Born'
        <3>1. \A j \in Keys : made'[j] <= Starts(j) /\ cur'[j] <= made'[j]
            BY <2>1, <2>3 DEF TInv, Types, MapTypes, Born, ResetStops
        <3> QED BY <2>1, <3>1 DEF TInv, Born, ResetStops
    <2>6. RegTypes' /\ SessTypes' /\ DataTypes'
        BY <2>1 DEF TInv, Types, RegTypes, SessTypes, DataTypes, regV, sessV, dataV, ResetStops
    <2>7. ActorTypes'
        BY <2>1, <2>3 DEF TInv, Types, ActorTypes, ResetStops, MailGoes
    <2>8. Phases'
        BY <2>1, PhasesKept DEF ResetStops, sessV
    <2> QED BY <2>2, <2>3, <2>4, <2>5, <2>6, <2>7, <2>8 DEF TInv, Types
<1> QED BY <1>1, <1>2

LEMMA ResetTyped ==
    ASSUME TInv, NEW k \in Copies, Reset(k)
    PROVE  TInv'
<1>1. MapTypes'
    BY DEF TInv, Types, MapTypes, Reset
<1>2. Born'
    BY DEF TInv, Born, Reset, actorV
<1>3. ActorTypes' /\ RegTypes' /\ SessTypes' /\ DataTypes'
    BY DEF TInv, Types, ActorTypes, RegTypes, SessTypes, DataTypes, actorV, regV, sessV, dataV, Reset
<1>4. Phases'
    BY PhasesKept DEF Reset, sessV
<1> QED BY <1>1, <1>2, <1>3, <1>4 DEF TInv, Types

LEMMA FinishTyped ==
    ASSUME TInv, NEW h \in Handles, Finish(h)
    PROVE  /\ TInv' /\ mst[h] = "stopping" /\ MailGoes({}, {})
           /\ mq' \in {mq, [mq EXCEPT ![h] = <<>>]}
           /\ mst' = [mst EXCEPT ![h] = mst'[h]] /\ mst'[h] \in {"standin", "gone", "letting", "handing"}
           /\ reply' \in {reply, Unanswered(mq[h])}
<1>1. mq' \in {mq, [mq EXCEPT ![h] = <<>>]}
    <2>1. [mq EXCEPT ![h] = mq[h]] = mq
        BY DEF TInv, Types, ActorTypes
    <2> QED BY <2>1 DEF Finish
<1>2. MailGoes({}, {})
    BY <1>1, MailSame, MailCleared DEF TInv, Types
<1>3. PICK x \in {"standin", "gone", "letting", "handing"} : mst' = [mst EXCEPT ![h] = x]
    <2> DEFINE coming == \E i \in 1..Len(mq[h]) : mq[h][i].op = "arrive"
    <2>1. mst' = [mst EXCEPT ![h] = IF closed THEN "standin" ELSE IF ~coming THEN "gone"
                                    ELSE IF ExpiredCopy(h[1]) THEN "letting" ELSE "handing"]
        BY DEF Finish
    <2> HIDE DEF coming
    <2> QED BY <2>1
<1>4. mst[h] = "stopping" /\ reply' \in {reply, Unanswered(mq[h])}
    BY DEF Finish
<1>5. mst'[h] = x
    BY <1>3 DEF TInv, Types, MapTypes
<1>6. MapTypes'
    BY <1>3 DEF TInv, Types, MapTypes, Finish
<1>7. Born'
    <2>1. UNCHANGED <<cur, made, next>>
        BY DEF Finish
    <2> QED BY <1>3, <1>4, <2>1 DEF TInv, Types, MapTypes, ActorTypes, Born
<1>8. ActorTypes'
    BY <1>2 DEF TInv, Types, ActorTypes, Finish, MailGoes
<1>9. RegTypes' /\ DataTypes'
    BY DEF TInv, Types, RegTypes, DataTypes, regV, dataV, Finish
<1>10. SessTypes'
    <2>1. reply' \in [Sessions -> Handles \cup {None, No}]
        BY <1>4, UnansweredTyped DEF TInv, Types, SessTypes
    <2> QED BY <2>1 DEF TInv, Types, SessTypes, Finish
<1>11. Phases'
    BY PhasesKept DEF Finish
<1> QED BY <1>1, <1>2, <1>3, <1>4, <1>5, <1>6, <1>7, <1>8, <1>9, <1>10, <1>11 DEF TInv, Types

LEMMA HandGetTyped ==
    ASSUME TInv, NEW h \in Handles, HandGet(h)
    PROVE  TInv' /\ Got(Target(h[1])) /\ mst[h] = "handing" /\ next' = [next EXCEPT ![h] = Target(h[1])]
<1>1. Got(Target(h[1]))
    BY HandleIs, GetTyped DEF HandGet
<1>2. /\ Target(h[1]) \in Handles /\ next' = [next EXCEPT ![h] = Target(h[1])]
      /\ mst[h] = "handing"
    BY <1>1 DEF HandGet, Got
<1>3. \A k \in Handles : next'[k] = next[k] \/ next'[k] = Target(h[1])
    BY <1>2 DEF TInv, Types, ActorTypes
<1>4. MapTypes' /\ Born'
    BY <1>1, <1>3, GotKeeps DEF HandGet
<1>5. ActorTypes'
    BY <1>2 DEF TInv, Types, ActorTypes, HandGet
<1>6. RegTypes' /\ SessTypes' /\ DataTypes'
    BY DEF TInv, Types, RegTypes, SessTypes, DataTypes, regV, sessV, dataV, HandGet
<1>7. Phases'
    BY PhasesKept DEF HandGet, sessV
<1> QED BY <1>1, <1>2, <1>4, <1>5, <1>6, <1>7 DEF TInv, Types

(* The actor got, or one open, isn't the one handing on.                  *)
LEMMA OtherMap ==
    ASSUME NEW h \in Handles, mst[h] \in {"handing", "letting", "gone"}, NEW t, Got(t) \/ Open(t)
    PROVE  t # h
BY DEF Got, Open

(* One on the way in goes on, or is let go; what else waits goes on or not. *)
LEMMA HandOnTyped ==
    ASSUME TInv, NEW h \in Handles, HandOn(h)
    PROVE  /\ TInv' /\ mst[h] = "handing" /\ next[h] \in Handles /\ mq[h][1] \in OwnEvent /\ 1 \in Box(h)
           /\ mq[h][1].op = "arrive" =>
                 /\ reply' = reply
                 /\ \/ /\ LetsGo(next[h]) /\ LetGo(mq[h][1], ctl) /\ MailGoes({h}, {})
                       /\ UNCHANGED <<cur, made, mst, omap, next>>
                       /\ WordsGo({}, {<<mq[h][1].p.on.sess, [op |-> "kick"]>>})
                    \/ LET t == TakenBy(next[h]) IN
                       /\ ~LetsGo(next[h]) /\ Got(t) /\ t # h /\ MailGoes({h}, {<<t, mq[h][1]>>})
                       /\ mq' = Put(Taken(h), t, mq[h][1])
                       /\ omap' = [omap EXCEPT ![mq[h][1].p.on.sess] = t]
                       /\ next' = [next EXCEPT ![h] = t] /\ UNCHANGED <<ctl, saved, online>>
           /\ mq[h][1].op # "arrive" =>
                 /\ UNCHANGED <<cur, made, mst, next, handed, omap, ctl, saved, online>>
                 /\ reply' \in {reply, Unanswered(<<mq[h][1]>>)}
                 /\ \/ mq' = Taken(h) /\ MailGoes({h}, {})
                    \/ /\ Open(next[h]) /\ next[h] # h /\ mq' = Put(Taken(h), next[h], mq[h][1])
                       /\ mq[h][1].op \notin {"stop", "shutdown"}
                       /\ MailGoes({h}, {<<next[h], mq[h][1]>>}) /\ reply' = reply
<1>1. mst[h] = "handing" /\ next[h] \in Handles /\ mq[h] # <<>>
    BY DEF HandOn, TInv, Types, ActorTypes
<1> DEFINE e == mq[h][1]
           n == next[h]
           t == TakenBy(n)
<1>2. Event1(h) = e /\ e \in OwnEvent /\ 1 \in Box(h)
    BY <1>1, FirstEvent DEF TInv, Types
<1>3. CASE e.op = "arrive"
    <2>1. e.p \in OwnPlayer /\ e.p.on.sess \in Sessions /\ e.p.on.g \in Chars
        BY <1>2, <1>3, EventIs, OwnIs
    <2>2. /\ Deliver(e, n, Taken(h), ctl) /\ reply' = reply
          /\ next' = [next EXCEPT ![h] = IF LetsGo(@) THEN @ ELSE TakenBy(@)]
          /\ handed' = IF LetsGo(n) THEN handed ELSE [handed EXCEPT ![h] = @ \cup {e.p.on.g}]
        BY <1>2, <1>3 DEF HandOn
    <2>3. \/ /\ LetsGo(n) /\ LetGo(e, ctl) /\ mq' = Taken(h)
             /\ UNCHANGED <<cur, made, mst, omap>>
          \/ /\ ~LetsGo(n) /\ Got(t) /\ mq' = Put(Taken(h), t, e)
             /\ omap' = [omap EXCEPT ![e.p.on.sess] = t] /\ UNCHANGED <<ctl, saved, online>>
        BY <1>1, <2>2, DeliverIs
    <2>4. \A k \in Handles : next'[k] = next[k] \/ (k = h /\ ~LetsGo(n) /\ next'[k] = t)
        BY <2>2 DEF TInv, Types, ActorTypes
    <2>5. handed' \in [Handles -> SUBSET Chars]
        BY <2>1, <2>2 DEF TInv, Types, ActorTypes
    <2>6. Phases'
        BY PhasesKept DEF HandOn
    <2> HIDE DEF e, n, t
    <2>7. CASE LetsGo(n)
        <3>1. next' = next
            BY <2>2, <2>4, <2>7 DEF TInv, Types, ActorTypes, n
        <3>2. MailGoes({h}, {})
            BY <1>1, <2>3, <2>7, MailTaken DEF TInv, Types
        <3>3. /\ saved' \in [Chars -> Nat] /\ online' \in {online, None}
              /\ WordsGo({}, {<<e.p.on.sess, [op |-> "kick"]>>})
            BY <1>2, <1>3, <2>3, <2>7, LetGoTyped
        <3>4. MapTypes' /\ Born'
            BY <2>3, <2>7, <3>1 DEF TInv, Types, MapTypes, Born, HandOn
        <3>5. RegTypes' /\ DataTypes'
            BY <2>3, <2>7, <3>3 DEF TInv, Types, RegTypes, DataTypes, HandOn
        <3>6. ActorTypes'
            BY <2>5, <3>1, <3>2 DEF TInv, Types, ActorTypes, HandOn, MailGoes
        <3>7. SessTypes'
            BY <2>2, <3>3 DEF TInv, Types, SessTypes, HandOn, WordsGo
        <3> QED BY <1>1, <1>2, <1>3, <2>2, <2>3, <2>6, <2>7, <3>1, <3>2, <3>3, <3>4, <3>5, <3>6, <3>7
               DEF TInv, Types, e, n, t
    <2>8. CASE ~LetsGo(n)
        <3>1. t \in Handles /\ t # h
            BY <1>1, <2>3, <2>8, OtherMap DEF Got
        <3>2. MailGoes({h}, {<<t, e>>})
            BY <1>1, <1>2, <2>3, <2>8, <3>1, MailPassed DEF TInv, Types
        <3>3. MapTypes' /\ Born'
            BY <2>3, <2>4, <2>8, GotKeeps DEF HandOn
        <3>4. RegTypes' /\ DataTypes'
            BY <2>1, <2>3, <2>8, <3>1 DEF TInv, Types, RegTypes, DataTypes, HandOn
        <3>5. next' = [next EXCEPT ![h] = t]
            BY <2>2, <2>8 DEF n, t
        <3>6. ActorTypes'
            BY <2>5, <3>1, <3>2, <3>5 DEF TInv, Types, ActorTypes, HandOn, MailGoes
        <3>7. SessTypes'
            BY <2>2, <2>3, <2>8 DEF TInv, Types, SessTypes, HandOn
        <3> QED BY <1>1, <1>2, <1>3, <2>2, <2>3, <2>6, <2>8, <3>1, <3>2, <3>3, <3>4, <3>5, <3>6, <3>7
               DEF TInv, Types, e, n, t
    <2> QED BY <2>7, <2>8
<1>4. CASE e.op # "arrive"
    <2>1. /\ mq' = IF Open(n) /\ e.op \notin {"stop", "shutdown"} THEN Put(Taken(h), n, e) ELSE Taken(h)
          /\ reply' = IF Open(n) THEN reply ELSE Unanswered(<<e>>)
          /\ UNCHANGED <<cur, made, mst, next, handed, omap, ctl, saved, online>>
        BY <1>2, <1>4 DEF HandOn
    <2>2. Phases'
        BY PhasesKept DEF HandOn
    <2> HIDE DEF e, n, t
    <2>3. \/ mq' = Taken(h) /\ MailGoes({h}, {})
          \/ /\ Open(n) /\ n # h /\ mq' = Put(Taken(h), n, e) /\ e.op \notin {"stop", "shutdown"}
             /\ MailGoes({h}, {<<n, e>>}) /\ reply' = reply
        <3>1. CASE Open(n) /\ e.op \notin {"stop", "shutdown"}
            <4>1. n # h /\ n \in Handles
                BY <1>1, <3>1, OtherMap DEF n
            <4> QED BY <1>1, <1>2, <2>1, <3>1, <4>1, MailPassed DEF TInv, Types
        <3>2. CASE ~(Open(n) /\ e.op \notin {"stop", "shutdown"})
            BY <1>1, <2>1, <3>2, MailTaken DEF TInv, Types
        <3> QED BY <3>1, <3>2
    <2>4. reply' \in {reply, Unanswered(<<e>>)} /\ reply' \in [Sessions -> Handles \cup {None, No}]
        BY <2>1, UnansweredTyped DEF TInv, Types, SessTypes
    <2>5. MapTypes' /\ Born' /\ RegTypes' /\ DataTypes'
        BY <2>1 DEF TInv, Types, MapTypes, Born, RegTypes, DataTypes, HandOn
    <2>6. ActorTypes'
        BY <2>1, <2>3 DEF TInv, Types, ActorTypes, HandOn, MailGoes
    <2>7. SessTypes'
        BY <2>1, <2>4 DEF TInv, Types, SessTypes, HandOn
    <2> QED BY <1>1, <1>2, <1>4, <2>1, <2>2, <2>3, <2>4, <2>5, <2>6, <2>7 DEF TInv, Types, e, n
<1> QED BY <1>3, <1>4

LEMMA HandedOnTyped ==
    ASSUME TInv, NEW h \in Handles, HandedOn(h)
    PROVE  /\ TInv' /\ mst[h] = "handing" /\ mq[h] = <<>>
           /\ \/ /\ mst' = [mst EXCEPT ![h] = "gone"] /\ next' = [next EXCEPT ![h] = None]
                 /\ MailGoes({}, {})
              \/ /\ UNCHANGED <<mst, next>>
                 /\ \E g \in Chars, k \in Handles : MailGoes({}, {<<k, [op |-> "handedon", g |-> g]>>})
<1>1. mst[h] = "handing" /\ next[h] \in Handles /\ mq[h] = <<>>
    BY DEF HandedOn, TInv, Types, ActorTypes
<1>2. RegTypes' /\ SessTypes' /\ DataTypes' /\ UNCHANGED <<closed, cur, made, expired, reset, players, leaving>>
    BY DEF TInv, Types, RegTypes, SessTypes, DataTypes, regV, sessV, dataV, HandedOn
<1>3. Phases'
    BY PhasesKept DEF HandedOn, sessV
<1>4. CASE handed[h] = {}
    <2>1. mst' = [mst EXCEPT ![h] = "gone"] /\ next' = [next EXCEPT ![h] = None] /\ mq' = mq /\ handed' = handed
        BY <1>4 DEF HandedOn
    <2>2. MailGoes({}, {})
        BY <2>1, MailSame DEF TInv, Types
    <2>3. MapTypes' /\ ActorTypes'
        BY <1>2, <2>1 DEF TInv, Types, MapTypes, ActorTypes
    <2>4. Born'
        BY <1>1, <1>2, <2>1 DEF TInv, Types, MapTypes, ActorTypes, Born
    <2> QED BY <1>1, <1>2, <1>3, <2>1, <2>2, <2>3, <2>4 DEF TInv, Types
<1>5. CASE handed[h] # {}
    <2>1. PICK g \in handed[h] :
             /\ mq' = IF Open(next[h]) THEN Put(mq, next[h], [op |-> "handedon", g |-> g]) ELSE mq
             /\ handed' = [handed EXCEPT ![h] = @ \ {g}]
             /\ UNCHANGED <<mst, next>>
        BY <1>5 DEF HandedOn
    <2>2. g \in Chars
        BY DEF TInv, Types, ActorTypes
    <2>3. MailGoes({}, {<<next[h], [op |-> "handedon", g |-> g]>>})
        <3>1. CASE Open(next[h])
            BY <1>1, <2>1, <2>2, <3>1, MailPut, HandedOnSent DEF TInv, Types
        <3>2. CASE ~Open(next[h])
            BY <2>1, <3>2, MailSame DEF TInv, Types, MailGoes
        <3> QED BY <3>1, <3>2
    <2>4. MapTypes' /\ Born'
        BY <1>2, <2>1 DEF TInv, Types, MapTypes, Born
    <2>5. ActorTypes'
        BY <1>2, <2>1, <2>3 DEF TInv, Types, ActorTypes, MailGoes
    <2> QED BY <1>1, <1>2, <1>3, <2>1, <2>2, <2>3, <2>4, <2>5 DEF TInv, Types
<1> QED BY <1>4, <1>5

LEMMA LetGoEachTyped ==
    ASSUME TInv, NEW h \in Handles, LetGoEach(h)
    PROVE  /\ TInv' /\ MailGoes({h}, {}) /\ mq[h][1] \in OwnEvent /\ 1 \in Box(h) /\ mst[h] \in {"standin", "letting"}
           /\ mq[h][1].op = "arrive" =>
                 /\ LetGo(mq[h][1], ctl) /\ reply' = reply
                 /\ WordsGo({}, {<<mq[h][1].p.on.sess, [op |-> "kick"]>>})
           /\ mq[h][1].op # "arrive" =>
                 reply' = Unanswered(<<mq[h][1]>>) /\ UNCHANGED <<saved, online, ctl>>
<1>1. mst[h] \in {"standin", "letting"} /\ mq[h] # <<>> /\ mq' = Taken(h)
    BY DEF LetGoEach
<1> DEFINE e == mq[h][1]
<1>2. Event1(h) = e /\ e \in OwnEvent /\ 1 \in Box(h)
    BY <1>1, FirstEvent DEF TInv, Types
<1>3. MailGoes({h}, {})
    BY <1>1, MailTaken DEF TInv, Types
<1>4. /\ e.op = "arrive" => LetGo(e, ctl) /\ reply' = reply
      /\ e.op # "arrive" => reply' = Unanswered(<<e>>) /\ UNCHANGED <<saved, online, ctl>>
    BY <1>2 DEF LetGoEach
<1> HIDE DEF e
<1>5. MapTypes' /\ Born'
    BY DEF TInv, Types, MapTypes, Born, mapsV, LetGoEach
<1>6. ActorTypes'
    BY <1>3 DEF TInv, Types, ActorTypes, LetGoEach, MailGoes
<1>7. Phases'
    BY PhasesKept DEF LetGoEach
<1>8. CASE e.op = "arrive"
    <2>1. /\ saved' \in [Chars -> Nat] /\ online' \in {online, None}
          /\ WordsGo({}, {<<e.p.on.sess, [op |-> "kick"]>>})
        BY <1>2, <1>4, <1>8, LetGoTyped
    <2>2. RegTypes' /\ DataTypes'
        BY <2>1 DEF TInv, Types, RegTypes, DataTypes, LetGoEach
    <2>3. SessTypes'
        BY <1>4, <1>8, <2>1 DEF TInv, Types, SessTypes, LetGoEach, WordsGo
    <2> QED BY <1>1, <1>2, <1>3, <1>4, <1>5, <1>6, <1>7, <1>8, <2>1, <2>2, <2>3 DEF TInv, Types, e
<1>9. CASE e.op # "arrive"
    <2>1. RegTypes' /\ DataTypes'
        BY <1>4, <1>9 DEF TInv, Types, RegTypes, DataTypes, LetGoEach
    <2>2. SessTypes'
        <3>1. reply' \in [Sessions -> Handles \cup {None, No}]
            BY <1>4, <1>9, UnansweredTyped DEF TInv, Types
        <3> QED BY <1>4, <1>9, <3>1 DEF TInv, Types, SessTypes, LetGoEach
    <2> QED BY <1>1, <1>2, <1>3, <1>4, <1>5, <1>6, <1>7, <1>9, <2>1, <2>2 DEF TInv, Types, e
<1> QED BY <1>8, <1>9

LEMMA LetGoneTyped ==
    ASSUME TInv, NEW h \in Handles, LetGone(h)
    PROVE  TInv'
<1>1. MapTypes' /\ Born'
    BY DEF TInv, Types, MapTypes, ActorTypes, Born, actorV, LetGone
<1>2. ActorTypes' /\ RegTypes' /\ SessTypes' /\ DataTypes'
    BY DEF TInv, Types, ActorTypes, RegTypes, SessTypes, DataTypes, actorV, regV, sessV, dataV, LetGone
<1>3. Phases'
    BY PhasesKept DEF LetGone, sessV
<1> QED BY <1>1, <1>2, <1>3 DEF TInv, Types

LEMMA ShutdownTyped ==
    ASSUME TInv, Shutdown
    PROVE  TInv' /\ MailGoes({}, {<<h, [op |-> "shutdown"]>> : h \in Handles})
<1> DEFINE e == [op |-> "shutdown"]
<1>1. e \in OwnEvent
    BY StopSent
<1>2. \A h \in Handles : mq'[h] \in {mq[h], Append(mq[h], e)}
    BY DEF Shutdown
<1> HIDE DEF e
<1>3. ASSUME NEW h \in Handles
      PROVE  /\ mq'[h] \in Seq(OwnEvent)
             /\ \A i \in 1..Len(mq'[h]) : \/ i \in 1..Len(mq[h]) /\ mq'[h][i] = mq[h][i]
                                          \/ i \notin 1..Len(mq[h]) /\ mq'[h][i] = e
    <2>1. mq[h] \in Seq(OwnEvent)
        BY DEF TInv, Types, ActorTypes
    <2>2. CASE mq'[h] = mq[h]
        BY <2>1, <2>2
    <2>3. CASE mq'[h] = Append(mq[h], e)
        BY <1>1, <2>1, <2>3, Appends
    <2> QED BY <1>2, <2>2, <2>3
<1>4. mq' \in [Handles -> Seq(OwnEvent)]
    <2>1. mq' = [h \in Handles |-> mq'[h]]
        BY DEF Shutdown
    <2> QED BY <1>3, <2>1
<1>5. MailGoes({}, {<<h, e>> : h \in Handles})
    BY <1>3, <1>4 DEF MailGoes, Box
<1>6. MapTypes' /\ Born' /\ RegTypes' /\ SessTypes' /\ DataTypes'
    BY DEF TInv, Types, MapTypes, Born, RegTypes, SessTypes, DataTypes, regV, sessV, dataV, Shutdown
<1>7. ActorTypes'
    BY <1>4 DEF TInv, Types, ActorTypes, Shutdown
<1>8. Phases'
    BY PhasesKept DEF Shutdown, sessV
<1> QED BY <1>5, <1>6, <1>7, <1>8 DEF TInv, Types, e

-----------------------------------------------------------------------------
LEMMA TInvInit == Init => TInv
<1> SUFFICES ASSUME Init
             PROVE  TInv
    OBVIOUS
<1>1. MapTypes /\ RegTypes /\ DataTypes
    BY DEF Init, MapTypes, RegTypes, DataTypes
<1>2. ActorTypes
    BY DEF Init, ActorTypes
<1>3. SessTypes
    BY DEF Init, SessTypes
<1>4. Born
    <2>1. \A k \in Keys : 0 <= Starts(k)
        BY HandleIs
    <2> QED BY <2>1 DEF Init, Born
<1>5. Phases
    BY DEF Init, Phases, Holds, Lets
<1> QED BY <1>1, <1>2, <1>3, <1>4, <1>5 DEF TInv, Types

LEMMA TInvNext == TInv /\ [Next]_vars => TInv'
<1> SUFFICES ASSUME TInv, [Next]_vars
             PROVE  TInv'
    OBVIOUS
<1>1. ASSUME NEW s \in Sessions, Session(s)
      PROVE  TInv'
    <2>1. CASE Begin(s) \/ WaitHeard(s) \/ LostMap(s) \/ LookNobody(s) \/ LoginFails(s) \/ TakenOver(s) \/ LookAgain(s)
        BY <2>1, OwnTyped
    <2>2. CASE LookTheirs(s)
        BY <2>2, LookTheirsTyped
    <2>3. CASE LookOther(s) \/ GivesUp(s)
        BY <2>3, KicksTyped
    <2>4. CASE \E k \in Keys : Enter(s, k) \/ Resume(s, k)
        BY <2>4, EnterTyped, ResumeTyped
    <2>5. CASE Arrive(s) \/ HearTransfer(s) \/ PassOn(s)
        BY <2>5, ArriveTyped, TransferTyped, PassOnTyped
    <2>6. CASE HearHandedOn(s) \/ HearLoggedOut(s) \/ HearKick(s) \/ DropRest(s)
        BY <2>6, HeardTyped
    <2>7. CASE HearLeave(s) \/ Disconnect(s) \/ DisconnectScreen(s) \/ ReapLeft(s)
        BY <2>7, LeaveTyped, DisconnectTyped, ScreenTyped, ReapLeftTyped
    <2> QED BY <1>1, <2>1, <2>2, <2>3, <2>4, <2>5, <2>6, <2>7 DEF Session
<1>2. ASSUME NEW s \in Sessions, Client(s) \/ Kick(s)
      PROVE  TInv'
    BY <1>2, ConnectTyped, OwnTyped, ClientTyped, KickTyped DEF Client
<1>3. ASSUME NEW h \in Handles, Map(h)
      PROVE  TInv'
    <2>1. CASE LeaveDone(h) \/ HandleArrive(h) \/ HandleLogout(h) \/ HandleGone(h) \/ HandleReap(h)
        BY <2>1, LeaveDoneTyped, HandleArriveTyped, HandleLogoutTyped, HandleGoneTyped, HandleReapTyped
    <2>2. CASE HandleTakeOver(h) \/ HandleHandedOn(h) \/ HandleStop(h) \/ Finish(h)
        BY <2>2, TakeOverTyped, HandedTyped, HandleStopTyped, FinishTyped
    <2>3. CASE HandGet(h) \/ HandOn(h) \/ HandedOn(h) \/ LetGoEach(h) \/ LetGone(h)
        BY <2>3, HandGetTyped, HandOnTyped, HandedOnTyped, LetGoEachTyped, LetGoneTyped
    <2>4. CASE \E g \in Chars : LogoutDue(h, g) \/ LingerEnd(h, g)
        BY <2>4, GoesTyped
    <2> QED BY <1>3, <2>1, <2>2, <2>3, <2>4 DEF Map
<1>4. ASSUME NEW h \in Handles, Doings(h)
      PROVE  TInv'
    BY <1>4, ProgressTyped, SaveDueTyped, GoesTyped, TeleportTyped, StoppedTyped DEF Doings
<1>5. CASE Realm
    BY <1>5, ShutdownTyped, ResetTyped, StoppedTyped DEF Realm
<1>6. CASE UNCHANGED vars
    <2>1. UNCHANGED <<mapsV, actorV, regV, sessV, dataV>>
        BY <1>6 DEF vars
    <2>2. Types'
        BY <2>1 DEF TInv, Types, MapTypes, ActorTypes, RegTypes, SessTypes, DataTypes,
                    mapsV, actorV, regV, sessV, dataV
    <2>3. Born' /\ Phases'
        BY <2>1 DEF TInv, Born, Phases, Holds, Lets, Hears, mapsV, actorV, regV, sessV, dataV
    <2> QED BY <2>2, <2>3 DEF TInv
<1> QED BY <1>1, <1>2, <1>3, <1>4, <1>5, <1>6 DEF Next

(* Of what the model is made, whatever the steps.                         *)
LEMMA TypesHold == TInv => TypeOK
<1> SUFFICES ASSUME TInv
             PROVE  TypeOK
    OBVIOUS
<1>1. cur \in [Keys -> 0..MaxStarts] /\ made \in [Keys -> 0..MaxStarts]
    <2>1. \A k \in Keys : /\ cur[k] \in Nat /\ made[k] \in Nat /\ Starts(k) \in Nat
                          /\ cur[k] <= made[k] /\ made[k] <= Starts(k) /\ Starts(k) <= MaxStarts
        BY HandleIs DEF TInv, Types, MapTypes, Born
    <2>2. \A k \in Keys : cur[k] \in 0..MaxStarts /\ made[k] \in 0..MaxStarts
        BY <2>1, WorldAssumption
    <2> QED BY <2>2 DEF TInv, Types, MapTypes
<1>2. OwnEvent \subseteq Event /\ OwnWord \subseteq Word /\ OwnPlayer \subseteq Player
    BY DEF OwnEvent, OwnWord, OwnPlayer
<1>3. /\ mq \in [Handles -> Seq(Event)] /\ ctl \in [Sessions -> Seq(Word)]
      /\ players \in [Handles -> [Chars -> Player \cup {None}]]
    <2>1. Seq(OwnEvent) \subseteq Seq(Event) /\ Seq(OwnWord) \subseteq Seq(Word)
        BY <1>2
    <2>2. [Chars -> OwnPlayer \cup {None}] \subseteq [Chars -> Player \cup {None}]
        BY <1>2
    <2> QED BY <2>1, <2>2 DEF TInv, Types, ActorTypes, SessTypes
<1>4. passing \in [Sessions -> [p : Player, to : Handles] \cup {None}]
    <2>1. Passage \subseteq [p : Player, to : Handles]
        BY <1>2 DEF Passage
    <2> QED BY <2>1 DEF TInv, Types, SessTypes
<1> QED BY <1>1, <1>3, <1>4 DEF TInv, Types, MapTypes, ActorTypes, RegTypes, SessTypes, DataTypes, Departure, TypeOK

(* TypeOK: of whatever size, the maps', sessions' and registry's state is   *)
(* of its kinds, a key never has more actors than it may.                  *)
THEOREM TypeCorrect == Spec => []TypeOK
<1>1. Spec => []TInv
    BY TInvInit, TInvNext, PTL DEF Spec
<1> QED BY <1>1, TypesHold, PTL

(* LogoutIsTheirs: a logout under way was asked for by the client who has   *)
(* the player, in a map now; it is dropped as another takes them over       *)
(* (Player::take_over), and a logout an old client sent is not heeded.      *)
THEOREM LogoutsAreTheirs == Spec => []LogoutIsTheirs
<1>1. TInv => LogoutIsTheirs
    <2> SUFFICES ASSUME TInv, NEW o \in InMap
                 PROVE  players[o[1]][o[2]].logout \in {None, players[o[1]][o[2]].on.sess}
        BY DEF LogoutIsTheirs
    <2>1. o[1] \in Handles /\ o[2] \in Chars /\ Here(o[1], o[2])
        BY DEF InMap
    <2>2. players[o[1]][o[2]] \in OwnPlayer
        BY <2>1, PlayerHere DEF TInv, Types
    <2> QED BY <2>2, OwnIs
<1>2. Spec => []TInv
    BY TInvInit, TInvNext, PTL DEF Spec
<1> QED BY <1>1, <1>2, PTL

-----------------------------------------------------------------------------
(* One place.  A player in the world is somewhere: in a map, in the mail to *)
(* one, on their session's queue, being passed on; about to be sent to the  *)
(* map they log in to, or saved and about to go offline.  There is at most *)
(* one such spot, and whoever is at it is who the online list says.        *)
AllAt(k, x, y) ==
    /\ \A h \in Handles, g \in Chars : Here(h, g) => k = "map" /\ x = h /\ y = g
    /\ \A h \in Handles : \A i \in Box(h) :
          mq[h][i].op = "arrive" => k = "mail" /\ x = h /\ y = i
    /\ \A s \in Sessions : \A i \in Words(s) :
          ctl[s][i].op = "transfer" => k = "word" /\ x = s /\ y = i
    /\ \A s \in Sessions : passing[s] # None => k = "pass" /\ x = s
    /\ \A s \in Sessions : phase[s] = "arriving" => k = "login" /\ x = s
    /\ \A h \in Handles : leaving[h] # None => k = "leaves" /\ x = h
OneSpot == \E k, x, y : AllAt(k, x, y)
NoSpots == AllAt("none", None, None)

OnList(p) == online # None /\ p.on = online
SpotsListed ==
    /\ \A h \in Handles, g \in Chars : Here(h, g) =>
          /\ OnList(players[h][g]) /\ online.g = g
          /\ omap[online.sess] = h /\ mst[h] = "running"
    /\ \A h \in Handles : \A i \in Box(h) : mq[h][i].op = "arrive" =>
          OnList(mq[h][i].p) /\ omap[online.sess] = h
    /\ \A s \in Sessions : \A i \in Words(s) : ctl[s][i].op = "transfer" =>
          OnList(ctl[s][i].p) /\ online.sess = s
    /\ \A s \in Sessions : passing[s] # None => OnList(passing[s].p) /\ online.sess = s
    /\ \A s \in Sessions : phase[s] = "arriving" =>
          online # None /\ online.sess = s /\ online.g = goal[s] /\ online.n = logins[s]
    /\ \A h \in Handles : leaving[h] # None =>
          /\ online # None /\ online.g = leaving[h].g /\ online.sess = leaving[h].sess
          /\ omap[online.sess] = h /\ mst[h] = "running"

(* What becomes of the spots in a step that adds none: who is there stays,  *)
(* moves up in a queue or goes.                                           *)
SpotsGo(P, Q, N, M) ==
    /\ \A h \in Handles, g \in Chars : Here(h, g)' => Here(h, g)
    /\ MailGoes(P, N) /\ \A x \in N : x[2].op # "arrive"
    /\ WordsGo(Q, M) /\ \A x \in M : x[2].op # "transfer"
    /\ \A s \in Sessions : passing'[s] # None => passing[s] # None
    /\ \A s \in Sessions : phase'[s] = "arriving" => phase[s] = "arriving"
    /\ \A h \in Handles : leaving'[h] # None => leaving[h] # None

(* And of who is there, on the list as before.                            *)
ListGoes ==
    /\ \A h \in Handles, g \in Chars : Here(h, g)' =>
          players'[h][g].on = players[h][g].on /\ mst'[h] = mst[h]
    /\ \A s \in Sessions : passing'[s] # None => passing'[s] = passing[s]
    /\ \A s \in Sessions : phase'[s] = "arriving" => goal'[s] = goal[s] /\ logins'[s] = logins[s]
    /\ \A h \in Handles : leaving'[h] # None => leaving'[h] = leaving[h] /\ mst'[h] = mst[h]
    /\ online' = online
    /\ online # None => omap'[online.sess] = omap[online.sess]

LEMMA MailFrom ==
    ASSUME NEW P, NEW N, MailGoes(P, N), NEW o, \A x \in N : x[2].op # o,
           NEW h \in Handles, NEW i \in Box(h)', mq'[h][i].op = o
    PROVE  LET j == IF h \in P THEN i + 1 ELSE i IN j \in Box(h) /\ mq'[h][i] = mq[h][j]
<1> DEFINE j == IF h \in P THEN i + 1 ELSE i
<1>1. \/ j \in Box(h) /\ mq'[h][i] = mq[h][j]
      \/ <<h, mq'[h][i]>> \in N
    BY DEF MailGoes
<1>2. <<h, mq'[h][i]>>[2] = mq'[h][i]
    OBVIOUS
<1> QED BY <1>1, <1>2

LEMMA WordFrom ==
    ASSUME NEW Q, NEW M, WordsGo(Q, M), NEW o, \A x \in M : x[2].op # o,
           NEW s \in Sessions, NEW i \in Words(s)', ctl'[s][i].op = o
    PROVE  LET j == IF s \in Q THEN i + 1 ELSE i IN j \in Words(s) /\ ctl'[s][i] = ctl[s][j]
<1> DEFINE j == IF s \in Q THEN i + 1 ELSE i
<1>1. \/ j \in Words(s) /\ ctl'[s][i] = ctl[s][j]
      \/ <<s, ctl'[s][i]>> \in M
    BY DEF WordsGo
<1>2. <<s, ctl'[s][i]>>[2] = ctl'[s][i]
    OBVIOUS
<1> QED BY <1>1, <1>2

LEMMA BoxInt ==
    /\ \A h \in Handles : Box(h) \subseteq Int /\ \A i \in Box(h) : i >= 1
    /\ \A s \in Sessions : Words(s) \subseteq Int /\ \A i \in Words(s) : i >= 1
BY DEF Box, Words
LEMMA BoxIntNext ==
    /\ \A h \in Handles : Box(h)' \subseteq Int /\ \A i \in Box(h)' : i >= 1
    /\ \A s \in Sessions : Words(s)' \subseteq Int /\ \A i \in Words(s)' : i >= 1
BY DEF Box, Words

LEMMA SpotsKept ==
    ASSUME OneSpot, NEW P, NEW Q, NEW N, NEW M, SpotsGo(P, Q, N, M)
    PROVE  OneSpot'
<1>1. PICK k, x, y : AllAt(k, x, y)
    BY DEF OneSpot
<1> DEFINE z == IF (k = "mail" /\ x \in P) \/ (k = "word" /\ x \in Q) THEN y - 1 ELSE y
<1>2. \A h \in Handles, g \in Chars : Here(h, g)' => k = "map" /\ x = h /\ z = g
    BY <1>1 DEF AllAt, SpotsGo
<1>3. ASSUME NEW h \in Handles, NEW i \in Box(h)', mq'[h][i].op = "arrive"
      PROVE  k = "mail" /\ x = h /\ z = i
    <2> DEFINE j == IF h \in P THEN i + 1 ELSE i
    <2>1. j \in Box(h) /\ mq'[h][i] = mq[h][j]
        BY <1>3, MailFrom DEF SpotsGo
    <2>2. k = "mail" /\ x = h /\ y = j
        BY <1>1, <1>3, <2>1 DEF AllAt
    <2>3. i \in Int
        BY BoxIntNext
    <2> QED BY <2>2, <2>3
<1>4. ASSUME NEW s \in Sessions, NEW i \in Words(s)', ctl'[s][i].op = "transfer"
      PROVE  k = "word" /\ x = s /\ z = i
    <2> DEFINE j == IF s \in Q THEN i + 1 ELSE i
    <2>1. j \in Words(s) /\ ctl'[s][i] = ctl[s][j]
        BY <1>4, WordFrom DEF SpotsGo
    <2>2. k = "word" /\ x = s /\ y = j
        BY <1>1, <1>4, <2>1 DEF AllAt
    <2>3. i \in Int
        BY BoxIntNext
    <2> QED BY <2>2, <2>3
<1>5. /\ \A s \in Sessions : passing'[s] # None => k = "pass" /\ x = s
      /\ \A s \in Sessions : phase'[s] = "arriving" => k = "login" /\ x = s
      /\ \A h \in Handles : leaving'[h] # None => k = "leaves" /\ x = h
    BY <1>1 DEF AllAt, SpotsGo
<1> HIDE DEF z
<1>6. AllAt(k, x, z)'
    BY <1>2, <1>3, <1>4, <1>5 DEF AllAt
<1> QED BY <1>6 DEF OneSpot

LEMMA NoneKept ==
    ASSUME NoSpots, NEW P, NEW Q, NEW N, NEW M, SpotsGo(P, Q, N, M)
    PROVE  NoSpots'
<1>1. \A h \in Handles : \A i \in Box(h)' : mq'[h][i].op # "arrive"
    BY MailFrom DEF SpotsGo, NoSpots, AllAt
<1>2. \A s \in Sessions : \A i \in Words(s)' : ctl'[s][i].op # "transfer"
    BY WordFrom DEF SpotsGo, NoSpots, AllAt
<1> QED BY <1>1, <1>2 DEF SpotsGo, NoSpots, AllAt

LEMMA NoneListed ==
    /\ NoSpots => OneSpot /\ SpotsListed
    /\ SpotsListed /\ online = None => NoSpots
<1>1. NoSpots => OneSpot
    BY DEF NoSpots, OneSpot
<1>2. NoSpots => SpotsListed
    BY DEF NoSpots, SpotsListed, AllAt
<1>3. SpotsListed /\ online = None => NoSpots
    BY DEF NoSpots, SpotsListed, AllAt, OnList
<1> QED BY <1>1, <1>2, <1>3

LEMMA ListedKept ==
    ASSUME SpotsListed, NEW P, NEW Q, NEW N, NEW M, SpotsGo(P, Q, N, M), ListGoes
    PROVE  SpotsListed'
<1>1. \A h \in Handles, g \in Chars : Here(h, g)' =>
          /\ OnList(players[h][g])' /\ online'.g = g
          /\ omap'[online'.sess] = h /\ mst'[h] = "running"
    BY DEF SpotsListed, SpotsGo, ListGoes, OnList
<1>2. ASSUME NEW h \in Handles, NEW i \in Box(h)', mq'[h][i].op = "arrive"
      PROVE  OnList(mq[h][i].p)' /\ omap'[online'.sess] = h
    <2> DEFINE j == IF h \in P THEN i + 1 ELSE i
    <2>1. j \in Box(h) /\ mq'[h][i] = mq[h][j]
        BY <1>2, MailFrom DEF SpotsGo
    <2>2. OnList(mq[h][j].p) /\ omap[online.sess] = h
        BY <1>2, <2>1 DEF SpotsListed
    <2> HIDE DEF j
    <2> QED BY <2>1, <2>2 DEF ListGoes, OnList
<1>3. ASSUME NEW s \in Sessions, NEW i \in Words(s)', ctl'[s][i].op = "transfer"
      PROVE  OnList(ctl[s][i].p)' /\ online'.sess = s
    <2> DEFINE j == IF s \in Q THEN i + 1 ELSE i
    <2>1. j \in Words(s) /\ ctl'[s][i] = ctl[s][j]
        BY <1>3, WordFrom DEF SpotsGo
    <2>2. OnList(ctl[s][j].p) /\ online.sess = s
        BY <1>3, <2>1 DEF SpotsListed
    <2> HIDE DEF j
    <2> QED BY <2>1, <2>2 DEF ListGoes, OnList
<1>4. /\ \A s \in Sessions : passing'[s] # None => OnList(passing[s].p)' /\ online'.sess = s
      /\ \A s \in Sessions : phase'[s] = "arriving" =>
            online' # None /\ online'.sess = s /\ online'.g = goal'[s] /\ online'.n = logins'[s]
    BY DEF SpotsListed, SpotsGo, ListGoes, OnList
<1>5. \A h \in Handles : leaving'[h] # None =>
          /\ online' # None /\ online'.g = leaving'[h].g /\ online'.sess = leaving'[h].sess
          /\ omap'[online'.sess] = h /\ mst'[h] = "running"
    BY DEF SpotsListed, SpotsGo, ListGoes
<1> QED BY <1>1, <1>2, <1>3, <1>4, <1>5 DEF SpotsListed

-----------------------------------------------------------------------------
(* What keeps it so.  Whose entry is on the list has their session where it *)
(* can be in the world, or gone.                                          *)
Fits(s) ==
    \/ phase[s] \in {"arriving", "releasing", "gone"}
    \/ phase[s] = "asking" /\ reply[s] \in Handles
    \/ phase[s] \in {"serving", "ending"} /\ state[s] # "Screen"
Screens == online # None => Fits(online.sess)

(* The word of a logout: one at most, of one in the world no more, and not  *)
(* for the screen their session may be at.                                *)
Out(s) ==
    \/ phase[s] = "asking" /\ reply[s] \in Handles
    \/ phase[s] = "serving" /\ state[s] # "Screen"
    \/ phase[s] = "ending"
LoggedOut ==
    \A s \in Sessions : \A i \in Words(s) : ctl[s][i].op = "loggedout" =>
        /\ \A j \in Words(s) : ctl[s][j].op = "loggedout" => i = j
        /\ online = None \/ online.sess # s
        /\ Out(s)

(* A take-over asked for: once, by a login that waits for its answer.      *)
Asks(s) == phase[s] = "asking" /\ reply[s] = None
AskedBy(h, i) ==
    LET e == mq[h][i].new IN
    /\ Asks(e.sess) /\ e.g = goal[e.sess] /\ e.n = logins[e.sess]
    /\ \A k \in Handles : \A j \in Box(k) :
          mq[k][j].op = "takeover" /\ mq[k][j].new.sess = e.sess => k = h /\ j = i
TakeOvers ==
    /\ \A s \in Sessions : reply[s] # None => phase[s] = "asking"
    /\ \A h \in Handles : \A i \in Box(h) : mq[h][i].op = "takeover" => AskedBy(h, i)

(* A reap of who is online: their session gone, it won't be handled, or     *)
(* whoever it is for is in the map it comes to or comes there before it.    *)
Dead(h) ==
    \/ mst[h] \in {"letting", "gone", "standin"}
    \/ mst[h] = "handing" /\ next[h] # None /\ ~Open(next[h])
Leads(h, k) == k = h \/ (mst[h] = "handing" /\ next[h] = k)
Near(h, i) ==
    /\ \A k \in Handles, g \in Chars : Here(k, g) => Leads(h, k)
    /\ \A k \in Handles : leaving[k] # None => Leads(h, k)
    /\ \A k \in Handles : \A j \in Box(k) : mq[k][j].op = "arrive" =>
          IF k = h THEN j < i ELSE Leads(h, k)
    /\ \A s \in Sessions : passing[s] = None
    /\ \A s \in Sessions : \A j \in Words(s) : ctl[s][j].op # "transfer"
Reaped(h, i) ==
    /\ ~Hears(mq[h][i].e.sess)
    /\ online # None /\ online = mq[h][i].e => Dead(h) \/ Near(h, i)
Reaps == \A h \in Handles : \A i \in Box(h) : mq[h][i].op = "reap" => Reaped(h, i)

Counts == \A s \in Sessions : logins[s] <= MaxLogins

WInv == OneSpot /\ SpotsListed /\ Screens /\ LoggedOut /\ TakeOvers /\ Reaps /\ Counts

-----------------------------------------------------------------------------
(* How each part is kept.                                                 *)
LEMMA LoggedKept ==
    ASSUME LoggedOut, NEW Q, NEW M, WordsGo(Q, M), \A x \in M : x[2].op # "loggedout",
           \A s \in Sessions : \A i \in Words(s)' : ctl'[s][i].op = "loggedout" /\ Out(s) => Out(s)',
           online' \in {online, None} \/ ~Out(online'.sess)
    PROVE  LoggedOut'
<1> SUFFICES ASSUME NEW s \in Sessions, NEW i \in Words(s)', ctl'[s][i].op = "loggedout"
             PROVE  /\ \A j \in Words(s)' : ctl'[s][j].op = "loggedout" => i = j
                    /\ online' = None \/ online'.sess # s
                    /\ Out(s)'
    BY DEF LoggedOut
<1> DEFINE up(n) == IF s \in Q THEN n + 1 ELSE n
<1>1. up(i) \in Words(s) /\ ctl[s][up(i)].op = "loggedout"
    BY WordFrom
<1>2. \A j \in Words(s)' : ctl'[s][j].op = "loggedout" => up(j) \in Words(s) /\ ctl[s][up(j)].op = "loggedout"
    BY WordFrom
<1>3. \A j \in Words(s) : ctl[s][j].op = "loggedout" => up(i) = j
    BY <1>1 DEF LoggedOut
<1>4. (online = None \/ online.sess # s) /\ Out(s)
    BY <1>1 DEF LoggedOut
<1>5. \A j \in Words(s)' : up(i) = up(j) => i = j
    BY BoxIntNext
<1> HIDE DEF up
<1>6. \A j \in Words(s)' : ctl'[s][j].op = "loggedout" => i = j
    BY <1>2, <1>3, <1>5
<1>7. online' = None \/ online'.sess # s
    BY <1>4
<1> QED BY <1>4, <1>6, <1>7

LEMMA TakeOversKept ==
    ASSUME TakeOvers, NEW P, NEW N, MailGoes(P, N), \A x \in N : x[2].op # "takeover",
           \A s \in Sessions : reply'[s] # None => phase'[s] = "asking",
           \A s \in Sessions, h \in Handles : \A i \in Box(h)' :
               mq'[h][i].op = "takeover" /\ mq'[h][i].new.sess = s /\ Asks(s) =>
                   Asks(s)' /\ goal'[s] = goal[s] /\ logins'[s] = logins[s]
    PROVE  TakeOvers'
<1> SUFFICES ASSUME NEW h \in Handles, NEW i \in Box(h)', mq'[h][i].op = "takeover"
             PROVE  AskedBy(h, i)'
    BY DEF TakeOvers
<1> DEFINE up(k, n) == IF k \in P THEN n + 1 ELSE n
<1>1. \A k \in Handles : \A j \in Box(k)' :
         mq'[k][j].op = "takeover" => up(k, j) \in Box(k) /\ mq'[k][j] = mq[k][up(k, j)]
    <2> SUFFICES ASSUME NEW k \in Handles, NEW j \in Box(k)', mq'[k][j].op = "takeover"
                 PROVE  up(k, j) \in Box(k) /\ mq'[k][j] = mq[k][up(k, j)]
        OBVIOUS
    <2> QED BY MailFrom
<1>2. \A k \in Handles : \A j \in Box(k)' : k = h /\ up(k, j) = up(h, i) => j = i
    BY BoxIntNext
<1>3. PICK e \in Entry : e = mq'[h][i].new
    <2>1. mq'[h] \in Seq(OwnEvent)
        BY DEF MailGoes
    <2>2. mq'[h][i] \in OwnEvent
        BY <2>1, ElementOfSeq DEF Box
    <2> QED BY <2>2, EventIs
<1> HIDE DEF up
<1>4. /\ Asks(e.sess) /\ e.g = goal[e.sess] /\ e.n = logins[e.sess]
      /\ \A k \in Handles : \A j \in Box(k) :
            mq[k][j].op = "takeover" /\ mq[k][j].new.sess = e.sess => k = h /\ j = up(h, i)
    <2>1. up(h, i) \in Box(h) /\ mq[h][up(h, i)].op = "takeover" /\ e = mq[h][up(h, i)].new
        BY <1>1, <1>3
    <2> QED BY <2>1 DEF TakeOvers, AskedBy
<1>5. Asks(e.sess)' /\ e.g = goal'[e.sess] /\ e.n = logins'[e.sess]
    BY <1>3, <1>4, EntryIs
<1>6. \A k \in Handles : \A j \in Box(k)' :
         mq'[k][j].op = "takeover" /\ mq'[k][j].new.sess = e.sess => k = h /\ j = i
    BY <1>1, <1>2, <1>4
<1> QED BY <1>3, <1>5, <1>6 DEF AskedBy, Asks

(* The maps go on: what is dead stays so, and what leads to a map does.    *)
MapsGo ==
    \A h \in Handles : Box(h)' # {} =>
        /\ Dead(h) => Dead(h)'
        /\ \A k \in Handles : Leads(h, k) => Leads(h, k)'
Heard == \A s \in Sessions : ~Hears(s) => ~Hears(s)'

LEMMA ReapedKept ==
    ASSUME Types, Reaps, NEW P, NEW Q, NEW N, NEW M, SpotsGo(P, Q, N, M), MapsGo, Heard,
           online' \in {online, None} \/ Hears(online'.sess),
           NEW h \in Handles, NEW i \in Box(h)', mq'[h][i].op = "reap",
           (IF h \in P THEN i + 1 ELSE i) \in Box(h),
           mq'[h][i] = mq[h][IF h \in P THEN i + 1 ELSE i]
    PROVE  Reaped(h, i)'
<1> DEFINE up(k, n) == IF k \in P THEN n + 1 ELSE n
<1>1. up(h, i) \in Box(h) /\ mq'[h][i] = mq[h][up(h, i)]
    OBVIOUS
<1>2. mq[h][up(h, i)] \in OwnEvent
    <2>1. mq[h] \in Seq(OwnEvent)
        BY DEF Types, ActorTypes
    <2> QED BY <1>1, <2>1, ElementOfSeq DEF Box
<1>3. PICK e \in Entry : e = mq'[h][i].e /\ e = mq[h][up(h, i)].e /\ e.sess \in Sessions /\ ~Hears(e.sess)
    <2>1. mq[h][up(h, i)].e \in Entry
        BY <1>1, <1>2, EventIs
    <2> QED BY <1>1, <2>1, EntryIs DEF Reaps, Reaped
<1>4. ~Hears(e.sess)'
    BY <1>3 DEF Heard
<1>5. ASSUME online' # None, online' = e
      PROVE  Dead(h)' \/ Near(h, i)'
    <2>1. online = e
        BY <1>3, <1>5
    <2>2. Dead(h) \/ Near(h, up(h, i))
        BY <1>1, <1>3, <1>5, <2>1 DEF Reaps, Reaped
    <2>3. Dead(h) => Dead(h)'
        BY DEF MapsGo
    <2>4. \A k \in Handles : Leads(h, k) => Leads(h, k)'
        BY DEF MapsGo
    <2>5. ASSUME Near(h, up(h, i))
          PROVE  Near(h, i)'
        <3>1. \A k \in Handles, g \in Chars : Here(k, g)' => Leads(h, k)'
            BY <2>4, <2>5 DEF Near, SpotsGo
        <3>2. \A k \in Handles : leaving'[k] # None => Leads(h, k)'
            BY <2>4, <2>5 DEF Near, SpotsGo
        <3>3. ASSUME NEW k \in Handles, NEW j \in Box(k)', mq'[k][j].op = "arrive"
              PROVE  IF k = h THEN j < i ELSE Leads(h, k)'
            <4>1. up(k, j) \in Box(k) /\ mq'[k][j] = mq[k][up(k, j)]
                BY <3>3, MailFrom DEF SpotsGo
            <4>2. IF k = h THEN up(k, j) < up(h, i) ELSE Leads(h, k)
                BY <2>5, <3>3, <4>1 DEF Near
            <4>3. i \in Int /\ j \in Int
                BY BoxIntNext
            <4> QED BY <2>4, <4>2, <4>3
        <3>4. \A s \in Sessions : passing'[s] = None
            BY <2>5 DEF Near, SpotsGo
        <3>5. \A s \in Sessions : \A j \in Words(s)' : ctl'[s][j].op # "transfer"
            BY <2>5, WordFrom DEF Near, SpotsGo
        <3> QED BY <3>1, <3>2, <3>3, <3>4, <3>5 DEF Near
    <2> QED BY <2>2, <2>3, <2>5
<1> QED BY <1>3, <1>4, <1>5 DEF Reaped, Hears

LEMMA ReapsKept ==
    ASSUME Types, Reaps, NEW P, NEW Q, NEW N, NEW M, SpotsGo(P, Q, N, M),
           \A x \in N : x[2].op # "reap", MapsGo, Heard,
           online' \in {online, None} \/ Hears(online'.sess)
    PROVE  Reaps'
<1> SUFFICES ASSUME NEW h \in Handles, NEW i \in Box(h)', mq'[h][i].op = "reap"
             PROVE  Reaped(h, i)'
    BY DEF Reaps
<1>1. (IF h \in P THEN i + 1 ELSE i) \in Box(h) /\ mq'[h][i] = mq[h][IF h \in P THEN i + 1 ELSE i]
    BY MailFrom DEF SpotsGo
<1> QED BY <1>1, ReapedKept

LEMMA MapsSame ==
    ASSUME mst' = mst, next' = next
    PROVE  MapsGo
BY DEF MapsGo, Dead, Leads, Open
LEMMA MapsGot ==
    ASSUME TInv, NEW t, Got(t), next' = next
    PROVE  MapsGo
<1>1. \A h \in Handles : mst[h] # "unborn" => mst'[h] = mst[h]
    BY DEF Got
<1>2. \A h \in Handles : next[h] # None => next[h] \in Handles /\ mst'[next[h]] = mst[next[h]]
    BY <1>1 DEF TInv, Types, ActorTypes, Born
<1> QED BY <1>1, <1>2 DEF MapsGo, Dead, Leads, Open

-----------------------------------------------------------------------------
(* Who changes what.                                                      *)
LEMMA MapsLeave ==
    ASSUME \/ \E h \in Handles : Map(h) \/ Doings(h)
           \/ Realm
    PROVE  UNCHANGED <<phase, state, goal, passing, logins, existing>>
<1>1. ASSUME NEW h \in Handles, Map(h)
      PROVE  UNCHANGED <<phase, state, goal, passing, logins, existing>>
    <2>1. CASE LeaveDone(h) \/ HandleArrive(h) \/ HandleLogout(h) \/ HandleGone(h) \/ HandleReap(h)
        BY <2>1 DEF LeaveDone, HandleArrive, HandleLogout, HandleGone, HandleReap, sessV
    <2>2. CASE HandleTakeOver(h) \/ HandleHandedOn(h) \/ HandleStop(h) \/ Finish(h)
        BY <2>2 DEF HandleTakeOver, HandleHandedOn, HandleStop, Finish, sessV
    <2>3. CASE HandGet(h) \/ HandOn(h) \/ HandedOn(h) \/ LetGoEach(h) \/ LetGone(h)
        BY <2>3 DEF HandGet, HandOn, HandedOn, LetGoEach, LetGone, sessV
    <2>4. CASE \E g \in Chars : LogoutDue(h, g) \/ LingerEnd(h, g)
        BY <2>4 DEF LogoutDue, LingerEnd, Goes, sessV
    <2> QED BY <1>1, <2>1, <2>2, <2>3, <2>4 DEF Map
<1>2. ASSUME NEW h \in Handles, Doings(h)
      PROVE  UNCHANGED <<phase, state, goal, passing, logins, existing>>
    <2>1. CASE Unload(h)
        BY <2>1 DEF Unload, sessV
    <2>2. CASE \E g \in Chars : Progress(h, g) \/ SaveDue(h, g) \/ SendToScreen(h, g)
        BY <2>2 DEF Progress, SaveDue, SendToScreen, Goes, sessV
    <2>3. CASE \E g \in Chars, k \in Keys : Teleport(h, g, k)
        BY <2>3 DEF Teleport
    <2> QED BY <1>2, <2>1, <2>2, <2>3 DEF Doings
<1>3. CASE Realm
    BY <1>3 DEF Realm, Shutdown, Reset, ResetStops, sessV
<1> QED BY <1>1, <1>2, <1>3

LEMMA SessionsLeave ==
    ASSUME NEW s \in Sessions, Session(s) \/ Client(s) \/ Kick(s)
    PROVE  UNCHANGED <<players, leaving, next, handed>>
<1>1. CASE Begin(s) \/ WaitHeard(s) \/ LostMap(s) \/ LookNobody(s) \/ LookTheirs(s) \/ LookOther(s) \/ LoginFails(s)
    BY <1>1 DEF Begin, WaitHeard, LostMap, LookNobody, LookTheirs, LookOther, LoginFails, actorV
<1>2. CASE (\E k \in Keys : Enter(s, k) \/ Resume(s, k)) \/ Arrive(s) \/ TakenOver(s) \/ LookAgain(s) \/ GivesUp(s)
    BY <1>2 DEF Enter, Resume, Arrive, TakenOver, LookAgain, GivesUp, actorV
<1>3. CASE HearTransfer(s) \/ PassOn(s) \/ HearHandedOn(s) \/ HearLoggedOut(s) \/ HearKick(s) \/ HearLeave(s) \/ DropRest(s)
    BY <1>3 DEF HearTransfer, PassOn, HearHandedOn, HearLoggedOut, HearKick, HearLeave, DropRest, actorV
<1>4. CASE Disconnect(s) \/ DisconnectScreen(s) \/ ReapLeft(s) \/ Kick(s)
    BY <1>4 DEF Disconnect, DisconnectScreen, ReapLeft, Kick, actorV
<1>5. CASE Client(s)
    BY <1>5 DEF Client, Connect, AskLogin, SendLogout, ClientGoes, actorV
<1> QED BY <1>1, <1>2, <1>3, <1>4, <1>5 DEF Session

(* A session's step changes its own phase, and none that has closed its     *)
(* queue hears again.                                                     *)
LEMMA OwnPhase ==
    ASSUME TInv, NEW s \in Sessions, Session(s) \/ Client(s) \/ Kick(s)
    PROVE  (\A t \in Sessions : t # s => phase'[t] = phase[t]) /\ Heard
<1> DEFINE Mine == /\ \A t \in Sessions : t # s => phase'[t] = phase[t]
                   /\ phase[s] \in Ended => phase'[s] \in Ended
<1>1. ASSUME NEW x, phase' = [phase EXCEPT ![s] = x], phase[s] \in Ended => x \in Ended
      PROVE  Mine
    BY <1>1 DEF TInv, Types, SessTypes
<1>2. phase' = phase => Mine
    OBVIOUS
<1> HIDE DEF Mine
<1>3. Mine
    <2>1. CASE WaitHeard(s) \/ LostMap(s) \/ HearKick(s) \/ HearLeave(s) \/ \E flood \in BOOLEAN : ClientGoes(s, flood)
        <3>1. phase' = [phase EXCEPT ![s] = "ending"]
            BY <2>1 DEF WaitHeard, LostMap, HearKick, HearLeave, ClientGoes, Ends
        <3> QED BY <1>1, <3>1 DEF Ended
    <2>2. CASE Begin(s) \/ LookOther(s) \/ LoginFails(s) \/ Arrive(s) \/ TakenOver(s) \/ GivesUp(s)
        <3>1. phase' = [phase EXCEPT ![s] = "serving"] /\ phase[s] \notin Ended
            BY <2>2 DEF Begin, LookOther, LoginFails, Arrive, TakenOver, GivesUp, KickOther, Ended
        <3> QED BY <1>1, <3>1
    <2>3. CASE LookNobody(s)
        BY <1>1, <2>3 DEF LookNobody, Ended
    <2>4. CASE LookTheirs(s)
        BY <1>1, <2>4 DEF LookTheirs, Ended
    <2>5. CASE LookAgain(s) \/ \E c \in Chars : AskLogin(s, c)
        <3>1. phase' = [phase EXCEPT ![s] = "login"] /\ phase[s] \notin Ended
            BY <2>5 DEF LookAgain, AskLogin, Ended
        <3> QED BY <1>1, <3>1
    <2>6. CASE \E k \in Keys : Enter(s, k)
        <3>1. /\ phase[s] \notin Ended
              /\ phase' = [phase EXCEPT ![s] = "login"] \/ phase' = [phase EXCEPT ![s] = "arriving"]
            BY <2>6 DEF Enter, Ended
        <3> QED BY <1>1, <3>1
    <2>7. CASE \/ \E k \in Keys : Resume(s, k)
               \/ HearTransfer(s) \/ PassOn(s) \/ HearHandedOn(s) \/ HearLoggedOut(s)
               \/ DropRest(s) \/ SendLogout(s) \/ Kick(s)
        <3>1. phase' = phase
            BY <2>7 DEF Resume, HearTransfer, PassOn, HearHandedOn, HearLoggedOut, DropRest, SendLogout, Kick, sessV
        <3> QED BY <1>2, <3>1
    <2>8. CASE Disconnect(s) \/ ReapLeft(s)
        <3>1. phase' = [phase EXCEPT ![s] = "gone"]
            BY <2>8 DEF Disconnect, ReapLeft
        <3> QED BY <1>1, <3>1 DEF Ended
    <2>9. CASE DisconnectScreen(s)
        <3>1. phase' = [phase EXCEPT ![s] = "gone"] \/ phase' = [phase EXCEPT ![s] = "releasing"]
            BY <2>9 DEF DisconnectScreen
        <3> QED BY <1>1, <3>1 DEF Ended
    <2>10. CASE Connect(s)
        <3>1. /\ phase[s] \notin Ended
              /\ phase' = [phase EXCEPT ![s] = "serving"] \/ phase' = [phase EXCEPT ![s] = "waiting"]
            BY <2>10 DEF Connect, Ended
        <3> QED BY <1>1, <3>1
    <2> QED BY <2>1, <2>2, <2>3, <2>4, <2>5, <2>6, <2>7, <2>8, <2>9, <2>10 DEF Session, Client
<1>4. ASSUME NEW t \in Sessions, ~Hears(t)
      PROVE  ~Hears(t)'
    BY <1>3, <1>4 DEF Hears, Ended, Mine
<1> QED BY <1>3, <1>4 DEF Heard, Mine

-----------------------------------------------------------------------------
(* A step of one session that neither puts a player anywhere nor changes   *)
(* the list.                                                              *)
Others(s) ==
    \A t \in Sessions : t # s =>
        /\ phase'[t] = phase[t] /\ state'[t] = state[t] /\ goal'[t] = goal[t]
        /\ logins'[t] = logins[t] /\ reply'[t] = reply[t]

(* What such a step may do to its own session.                            *)
Own(s) ==
    /\ online # None /\ online.sess = s /\ Fits(s) => Fits(s)'
    /\ \A i \in Words(s)' : ctl'[s][i].op = "loggedout" /\ Out(s) => Out(s)'
    /\ reply'[s] # None => phase'[s] = "asking"
    /\ Asks(s) => Asks(s)' /\ goal'[s] = goal[s] /\ logins'[s] = logins[s]
    /\ logins'[s] <= MaxLogins

LEMMA SessionParts ==
    ASSUME TInv, TInv', WInv, NEW s \in Sessions, NEW P, NEW Q, NEW N, NEW M,
           SpotsGo(P, Q, N, M), ListGoes, Others(s), Own(s),
           \A x \in M : x[2].op # "loggedout"
    PROVE  TakeOvers' /\ Reaps' => WInv'
<1>1. OneSpot' /\ SpotsListed'
    BY SpotsKept, ListedKept DEF WInv
<1>2. online' = online
    BY DEF ListGoes
<1>3. Screens'
    <2>1. CASE online = None
        BY <1>2, <2>1 DEF Screens
    <2>2. CASE online # None
        <3>1. PICK t \in Sessions : t = online.sess /\ Fits(t)
            BY <2>2, EntryIs DEF TInv, Types, RegTypes, WInv, Screens
        <3>2. CASE t = s
            <4>1. Fits(s)'
                BY <2>2, <3>1, <3>2 DEF Own
            <4> QED BY <1>2, <3>1, <3>2, <4>1 DEF Screens, Fits
        <3>3. CASE t # s
            <4>1. Fits(t)'
                BY <3>1, <3>3 DEF Others, Fits
            <4> QED BY <1>2, <3>1, <4>1 DEF Screens, Fits
        <3> QED BY <3>2, <3>3
    <2> QED BY <2>1, <2>2
<1>4. LoggedOut'
    <2>1. \A t \in Sessions : \A i \in Words(t)' : ctl'[t][i].op = "loggedout" /\ Out(t) => Out(t)'
        BY DEF Own, Others, Out
    <2> QED BY <1>2, <2>1, LoggedKept DEF SpotsGo, WInv
<1>5. Counts'
    BY DEF Own, Others, Counts, WInv
<1> QED BY <1>1, <1>3, <1>4, <1>5 DEF WInv

LEMMA SessionRest ==
    ASSUME TInv, TInv', WInv, NEW s \in Sessions, NEW P, NEW Q, NEW N, NEW M,
           SpotsGo(P, Q, N, M), ListGoes, Others(s), Own(s),
           \A x \in N : x[2].op # "takeover", \A x \in M : x[2].op # "loggedout"
    PROVE  Reaps' => WInv'
<1>1. TakeOvers'
    <2>1. \A t \in Sessions : reply'[t] # None => phase'[t] = "asking"
        BY DEF Own, Others, WInv, TakeOvers
    <2>2. \A t \in Sessions : Asks(t) => Asks(t)' /\ goal'[t] = goal[t] /\ logins'[t] = logins[t]
        BY DEF Own, Others, Asks
    <2> QED BY <2>1, <2>2, TakeOversKept DEF SpotsGo, WInv
<1> QED BY <1>1, SessionParts

LEMMA SessionStep ==
    ASSUME TInv, TInv', WInv, NEW s \in Sessions, NEW P, NEW Q, NEW N, NEW M,
           SpotsGo(P, Q, N, M), ListGoes, MapsGo, Heard, Others(s), Own(s),
           \A x \in N : x[2].op \notin {"takeover", "reap"}, \A x \in M : x[2].op # "loggedout"
    PROVE  WInv'
<1>1. Reaps'
    BY ReapsKept DEF WInv, TInv, ListGoes
<1> QED BY <1>1, SessionRest

LEMMA OthersKept ==
    ASSUME TInv, NEW s \in Sessions, Session(s) \/ Client(s) \/ Kick(s)
    PROVE  Others(s)
<1> SUFFICES ASSUME NEW t \in Sessions, t # s
             PROVE  state'[t] = state[t] /\ goal'[t] = goal[t] /\ logins'[t] = logins[t] /\ reply'[t] = reply[t]
    BY OwnPhase DEF Others
<1> USE DEF TInv, Types, SessTypes
<1>1. CASE Begin(s) \/ WaitHeard(s) \/ LostMap(s) \/ LookNobody(s) \/ LoginFails(s)
    BY <1>1 DEF Begin, WaitHeard, LostMap, LookNobody, LoginFails
<1>2. CASE LookTheirs(s) \/ LookOther(s)
    BY <1>2 DEF LookTheirs, LookOther, KickOther
<1>3. CASE (\E k \in Keys : Enter(s, k) \/ Resume(s, k)) \/ Arrive(s)
    BY <1>3 DEF Enter, Resume, Arrive, sessV
<1>4. CASE TakenOver(s) \/ LookAgain(s) \/ GivesUp(s)
    BY <1>4 DEF TakenOver, LookAgain, GivesUp, KickOther
<1>5. CASE HearTransfer(s) \/ PassOn(s) \/ HearHandedOn(s)
    BY <1>5 DEF HearTransfer, PassOn, HearHandedOn
<1>6. CASE HearLoggedOut(s) \/ HearKick(s) \/ HearLeave(s) \/ DropRest(s)
    BY <1>6 DEF HearLoggedOut, HearKick, HearLeave, DropRest
<1>7. CASE Disconnect(s) \/ DisconnectScreen(s) \/ ReapLeft(s) \/ Kick(s)
    BY <1>7 DEF Disconnect, DisconnectScreen, ReapLeft, Kick
<1>8. CASE Client(s)
    BY <1>8 DEF Client, Connect, AskLogin, SendLogout, ClientGoes, sessV
<1> QED BY <1>1, <1>2, <1>3, <1>4, <1>5, <1>6, <1>7, <1>8 DEF Session

(* A session's step that leaves the list, the maps and who is between maps. *)
LEMMA QuietStep ==
    ASSUME TInv, TInv', WInv, NEW s \in Sessions, Session(s) \/ Client(s) \/ Kick(s),
           NEW Q, NEW N, NEW M, MailGoes({}, N), WordsGo(Q, M),
           \A x \in N : x[2].op \notin {"arrive", "takeover", "reap"},
           \A x \in M : x[2].op \notin {"transfer", "loggedout"},
           UNCHANGED <<online, omap, mst, passing>>,
           phase'[s] = "arriving" => phase[s] = "arriving" /\ goal'[s] = goal[s] /\ logins'[s] = logins[s],
           Own(s)
    PROVE  WInv'
<1>1. UNCHANGED <<players, leaving, next>> /\ Others(s) /\ Heard
    BY SessionsLeave, OthersKept, OwnPhase
<1>2. \A t \in Sessions : phase'[t] = "arriving" => phase[t] = "arriving" /\ goal'[t] = goal[t] /\ logins'[t] = logins[t]
    BY <1>1 DEF Others
<1>3. SpotsGo({}, Q, N, M)
    BY <1>1, <1>2 DEF SpotsGo, Here
<1>4. ListGoes
    BY <1>1, <1>2 DEF ListGoes
<1>5. MapsGo
    BY <1>1, MapsSame
<1> QED BY <1>1, <1>3, <1>4, <1>5, SessionStep

(* Coming and going, and logging in, but for the steps that put a player    *)
(* somewhere.                                                             *)
LEMMA ComesQuiet ==
    ASSUME TInv, TInv', WInv, NEW s \in Sessions,
           \/ Begin(s) \/ WaitHeard(s) \/ \E flood \in BOOLEAN : ClientGoes(s, flood)
           \/ LostMap(s) \/ \E c \in Chars : AskLogin(s, c)
           \/ LookNobody(s) \/ LoginFails(s) \/ TakenOver(s) \/ LookAgain(s)
    PROVE  WInv'
<1>1. Session(s) \/ Client(s)
    BY DEF Session, Client
<1>2. UNCHANGED <<mq, ctl, online, omap, mst, passing>>
    <2>1. CASE Begin(s) \/ WaitHeard(s) \/ \E flood \in BOOLEAN : ClientGoes(s, flood)
        BY <2>1 DEF Begin, WaitHeard, ClientGoes, mapsV, actorV, regV
    <2>2. CASE LostMap(s) \/ \E c \in Chars : AskLogin(s, c)
        BY <2>2 DEF LostMap, AskLogin, mapsV, actorV, regV
    <2>3. CASE LookNobody(s) \/ LoginFails(s) \/ TakenOver(s) \/ LookAgain(s)
        BY <2>3 DEF LookNobody, LoginFails, TakenOver, LookAgain, mapsV, actorV, regV
    <2> QED BY <2>1, <2>2, <2>3
<1>3. MailGoes({}, {}) /\ WordsGo({}, {})
    BY <1>2, MailSame, WordsSame DEF TInv, Types
<1>4. No \notin Handles /\ None # No
    BY HandleIs, WorldAssumption
<1>5. /\ phase'[s] # "arriving"
      /\ Fits(s) => Fits(s)'
      /\ Out(s) => Out(s)'
      /\ (reply[s] # None => phase[s] = "asking") => (reply'[s] # None => phase'[s] = "asking")
      /\ Asks(s) => Asks(s)' /\ goal'[s] = goal[s] /\ logins'[s] = logins[s]
      /\ logins[s] <= MaxLogins => logins'[s] <= MaxLogins
    <2> USE DEF TInv, Types, SessTypes, Fits, Out, Asks
    <2>1. CASE Begin(s)
        BY <2>1 DEF Begin
    <2>2. CASE WaitHeard(s)
        BY <2>2 DEF WaitHeard, Ends
    <2>3. CASE \E flood \in BOOLEAN : ClientGoes(s, flood)
        BY <2>3 DEF ClientGoes, Ends, Phases, Holds
    <2>4. CASE LostMap(s)
        BY <2>4 DEF LostMap, Ends
    <2>5. CASE \E c \in Chars : AskLogin(s, c)
        BY <2>5, WorldAssumption DEF AskLogin
    <2>6. CASE LookNobody(s) \/ LoginFails(s)
        BY <2>6 DEF LookNobody, LoginFails
    <2>7. CASE TakenOver(s)
        BY <1>4, <2>7, HandleIs DEF TakenOver
    <2>8. CASE LookAgain(s)
        BY <1>4, <2>8 DEF LookAgain
    <2> QED BY <2>1, <2>2, <2>3, <2>4, <2>5, <2>6, <2>7, <2>8
<1>6. Own(s)
    BY <1>5 DEF Own, WInv, TakeOvers, Counts
<1> QED BY <1>1, <1>2, <1>3, <1>5, <1>6, QuietStep

LEMMA ConnectQuiet ==
    ASSUME TInv, TInv', WInv, NEW s \in Sessions, Connect(s)
    PROVE  WInv'
<1>1. Client(s) /\ UNCHANGED <<mq, online, omap, mst, passing>>
    BY DEF Client, Connect, mapsV, actorV
<1>2. WordsGo({}, {<<current, [op |-> "replaced"]>>})
    <2>1. CASE current = None
        BY <2>1, WordsSame DEF TInv, Types, Connect, WordsGo
    <2>2. CASE current # None
        <3>1. current \in Sessions /\ [op |-> "replaced"] \in OwnWord /\ ctl' = Tell(ctl, current, [op |-> "replaced"])
            BY <2>2, PlainWord DEF TInv, Types, RegTypes, Connect
        <3>2. WordsGo({}, {x \in {<<current, [op |-> "replaced"]>>} : Hears(current)})
            BY <3>1, WordTold DEF TInv, Types
        <3> QED BY <3>2 DEF WordsGo
    <2> QED BY <2>1, <2>2
<1>3. MailGoes({}, {})
    BY <1>1, MailSame DEF TInv, Types
<1>4. /\ phase[s] = "new" /\ phase'[s] \in {"serving", "waiting"}
      /\ UNCHANGED <<state, goal, logins, reply>>
    BY DEF TInv, Types, SessTypes, Connect
<1>5. Own(s)
    BY <1>4 DEF Own, Fits, Out, Asks, WInv, TakeOvers, Counts
<1>6. \A x \in {<<current, [op |-> "replaced"]>>} : x[2].op \notin {"transfer", "loggedout"}
    OBVIOUS
<1> QED BY <1>1, <1>2, <1>3, <1>4, <1>5, <1>6, QuietStep

(* Words heard that move nobody.                                          *)
LEMMA HearsQuiet ==
    ASSUME TInv, TInv', WInv, NEW s \in Sessions,
           HearHandedOn(s) \/ HearKick(s) \/ DropRest(s)
    PROVE  WInv'
<1>1. Session(s) /\ UNCHANGED <<mq, online, omap, mst, passing, state, goal, logins, reply>>
    BY DEF Session, HearHandedOn, HearKick, DropRest, mapsV, actorV, regV
<1>2. WordsGo({s}, {}) /\ MailGoes({}, {})
    BY <1>1, HeardTyped, MailSame DEF TInv, Types
<1>3. phase'[s] = phase[s] \/ (phase[s] = "serving" /\ phase'[s] = "ending")
    BY DEF TInv, Types, SessTypes, HearHandedOn, HearKick, DropRest, Ends
<1>4. phase[s] \in {"serving", "ending"}
    BY HeardTyped
<1>5. Own(s)
    BY <1>1, <1>3, <1>4 DEF Own, Fits, Out, Asks, WInv, TakeOvers, Counts
<1> QED BY <1>1, <1>2, <1>3, <1>4, <1>5, QuietStep

(* The word of a logout: the only one, and the player is in the world no    *)
(* more.                                                                  *)
LEMMA LoggedQuiet ==
    ASSUME TInv, TInv', WInv, NEW s \in Sessions, HearLoggedOut(s)
    PROVE  WInv'
<1>1. Session(s) /\ UNCHANGED <<mq, online, omap, mst, passing, phase, logins, reply>>
    BY DEF Session, HearLoggedOut, mapsV, actorV, regV
<1>2. WordsGo({s}, {}) /\ MailGoes({}, {})
    BY <1>1, HeardTyped, MailSame DEF TInv, Types
<1>3. phase[s] = "serving" /\ ctl[s] # <<>> /\ Head(ctl[s]).op = "loggedout"
    BY DEF HearLoggedOut, HearsNext
<1>4. 1 \in Words(s) /\ ctl[s][1].op = "loggedout"
    BY <1>3, FirstWord DEF TInv, Types
<1>5. /\ online = None \/ online.sess # s
      /\ \A j \in Words(s) : ctl[s][j].op = "loggedout" => 1 = j
    BY <1>4 DEF WInv, LoggedOut
<1>6. \A i \in Words(s)' : ctl'[s][i].op # "loggedout"
    <2> SUFFICES ASSUME NEW i \in Words(s)', ctl'[s][i].op = "loggedout"
                 PROVE  FALSE
        OBVIOUS
    <2>1. i + 1 \in Words(s) /\ ctl'[s][i] = ctl[s][i + 1]
        BY <1>2, WordFrom
    <2>2. i \in Int /\ i >= 1
        BY BoxIntNext
    <2> QED BY <1>5, <2>1, <2>2
<1>7. Own(s)
    BY <1>1, <1>3, <1>5, <1>6 DEF Own, Asks, WInv, TakeOvers, Counts
<1> QED BY <1>1, <1>2, <1>3, <1>7, QuietStep

LEMMA LeavesQuiet ==
    ASSUME TInv, TInv', WInv, NEW s \in Sessions, HearLeave(s)
    PROVE  WInv'
<1>1. Session(s) /\ UNCHANGED <<online, omap, mst, passing, logins, reply>>
    BY DEF Session, HearLeave, mapsV, regV
<1>2. WordsGo({s}, {}) /\ MailGoes({}, {<<handle[s], [op |-> "linger", g |-> goal[s], sess |-> s]>>})
    BY LeaveTyped
<1>3. /\ phase[s] = "serving" /\ phase'[s] = "ending"
      /\ state'[s] = IF state[s] = "InWorld" THEN "Left" ELSE state[s]
    BY DEF TInv, Types, SessTypes, HearLeave, Ends
<1>4. Own(s)
    BY <1>1, <1>3 DEF Own, Fits, Out, Asks, WInv, TakeOvers, Counts
<1>5. \A x \in {<<handle[s], [op |-> "linger", g |-> goal[s], sess |-> s]>>} :
         x[2].op \notin {"arrive", "takeover", "reap"}
    OBVIOUS
<1> QED BY <1>1, <1>2, <1>3, <1>4, <1>5, QuietStep

LEMMA AsksQuiet ==
    ASSUME TInv, TInv', WInv, NEW s \in Sessions, SendLogout(s) \/ Kick(s)
    PROVE  WInv'
<1>1. /\ Client(s) \/ Kick(s)
      /\ UNCHANGED <<online, omap, mst, passing, phase, state, goal, logins, reply>>
    BY DEF Client, SendLogout, Kick, mapsV, regV, sessV
<1>2. Own(s)
    BY <1>1 DEF Own, Fits, Out, Asks, WInv, TakeOvers, Counts
<1>3. CASE SendLogout(s)
    <2>1. MailGoes({}, {<<handle[s], [op |-> "logout", g |-> goal[s], sess |-> s]>>})
        BY <1>3, ClientTyped
    <2>2. WordsGo({}, {})
        BY <1>3, WordsSame DEF TInv, Types, SendLogout, sessV
    <2>3. \A x \in {<<handle[s], [op |-> "logout", g |-> goal[s], sess |-> s]>>} :
             x[2].op \notin {"arrive", "takeover", "reap"}
        OBVIOUS
    <2> QED BY <1>1, <1>2, <2>1, <2>2, <2>3, QuietStep
<1>4. CASE Kick(s)
    <2>1. WordsGo({}, {<<s, [op |-> "kick"]>>})
        BY <1>4, KickTyped
    <2>2. MailGoes({}, {})
        BY <1>4, MailSame DEF TInv, Types, Kick, actorV
    <2>3. \A x \in {<<s, [op |-> "kick"]>>} : x[2].op \notin {"transfer", "loggedout"}
        OBVIOUS
    <2> QED BY <1>1, <1>2, <2>1, <2>2, <2>3, QuietStep
<1> QED BY <1>3, <1>4

(* A step of one session whose player was nowhere and goes offline.        *)
LEMMA VanishStep ==
    ASSUME TInv, TInv', WInv, NoSpots, NEW s \in Sessions, NEW P, NEW Q, NEW N, NEW M,
           SpotsGo(P, Q, N, M), MapsGo, Heard, Others(s), Own(s), online' = None,
           \A x \in N : x[2].op \notin {"takeover", "reap"}, \A x \in M : x[2].op # "loggedout"
    PROVE  WInv'
<1>1. NoSpots'
    BY NoneKept
<1>2. OneSpot' /\ SpotsListed' /\ Screens'
    BY <1>1 DEF NoSpots, OneSpot, SpotsListed, AllAt, Screens
<1>3. LoggedOut'
    <2>1. \A t \in Sessions : \A i \in Words(t)' : ctl'[t][i].op = "loggedout" /\ Out(t) => Out(t)'
        BY DEF Own, Others, Out
    <2> QED BY <2>1, LoggedKept DEF SpotsGo, WInv
<1>4. TakeOvers'
    <2>1. \A t \in Sessions : reply'[t] # None => phase'[t] = "asking"
        BY DEF Own, Others, WInv, TakeOvers
    <2>2. \A t \in Sessions : Asks(t) => Asks(t)' /\ goal'[t] = goal[t] /\ logins'[t] = logins[t]
        BY DEF Own, Others, Asks
    <2> QED BY <2>1, <2>2, TakeOversKept DEF SpotsGo, WInv
<1>5. Reaps'
    BY ReapsKept DEF WInv, TInv
<1>6. Counts'
    BY DEF Own, Others, Counts, WInv
<1> QED BY <1>2, <1>3, <1>4, <1>5, <1>6 DEF WInv

-----------------------------------------------------------------------------
(* Reaping, no player missed: who is on the list is in the map they are on  *)
(* it in, or comes to it; that map gone, they are nowhere.                 *)
LEMMA AllThere ==
    ASSUME WInv, NEW e, online = e, ~BetweenMaps(e.sess)
    PROVE  /\ \A k \in Handles, g \in Chars : Here(k, g) => k = omap[e.sess] /\ mst[k] = "running"
           /\ \A k \in Handles : leaving[k] # None => k = omap[e.sess] /\ mst[k] = "running"
           /\ \A k \in Handles : \A j \in Box(k) :
                 mq[k][j].op = "arrive" => k = omap[e.sess] /\ mq[k][j].p.on.sess = e.sess
           /\ \A t \in Sessions : passing[t] = None
           /\ \A t \in Sessions : \A j \in Words(t) : ctl[t][j].op # "transfer"
<1>1. ASSUME NEW t \in Sessions, passing[t] # None
      PROVE  FALSE
    BY <1>1 DEF WInv, SpotsListed, BetweenMaps
<1>2. ASSUME NEW t \in Sessions, NEW j \in Words(t), ctl[t][j].op = "transfer"
      PROVE  FALSE
    <2>1. t = e.sess
        BY <1>2 DEF WInv, SpotsListed
    <2> QED BY <1>2, <2>1 DEF BetweenMaps, Words
<1>3. /\ \A k \in Handles, g \in Chars : Here(k, g) => k = omap[e.sess] /\ mst[k] = "running"
      /\ \A k \in Handles : leaving[k] # None => k = omap[e.sess] /\ mst[k] = "running"
      /\ \A k \in Handles : \A j \in Box(k) :
            mq[k][j].op = "arrive" => k = omap[e.sess] /\ mq[k][j].p.on.sess = e.sess
    BY DEF WInv, SpotsListed, OnList
<1> QED BY <1>1, <1>2, <1>3

LEMMA ReapNone ==
    ASSUME TInv, WInv, NoneMissed', NEW e \in Entry, Reap(e), online = e, ~Hears(e.sess), ~Open(omap[e.sess])
    PROVE  NoSpots
<1>1. ~BetweenMaps(e.sess) /\ ~ToHandOn(e.sess)
    BY DEF Reap, NoneMissed
<1>2. \A t \in Sessions : phase[t] # "arriving"
    BY DEF WInv, SpotsListed, Hears
<1>3. \A k \in Handles : mst[k] = "running" => k # omap[e.sess]
    BY HandleIs DEF Open
<1>4. ASSUME NEW k \in Handles, NEW j \in Box(k), mq[k][j].op = "arrive"
      PROVE  FALSE
    <2>1. k = omap[e.sess] /\ mq[k][j].p.on.sess = e.sess
        BY <1>1, <1>4, AllThere
    <2>2. ComesTo(e.sess, k) /\ ~Open(k)
        BY <1>4, <2>1 DEF ComesTo, Box
    <2> QED BY <1>1, <2>2 DEF ToHandOn
<1> QED BY <1>1, <1>2, <1>3, <1>4, AllThere DEF NoSpots, AllAt

(* A session's step that reaps an entry.                                  *)
LEMMA ReapStep ==
    ASSUME TInv, TInv', WInv, NoneMissed', NEW s \in Sessions, Session(s) \/ Client(s) \/ Kick(s),
           NEW e \in Entry, Reap(e), ~Hears(e.sess), NEW Q, NEW M, WordsGo(Q, M),
           \A x \in M : x[2].op \notin {"transfer", "loggedout"},
           UNCHANGED <<omap, mst, passing>>, phase'[s] # "arriving", Own(s)
    PROVE  WInv'
<1>1. UNCHANGED <<players, leaving, next>> /\ Others(s) /\ Heard
    BY SessionsLeave, OthersKept, OwnPhase
<1>2. \A t \in Sessions : phase'[t] = "arriving" => phase[t] = "arriving" /\ goal'[t] = goal[t] /\ logins'[t] = logins[t]
    BY <1>1 DEF Others
<1>3. MapsGo
    BY <1>1, MapsSame
<1>4. e.sess \in Sessions /\ ~Hears(e.sess)'
    BY <1>1, EntryIs DEF Heard
<1>5. CASE Open(omap[e.sess])
    <2> DEFINE h == omap[e.sess]
               N == {<<h, [op |-> "reap", e |-> e]>>}
    <2>1. h \in Handles
        BY <1>4, <1>5 DEF Open, TInv, Types, RegTypes
    <2>2. MailGoes({}, N) /\ online' = online
        BY <1>5, ReapMail DEF Reap
    <2>3. \A x \in N : x[2].op = "reap" /\ x[1] = h /\ x[2].e = e
        OBVIOUS
    <2> HIDE DEF N
    <2>4. SpotsGo({}, Q, N, M)
        BY <1>1, <1>2, <2>2, <2>3 DEF SpotsGo, Here
    <2>5. ListGoes
        BY <1>1, <1>2, <2>2 DEF ListGoes
    <2>6. ASSUME NEW k \in Handles, NEW i \in Box(k)', mq'[k][i].op = "reap"
          PROVE  Reaped(k, i)'
        <3>1. CASE i \in Box(k) /\ mq'[k][i] = mq[k][i]
            BY <1>1, <1>3, <2>2, <2>4, <2>6, <3>1, ReapedKept DEF WInv, TInv
        <3>2. CASE i \notin Box(k) /\ <<k, mq'[k][i]>> \in N
            <4>1. k = h /\ mq'[k][i].e = e
                BY <2>3, <3>2
            <4>2. ASSUME online' # None, online' = e
                  PROVE  Near(k, i)'
                <5>1. ~BetweenMaps(e.sess) /\ online = e
                    BY <2>2, <4>2 DEF Reap, NoneMissed
                <5>2. /\ \A o \in Handles, g \in Chars : Here(o, g)' => o = k
                      /\ \A o \in Handles : leaving'[o] # None => o = k
                      /\ \A t \in Sessions : passing'[t] = None
                    BY <1>1, <4>1, <5>1, AllThere DEF Here
                <5>3. \A t \in Sessions : \A j \in Words(t)' : ctl'[t][j].op # "transfer"
                    BY <5>1, AllThere, WordFrom DEF SpotsGo
                <5>4. ASSUME NEW o \in Handles, NEW j \in Box(o)', mq'[o][j].op = "arrive"
                      PROVE  o = k /\ j < i
                    <6>1. j \in Box(o) /\ mq'[o][j] = mq[o][j]
                        BY <2>2, <2>3, <5>4, MailFrom
                    <6>2. o = k
                        BY <4>1, <5>1, <5>4, <6>1, AllThere
                    <6>3. Len(mq[k]) \in Nat
                        BY LenProperties DEF TInv, Types, ActorTypes
                    <6> QED BY <3>2, <6>1, <6>2, <6>3, BoxIntNext DEF Box
                <5> QED BY <5>2, <5>3, <5>4 DEF Near, Leads
            <4> QED BY <1>4, <4>1, <4>2 DEF Reaped, Hears
        <3> QED BY <2>2, <3>1, <3>2 DEF MailGoes
    <2>7. Reaps'
        BY <2>6 DEF Reaps
    <2>8. (\A x \in N : x[2].op # "takeover") /\ (\A x \in M : x[2].op # "loggedout")
        BY <2>3
    <2> QED BY <1>1, <2>4, <2>5, <2>7, <2>8, SessionRest
<1>6. CASE ~Open(omap[e.sess]) /\ online # e
    <2>1. online' = online /\ mq' = mq
        BY <1>6 DEF Reap
    <2> QED BY <2>1, MailSame, QuietStep DEF TInv, Types
<1>7. CASE ~Open(omap[e.sess]) /\ online = e
    <2>1. online' = None /\ mq' = mq /\ NoSpots
        BY <1>7, ReapNone DEF Reap
    <2>2. MailGoes({}, {})
        BY <2>1, MailSame DEF TInv, Types
    <2>3. SpotsGo({}, Q, {}, M)
        BY <1>1, <1>2, <2>2 DEF SpotsGo, Here
    <2> QED BY <1>1, <1>3, <2>1, <2>3, VanishStep
<1> QED BY <1>5, <1>6, <1>7

LEMMA KicksStep ==
    ASSUME TInv, TInv', WInv, NoneMissed', NEW s \in Sessions, LookOther(s) \/ GivesUp(s)
    PROVE  WInv'
<1>1. /\ Session(s) /\ UNCHANGED <<omap, mst, passing, logins, state>>
      /\ phase' = [phase EXCEPT ![s] = "serving"] /\ goal' = [goal EXCEPT ![s] = None]
      /\ \/ LookOther(s) /\ phase[s] = "login" /\ online # None /\ KickOther(s, online) /\ reply' = reply
         \/ /\ GivesUp(s) /\ phase[s] = "asking" /\ reply[s] = No /\ KickOther(s, existing[s])
            /\ reply' = [reply EXCEPT ![s] = None]
    BY DEF Session, LookOther, GivesUp, KickOther, mapsV
<1>2. PICK e \in Entry : KickOther(s, e)
    <2>1. phase[s] = "asking" => existing[s] \in Entry
        BY DEF TInv, Phases, Holds
    <2>2. online # None => online \in Entry
        BY DEF TInv, Types, RegTypes
    <2> QED BY <1>1, <2>1, <2>2
<1>3. phase'[s] = "serving" /\ (reply[s] # None => phase[s] = "asking")
    BY <1>1 DEF TInv, Types, SessTypes, WInv, TakeOvers
<1>4. reply'[s] = None /\ (phase[s] = "login" \/ (phase[s] = "asking" /\ reply[s] = No))
    BY <1>1, <1>3 DEF TInv, Types, SessTypes
<1>5. No \notin Handles /\ None # No
    BY HandleIs, WorldAssumption
<1>6. Own(s)
    BY <1>1, <1>3, <1>4, <1>5 DEF Own, Fits, Out, Asks, WInv, Counts
<1>7. WordsGo({}, {<<e.sess, [op |-> "kick"]>>})
    BY <1>2, KickOtherTyped
<1>8. \A x \in {<<e.sess, [op |-> "kick"]>>} : x[2].op \notin {"transfer", "loggedout"}
    OBVIOUS
<1>9. CASE Hears(e.sess)
    <2>1. UNCHANGED <<mq, online>>
        BY <1>2, <1>9 DEF KickOther
    <2>2. MailGoes({}, {})
        BY <2>1, MailSame DEF TInv, Types
    <2> QED BY <1>1, <1>3, <1>6, <1>7, <1>8, <2>1, <2>2, QuietStep
<1>10. CASE ~Hears(e.sess)
    <2>1. Reap(e)
        BY <1>2, <1>10 DEF KickOther
    <2> QED BY <1>1, <1>3, <1>6, <1>7, <1>8, <1>10, <2>1, ReapStep
<1> QED BY <1>9, <1>10

LEMMA ScreenStep ==
    ASSUME TInv, TInv', WInv, NEW s \in Sessions, DisconnectScreen(s)
    PROVE  WInv'
<1>1. /\ Session(s) /\ UNCHANGED <<omap, mst, passing, logins, state, goal, reply, ctl>>
      /\ phase[s] = "ending" /\ state[s] = "Screen" /\ ctl[s] = <<>>
    BY DEF Session, DisconnectScreen, mapsV
<1>2. phase'[s] \in {"releasing", "gone"} /\ Words(s)' = {}
    <2>1. phase' = [phase EXCEPT ![s] = "releasing"] \/ phase' = [phase EXCEPT ![s] = "gone"]
        BY DEF DisconnectScreen
    <2> QED BY <1>1, <2>1 DEF TInv, Types, SessTypes, Words
<1>3. Own(s)
    BY <1>1, <1>2 DEF Own, Fits, Out, Asks, WInv, TakeOvers, Counts
<1>4. WordsGo({}, {}) /\ (mq' = mq => MailGoes({}, {}))
    BY <1>1, WordsSame, MailSame DEF TInv, Types
<1>5. ~(online # None /\ online.sess = s)
    BY <1>1 DEF WInv, Screens, Fits
<1>6. UNCHANGED <<mq, online>>
    BY <1>5 DEF DisconnectScreen, actorV
<1> QED BY <1>1, <1>2, <1>3, <1>4, <1>6, QuietStep

LEMMA ReapLeftStep ==
    ASSUME TInv, TInv', WInv, NoneMissed', NEW s \in Sessions, ReapLeft(s)
    PROVE  WInv'
<1>1. /\ Session(s) /\ UNCHANGED <<omap, mst, passing, logins, state, goal, reply, ctl>>
      /\ phase[s] = "releasing" /\ phase'[s] = "gone" /\ Reap(existing[s])
    BY DEF Session, ReapLeft, mapsV, TInv, Types, SessTypes
<1>2. existing[s] \in Entry /\ ~Hears(existing[s].sess)
    BY ReapLeftTyped
<1>3. Own(s)
    BY <1>1 DEF Own, Fits, Out, Asks, WInv, TakeOvers, Counts
<1>4. WordsGo({}, {})
    BY <1>1, WordsSame DEF TInv, Types
<1> QED BY <1>1, <1>2, <1>3, <1>4, ReapStep

(* The map gone that a client left in the world is listed in: their player *)
(* went with it.                                                          *)
LEMMA DisconnectStep ==
    ASSUME TInv, TInv', WInv, NoneMissed', NEW s \in Sessions, Disconnect(s)
    PROVE  WInv'
<1>1. /\ Session(s) /\ UNCHANGED <<omap, mst, passing, logins, reply, ctl>>
      /\ phase[s] = "ending" /\ phase'[s] = "gone" /\ ctl[s] = <<>> /\ passing[s] = None
    BY DEF Session, Disconnect, mapsV, TInv, Types, SessTypes
<1>2. Own(s)
    <2>1. Words(s)' = {}
        BY <1>1 DEF Words
    <2> QED BY <1>1, <2>1 DEF Own, Fits, Asks, WInv, TakeOvers, Counts
<1>3. WordsGo({}, {})
    BY <1>1, WordsSame DEF TInv, Types
<1>4. CASE online' = online
    <2>1. PICK op \in {"leave", "disconnect"} :
             MailGoes({}, {<<handle[s], [op |-> op, g |-> goal[s], sess |-> s]>>})
        BY DisconnectTyped
    <2>2. \A x \in {<<handle[s], [op |-> op, g |-> goal[s], sess |-> s]>>} :
             x[2].op \notin {"arrive", "takeover", "reap"}
        OBVIOUS
    <2> QED BY <1>1, <1>2, <1>3, <1>4, <2>1, <2>2, QuietStep
<1>5. CASE online' # online
    <2>1. /\ online' = None /\ mq' = mq /\ LostWith(s) /\ ~Open(handle[s]) /\ ~ToHandOn(s)
        BY <1>1, <1>5 DEF Disconnect, TInv, Types, SessTypes, Lost, NoneMissed
    <2>2. online # None /\ online.sess = s /\ omap[s] = handle[s]
        BY <2>1 DEF LostWith
    <2>3. ~BetweenMaps(s)
        BY <1>1 DEF BetweenMaps
    <2>4. \A t \in Sessions : phase[t] # "arriving"
        BY <1>1, <2>2 DEF WInv, SpotsListed
    <2>5. ASSUME NEW k \in Handles, NEW j \in Box(k), mq[k][j].op = "arrive"
          PROVE  FALSE
        <3>1. k = omap[s] /\ mq[k][j].p.on.sess = s
            BY <2>2, <2>3, <2>5, AllThere
        <3>2. ComesTo(s, k) /\ ~Open(k)
            BY <2>1, <2>2, <2>5, <3>1 DEF ComesTo, Box
        <3> QED BY <2>1, <3>2 DEF ToHandOn
    <2>6. \A k \in Handles : mst[k] = "running" => k # omap[s]
        BY <2>1, <2>2, HandleIs DEF Open
    <2>7. NoSpots
        BY <2>2, <2>3, <2>4, <2>5, <2>6, AllThere DEF NoSpots, AllAt
    <2>8. UNCHANGED <<players, leaving, next>> /\ Others(s) /\ Heard
        BY <1>1, SessionsLeave, OthersKept, OwnPhase
    <2>9. MailGoes({}, {})
        BY <2>1, MailSame DEF TInv, Types
    <2>10. \A t \in Sessions : phase'[t] = "arriving" => phase[t] = "arriving"
        BY <1>1, <2>8 DEF Others
    <2>11. SpotsGo({}, {}, {}, {})
        BY <1>1, <1>3, <2>8, <2>9, <2>10 DEF SpotsGo, Here
    <2>12. MapsGo
        BY <1>1, <2>8, MapsSame
    <2> QED BY <1>2, <2>1, <2>7, <2>8, <2>11, <2>12, VanishStep
<1> QED BY <1>4, <1>5

-----------------------------------------------------------------------------
(* Where a player moves.  Reaps waiting for the entry, as they do.         *)
LEMMA ReapsMoved ==
    ASSUME Types, Reaps, NEW P, NEW N, MailGoes(P, N), \A x \in N : x[2].op # "reap", Heard,
           \A h \in Handles : \A i \in Box(h)' : LET j == IF h \in P THEN i + 1 ELSE i IN
               mq'[h][i].op = "reap" /\ j \in Box(h) /\ mq'[h][i] = mq[h][j] /\ Reaped(h, j)
               /\ online' # None /\ online' = mq[h][j].e => Dead(h)' \/ Near(h, i)'
    PROVE  Reaps'
<1> SUFFICES ASSUME NEW h \in Handles, NEW i \in Box(h)', mq'[h][i].op = "reap"
             PROVE  Reaped(h, i)'
    BY DEF Reaps
<1> DEFINE j == IF h \in P THEN i + 1 ELSE i
<1>1. j \in Box(h) /\ mq'[h][i] = mq[h][j]
    BY MailFrom
<1>2. mq[h][j] \in OwnEvent
    <2>1. mq[h] \in Seq(OwnEvent)
        BY DEF Types, ActorTypes
    <2> QED BY <1>1, <2>1, ElementOfSeq DEF Box
<1>3. Reaped(h, j)
    BY <1>1 DEF Reaps
<1>4. online' # None /\ online' = mq[h][j].e => Dead(h)' \/ Near(h, i)'
    BY <1>1, <1>3
<1> HIDE DEF j
<1>5. PICK e \in Entry : e = mq'[h][i].e /\ e = mq[h][j].e /\ e.sess \in Sessions /\ ~Hears(e.sess)
    <2>1. mq[h][j].e \in Entry
        BY <1>1, <1>2, EventIs
    <2> QED BY <1>1, <1>3, <2>1, EntryIs DEF Reaped
<1>6. ~Hears(e.sess)'
    BY <1>5 DEF Heard
<1> QED BY <1>4, <1>5, <1>6 DEF Reaped, Hears

(* Their session hears: none waits that is for it.                        *)
LEMMA ReapsFree ==
    ASSUME Types, Reaps, NEW P, NEW N, MailGoes(P, N), \A x \in N : x[2].op # "reap", Heard,
           online' = None \/ Hears(online'.sess)
    PROVE  Reaps'
<1>1. ASSUME NEW h \in Handles, NEW j \in Box(h), Reaped(h, j), online' # None, online' = mq[h][j].e
      PROVE  FALSE
    BY <1>1 DEF Reaped
<1>2. \A h \in Handles : \A i \in Box(h)' : LET j == IF h \in P THEN i + 1 ELSE i IN
         mq'[h][i].op = "reap" /\ j \in Box(h) /\ mq'[h][i] = mq[h][j] /\ Reaped(h, j)
         /\ online' # None /\ online' = mq[h][j].e => Dead(h)' \/ Near(h, i)'
    BY <1>1
<1> QED BY <1>2, ReapsMoved

(* Players in mailboxes: none, or one at the end of one of them.           *)
NoneIn(boxes) == \A k \in Handles : \A i \in 1..Len(boxes[k]) : boxes[k][i].op # "arrive"
OnlyIn(boxes, h, n, e) ==
    \A k \in Handles : \A i \in 1..Len(boxes[k]) :
        boxes[k][i].op = "arrive" => k = h /\ i = n /\ boxes[k][i] = e

LEMMA PutOne ==
    ASSUME NEW boxes \in [Handles -> Seq(OwnEvent)], NEW h \in Handles, NEW e \in OwnEvent, NoneIn(boxes)
    PROVE  /\ Put(boxes, h, e) \in [Handles -> Seq(OwnEvent)]
           /\ OnlyIn(Put(boxes, h, e), h, Len(boxes[h]) + 1, e)
<1>1. boxes[h] \in Seq(OwnEvent)
    OBVIOUS
<1>2. /\ Append(boxes[h], e) \in Seq(OwnEvent) /\ Len(boxes[h]) \in Nat
      /\ Len(Append(boxes[h], e)) = Len(boxes[h]) + 1
      /\ \A i \in 1..Len(boxes[h]) : Append(boxes[h], e)[i] = boxes[h][i]
      /\ Append(boxes[h], e)[Len(boxes[h]) + 1] = e
    BY <1>1, AppendProperties, LenProperties
<1>3. /\ Put(boxes, h, e)[h] = Append(boxes[h], e)
      /\ \A k \in Handles : k # h => Put(boxes, h, e)[k] = boxes[k]
    BY DEF Put
<1>4. Put(boxes, h, e) \in [Handles -> Seq(OwnEvent)]
    BY <1>2 DEF Put
<1>5. ASSUME NEW i \in 1..Len(Put(boxes, h, e)[h]), Put(boxes, h, e)[h][i].op = "arrive"
      PROVE  i = Len(boxes[h]) + 1 /\ Put(boxes, h, e)[h][i] = e
    BY <1>2, <1>3, <1>5 DEF NoneIn
<1>6. ASSUME NEW k \in Handles, NEW i \in 1..Len(Put(boxes, h, e)[k]), Put(boxes, h, e)[k][i].op = "arrive"
      PROVE  k = h
    BY <1>3, <1>6 DEF NoneIn
<1>7. OnlyIn(Put(boxes, h, e), h, Len(boxes[h]) + 1, e)
    BY <1>5, <1>6 DEF OnlyIn
<1> QED BY <1>4, <1>7

LEMMA PutOther ==
    ASSUME NEW boxes \in [Handles -> Seq(OwnEvent)], NEW h, NEW n, NEW e, OnlyIn(boxes, h, n, e),
           NEW t \in Handles, NEW f \in OwnEvent, f.op # "arrive"
    PROVE  OnlyIn(Put(boxes, t, f), h, n, e)
<1>1. boxes[t] \in Seq(OwnEvent)
    OBVIOUS
<1>2. \A i \in 1..Len(Append(boxes[t], f)) :
         \/ i \in 1..Len(boxes[t]) /\ Append(boxes[t], f)[i] = boxes[t][i]
         \/ Append(boxes[t], f)[i] = f
    BY <1>1, Appends
<1>3. /\ Put(boxes, t, f)[t] = Append(boxes[t], f)
      /\ \A k \in Handles : k # t => Put(boxes, t, f)[k] = boxes[k]
    BY DEF Put
<1>4. ASSUME NEW i \in 1..Len(Put(boxes, t, f)[t]), Put(boxes, t, f)[t][i].op = "arrive"
      PROVE  t = h /\ i = n /\ Put(boxes, t, f)[t][i] = e
    BY <1>2, <1>3, <1>4 DEF OnlyIn
<1>5. ASSUME NEW k \in Handles, k # t, NEW i \in 1..Len(Put(boxes, t, f)[k]), Put(boxes, t, f)[k][i].op = "arrive"
      PROVE  k = h /\ i = n /\ Put(boxes, t, f)[k][i] = e
    BY <1>3, <1>5 DEF OnlyIn
<1> QED BY <1>4, <1>5 DEF OnlyIn

-----------------------------------------------------------------------------
(* Sessions' steps that put a player somewhere.                           *)
LEMMA LookTheirsStep ==
    ASSUME TInv, TInv', WInv, NEW s \in Sessions, LookTheirs(s)
    PROVE  WInv'
<1>1. /\ Session(s) /\ UNCHANGED <<omap, mst, passing, logins, state, goal, online, ctl>>
      /\ phase[s] = "login" /\ phase'[s] = "asking" /\ online # None /\ online.g = goal[s]
    BY DEF Session, LookTheirs, mapsV, regV, TInv, Types, SessTypes
<1>2. reply[s] = None /\ None # No
    BY <1>1, WorldAssumption DEF WInv, TakeOvers
<1>3. Own(s)
    BY <1>1 DEF Own, Fits, Out, Asks, WInv, Counts
<1>4. UNCHANGED <<players, leaving, next>> /\ Others(s) /\ Heard
    BY <1>1, SessionsLeave, OthersKept, OwnPhase
<1>5. WordsGo({}, {})
    BY <1>1, WordsSame DEF TInv, Types
<1>6. CASE ~Open(omap[online.sess])
    <2>1. mq' = mq
        BY <1>6 DEF LookTheirs
    <2> QED BY <1>1, <1>3, <1>5, <2>1, MailSame, QuietStep DEF TInv, Types
<1>7. CASE Open(omap[online.sess])
    <2>1. PICK h \in Handles : h = omap[online.sess] /\ online \in Entry
        BY <1>1, <1>7, EntryIs DEF TInv, Types, RegTypes, Open
    <2> DEFINE ask == [op |-> "takeover", old |-> online, new |-> NewEntry(s)]
    <2>2. /\ NewEntry(s) \in Entry /\ NewEntry(s).sess = s /\ NewEntry(s).g = goal[s]
          /\ NewEntry(s).n = logins[s]
        BY <1>1, NewEntryIs DEF TInv, Types, Phases, Holds
    <2>3. ask \in OwnEvent
        BY <1>1, <2>1, <2>2, TakeOverSent
    <2>4. mq' = Put(mq, h, ask) /\ reply' = reply
        BY <1>7, <2>1 DEF LookTheirs
    <2>5. MailGoes({}, {<<h, ask>>})
        BY <2>1, <2>3, <2>4, MailPut DEF TInv, Types
    <2>6. \A x \in {<<h, ask>>} : x[2].op \notin {"arrive", "reap"} /\ x[1] = h /\ x[2] = ask
        OBVIOUS
    <2>7. \A t \in Sessions : phase'[t] = "arriving" => phase[t] = "arriving" /\ goal'[t] = goal[t] /\ logins'[t] = logins[t]
        BY <1>1, <1>4 DEF Others
    <2>8. SpotsGo({}, {}, {<<h, ask>>}, {})
        BY <1>1, <1>4, <1>5, <2>5, <2>6, <2>7 DEF SpotsGo, Here
    <2>9. ListGoes
        BY <1>1, <1>4, <2>7 DEF ListGoes
    <2>10. Reaps'
        BY <1>1, <1>4, <2>6, <2>8, MapsSame, ReapsKept DEF WInv, TInv
    <2>11. \A t \in Sessions : reply'[t] # None => phase'[t] = "asking"
        BY <1>1, <1>2, <1>4, <2>4 DEF WInv, TakeOvers, Others
    <2>12. \A k \in Handles : \A j \in Box(k) :
              mq[k][j].op = "takeover" => AskedBy(k, j) /\ mq[k][j].new.sess # s /\ mq[k][j].new.sess \in Sessions
        <3> SUFFICES ASSUME NEW k \in Handles, NEW j \in Box(k), mq[k][j].op = "takeover"
                     PROVE  AskedBy(k, j) /\ mq[k][j].new.sess # s /\ mq[k][j].new.sess \in Sessions
            OBVIOUS
        <3>1. AskedBy(k, j)
            BY DEF WInv, TakeOvers
        <3>2. mq[k] \in Seq(OwnEvent)
            BY DEF TInv, Types, ActorTypes
        <3>3. mq[k][j].new \in Entry
            BY <3>2, ElementOfSeq, EventIs DEF Box
        <3> QED BY <1>1, <3>1, <3>3, EntryIs DEF AskedBy, Asks
    <2>13. \A k \in Handles : \A i \in Box(k)' : mq'[k][i].op = "takeover" =>
              \/ i \in Box(k) /\ mq'[k][i] = mq[k][i]
              \/ i \notin Box(k) /\ k = h /\ mq'[k][i] = ask
        BY <2>5, <2>6 DEF MailGoes
    <2>14. \A i \in Box(h)' : i \notin Box(h) => i = Len(mq[h]) + 1
        <3>1. mq[h] \in Seq(OwnEvent) /\ mq'[h] = Append(mq[h], ask)
            BY <2>1, <2>4 DEF TInv, Types, ActorTypes, Put
        <3>2. Len(mq[h]) \in Nat /\ Len(mq'[h]) = Len(mq[h]) + 1
            BY <2>3, <3>1, AppendProperties, LenProperties
        <3> QED BY <3>2 DEF Box
    <2>15. ASSUME NEW k \in Handles, NEW i \in Box(k)', mq'[k][i].op = "takeover"
           PROVE  AskedBy(k, i)'
        <3>1. CASE i \in Box(k) /\ mq'[k][i] = mq[k][i]
            <4>1. PICK t \in Sessions : t = mq'[k][i].new.sess /\ t = mq[k][i].new.sess /\ t # s
                BY <2>12, <2>15, <3>1
            <4>2. /\ Asks(t) /\ mq[k][i].new.g = goal[t] /\ mq[k][i].new.n = logins[t]
                  /\ \A o \in Handles : \A j \in Box(o) :
                        mq[o][j].op = "takeover" /\ mq[o][j].new.sess = t => o = k /\ j = i
                BY <2>12, <2>15, <3>1, <4>1 DEF AskedBy
            <4>3. Asks(t)' /\ mq'[k][i].new.g = goal'[t] /\ mq'[k][i].new.n = logins'[t]
                BY <1>1, <1>4, <2>4, <3>1, <4>1, <4>2 DEF Asks, Others
            <4>4. \A o \in Handles : \A j \in Box(o)' :
                     mq'[o][j].op = "takeover" /\ mq'[o][j].new.sess = t => o = k /\ j = i
                BY <2>2, <2>13, <4>1, <4>2
            <4> QED BY <4>1, <4>3, <4>4 DEF AskedBy, Asks
        <3>2. CASE i \notin Box(k) /\ k = h /\ mq'[k][i] = ask
            <4>1. mq'[k][i].new = NewEntry(s)
                BY <3>2
            <4>2. Asks(s)' /\ goal'[s] = goal[s] /\ logins'[s] = logins[s]
                BY <1>1, <1>2, <2>4 DEF Asks
            <4>3. \A o \in Handles : \A j \in Box(o)' :
                     mq'[o][j].op = "takeover" /\ mq'[o][j].new.sess = s => o = k /\ j = i
                BY <2>12, <2>13, <2>14, <3>2
            <4> QED BY <2>2, <4>1, <4>2, <4>3 DEF AskedBy, Asks
        <3> QED BY <2>13, <2>15, <3>1, <3>2
    <2>16. TakeOvers'
        BY <2>11, <2>15 DEF TakeOvers
    <2> QED BY <1>3, <1>4, <2>8, <2>9, <2>10, <2>16, SessionParts
<1> QED BY <1>6, <1>7

(* Others' logins and take-overs, as a session's step leaves them.         *)
LEMMA OthersAsk ==
    ASSUME WInv, NEW s \in Sessions, NEW P, NEW N, MailGoes(P, N), \A x \in N : x[2].op # "takeover",
           Others(s), ~Asks(s), reply'[s] # None => phase'[s] = "asking", logins'[s] <= MaxLogins
    PROVE  TakeOvers' /\ Counts'
<1>1. \A t \in Sessions : reply'[t] # None => phase'[t] = "asking"
    BY DEF Others, WInv, TakeOvers
<1>2. \A t \in Sessions : Asks(t) => Asks(t)' /\ goal'[t] = goal[t] /\ logins'[t] = logins[t]
    BY DEF Others, Asks
<1>3. TakeOvers'
    BY <1>1, <1>2, TakeOversKept DEF WInv
<1>4. Counts'
    BY DEF Others, Counts, WInv
<1> QED BY <1>3, <1>4

LEMMA EnterStep ==
    ASSUME TInv, TInv', WInv, NEW s \in Sessions, NEW k \in Keys, Enter(s, k)
    PROVE  WInv'
<1>1. /\ Session(s) /\ UNCHANGED <<mq, players, leaving, next, passing, ctl, logins, state, goal, reply>>
      /\ phase[s] = "loading"
    BY DEF Session, Enter, actorV
<1>2. MapsGo /\ \A h \in Handles : mst[h] # "unborn" => mst'[h] = mst[h]
    <2>1. CASE k \in Worlds
        <3>1. Got(Target(k))
            BY <2>1, GetTyped DEF Enter
        <3> QED BY <1>1, <3>1, MapsGot DEF Got
    <2>2. CASE k \notin Worlds
        BY <1>1, <2>2, MapsSame DEF Enter
    <2> QED BY <2>1, <2>2
<1>3. Others(s) /\ Heard
    BY <1>1, OthersKept, OwnPhase
<1>4. MailGoes({}, {}) /\ WordsGo({}, {})
    BY <1>1, MailSame, WordsSame DEF TInv, Types
<1>5. reply[s] = None /\ ~Asks(s) /\ logins[s] <= MaxLogins
    BY <1>1 DEF WInv, TakeOvers, Asks, Counts
<1>6. CASE online # None
    <2>1. phase'[s] = "login" /\ UNCHANGED <<online, omap>>
        BY <1>6 DEF Enter, TInv, Types, SessTypes
    <2>2. \A t \in Sessions : phase'[t] = "arriving" => phase[t] = "arriving" /\ goal'[t] = goal[t] /\ logins'[t] = logins[t]
        BY <1>3, <2>1 DEF Others
    <2>3. SpotsGo({}, {}, {}, {})
        BY <1>1, <1>4, <2>2 DEF SpotsGo, Here
    <2>4. ListGoes
        BY <1>1, <1>2, <2>1, <2>2 DEF ListGoes, WInv, SpotsListed, Here
    <2>5. Own(s)
        BY <1>1, <1>5, <2>1 DEF Own, Fits, Out
    <2> QED BY <1>2, <1>3, <2>3, <2>4, <2>5, SessionStep
<1>7. CASE online = None
    <2>1. phase'[s] = "arriving" /\ online' = NewEntry(s)
        BY <1>7 DEF Enter, TInv, Types, SessTypes
    <2>2. /\ goal[s] \in Chars /\ NewEntry(s).sess = s /\ NewEntry(s).g = goal[s]
          /\ NewEntry(s).n = logins[s]
        BY <1>1, NewEntryIs DEF TInv, Types, Phases, Holds
    <2>3. NewEntry(s) # None
        <3>1. logins[s] \in 0..MaxLogins
            BY <1>5, WorldAssumption DEF TInv, Types, SessTypes
        <3> QED BY <2>2, <3>1, WorldAssumption DEF NewEntry
    <2>4. NoSpots
        BY <1>7, NoneListed DEF WInv
    <2>5. AllAt("login", s, None)'
        BY <1>1, <1>3, <2>1, <2>4 DEF AllAt, NoSpots, Here, Box, Words, Others
    <2>6. SpotsListed'
        BY <1>1, <2>1, <2>2, <2>3, <2>5 DEF AllAt, SpotsListed
    <2>7. Screens'
        BY <2>1, <2>2 DEF Screens, Fits
    <2>8. LoggedOut'
        <3>1. \A t \in Sessions : \A i \in Words(t)' : ctl'[t][i].op = "loggedout" /\ Out(t) => Out(t)'
            BY <1>1, <1>3 DEF Out, Others
        <3>2. ~Out(online'.sess)
            BY <1>1, <2>1, <2>2 DEF Out
        <3> QED BY <1>4, <3>1, <3>2, LoggedKept DEF WInv
    <2>9. TakeOvers' /\ Counts'
        BY <1>1, <1>3, <1>4, <1>5, OthersAsk
    <2>10. Reaps'
        BY <1>1, <1>3, <1>4, <2>1, <2>2, ReapsFree DEF WInv, TInv, Hears
    <2> QED BY <2>5, <2>6, <2>7, <2>8, <2>9, <2>10 DEF WInv, OneSpot
<1> QED BY <1>6, <1>7

LEMMA ResumeStep ==
    ASSUME TInv, TInv', WInv, NEW s \in Sessions, NEW k \in Keys, Resume(s, k)
    PROVE  WInv'
<1>1. /\ Session(s) /\ UNCHANGED <<mq, players, leaving, next, handed, online, phase, passing, ctl, logins, state, goal, reply>>
      /\ phase[s] = "arriving" /\ omap' = [omap EXCEPT ![s] = Target(k)]
    BY DEF Session, Resume, actorV, sessV
<1>2. Got(Target(k))
    BY GetTyped DEF Resume
<1>3. MapsGo /\ \A h \in Handles : mst[h] # "unborn" => mst'[h] = mst[h]
    BY <1>1, <1>2, MapsGot DEF Got
<1>4. Others(s) /\ Heard
    BY <1>1, OthersKept, OwnPhase
<1>5. MailGoes({}, {}) /\ WordsGo({}, {})
    BY <1>1, MailSame, WordsSame DEF TInv, Types
<1>6. SpotsGo({}, {}, {}, {})
    BY <1>1, <1>5 DEF SpotsGo, Here
<1>7. OneSpot'
    BY <1>6, SpotsKept DEF WInv
<1>8. PICK c, x, y : AllAt(c, x, y)
    BY DEF WInv, OneSpot
<1>9. c = "login"
    BY <1>1, <1>8 DEF AllAt
<1>10. SpotsListed'
    BY <1>1, <1>8, <1>9 DEF AllAt, SpotsListed, Here, Box, Words, WInv
<1>11. Screens' /\ Counts'
    BY <1>1 DEF WInv, Screens, Fits, Counts
<1>12. LoggedOut'
    BY <1>1, <1>5, LoggedKept DEF WInv, Out
<1>13. TakeOvers'
    BY <1>1, <1>5, TakeOversKept DEF WInv, TakeOvers, Asks
<1>14. Reaps'
    BY <1>1, <1>3, <1>4, <1>6, ReapsKept DEF WInv, TInv
<1> QED BY <1>7, <1>10, <1>11, <1>12, <1>13, <1>14 DEF WInv

LEMMA OnlineIs ==
    ASSUME NEW e \in Entry
    PROVE  e = [g |-> e.g, sess |-> e.sess, n |-> e.n]
BY DEF Entry

(* Who is in a mailbox now and nowhere else, and who is nowhere.           *)
LEMMA MailedNow ==
    ASSUME NEW h \in Handles, NEW n, NEW e, OnlyIn(mq', h, n, e),
           \A k \in Handles, g \in Chars : ~Here(k, g)',
           \A s \in Sessions : \A i \in Words(s)' : ctl'[s][i].op # "transfer",
           \A s \in Sessions : passing'[s] = None /\ phase'[s] # "arriving",
           \A k \in Handles : leaving'[k] = None,
           online' # None, e.p.on = online', omap'[online'.sess] = h
    PROVE  OneSpot' /\ SpotsListed'
<1>1. \A k \in Handles : \A i \in Box(k)' : mq'[k][i].op = "arrive" => k = h /\ i = n /\ mq'[k][i] = e
    BY DEF OnlyIn, Box
<1>2. AllAt("mail", h, n)'
    BY <1>1 DEF AllAt
<1>3. SpotsListed'
    BY <1>1 DEF SpotsListed, OnList
<1> QED BY <1>2, <1>3 DEF OneSpot

LEMMA GoneNow ==
    ASSUME NoSpots', online' = None
    PROVE  OneSpot' /\ SpotsListed' /\ Screens'
BY DEF NoSpots, OneSpot, SpotsListed, AllAt, Screens

(* One between maps is reaped by none that is handled.                    *)
LEMMA ReapsBetween ==
    ASSUME Types, Reaps, NEW P, NEW N, MailGoes(P, N), \A x \in N : x[2].op # "reap", Heard, MapsGo,
           online' \in {online, None},
           \/ \E s \in Sessions : passing[s] # None
           \/ \E s \in Sessions : \E i \in Words(s) : ctl[s][i].op = "transfer"
    PROVE  Reaps'
<1>1. \A h \in Handles : \A i \in Box(h) : ~Near(h, i)
    BY DEF Near
<1>2. \A h \in Handles : \A i \in Box(h)' : LET j == IF h \in P THEN i + 1 ELSE i IN
         mq'[h][i].op = "reap" /\ j \in Box(h) /\ mq'[h][i] = mq[h][j] /\ Reaped(h, j)
         /\ online' # None /\ online' = mq[h][j].e => Dead(h)' \/ Near(h, i)'
    BY <1>1 DEF Reaped, MapsGo
<1> QED BY <1>2, ReapsMoved

LEMMA ArriveStep ==
    ASSUME TInv, TInv', WInv, NEW s \in Sessions, Arrive(s)
    PROVE  WInv'
<1>1. /\ Session(s) /\ UNCHANGED <<mst, players, leaving, next, omap, passing, ctl, logins, reply>>
      /\ phase[s] = "arriving" /\ phase' = [phase EXCEPT ![s] = "serving"] /\ goal[s] \in Chars
    BY DEF Session, Arrive, mapsV, TInv, Phases, Holds
<1>2. Others(s) /\ Heard
    BY <1>1, OthersKept, OwnPhase
<1>3. online # None /\ online.sess = s /\ online.g = goal[s] /\ online.n = logins[s]
    BY <1>1 DEF WInv, SpotsListed
<1>4. /\ \A k \in Handles, g \in Chars : ~Here(k, g)
      /\ \A k \in Handles : \A i \in Box(k) : mq[k][i].op # "arrive"
      /\ \A t \in Sessions : \A i \in Words(t) : ctl[t][i].op # "transfer"
      /\ \A t \in Sessions : passing[t] = None
      /\ \A k \in Handles : leaving[k] = None
      /\ \A t \in Sessions : phase[t] = "arriving" => t = s
    <2>1. PICK c, x, y : AllAt(c, x, y)
        BY DEF WInv, OneSpot
    <2>2. c = "login" /\ x = s
        BY <1>1, <2>1 DEF AllAt
    <2> QED BY <2>1, <2>2 DEF AllAt
<1>5. phase'[s] = "serving" /\ \A t \in Sessions : phase'[t] # "arriving"
    BY <1>1, <1>4 DEF TInv, Types, SessTypes
<1>6. reply[s] = None /\ ~Asks(s) /\ logins[s] <= MaxLogins /\ ~Out(s) /\ Hears(s)
    BY <1>1 DEF WInv, TakeOvers, Asks, Counts, Out, Hears
<1>7. WordsGo({}, {})
    BY <1>1, WordsSame DEF TInv, Types
<1>8. /\ \A k \in Handles, g \in Chars : ~Here(k, g)'
      /\ \A t \in Sessions : \A i \in Words(t)' : ctl'[t][i].op # "transfer"
      /\ \A t \in Sessions : passing'[t] = None
      /\ \A k \in Handles : leaving'[k] = None
    BY <1>1, <1>4 DEF Here, Words
<1>9. ASSUME online' \in {online, None}
      PROVE  LoggedOut'
    <2>1. \A t \in Sessions : \A i \in Words(t)' : ctl'[t][i].op = "loggedout" /\ Out(t) => Out(t)'
        BY <1>2, <1>6 DEF Out, Others
    <2> QED BY <1>7, <1>9, <2>1, LoggedKept DEF WInv
<1>10. CASE Open(omap[s])
    <2>1. PICK h \in Handles, e \in OwnEvent : h = omap[s] /\ e = LoginOf(s)
        BY <1>1, <1>10, LoginSent DEF TInv, Types, RegTypes, Open
    <2>2. e.op = "arrive" /\ e.p.on = online
        <3>1. online = NewEntry(s)
            BY <1>3, OnlineIs DEF NewEntry, TInv, Types, RegTypes
        <3> QED BY <1>1, <2>1, <3>1, LoginSent
    <2>3. mq' = Put(mq, h, e) /\ online' = online /\ state' = [state EXCEPT ![s] = "InWorld"]
        BY <1>10, <2>1 DEF Arrive, LoginOf
    <2>4. mq \in [Handles -> Seq(OwnEvent)] /\ NoneIn(mq)
        BY <1>4 DEF TInv, Types, ActorTypes, NoneIn, Box
    <2>5. PICK n : OnlyIn(mq', h, n, e)
        BY <2>3, <2>4, PutOne
    <2>6. MailGoes({}, {<<h, e>>})
        BY <2>3, MailPut DEF TInv, Types
    <2>7. OneSpot' /\ SpotsListed'
        BY <1>1, <1>3, <1>5, <1>8, <2>1, <2>2, <2>3, <2>5, MailedNow
    <2>8. state'[s] = "InWorld"
        BY <2>3 DEF TInv, Types, SessTypes
    <2>9. Screens'
        BY <1>3, <1>5, <2>3, <2>8 DEF Screens, Fits
    <2>10. \A x \in {<<h, e>>} : x[2].op \notin {"takeover", "reap"}
        BY <2>2
    <2>11. TakeOvers' /\ Counts'
        BY <1>1, <1>2, <1>6, <2>6, <2>10, OthersAsk
    <2>12. Reaps'
        BY <1>2, <1>3, <1>6, <2>3, <2>6, <2>10, ReapsFree DEF WInv, TInv
    <2> QED BY <1>9, <2>3, <2>7, <2>9, <2>11, <2>12 DEF WInv
<1>11. CASE ~Open(omap[s])
    <2>1. mq' = mq /\ online' = None
        BY <1>3, <1>11 DEF Arrive, Offline
    <2>2. MailGoes({}, {})
        BY <2>1, MailSame DEF TInv, Types
    <2>3. NoSpots'
        BY <1>4, <1>5, <1>8, <2>1 DEF NoSpots, AllAt, Box
    <2>4. TakeOvers' /\ Counts'
        BY <1>1, <1>2, <1>6, <2>2, OthersAsk
    <2>5. Reaps'
        BY <1>2, <2>1, <2>2, ReapsFree DEF WInv, TInv
    <2> QED BY <1>9, <2>1, <2>3, <2>4, <2>5, GoneNow DEF WInv
<1> QED BY <1>10, <1>11

LEMMA TransferStep ==
    ASSUME TInv, TInv', WInv, NEW s \in Sessions, HearTransfer(s)
    PROVE  WInv'
<1>1. /\ Session(s) /\ UNCHANGED <<mq, players, leaving, next, online, omap, phase, state, goal, logins, reply>>
      /\ phase[s] \in {"serving", "ending"} /\ ctl[s] # <<>>
    BY DEF Session, HearTransfer, HearsNext, actorV, regV
<1>2. /\ WordsGo({s}, {}) /\ Got(Target(ctl[s][1].to)) /\ ctl[s][1].op = "transfer"
      /\ passing' = [passing EXCEPT ![s] = [p |-> ctl[s][1].p, to |-> Target(ctl[s][1].to)]]
    BY TransferTyped
<1>3. 1 \in Words(s)
    BY <1>1, FirstWord DEF TInv, Types
<1>4. MapsGo /\ MailGoes({}, {}) /\ Others(s) /\ Heard
    BY <1>1, <1>2, MapsGot, MailSame, OthersKept, OwnPhase DEF TInv, Types
<1>5. OnList(ctl[s][1].p) /\ online.sess = s
    BY <1>2, <1>3 DEF WInv, SpotsListed
<1>6. /\ \A k \in Handles, g \in Chars : ~Here(k, g)
      /\ \A k \in Handles : \A i \in Box(k) : mq[k][i].op # "arrive"
      /\ \A t \in Sessions : \A i \in Words(t) : ctl[t][i].op = "transfer" => t = s /\ i = 1
      /\ \A t \in Sessions : passing[t] = None
      /\ \A k \in Handles : leaving[k] = None
      /\ \A t \in Sessions : phase[t] # "arriving"
    <2>1. PICK c, x, y : AllAt(c, x, y)
        BY DEF WInv, OneSpot
    <2>2. c = "word" /\ x = s /\ y = 1
        BY <1>2, <1>3, <2>1 DEF AllAt
    <2> QED BY <2>1, <2>2 DEF AllAt
<1>7. \A t \in Sessions : \A i \in Words(t)' : ctl'[t][i].op # "transfer"
    <2> SUFFICES ASSUME NEW t \in Sessions, NEW i \in Words(t)', ctl'[t][i].op = "transfer"
                 PROVE  FALSE
        OBVIOUS
    <2>1. LET j == IF t \in {s} THEN i + 1 ELSE i IN j \in Words(t) /\ ctl'[t][i] = ctl[t][j]
        BY <1>2, WordFrom
    <2>2. i \in Int /\ i >= 1
        BY BoxIntNext
    <2> QED BY <1>6, <2>1, <2>2
<1>8. \A t \in Sessions : passing'[t] # None => t = s /\ passing'[t].p = ctl[s][1].p
    BY <1>2, <1>6 DEF TInv, Types, SessTypes
<1>9. AllAt("pass", s, None)'
    BY <1>1, <1>6, <1>7, <1>8 DEF AllAt, Here, Box
<1>10. SpotsListed'
    BY <1>1, <1>5, <1>6, <1>7, <1>8 DEF SpotsListed, Here, Box, OnList
<1>11. Screens'
    BY <1>1 DEF WInv, Screens, Fits
<1>12. LoggedOut'
    BY <1>1, <1>2, LoggedKept DEF WInv, Out
<1>13. TakeOvers' /\ Counts'
    BY <1>1, <1>4, OthersAsk DEF WInv, TakeOvers, Counts, Asks
<1>14. Reaps'
    BY <1>1, <1>2, <1>3, <1>4, ReapsBetween DEF WInv, TInv
<1> QED BY <1>9, <1>10, <1>11, <1>12, <1>13, <1>14 DEF WInv, OneSpot

LEMMA PassOnStep ==
    ASSUME TInv, TInv', WInv, NEW s \in Sessions, PassOn(s)
    PROVE  WInv'
<1>1. /\ Session(s) /\ UNCHANGED <<players, leaving, next, phase, logins, reply>>
      /\ passing[s] # None /\ passing' = [passing EXCEPT ![s] = None]
      /\ phase[s] \in {"serving", "ending"}
    BY DEF Session, PassOn, TInv, Phases, Holds
<1>2. PICK h \in Handles, p \in OwnPlayer : h = passing[s].to /\ p = passing[s].p
    BY <1>1 DEF TInv, Types, SessTypes, Passage
<1>3. PICK e \in OwnEvent : e = Transferred(p) /\ e.op = "arrive" /\ e.p = p
    BY ArriveSent DEF Transferred
<1>4. \/ /\ LetsGo(h) /\ LetGo(e, ctl) /\ mq' = mq /\ UNCHANGED <<mst, omap>>
      \/ /\ ~LetsGo(h) /\ Got(TakenBy(h)) /\ mq' = Put(mq, TakenBy(h), e)
         /\ omap' = [omap EXCEPT ![p.on.sess] = TakenBy(h)] /\ UNCHANGED <<ctl, online>>
    BY <1>2, <1>3, DeliverIs DEF PassOn
<1>5. /\ LetsGo(h) => state' = [state EXCEPT ![s] = "Screen"]
      /\ ~LetsGo(h) => state' = [state EXCEPT ![s] = "InWorld"]
    BY <1>2 DEF PassOn
<1>6. Others(s) /\ Heard
    BY <1>1, OthersKept, OwnPhase
<1>7. online # None /\ p.on = online /\ online.sess = s
    BY <1>1, <1>2 DEF WInv, SpotsListed, OnList
<1>8. /\ \A k \in Handles, g \in Chars : ~Here(k, g)
      /\ \A k \in Handles : \A i \in Box(k) : mq[k][i].op # "arrive"
      /\ \A t \in Sessions : \A i \in Words(t) : ctl[t][i].op # "transfer"
      /\ \A t \in Sessions : passing[t] # None => t = s
      /\ \A k \in Handles : leaving[k] = None
      /\ \A t \in Sessions : phase[t] # "arriving"
    <2>1. PICK c, x, y : AllAt(c, x, y)
        BY DEF WInv, OneSpot
    <2>2. c = "pass" /\ x = s
        BY <1>1, <2>1 DEF AllAt
    <2> QED BY <2>1, <2>2 DEF AllAt
<1>9. /\ \A k \in Handles, g \in Chars : ~Here(k, g)'
      /\ \A t \in Sessions : passing'[t] = None /\ phase'[t] # "arriving"
      /\ \A k \in Handles : leaving'[k] = None
    BY <1>1, <1>8 DEF Here, TInv, Types, SessTypes
<1>10. ASSUME NEW M, WordsGo({}, M), \A x \in M : x[2].op \notin {"transfer", "loggedout"}, online' \in {online, None}
       PROVE  LoggedOut' /\ \A t \in Sessions : \A i \in Words(t)' : ctl'[t][i].op # "transfer"
    <2>1. \A i \in Words(s)' : ctl'[s][i].op # "loggedout"
        <3> SUFFICES ASSUME NEW i \in Words(s)', ctl'[s][i].op = "loggedout"
                     PROVE  FALSE
            OBVIOUS
        <3>1. i \in Words(s) /\ ctl'[s][i] = ctl[s][i]
            BY <1>10, WordFrom
        <3> QED BY <1>7, <3>1 DEF WInv, LoggedOut
    <2>2. \A t \in Sessions : \A i \in Words(t)' : ctl'[t][i].op = "loggedout" /\ Out(t) => Out(t)'
        BY <1>6, <2>1 DEF Out, Others
    <2>3. LoggedOut'
        BY <1>10, <2>2, LoggedKept DEF WInv
    <2>4. \A t \in Sessions : \A i \in Words(t)' : ctl'[t][i].op # "transfer"
        BY <1>8, <1>10, WordFrom
    <2> QED BY <2>3, <2>4
<1>11. ~Asks(s) /\ reply[s] = None /\ logins[s] <= MaxLogins
    BY <1>1 DEF Asks, WInv, TakeOvers, Counts
<1>12. CASE LetsGo(h)
    <2>1. mq' = mq /\ LetGo(e, ctl)
        BY <1>4, <1>12
    <2>2. online' = None
        BY <1>3, <1>7, <2>1 DEF LetGo, Offline
    <2>3. WordsGo({}, {<<p.on.sess, [op |-> "kick"]>>}) /\ MailGoes({}, {})
        BY <1>3, <2>1, LetGoTyped, MailSame DEF TInv, Types
    <2>4. \A x \in {<<p.on.sess, [op |-> "kick"]>>} : x[2].op \notin {"transfer", "loggedout"}
        OBVIOUS
    <2>5. LoggedOut' /\ \A t \in Sessions : \A i \in Words(t)' : ctl'[t][i].op # "transfer"
        BY <1>10, <2>2, <2>3, <2>4
    <2>6. NoSpots'
        BY <1>8, <1>9, <2>1, <2>5 DEF NoSpots, AllAt, Box
    <2>7. TakeOvers' /\ Counts'
        BY <1>1, <1>6, <1>11, <2>3, OthersAsk
    <2>8. Reaps'
        BY <1>6, <2>2, <2>3, ReapsFree DEF WInv, TInv
    <2> QED BY <2>2, <2>5, <2>6, <2>7, <2>8, GoneNow DEF WInv
<1>13. CASE ~LetsGo(h)
    <2>1. PICK t \in Handles : t = TakenBy(h)
        BY <1>4, <1>13 DEF Got
    <2>2. /\ Got(t) /\ mq' = Put(mq, t, e) /\ omap' = [omap EXCEPT ![s] = t] /\ UNCHANGED <<ctl, online>>
          /\ state' = [state EXCEPT ![s] = "InWorld"]
        BY <1>4, <1>5, <1>7, <1>13, <2>1
    <2>3. mq \in [Handles -> Seq(OwnEvent)] /\ NoneIn(mq)
        BY <1>8 DEF TInv, Types, ActorTypes, NoneIn, Box
    <2>4. PICK n : OnlyIn(mq', t, n, e)
        BY <2>2, <2>3, PutOne
    <2>5. MailGoes({}, {<<t, e>>}) /\ WordsGo({}, {})
        BY <2>2, MailPut, WordsSame DEF TInv, Types
    <2>6. LoggedOut' /\ \A r \in Sessions : \A i \in Words(r)' : ctl'[r][i].op # "transfer"
        BY <1>10, <2>2, <2>5
    <2>7. omap'[s] = t /\ state'[s] = "InWorld"
        BY <2>2 DEF TInv, Types, RegTypes, SessTypes
    <2>8. OneSpot' /\ SpotsListed'
        BY <1>3, <1>7, <1>9, <2>2, <2>4, <2>6, <2>7, MailedNow
    <2>9. Screens'
        BY <1>1, <1>7, <2>2, <2>7 DEF Screens, Fits
    <2>10. \A x \in {<<t, e>>} : x[2].op \notin {"takeover", "reap"}
        BY <1>3
    <2>11. TakeOvers' /\ Counts'
        BY <1>1, <1>6, <1>11, <2>5, <2>10, OthersAsk
    <2>12. Reaps'
        BY <1>1, <1>6, <2>2, <2>5, <2>10, MapsGot, ReapsBetween DEF WInv, TInv
    <2> QED BY <2>6, <2>8, <2>9, <2>11, <2>12 DEF WInv
<1> QED BY <1>12, <1>13

LEMMA SessionKept ==
    ASSUME TInv, TInv', WInv, NoneMissed', NEW s \in Sessions, Session(s) \/ Client(s) \/ Kick(s)
    PROVE  WInv'
<1>1. CASE \/ Begin(s) \/ WaitHeard(s) \/ LostMap(s) \/ LookNobody(s) \/ LoginFails(s)
           \/ TakenOver(s) \/ LookAgain(s)
    BY <1>1, ComesQuiet
<1>2. CASE LookTheirs(s) \/ LookOther(s) \/ GivesUp(s)
    BY <1>2, LookTheirsStep, KicksStep
<1>3. CASE (\E k \in Keys : Enter(s, k) \/ Resume(s, k)) \/ Arrive(s)
    BY <1>3, EnterStep, ResumeStep, ArriveStep
<1>4. CASE HearTransfer(s) \/ PassOn(s)
    BY <1>4, TransferStep, PassOnStep
<1>5. CASE HearHandedOn(s) \/ HearLoggedOut(s) \/ HearKick(s) \/ HearLeave(s) \/ DropRest(s)
    BY <1>5, HearsQuiet, LoggedQuiet, LeavesQuiet
<1>6. CASE Disconnect(s) \/ DisconnectScreen(s) \/ ReapLeft(s)
    BY <1>6, DisconnectStep, ScreenStep, ReapLeftStep
<1>7. CASE Client(s)
    <2>1. CASE Connect(s) \/ SendLogout(s)
        BY <2>1, ConnectQuiet, AsksQuiet
    <2>2. CASE (\E c \in Chars : AskLogin(s, c)) \/ \E flood \in BOOLEAN : ClientGoes(s, flood)
        BY <2>2, ComesQuiet
    <2> QED BY <1>7, <2>1, <2>2 DEF Client
<1>8. CASE Kick(s)
    BY <1>8, AsksQuiet
<1> QED BY <1>1, <1>2, <1>3, <1>4, <1>5, <1>6, <1>7, <1>8 DEF Session

-----------------------------------------------------------------------------
(* Maps' steps.  The players of a map stay who they are, and answers go     *)
(* to those who ask, whose question is gone with it.                      *)
Alike ==
    \A k \in Handles, c \in Chars : Here(k, c)' => Here(k, c) /\ players'[k][c].on = players[k][c].on
Still == UNCHANGED <<phase, state, goal, passing, logins>>
Answers ==
    /\ \A s \in Sessions : reply'[s] # reply[s] => Asks(s)
    /\ \A h \in Handles : \A i \in Box(h)' :
          mq'[h][i].op = "takeover" => reply'[mq'[h][i].new.sess] = reply[mq'[h][i].new.sess]

LEMMA AlikeIs ==
    /\ players' = players => Alike
    /\ \A h \in Handles, g \in Chars : Here(h, g) /\ Lingered(h, g) => Alike
    /\ \A h \in Handles, g \in Chars, q \in OwnPlayer :
          Here(h, g) /\ PlayerNow(h, g, q) /\ q.on = players[h][g].on => Alike
<1>1. players' = players => Alike
    BY DEF Alike, Here
<1>2. ASSUME NEW h \in Handles, NEW g \in Chars, NEW q \in OwnPlayer,
             Here(h, g), PlayerNow(h, g, q), q.on = players[h][g].on
      PROVE  Alike
    BY <1>2 DEF Alike, Here, PlayerNow
<1>3. ASSUME NEW h \in Handles, NEW g \in Chars, Here(h, g), Lingered(h, g)
      PROVE  Alike
    <2>1. players[h][g] \in OwnPlayer
        BY <1>3 DEF Lingered
    <2>2. [players[h][g] EXCEPT !.linger = TRUE] \in OwnPlayer /\ [players[h][g] EXCEPT !.linger = TRUE].on = players[h][g].on
        BY <2>1, ChangedIs
    <2> QED BY <1>2, <1>3, <2>2 DEF Lingered
<1> QED BY <1>1, <1>2, <1>3

LEMMA StillHears ==
    ASSUME Still
    PROVE  Heard
BY DEF Still, Heard, Hears

LEMMA MapAnswers ==
    ASSUME WInv, Still, Answers, NEW P, NEW N, MailGoes(P, N), \A x \in N : x[2].op # "takeover"
    PROVE  /\ TakeOvers' /\ Counts'
           /\ \A s \in Sessions : (Fits(s) => Fits(s)') /\ (Out(s) => Out(s)')
<1>1. None \notin Handles
    BY HandleIs
<1>2. \A s \in Sessions : reply'[s] = reply[s] \/ (phase[s] = "asking" /\ reply[s] = None)
    BY DEF Answers, Asks
<1>3. \A s \in Sessions : reply'[s] # None => phase'[s] = "asking"
    BY <1>2 DEF Still, WInv, TakeOvers
<1>4. \A s \in Sessions, h \in Handles : \A i \in Box(h)' :
         mq'[h][i].op = "takeover" /\ mq'[h][i].new.sess = s /\ Asks(s) =>
             Asks(s)' /\ goal'[s] = goal[s] /\ logins'[s] = logins[s]
    BY DEF Answers, Asks, Still
<1>5. TakeOvers'
    BY <1>3, <1>4, TakeOversKept DEF WInv
<1>6. \A s \in Sessions : (Fits(s) => Fits(s)') /\ (Out(s) => Out(s)')
    BY <1>1, <1>2 DEF Fits, Out, Still
<1> QED BY <1>5, <1>6 DEF Still, Counts, WInv

(* A map's step that moves nobody.                                        *)
LEMMA MapStep ==
    ASSUME TInv, TInv', WInv, Still, Answers, Alike, MapsGo, NEW P, NEW N, NEW M,
           MailGoes(P, N), WordsGo({}, M), UNCHANGED <<online, omap>>,
           \A x \in N : x[2].op \notin {"arrive", "takeover", "reap"},
           \A x \in M : x[2].op \notin {"transfer", "loggedout"},
           \A k \in Handles : leaving'[k] # None => leaving'[k] = leaving[k],
           \A k \in Handles : mst'[k] # mst[k] => mst[k] # "running" \/ ((\A g \in Chars : ~Here(k, g)) /\ leaving[k] = None)
    PROVE  WInv'
<1>1. SpotsGo(P, {}, N, M)
    BY DEF SpotsGo, Still, Alike
<1>2. ListGoes
    BY DEF ListGoes, Still, Alike, WInv, SpotsListed
<1>3. OneSpot' /\ SpotsListed'
    BY <1>1, <1>2, SpotsKept, ListedKept DEF WInv
<1>4. TakeOvers' /\ Counts' /\ \A s \in Sessions : (Fits(s) => Fits(s)') /\ (Out(s) => Out(s)')
    BY MapAnswers
<1>5. Screens'
    <2>1. CASE online = None
        BY <2>1 DEF Screens
    <2>2. CASE online # None
        <3>1. PICK t \in Sessions : t = online.sess /\ Fits(t)
            BY <2>2, EntryIs DEF TInv, Types, RegTypes, WInv, Screens
        <3>2. Fits(t)'
            BY <1>4, <3>1
        <3> QED BY <3>1, <3>2 DEF Screens, Fits
    <2> QED BY <2>1, <2>2
<1>6. LoggedOut'
    BY <1>4, LoggedKept DEF WInv
<1>7. Reaps'
    BY <1>1, StillHears, ReapsKept DEF WInv, TInv
<1> QED BY <1>3, <1>4, <1>5, <1>6, <1>7 DEF WInv

(* A map's step after which the player is nowhere and offline.             *)
LEMMA MapGone ==
    ASSUME TInv, TInv', WInv, Still, Answers, NEW P, NEW N, NEW M, MailGoes(P, N), WordsGo({}, M),
           \A x \in N : x[2].op \notin {"takeover", "reap"}, \A x \in M : x[2].op # "loggedout",
           NoSpots', online' = None
    PROVE  WInv'
<1>1. OneSpot' /\ SpotsListed' /\ Screens'
    BY GoneNow
<1>2. TakeOvers' /\ Counts' /\ \A s \in Sessions : (Fits(s) => Fits(s)') /\ (Out(s) => Out(s)')
    BY MapAnswers
<1>3. LoggedOut'
    BY <1>2, LoggedKept DEF WInv
<1>4. Reaps'
    BY StillHears, ReapsFree DEF WInv, TInv
<1> QED BY <1>1, <1>2, <1>3, <1>4 DEF WInv

(* Answers to some of the questions of a mailbox, taken from it.           *)
LEMMA AnswersOf ==
    ASSUME TInv, WInv, NEW P, NEW N, MailGoes(P, N), \A x \in N : x[2].op # "takeover",
           NEW h \in Handles, NEW S \in SUBSET Box(h),
           \A s \in Sessions : reply'[s] = reply[s] \/
               \E i \in S : mq[h][i].op = "takeover" /\ mq[h][i].new.sess = s,
           \A i \in Box(h)' : (IF h \in P THEN i + 1 ELSE i) \notin S
    PROVE  Answers
<1>1. \A s \in Sessions : reply'[s] # reply[s] => Asks(s)
    BY DEF WInv, TakeOvers, AskedBy
<1>2. ASSUME NEW k \in Handles, NEW j \in Box(k)', mq'[k][j].op = "takeover",
             reply'[mq'[k][j].new.sess] # reply[mq'[k][j].new.sess]
      PROVE  FALSE
    <2> DEFINE u == IF k \in P THEN j + 1 ELSE j
    <2>1. u \in Box(k) /\ mq'[k][j] = mq[k][u]
        BY <1>2, MailFrom
    <2>2. mq[k] \in Seq(OwnEvent)
        BY DEF TInv, Types, ActorTypes
    <2>3. mq[k][u].new.sess \in Sessions
        BY <1>2, <2>1, <2>2, ElementOfSeq, EventIs, EntryIs DEF Box
    <2>4. PICK i \in S : mq[h][i].op = "takeover" /\ mq[h][i].new.sess = mq[k][u].new.sess
        BY <1>2, <2>1, <2>3
    <2>5. k = h /\ u = i
        BY <1>2, <2>1, <2>4 DEF WInv, TakeOvers, AskedBy
    <2> QED BY <2>4, <2>5
<1> QED BY <1>1, <1>2 DEF Answers

(* Nobody answered, or those whose questions are dropped.                  *)
LEMMA AnswersAre ==
    ASSUME TInv, WInv, NEW P, NEW N, MailGoes(P, N), \A x \in N : x[2].op # "takeover"
    PROVE  /\ reply' = reply => Answers
           /\ \A h \in P : 1 \in Box(h) /\ h \in Handles /\ reply' = Unanswered(<<mq[h][1]>>) => Answers
           /\ \A h \in Handles : Box(h)' = {} /\ reply' = Unanswered(mq[h]) => Answers
<1>1. reply' = reply => Answers
    BY DEF Answers
<1>2. ASSUME NEW h \in P, 1 \in Box(h), h \in Handles, reply' = Unanswered(<<mq[h][1]>>)
      PROVE  Answers
    <2>1. \A s \in Sessions : reply'[s] = reply[s] \/
              \E i \in {1} : mq[h][i].op = "takeover" /\ mq[h][i].new.sess = s
        BY <1>2 DEF Unanswered
    <2>2. \A i \in Box(h)' : (IF h \in P THEN i + 1 ELSE i) \notin {1}
        BY BoxIntNext, <1>2
    <2>3. PICK S \in SUBSET Box(h) : S = {1}
        BY <1>2
    <2> QED BY <1>2, <2>1, <2>2, <2>3, AnswersOf
<1>3. ASSUME NEW h \in Handles, Box(h)' = {}, reply' = Unanswered(mq[h])
      PROVE  Answers
    <2>1. \A s \in Sessions : reply'[s] = reply[s] \/
              \E i \in Box(h) : mq[h][i].op = "takeover" /\ mq[h][i].new.sess = s
        BY <1>3 DEF Unanswered, Box
    <2> QED BY <1>3, <2>1, AnswersOf
<1> QED BY <1>1, <1>2, <1>3

LEMMA MapQuiet ==
    ASSUME TInv, TInv', WInv, Still, Alike, NEW P, NEW N, NEW M, MailGoes(P, N), WordsGo({}, M),
           UNCHANGED <<mst, next, leaving, online, omap, reply>>,
           \A x \in N : x[2].op \notin {"arrive", "takeover", "reap"},
           \A x \in M : x[2].op \notin {"transfer", "loggedout"}
    PROVE  WInv'
<1>1. Answers
    BY AnswersAre
<1>2. MapsGo
    BY MapsSame
<1> QED BY <1>1, <1>2, MapStep

(* A map that starts, stops, hands on or ends.                            *)
LEMMA MapsTurn ==
    ASSUME TInv, NEW h \in Handles,
           \A k \in Handles : k # h => mst'[k] = mst[k] /\ next'[k] = next[k],
           ~Open(h) => mst'[h] \notin {"running", "stopping", "standin"},
           Box(h)' = {} \/ (mst[h] # "handing" /\ (Dead(h) => Dead(h)'))
    PROVE  MapsGo
<1> SUFFICES ASSUME NEW k \in Handles, Box(k)' # {}
             PROVE  (Dead(k) => Dead(k)') /\ \A j \in Handles : Leads(k, j) => Leads(k, j)'
    BY DEF MapsGo
<1>1. CASE k = h
    BY <1>1 DEF Leads
<1>2. CASE k # h
    <2>1. mst'[k] = mst[k] /\ next'[k] = next[k] /\ next[k] \in Handles \cup {None}
        BY <1>2 DEF TInv, Types, ActorTypes
    <2>2. \A j \in Handles : ~Open(j) => mst'[j] \notin {"running", "stopping", "standin"}
        <3> SUFFICES ASSUME NEW j \in Handles, ~Open(j)
                     PROVE  mst'[j] \notin {"running", "stopping", "standin"}
            OBVIOUS
        <3>1. CASE j = h
            BY <3>1
        <3>2. CASE j # h
            BY <3>2, HandleIs DEF Open
        <3> QED BY <3>1, <3>2
    <2>3. next[k] # None /\ ~Open(next[k]) => ~Open(next[k])'
        BY <2>1, <2>2 DEF Open
    <2> QED BY <2>1, <2>3 DEF Dead, Leads
<1> QED BY <1>1, <1>2

LEMMA LogoutStep ==
    ASSUME TInv, TInv', WInv, NEW h \in Handles, HandleLogout(h)
    PROVE  WInv'
<1>1. Still /\ UNCHANGED <<mst, next, leaving, online, omap, reply, ctl>>
    BY MapsLeave DEF Map, Still, HandleLogout, mapsV, regV, sessV
<1>2. MailGoes({h}, {}) /\ WordsGo({}, {})
    BY <1>1, HandleLogoutTyped, WordsSame DEF TInv, Types
<1>3. Alike
    BY HandleLogoutTyped, AlikeIs
<1> QED BY <1>1, <1>2, <1>3, MapQuiet

LEMMA DoingsQuiet ==
    ASSUME TInv, TInv', WInv, NEW h \in Handles, NEW g \in Chars, Progress(h, g) \/ SaveDue(h, g)
    PROVE  WInv'
<1>1. Still /\ UNCHANGED <<mst, next, leaving, online, omap, reply, ctl, mq>>
    BY MapsLeave DEF Doings, Still, Progress, SaveDue, mapsV, actorV, regV, sessV
<1>2. MailGoes({}, {}) /\ WordsGo({}, {})
    BY <1>1, MailSame, WordsSame DEF TInv, Types
<1>3. Alike
    <2>1. CASE Progress(h, g)
        BY <2>1, ProgressTyped, AlikeIs
    <2>2. CASE SaveDue(h, g)
        BY <2>2, AlikeIs DEF SaveDue, actorV
    <2> QED BY <2>1, <2>2
<1> QED BY <1>1, <1>2, <1>3, MapQuiet

(* What a map is sent or told of its own kind.                            *)
LEMMA RealmQuiet ==
    ASSUME TInv, TInv', WInv, Shutdown \/ (\E k \in Copies : Reset(k) \/ ResetStops(k))
    PROVE  WInv'
<1>1. Still /\ UNCHANGED <<players, mst, next, leaving, online, omap, reply, ctl>>
    BY MapsLeave DEF Realm, Still, Shutdown, Reset, ResetStops, Stop, mapsV, actorV, regV, sessV
<1>2. WordsGo({}, {}) /\ Alike
    BY <1>1, WordsSame, AlikeIs DEF TInv, Types
<1>3. CASE Shutdown
    <2>1. MailGoes({}, {<<h, [op |-> "shutdown"]>> : h \in Handles})
        BY <1>3, ShutdownTyped
    <2>2. \A x \in {<<h, [op |-> "shutdown"]>> : h \in Handles} : x[2].op \notin {"arrive", "takeover", "reap"}
        OBVIOUS
    <2> QED BY <1>1, <1>2, <2>1, <2>2, MapQuiet
<1>4. CASE \E k \in Copies : ResetStops(k)
    <2>1. PICK k \in Keys : MailGoes({}, {<<<<k, cur[k]>>, [op |-> "stop"]>>})
        BY <1>4, StoppedTyped
    <2>2. \A x \in {<<<<k, cur[k]>>, [op |-> "stop"]>>} : x[2].op \notin {"arrive", "takeover", "reap"}
        OBVIOUS
    <2> QED BY <1>1, <1>2, <2>1, <2>2, MapQuiet
<1>5. CASE \E k \in Copies : Reset(k)
    <2>1. MailGoes({}, {})
        BY <1>5, MailSame DEF Reset, actorV, TInv, Types
    <2> QED BY <1>1, <1>2, <2>1, MapQuiet
<1> QED BY <1>3, <1>4, <1>5

LEMMA MapScreens ==
    ASSUME TInv, WInv, Still, Answers, NEW P, NEW N, MailGoes(P, N), \A x \in N : x[2].op # "takeover",
           online' = online
    PROVE  Screens'
<1>1. CASE online = None
    BY <1>1 DEF Screens
<1>2. CASE online # None
    <2>1. PICK t \in Sessions : t = online.sess /\ Fits(t)
        BY <1>2, EntryIs DEF TInv, Types, RegTypes, WInv, Screens
    <2>2. Fits(t)'
        BY <2>1, MapAnswers
    <2> QED BY <2>1, <2>2 DEF Screens, Fits
<1> QED BY <1>1, <1>2

(* A player in a map: there and nowhere else.                             *)
LEMMA HereAlone ==
    ASSUME WInv, NEW h \in Handles, NEW g \in Chars, Here(h, g)
    PROVE  /\ \A k \in Handles, c \in Chars : Here(k, c) => k = h /\ c = g
           /\ \A k \in Handles : \A i \in Box(k) : mq[k][i].op # "arrive"
           /\ \A t \in Sessions : \A i \in Words(t) : ctl[t][i].op # "transfer"
           /\ \A t \in Sessions : passing[t] = None
           /\ \A t \in Sessions : phase[t] # "arriving"
           /\ \A k \in Handles : leaving[k] = None
           /\ online # None /\ players[h][g].on = online /\ online.g = g
           /\ omap[online.sess] = h /\ mst[h] = "running"
<1>1. PICK c, x, y : AllAt(c, x, y)
    BY DEF WInv, OneSpot
<1>2. c = "map" /\ x = h /\ y = g
    BY <1>1 DEF AllAt
<1>3. /\ online # None /\ players[h][g].on = online /\ online.g = g
      /\ omap[online.sess] = h /\ mst[h] = "running"
    BY DEF WInv, SpotsListed, OnList
<1> QED BY <1>1, <1>2, <1>3 DEF AllAt

(* A player saved and out of the map, about to go offline.                *)
LEMMA LeftStep ==
    ASSUME TInv, TInv', WInv, Still, NEW h \in Handles, NEW g \in Chars, Here(h, g), Left(h, g),
           UNCHANGED <<mst, next, online, omap, reply>>,
           NEW P, NEW N, NEW M, MailGoes(P, N), WordsGo({}, M),
           \A x \in N : x[2].op \notin {"arrive", "takeover", "reap"},
           \A x \in M : x[2].op \notin {"transfer", "loggedout"}
    PROVE  WInv'
<1>1. /\ \A k \in Handles, c \in Chars : Here(k, c) => k = h /\ c = g
      /\ \A k \in Handles : \A i \in Box(k) : mq[k][i].op # "arrive"
      /\ \A t \in Sessions : \A i \in Words(t) : ctl[t][i].op # "transfer"
      /\ \A t \in Sessions : passing[t] = None
      /\ \A t \in Sessions : phase[t] # "arriving"
      /\ \A k \in Handles : leaving[k] = None
    BY HereAlone
<1>2. online # None /\ players[h][g].on = online /\ online.g = g /\ omap[online.sess] = h /\ mst[h] = "running"
    BY HereAlone
<1>3. \A k \in Handles, c \in Chars : ~Here(k, c)'
    BY <1>1 DEF Left, PlayerNow, Here
<1>4. /\ \A k \in Handles : \A i \in Box(k)' : mq'[k][i].op # "arrive"
      /\ \A t \in Sessions : \A i \in Words(t)' : ctl'[t][i].op # "transfer"
    BY <1>1, MailFrom, WordFrom
<1>5. (\A t \in Sessions : passing'[t] = None) /\ (\A t \in Sessions : phase'[t] # "arriving")
    BY <1>1 DEF Still
<1>6. \A k \in Handles : leaving'[k] # None => k = h
    BY <1>1 DEF Left
<1>7. leaving'[h].g = g /\ leaving'[h].sess = online.sess
    BY <1>2 DEF Left
<1>8. AllAt("leaves", h, None)'
    BY <1>3, <1>4, <1>5, <1>6 DEF AllAt
<1>9. SpotsListed'
    BY <1>2, <1>3, <1>4, <1>5, <1>6, <1>7 DEF SpotsListed
<1>10. Answers
    BY AnswersAre
<1>11. Screens' /\ TakeOvers' /\ Counts' /\ \A s \in Sessions : Out(s) => Out(s)'
    BY <1>10, MapScreens, MapAnswers
<1>12. LoggedOut'
    BY <1>11, LoggedKept DEF WInv
<1>13. Reaps'
    <2>1. \A k \in Handles : \A i \in Box(k)' : LET j == IF k \in P THEN i + 1 ELSE i IN
             mq'[k][i].op = "reap" /\ j \in Box(k) /\ mq'[k][i] = mq[k][j] /\ Reaped(k, j)
             /\ online' # None /\ online' = mq[k][j].e => Dead(k)' \/ Near(k, i)'
        <3> SUFFICES ASSUME NEW k \in Handles, NEW i \in Box(k)', NEW j, Reaped(k, j), online' = mq[k][j].e
                     PROVE  Dead(k)' \/ Near(k, i)'
            OBVIOUS
        <3>1. Dead(k) \/ Near(k, j)
            BY <1>2 DEF Reaped
        <3>2. Dead(k) => Dead(k)'
            BY DEF Dead, Open
        <3>3. Near(k, j) => Leads(k, h)'
            BY DEF Near, Leads
        <3>4. Leads(k, h)' => Near(k, i)'
            BY <1>3, <1>4, <1>5, <1>6 DEF Near
        <3> QED BY <3>1, <3>2, <3>3, <3>4
    <2> QED BY <2>1, StillHears, ReapsMoved DEF WInv, TInv
<1> QED BY <1>8, <1>9, <1>11, <1>12, <1>13 DEF WInv, OneSpot

LEMMA GoneStep ==
    ASSUME TInv, TInv', WInv, NEW h \in Handles, HandleGone(h)
    PROVE  WInv'
<1>1. Still /\ UNCHANGED <<mst, next, online, omap, reply, ctl>> /\ leaving[h] = None
    BY MapsLeave DEF Map, Still, HandleGone, mapsV, regV, sessV, Takes, At
<1>2. MailGoes({h}, {}) /\ WordsGo({}, {})
    BY <1>1, HandleGoneTyped, WordsSame DEF TInv, Types
<1>3. CASE Stayed
    BY <1>1, <1>2, <1>3, AlikeIs, MapQuiet DEF Stayed
<1>4. ASSUME NEW g \in Chars, Here(h, g), Left(h, g)
      PROVE  WInv'
    BY <1>1, <1>2, <1>4, LeftStep
<1>5. ASSUME NEW g \in Chars, Here(h, g), Lingered(h, g)
      PROVE  WInv'
    BY <1>1, <1>2, <1>5, AlikeIs, MapQuiet DEF Lingered
<1> QED BY <1>3, <1>4, <1>5, HandleGoneTyped

LEMMA HandedStep ==
    ASSUME TInv, TInv', WInv, NEW h \in Handles, HandleHandedOn(h)
    PROVE  WInv'
<1>1. Still /\ UNCHANGED <<mst, next, online, omap, reply>> /\ leaving[h] = None
    BY MapsLeave DEF Map, Still, HandleHandedOn, mapsV, regV, sessV, Takes, At
<1>2. PICK M : WordsGo({}, M) /\ \A x \in M : x[2].op \notin {"transfer", "loggedout"}
    <2>1. ASSUME NEW s \in Sessions, NEW g \in Chars, WordsGo({}, {<<s, [op |-> "handedon", g |-> g, map |-> h]>>})
          PROVE  \E M : WordsGo({}, M) /\ \A x \in M : x[2].op \notin {"transfer", "loggedout"}
        <3>1. \A x \in {<<s, [op |-> "handedon", g |-> g, map |-> h]>>} : x[2].op \notin {"transfer", "loggedout"}
            OBVIOUS
        <3> QED BY <2>1, <3>1
    <2>2. CASE WordsGo({}, {})
        <3>1. \A x \in {} : x[2].op \notin {"transfer", "loggedout"}
            OBVIOUS
        <3> QED BY <2>2, <3>1
    <2>3. CASE \E s \in Sessions, g \in Chars : WordsGo({}, {<<s, [op |-> "handedon", g |-> g, map |-> h]>>})
        BY <2>1, <2>3
    <2> QED BY <2>2, <2>3, HandedTyped
<1>3. MailGoes({h}, {})
    BY HandedTyped
<1>4. CASE Stayed
    BY <1>1, <1>2, <1>3, <1>4, AlikeIs, MapQuiet DEF Stayed
<1>5. ASSUME NEW g \in Chars, Here(h, g), Left(h, g)
      PROVE  WInv'
    BY <1>1, <1>2, <1>3, <1>5, LeftStep
<1>6. ASSUME NEW g \in Chars, Here(h, g), Lingered(h, g)
      PROVE  WInv'
    BY <1>1, <1>2, <1>3, <1>6, AlikeIs, MapQuiet DEF Lingered
<1> QED BY <1>4, <1>5, <1>6, HandedTyped

LEMMA GoesStep ==
    ASSUME TInv, TInv', WInv, NEW h \in Handles, NEW g \in Chars,
           LogoutDue(h, g) \/ SendToScreen(h, g) \/ LingerEnd(h, g)
    PROVE  WInv'
<1>1. \E told \in BOOLEAN : Goes(h, g, told)
    BY DEF LogoutDue, SendToScreen, LingerEnd
<1>2. /\ UNCHANGED <<phase, state, goal, passing, logins>>
      /\ UNCHANGED <<mst, next, online, omap, reply, ctl, mq>> /\ leaving[h] = None
    BY <1>1 DEF Goes, mapsV, regV, sessV, At
<1>3. MailGoes({}, {}) /\ WordsGo({}, {})
    BY <1>2, MailSame, WordsSame DEF TInv, Types
<1>4. Here(h, g) /\ Left(h, g)
    BY GoesTyped
<1> QED BY <1>2, <1>3, <1>4, LeftStep DEF Still

LEMMA StopStep ==
    ASSUME TInv, TInv', WInv, NEW h \in Handles, HandleStop(h)
    PROVE  WInv'
<1>1. Still /\ UNCHANGED <<next, online, omap, reply, ctl>> /\ leaving[h] = None /\ mst[h] = "running"
    BY MapsLeave DEF Map, Still, HandleStop, regV, sessV, Takes, At
<1>2. WordsGo({}, {})
    BY <1>1, WordsSame DEF TInv, Types
<1>3. ASSUME NEW g \in Chars, Here(h, g), Left(h, g), UNCHANGED <<mst, mq>>
      PROVE  WInv'
    <2>1. MailGoes({}, {})
        BY <1>3, MailSame DEF TInv, Types
    <2> QED BY <1>1, <1>2, <1>3, <2>1, LeftStep
<1>4. CASE /\ Stayed /\ (\A g \in Chars : ~Here(h, g)) /\ MailGoes({h}, {})
           /\ mst' = [mst EXCEPT ![h] = "stopping"]
    <2>1. mst'[h] = "stopping" /\ \A k \in Handles : k # h => mst'[k] = mst[k]
        BY <1>4 DEF TInv, Types, MapTypes
    <2>2. MapsGo
        BY <1>1, <2>1, MapsTurn, HandleIs DEF Open, Dead
    <2>3. Alike /\ Answers
        BY <1>1, <1>4, AlikeIs, AnswersAre DEF Stayed
    <2> QED BY <1>1, <1>2, <1>4, <2>1, <2>2, <2>3, MapStep DEF Stayed
<1> QED BY <1>3, <1>4, HandleStopTyped

LEMMA UnloadStep ==
    ASSUME TInv, TInv', WInv, NEW h \in Handles, Unload(h)
    PROVE  WInv'
<1>1. /\ Still /\ UNCHANGED <<players, next, online, omap, reply, ctl, leaving>> /\ leaving[h] = None
      /\ mst[h] = "running" /\ mst' = [mst EXCEPT ![h] = "stopping"] /\ \A g \in Chars : ~Here(h, g)
    BY MapsLeave DEF Doings, Still, Unload, regV, sessV, At
<1>2. WordsGo({}, {})
    BY <1>1, WordsSame DEF TInv, Types
<1>3. PICK k \in Keys : MailGoes({}, {<<<<k, cur[k]>>, [op |-> "stop"]>>})
    BY StoppedTyped
<1>4. \A x \in {<<<<k, cur[k]>>, [op |-> "stop"]>>} : x[2].op \notin {"arrive", "takeover", "reap"}
    OBVIOUS
<1>5. mst'[h] = "stopping" /\ \A j \in Handles : j # h => mst'[j] = mst[j]
    BY <1>1 DEF TInv, Types, MapTypes
<1>6. MapsGo
    BY <1>1, <1>5, MapsTurn, HandleIs DEF Open, Dead
<1>7. Alike /\ Answers
    BY <1>1, <1>3, <1>4, AlikeIs, AnswersAre
<1> QED BY <1>1, <1>2, <1>3, <1>4, <1>5, <1>6, <1>7, MapStep

LEMMA FinishStep ==
    ASSUME TInv, TInv', WInv, NEW h \in Handles, Finish(h)
    PROVE  WInv'
<1>1. Still /\ UNCHANGED <<players, next, online, omap, ctl, leaving>> /\ mst[h] = "stopping"
    BY MapsLeave DEF Map, Still, Finish, regV
<1>2. MailGoes({}, {}) /\ WordsGo({}, {})
    BY <1>1, FinishTyped, WordsSame DEF TInv, Types
<1>3. reply' = reply \/ (mq' = [mq EXCEPT ![h] = <<>>] /\ reply' = Unanswered(mq[h]))
    BY DEF Finish
<1>4. Answers
    <2>1. CASE reply' = reply
        BY <1>2, <2>1, AnswersAre
    <2>2. CASE mq' = [mq EXCEPT ![h] = <<>>] /\ reply' = Unanswered(mq[h])
        <3>1. mq'[h] = <<>>
            BY <2>2 DEF TInv, Types, ActorTypes
        <3>2. Box(h)' = {}
            BY <3>1 DEF Box
        <3> QED BY <1>2, <2>2, <3>2, AnswersAre
    <2> QED BY <1>3, <2>1, <2>2
<1>5. \A k \in Handles : k # h => mst'[k] = mst[k]
    BY FinishTyped DEF TInv, Types, MapTypes
<1>6. MapsGo
    BY <1>1, <1>5, MapsTurn, HandleIs DEF Open, Dead
<1>7. Alike
    BY <1>1, AlikeIs
<1> QED BY <1>1, <1>2, <1>4, <1>5, <1>6, <1>7, MapStep

LEMMA HandGetStep ==
    ASSUME TInv, TInv', WInv, NEW h \in Handles, HandGet(h)
    PROVE  WInv'
<1>1. Still /\ UNCHANGED <<players, mq, online, omap, ctl, reply, leaving>> /\ mst[h] = "handing" /\ next[h] = None
    BY MapsLeave DEF Map, Still, HandGet, regV, sessV
<1>2. MailGoes({}, {}) /\ WordsGo({}, {}) /\ Alike
    BY <1>1, MailSame, WordsSame, AlikeIs DEF TInv, Types
<1>3. Answers
    BY <1>1, <1>2, AnswersAre
<1>4. PICK t \in Handles : Got(t) /\ next' = [next EXCEPT ![h] = t]
    BY HandGetTyped DEF Got
<1>5. \A k \in Handles : mst[k] # "unborn" => mst'[k] = mst[k]
    BY <1>4 DEF Got
<1>6. ASSUME NEW k \in Handles
      PROVE  (Dead(k) => Dead(k)') /\ \A j \in Handles : Leads(k, j) => Leads(k, j)'
    <2>1. CASE k = h
        BY <1>1, <2>1, HandleIs DEF Dead, Leads
    <2>2. CASE k # h
        <3>1. next'[k] = next[k] /\ next[k] \in Handles \cup {None}
            BY <1>4, <2>2 DEF TInv, Types, ActorTypes
        <3>2. next[k] # None => mst'[next[k]] = mst[next[k]]
            BY <1>5, <3>1 DEF TInv, Born
        <3> QED BY <1>5, <3>1, <3>2 DEF Dead, Leads, Open
    <2> QED BY <2>1, <2>2
<1>7. MapsGo
    BY <1>6 DEF MapsGo
<1>8. \A k \in Handles : mst'[k] # mst[k] => mst[k] # "running"
    BY <1>5
<1> QED BY <1>1, <1>2, <1>3, <1>7, <1>8, MapStep

LEMMA HandedOnStep ==
    ASSUME TInv, TInv', WInv, NEW h \in Handles, HandedOn(h)
    PROVE  WInv'
<1>1. /\ Still /\ UNCHANGED <<players, online, omap, ctl, reply, leaving>>
      /\ mst[h] = "handing" /\ mq[h] = <<>>
    BY MapsLeave DEF Map, Still, HandedOn, regV, sessV
<1>2. WordsGo({}, {}) /\ Alike
    BY <1>1, WordsSame, AlikeIs DEF TInv, Types
<1>3. ASSUME mst' = [mst EXCEPT ![h] = "gone"], next' = [next EXCEPT ![h] = None], MailGoes({}, {})
      PROVE  WInv'
    <2>1. /\ mst'[h] = "gone" /\ \A k \in Handles : k # h => mst'[k] = mst[k] /\ next'[k] = next[k]
        BY <1>3 DEF TInv, Types, MapTypes, ActorTypes
    <2>2. Box(h)' = {}
        BY <1>1, <1>3 DEF MailGoes, Box
    <2>3. MapsGo
        BY <2>1, <2>2, MapsTurn
    <2>4. Answers
        BY <1>1, <1>3, AnswersAre
    <2> QED BY <1>1, <1>2, <1>3, <2>1, <2>3, <2>4, MapStep
<1>4. ASSUME UNCHANGED <<mst, next>>, NEW g \in Chars, NEW k \in Handles,
             MailGoes({}, {<<k, [op |-> "handedon", g |-> g]>>})
      PROVE  WInv'
    <2>1. \A x \in {<<k, [op |-> "handedon", g |-> g]>>} : x[2].op \notin {"arrive", "takeover", "reap"}
        OBVIOUS
    <2> QED BY <1>1, <1>2, <1>4, <2>1, MapQuiet
<1> QED BY <1>3, <1>4, HandedOnTyped

LEMMA LetGoneStep ==
    ASSUME TInv, TInv', WInv, NEW h \in Handles, LetGone(h)
    PROVE  WInv'
<1>1. /\ Still /\ UNCHANGED <<players, mq, next, online, omap, ctl, reply, leaving>>
      /\ mst[h] = "letting" /\ mst' = [mst EXCEPT ![h] = "gone"]
    BY MapsLeave DEF Map, Still, LetGone, actorV, regV, sessV
<1>2. MailGoes({}, {}) /\ WordsGo({}, {}) /\ Alike
    BY <1>1, MailSame, WordsSame, AlikeIs DEF TInv, Types
<1>3. Answers
    BY <1>1, <1>2, AnswersAre
<1>4. mst'[h] = "gone" /\ \A k \in Handles : k # h => mst'[k] = mst[k]
    BY <1>1 DEF TInv, Types, MapTypes
<1>5. MapsGo
    BY <1>1, <1>4, MapsTurn DEF Dead
<1> QED BY <1>1, <1>2, <1>3, <1>4, <1>5, MapStep

(* A player on their way into a map, next to come: there and nowhere else. *)
LEMMA ComingAlone ==
    ASSUME WInv, NEW h \in Handles, 1 \in Box(h), mq[h][1].op = "arrive"
    PROVE  /\ \A k \in Handles, c \in Chars : ~Here(k, c)
           /\ \A k \in Handles : \A i \in Box(k) : mq[k][i].op = "arrive" => k = h /\ i = 1
           /\ \A t \in Sessions : \A i \in Words(t) : ctl[t][i].op # "transfer"
           /\ \A t \in Sessions : passing[t] = None
           /\ \A t \in Sessions : phase[t] # "arriving"
           /\ \A k \in Handles : leaving[k] = None
           /\ online # None /\ mq[h][1].p.on = online /\ omap[online.sess] = h
<1>1. PICK c, x, y : AllAt(c, x, y)
    BY DEF WInv, OneSpot
<1>2. c = "mail" /\ x = h /\ y = 1
    BY <1>1 DEF AllAt
<1>3. online # None /\ mq[h][1].p.on = online /\ omap[online.sess] = h
    BY DEF WInv, SpotsListed, OnList
<1> QED BY <1>1, <1>2, <1>3 DEF AllAt

(* Taken from the queue, they are in none.                                *)
LEMMA NoneTaken ==
    ASSUME NEW h \in Handles, NEW N, MailGoes({h}, N), \A x \in N : x[2].op # "arrive",
           \A k \in Handles : \A i \in Box(k) : mq[k][i].op = "arrive" => k = h /\ i = 1
    PROVE  \A k \in Handles : \A i \in Box(k)' : mq'[k][i].op # "arrive"
<1> SUFFICES ASSUME NEW k \in Handles, NEW i \in Box(k)', mq'[k][i].op = "arrive"
             PROVE  FALSE
    OBVIOUS
<1>1. LET j == IF k \in {h} THEN i + 1 ELSE i IN j \in Box(k) /\ mq'[k][i] = mq[k][j]
    BY MailFrom
<1>2. i \in Int /\ i >= 1
    BY BoxIntNext
<1> QED BY <1>1, <1>2

LEMMA LetGoGone ==
    ASSUME TInv, TInv', WInv, Still, NEW h \in Handles, 1 \in Box(h), mq[h][1] \in OwnEvent,
           mq[h][1].op = "arrive", LetGo(mq[h][1], ctl), MailGoes({h}, {}),
           WordsGo({}, {<<mq[h][1].p.on.sess, [op |-> "kick"]>>}), UNCHANGED <<players, leaving, reply>>
    PROVE  WInv'
<1>1. /\ \A k \in Handles, c \in Chars : ~Here(k, c)
      /\ \A k \in Handles : \A i \in Box(k) : mq[k][i].op = "arrive" => k = h /\ i = 1
      /\ \A t \in Sessions : \A i \in Words(t) : ctl[t][i].op # "transfer"
      /\ \A t \in Sessions : passing[t] = None
      /\ \A t \in Sessions : phase[t] # "arriving"
      /\ \A k \in Handles : leaving[k] = None
      /\ online # None /\ mq[h][1].p.on = online
    BY ComingAlone
<1>2. online' = None
    BY <1>1 DEF LetGo, Offline
<1>3. \A x \in {<<mq[h][1].p.on.sess, [op |-> "kick"]>>} : x[2].op \notin {"transfer", "loggedout"}
    OBVIOUS
<1>4. \A k \in Handles : \A i \in Box(k)' : mq'[k][i].op # "arrive"
    BY <1>1, NoneTaken
<1>5. \A t \in Sessions : \A i \in Words(t)' : ctl'[t][i].op # "transfer"
    BY <1>1, <1>3, WordFrom
<1>6. NoSpots'
    BY <1>1, <1>4, <1>5 DEF NoSpots, AllAt, Here, Still
<1>7. Answers
    BY AnswersAre
<1> QED BY <1>2, <1>3, <1>6, <1>7, MapGone

LEMMA LetGoEachStep ==
    ASSUME TInv, TInv', WInv, NEW h \in Handles, LetGoEach(h)
    PROVE  WInv'
<1>1. Still /\ UNCHANGED <<mst, players, next, omap, leaving>>
    BY MapsLeave DEF Map, Still, LetGoEach, mapsV
<1>2. MailGoes({h}, {}) /\ mq[h][1] \in OwnEvent /\ 1 \in Box(h)
    BY LetGoEachTyped
<1>3. CASE mq[h][1].op = "arrive"
    <2>1. /\ LetGo(mq[h][1], ctl) /\ reply' = reply
          /\ WordsGo({}, {<<mq[h][1].p.on.sess, [op |-> "kick"]>>})
        BY <1>3, LetGoEachTyped
    <2> QED BY <1>1, <1>2, <1>3, <2>1, LetGoGone
<1>4. CASE mq[h][1].op # "arrive"
    <2>1. reply' = Unanswered(<<mq[h][1]>>) /\ UNCHANGED <<online, ctl>>
        BY <1>4, LetGoEachTyped
    <2>2. WordsGo({}, {}) /\ Alike /\ MapsGo
        BY <1>1, <2>1, WordsSame, AlikeIs, MapsSame DEF TInv, Types
    <2>3. Answers
        BY <1>2, <2>1, AnswersAre
    <2> QED BY <1>1, <1>2, <2>1, <2>2, <2>3, MapStep
<1> QED BY <1>3, <1>4

LEMMA HandleReapStep ==
    ASSUME TInv, TInv', WInv, NEW h \in Handles, HandleReap(h)
    PROVE  WInv'
<1>1. /\ Still /\ UNCHANGED <<mst, next, omap, reply, ctl, phase>>
      /\ leaving[h] = None /\ mst[h] = "running"
    BY MapsLeave DEF Map, Still, HandleReap, mapsV, regV, sessV, Takes, At
<1>2. /\ MailGoes({h}, {}) /\ WordsGo({}, {})
      /\ 1 \in Box(h) /\ mq[h][1].op = "reap" /\ mq[h][1].e \in Entry
    BY <1>1, HandleReapTyped, WordsSame DEF TInv, Types
<1>3. ASSUME online' = online, NEW g \in Chars, Here(h, g), Left(h, g)
      PROVE  WInv'
    BY <1>1, <1>2, <1>3, LeftStep
<1>4. ASSUME online' = online, NEW g \in Chars, Here(h, g), Lingered(h, g)
      PROVE  WInv'
    BY <1>1, <1>2, <1>4, AlikeIs, MapQuiet DEF Lingered
<1>5. CASE Stayed /\ online' = online
    BY <1>1, <1>2, <1>5, AlikeIs, MapQuiet DEF Stayed
<1>6. CASE Stayed /\ ~Here(h, mq[h][1].e.g) /\ online = mq[h][1].e /\ online' = None
    <2>1. NoSpots
        <3>1. CASE online = None
            BY <3>1, NoneListed DEF WInv
        <3>2. CASE online # None
            <4>1. ~Hears(online.sess) /\ Near(h, 1)
                BY <1>1, <1>2, <1>6, <3>2 DEF WInv, Reaps, Reaped, Dead
            <4>2. \A k \in Handles : Leads(h, k) => k = h
                BY <1>1 DEF Leads
            <4>3. \A k \in Handles, g \in Chars : ~Here(k, g)
                BY <1>6, <4>1, <4>2 DEF Near, WInv, SpotsListed
            <4>4. \A k \in Handles : leaving[k] = None
                BY <1>1, <4>1, <4>2 DEF Near
            <4>5. \A k \in Handles : \A j \in Box(k) : mq[k][j].op # "arrive"
                <5> SUFFICES ASSUME NEW k \in Handles, NEW j \in Box(k), mq[k][j].op = "arrive"
                             PROVE  FALSE
                    OBVIOUS
                <5>1. k = h /\ j < 1
                    BY <4>1, <4>2 DEF Near
                <5>2. j \in Int /\ j >= 1
                    BY BoxInt
                <5> QED BY <5>1, <5>2
            <4>6. \A t \in Sessions : phase[t] # "arriving"
                BY <4>1 DEF WInv, SpotsListed, Hears
            <4> QED BY <4>1, <4>3, <4>4, <4>5, <4>6 DEF Near, NoSpots, AllAt
        <3> QED BY <3>1, <3>2
    <2>2. SpotsGo({h}, {}, {}, {})
        BY <1>1, <1>2, <1>6 DEF SpotsGo, Still, Stayed, Here
    <2>3. NoSpots'
        BY <2>1, <2>2, NoneKept
    <2>4. Answers
        BY <1>1, <1>2, AnswersAre
    <2> QED BY <1>1, <1>2, <1>6, <2>3, <2>4, MapGone
<1> QED BY <1>3, <1>4, <1>5, <1>6, HandleReapTyped

(* A player gone offline at last: told, their session is at none but the    *)
(* game's screen yet, and no other such word waits for it.                 *)
LEMMA LeaveDoneStep ==
    ASSUME TInv, TInv', WInv, NEW h \in Handles, LeaveDone(h)
    PROVE  WInv'
<1>1. /\ Still /\ UNCHANGED <<mst, mq, players, next, omap, reply>>
      /\ leaving[h] # None /\ leaving' = [leaving EXCEPT ![h] = None]
    BY MapsLeave DEF Map, Still, LeaveDone, mapsV
<1>2. MailGoes({}, {})
    BY <1>1, MailSame DEF TInv, Types
<1>3. online # None /\ online.g = leaving[h].g /\ online.sess = leaving[h].sess
    BY <1>1 DEF WInv, SpotsListed
<1>4. PICK s \in Sessions : s = online.sess
    BY <1>3, EntryIs DEF TInv, Types, RegTypes
<1>5. online' = None
    BY <1>3 DEF LeaveDone, Offline
<1>6. /\ \A k \in Handles, c \in Chars : ~Here(k, c)
      /\ \A k \in Handles : \A i \in Box(k) : mq[k][i].op # "arrive"
      /\ \A t \in Sessions : \A i \in Words(t) : ctl[t][i].op # "transfer"
      /\ \A t \in Sessions : passing[t] = None
      /\ \A t \in Sessions : phase[t] # "arriving"
      /\ \A k \in Handles : leaving[k] # None => k = h
    <2>1. PICK c, x, y : AllAt(c, x, y)
        BY DEF WInv, OneSpot
    <2>2. c = "leaves" /\ x = h
        BY <1>1, <2>1 DEF AllAt
    <2> QED BY <2>1, <2>2 DEF AllAt
<1>7. ctl' = ctl \/ (Hears(s) /\ ctl' = [ctl EXCEPT ![s] = Append(@, [op |-> "loggedout"])])
    BY <1>3, <1>4 DEF LeaveDone, Tell
<1>8. PICK M : WordsGo({}, M) /\ (\A x \in M : x[2].op # "transfer")
    <2>1. WordsGo({}, {x \in {<<leaving[h].sess, [op |-> "loggedout"]>>} : Hears(leaving[h].sess)})
        BY LeaveDoneTyped
    <2>2. \A x \in {x \in {<<leaving[h].sess, [op |-> "loggedout"]>>} : Hears(leaving[h].sess)} : x[2].op # "transfer"
        OBVIOUS
    <2> QED BY <2>1, <2>2
<1>9. NoSpots'
    <2>1. \A t \in Sessions : \A i \in Words(t)' : ctl'[t][i].op # "transfer"
        BY <1>6, <1>8, WordFrom
    <2>2. \A k \in Handles : leaving'[k] = None
        BY <1>1, <1>6 DEF TInv, Types, ActorTypes
    <2> QED BY <1>1, <1>6, <2>1, <2>2 DEF NoSpots, AllAt, Here, Box, Still
<1>10. OneSpot' /\ SpotsListed' /\ Screens'
    BY <1>5, <1>9, GoneNow
<1>11. Answers
    BY <1>1, <1>2, AnswersAre
<1>12. TakeOvers' /\ Counts' /\ \A t \in Sessions : Out(t) => Out(t)'
    BY <1>1, <1>2, <1>11, MapAnswers
<1>13. Reaps'
    BY <1>1, <1>2, <1>5, StillHears, ReapsFree DEF WInv, TInv
<1>14. LoggedOut'
    <2>1. CASE ctl' = ctl
        <3>1. WordsGo({}, {})
            BY <2>1, WordsSame DEF TInv, Types
        <3> QED BY <1>5, <1>12, <3>1, LoggedKept DEF WInv
    <2>2. CASE Hears(s) /\ ctl' = [ctl EXCEPT ![s] = Append(@, [op |-> "loggedout"])]
        <3>1. ctl[s] \in Seq(OwnWord) /\ [op |-> "loggedout"] \in OwnWord
            BY PlainWord DEF TInv, Types, SessTypes
        <3>2. /\ ctl'[s] = Append(ctl[s], [op |-> "loggedout"])
              /\ \A t \in Sessions : t # s => ctl'[t] = ctl[t]
            BY <2>2 DEF TInv, Types, SessTypes
        <3>3. /\ Words(s)' = 1..Len(ctl[s]) + 1 /\ Len(ctl[s]) \in Nat
              /\ \A i \in Words(s) : ctl'[s][i] = ctl[s][i]
            BY <3>1, <3>2, AppendProperties, LenProperties DEF Words
        <3>4. \A i \in Words(s) : ctl[s][i].op # "loggedout"
            BY <1>3, <1>4 DEF WInv, LoggedOut
        <3>5. \A i \in Words(s)' : ctl'[s][i].op = "loggedout" => i = Len(ctl[s]) + 1
            BY <3>3, <3>4 DEF Words
        <3>6. Out(s)'
            <4>1. Fits(s)
                BY <1>3, <1>4 DEF WInv, Screens
            <4>2. Out(s)
                BY <1>6, <2>2, <4>1 DEF Fits, Out, Hears
            <4> QED BY <1>12, <4>2
        <3>7. ASSUME NEW t \in Sessions, t # s, NEW i \in Words(t)', ctl'[t][i].op = "loggedout"
              PROVE  (\A j \in Words(t)' : ctl'[t][j].op = "loggedout" => i = j) /\ Out(t)'
            <4>1. /\ i \in Words(t) /\ ctl[t][i].op = "loggedout"
                  /\ \A j \in Words(t)' : j \in Words(t) /\ ctl'[t][j] = ctl[t][j]
                BY <3>2, <3>7 DEF Words
            <4> QED BY <1>12, <4>1 DEF WInv, LoggedOut
        <3>8. ASSUME NEW i \in Words(s)', ctl'[s][i].op = "loggedout"
              PROVE  (\A j \in Words(s)' : ctl'[s][j].op = "loggedout" => i = j) /\ Out(s)'
            BY <3>5, <3>6, <3>8
        <3> QED BY <1>5, <3>7, <3>8 DEF LoggedOut
    <2> QED BY <1>7, <2>1, <2>2
<1> QED BY <1>10, <1>12, <1>13, <1>14 DEF WInv

(* A player come into the map.                                            *)
LEMMA HandleArriveStep ==
    ASSUME TInv, TInv', WInv, NEW h \in Handles, HandleArrive(h)
    PROVE  WInv'
<1>1. Still /\ UNCHANGED <<mst, next, leaving, online, reply, ctl>> /\ mst[h] = "running"
    BY MapsLeave DEF Map, Still, HandleArrive, mapsV, sessV, Takes, At
<1>2. /\ MailGoes({h}, {}) /\ 1 \in Box(h) /\ mq[h][1].op = "arrive" /\ mq[h][1].p \in OwnPlayer
      /\ PlayerNow(h, mq[h][1].p.on.g, mq[h][1].p)
      /\ omap' = [omap EXCEPT ![mq[h][1].p.on.sess] = h]
    BY HandleArriveTyped
<1>3. /\ \A k \in Handles, c \in Chars : ~Here(k, c)
      /\ \A k \in Handles : \A i \in Box(k) : mq[k][i].op = "arrive" => k = h /\ i = 1
      /\ \A t \in Sessions : \A i \in Words(t) : ctl[t][i].op # "transfer"
      /\ \A t \in Sessions : passing[t] = None
      /\ \A t \in Sessions : phase[t] # "arriving"
      /\ \A k \in Handles : leaving[k] = None
      /\ online # None /\ mq[h][1].p.on = online /\ omap[online.sess] = h
    BY <1>2, ComingAlone
<1>4. PICK p \in OwnPlayer, g \in Chars :
          p = mq[h][1].p /\ p.on = online /\ g = online.g /\ online.sess \in Sessions
    BY <1>2, <1>3, OwnIs
<1>5. /\ \A k \in Handles, c \in Chars : Here(k, c)' => k = h /\ c = g
      /\ players'[h][g] = p
    BY <1>2, <1>3, <1>4 DEF PlayerNow, Here
<1>6. /\ \A k \in Handles : \A i \in Box(k)' : mq'[k][i].op # "arrive"
      /\ \A t \in Sessions : \A i \in Words(t)' : ctl'[t][i].op # "transfer"
    BY <1>1, <1>2, <1>3, NoneTaken DEF Words
<1>7. /\ \A t \in Sessions : passing'[t] = None
      /\ \A t \in Sessions : phase'[t] # "arriving"
      /\ \A k \in Handles : leaving'[k] = None
    BY <1>1, <1>3 DEF Still
<1>8. omap'[online.sess] = h
    BY <1>2, <1>4 DEF TInv, Types, RegTypes
<1>9. AllAt("map", h, g)'
    BY <1>5, <1>6, <1>7 DEF AllAt
<1>10. SpotsListed'
    <2>1. \A k \in Handles, c \in Chars : Here(k, c)' =>
             OnList(players[k][c])' /\ online'.g = c /\ omap'[online'.sess] = k /\ mst'[k] = "running"
        BY <1>1, <1>3, <1>4, <1>5, <1>8 DEF OnList
    <2> QED BY <1>6, <1>7, <2>1 DEF SpotsListed
<1>11. Answers /\ WordsGo({}, {})
    BY <1>1, <1>2, AnswersAre, WordsSame DEF TInv, Types
<1>12. Screens' /\ TakeOvers' /\ Counts' /\ \A t \in Sessions : Out(t) => Out(t)'
    BY <1>1, <1>2, <1>11, MapScreens, MapAnswers
<1>13. LoggedOut'
    BY <1>1, <1>11, <1>12, LoggedKept DEF WInv
<1>14. Reaps'
    <2>1. \A k \in Handles : \A i \in Box(k)' : LET j == IF k \in {h} THEN i + 1 ELSE i IN
             mq'[k][i].op = "reap" /\ j \in Box(k) /\ mq'[k][i] = mq[k][j] /\ Reaped(k, j)
             /\ online' # None /\ online' = mq[k][j].e => Dead(k)' \/ Near(k, i)'
        <3> SUFFICES ASSUME NEW k \in Handles, NEW i \in Box(k)', NEW j, Reaped(k, j), online' = mq[k][j].e
                     PROVE  Dead(k)' \/ Near(k, i)'
            OBVIOUS
        <3>1. Dead(k) \/ Near(k, j)
            BY <1>1, <1>3 DEF Reaped
        <3>2. Dead(k) => Dead(k)'
            BY <1>1 DEF Dead, Open
        <3>3. Near(k, j) => Leads(k, h)'
            BY <1>1, <1>2 DEF Near, Leads
        <3>4. Leads(k, h)' => Near(k, i)'
            BY <1>5, <1>6, <1>7 DEF Near
        <3> QED BY <3>1, <3>2, <3>3, <3>4
    <2> QED BY <1>1, <1>2, <2>1, StillHears, ReapsMoved DEF WInv, TInv
<1> QED BY <1>9, <1>10, <1>12, <1>13, <1>14 DEF WInv, OneSpot

(* A take-over: the player's entry is the new login's, which waits and has  *)
(* its answer; refused, it has that.                                      *)
LEMMA TakeOverStep ==
    ASSUME TInv, TInv', WInv, NEW h \in Handles, HandleTakeOver(h)
    PROVE  WInv'
<1>1. Still /\ UNCHANGED <<mst, next, leaving>> /\ mst[h] = "running"
    BY MapsLeave DEF Map, Still, HandleTakeOver, mapsV, Takes, At
<1>2. PICK old \in Entry, new \in Entry : old = mq[h][1].old /\ new = mq[h][1].new /\ old.g = new.g
    BY TakeOverTyped
<1>3. MailGoes({h}, {}) /\ 1 \in Box(h) /\ mq[h][1].op = "takeover"
    BY TakeOverTyped
<1>4. \/ /\ Replaces(h, old) /\ online' = new /\ omap' = [omap EXCEPT ![new.sess] = h]
         /\ WordsGo({}, {<<old.sess, [op |-> "takenover"]>>})
         /\ reply' = [reply EXCEPT ![new.sess] = h]
         /\ \E q \in OwnPlayer : PlayerNow(h, old.g, q) /\ q.on = new
      \/ /\ UNCHANGED <<players, online, omap, ctl>> /\ reply' = [reply EXCEPT ![new.sess] = No]
    BY <1>2, TakeOverTyped
<1>5. PICK n \in Sessions, g \in Chars : n = new.sess /\ g = old.g /\ g = new.g
    BY <1>2, EntryIs
<1>6. Asks(n) /\ new.n = logins[n] /\ logins[n] <= MaxLogins /\ ~Out(n)
    BY <1>2, <1>3, <1>5, HandleIs DEF WInv, TakeOvers, AskedBy, Counts, Asks, Out
<1>7. \A s \in Sessions : s # n => reply'[s] = reply[s]
    BY <1>4, <1>5 DEF TInv, Types, SessTypes
<1>8. Answers
    <2>1. \A s \in Sessions : reply'[s] = reply[s] \/
              \E i \in {1} : mq[h][i].op = "takeover" /\ mq[h][i].new.sess = s
        BY <1>2, <1>3, <1>5, <1>7
    <2>2. \A i \in Box(h)' : (IF h \in {h} THEN i + 1 ELSE i) \notin {1}
        BY BoxIntNext
    <2>3. PICK S \in SUBSET Box(h) : S = {1}
        BY <1>3
    <2> QED BY SMTT(40), <1>3, <2>1, <2>2, <2>3, AnswersOf
<1>9. CASE /\ UNCHANGED <<players, online, omap, ctl>> /\ reply' = [reply EXCEPT ![new.sess] = No]
    <2>1. WordsGo({}, {}) /\ Alike /\ MapsGo
        BY <1>1, <1>9, WordsSame, AlikeIs, MapsSame DEF TInv, Types
    <2> QED BY <1>1, <1>3, <1>8, <1>9, <2>1, MapStep
<1>10. CASE /\ Replaces(h, old) /\ online' = new /\ omap' = [omap EXCEPT ![new.sess] = h]
            /\ WordsGo({}, {<<old.sess, [op |-> "takenover"]>>})
            /\ reply' = [reply EXCEPT ![new.sess] = h]
            /\ \E q \in OwnPlayer : PlayerNow(h, old.g, q) /\ q.on = new
    <2>1. PICK q \in OwnPlayer : PlayerNow(h, g, q) /\ q.on = new
        BY <1>5, <1>10
    <2>2. /\ \A k \in Handles, c \in Chars : Here(k, c) => k = h /\ c = g
          /\ \A k \in Handles : \A i \in Box(k) : mq[k][i].op # "arrive"
          /\ \A t \in Sessions : \A i \in Words(t) : ctl[t][i].op # "transfer"
          /\ \A t \in Sessions : passing[t] = None
          /\ \A t \in Sessions : phase[t] # "arriving"
          /\ \A k \in Handles : leaving[k] = None
        BY <1>5, <1>10, HereAlone DEF Replaces
    <2>3. /\ \A k \in Handles, c \in Chars : Here(k, c)' => k = h /\ c = g
          /\ players'[h][g] = q
        BY <2>1, <2>2 DEF PlayerNow, Here
    <2>4. \A x \in {<<old.sess, [op |-> "takenover"]>>} : x[2].op \notin {"transfer", "loggedout"}
        OBVIOUS
    <2>5. /\ \A k \in Handles : \A i \in Box(k)' : mq'[k][i].op # "arrive"
          /\ \A t \in Sessions : \A i \in Words(t)' : ctl'[t][i].op # "transfer"
        <3>1. \A k \in Handles : \A i \in Box(k)' : mq'[k][i].op # "arrive"
            BY <1>3, <2>2, MailFrom
        <3>2. \A t \in Sessions : \A i \in Words(t)' : ctl'[t][i].op # "transfer"
            BY <1>10, <2>2, <2>4, WordFrom
        <3> QED BY <3>1, <3>2
    <2>6. /\ \A t \in Sessions : passing'[t] = None
          /\ \A t \in Sessions : phase'[t] # "arriving"
          /\ \A k \in Handles : leaving'[k] = None
        BY <1>1, <2>2 DEF Still
    <2>7. new # None
        <3>1. new = [g |-> g, sess |-> n, n |-> logins[n]]
            BY <1>5, <1>6, OnlineIs
        <3>2. logins[n] \in 0..MaxLogins
            BY <1>6, WorldAssumption DEF TInv, Types, SessTypes
        <3> QED BY <3>1, <3>2, WorldAssumption
    <2>8. omap'[n] = h /\ reply'[n] = h /\ phase'[n] = "asking"
        BY <1>1, <1>5, <1>6, <1>10 DEF TInv, Types, RegTypes, SessTypes, Asks, Still
    <2>9. AllAt("map", h, g)'
        BY <2>3, <2>5, <2>6 DEF AllAt
    <2>10. SpotsListed'
        <3>1. \A k \in Handles, c \in Chars : Here(k, c)' =>
                 OnList(players[k][c])' /\ online'.g = c /\ omap'[online'.sess] = k /\ mst'[k] = "running"
            BY <1>1, <1>5, <1>10, <2>1, <2>3, <2>7, <2>8 DEF OnList
        <3> QED BY <2>5, <2>6, <3>1 DEF SpotsListed
    <2>11. Screens'
        BY <1>5, <1>10, <2>8 DEF Screens, Fits
    <2>12. TakeOvers' /\ Counts' /\ \A t \in Sessions : Out(t) => Out(t)'
        BY <1>1, <1>3, <1>8, MapAnswers
    <2>13. LoggedOut'
        BY <1>5, <1>6, <1>10, <2>4, <2>12, LoggedKept DEF WInv
    <2>14. Reaps'
        <3>1. Hears(online'.sess)
            BY <1>5, <1>6, <1>10 DEF Asks, Hears
        <3> QED BY <1>1, <1>3, <3>1, StillHears, ReapsFree DEF WInv, TInv
    <2> QED BY <2>9, <2>10, <2>11, <2>12, <2>13, <2>14 DEF WInv, OneSpot
<1> QED BY <1>4, <1>9, <1>10

(* Handed on from one map to another: where what is in the mailboxes comes  *)
(* from.                                                                  *)
LEMMA MovedFrom ==
    ASSUME ActorTypes, NEW h \in Handles, mq[h] # <<>>, NEW t \in Handles, t # h,
           mq' = Put(Taken(h), t, mq[h][1])
    PROVE  /\ \A k \in Handles : \A i \in Box(k)' :
                 \/ k = t /\ i = Len(mq[t]) + 1 /\ mq'[k][i] = mq[h][1]
                 \/ LET j == IF k \in {h} THEN i + 1 ELSE i IN j \in Box(k) /\ mq'[k][i] = mq[k][j]
           /\ Taken(h) \in [Handles -> Seq(OwnEvent)] /\ Taken(h)[t] = mq[t]
           /\ \A i \in 1..Len(Taken(h)[h]) : i + 1 \in Box(h) /\ Taken(h)[h][i] = mq[h][i + 1]
           /\ \A k \in Handles : k # h => Taken(h)[k] = mq[k]
<1>1. /\ mq[h] \in Seq(OwnEvent) /\ mq[t] \in Seq(OwnEvent)
      /\ mq[h][1] \in OwnEvent
    BY HeadIs DEF ActorTypes
<1>2. /\ Tail(mq[h]) \in Seq(OwnEvent)
      /\ \A i \in 1..Len(Tail(mq[h])) : i + 1 \in 1..Len(mq[h]) /\ Tail(mq[h])[i] = mq[h][i + 1]
    BY <1>1, Tails
<1>3. /\ Taken(h) \in [Handles -> Seq(OwnEvent)] /\ Taken(h)[h] = Tail(mq[h])
      /\ \A k \in Handles : k # h => Taken(h)[k] = mq[k]
    BY <1>2 DEF Taken, ActorTypes
<1>4. /\ mq'[t] = Append(mq[t], mq[h][1])
      /\ \A k \in Handles : k # t => mq'[k] = Taken(h)[k]
    BY <1>3 DEF Put
<1>5. /\ Len(mq[t]) \in Nat /\ Len(Append(mq[t], mq[h][1])) = Len(mq[t]) + 1
      /\ \A i \in 1..Len(mq[t]) : Append(mq[t], mq[h][1])[i] = mq[t][i]
      /\ Append(mq[t], mq[h][1])[Len(mq[t]) + 1] = mq[h][1]
    BY <1>1, AppendProperties, LenProperties
<1>6. ASSUME NEW k \in Handles, NEW i \in Box(k)'
      PROVE  \/ k = t /\ i = Len(mq[t]) + 1 /\ mq'[k][i] = mq[h][1]
             \/ LET j == IF k \in {h} THEN i + 1 ELSE i IN j \in Box(k) /\ mq'[k][i] = mq[k][j]
    <2>1. CASE k = t
        BY <1>4, <1>5, <1>6, <2>1 DEF Box
    <2>2. CASE k = h
        <3>1. mq'[h] = Tail(mq[h])
            BY <1>3, <1>4
        <3>2. i \in 1..Len(Tail(mq[h]))
            BY <1>6, <2>2, <3>1 DEF Box
        <3>3. i + 1 \in Box(h) /\ mq'[h][i] = mq[h][i + 1]
            BY <1>2, <3>1, <3>2 DEF Box
        <3> QED BY <2>2, <3>3
    <2>3. CASE k # t /\ k # h
        BY <1>3, <1>4, <1>6, <2>3 DEF Box
    <2> QED BY <2>1, <2>2, <2>3
<1> QED BY <1>2, <1>3, <1>6 DEF Box

(* One on their way into a map that stopped, handed on to the next.         *)
LEMMA HandOnArrive ==
    ASSUME TInv, TInv', WInv, NEW h \in Handles, HandOn(h), mq[h][1].op = "arrive", NEW t \in Handles, t # h,
           Got(t), mq' = Put(Taken(h), t, mq[h][1]), MailGoes({h}, {<<t, mq[h][1]>>}),
           omap' = [omap EXCEPT ![mq[h][1].p.on.sess] = t], next' = [next EXCEPT ![h] = t],
           UNCHANGED <<ctl, online, reply>>
    PROVE  WInv'
<1>1. Still /\ UNCHANGED <<players, leaving>> /\ mst[h] = "handing" /\ mq[h] # <<>>
    BY MapsLeave DEF Map, Still, HandOn
<1>2. 1 \in Box(h) /\ mq[h][1] \in OwnEvent
    BY HandOnTyped
<1>3. /\ \A k \in Handles, c \in Chars : ~Here(k, c)
      /\ \A k \in Handles : \A i \in Box(k) : mq[k][i].op = "arrive" => k = h /\ i = 1
      /\ \A s \in Sessions : \A i \in Words(s) : ctl[s][i].op # "transfer"
      /\ \A s \in Sessions : passing[s] = None
      /\ \A s \in Sessions : phase[s] # "arriving"
      /\ \A k \in Handles : leaving[k] = None
      /\ online # None /\ mq[h][1].p.on = online /\ omap[online.sess] = h
    BY <1>2, ComingAlone
<1>4. /\ Taken(h) \in [Handles -> Seq(OwnEvent)]
      /\ \A i \in 1..Len(Taken(h)[h]) : i + 1 \in Box(h) /\ Taken(h)[h][i] = mq[h][i + 1]
      /\ \A k \in Handles : k # h => Taken(h)[k] = mq[k]
    BY <1>1, MovedFrom DEF TInv, Types
<1>5. NoneIn(Taken(h))
    <2> SUFFICES ASSUME NEW k \in Handles, NEW i \in 1..Len(Taken(h)[k]), Taken(h)[k][i].op = "arrive"
                 PROVE  FALSE
        BY DEF NoneIn
    <2>1. CASE k = h
        BY <1>3, <1>4, <2>1
    <2>2. CASE k # h
        BY <1>3, <1>4, <2>2 DEF Box
    <2> QED BY <2>1, <2>2
<1>6. PICK e \in OwnEvent : e = mq[h][1]
    BY <1>2
<1>7. PICK n : OnlyIn(mq', t, n, e)
    BY <1>4, <1>5, <1>6, PutOne
<1>8. WordsGo({}, {})
    BY WordsSame DEF TInv, Types
<1>9. /\ \A k \in Handles, c \in Chars : ~Here(k, c)'
      /\ \A s \in Sessions : \A i \in Words(s)' : ctl'[s][i].op # "transfer"
      /\ \A s \in Sessions : passing'[s] = None /\ phase'[s] # "arriving"
      /\ \A k \in Handles : leaving'[k] = None
    BY <1>1, <1>3 DEF Here, Words, Still
<1>10. omap'[online.sess] = t
    BY <1>3, EntryIs DEF TInv, Types, RegTypes
<1>11. OneSpot' /\ SpotsListed'
    BY <1>3, <1>6, <1>9, <1>10, <1>7, MailedNow
<1>12. \A x \in {<<t, mq[h][1]>>} : x[2].op \notin {"takeover", "reap"}
    OBVIOUS
<1>13. Answers
    BY <1>12, AnswersAre
<1>14. Screens' /\ TakeOvers' /\ Counts' /\ \A s \in Sessions : Out(s) => Out(s)'
    BY <1>1, <1>12, <1>13, MapScreens, MapAnswers
<1>15. LoggedOut'
    BY <1>8, <1>14, LoggedKept DEF WInv
<1>16. /\ \A k \in Handles : mst[k] # "unborn" => mst'[k] = mst[k]
       /\ mst[t] \in {"unborn", "running", "stopping", "standin"}
    BY DEF Got
<1>17. next'[h] = t /\ \A k \in Handles : k # h => next'[k] = next[k]
    BY DEF TInv, Types, ActorTypes
<1>18. ASSUME NEW k \in Handles, NEW i, k # t, Leads(k, t)'
       PROVE  Near(k, i)'
    BY <1>9, <1>18, <1>7 DEF Near, OnlyIn, Box
<1>19. ASSUME NEW k \in Handles, NEW j, Reaped(k, j), online = mq[k][j].e, k # h
       PROVE  Dead(k)'
    <2>1. Dead(k) \/ Near(k, j)
        BY <1>3, <1>19 DEF Reaped
    <2>2. Near(k, j) => Dead(k)
        <3>1. Near(k, j) => Leads(k, h)
            BY <1>2, <1>19 DEF Near
        <3> QED BY <1>1, <1>19, <3>1, HandleIs DEF Leads, Dead, Open
    <2>3. next[k] \in Handles \cup {None} /\ (next[k] # None => mst'[next[k]] = mst[next[k]])
        BY <1>16 DEF TInv, Types, ActorTypes, Born
    <2> QED BY <1>16, <1>17, <1>19, <2>1, <2>2, <2>3 DEF Dead, Open
<1>20. Reaps'
    <2>1. \A k \in Handles : \A i \in Box(k)' : LET j == IF k \in {h} THEN i + 1 ELSE i IN
             mq'[k][i].op = "reap" /\ j \in Box(k) /\ mq'[k][i] = mq[k][j] /\ Reaped(k, j)
             /\ online' # None /\ online' = mq[k][j].e => Dead(k)' \/ Near(k, i)'
        <3> SUFFICES ASSUME NEW k \in Handles, NEW i \in Box(k)', NEW j, Reaped(k, j), online = mq[k][j].e
                     PROVE  Dead(k)' \/ Near(k, i)'
            OBVIOUS
        <3>1. CASE k = h
            <4>1. Leads(h, t)'
                BY <1>1, <1>16, <1>17 DEF Leads
            <4> QED BY <1>6, <1>18, <3>1, <4>1
        <3>2. CASE k # h
            BY <1>19, <3>2
        <3> QED BY <3>1, <3>2
    <2> QED BY <1>1, <1>12, <2>1, StillHears, ReapsMoved DEF WInv, TInv
<1> QED BY <1>11, <1>14, <1>15, <1>20 DEF WInv

(* What else is handed on but a take-over or a reap is as if it came there. *)
LEMMA HandOnTakeOver ==
    ASSUME TInv, WInv, NEW h \in Handles, 1 \in Box(h), NEW t \in Handles,
           \A k \in Handles : \A i \in Box(k)' :
               \/ k = t /\ i = Len(mq[t]) + 1 /\ mq'[k][i] = mq[h][1]
               \/ LET j == IF k \in {h} THEN i + 1 ELSE i IN j \in Box(k) /\ mq'[k][i] = mq[k][j],
           UNCHANGED <<phase, goal, logins, reply>>
    PROVE  TakeOvers'
<1> DEFINE From(k, i, l, j) == l \in Handles /\ j \in Box(l) /\ mq'[k][i] = mq[l][j]
                              /\ \/ k = t /\ i = Len(mq[t]) + 1 /\ l = h /\ j = 1
                                 \/ l = k /\ j = (IF k = h THEN i + 1 ELSE i)
<1>1. \A k \in Handles : \A i \in Box(k)' : \E l \in Handles : \E j \in Box(l) : From(k, i, l, j)
    <2> SUFFICES ASSUME NEW k \in Handles, NEW i \in Box(k)'
                 PROVE  \E l \in Handles : \E j \in Box(l) : From(k, i, l, j)
        OBVIOUS
    <2>1. CASE k = t /\ i = Len(mq[t]) + 1 /\ mq'[k][i] = mq[h][1]
        BY <2>1
    <2>2. CASE LET j == IF k \in {h} THEN i + 1 ELSE i IN j \in Box(k) /\ mq'[k][i] = mq[k][j]
        BY <2>2
    <2> QED BY <2>1, <2>2
<1>2. ASSUME NEW k \in Handles, NEW i \in Box(k)', NEW k2 \in Handles, NEW i2 \in Box(k2)',
             NEW l, NEW j, From(k, i, l, j), From(k2, i2, l, j)
      PROVE  k2 = k /\ i2 = i
    BY <1>2, BoxIntNext
<1> HIDE DEF From
<1> SUFFICES ASSUME NEW k \in Handles, NEW i \in Box(k)', mq'[k][i].op = "takeover"
             PROVE  AskedBy(k, i)'
    BY DEF TakeOvers, WInv
<1>3. PICK l \in Handles : \E j \in Box(l) : From(k, i, l, j)
    BY <1>1
<1>4. PICK j \in Box(l) : From(k, i, l, j)
    BY <1>3
<1>5. mq'[k][i] = mq[l][j]
    BY <1>4 DEF From
<1>6. AskedBy(l, j)
    BY <1>5 DEF WInv, TakeOvers
<1>7. PICK e \in Entry : e = mq'[k][i].new /\ e = mq[l][j].new
    <2>1. mq[l] \in Seq(OwnEvent)
        BY DEF TInv, Types, ActorTypes
    <2> QED BY <1>5, <2>1, ElementOfSeq, EventIs DEF Box
<1>8. Asks(e.sess)' /\ e.g = goal'[e.sess] /\ e.n = logins'[e.sess]
    BY <1>6, <1>7 DEF AskedBy, Asks
<1>9. \A k2 \in Handles : \A i2 \in Box(k2)' :
          mq'[k2][i2].op = "takeover" /\ mq'[k2][i2].new.sess = e.sess => k2 = k /\ i2 = i
    <2> SUFFICES ASSUME NEW k2 \in Handles, NEW i2 \in Box(k2)', mq'[k2][i2].op = "takeover",
                        mq'[k2][i2].new.sess = e.sess
                 PROVE  k2 = k /\ i2 = i
        OBVIOUS
    <2>1. PICK l2 \in Handles : \E j2 \in Box(l2) : From(k2, i2, l2, j2)
        BY <1>1
    <2>2. PICK j2 \in Box(l2) : From(k2, i2, l2, j2)
        BY <2>1
    <2>3. mq'[k2][i2] = mq[l2][j2]
        BY <2>2 DEF From
    <2>4. l2 = l /\ j2 = j
        BY <1>6, <1>7, <2>3 DEF AskedBy
    <2> QED BY <1>2, <1>4, <2>2, <2>4
<1> QED BY <1>7, <1>8, <1>9 DEF AskedBy, Asks

LEMMA HandOnReap ==
    ASSUME TInv, WInv, NEW h \in Handles, 1 \in Box(h), mst[h] = "handing", NEW t \in Handles, t # h,
           next[h] = t, Open(t), mq[h][1].op = "reap", MailGoes({h}, {<<t, mq[h][1]>>}), WordsGo({}, {}),
           \A k \in Handles : \A i \in Box(k)' :
               \/ k = t /\ i = Len(mq[t]) + 1 /\ mq'[k][i] = mq[h][1]
               \/ LET j == IF k \in {h} THEN i + 1 ELSE i IN j \in Box(k) /\ mq'[k][i] = mq[k][j],
           UNCHANGED <<players, leaving, passing, phase, online, mst, next>>
    PROVE  Reaps'
<1>1. SpotsGo({h}, {}, {<<t, mq[h][1]>>}, {})
    BY DEF SpotsGo, Here
<1>2. MapsGo /\ Heard
    BY MapsSame DEF Heard, Hears
<1> SUFFICES ASSUME NEW k \in Handles, NEW i \in Box(k)', mq'[k][i].op = "reap"
             PROVE  Reaped(k, i)'
    BY DEF Reaps
<1>3. CASE LET j == IF k \in {h} THEN i + 1 ELSE i IN j \in Box(k) /\ mq'[k][i] = mq[k][j]
    BY <1>1, <1>2, <1>3, ReapedKept DEF WInv, TInv
<1>4. CASE k = t /\ i = Len(mq[t]) + 1 /\ mq'[k][i] = mq[h][1]
    <2>1. Reaped(h, 1)
        BY DEF WInv, Reaps
    <2>2. PICK e \in Entry : e = mq[h][1].e /\ e.sess \in Sessions
        <3>1. mq[h] \in Seq(OwnEvent)
            BY DEF TInv, Types, ActorTypes
        <3> QED BY <3>1, ElementOfSeq, EventIs, EntryIs DEF Box
    <2>3. ~Hears(e.sess)'
        BY <1>2, <2>1, <2>2 DEF Reaped, Heard
    <2>4. ASSUME online # None, online = e
          PROVE  Near(t, i)'
        <3>1. Near(h, 1)
            BY <2>1, <2>2, <2>4, HandleIs DEF Reaped, Dead
        <3>2. \A l \in Handles : Leads(h, l) => l = h \/ l = t
            BY DEF Leads
        <3>3. \A l \in Handles, g \in Chars : Here(l, g)' => Leads(t, l)'
            BY <3>1, <3>2 DEF Near, Here, Leads, WInv, SpotsListed
        <3>4. \A l \in Handles : leaving'[l] # None => Leads(t, l)'
            BY <3>1, <3>2 DEF Near, Leads, WInv, SpotsListed
        <3>5. ASSUME NEW l \in Handles, NEW j \in Box(l)', mq'[l][j].op = "arrive"
              PROVE  IF l = t THEN j < i ELSE Leads(t, l)'
            <4>1. PICK u : u = (IF l \in {h} THEN j + 1 ELSE j) /\ u \in Box(l) /\ mq'[l][j] = mq[l][u]
                BY <3>5
            <4>2. IF l = h THEN u < 1 ELSE Leads(h, l)
                BY <3>1, <3>5, <4>1 DEF Near
            <4>3. l = t
                BY <3>2, <4>1, <4>2, BoxInt
            <4>4. mq[t] \in Seq(OwnEvent)
                BY DEF TInv, Types, ActorTypes
            <4> QED BY <1>4, <4>1, <4>3, <4>4, LenProperties DEF Box
        <3>6. \A s \in Sessions : passing'[s] = None
            BY <3>1 DEF Near
        <3>7. \A s \in Sessions : \A j \in Words(s)' : ctl'[s][j].op # "transfer"
            BY <3>1, WordFrom DEF Near
        <3> QED BY <3>3, <3>4, <3>5, <3>6, <3>7 DEF Near
    <2> QED BY <1>4, <2>2, <2>3, <2>4 DEF Reaped, Hears
<1> QED BY <1>3, <1>4

LEMMA HandOnStep ==
    ASSUME TInv, TInv', WInv, NEW h \in Handles, HandOn(h)
    PROVE  WInv'
<1>1. /\ Still /\ UNCHANGED <<phase, goal, logins, passing, players, leaving>>
      /\ mst[h] = "handing" /\ mq[h] # <<>>
    BY MapsLeave DEF Map, Still, HandOn
<1>2. next[h] \in Handles /\ mq[h][1] \in OwnEvent /\ 1 \in Box(h)
    BY HandOnTyped
<1>3. CASE mq[h][1].op = "arrive"
    <2>1. reply' = reply
        BY <1>3, HandOnTyped
    <2>2. ASSUME LetGo(mq[h][1], ctl), MailGoes({h}, {}), WordsGo({}, {<<mq[h][1].p.on.sess, [op |-> "kick"]>>})
          PROVE  WInv'
        BY <1>1, <1>2, <1>3, <2>1, <2>2, LetGoGone
    <2>3. ASSUME LET t == TakenBy(next[h]) IN
                 /\ Got(t) /\ t # h /\ MailGoes({h}, {<<t, mq[h][1]>>})
                 /\ mq' = Put(Taken(h), t, mq[h][1])
                 /\ omap' = [omap EXCEPT ![mq[h][1].p.on.sess] = t]
                 /\ next' = [next EXCEPT ![h] = t] /\ UNCHANGED <<ctl, online>>
          PROVE  WInv'
        <3>1. PICK t \in Handles : t = TakenBy(next[h])
            BY <2>3 DEF Got
        <3> QED BY <1>3, <2>1, <2>3, <3>1, HandOnArrive
    <2> QED BY <1>3, <2>2, <2>3, HandOnTyped
<1>4. CASE mq[h][1].op # "arrive"
    <2>1. UNCHANGED <<mst, next, omap, ctl, online>>
        BY <1>4, HandOnTyped
    <2>2. WordsGo({}, {}) /\ Alike /\ MapsGo
        BY <1>1, <2>1, WordsSame, AlikeIs, MapsSame DEF TInv, Types
    <2>3. ASSUME MailGoes({h}, {})
          PROVE  WInv'
        <3>1. reply' \in {reply, Unanswered(<<mq[h][1]>>)}
            BY <1>4, HandOnTyped
        <3>2. Answers
            BY <1>2, <2>3, <3>1, AnswersAre
        <3> QED BY <1>1, <2>1, <2>2, <2>3, <3>2, MapStep
    <2>4. ASSUME Open(next[h]), next[h] # h, mq' = Put(Taken(h), next[h], mq[h][1]),
                 MailGoes({h}, {<<next[h], mq[h][1]>>}), reply' = reply
          PROVE  WInv'
        <3>1. PICK t \in Handles : t = next[h]
            BY <1>2
        <3>2. Open(t) /\ t # h /\ MailGoes({h}, {<<t, mq[h][1]>>}) /\ mq' = Put(Taken(h), t, mq[h][1])
            BY <2>4, <3>1
        <3>3. \A k \in Handles : \A i \in Box(k)' :
                 \/ k = t /\ i = Len(mq[t]) + 1 /\ mq'[k][i] = mq[h][1]
                 \/ LET j == IF k \in {h} THEN i + 1 ELSE i IN j \in Box(k) /\ mq'[k][i] = mq[k][j]
            BY <1>1, <3>2, MovedFrom DEF TInv, Types
        <3>4. CASE mq[h][1].op \notin {"takeover", "reap"}
            <4>1. \A x \in {<<t, mq[h][1]>>} : x[2].op \notin {"arrive", "takeover", "reap"}
                BY <1>4, <3>4
            <4> QED BY <1>1, <2>1, <2>2, <2>4, <3>2, <4>1, MapQuiet
        <3>5. CASE mq[h][1].op \in {"takeover", "reap"}
            <4>1. SpotsGo({h}, {}, {<<t, mq[h][1]>>}, {})
                BY <1>1, <1>4, <2>2, <3>2 DEF SpotsGo, Here
            <4>2. ListGoes
                BY <1>1, <2>1 DEF ListGoes
            <4>3. OneSpot' /\ SpotsListed'
                BY <4>1, <4>2, SpotsKept, ListedKept DEF WInv
            <4>4. /\ \A s \in Sessions : (Fits(s) => Fits(s)') /\ (Out(s) => Out(s)')
                  /\ online' = online
                BY <1>1, <2>1, <2>4 DEF Fits, Out, Still
            <4>5. Screens'
                BY <1>1, <2>1, <2>4 DEF WInv, Screens, Fits, Still
            <4>6. LoggedOut'
                BY <2>2, <4>4, LoggedKept DEF WInv
            <4>7. TakeOvers' /\ Reaps'
                <5>1. CASE mq[h][1].op = "takeover"
                    <6>1. TakeOvers'
                        BY <1>1, <1>2, <2>4, <3>3, HandOnTakeOver
                    <6>2. \A x \in {<<t, mq[h][1]>>} : x[2].op # "reap"
                        BY <5>1
                    <6> QED BY <1>1, <2>1, <2>2, <4>1, <6>1, <6>2, StillHears, ReapsKept DEF WInv, TInv
                <5>2. CASE mq[h][1].op = "reap"
                    <6>1. Reaps'
                        BY <1>1, <1>2, <2>1, <2>2, <3>1, <3>2, <3>3, <5>2, HandOnReap
                    <6>2. \A x \in {<<t, mq[h][1]>>} : x[2].op # "takeover"
                        BY <5>2
                    <6>3. Answers
                        BY <2>4 DEF Answers
                    <6> QED BY <1>1, <3>2, <6>1, <6>2, <6>3, MapAnswers
                <5> QED BY <3>5, <5>1, <5>2
            <4> QED BY <1>1, <4>3, <4>5, <4>6, <4>7 DEF WInv, Counts
        <3> QED BY <3>4, <3>5
    <2> QED BY <1>4, <2>3, <2>4, HandOnTyped
<1> QED BY <1>3, <1>4

(* A player teleported: to their session, or, that gone, on to the map.     *)
LEMMA TeleportStep ==
    ASSUME TInv, TInv', WInv, NoneMissed', NEW h \in Handles, NEW g \in Chars, NEW k \in Keys, Teleport(h, g, k)
    PROVE  WInv'
<1>1. Still /\ UNCHANGED <<next, leaving, online, reply>>
    BY MapsLeave DEF Doings, Still, Teleport
<1>2. Here(h, g) /\ players[h][g] \in OwnPlayer /\ PlayerNow(h, g, None) /\ ~ReapWaits(g)
    BY TeleportTyped DEF Teleport, Lost, NoneMissed
<1>3. /\ \A j \in Handles, c \in Chars : Here(j, c) => j = h /\ c = g
      /\ \A j \in Handles : \A i \in Box(j) : mq[j][i].op # "arrive"
      /\ \A t \in Sessions : \A i \in Words(t) : ctl[t][i].op # "transfer"
      /\ \A t \in Sessions : passing[t] = None
      /\ \A t \in Sessions : phase[t] # "arriving"
      /\ \A j \in Handles : leaving[j] = None
      /\ online # None /\ players[h][g].on = online /\ online.g = g
    BY <1>2, HereAlone
<1>4. PICK p \in OwnPlayer, s \in Sessions : p = players[h][g] /\ p.on = online /\ s = online.sess
    BY <1>2, <1>3, OwnIs
<1>5. /\ \A j \in Handles, c \in Chars : ~Here(j, c)'
      /\ \A t \in Sessions : passing'[t] = None /\ phase'[t] # "arriving"
      /\ \A j \in Handles : leaving'[j] = None
    BY <1>1, <1>2, <1>3 DEF PlayerNow, Here, Still
<1>6. ASSUME Hears(s), MailGoes({}, {}), UNCHANGED <<mst, omap, mq>>,
             WordsGo({}, {<<s, [op |-> "transfer", p |-> p, to |-> k]>>})
      PROVE  WInv'
    <2>1. PICK w \in OwnWord : w = [op |-> "transfer", p |-> p, to |-> k]
        BY TransferSent
    <2>2. ctl' = [ctl EXCEPT ![s] = Append(@, w)]
        BY <1>4, <1>6, <2>1 DEF Teleport, Tell
    <2>3. ctl[s] \in Seq(OwnWord)
        BY DEF TInv, Types, SessTypes
    <2>4. PICK n : n = Len(ctl[s]) + 1
        OBVIOUS
    <2>5. /\ ctl'[s] = Append(ctl[s], w) /\ Words(s)' = 1..n /\ n \in Nat
          /\ \A i \in Words(s) : ctl'[s][i] = ctl[s][i]
          /\ ctl'[s][n] = w
          /\ \A t \in Sessions : t # s => ctl'[t] = ctl[t]
        <3>1. ctl'[s] = Append(ctl[s], w) /\ \A t \in Sessions : t # s => ctl'[t] = ctl[t]
            BY <2>2 DEF TInv, Types, SessTypes
        <3> QED BY <2>3, <2>4, <3>1, AppendProperties, LenProperties DEF Words
    <2>6. \A t \in Sessions : \A i \in Words(t)' : ctl'[t][i].op = "transfer" => t = s /\ i = n
        <3> SUFFICES ASSUME NEW t \in Sessions, NEW i \in Words(t)', ctl'[t][i].op = "transfer", ~(t = s /\ i = n)
                     PROVE  FALSE
            OBVIOUS
        <3>1. i \in Words(t) /\ ctl'[t][i] = ctl[t][i]
            <4>1. CASE t = s
                <5>1. i \in 1..n /\ i # n
                    BY <2>5, <4>1
                <5>2. i \in Words(s)
                    BY <2>3, <2>4, <5>1, LenProperties DEF Words
                <5> QED BY <2>5, <4>1, <5>2
            <4>2. CASE t # s
                BY <2>5, <4>2 DEF Words
            <4> QED BY <4>1, <4>2
        <3> QED BY <1>3, <3>1
    <2>7. \A j \in Handles : \A i \in Box(j)' : mq'[j][i].op # "arrive"
        BY <1>3, <1>6 DEF Box
    <2>8. AllAt("word", s, n)'
        BY <1>5, <2>6, <2>7 DEF AllAt
    <2>9. SpotsListed'
        <3>1. \A t \in Sessions : \A i \in Words(t)' : ctl'[t][i].op = "transfer" =>
                 OnList(ctl[t][i].p)' /\ online'.sess = t
            <4>1. w.p = p
                BY <2>1
            <4>2. OnList(ctl[s][n].p)' /\ online'.sess = s
                BY <1>1, <1>3, <1>4, <2>5, <4>1 DEF OnList
            <4> QED BY <2>6, <4>2
        <3> QED BY <1>5, <2>7, <3>1 DEF SpotsListed
    <2>10. Answers
        BY <1>1, <1>6, AnswersAre
    <2>11. Screens' /\ TakeOvers' /\ Counts' /\ \A t \in Sessions : Out(t) => Out(t)'
        BY <1>1, <1>6, <2>10, MapScreens, MapAnswers
    <2>12. LoggedOut'
        <3>1. \A x \in {<<s, [op |-> "transfer", p |-> p, to |-> k]>>} : x[2].op # "loggedout"
            OBVIOUS
        <3> QED BY <1>1, <1>6, <2>11, <3>1, LoggedKept DEF WInv
    <2>13. Reaps'
        BY <1>1, <1>4, <1>6, StillHears, ReapsFree DEF WInv, TInv
    <2> QED BY <2>8, <2>9, <2>11, <2>12, <2>13 DEF WInv, OneSpot
<1>7. ASSUME Got(Target(k)), WordsGo({}, {}), omap' = [omap EXCEPT ![s] = Target(k)],
             UNCHANGED ctl,
             mq' = Put(Put(mq, Target(k), Transferred(p)), Target(k), [op |-> "disconnect", g |-> g, sess |-> s]),
             MailGoes({}, {<<Target(k), Transferred(p)>>, <<Target(k), [op |-> "disconnect", g |-> g, sess |-> s]>>})
      PROVE  WInv'
    <2>1. PICK t \in Handles : t = Target(k)
        BY <1>7 DEF Got
    <2>2. PICK a \in OwnEvent : a = Transferred(p) /\ a.op = "arrive" /\ a.p = p
        BY ArriveSent DEF Transferred
    <2>3. PICK d \in OwnEvent : d = [op |-> "disconnect", g |-> g, sess |-> s] /\ d.op = "disconnect"
        BY GoingSent
    <2>4. mq \in [Handles -> Seq(OwnEvent)] /\ NoneIn(mq)
        BY <1>3 DEF TInv, Types, ActorTypes, NoneIn, Box
    <2>5. PICK n : Put(mq, t, a) \in [Handles -> Seq(OwnEvent)] /\ OnlyIn(Put(mq, t, a), t, n, a)
        BY <2>4, PutOne
    <2>6. OnlyIn(mq', t, n, a)
        <3>1. mq' = Put(Put(mq, t, a), t, d)
            BY <1>7, <2>1, <2>2, <2>3
        <3>2. OnlyIn(Put(Put(mq, t, a), t, d), t, n, a)
            BY <2>3, <2>5, PutOther
        <3> QED BY <3>1, <3>2
    <2>7. \A r \in Sessions : \A i \in Words(r)' : ctl'[r][i].op # "transfer"
        BY <1>3, <1>7 DEF Words
    <2>8. omap'[online.sess] = t
        BY <1>4, <1>7, <2>1 DEF TInv, Types, RegTypes
    <2>9. OneSpot' /\ SpotsListed'
        BY <1>1, <1>3, <1>4, <1>5, <2>2, <2>6, <2>7, <2>8, MailedNow
    <2>10. MailGoes({}, {<<t, a>>, <<t, d>>}) /\ \A x \in {<<t, a>>, <<t, d>>} : x[2].op \notin {"takeover", "reap"}
        BY <1>7, <2>1, <2>2, <2>3
    <2>11. Answers
        BY <1>1, <2>10, AnswersAre
    <2>12. Screens' /\ TakeOvers' /\ Counts' /\ \A r \in Sessions : Out(r) => Out(r)'
        BY <1>1, <2>10, <2>11, MapScreens, MapAnswers
    <2>13. LoggedOut'
        BY <1>1, <1>7, <2>12, LoggedKept DEF WInv
    <2>14. Reaps'
        <3>1. \A j \in Handles : \A i \in Box(j)' : LET l == IF j \in {} THEN i + 1 ELSE i IN
                 mq'[j][i].op = "reap" /\ l \in Box(j) /\ mq'[j][i] = mq[j][l] /\ Reaped(j, l)
                 /\ online' # None /\ online' = mq[j][l].e => Dead(j)' \/ Near(j, i)'
            <4> SUFFICES ASSUME NEW j \in Handles, NEW l \in Box(j), mq[j][l].op = "reap", online = mq[j][l].e
                         PROVE  FALSE
                BY <1>1
            <4> QED BY <1>2, <1>3 DEF ReapWaits, Box
        <3> QED BY <1>1, <2>10, <3>1, StillHears, ReapsMoved DEF WInv, TInv
    <2> QED BY <2>9, <2>12, <2>13, <2>14 DEF WInv
<1>8. \/ /\ Hears(s) /\ MailGoes({}, {})
         /\ WordsGo({}, {<<s, [op |-> "transfer", p |-> p, to |-> k]>>})
         /\ UNCHANGED <<mst, omap, mq>>
      \/ /\ ~Hears(s) /\ Got(Target(k)) /\ WordsGo({}, {})
         /\ omap' = [omap EXCEPT ![s] = Target(k)]
         /\ mq' = Put(Put(mq, Target(k), Transferred(p)), Target(k), [op |-> "disconnect", g |-> g, sess |-> s])
         /\ MailGoes({}, {<<Target(k), Transferred(p)>>, <<Target(k), [op |-> "disconnect", g |-> g, sess |-> s]>>})
    <2>1. LET q == players[h][g]  t == Target(k) IN
             \/ /\ Hears(q.on.sess) /\ MailGoes({}, {})
                /\ WordsGo({}, {<<q.on.sess, [op |-> "transfer", p |-> q, to |-> k]>>})
                /\ UNCHANGED <<mst, omap, mq>>
             \/ /\ ~Hears(q.on.sess) /\ Got(t) /\ WordsGo({}, {})
                /\ omap' = [omap EXCEPT ![q.on.sess] = t]
                /\ mq' = Put(Put(mq, t, Transferred(q)), t, [op |-> "disconnect", g |-> g, sess |-> q.on.sess])
                /\ MailGoes({}, {<<t, Transferred(q)>>, <<t, [op |-> "disconnect", g |-> g, sess |-> q.on.sess]>>})
        BY TeleportTyped
    <2>2. players[h][g] = p /\ p.on.sess = s
        BY <1>4
    <2> QED BY <2>1, <2>2
<1>9. ~Hears(s) => UNCHANGED ctl
    BY <1>4 DEF Teleport
<1> QED BY <1>6, <1>7, <1>8, <1>9

LEMMA MapKept ==
    ASSUME TInv, TInv', WInv, NoneMissed', NEW h \in Handles, Map(h) \/ Doings(h)
    PROVE  WInv'
<1>1. CASE LeaveDone(h) \/ HandleArrive(h) \/ HandleLogout(h) \/ HandleGone(h)
    BY <1>1, LeaveDoneStep, HandleArriveStep, LogoutStep, GoneStep
<1>2. CASE HandleReap(h) \/ HandleTakeOver(h) \/ HandleHandedOn(h) \/ HandleStop(h)
    BY <1>2, HandleReapStep, TakeOverStep, HandedStep, StopStep
<1>3. CASE Finish(h) \/ HandGet(h) \/ HandOn(h) \/ HandedOn(h) \/ LetGoEach(h) \/ LetGone(h)
    BY <1>3, FinishStep, HandGetStep, HandOnStep, HandedOnStep, LetGoEachStep, LetGoneStep
<1>4. CASE \E g \in Chars : LogoutDue(h, g) \/ LingerEnd(h, g) \/ SendToScreen(h, g)
    BY <1>4, GoesStep
<1>5. CASE \E g \in Chars : Progress(h, g) \/ SaveDue(h, g)
    BY <1>5, DoingsQuiet
<1>6. CASE \E g \in Chars : \E k \in Keys : Teleport(h, g, k)
    BY <1>6, TeleportStep
<1>7. CASE Unload(h)
    BY <1>7, UnloadStep
<1> QED BY <1>1, <1>2, <1>3, <1>4, <1>5, <1>6, <1>7 DEF Map, Doings

LEMMA WInvInit == Init => WInv
<1> SUFFICES ASSUME Init
             PROVE  WInv
    OBVIOUS
<1>1. /\ \A h \in Handles : Box(h) = {}
      /\ \A s \in Sessions : Words(s) = {}
    BY DEF Init, Box, Words
<1>2. NoSpots
    BY <1>1 DEF Init, NoSpots, AllAt, Here
<1>3. OneSpot /\ SpotsListed
    BY <1>2, NoneListed
<1>4. Screens /\ LoggedOut /\ Reaps
    BY <1>1 DEF Init, Screens, LoggedOut, Reaps
<1>5. TakeOvers
    BY <1>1 DEF Init, TakeOvers
<1>6. Counts
    BY WorldAssumption DEF Init, Counts
<1> QED BY <1>3, <1>4, <1>5, <1>6 DEF WInv

LEMMA WInvNext == TInv /\ TInv' /\ WInv /\ NoneMissed' /\ [Next]_vars => WInv'
<1> SUFFICES ASSUME TInv, TInv', WInv, NoneMissed', [Next]_vars
             PROVE  WInv'
    OBVIOUS
<1>1. ASSUME NEW s \in Sessions, Session(s) \/ Client(s) \/ Kick(s)
      PROVE  WInv'
    BY <1>1, SessionKept
<1>2. ASSUME NEW h \in Handles, Map(h) \/ Doings(h)
      PROVE  WInv'
    BY <1>2, MapKept
<1>3. CASE Realm
    BY <1>3, RealmQuiet DEF Realm
<1>4. CASE UNCHANGED vars
    <2>1. /\ \A h \in Handles : Box(h)' = Box(h) /\ mq'[h] = mq[h]
          /\ \A s \in Sessions : Words(s)' = Words(s) /\ ctl'[s] = ctl[s]
        BY <1>4 DEF vars, actorV, sessV, Box, Words
    <2>2. UNCHANGED <<closed, mst, players, leaving, next, online, omap, phase, state, goal, reply, passing, logins>>
        BY <1>4 DEF vars, mapsV, actorV, regV, sessV
    <2>3. OneSpot'
        <3>1. PICK k, x, y : AllAt(k, x, y)
            BY DEF WInv, OneSpot
        <3>2. AllAt(k, x, y)'
            BY <2>1, <2>2, <3>1 DEF AllAt, Here
        <3> QED BY <3>2 DEF OneSpot
    <2>4. SpotsListed'
        BY <2>1, <2>2 DEF WInv, SpotsListed, OnList, Here
    <2>5. Screens' /\ LoggedOut' /\ Counts'
        BY <2>1, <2>2 DEF WInv, Screens, Fits, LoggedOut, Out, Counts
    <2>6. TakeOvers'
        BY <2>1, <2>2 DEF WInv, TakeOvers, AskedBy, Asks
    <2>7. Reaps'
        BY <2>1, <2>2 DEF WInv, Reaps, Reaped, Dead, Near, Leads, Here, Hears, Open
    <2> QED BY <2>3, <2>4, <2>5, <2>6, <2>7 DEF WInv
<1> QED BY <1>1, <1>2, <1>3, <1>4 DEF Next

LEMMA AtMostOne ==
    ASSUME NEW S, NEW e, S \subseteq {e}
    PROVE  Cardinality(S) \in {0, 1}
<1>1. S = {} \/ S = {e}
    OBVIOUS
<1> QED BY <1>1, FS_EmptySet, FS_Singleton

LEMMA OneSpotPlace == TInv /\ OneSpot => OnePlace
<1> SUFFICES ASSUME TInv, OneSpot
             PROVE  OnePlace
    OBVIOUS
<1>1. PICK k, x, y : AllAt(k, x, y)
    BY DEF OneSpot
<1>2. ASSUME NEW o \in InMap
      PROVE  k = "map" /\ o = <<x, y>>
    BY <1>1, <1>2 DEF AllAt, InMap
<1>3. ASSUME NEW o \in InMail
      PROVE  k = "mail" /\ o = <<x, y>>
    <2>1. PICK h \in Handles : o \in {h} \X DOMAIN mq[h]
        BY <1>3 DEF InMail
    <2>2. mq[h] \in Seq(OwnEvent)
        BY DEF TInv, Types, ActorTypes
    <2>3. o = <<h, o[2]>> /\ o[2] \in Box(h) /\ mq[h][o[2]].op = "arrive"
        BY <1>3, <2>1, <2>2, LenProperties DEF InMail, Box
    <2> QED BY <1>1, <2>3 DEF AllAt
<1>4. ASSUME NEW o \in InWords
      PROVE  k = "word" /\ o = <<x, y>>
    <2>1. PICK s \in Sessions : o \in {s} \X DOMAIN ctl[s]
        BY <1>4 DEF InWords
    <2>2. ctl[s] \in Seq(OwnWord)
        BY DEF TInv, Types, SessTypes
    <2>3. o = <<s, o[2]>> /\ o[2] \in Words(s) /\ ctl[s][o[2]].op = "transfer"
        BY <1>4, <2>1, <2>2, LenProperties DEF InWords, Words
    <2> QED BY <1>1, <2>3 DEF AllAt
<1>5. ASSUME NEW o \in InPass
      PROVE  k = "pass" /\ o = x
    BY <1>1, <1>5 DEF AllAt, InPass
<1>6. /\ Cardinality(InMap) \in {0, 1} /\ (k # "map" => Cardinality(InMap) = 0)
    <2>1. InMap \subseteq {<<x, y>>}
        BY <1>2
    <2>2. k # "map" => InMap = {}
        BY <1>2
    <2> QED BY <2>1, <2>2, AtMostOne, FS_EmptySet
<1>7. /\ Cardinality(InMail) \in {0, 1} /\ (k # "mail" => Cardinality(InMail) = 0)
    <2>1. InMail \subseteq {<<x, y>>}
        BY <1>3
    <2>2. k # "mail" => InMail = {}
        BY <1>3
    <2> QED BY <2>1, <2>2, AtMostOne, FS_EmptySet
<1>8. /\ Cardinality(InWords) \in {0, 1} /\ (k # "word" => Cardinality(InWords) = 0)
    <2>1. InWords \subseteq {<<x, y>>}
        BY <1>4
    <2>2. k # "word" => InWords = {}
        BY <1>4
    <2> QED BY <2>1, <2>2, AtMostOne, FS_EmptySet
<1>9. /\ Cardinality(InPass) \in {0, 1} /\ (k # "pass" => Cardinality(InPass) = 0)
    <2>1. InPass \subseteq {x}
        BY <1>5
    <2>2. k # "pass" => InPass = {}
        BY <1>5
    <2> QED BY <2>1, <2>2, AtMostOne, FS_EmptySet
<1> QED BY <1>6, <1>7, <1>8, <1>9 DEF OnePlace, Places

LEMMA SpotsOnline == TInv /\ SpotsListed => InWorldIsOnline
<1> SUFFICES ASSUME TInv, SpotsListed, NEW p \in ThePlayers
             PROVE  p.on = online
    BY DEF InWorldIsOnline
<1>1. ASSUME NEW o \in InMap, p = players[o[1]][o[2]]
      PROVE  p.on = online
    BY <1>1 DEF InMap, SpotsListed, OnList
<1>2. ASSUME NEW o \in InMail, p = mq[o[1]][o[2]].p
      PROVE  p.on = online
    <2>1. PICK h \in Handles : o \in {h} \X DOMAIN mq[h]
        BY <1>2 DEF InMail
    <2>2. mq[h] \in Seq(OwnEvent)
        BY DEF TInv, Types, ActorTypes
    <2>3. o = <<h, o[2]>> /\ o[2] \in Box(h) /\ mq[h][o[2]].op = "arrive"
        BY <1>2, <2>1, <2>2, LenProperties DEF InMail, Box
    <2> QED BY <1>2, <2>3 DEF SpotsListed, OnList
<1>3. ASSUME NEW o \in InWords, p = ctl[o[1]][o[2]].p
      PROVE  p.on = online
    <2>1. PICK s \in Sessions : o \in {s} \X DOMAIN ctl[s]
        BY <1>3 DEF InWords
    <2>2. ctl[s] \in Seq(OwnWord)
        BY DEF TInv, Types, SessTypes
    <2>3. o = <<s, o[2]>> /\ o[2] \in Words(s) /\ ctl[s][o[2]].op = "transfer"
        BY <1>3, <2>1, <2>2, LenProperties DEF InWords, Words
    <2> QED BY <1>3, <2>3 DEF SpotsListed, OnList
<1>4. ASSUME NEW s \in InPass, p = passing[s].p
      PROVE  p.on = online
    BY <1>4 DEF InPass, SpotsListed, OnList
<1> QED BY <1>1, <1>2, <1>3, <1>4 DEF ThePlayers

(* A race lost stays lost.                                                *)
LEMMA RacesGrow == TInv /\ [Next]_vars => races \subseteq races'
<1> SUFFICES ASSUME TInv, [Next]_vars
             PROVE  races \subseteq races'
    OBVIOUS
<1>1. ASSUME NEW s \in Sessions, Session(s) \/ Client(s) \/ Kick(s)
      PROVE  races \subseteq races'
    BY <1>1, SessionRaces DEF RacesGo
<1>2. ASSUME NEW h \in Handles, Map(h) \/ Doings(h)
      PROVE  races \subseteq races'
    BY <1>2, MapRaces DEF RacesGo
<1>3. CASE Realm \/ UNCHANGED vars
    BY <1>3 DEF Realm, Shutdown, Reset, ResetStops, dataV, vars
<1> QED BY <1>1, <1>2, <1>3 DEF Next

LEMMA WInvHolds == Spec => [](TInv /\ (NoneMissed => WInv))
<1>1. Init => TInv /\ WInv
    BY TInvInit, WInvInit
<1>2. TInv /\ (NoneMissed => WInv) /\ [Next]_vars => (TInv /\ (NoneMissed => WInv))'
    <2> SUFFICES ASSUME TInv, NoneMissed => WInv, [Next]_vars
                 PROVE  TInv' /\ (NoneMissed' => WInv')
        OBVIOUS
    <2>1. TInv'
        BY TInvNext
    <2>2. NoneMissed' => NoneMissed
        BY RacesGrow DEF NoneMissed
    <2> QED BY <2>1, <2>2, WInvNext
<1> QED BY <1>1, <1>2, PTL DEF Spec

(* A player is never copied, for any number of maps, copies, connections,   *)
(* logins and moves and with every step of another task between any two,    *)
(* but after one of the two steps that lose a race: a reap sent for a       *)
(* player between maps, or an entry taken off as its player is handed on.  *)
THEOREM OneInOnePlace == Spec => []OnePlaceUnraced
<1>1. TInv /\ (NoneMissed => WInv) => OnePlaceUnraced
    BY OneSpotPlace DEF WInv, OnePlaceUnraced
<1> QED BY <1>1, WInvHolds, PTL

(* Whoever is in the world, between maps too, is who the online list says,  *)
(* on the session it says, but after the same two.                         *)
THEOREM TheyAreOnline == Spec => []OnlineUnraced
<1>1. TInv /\ (NoneMissed => WInv) => OnlineUnraced
    BY SpotsOnline DEF WInv, OnlineUnraced
<1> QED BY <1>1, WInvHolds, PTL

=============================================================================
