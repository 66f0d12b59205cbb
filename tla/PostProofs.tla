----------------------------- MODULE PostProofs -----------------------------
(***************************************************************************)
(* What holds of a player who changes maps, for any number of maps, of     *)
(* packets, heartbeats, calls and teleports: what their client sent acts   *)
(* on them in the order sent, behind the calls the session put before it,  *)
(* and is not lost; and a call follows them through a change of map.       *)
(***************************************************************************)
EXTENDS Post, SequenceTheorems, TLAPS

-----------------------------------------------------------------------------
(* What the queues hold.                                                  *)
Event ==
    [kind : {"packet"}, n : Nat] \cup [kind : {"beat"}, slot : Nat]
    \cup {Arrival, Gone} \cup [kind : {"call"}, id : Nat, follow : BOOLEAN]
Word      == [kind : {"transfer"}, to : Maps] \cup [kind : {"toplayer"}, id : Nat]
APacket   == [beat : BOOLEAN, flags : States \cup {None}, heard : Nat, after : SUBSET Nat]
ACall     == [to : Maps, sent : BOOLEAN, via : Maps \cup {None}, live : BOOLEAN, moves : Int]
Somewhere == Maps \cup {None}

PostTypes ==
    /\ entry \in Somewhere /\ here \subseteq Maps /\ held \in Maps /\ naming \in Somewhere
    /\ lingering \in BOOLEAN /\ live \in BOOLEAN /\ beatLast \in BOOLEAN
    /\ mail \in [Maps -> Seq(Event)] /\ ctl \in Seq(Word)
    /\ hand \in Event \cup {None}
    /\ heard \in Nat /\ moves \in Nat
    /\ beat \in [slot : Nat, to : Somewhere]
    /\ slots \in Seq(Nat) /\ Len(slots) <= Len(packets)
    /\ packets \in Seq(APacket) /\ Len(packets) <= MaxPackets
    /\ calls \in Seq(ACall)
    /\ handled \in Seq(Nat) /\ runs \in Seq(Nat)
    /\ missed \subseteq [n : Nat, moves : Nat]

-----------------------------------------------------------------------------
(* Where the player is: in a map, on their session's queue, or in a        *)
(* mailbox, and in one of them.  A place in a mailbox is one the player    *)
(* will be there for if they are in that map, or arrive in it before.      *)
At(m)         == 1..Len(mail[m])
Arrives(m, i) == mail[m][i].kind = "arrive"
ArrivalIn(m)  == \E i \in At(m) : Arrives(m, i)
Coming(m)     == m \in here \/ ArrivalIn(m)
Reached(m, i) == m \in here \/ \E j \in 1..(i - 1) : Arrives(m, j)
Passing(i)    == ctl[i].kind = "transfer"
OnQueue       == \E i \in 1..Len(ctl) : Passing(i)

OnePlace ==
    /\ \A m, k \in here : m = k
    /\ \A m, k \in Maps : \A i \in At(m), j \in At(k) :
          Arrives(m, i) /\ Arrives(k, j) => m = k /\ i = j
    /\ \A i, j \in 1..Len(ctl) : Passing(i) /\ Passing(j) => i = j
    /\ here # {} => ~OnQueue /\ \A m \in Maps : ~ArrivalIn(m)
    /\ OnQueue => \A m \in Maps : ~ArrivalIn(m)

(* A session has its player, sees them named, or has routed to where they  *)
(* are or will be; gone, it holds nothing, and their entry tells.          *)
Routed ==
    /\ live => /\ entry # None /\ ~lingering
               /\ naming = None => entry = held
               /\ \A m \in Maps : \A i \in At(m) : mail[m][i].kind # "disconnect"
               /\ OnQueue \/ (naming # None /\ Coming(naming)) \/ (naming = None /\ Coming(held))
    /\ ~live => /\ ctl = <<>> /\ naming = None /\ hand = None
                /\ entry # None => Coming(entry)
    /\ naming # None => hand = None
    /\ entry = None => here = {} /\ \A m \in Maps : ~ArrivalIn(m)
    /\ \A m \in here : entry = m
    /\ \A i \in 1..Len(ctl) :
          Passing(i) => entry # ctl[i].to /\ (naming # None => naming = entry)

-----------------------------------------------------------------------------
(* The client's packets: each has one place, and what is behind another    *)
(* in a mailbox was sent after it, and what the player will be there for   *)
(* after all they have handled.  A heartbeat's number is that in its slot. *)
Num(e) == IF e.kind = "packet" THEN e.n ELSE slots[e.slot]

IsOurs(e) ==
    /\ Num(e) \in 1..Len(packets)
    /\ e.kind = "beat" => e.slot \in 1..Len(slots)

InMail ==
    \A m \in Maps : \A i \in At(m) : FromClient(mail[m][i]) =>
        /\ IsOurs(mail[m][i])
        /\ \A j \in At(m) : j < i /\ FromClient(mail[m][j]) => Num(mail[m][j]) < Num(mail[m][i])
        /\ hand # None => Num(mail[m][i]) < Len(packets)

Ahead ==
    \A m \in Maps : \A i \in At(m) : FromClient(mail[m][i]) /\ Reached(m, i) =>
        \A k \in 1..Len(handled) : handled[k] < Num(mail[m][i])

InHand ==
    hand # None =>
        /\ FromClient(hand) /\ IsOurs(hand) /\ Num(hand) = Len(packets)
        /\ hand.kind = "beat" => hand.slot = beat.slot /\ beat.to = held
        /\ \A k \in 1..Len(handled) : handled[k] < Len(packets)

Done ==
    /\ \A k \in 1..Len(handled) : handled[k] \in 1..Len(packets)
    /\ InSentOrder

(* A slot has one marker, in the map of the last heartbeat if it is that   *)
(* one's; with nothing behind it if that heartbeat was sent last.          *)
BeatAt(m, i, s)  == mail[m][i].kind = "beat" /\ mail[m][i].slot = s
CallAt(m, i, id) == mail[m][i].kind = "call" /\ mail[m][i].id = id

Beats ==
    /\ \A s \in 1..Len(slots) :
          /\ slots[s] \in 0..Len(packets)
          /\ slots[s] # 0 => packets[slots[s]].beat
    /\ beat.to # None => beat.slot \in 1..Len(slots)
    /\ \A m, k \in Maps : \A i \in At(m), j \in At(k) : \A s \in 1..Len(slots) :
          BeatAt(m, i, s) /\ BeatAt(k, j, s) => m = k
    /\ live /\ beat.to # None => \A m \in Maps : \A i \in At(m) :
          BeatAt(m, i, beat.slot) =>
              /\ m = beat.to
              /\ beatLast => \A j \in At(m) : j > i =>
                    /\ ~FromClient(mail[m][j])
                    /\ \A id \in 1..Len(calls) : CallAt(m, j, id) => calls[id].via = None

Kept ==
    live =>
        /\ hand = None /\ beatLast /\ beat.to # None /\ slots[beat.slot] # 0
              => slots[beat.slot] = Len(packets)
        /\ \A s \in 1..Len(slots) : slots[s] # 0 =>
              \/ hand # None /\ hand.kind = "beat" /\ hand.slot = s
              \/ \E m \in Maps : \E i \in At(m) : BeatAt(m, i, s)
        /\ \A n \in 1..Len(packets) :
              \/ \E k \in 1..Len(handled) : handled[k] = n
              \/ \E x \in missed : x.n = n
              \/ hand # None /\ Num(hand) = n
              \/ \E m \in Maps : \E i \in At(m) : FromClient(mail[m][i]) /\ Num(mail[m][i]) = n
              \/ /\ n < Len(packets) /\ packets[n].beat /\ packets[n + 1].beat
                 /\ packets[n].flags = packets[n + 1].flags

(* What was sent since the player last moved finds them: in a mailbox,     *)
(* they are there or ahead of it, and the word that the client went        *)
(* behind it.                                                             *)
Moved ==
    /\ heard <= moves
    /\ naming # None => heard + 1 <= moves
    /\ OnQueue => heard + 1 <= moves /\ (naming # None => heard + 2 <= moves)
    /\ \A n \in 1..Len(packets) : packets[n].heard <= heard
    /\ hand # None => packets[Len(packets)].heard = heard

Found ==
    \A m \in Maps : \A i \in At(m) :
        mail[m][i].kind = "packet" /\ packets[mail[m][i].n].heard = moves =>
            /\ ~lingering /\ Reached(m, i)
            /\ \A j \in 1..(i - 1) : mail[m][j].kind # "disconnect"

Misses ==
    \A x \in missed : x.n \in 1..Len(packets) /\ (packets[x.n].beat \/ packets[x.n].heard < x.moves)

Heard == Moved /\ Found /\ Misses

-----------------------------------------------------------------------------
(* Calls: each waits in one place, is run once, and goes to the map read   *)
(* for it and once more, with its session or to where their entry names.   *)
QueuedAt(i, id) == ctl[i].kind = "toplayer" /\ ctl[i].id = id
Ran(id)         == \E k \in 1..Len(runs) : runs[k] = id

Tokens ==
    /\ \A m \in Maps : \A i \in At(m) : mail[m][i].kind = "call" =>
          LET id == mail[m][i].id IN
          /\ id \in 1..Len(calls) /\ calls[id].sent /\ ~Ran(id)
          /\ mail[m][i].follow => m = calls[id].to /\ calls[id].via = None
          /\ calls[id].via \in {None, m}
          /\ \A k \in Maps : \A j \in At(k) : CallAt(k, j, id) => k = m /\ j = i
    /\ \A i \in 1..Len(ctl) : ctl[i].kind = "toplayer" =>
          LET id == ctl[i].id IN
          /\ id \in 1..Len(calls) /\ calls[id].sent /\ ~Ran(id) /\ calls[id].via = None
          /\ \A j \in 1..Len(ctl) : QueuedAt(j, id) => j = i
          /\ \A m \in Maps : \A j \in At(m) : ~CallAt(m, j, id)
    /\ \A id \in 1..Len(calls) : ~calls[id].sent => calls[id].via = None
    /\ \A k \in 1..Len(runs) : runs[k] \in 1..Len(calls) /\ calls[runs[k]].sent
    /\ IsInjective(runs)

(* What was sent behind a call stays behind it.                            *)
Passed(n) == \A id \in packets[n].after : \A m \in Maps : \A i \in At(m) : ~CallAt(m, i, id)

MailBehind ==
    \A m \in Maps : \A i \in At(m) : FromClient(mail[m][i]) =>
        \A id \in packets[Num(mail[m][i])].after :
            /\ calls[id].via = m
            /\ \A j \in At(m) : j > i => ~CallAt(m, j, id)

Behind ==
    /\ \A n \in 1..Len(packets) : \A id \in packets[n].after :
          id \in 1..Len(calls) /\ calls[id].via # None
    /\ \A k \in 1..Len(handled) : Passed(handled[k])
    /\ hand # None => \A id \in packets[Len(packets)].after : calls[id].via = held
    /\ MailBehind

(* A call made since the player moved last but once finds them.            *)
Due(id) == moves < calls[id].moves + 2 /\ calls[id].live = live /\ entry # None

Nearby(id) ==
    /\ calls[id].moves = moves => here = {calls[id].to}
    /\ entry # calls[id].to => ~OnQueue /\ Coming(entry)

NotDropped(id) ==
    calls[id].sent => \/ Ran(id)
                      \/ \E m \in Maps : \E i \in At(m) : CallAt(m, i, id)
                      \/ \E i \in 1..Len(ctl) : QueuedAt(i, id)

MailFollows(id) ==
    \A m \in Maps : \A i \in At(m) : CallAt(m, i, id) =>
        IF mail[m][i].follow THEN \A j \in At(m) : j > i => ~Arrives(m, j)
        ELSE Reached(m, i) /\ calls[id].moves < moves

QueueFollows(id) ==
    \A i \in 1..Len(ctl) : QueuedAt(i, id) =>
        /\ calls[id].moves < moves
        /\ \A j \in 1..Len(ctl) : j > i => ~Passing(j)

FollowAt(id) ==
    /\ calls[id].moves <= moves /\ (live => calls[id].live)
    /\ Due(id) => Nearby(id) /\ NotDropped(id) /\ MailFollows(id) /\ QueueFollows(id)

Follow == \A id \in 1..Len(calls) : FollowAt(id)

PInv ==
    /\ PostTypes /\ OnePlace /\ Routed
    /\ InMail /\ InHand /\ Ahead /\ Done /\ Beats /\ Kept /\ Heard
    /\ Tokens /\ Behind /\ Follow

-----------------------------------------------------------------------------
(* What a step does to the mailboxes: one loses its head, or gets an event *)
(* or two at its end.                                                     *)
Others(S) == mail' \in [Maps -> Seq(Event)] /\ \A k \in Maps \ S : mail'[k] = mail[k]
Cut(m) ==
    /\ Len(mail[m]) \in Nat /\ 1 \in At(m) /\ Head(mail[m]) = mail[m][1]
    /\ Len(mail'[m]) = Len(mail[m]) - 1
    /\ \A i \in 1..Len(mail'[m]) : i + 1 \in At(m) /\ mail'[m][i] = mail[m][i + 1]
    /\ \A i \in At(m) : i > 1 => i - 1 \in 1..Len(mail'[m]) /\ mail'[m][i - 1] = mail[m][i]
Put(m, e) ==
    /\ Len(mail[m]) \in Nat /\ Len(mail'[m]) = Len(mail[m]) + 1
    /\ \A i \in At(m) : mail'[m][i] = mail[m][i]
    /\ mail'[m][Len(mail[m]) + 1] = e
Popped(m)    == Others({m}) /\ Cut(m)
Posted(m, e) == Others({m}) /\ Put(m, e)
PostedTwo(m, e, f) ==
    /\ Others({m})
    /\ Len(mail[m]) \in Nat /\ Len(mail'[m]) = Len(mail[m]) + 2
    /\ \A i \in At(m) : mail'[m][i] = mail[m][i]
    /\ mail'[m][Len(mail[m]) + 1] = e /\ mail'[m][Len(mail[m]) + 2] = f
SentOn(m, k, e) == m # k /\ Others({m, k}) /\ Cut(m) /\ Put(k, e)

LEMMA Tails ==
    ASSUME NEW S, NEW s \in Seq(S), s # <<>>, NEW t, t = Tail(s)
    PROVE  /\ t \in Seq(S) /\ Len(s) \in Nat /\ 1 \in 1..Len(s) /\ Head(s) = s[1]
           /\ Len(t) = Len(s) - 1
           /\ \A i \in 1..Len(t) : i + 1 \in 1..Len(s) /\ t[i] = s[i + 1]
           /\ \A i \in 1..Len(s) : i > 1 => i - 1 \in 1..Len(t) /\ t[i - 1] = s[i]
<1>1. /\ Len(s) \in Nat /\ Len(s) > 0 /\ t \in Seq(S)
      /\ Head(s) = s[1] /\ Len(t) = Len(s) - 1
      /\ \A i \in 1..(Len(s) - 1) : t[i] = s[i + 1]
    BY HeadTailProperties, LenProperties, EmptySeq
<1>2. \A i \in 1..Len(t) : i + 1 \in 1..Len(s) /\ t[i] = s[i + 1]
    BY <1>1
<1>3. ASSUME NEW i \in 1..Len(s), i > 1
      PROVE  i - 1 \in 1..Len(t) /\ t[i - 1] = s[i]
    <2>1. i - 1 \in 1..Len(t) /\ (i - 1) + 1 = i
        BY <1>1, <1>3
    <2> QED BY <1>2, <2>1
<1> QED BY <1>1, <1>2, <1>3

LEMMA Cuts ==
    ASSUME PostTypes, NEW m \in Maps, mail[m] # <<>>, mail'[m] = Tail(mail[m])
    PROVE  Cut(m) /\ mail'[m] \in Seq(Event)
<1>1. mail[m] \in Seq(Event)
    BY DEF PostTypes
<1> DEFINE t == mail'[m]
<1>2. t = Tail(mail[m])
    OBVIOUS
<1> HIDE DEF t
<1>3. /\ t \in Seq(Event) /\ Len(mail[m]) \in Nat /\ 1 \in 1..Len(mail[m])
      /\ Head(mail[m]) = mail[m][1] /\ Len(t) = Len(mail[m]) - 1
      /\ \A i \in 1..Len(t) : i + 1 \in 1..Len(mail[m]) /\ t[i] = mail[m][i + 1]
      /\ \A i \in 1..Len(mail[m]) : i > 1 => i - 1 \in 1..Len(t) /\ t[i - 1] = mail[m][i]
    BY <1>1, <1>2, Tails
<1> QED BY <1>3, Zenon DEF Cut, At, t

LEMMA Pops ==
    ASSUME PostTypes, NEW m \in Maps, mail[m] # <<>>, mail' = [mail EXCEPT ![m] = Tail(@)]
    PROVE  Popped(m)
<1>1. mail'[m] = Tail(mail[m])
    BY DEF PostTypes
<1>2. Cut(m) /\ mail'[m] \in Seq(Event)
    BY <1>1, Cuts
<1>3. Others({m})
    BY <1>1, <1>2 DEF PostTypes, Others
<1> QED BY <1>2, <1>3 DEF Popped

LEMMA Posts ==
    ASSUME PostTypes, NEW m \in Maps, NEW e \in Event, mail' = [mail EXCEPT ![m] = Append(@, e)]
    PROVE  Posted(m, e)
<1>1. mail[m] \in Seq(Event) /\ mail'[m] = Append(mail[m], e)
    BY DEF PostTypes
<1>2. /\ Len(mail[m]) \in Nat /\ Append(mail[m], e) \in Seq(Event)
      /\ Len(Append(mail[m], e)) = Len(mail[m]) + 1
      /\ \A i \in At(m) : Append(mail[m], e)[i] = mail[m][i]
      /\ Append(mail[m], e)[Len(mail[m]) + 1] = e
    BY <1>1, AppendProperties, LenProperties DEF At
<1>3. mail' \in [Maps -> Seq(Event)] /\ Others({m})
    BY <1>1, <1>2 DEF PostTypes, Others
<1> QED BY <1>1, <1>2, <1>3 DEF Posted, Put

LEMMA PostsTwo ==
    ASSUME PostTypes, NEW m \in Maps, NEW e \in Event, NEW f \in Event,
           mail' = [mail EXCEPT ![m] = @ \o <<e, f>>]
    PROVE  PostedTwo(m, e, f)
<1>1. mail[m] \in Seq(Event) /\ mail'[m] = mail[m] \o <<e, f>> /\ <<e, f>> \in Seq(Event)
    BY DEF PostTypes
<1>2. Len(<<e, f>>) = 2 /\ <<e, f>>[1] = e /\ <<e, f>>[2] = f
    OBVIOUS
<1>3. /\ Len(mail[m]) \in Nat /\ mail[m] \o <<e, f>> \in Seq(Event)
      /\ Len(mail[m] \o <<e, f>>) = Len(mail[m]) + 2
      /\ \A i \in At(m) : (mail[m] \o <<e, f>>)[i] = mail[m][i]
      /\ (mail[m] \o <<e, f>>)[Len(mail[m]) + 1] = e
      /\ (mail[m] \o <<e, f>>)[Len(mail[m]) + 2] = f
    BY <1>1, <1>2, ConcatProperties, LenProperties DEF At
<1>4. mail' \in [Maps -> Seq(Event)] /\ Others({m})
    BY <1>1, <1>3 DEF PostTypes, Others
<1> QED BY <1>1, <1>3, <1>4 DEF PostedTwo

(* The same of the session's queue.                                       *)
CtlPopped ==
    /\ Len(ctl) \in Nat /\ 1 \in 1..Len(ctl) /\ Head(ctl) = ctl[1] /\ ctl[1] \in Word
    /\ ctl' \in Seq(Word) /\ Len(ctl') = Len(ctl) - 1
    /\ \A i \in 1..Len(ctl') : i + 1 \in 1..Len(ctl) /\ ctl'[i] = ctl[i + 1]
CtlPosted(w) ==
    /\ Len(ctl) \in Nat /\ ctl' \in Seq(Word) /\ Len(ctl') = Len(ctl) + 1
    /\ \A i \in 1..Len(ctl) : ctl'[i] = ctl[i]
    /\ ctl'[Len(ctl) + 1] = w

LEMMA CtlPops ==
    ASSUME PostTypes, ctl # <<>>, ctl' = Tail(ctl)
    PROVE  CtlPopped
<1>1. ctl \in Seq(Word)
    BY DEF PostTypes
<1> DEFINE t == ctl'
<1>2. t = Tail(ctl)
    OBVIOUS
<1> HIDE DEF t
<1>3. /\ t \in Seq(Word) /\ Len(ctl) \in Nat /\ 1 \in 1..Len(ctl)
      /\ Head(ctl) = ctl[1] /\ Len(t) = Len(ctl) - 1
      /\ \A i \in 1..Len(t) : i + 1 \in 1..Len(ctl) /\ t[i] = ctl[i + 1]
    BY <1>1, <1>2, Tails
<1>4. ctl[1] \in Word
    BY <1>1, <1>3, ElementOfSeq
<1> QED BY <1>3, <1>4, Zenon DEF CtlPopped, t

LEMMA CtlPosts ==
    ASSUME PostTypes, NEW w \in Word, ctl' = Append(ctl, w)
    PROVE  CtlPosted(w)
<1>1. ctl \in Seq(Word)
    BY DEF PostTypes
<1> QED BY <1>1, AppendProperties, LenProperties DEF CtlPosted

(* The client gone, the player is passed on if they were on the queue.     *)
LEMMA ClientCases ==
    ASSUME PostTypes, OnePlace, ClientGoes
    PROVE  \/ /\ ~OnQueue /\ Posted(held, Gone) /\ held' = held /\ entry' = entry
           \/ \E i \in 1..Len(ctl) :
                 /\ Passing(i) /\ ctl[i].to \in Maps
                 /\ PostedTwo(ctl[i].to, Arrival, Gone)
                 /\ held' = ctl[i].to /\ entry' = ctl[i].to
<1> DEFINE on == {w \in ToSet(ctl) : w.kind = "transfer"}
           passed == {c.to : c \in on}
<1>1. ctl \in Seq(Word) /\ held \in Maps /\ Arrival \in Event /\ Gone \in Event
    BY DEF PostTypes, Event
<1>2. ToSet(ctl) = {ctl[i] : i \in 1..Len(ctl)}
    BY <1>1, LenProperties DEF ToSet
<1>3. CASE ~OnQueue
    <2>1. on = {}
        BY <1>2, <1>3 DEF OnQueue, Passing
    <2>2. passed = {}
        BY <2>1
    <2>3. mail[held] \in Seq(Event)
        BY <1>1 DEF PostTypes
    <2>4. mail' = [mail EXCEPT ![held] = @ \o <<Gone>>]
        BY <2>2 DEF ClientGoes
    <2>5. mail[held] \o <<Gone>> = Append(mail[held], Gone)
        BY <2>3, <1>1, AppendIsConcat
    <2>6. mail' = [mail EXCEPT ![held] = Append(@, Gone)]
        BY <2>4, <2>5
    <2> QED BY <1>1, <1>3, <2>2, <2>6, Posts DEF ClientGoes
<1>4. CASE OnQueue
    <2>1. PICK i \in 1..Len(ctl) : Passing(i)
        BY <1>4 DEF OnQueue
    <2>2. on = {ctl[i]}
        BY <1>2, <2>1 DEF OnePlace, Passing
    <2>3. passed = {ctl[i].to}
        BY <2>2
    <2>4. ctl[i] \in Word /\ ctl[i].to \in Maps
        BY <1>1, <2>1, ElementOfSeq DEF Passing, Word
    <2>5. (CHOOSE m \in passed : TRUE) = ctl[i].to /\ passed # {}
        BY <2>3
    <2>6. /\ mail' = [mail EXCEPT ![ctl[i].to] = @ \o <<Arrival, Gone>>]
          /\ held' = ctl[i].to /\ entry' = ctl[i].to
        BY <2>5 DEF ClientGoes
    <2> QED BY <1>1, <2>1, <2>4, <2>6, PostsTwo
<1> QED BY <1>3, <1>4

LEMMA SendsOn ==
    ASSUME PostTypes, NEW m \in Maps, NEW k \in Maps, NEW e \in Event, m # k, mail[m] # <<>>,
           mail' = [[mail EXCEPT ![m] = Tail(@)] EXCEPT ![k] = Append(@, e)]
    PROVE  SentOn(m, k, e)
<1>1. /\ mail'[m] = Tail(mail[m])
      /\ mail[k] \in Seq(Event) /\ mail'[k] = Append(mail[k], e)
    BY DEF PostTypes
<1>2. Cut(m) /\ mail'[m] \in Seq(Event)
    BY <1>1, Cuts
<1>3. /\ Len(mail[k]) \in Nat /\ Append(mail[k], e) \in Seq(Event)
      /\ Len(Append(mail[k], e)) = Len(mail[k]) + 1
      /\ \A i \in At(k) : Append(mail[k], e)[i] = mail[k][i]
      /\ Append(mail[k], e)[Len(mail[k]) + 1] = e
    BY <1>1, AppendProperties, LenProperties DEF At
<1>4. Others({m, k})
    BY <1>1, <1>2, <1>3 DEF PostTypes, Others
<1>5. Put(k, e)
    BY <1>1, <1>3 DEF Put
<1> QED BY <1>2, <1>4, <1>5 DEF SentOn

(* A call a map has in hand: run, gone, or sent on, by way of the session  *)
(* or the map their entry names.                                          *)
CallEnds(m, id) ==
    \/ m \in here /\ runs' = Append(runs, id) /\ Popped(m) /\ ctl' = ctl
    \/ /\ m \notin here /\ runs' = runs
       /\ \/ /\ ~mail[m][1].follow \/ entry = None \/ (entry = m /\ ~live)
             /\ Popped(m) /\ ctl' = ctl
          \/ /\ mail[m][1].follow /\ entry = m /\ live
             /\ Popped(m) /\ CtlPosted(ToPlayer(id))
          \/ /\ mail[m][1].follow /\ entry \in Maps
             /\ SentOn(m, entry, Call(id, FALSE)) /\ ctl' = ctl

LEMMA CallCases ==
    ASSUME PostTypes, NEW m \in Maps, HandleCall(m)
    PROVE  \E id \in Nat :
              /\ mail[m][1].kind = "call" /\ mail[m][1].id = id /\ mail[m][1].follow \in BOOLEAN
              /\ CallEnds(m, id)
<1> DEFINE id == Head(mail[m]).id
           rest == [mail EXCEPT ![m] = Tail(@)]
<1>1. mail[m] # <<>> /\ mail[m] \in Seq(Event) /\ Head(mail[m]).kind = "call"
    BY DEF HandleCall, CallDealt, Heads, PostTypes
<1>2. Head(mail[m]) = mail[m][1] /\ Head(mail[m]) \in Event
    BY <1>1, HeadTailProperties
<1>3. id \in Nat /\ Head(mail[m]).follow \in BOOLEAN /\ Call(id, FALSE) \in Event
      /\ ToPlayer(id) \in Word
    BY <1>1, <1>2 DEF Event, Arrival, Gone, Call, ToPlayer, Word
<1>4. /\ runs' = IF m \in here THEN Append(runs, id) ELSE runs
      /\ mail' = IF Follows(m) /\ entry # m
                 THEN [rest EXCEPT ![entry] = Append(@, Call(id, FALSE))] ELSE rest
      /\ ctl' = IF Follows(m) /\ entry = m /\ live THEN Append(ctl, ToPlayer(id)) ELSE ctl
    BY DEF HandleCall, CallDealt
<1> HIDE DEF id, rest
<1>5. CASE m \in here
    <2>1. ~Follows(m)
        BY <1>5 DEF Follows
    <2>2. Popped(m)
        BY <1>1, <1>4, <2>1, Pops DEF rest
    <2>3. CallEnds(m, id)
        BY <1>4, <1>5, <2>1, <2>2 DEF CallEnds
    <2> QED BY <1>1, <1>2, <1>3, <2>3 DEF id
<1>6. CASE m \notin here /\ (~Follows(m) \/ (entry = m /\ ~live))
    <2>1. Popped(m)
        BY <1>1, <1>4, <1>6, Pops DEF rest
    <2>2. ~mail[m][1].follow \/ entry = None \/ (entry = m /\ ~live)
        BY <1>2, <1>6 DEF Follows
    <2>3. CallEnds(m, id)
        BY <1>4, <1>6, <2>1, <2>2 DEF CallEnds
    <2> QED BY <1>1, <1>2, <1>3, <2>3 DEF id
<1>7. CASE m \notin here /\ Follows(m) /\ entry = m /\ live
    <2>1. Popped(m)
        BY <1>1, <1>4, <1>7, Pops DEF rest
    <2>2. CtlPosted(ToPlayer(id))
        BY <1>3, <1>4, <1>7, CtlPosts
    <2>3. CallEnds(m, id)
        BY <1>2, <1>4, <1>7, <2>1, <2>2 DEF CallEnds, Follows
    <2> QED BY <1>1, <1>2, <1>3, <2>3 DEF id
<1>8. CASE m \notin here /\ Follows(m) /\ entry # m
    <2>1. entry \in Maps
        BY <1>8 DEF Follows, PostTypes, Somewhere
    <2>2. SentOn(m, entry, Call(id, FALSE))
        BY <1>1, <1>3, <1>4, <1>8, <2>1, SendsOn DEF rest
    <2>3. CallEnds(m, id)
        BY <1>2, <1>4, <1>8, <2>1, <2>2 DEF CallEnds, Follows
    <2> QED BY <1>1, <1>2, <1>3, <2>3 DEF id
<1> QED BY <1>5, <1>6, <1>7, <1>8

-----------------------------------------------------------------------------
(* What a step does to the rest.  A packet the client sends is the last,   *)
NewPacket(b, f) ==
    /\ packets' \in Seq(APacket) /\ Len(packets) \in Nat
    /\ Len(packets') = Len(packets) + 1 /\ Len(packets') <= MaxPackets
    /\ \A n \in 1..Len(packets) : packets'[n] = packets[n]
    /\ packets'[Len(packets')].beat = b /\ packets'[Len(packets')].flags = f
    /\ packets'[Len(packets')].heard = heard
    /\ packets'[Len(packets')].after = {id \in 1..Len(calls) : calls[id].via = held}

LEMMA SentIs ==
    ASSUME PostTypes, NEW b \in BOOLEAN, NEW f \in States \cup {None}, Sent(b, f)
    PROVE  NewPacket(b, f)
<1> DEFINE p == [beat |-> b, flags |-> f, heard |-> heard,
                 after |-> {id \in DOMAIN calls : calls[id].via = held}]
<1>1. calls \in Seq(ACall) /\ packets \in Seq(APacket) /\ heard \in Nat
    BY DEF PostTypes
<1>2. DOMAIN calls = 1..Len(calls) /\ Len(calls) \in Nat /\ Len(packets) \in Nat
    BY <1>1, LenProperties
<1>3. {id \in DOMAIN calls : calls[id].via = held} \in SUBSET Nat
    BY <1>2
<1>4. p \in APacket
    BY <1>1, <1>3 DEF APacket
<1>5. packets' = Append(packets, p) /\ Len(packets) < MaxPackets
    BY DEF Sent
<1>6. p.beat = b /\ p.flags = f /\ p.heard = heard
      /\ p.after = {id \in 1..Len(calls) : calls[id].via = held}
    BY <1>2
<1> HIDE DEF p
<1>7. /\ packets' \in Seq(APacket) /\ Len(packets') = Len(packets) + 1
      /\ \A n \in 1..Len(packets) : packets'[n] = packets[n]
      /\ packets'[Len(packets) + 1] = p
    BY <1>1, <1>4, <1>5, AppendProperties
<1>8. Len(packets') <= MaxPackets
    BY <1>2, <1>5, <1>7, PostAssumption
<1> QED BY <1>2, <1>6, <1>7, <1>8 DEF NewPacket

(* a number that is handled or missed, the last of those,                  *)
Reaches(n, m) ==
    \/ /\ m \in here /\ missed' = missed
       /\ handled' \in Seq(Nat) /\ Len(handled') = Len(handled) + 1
       /\ \A k \in 1..Len(handled) : handled'[k] = handled[k]
       /\ handled'[Len(handled) + 1] = n
    \/ /\ m \notin here /\ handled' = handled
       /\ missed' = missed \cup {[n |-> n, moves |-> moves]}

LEMMA HandledIs ==
    ASSUME PostTypes, NEW n \in Nat, NEW m \in Maps, Handled(n, m)
    PROVE  Reaches(n, m) /\ Len(handled) \in Nat
<1>1. handled \in Seq(Nat) /\ Len(handled) \in Nat
    BY LenProperties DEF PostTypes
<1>2. CASE m \in here
    BY <1>1, <1>2, AppendProperties DEF Handled, Reaches
<1>3. CASE m \notin here
    BY <1>1, <1>3 DEF Handled, Reaches
<1> QED BY <1>2, <1>3

(* and the calls, of which one is new, sent, or put behind the player.     *)
NewCall(c) ==
    /\ Len(calls) \in Nat /\ calls' \in Seq(ACall) /\ Len(calls') = Len(calls) + 1
    /\ \A id \in 1..Len(calls) : calls'[id] = calls[id]
    /\ calls'[Len(calls) + 1] = c
CallChanged(id, c) ==
    /\ calls' \in Seq(ACall) /\ Len(calls') = Len(calls) /\ Len(calls) \in Nat
    /\ \A o \in 1..Len(calls) : calls'[o] = IF o = id THEN c ELSE calls[o]

LEMMA CallChanges ==
    ASSUME PostTypes, NEW id \in 1..Len(calls), NEW c \in ACall, calls' = [calls EXCEPT ![id] = c]
    PROVE  CallChanged(id, c)
BY ExceptSeq, LenProperties DEF PostTypes, CallChanged

LEMMA CallReadsIs ==
    ASSUME PostTypes, CallReads
    PROVE  NewCall([to |-> entry, sent |-> FALSE, via |-> None, live |-> live,
                    moves |-> IF here = {} THEN moves - 1 ELSE moves])
<1> DEFINE c == [to |-> entry, sent |-> FALSE, via |-> None, live |-> live,
                 moves |-> IF here = {} THEN moves - 1 ELSE moves]
<1>1. c \in ACall
    BY DEF CallReads, PostTypes, ACall, Somewhere
<1>2. calls' = Append(calls, c) /\ calls \in Seq(ACall)
    BY DEF CallReads, PostTypes
<1> HIDE DEF c
<1>3. NewCall(c)
    BY <1>1, <1>2, AppendProperties, LenProperties DEF NewCall
<1> QED BY <1>3 DEF c

(* What a call is after it is sent, or put behind the player.              *)
LEMMA CallSentIs ==
    ASSUME PostTypes, NEW id \in DOMAIN calls, CallSent(id)
    PROVE  /\ id \in 1..Len(calls) /\ id \in Nat /\ ~calls[id].sent /\ calls[id].to \in Maps
           /\ CallChanged(id, [calls[id] EXCEPT !.sent = TRUE])
           /\ Posted(calls[id].to, Call(id, TRUE))
<1>1. calls \in Seq(ACall) /\ DOMAIN calls = 1..Len(calls) /\ Len(calls) \in Nat
    BY LenProperties DEF PostTypes
<1>2. calls[id] \in ACall /\ id \in Nat
    BY <1>1, ElementOfSeq
<1>3. [calls[id] EXCEPT !.sent = TRUE] \in ACall /\ calls[id].to \in Maps
    BY <1>2 DEF ACall
<1>4. calls' = [calls EXCEPT ![id] = [calls[id] EXCEPT !.sent = TRUE]]
    BY DEF CallSent
<1>5. CallChanged(id, [calls[id] EXCEPT !.sent = TRUE])
    BY <1>1, <1>3, <1>4, CallChanges
<1>6. Call(id, TRUE) \in Event
    BY <1>2 DEF Call, Event
<1> QED BY <1>1, <1>2, <1>3, <1>5, <1>6, Posts DEF CallSent, Post

LEMMA CallPassedIs ==
    ASSUME PostTypes, Tokens, CallPassed
    PROVE  \E id \in 1..Len(calls) :
              /\ id \in Nat /\ QueuedAt(1, id) /\ calls[id].via = None
              /\ CtlPopped /\ Posted(held, Call(id, FALSE))
              /\ CallChanged(id, [calls[id] EXCEPT !.via = held])
<1> DEFINE id == Head(ctl).id
<1>1. ctl # <<>> /\ Head(ctl).kind = "toplayer" /\ ctl' = Tail(ctl) /\ held \in Maps
    BY DEF CallPassed, PostTypes
<1>2. CtlPopped
    BY <1>1, CtlPops
<1>3. QueuedAt(1, id)
    BY <1>1, <1>2 DEF CtlPopped, QueuedAt
<1>4. id \in 1..Len(calls) /\ calls[id].via = None
    BY <1>1, <1>2 DEF CtlPopped, Tokens
<1>5. calls \in Seq(ACall) /\ Len(calls) \in Nat
    BY LenProperties DEF PostTypes
<1>6. calls[id] \in ACall /\ id \in Nat
    BY <1>4, <1>5, ElementOfSeq
<1>7. calls' = [calls EXCEPT ![id] = [calls[id] EXCEPT !.via = held]]
    BY DEF CallPassed
<1>8. [calls[id] EXCEPT !.via = held] \in ACall
    BY <1>1, <1>6 DEF ACall
<1>9. Call(id, FALSE) \in Event /\ mail' = [mail EXCEPT ![held] = Append(@, Call(id, FALSE))]
    BY <1>6 DEF Call, Event, CallPassed, Post
<1> HIDE DEF id
<1>10. CallChanged(id, [calls[id] EXCEPT !.via = held])
    BY <1>4, <1>7, <1>8, CallChanges
<1>11. Posted(held, Call(id, FALSE))
    BY <1>1, <1>9, Posts
<1> QED BY <1>2, <1>3, <1>4, <1>6, <1>10, <1>11

(* The player passed on, and one who teleports.                           *)
LEMMA PassOnIs ==
    ASSUME PostTypes, PassOn
    PROVE  /\ CtlPopped /\ Passing(1) /\ ctl[1].to \in Maps /\ naming' = ctl[1].to
           /\ Posted(ctl[1].to, Arrival)
<1>1. CtlPopped
    BY CtlPops DEF PassOn
<1>2. Head(ctl) = ctl[1] /\ Passing(1) /\ ctl[1].to \in Maps
    BY <1>1 DEF PassOn, CtlPopped, Passing, Word
<1>3. Arrival \in Event
    BY DEF Event
<1>4. mail' = [mail EXCEPT ![ctl[1].to] = Append(@, Arrival)] /\ naming' = ctl[1].to
    BY <1>2 DEF PassOn, Post
<1> QED BY <1>1, <1>2, <1>3, <1>4, Posts

LEMMA TeleportIs ==
    ASSUME PostTypes, NEW m \in Maps, NEW to \in Maps, Teleport(m, to)
    PROVE  \/ live /\ CtlPosted(Transfer(to)) /\ mail' = mail /\ entry' = entry
           \/ ~live /\ PostedTwo(to, Arrival, Gone) /\ entry' = to /\ ctl' = ctl
<1>1. Transfer(to) \in Word /\ Arrival \in Event /\ Gone \in Event
    BY DEF Transfer, Word, Event
<1> QED BY <1>1, CtlPosts, PostsTwo DEF Teleport

(* What is in the session's hand goes to the map it routes to.             *)
LEMMA SendsHand ==
    ASSUME PostTypes, SendToMap
    PROVE  held \in Maps /\ Posted(held, hand)
<1>1. hand \in Event /\ held \in Maps
    BY DEF PostTypes, SendToMap
<1> QED BY <1>1, Posts DEF SendToMap, Post

(* A map's event is the head of its mailbox.                              *)
LEMMA HeadIs ==
    ASSUME PostTypes, NEW m \in Maps, NEW kind, Heads(m, kind), mail' = [mail EXCEPT ![m] = Tail(@)]
    PROVE  Popped(m) /\ mail[m][1].kind = kind /\ 1 \in At(m)
<1>1. mail[m] # <<>> /\ Head(mail[m]).kind = kind
    BY DEF Heads
<1>2. Popped(m)
    BY <1>1, Pops
<1> QED BY <1>1, <1>2 DEF Popped, Cut

-----------------------------------------------------------------------------
(* Types.                                                                 *)
LEMMA TypeSession ==
    ASSUME PInv,
           \/ \E f \in States : Heartbeat(f)
           \/ OtherPacket \/ SendToMap \/ PassOn \/ Named \/ HearCall \/ ClientGoes
    PROVE  PostTypes'
<1> USE DEF world, session, client, hist
<1>1. PostTypes
    BY DEF PInv
<1>2. ASSUME NEW f \in States, Heartbeat(f)
      PROVE  PostTypes'
    <2>1. NewPacket(TRUE, f)
        BY <1>1, <1>2, SentIs DEF Heartbeat, Coalesced, InPlace, Marked, AsPacket
    <2>2. Len(packets') \in Nat /\ packets' \in Seq(APacket) /\ Len(packets') <= MaxPackets
        BY <2>1 DEF NewPacket
    <2>3. /\ slots \in Seq(Nat) /\ Len(slots) \in Nat /\ Len(packets) \in Nat
          /\ Len(slots) + 1 <= Len(packets')
        BY <1>1, <2>1, LenProperties DEF PostTypes, NewPacket
    <2>4. CASE Coalesced(f)
        <3>1. beat.slot \in 1..Len(slots)
            BY <1>1, <2>4, PostAssumption DEF Coalesced, InPlace, PInv, Beats, PostTypes
        <3>2. slots' \in Seq(Nat) /\ Len(slots') = Len(slots)
            BY <2>2, <2>3, <2>4, <3>1, ExceptSeq DEF Coalesced, InPlace
        <3>3. Len(slots') <= Len(packets')
            BY <2>2, <2>3, <3>2
        <3> QED BY <1>1, <2>2, <2>4, <3>2, <3>3 DEF Coalesced, InPlace, PostTypes
    <2>5. CASE Marked(f)
        <3>1. /\ slots' \in Seq(Nat) /\ Len(slots') <= Len(packets')
              /\ beat' \in [slot : Nat, to : Somewhere]
            <4>1. CASE beat.to = held
                <5>1. beat.slot \in 1..Len(slots)
                    BY <1>1, <4>1, PostAssumption DEF PInv, Beats, PostTypes
                <5>2. slots' = [slots EXCEPT ![beat.slot] = Len(packets')] /\ beat' = beat
                    BY <2>5, <4>1 DEF Marked
                <5>3. slots' \in Seq(Nat) /\ Len(slots') = Len(slots)
                    BY <2>2, <2>3, <5>1, <5>2, ExceptSeq
                <5>4. Len(slots') <= Len(packets')
                    BY <2>2, <2>3, <5>3
                <5> QED BY <1>1, <5>2, <5>3, <5>4 DEF PostTypes
            <4>2. CASE beat.to # held
                <5>1. slots' = Append(slots, Len(packets')) /\ beat' = [slot |-> Len(slots'), to |-> held]
                    BY <2>5, <4>2 DEF Marked
                <5>2. slots' \in Seq(Nat) /\ Len(slots') = Len(slots) + 1
                    BY <2>2, <2>3, <5>1, AppendProperties, LenProperties
                <5>3. Len(slots') \in Nat /\ Len(slots') <= Len(packets')
                    BY <2>3, <5>2
                <5> QED BY <1>1, <5>1, <5>2, <5>3 DEF PostTypes, Somewhere
            <4> QED BY <4>1, <4>2
        <3>2. hand' \in Event
            BY <2>5, <3>1 DEF Marked, Marker, Event
        <3> QED BY <1>1, <2>2, <2>5, <3>1, <3>2 DEF Marked, PostTypes
    <2>6. CASE AsPacket(f)
        <3>1. Len(slots) <= Len(packets')
            BY <2>2, <2>3
        <3> QED BY <1>1, <2>2, <2>6, <3>1 DEF AsPacket, PostTypes, Packet, Event
    <2> QED BY <1>2, <2>4, <2>5, <2>6 DEF Heartbeat
<1>3. CASE OtherPacket
    <2>1. NewPacket(FALSE, None)
        BY <1>1, <1>3, SentIs DEF OtherPacket
    <2>2. Len(packets') \in Nat /\ packets' \in Seq(APacket) /\ Len(packets') <= MaxPackets
        BY <2>1 DEF NewPacket
    <2>3. Len(slots) <= Len(packets')
        BY <1>1, <2>1, LenProperties DEF PostTypes, NewPacket
    <2> QED BY <1>1, <1>3, <2>2, <2>3 DEF OtherPacket, PostTypes, Packet, Event
<1>4. CASE SendToMap
    <2>1. mail' \in [Maps -> Seq(Event)]
        BY <1>1, <1>4, SendsHand DEF Posted, Others
    <2>2. beat' \in [slot : Nat, to : Somewhere]
        BY <1>1, <1>4 DEF SendToMap, PostTypes, Somewhere
    <2> QED BY <1>1, <1>4, <2>1, <2>2 DEF SendToMap, PostTypes
<1>5. CASE PassOn
    <2>1. mail' \in [Maps -> Seq(Event)] /\ ctl' \in Seq(Word) /\ naming' \in Maps
        BY <1>1, <1>5, PassOnIs DEF Posted, Others, CtlPopped
    <2> QED BY <1>1, <1>5, <2>1 DEF PassOn, PostTypes, Somewhere
<1>6. CASE Named
    BY <1>1, <1>6 DEF Named, PostTypes, Somewhere
<1>7. CASE HearCall
    <2>1. mail' \in [Maps -> Seq(Event)] /\ ctl' \in Seq(Word) /\ calls' \in Seq(ACall)
        BY <1>1, <1>7, CallPassedIs DEF PInv, HearCall, Posted, Others, CtlPopped, CallChanged
    <2> QED BY <1>1, <1>7, <2>1 DEF HearCall, CallPassed, PostTypes
<1>8. CASE ClientGoes
    <2>1. mail' \in [Maps -> Seq(Event)] /\ held' \in Maps /\ entry' \in Somewhere
        BY <1>1, <1>8, ClientCases DEF PInv, Posted, PostedTwo, Others, PostTypes, Somewhere
    <2>2. ctl' \in Seq(Word)
        BY <1>8 DEF ClientGoes
    <2> QED BY <1>1, <1>8, <2>1, <2>2 DEF ClientGoes, PostTypes
<1> QED BY <1>2, <1>3, <1>4, <1>5, <1>6, <1>7, <1>8

LEMMA TypeMap ==
    ASSUME PInv, NEW m \in Maps,
           \/ HandlePacket(m) \/ HandleBeat(m) \/ HandleArrive(m) \/ HandleGone(m)
           \/ HandleCall(m) \/ Leaves(m)
           \/ \E to \in Maps : Teleport(m, to)
    PROVE  PostTypes'
<1> USE DEF world, session, client, hist
<1>1. PostTypes
    BY DEF PInv
<1>2. ASSUME NEW n \in Nat, Reaches(n, m)
      PROVE  handled' \in Seq(Nat) /\ missed' \subseteq [n : Nat, moves : Nat]
    BY <1>1, <1>2 DEF Reaches, PostTypes
<1>3. CASE HandlePacket(m)
    <2>1. Popped(m) /\ mail[m][1].kind = "packet"
        BY <1>1, <1>3, HeadIs DEF HandlePacket
    <2>2. mail[m][1] \in Event /\ Head(mail[m]) = mail[m][1]
        BY <1>1, <2>1, ElementOfSeq DEF PostTypes, Popped, Cut, At
    <2>3. mail[m][1].n \in Nat
        BY <2>1, <2>2 DEF Event, Arrival, Gone
    <2>4. Reaches(mail[m][1].n, m)
        BY <1>1, <1>3, <2>2, <2>3, HandledIs DEF HandlePacket
    <2> QED BY <1>1, <1>2, <1>3, <2>1, <2>3, <2>4 DEF HandlePacket, PostTypes, Popped, Others
<1>4. CASE HandleBeat(m)
    <2>1. Popped(m) /\ mail[m][1].kind = "beat" /\ 1 \in At(m)
        BY <1>1, <1>4, HeadIs DEF HandleBeat
    <2>2. Head(mail[m]) = mail[m][1]
        BY <2>1 DEF Popped, Cut
    <2> DEFINE s == mail[m][1].slot
    <2>3. s \in 1..Len(slots)
        BY <2>1 DEF PInv, InMail, IsOurs, FromClient
    <2>4. slots \in Seq(Nat) /\ slots[s] \in Nat
        BY <1>1, <2>3, ElementOfSeq DEF PostTypes
    <2>5. slots' = [slots EXCEPT ![s] = 0]
        BY <1>4, <2>2 DEF HandleBeat
    <2>6. slots' \in Seq(Nat) /\ Len(slots') = Len(slots)
        BY <2>3, <2>4, <2>5, ExceptSeq
    <2>7. IF slots[s] # 0 THEN Handled(slots[s], m) ELSE UNCHANGED <<handled, missed>>
        BY <1>4, <2>2 DEF HandleBeat, Waiting
    <2>8. handled' \in Seq(Nat) /\ missed' \subseteq [n : Nat, moves : Nat]
        BY <1>1, <1>2, <2>4, <2>7, HandledIs DEF PostTypes
    <2> QED BY <1>1, <1>4, <2>1, <2>6, <2>8 DEF HandleBeat, PostTypes, Popped, Others
<1>5. CASE HandleArrive(m)
    <2>1. Popped(m)
        BY <1>1, <1>5, HeadIs DEF HandleArrive
    <2> QED BY <1>1, <1>5, <2>1 DEF HandleArrive, PostTypes, Popped, Others, Somewhere
<1>6. CASE HandleGone(m)
    <2>1. Popped(m)
        BY <1>1, <1>6, HeadIs DEF HandleGone
    <2> QED BY <1>1, <1>6, <2>1 DEF HandleGone, PostTypes, Popped, Others
<1>7. CASE HandleCall(m)
    <2>1. PICK id \in Nat : CallEnds(m, id)
        BY <1>1, <1>7, CallCases
    <2>2. runs \in Seq(Nat) /\ Append(runs, id) \in Seq(Nat)
        BY <1>1, AppendProperties DEF PostTypes
    <2>3. mail' \in [Maps -> Seq(Event)] /\ ctl' \in Seq(Word) /\ runs' \in Seq(Nat)
        BY <1>1, <2>1, <2>2 DEF CallEnds, Popped, SentOn, Others, CtlPosted, PostTypes
    <2> QED BY <1>1, <1>7, <2>3 DEF HandleCall, CallDealt, PostTypes
<1>8. CASE Leaves(m)
    BY <1>1, <1>8 DEF Leaves, PostTypes, Somewhere
<1>9. ASSUME NEW to \in Maps, Teleport(m, to)
      PROVE  PostTypes'
    <2>1. mail' \in [Maps -> Seq(Event)] /\ ctl' \in Seq(Word) /\ entry' \in Somewhere
        BY <1>1, <1>9, TeleportIs DEF PostedTwo, CtlPosted, Others, PostTypes, Somewhere
    <2> QED BY SMTT(60), <1>1, <1>9, <2>1 DEF Teleport, PostTypes
<1> QED BY <1>3, <1>4, <1>5, <1>6, <1>7, <1>8, <1>9

LEMMA TypeStep ==
    ASSUME PInv, [Next]_vars
    PROVE  PostTypes'
<1>1. PostTypes
    BY DEF PInv
<1>2. CASE CallReads
    BY <1>1, <1>2, CallReadsIs DEF CallReads, NewCall, PostTypes, world, session, client, hist
<1>3. ASSUME NEW id \in DOMAIN calls, CallSent(id)
      PROVE  PostTypes'
    <2>1. calls' \in Seq(ACall) /\ mail' \in [Maps -> Seq(Event)]
        BY <1>1, <1>3, CallSentIs DEF CallChanged, Posted, Others
    <2> QED BY <1>1, <1>3, <2>1 DEF CallSent, PostTypes, world, session, client, hist
<1>4. CASE UNCHANGED vars
    BY <1>1, <1>4 DEF vars, PostTypes
<1> QED BY <1>2, <1>3, <1>4, TypeSession, TypeMap DEF Next

-----------------------------------------------------------------------------
(* Where the player is.                                                   *)
OneArrival ==
    \A m, k \in Maps : \A i \in At(m), j \in At(k) :
        Arrives(m, i) /\ Arrives(k, j) => m = k /\ i = j
ArrivalsKept ==
    /\ OneArrival'
    /\ \A k \in Maps : ArrivalIn(k)' <=> ArrivalIn(k)

LEMMA PopArrivals ==
    ASSUME OneArrival, NEW m \in Maps, Popped(m), ~Arrives(m, 1)
    PROVE  ArrivalsKept
<1>1. \A k \in Maps \ {m} : mail'[k] = mail[k]
    BY DEF Popped, Others
<1>2. ASSUME NEW k \in Maps, NEW i \in At(k)', Arrives(k, i)'
      PROVE  IF k = m THEN i + 1 \in At(k) /\ Arrives(k, i + 1) ELSE i \in At(k) /\ Arrives(k, i)
    BY ZenonT(90), <1>1, <1>2 DEF Popped, Cut, At, Arrives
<1>3. ASSUME NEW k \in Maps, NEW i \in At(k), Arrives(k, i)
      PROVE  IF k = m THEN i - 1 \in At(k)' /\ Arrives(k, i - 1)' ELSE i \in At(k)' /\ Arrives(k, i)'
    <2>1. CASE k = m
        <3>1. i > 1
            BY <1>3, <2>1 DEF At
        <3> QED BY <1>3, <2>1, <3>1 DEF Popped, Cut, At, Arrives
    <2>2. CASE k # m
        BY <1>1, <1>3, <2>2 DEF At, Arrives
    <2> QED BY <2>1, <2>2
<1>4. ASSUME NEW a \in Maps, NEW k \in Maps, NEW i \in At(a)', NEW j \in At(k)',
             Arrives(a, i)', Arrives(k, j)'
      PROVE  a = k /\ i = j
    <2>1. i \in Int /\ j \in Int
        BY DEF At
    <2> QED BY <1>2, <1>4, <2>1 DEF OneArrival
<1>5. OneArrival'
    BY <1>4 DEF OneArrival
<1>6. \A k \in Maps : ArrivalIn(k)' <=> ArrivalIn(k)
    BY <1>2, <1>3 DEF ArrivalIn
<1> QED BY <1>5, <1>6 DEF ArrivalsKept

LEMMA PostArrivals ==
    ASSUME OneArrival, NEW m \in Maps, NEW e, Posted(m, e), e.kind # "arrive"
    PROVE  ArrivalsKept
<1>1. \A k \in Maps \ {m} : mail'[k] = mail[k]
    BY DEF Posted, Others
<1>2. ASSUME NEW k \in Maps, NEW i \in At(k)', Arrives(k, i)'
      PROVE  i \in At(k) /\ Arrives(k, i)
    BY <1>1, <1>2 DEF Posted, Put, At, Arrives
<1>3. ASSUME NEW k \in Maps, NEW i \in At(k), Arrives(k, i)
      PROVE  i \in At(k)' /\ Arrives(k, i)'
    BY <1>1, <1>3 DEF Posted, Put, At, Arrives
<1> QED BY <1>2, <1>3 DEF ArrivalsKept, OneArrival, ArrivalIn

LEMMA SentOnArrivals ==
    ASSUME OneArrival, NEW m \in Maps, NEW t \in Maps, NEW e, SentOn(m, t, e),
           ~Arrives(m, 1), e.kind # "arrive"
    PROVE  ArrivalsKept
<1>1. m # t /\ \A k \in Maps \ {m, t} : mail'[k] = mail[k]
    BY DEF SentOn, Others
<1>2. ASSUME NEW k \in Maps, NEW i \in At(k)', Arrives(k, i)'
      PROVE  IF k = m THEN i + 1 \in At(k) /\ Arrives(k, i + 1) ELSE i \in At(k) /\ Arrives(k, i)
    <2>1. CASE k = m
        BY <1>2, <2>1 DEF SentOn, Cut, At, Arrives
    <2>2. CASE k = t
        BY <1>1, <1>2, <2>2 DEF SentOn, Put, At, Arrives
    <2>3. CASE k # m /\ k # t
        BY <1>1, <1>2, <2>3 DEF At, Arrives
    <2> QED BY <2>1, <2>2, <2>3
<1>3. ASSUME NEW k \in Maps, NEW i \in At(k), Arrives(k, i)
      PROVE  IF k = m THEN i - 1 \in At(k)' /\ Arrives(k, i - 1)' ELSE i \in At(k)' /\ Arrives(k, i)'
    <2>1. CASE k = m
        <3>1. i > 1
            BY <1>3, <2>1 DEF At
        <3> QED BY <1>3, <2>1, <3>1 DEF SentOn, Cut, At, Arrives
    <2>2. CASE k # m
        BY <1>1, <1>3, <2>2 DEF SentOn, Put, At, Arrives
    <2> QED BY <2>1, <2>2
<1>4. ASSUME NEW a \in Maps, NEW k \in Maps, NEW i \in At(a)', NEW j \in At(k)',
             Arrives(a, i)', Arrives(k, j)'
      PROVE  a = k /\ i = j
    <2>1. i \in Int /\ j \in Int
        BY DEF At
    <2> QED BY <1>2, <1>4, <2>1 DEF OneArrival
<1>5. OneArrival'
    BY <1>4 DEF OneArrival
<1>6. \A k \in Maps : ArrivalIn(k)' <=> ArrivalIn(k)
    BY <1>2, <1>3 DEF ArrivalIn
<1> QED BY <1>5, <1>6 DEF ArrivalsKept

(* The player, on their way into m, arrives or sets out.                   *)
LEMMA ArriveArrivals ==
    ASSUME OneArrival, NEW m \in Maps, Popped(m), Arrives(m, 1)
    PROVE  \A k \in Maps : \A i \in At(k)' : ~Arrives(k, i)'
<1>1. \A k \in Maps \ {m} : mail'[k] = mail[k]
    BY DEF Popped, Others
<1>2. ASSUME NEW k \in Maps, NEW i \in At(k)', Arrives(k, i)'
      PROVE  FALSE
    <2>1. CASE k = m
        <3>1. i + 1 \in At(m) /\ Arrives(m, i + 1) /\ i \in Int /\ i >= 1 /\ 1 \in At(m)
            BY <1>2, <2>1 DEF Popped, Cut, At, Arrives
        <3> QED BY <3>1 DEF OneArrival
    <2>2. CASE k # m
        <3>1. i \in At(k) /\ Arrives(k, i) /\ 1 \in At(m)
            BY <1>1, <1>2, <2>2 DEF Popped, Cut, At, Arrives
        <3> QED BY <2>2, <3>1 DEF OneArrival
    <2> QED BY <2>1, <2>2
<1> QED BY <1>2

LEMMA SetsOutOne ==
    ASSUME \A k \in Maps : ~ArrivalIn(k), NEW m \in Maps, Posted(m, Arrival)
    PROVE  OneArrival' /\ ArrivalIn(m)' /\ \A k \in Maps \ {m} : ~ArrivalIn(k)'
<1>1. \A k \in Maps \ {m} : mail'[k] = mail[k]
    BY DEF Posted, Others
<1>2. ASSUME NEW k \in Maps, NEW i \in At(k)', Arrives(k, i)'
      PROVE  k = m /\ i = Len(mail[m]) + 1
    BY <1>1, <1>2 DEF Posted, Put, At, Arrives, ArrivalIn
<1>3. PICK n \in Nat : n = Len(mail[m]) + 1
    BY DEF Posted, Put
<1>4. n \in At(m)' /\ Arrives(m, n)'
    BY <1>3 DEF Posted, Put, At, Arrives, Arrival
<1> QED BY <1>2, <1>3, <1>4 DEF OneArrival, ArrivalIn

LEMMA SetsOutTwo ==
    ASSUME \A k \in Maps : ~ArrivalIn(k), NEW m \in Maps, PostedTwo(m, Arrival, Gone)
    PROVE  OneArrival' /\ ArrivalIn(m)' /\ \A k \in Maps \ {m} : ~ArrivalIn(k)'
<1>1. \A k \in Maps \ {m} : mail'[k] = mail[k]
    BY DEF PostedTwo, Others
<1>2. ASSUME NEW k \in Maps, NEW i \in At(k)', Arrives(k, i)'
      PROVE  k = m /\ i = Len(mail[m]) + 1
    <2>1. Gone.kind # "arrive"
        BY DEF Gone
    <2> QED BY <1>1, <1>2, <2>1 DEF PostedTwo, At, Arrives, ArrivalIn
<1>3. PICK n \in Nat : n = Len(mail[m]) + 1
    BY DEF PostedTwo
<1>4. n \in At(m)' /\ Arrives(m, n)'
    BY <1>3 DEF PostedTwo, At, Arrives, Arrival
<1> QED BY <1>2, <1>3, <1>4 DEF OneArrival, ArrivalIn

(* No word that the client has gone, while they haven't.                   *)
NoneGone == \A k \in Maps : \A i \in At(k) : mail[k][i].kind # "disconnect"

LEMMA StillNoneGone ==
    ASSUME NoneGone, NEW m \in Maps, NEW t \in Maps, NEW e,
           Popped(m) \/ ((Posted(m, e) \/ SentOn(m, t, e)) /\ e.kind # "disconnect")
    PROVE  NoneGone'
<1>1. CASE Popped(m)
    <2>1. ASSUME NEW k \in Maps, NEW i \in At(k)'
          PROVE  mail'[k][i].kind # "disconnect"
        <3>1. CASE k = m
            BY ZenonT(90), <1>1, <2>1, <3>1 DEF Popped, Cut, At, NoneGone
        <3>2. CASE k # m
            BY <1>1, <2>1, <3>2 DEF Popped, Others, At, NoneGone
        <3> QED BY <3>1, <3>2
    <2> QED BY <2>1 DEF NoneGone
<1>2. CASE Posted(m, e) /\ e.kind # "disconnect"
    <2>1. ASSUME NEW k \in Maps, NEW i \in At(k)'
          PROVE  mail'[k][i].kind # "disconnect"
        <3>1. CASE k = m
            BY <1>2, <2>1, <3>1 DEF Posted, Put, At, NoneGone
        <3>2. CASE k # m
            BY <1>2, <2>1, <3>2 DEF Posted, Others, At, NoneGone
        <3> QED BY <3>1, <3>2
    <2> QED BY <2>1 DEF NoneGone
<1>3. CASE SentOn(m, t, e) /\ e.kind # "disconnect"
    <2>1. ASSUME NEW k \in Maps, NEW i \in At(k)'
          PROVE  mail'[k][i].kind # "disconnect"
        <3>1. CASE k = m
            BY ZenonT(90), <1>3, <2>1, <3>1 DEF SentOn, Cut, At, NoneGone
        <3>2. CASE k = t
            BY <1>3, <2>1, <3>2 DEF SentOn, Put, At, NoneGone
        <3>3. CASE k # m /\ k # t
            BY <1>3, <2>1, <3>3 DEF SentOn, Others, At, NoneGone
        <3> QED BY <3>1, <3>2, <3>3
    <2> QED BY <2>1 DEF NoneGone
<1> QED BY <1>1, <1>2, <1>3

Placed == OnePlace /\ Routed

(* With no one's place changed but in line, the player's stays.            *)
LEMMA PlaceKept ==
    ASSUME PostTypes, Placed, ArrivalsKept, live => NoneGone',
           UNCHANGED <<here, entry, live, held, naming, ctl>>, lingering' = lingering \/ ~live,
           hand' = hand \/ (live /\ naming = None)
    PROVE  Placed'
<1>1. OnePlace'
    BY DEF Placed, OnePlace, ArrivalsKept, OneArrival, OnQueue, Passing
<1>2. \A k \in Maps : Coming(k)' <=> Coming(k)
    BY DEF ArrivalsKept, Coming
<1>3. OnQueue' <=> OnQueue
    BY DEF OnQueue, Passing
<1>4. Routed'
    BY <1>2, <1>3 DEF Placed, Routed, NoneGone, ArrivalsKept, PostTypes, Somewhere, Passing
<1> QED BY <1>1, <1>4 DEF Placed

LEMMA PlaceSession ==
    ASSUME PInv,
           \/ \E f \in States : Heartbeat(f)
           \/ OtherPacket \/ SendToMap \/ PassOn \/ Named \/ HearCall \/ ClientGoes
    PROVE  Placed'
<1> USE DEF world, session, client, hist
<1>1. PostTypes /\ Placed /\ OneArrival /\ (live => NoneGone)
    BY DEF PInv, Placed, OneArrival, OnePlace, Routed, NoneGone
<1>2. CASE (\E f \in States : Heartbeat(f)) \/ OtherPacket
    <2>1. /\ live /\ naming = None /\ UNCHANGED <<here, entry, live, held, naming, ctl, mail, lingering>>
        BY <1>2 DEF Heartbeat, Coalesced, InPlace, Marked, AsPacket, OtherPacket, Free
    <2>2. ArrivalsKept
        BY <1>1, <2>1 DEF ArrivalsKept, OneArrival, ArrivalIn, At, Arrives
    <2>3. NoneGone'
        BY <1>1, <2>1 DEF NoneGone, At
    <2> QED BY <1>1, <2>1, <2>2, <2>3, PlaceKept
<1>3. CASE SendToMap
    <2>1. held \in Maps /\ Posted(held, hand)
        BY <1>1, <1>3, SendsHand
    <2>2. hand # None /\ live /\ naming = None /\ FromClient(hand)
        BY <1>3 DEF SendToMap, PInv, InHand, Routed
    <2>3. ArrivalsKept /\ NoneGone'
        BY <1>1, <2>1, <2>2, PostArrivals, StillNoneGone DEF FromClient
    <2> QED BY <1>1, <1>3, <2>2, <2>3, PlaceKept DEF SendToMap
<1>4. CASE PassOn
    <2>1. /\ CtlPopped /\ Passing(1) /\ ctl[1].to \in Maps /\ naming' = ctl[1].to
          /\ Posted(ctl[1].to, Arrival)
        BY <1>1, <1>4, PassOnIs
    <2>2. PICK q \in Maps : q = ctl[1].to
        BY <2>1
    <2>3. OnQueue /\ 1 \in 1..Len(ctl)
        BY <2>1 DEF OnQueue, CtlPopped
    <2>4. here = {} /\ \A k \in Maps : ~ArrivalIn(k)
        BY <2>3 DEF PInv, OnePlace
    <2>5. OneArrival' /\ ArrivalIn(q)' /\ \A k \in Maps \ {q} : ~ArrivalIn(k)'
        BY <2>1, <2>2, <2>4, SetsOutOne
    <2>6. ~OnQueue'
        <3>1. \A i \in 1..Len(ctl) : Passing(i) => i = 1
            BY <2>1, <2>3 DEF PInv, OnePlace
        <3>2. ASSUME NEW i \in 1..Len(ctl'), Passing(i)'
              PROVE  FALSE
            <4>1. i + 1 \in 1..Len(ctl) /\ Passing(i + 1) /\ i \in Nat /\ i >= 1
                BY <2>1, <3>2 DEF CtlPopped, Passing
            <4> QED BY <3>1, <4>1
        <3> QED BY <3>2 DEF OnQueue
    <2>7. here' = {} /\ live /\ live' /\ entry' = entry /\ lingering' = lingering /\ hand' = None
        BY <1>4, <2>4 DEF PassOn, Free
    <2>8. NoneGone'
        BY <1>1, <2>1, <2>2, <2>7, StillNoneGone DEF Arrival
    <2>9. OnePlace'
        BY <2>5, <2>6, <2>7 DEF OnePlace, OneArrival, OnQueue
    <2>10. Routed'
        BY <1>1, <2>1, <2>2, <2>5, <2>6, <2>7, <2>8, PostAssumption
           DEF Placed, Routed, NoneGone, Coming, OnQueue
    <2> QED BY <2>9, <2>10 DEF Placed
<1>5. CASE Named
    <2>1. /\ entry' = naming /\ held' = naming /\ naming' = None /\ naming # None
          /\ UNCHANGED <<here, mail, lingering, live, ctl, hand>>
        BY <1>5 DEF Named
    <2>2. OnePlace'
        BY <1>1, <2>1 DEF Placed, OnePlace, At, Arrives, OnQueue, Passing, ArrivalIn
    <2>3. live /\ naming \in Maps
        BY <1>1, <2>1 DEF Placed, Routed, PostTypes, Somewhere
    <2>4. OnQueue' <=> OnQueue
        BY <2>1 DEF OnQueue, Passing
    <2>5. \A k \in Maps : Coming(k)' <=> Coming(k)
        BY <2>1 DEF Coming, ArrivalIn, At, Arrives
    <2>6. OnQueue => entry' = entry
        BY <1>1, <2>1 DEF Placed, Routed, OnQueue
    <2>7. \A m \in here : m = naming
        BY <1>1, <2>1, <2>3 DEF Placed, Routed, OnePlace, Coming
    <2>8. \A i \in 1..Len(ctl') : Passing(i)' => entry' # ctl'[i].to
        BY <1>1, <2>1, <2>6 DEF Placed, Routed, Passing, OnQueue
    <2>9. Routed'
        BY <1>1, <2>1, <2>3, <2>4, <2>5, <2>7, <2>8, PostAssumption
           DEF Placed, Routed, At, NoneGone
    <2> QED BY <2>2, <2>9 DEF Placed
<1>6. CASE HearCall
    <2>1. PICK id \in 1..Len(calls) :
             id \in Nat /\ QueuedAt(1, id) /\ CtlPopped /\ Posted(held, Call(id, FALSE))
        BY <1>1, <1>6, CallPassedIs DEF PInv, HearCall
    <2>2. /\ live /\ naming = None /\ held \in Maps
          /\ UNCHANGED <<here, entry, live, held, naming, lingering, hand>>
        BY <1>1, <1>6 DEF HearCall, CallPassed, Free, PostTypes
    <2>3. ArrivalsKept /\ NoneGone'
        BY <1>1, <2>1, <2>2, PostArrivals, StillNoneGone DEF Call
    <2>4. ~Passing(1) /\ \A i \in 1..Len(ctl') : Passing(i)' <=> Passing(i + 1)
        BY <2>1 DEF QueuedAt, Passing, CtlPopped
    <2>5. OnQueue' <=> OnQueue
        <3>1. ASSUME NEW i \in 1..Len(ctl), Passing(i)
              PROVE  OnQueue'
            <4>1. i - 1 \in 1..Len(ctl') /\ ctl'[i - 1] = ctl[i]
                <5>1. i # 1 /\ i \in Int /\ i >= 1
                    BY <2>4, <3>1
                <5>2. i - 1 \in 1..Len(ctl') /\ (i - 1) + 1 = i
                    BY <2>1, <5>1, <3>1 DEF CtlPopped
                <5> QED BY <2>1, <5>2 DEF CtlPopped
            <4> QED BY <3>1, <4>1 DEF OnQueue, Passing
        <3> QED BY <2>1, <2>4, <3>1 DEF OnQueue, CtlPopped
    <2>6. \A i, j \in 1..Len(ctl') : Passing(i)' /\ Passing(j)' => i = j
        <3>1. ASSUME NEW i \in 1..Len(ctl'), NEW j \in 1..Len(ctl'), Passing(i)', Passing(j)'
              PROVE  i = j
            <4>1. i + 1 \in 1..Len(ctl) /\ j + 1 \in 1..Len(ctl) /\ Passing(i + 1) /\ Passing(j + 1)
                BY <2>1, <2>4, <3>1 DEF CtlPopped
            <4>2. i + 1 = j + 1 /\ i \in Int /\ j \in Int
                BY <1>1, <4>1 DEF Placed, OnePlace
            <4> QED BY <4>2
        <3> QED BY <3>1
    <2>7. OnePlace'
        BY <1>1, <2>2, <2>3, <2>5, <2>6 DEF Placed, OnePlace, ArrivalsKept, OneArrival
    <2>8. \A k \in Maps : Coming(k)' <=> Coming(k)
        BY <2>2, <2>3 DEF ArrivalsKept, Coming
    <2>9. \A i \in 1..Len(ctl') : Passing(i)' => entry' # ctl'[i].to
        BY <1>1, <2>1, <2>2, <2>4 DEF Placed, Routed, CtlPopped
    <2>10. Routed'
        BY <1>1, <2>2, <2>3, <2>5, <2>8, <2>9 DEF Placed, Routed, NoneGone, ArrivalsKept
    <2> QED BY <2>7, <2>10 DEF Placed
<1>7. CASE ClientGoes
    <2>1. /\ live /\ ~live' /\ naming = None /\ naming' = None /\ hand' = None /\ ctl' = <<>>
          /\ here' = here /\ lingering' = lingering /\ held \in Maps
        BY <1>1, <1>7 DEF ClientGoes, PostTypes
    <2>2. Len(ctl') = 0 /\ ~OnQueue'
        BY <2>1 DEF OnQueue
    <2>3. CASE ~OnQueue /\ Posted(held, Gone) /\ held' = held /\ entry' = entry
        <3>1. ArrivalsKept
            BY <1>1, <2>1, <2>3, PostArrivals DEF Gone
        <3>2. \A k \in Maps : Coming(k)' <=> Coming(k)
            BY <2>1, <3>1 DEF ArrivalsKept, Coming
        <3>3. Coming(held) /\ entry # None /\ entry \in Maps
            BY <1>1, <2>1, <2>3 DEF Placed, Routed, PostTypes, Somewhere
        <3>4. OnePlace'
            BY <1>1, <2>1, <2>2, <3>1 DEF Placed, OnePlace, ArrivalsKept, OneArrival
        <3>5. entry = held
            BY <1>1, <2>1 DEF Placed, Routed
        <3>6. Routed'
            BY <1>1, <2>1, <2>2, <2>3, <3>2, <3>3, <3>5 DEF Placed, Routed
        <3> QED BY <3>4, <3>6 DEF Placed
    <2>4. ASSUME NEW i \in 1..Len(ctl), Passing(i), ctl[i].to \in Maps,
                 PostedTwo(ctl[i].to, Arrival, Gone), held' = ctl[i].to, entry' = ctl[i].to
          PROVE  Placed'
        <3>1. PICK q \in Maps : q = ctl[i].to
            BY <2>4
        <3>2. here = {} /\ \A k \in Maps : ~ArrivalIn(k)
            BY <2>4 DEF PInv, OnePlace, OnQueue
        <3>3. OneArrival' /\ ArrivalIn(q)' /\ \A k \in Maps \ {q} : ~ArrivalIn(k)'
            BY <2>4, <3>1, <3>2, SetsOutTwo
        <3>4. OnePlace'
            BY <2>1, <2>2, <3>2, <3>3 DEF OnePlace, OneArrival
        <3>5. Routed'
            BY <2>1, <2>2, <2>4, <3>1, <3>2, <3>3, PostAssumption DEF Routed, Coming
        <3> QED BY <3>4, <3>5 DEF Placed
    <2> QED BY <1>1, <1>7, <2>3, <2>4, ClientCases DEF Placed
<1> QED BY <1>2, <1>3, <1>4, <1>5, <1>6, <1>7

LEMMA PlaceMap ==
    ASSUME PInv, NEW m \in Maps,
           \/ HandlePacket(m) \/ HandleBeat(m) \/ HandleArrive(m) \/ HandleGone(m)
           \/ HandleCall(m) \/ Leaves(m)
           \/ \E to \in Maps : Teleport(m, to)
    PROVE  Placed'
<1> USE DEF world, session, client, hist
<1>1. PostTypes /\ Placed /\ OneArrival /\ (live => NoneGone)
    BY DEF PInv, Placed, OneArrival, OnePlace, Routed, NoneGone
<1>2. CASE HandlePacket(m) \/ HandleBeat(m)
    <2>1. Popped(m) /\ ~Arrives(m, 1)
        BY <1>1, <1>2, HeadIs DEF HandlePacket, HandleBeat, Arrives
    <2>2. ArrivalsKept /\ (live => NoneGone')
        BY <1>1, <2>1, PopArrivals, StillNoneGone
    <2> QED BY <1>1, <1>2, <2>2, PlaceKept DEF HandlePacket, HandleBeat
<1>3. CASE HandleArrive(m)
    <2>1. Popped(m) /\ Arrives(m, 1) /\ 1 \in At(m)
        BY <1>1, <1>3, HeadIs DEF HandleArrive, Arrives
    <2>2. \A k \in Maps : \A i \in At(k)' : ~Arrives(k, i)'
        BY <1>1, <2>1, ArriveArrivals
    <2>3. live => NoneGone'
        BY <1>1, <2>1, StillNoneGone
    <2>4. here = {} /\ ~OnQueue /\ ArrivalIn(m) /\ \A k \in Maps : ArrivalIn(k) => k = m
        BY <1>1, <2>1 DEF Placed, OnePlace, OneArrival, ArrivalIn
    <2>5. /\ here' = {m} /\ entry' = m
          /\ UNCHANGED <<lingering, live, held, naming, hand, ctl>>
        BY <1>3, <2>4 DEF HandleArrive
    <2>6. OnePlace'
        BY <1>1, <2>2, <2>4, <2>5 DEF Placed, OnePlace, OneArrival, ArrivalIn, OnQueue, Passing
    <2>7. \A k \in Maps : Coming(k) => k = m
        BY <2>4 DEF Coming
    <2>8. \A i \in 1..Len(ctl) : ~Passing(i)
        BY <2>4 DEF OnQueue
    <2>9. Coming(m)'
        BY <2>5 DEF Coming
    <2>10. m # None
        BY PostAssumption
    <2>11. live => \/ naming = m
                   \/ naming = None /\ held = m
        BY <1>1, <2>4, <2>7 DEF Placed, Routed, PostTypes, Somewhere
    <2>12. (live => NoneGone') /\ \A i \in 1..Len(ctl') : ~Passing(i)'
        BY <2>3, <2>5, <2>8 DEF Passing
    <2>13. Routed'
        BY <1>1, <2>5, <2>9, <2>10, <2>11, <2>12 DEF Placed, Routed, NoneGone
    <2> QED BY <2>6, <2>13 DEF Placed
<1>4. CASE HandleGone(m)
    <2>0. Heads(m, "disconnect") /\ mail' = [mail EXCEPT ![m] = Tail(@)]
        BY <1>4 DEF HandleGone
    <2>1. Popped(m) /\ ~Arrives(m, 1) /\ mail[m][1].kind = "disconnect" /\ 1 \in At(m)
        <3>1. Popped(m) /\ mail[m][1].kind = "disconnect" /\ 1 \in At(m)
            BY <1>1, <2>0, HeadIs
        <3> QED BY <3>1 DEF Arrives
    <2>2. ~live /\ ArrivalsKept
        BY <1>1, <2>1, PopArrivals DEF NoneGone
    <2> QED BY <1>1, <1>4, <2>2, PlaceKept DEF HandleGone, PostTypes
<1>5. CASE HandleCall(m)
    <2>1. PICK id \in Nat : mail[m][1].kind = "call" /\ CallEnds(m, id)
        BY <1>1, <1>5, CallCases
    <2>2. UNCHANGED <<here, entry, live, held, naming, hand, lingering>>
        BY <1>5 DEF HandleCall, CallDealt
    <2>3. ~Arrives(m, 1)
        BY <2>1 DEF Arrives
    <2>4. CASE Popped(m) /\ ctl' = ctl
        <3>1. ArrivalsKept /\ (live => NoneGone')
            BY <1>1, <2>3, <2>4, PopArrivals, StillNoneGone
        <3> QED BY <1>1, <2>2, <2>4, <3>1, PlaceKept
    <2>5. CASE Popped(m) /\ live /\ CtlPosted(ToPlayer(id))
        <3>1. ArrivalsKept /\ NoneGone'
            BY <1>1, <2>3, <2>5, PopArrivals, StillNoneGone
        <3>2. ASSUME NEW i \in 1..Len(ctl'), Passing(i)'
              PROVE  i \in 1..Len(ctl) /\ Passing(i) /\ ctl'[i] = ctl[i]
            BY <2>5, <3>2 DEF CtlPosted, Passing, ToPlayer
        <3>3. ASSUME NEW i \in 1..Len(ctl), Passing(i)
              PROVE  i \in 1..Len(ctl') /\ Passing(i)'
            BY <2>5, <3>3 DEF CtlPosted, Passing
        <3>4. OnQueue' <=> OnQueue
            BY <3>2, <3>3 DEF OnQueue
        <3>5. OnePlace'
            BY <1>1, <2>2, <3>1, <3>2, <3>4 DEF Placed, OnePlace, ArrivalsKept, OneArrival
        <3>6. \A k \in Maps : Coming(k)' <=> Coming(k)
            BY <2>2, <3>1 DEF ArrivalsKept, Coming
        <3>7. Routed'
            BY <1>1, <2>2, <2>5, <3>1, <3>2, <3>4, <3>6 DEF Placed, Routed, NoneGone, ArrivalsKept, PostTypes, Somewhere
        <3> QED BY <3>5, <3>7 DEF Placed
    <2>6. CASE entry \in Maps /\ SentOn(m, entry, Call(id, FALSE)) /\ ctl' = ctl
        <3>1. PICK t \in Maps : t = entry
            BY <2>6
        <3>2. ArrivalsKept /\ (live => NoneGone')
            BY <1>1, <2>3, <2>6, <3>1, SentOnArrivals, StillNoneGone DEF Call
        <3> QED BY <1>1, <2>2, <2>6, <3>2, PlaceKept
    <2> QED BY <2>1, <2>4, <2>5, <2>6 DEF CallEnds
<1>6. CASE Leaves(m)
    <2>1. /\ here' = here \ {m} /\ m \in here /\ lingering /\ entry' = None
          /\ UNCHANGED <<mail, lingering, live, held, naming, hand, ctl>>
        BY <1>6 DEF Leaves
    <2>2. here' = {} /\ ~live
        BY <1>1, <2>1 DEF Placed, OnePlace, Routed
    <2>3. ~OnQueue' /\ \A k \in Maps : ~ArrivalIn(k)'
        BY <1>1, <2>1 DEF Placed, OnePlace, OnQueue, Passing, ArrivalIn, At, Arrives
    <2>4. OnePlace'
        BY <2>2, <2>3 DEF OnePlace, OnQueue, ArrivalIn
    <2>5. Routed'
        BY <1>1, <2>1, <2>2, <2>3 DEF Placed, Routed, OnQueue
    <2> QED BY <2>4, <2>5 DEF Placed
<1>7. ASSUME NEW to \in Maps, Teleport(m, to)
      PROVE  Placed'
    <2>1. /\ m \in here /\ to # m /\ here' = here \ {m}
          /\ UNCHANGED <<lingering, live, held, naming, hand>>
        BY <1>7 DEF Teleport
    <2>2. here' = {} /\ ~OnQueue /\ entry = m /\ \A k \in Maps : ~ArrivalIn(k)
        BY <1>1, <2>1 DEF Placed, OnePlace, Routed
    <2>3. CASE live /\ CtlPosted(Transfer(to)) /\ mail' = mail /\ entry' = entry
        <3>1. \A k \in Maps : ~ArrivalIn(k)'
            BY <2>2, <2>3 DEF ArrivalIn, At, Arrives
        <3>2. ASSUME NEW i \in 1..Len(ctl'), Passing(i)'
              PROVE  i = Len(ctl) + 1 /\ ctl'[i].to = to
            <4>1. i \notin 1..Len(ctl)
                BY <2>2, <2>3, <3>2 DEF CtlPosted, OnQueue, Passing
            <4> QED BY <2>3, <4>1 DEF CtlPosted, Transfer
        <3>3. OnQueue'
            <4>1. Len(ctl) + 1 \in 1..Len(ctl') /\ ctl'[Len(ctl) + 1].kind = "transfer"
                BY <2>3 DEF CtlPosted, Transfer
            <4> QED BY <4>1 DEF OnQueue, Passing
        <3>4. OnePlace'
            BY <2>2, <3>1, <3>2 DEF OnePlace, ArrivalIn
        <3>5. naming # None => naming = m
            <4>1. naming # None => naming \in Maps /\ Coming(naming)
                BY <1>1, <2>2, <2>3 DEF Placed, Routed, PostTypes, Somewhere
            <4> QED BY <1>1, <2>1, <2>2, <4>1 DEF Placed, OnePlace, Coming
        <3>6. NoneGone'
            BY <1>1, <2>3 DEF NoneGone, At
        <3>7. Routed'
            BY <1>1, <2>1, <2>2, <2>3, <3>1, <3>2, <3>3, <3>5, <3>6 DEF Placed, Routed, NoneGone
        <3> QED BY <3>4, <3>7 DEF Placed
    <2>4. CASE ~live /\ PostedTwo(to, Arrival, Gone) /\ entry' = to /\ ctl' = ctl
        <3>1. OneArrival' /\ ArrivalIn(to)' /\ \A k \in Maps \ {to} : ~ArrivalIn(k)'
            BY <2>2, <2>4, SetsOutTwo
        <3>2. ~OnQueue'
            BY <2>2, <2>4 DEF OnQueue, Passing
        <3>3. OnePlace'
            BY <2>2, <3>1, <3>2 DEF OnePlace, OneArrival, OnQueue
        <3>4. Routed'
            BY <1>1, <2>1, <2>2, <2>4, <3>1, <3>2, PostAssumption DEF Placed, Routed, Coming, OnQueue
        <3> QED BY <3>3, <3>4 DEF Placed
    <2> QED BY <1>1, <1>7, <2>3, <2>4, TeleportIs
<1> QED BY <1>2, <1>3, <1>4, <1>5, <1>6, <1>7

(* A player is in one place, and where session and entry have them.        *)
LEMMA PlaceStep ==
    ASSUME PInv, [Next]_vars
    PROVE  Placed'
<1> USE DEF world, session, client, hist
<1>1. PostTypes /\ Placed /\ OneArrival /\ (live => NoneGone)
    BY DEF PInv, Placed, OneArrival, OnePlace, Routed, NoneGone
<1>2. CASE CallReads \/ UNCHANGED vars
    <2>1. UNCHANGED <<here, entry, live, held, naming, ctl, mail, lingering, hand>>
        BY <1>2 DEF CallReads, vars
    <2>2. ArrivalsKept
        BY <1>1, <2>1 DEF ArrivalsKept, OneArrival, ArrivalIn, At, Arrives
    <2>3. live => NoneGone'
        BY <1>1, <2>1 DEF NoneGone, At
    <2> QED BY <1>1, <2>1, <2>2, <2>3, PlaceKept
<1>3. ASSUME NEW id \in DOMAIN calls, CallSent(id)
      PROVE  Placed'
    <2>1. calls[id].to \in Maps /\ Posted(calls[id].to, Call(id, TRUE))
        BY <1>1, <1>3, CallSentIs
    <2>2. ArrivalsKept /\ (live => NoneGone')
        BY <1>1, <2>1, PostArrivals, StillNoneGone DEF Call
    <2> QED BY <1>1, <1>3, <2>2, PlaceKept DEF CallSent
<1> QED BY <1>2, <1>3, PlaceSession, PlaceMap DEF Next

-----------------------------------------------------------------------------
(* Events keep their order: what was in a mailbox moves up by as many as   *)
(* were taken, and what is new comes behind it.                           *)
Carried(k, d) ==
    /\ \A i \in At(k)' : i + d \in At(k) =>
          mail'[k][i] = mail[k][i + d] /\ (Reached(k, i)' <=> Reached(k, i + d))
    /\ \A i \in At(k) : i > d => i - d \in At(k)'
Behindhand(k, d, S) == \A i \in At(k)' : i + d \in At(k) \/ (i + d > Len(mail[k]) /\ mail'[k][i] \in S)
Carries(S) == \A k \in Maps : \E d \in {0, 1} : Carried(k, d) /\ Behindhand(k, d, S)

LEMMA StayCarried ==
    ASSUME NEW k \in Maps, mail'[k] = mail[k], k \in here' <=> k \in here, NEW S
    PROVE  Carried(k, 0) /\ Behindhand(k, 0, S)
<1>1. At(k)' = At(k) /\ \A i \in At(k) : i \in Int /\ i + 0 = i /\ i - 0 = i
    BY DEF At
<1>2. \A i \in At(k) : Reached(k, i)' <=> Reached(k, i)
    BY DEF Reached, Arrives
<1> QED BY <1>1, <1>2 DEF Carried, Behindhand

LEMMA CutCarried ==
    ASSUME NEW m \in Maps, Cut(m), NEW S,
           \/ ~Arrives(m, 1) /\ (m \in here' <=> m \in here)
           \/ Arrives(m, 1) /\ m \in here'
    PROVE  Carried(m, 1) /\ Behindhand(m, 1, S)
<1>1. \A i \in At(m)' : i + 1 \in At(m) /\ mail'[m][i] = mail[m][i + 1] /\ i \in Nat /\ i >= 1
    BY DEF Cut, At
<1>2. \A i \in At(m) : i > 1 => i - 1 \in At(m)' /\ mail'[m][i - 1] = mail[m][i]
    BY DEF Cut, At
<1>3. ASSUME NEW i \in At(m)', Reached(m, i)'
      PROVE  Reached(m, i + 1)
    <2>1. CASE Arrives(m, 1)
        <3>1. 1 \in 1..((i + 1) - 1)
            BY <1>1
        <3> QED BY <2>1, <3>1 DEF Reached
    <2>2. CASE ~Arrives(m, 1) /\ m \notin here
        <3>1. PICK j \in 1..(i - 1) : Arrives(m, j)'
            BY <1>3, <2>2 DEF Reached
        <3>2. j \in At(m)' /\ j + 1 \in 1..((i + 1) - 1)
            BY <1>1, <3>1 DEF At
        <3>3. Arrives(m, j + 1)
            BY <1>1, <3>1, <3>2 DEF Arrives
        <3> QED BY <3>2, <3>3 DEF Reached
    <2> QED BY <2>1, <2>2 DEF Reached
<1>4. ASSUME NEW i \in At(m)', Reached(m, i + 1)
      PROVE  Reached(m, i)'
    <2>1. CASE Arrives(m, 1)
        BY <2>1 DEF Reached
    <2>2. CASE ~Arrives(m, 1) /\ m \notin here
        <3>1. PICK j \in 1..((i + 1) - 1) : Arrives(m, j)
            BY <1>4, <2>2 DEF Reached
        <3>2. j > 1 /\ j \in At(m) /\ j - 1 \in 1..(i - 1)
            BY <1>1, <2>2, <3>1 DEF At
        <3>3. Arrives(m, j - 1)'
            BY <1>2, <3>1, <3>2 DEF Arrives
        <3> QED BY <3>2, <3>3 DEF Reached
    <2> QED BY <2>1, <2>2 DEF Reached
<1> QED BY <1>1, <1>2, <1>3, <1>4 DEF Carried, Behindhand

LEMMA PutCarried ==
    ASSUME NEW m \in Maps, NEW e, Put(m, e), m \in here' <=> m \in here
    PROVE  /\ Carried(m, 0) /\ Behindhand(m, 0, {e})
           /\ \A i \in At(m)' : i \in At(m) \/ (i = Len(mail[m]) + 1 /\ mail'[m][i] = e
                                               /\ (Reached(m, i)' <=> Coming(m)))
<1>1. Len(mail[m]) \in Nat /\ Len(mail'[m]) = Len(mail[m]) + 1 /\ At(m) = 1..Len(mail[m])
    BY DEF Put, At
<1>2. \A i \in At(m) : i \in At(m)' /\ mail'[m][i] = mail[m][i] /\ i \in Int /\ i + 0 = i /\ i - 0 = i
    BY <1>1 DEF Put, At
<1>3. ASSUME NEW i \in At(m)'
      PROVE  i \in At(m) \/ (i = Len(mail[m]) + 1 /\ i + 0 = i /\ i - 0 = i /\ mail'[m][i] = e)
    BY <1>1 DEF Put, At
<1>4. ASSUME NEW i \in At(m)'
      PROVE  \A j \in 1..(i - 1) : j \in At(m) /\ (Arrives(m, j)' <=> Arrives(m, j))
    <2>1. \A j \in 1..(i - 1) : j \in At(m)
        BY <1>1 DEF At
    <2> QED BY <1>2, <2>1 DEF Arrives
<1>5. \A i \in At(m)' : Reached(m, i)' <=> Reached(m, i)
    BY <1>4 DEF Reached
<1>6. ASSUME NEW i \in At(m)', i = Len(mail[m]) + 1
      PROVE  Reached(m, i) <=> Coming(m)
    <2>1. 1..(i - 1) = At(m)
        BY <1>1, <1>6
    <2> QED BY <2>1 DEF Reached, Coming, ArrivalIn
<1> QED BY <1>1, <1>2, <1>3, <1>5, <1>6 DEF Carried, Behindhand

LEMMA PutTwoCarried ==
    ASSUME NEW m \in Maps, NEW e, NEW f, PostedTwo(m, e, f), m \in here' <=> m \in here
    PROVE  Carried(m, 0) /\ Behindhand(m, 0, {e, f})
<1>1. Len(mail[m]) \in Nat /\ Len(mail'[m]) = Len(mail[m]) + 2 /\ At(m) = 1..Len(mail[m])
    BY DEF PostedTwo, At
<1>2. \A i \in At(m) : i \in At(m)' /\ mail'[m][i] = mail[m][i] /\ i \in Int /\ i + 0 = i /\ i - 0 = i
    BY <1>1 DEF PostedTwo, At
<1>3. ASSUME NEW i \in At(m)', i \notin At(m)
      PROVE  i + 0 = i /\ i > Len(mail[m]) /\ mail'[m][i] \in {e, f}
    <2>1. i = Len(mail[m]) + 1 \/ i = Len(mail[m]) + 2
        BY <1>1, <1>3 DEF At
    <2> QED BY <1>1, <2>1 DEF PostedTwo
<1>4. ASSUME NEW i \in At(m)', i \in At(m)
      PROVE  \A j \in 1..(i - 1) : j \in At(m) /\ (Arrives(m, j)' <=> Arrives(m, j))
    <2>1. \A j \in 1..(i - 1) : j \in At(m)
        BY <1>1, <1>4 DEF At
    <2> QED BY <1>2, <2>1 DEF Arrives
<1>5. \A i \in At(m)' : i \in At(m) => (Reached(m, i)' <=> Reached(m, i))
    BY <1>4 DEF Reached
<1> QED BY <1>1, <1>2, <1>3, <1>5 DEF Carried, Behindhand

LEMMA SameCarries ==
    ASSUME mail' = mail, here' = here
    PROVE  Carries({})
BY StayCarried DEF Carries

LEMMA PopCarries ==
    ASSUME NEW m \in Maps, Popped(m), ~Arrives(m, 1), here' = here
    PROVE  Carries({})
<1>1. Carried(m, 1) /\ Behindhand(m, 1, {})
    BY CutCarried DEF Popped
<1>2. \A k \in Maps \ {m} : Carried(k, 0) /\ Behindhand(k, 0, {})
    BY StayCarried DEF Popped, Others
<1> QED BY <1>1, <1>2 DEF Carries

LEMMA ArriveCarries ==
    ASSUME NEW m \in Maps, Popped(m), Arrives(m, 1), here = {}, here' = {m}
    PROVE  Carries({})
<1>1. Carried(m, 1) /\ Behindhand(m, 1, {})
    BY CutCarried DEF Popped
<1>2. \A k \in Maps \ {m} : Carried(k, 0) /\ Behindhand(k, 0, {})
    BY StayCarried DEF Popped, Others
<1> QED BY <1>1, <1>2 DEF Carries

LEMMA PostCarries ==
    ASSUME NEW m \in Maps, NEW e, Posted(m, e), here' = here
    PROVE  Carries({e})
<1>1. Carried(m, 0) /\ Behindhand(m, 0, {e})
    BY PutCarried DEF Posted
<1>2. \A k \in Maps \ {m} : Carried(k, 0) /\ Behindhand(k, 0, {e})
    BY StayCarried DEF Posted, Others
<1> QED BY <1>1, <1>2 DEF Carries

LEMMA PostTwoCarries ==
    ASSUME NEW m \in Maps, NEW e, NEW f, PostedTwo(m, e, f), here' = here
    PROVE  Carries({e, f})
<1>1. Carried(m, 0) /\ Behindhand(m, 0, {e, f})
    BY PutTwoCarried
<1>2. \A k \in Maps \ {m} : Carried(k, 0) /\ Behindhand(k, 0, {e, f})
    BY StayCarried DEF PostedTwo, Others
<1> QED BY <1>1, <1>2 DEF Carries

LEMMA SentOnCarries ==
    ASSUME NEW m \in Maps, NEW t \in Maps, NEW e, SentOn(m, t, e), ~Arrives(m, 1), here' = here
    PROVE  Carries({e})
<1>1. Carried(m, 1) /\ Behindhand(m, 1, {e})
    BY CutCarried DEF SentOn
<1>2. Carried(t, 0) /\ Behindhand(t, 0, {e})
    BY PutCarried DEF SentOn
<1>3. \A k \in Maps \ {m, t} : Carried(k, 0) /\ Behindhand(k, 0, {e})
    BY StayCarried DEF SentOn, Others
<1> QED BY <1>1, <1>2, <1>3 DEF Carries

(* The same, of a step that takes the player out: they are there for less. *)
CarriedDown(k, d) ==
    /\ \A i \in At(k)' : i + d \in At(k) =>
          mail'[k][i] = mail[k][i + d] /\ (Reached(k, i)' => Reached(k, i + d))
    /\ \A i \in At(k) : i > d => i - d \in At(k)'
CarriesDown(S) == \A k \in Maps : \E d \in {0, 1} : CarriedDown(k, d) /\ Behindhand(k, d, S)

LEMMA Down ==
    ASSUME NEW S, Carries(S)
    PROVE  CarriesDown(S)
BY DEF Carries, CarriesDown, Carried, CarriedDown

LEMMA OutCarries ==
    ASSUME mail' = mail, here' = {}, \A k \in Maps : ~ArrivalIn(k), NEW S
    PROVE  CarriesDown(S)
<1> SUFFICES ASSUME NEW k \in Maps
             PROVE  CarriedDown(k, 0) /\ Behindhand(k, 0, S)
    BY DEF CarriesDown
<1>1. At(k)' = At(k) /\ \A i \in At(k) : i \in Int /\ i + 0 = i /\ i - 0 = i
    BY DEF At
<1>2. ASSUME NEW i \in At(k)', Reached(k, i)'
      PROVE  FALSE
    <2>1. PICK j \in 1..(i - 1) : Arrives(k, j)'
        BY <1>2 DEF Reached
    <2>2. j \in At(k) /\ Arrives(k, j)
        <3>1. i \in 1..Len(mail[k])
            BY <1>1 DEF At
        <3>2. j \in 1..Len(mail[k])
            BY <2>1, <3>1
        <3> QED BY <2>1, <3>2 DEF At, Arrives
    <2> QED BY <2>2 DEF ArrivalIn
<1> QED BY <1>1, <1>2 DEF CarriedDown, Behindhand

LEMMA SetOutCarries ==
    ASSUME NEW m \in Maps, PostedTwo(m, Arrival, Gone), here' = {}, \A k \in Maps : ~ArrivalIn(k)
    PROVE  CarriesDown({Arrival, Gone})
<1>1. ASSUME NEW k \in Maps, NEW i \in At(k)', i \in At(k), Reached(k, i)'
      PROVE  FALSE
    <2>1. PICK j \in 1..(i - 1) : Arrives(k, j)'
        BY <1>1 DEF Reached
    <2>2. j \in At(k)
        <3>1. i \in 1..Len(mail[k]) /\ j \in 1..(i - 1)
            BY <1>1, <2>1 DEF At
        <3>2. j \in 1..Len(mail[k])
            BY <3>1
        <3> QED BY <3>2 DEF At
    <2>3. Arrives(k, j)
        BY <2>1, <2>2 DEF PostedTwo, Others, Arrives
    <2> QED BY <1>1, <2>2, <2>3 DEF ArrivalIn
<1>2. ASSUME NEW k \in Maps
      PROVE  CarriedDown(k, 0) /\ Behindhand(k, 0, {Arrival, Gone})
    <2>1. CASE k = m
        <3>1. Len(mail[m]) \in Nat /\ Len(mail'[m]) = Len(mail[m]) + 2 /\ At(m) = 1..Len(mail[m])
            BY DEF PostedTwo, At
        <3>2. \A i \in At(m) : i \in At(m)' /\ mail'[m][i] = mail[m][i] /\ i \in Int /\ i + 0 = i /\ i - 0 = i
            BY <3>1 DEF PostedTwo, At
        <3>3. ASSUME NEW i \in At(m)', i \notin At(m)
              PROVE  i + 0 = i /\ i > Len(mail[m]) /\ mail'[m][i] \in {Arrival, Gone}
            <4>1. i = Len(mail[m]) + 1 \/ i = Len(mail[m]) + 2
                BY <3>1, <3>3 DEF At
            <4> QED BY <3>1, <4>1 DEF PostedTwo
        <3> QED BY <1>1, <2>1, <3>2, <3>3 DEF CarriedDown, Behindhand
    <2>2. CASE k # m
        <3>1. mail'[k] = mail[k]
            BY <2>2 DEF PostedTwo, Others
        <3>2. At(k)' = At(k) /\ \A i \in At(k) : i \in Int /\ i + 0 = i /\ i - 0 = i
            BY <3>1 DEF At
        <3> QED BY <1>1, <3>1, <3>2 DEF CarriedDown, Behindhand
    <2> QED BY <2>1, <2>2
<1> QED BY <1>2 DEF CarriesDown

-----------------------------------------------------------------------------
(* What the client sent.  A step that leaves that alone, and puts nothing  *)
(* of theirs in a mailbox:                                                *)

Numbers == InMail /\ InHand /\ Ahead /\ Done /\ Beats
Aside(S) ==
    /\ CarriesDown(S) /\ \A e \in S : ~FromClient(e)
    /\ UNCHANGED <<packets, beat>>
    /\ Len(slots') = Len(slots) /\ \A s \in 1..Len(slots) : slots'[s] \in {slots[s], 0}
    /\ \A k \in Maps : \A i \in At(k)' : mail'[k][i].kind = "beat" =>
          slots'[mail'[k][i].slot] = slots[mail'[k][i].slot]
    /\ hand' = None \/ (/\ UNCHANGED <<hand, held>>
                        /\ hand.kind = "beat" => slots'[hand.slot] = slots[hand.slot])
    /\ (live' => live) /\ (beatLast' => beatLast)
    /\ live' /\ beatLast' =>
          /\ \A e \in S : e.kind = "call" => calls'[e.id].via = None
          /\ Len(calls) \in Nat /\ Len(calls') \in Nat /\ Len(calls') >= Len(calls)
          /\ \A id \in 1..Len(calls) : calls'[id].via = calls[id].via

LEMMA AsideIs ==
    ASSUME NEW S, CarriesDown(S), \A e \in S : ~FromClient(e), NEW k \in Maps
    PROVE  \E d \in {0, 1} :
              /\ \A i \in At(k)' : FromClient(mail'[k][i]) \/ mail'[k][i].kind = "call" =>
                    \/ /\ i + d \in At(k) /\ mail'[k][i] = mail[k][i + d]
                       /\ Reached(k, i)' => Reached(k, i + d)
                    \/ mail'[k][i].kind = "call" /\ mail'[k][i] \in S
              /\ \A i \in At(k)' : i \in Int /\ d \in Int
<1>1. PICK d \in {0, 1} : CarriedDown(k, d) /\ Behindhand(k, d, S)
    BY DEF CarriesDown
<1>2. \A i \in At(k)' : i \in Int
    BY DEF At
<1>3. d \in Int
    OBVIOUS
<1>4. ASSUME NEW i \in At(k)', i + d \in At(k)
      PROVE  mail'[k][i] = mail[k][i + d] /\ (Reached(k, i)' => Reached(k, i + d))
    BY <1>1, <1>4 DEF CarriedDown
<1>5. ASSUME NEW i \in At(k)', ~(i + d \in At(k))
      PROVE  mail'[k][i] \in S /\ ~FromClient(mail'[k][i])
    BY <1>1, <1>5 DEF Behindhand
<1> QED BY <1>2, <1>3, <1>4, <1>5

(* ... what is in the mailboxes stays in order,                            *)
LEMMA MailAside ==
    ASSUME InMail, NEW S, Aside(S)
    PROVE  InMail' /\ (Ahead /\ handled' = handled => Ahead')
<1>1. ASSUME NEW k \in Maps
      PROVE  \E d \in {0, 1} :
                /\ \A j \in At(k)' : FromClient(mail'[k][j]) =>
                      /\ j + d \in At(k) /\ mail'[k][j] = mail[k][j + d]
                      /\ Reached(k, j)' => Reached(k, j + d)
                      /\ Num(mail[k][j])' = Num(mail[k][j + d])
                /\ \A j \in At(k)' : j \in Int /\ d \in Int
    <2>1. PICK d \in {0, 1} :
             /\ \A j \in At(k)' : FromClient(mail'[k][j]) =>
                   /\ j + d \in At(k) /\ mail'[k][j] = mail[k][j + d]
                   /\ Reached(k, j)' => Reached(k, j + d)
             /\ \A j \in At(k)' : j \in Int /\ d \in Int
        BY AsideIs DEF Aside, FromClient
    <2>2. ASSUME NEW j \in At(k)', FromClient(mail'[k][j])
          PROVE  Num(mail[k][j])' = Num(mail[k][j + d])
        BY <2>1, <2>2 DEF Num, Aside, FromClient
    <2> QED BY <2>1, <2>2
<1>2. ASSUME NEW k \in Maps, NEW i \in At(k)', FromClient(mail'[k][i])
      PROVE  /\ IsOurs(mail[k][i])'
             /\ \A j \in At(k)' : j < i /\ FromClient(mail'[k][j])
                                    => Num(mail[k][j])' < Num(mail[k][i])'
             /\ hand' # None => Num(mail[k][i])' < Len(packets')
             /\ Ahead /\ handled' = handled /\ Reached(k, i)' =>
                   \A n \in 1..Len(handled') : handled'[n] < Num(mail[k][i])'
    <2>1. PICK d \in {0, 1} :
             /\ \A j \in At(k)' : FromClient(mail'[k][j]) =>
                   /\ j + d \in At(k) /\ mail'[k][j] = mail[k][j + d]
                   /\ Reached(k, j)' => Reached(k, j + d)
                   /\ Num(mail[k][j])' = Num(mail[k][j + d])
             /\ \A j \in At(k)' : j \in Int /\ d \in Int
        BY <1>1
    <2>2. /\ i + d \in At(k) /\ mail'[k][i] = mail[k][i + d] /\ FromClient(mail[k][i + d])
          /\ Reached(k, i)' => Reached(k, i + d)
          /\ Num(mail[k][i])' = Num(mail[k][i + d])
        BY <1>2, <2>1
    <2>3. IsOurs(mail[k][i])'
        BY <2>2 DEF InMail, IsOurs, Aside
    <2>4. ASSUME NEW j \in At(k)', j < i, FromClient(mail'[k][j])
          PROVE  Num(mail[k][j])' < Num(mail[k][i])'
        <3>1. /\ j + d \in At(k) /\ mail'[k][j] = mail[k][j + d] /\ j + d < i + d
              /\ Num(mail[k][j])' = Num(mail[k][j + d])
            BY <2>1, <2>4
        <3> QED BY <2>2, <2>4, <3>1 DEF InMail
    <2>5. hand' # None => Num(mail[k][i])' < Len(packets')
        BY <2>2 DEF InMail, Aside
    <2>6. Ahead /\ handled' = handled /\ Reached(k, i)' =>
             \A n \in 1..Len(handled') : handled'[n] < Num(mail[k][i])'
        BY <2>2 DEF Ahead
    <2> QED BY <2>3, <2>4, <2>5, <2>6
<1> QED BY <1>2 DEF InMail, Ahead, FromClient

(* ... and so do heartbeats.                                              *)
LEMMA BeatsAside ==
    ASSUME Beats, Tokens, NEW S, Aside(S)
    PROVE  Beats'
<1>1. ASSUME NEW k \in Maps, NEW i \in At(k)', NEW s, BeatAt(k, i, s)'
      PROVE  \E o \in At(k) : BeatAt(k, o, s)
    BY <1>1, AsideIs DEF Aside, BeatAt, FromClient
<1>2. ASSUME live', beat.to # None, NEW k \in Maps, NEW i \in At(k)', BeatAt(k, i, beat.slot)'
      PROVE  /\ k = beat.to
             /\ beatLast' => \A j \in At(k)' : j > i =>
                   /\ ~FromClient(mail'[k][j])
                   /\ \A id \in 1..Len(calls') : CallAt(k, j, id)' => calls'[id].via = None
    <2>1. PICK d \in {0, 1} :
             /\ \A j \in At(k)' : FromClient(mail'[k][j]) \/ mail'[k][j].kind = "call" =>
                   \/ j + d \in At(k) /\ mail'[k][j] = mail[k][j + d]
                   \/ mail'[k][j].kind = "call" /\ mail'[k][j] \in S
             /\ \A j \in At(k)' : j \in Int /\ d \in Int
        BY AsideIs DEF Aside
    <2>2. i + d \in At(k) /\ BeatAt(k, i + d, beat.slot)
        BY <1>2, <2>1 DEF BeatAt, FromClient, Aside
    <2>3. live
        BY <1>2 DEF Aside
    <2>4. k = beat.to
        BY <1>2, <2>2, <2>3 DEF Beats
    <2>5. ASSUME beatLast', NEW j \in At(k)', j > i
          PROVE  /\ ~FromClient(mail'[k][j])
                 /\ \A id \in 1..Len(calls') : CallAt(k, j, id)' => calls'[id].via = None
        <3>1. beatLast
            BY <2>5 DEF Aside
        <3>2. CASE j + d \in At(k) /\ mail'[k][j] = mail[k][j + d]
            <4>1. j + d > i + d
                BY <2>1, <2>5
            <4>2. /\ ~FromClient(mail[k][j + d])
                  /\ \A id \in 1..Len(calls) : CallAt(k, j + d, id) => calls[id].via = None
                BY <1>2, <2>2, <2>3, <3>1, <3>2, <4>1 DEF Beats
            <4>3. \A id : CallAt(k, j, id)' => CallAt(k, j + d, id) /\ id \in 1..Len(calls)
                BY <3>2 DEF CallAt, Tokens
            <4> QED BY <1>2, <2>5, <3>2, <4>2, <4>3 DEF Aside
        <3>3. CASE mail'[k][j].kind = "call" /\ mail'[k][j] \in S
            BY <1>2, <2>5, <3>3 DEF Aside, CallAt
        <3>4. CASE ~FromClient(mail'[k][j]) /\ mail'[k][j].kind # "call"
            BY <3>4 DEF CallAt
        <3> QED BY <2>1, <3>2, <3>3, <3>4
    <2> QED BY <2>4, <2>5
<1>3. \A s \in 1..Len(slots') : slots'[s] \in 0..Len(packets') /\ (slots'[s] # 0 => packets'[slots'[s]].beat)
    BY DEF Beats, Aside
<1> QED BY <1>1, <1>2, <1>3 DEF Beats, Aside

LEMMA NumbersAside ==
    ASSUME PostTypes, Numbers, Tokens, NEW S, Aside(S), handled' = handled
    PROVE  Numbers'
<1>1. InHand'
    <2>1. CASE hand' = None
        BY <2>1 DEF InHand
    <2>2. CASE hand' = hand /\ hand # None
        <3>1. FromClient(hand) /\ IsOurs(hand)
            BY <2>2 DEF Numbers, InHand
        <3>2. Num(hand)' = Num(hand) /\ Len(slots') = Len(slots) /\ packets' = packets
            BY <2>2, <3>1 DEF Num, Aside, FromClient
        <3>3. IsOurs(hand)'
            BY <2>2, <3>1, <3>2 DEF IsOurs
        <3>4. held' = held /\ beat' = beat
            BY <2>2 DEF Aside
        <3> QED BY <2>2, <3>1, <3>2, <3>3, <3>4 DEF Numbers, InHand
    <2> QED BY <2>1, <2>2 DEF Aside
<1>2. Done'
    BY DEF Numbers, Done, InSentOrder, Aside
<1> QED BY <1>1, <1>2, MailAside, BeatsAside DEF Numbers

(* A heartbeat takes the place of the one that waits.                      *)
LEMMA NumbersCoalesced ==
    ASSUME PInv, NEW f \in States, Coalesced(f)
    PROVE  Numbers'
<1> DEFINE b == beat.slot
           n == Len(packets')
<1>0. Numbers /\ PostTypes /\ Routed
    BY DEF PInv, Numbers
<1>1. NewPacket(TRUE, f)
    BY <1>0, SentIs DEF Coalesced, InPlace
<1>2. /\ live /\ hand = None /\ beatLast /\ beat.to = held /\ slots[b] # 0
      /\ UNCHANGED <<here, mail, hand, beat, beatLast, live, held, handled, calls>>
    BY DEF Coalesced, InPlace, Free, world, session, hist, Waiting
<1>3. n = Len(packets) + 1 /\ Len(packets) \in Nat /\ n \in Nat
    BY <1>1 DEF NewPacket
<1>4. beat.to # None /\ b \in 1..Len(slots) /\ slots \in Seq(Nat) /\ Len(slots) \in Nat
    BY <1>0, <1>2, PostAssumption, LenProperties DEF PostTypes, Numbers, Beats
<1>5. slots' = [slots EXCEPT ![b] = n] /\ Len(slots') = Len(slots)
    <2>1. slots' = [slots EXCEPT ![b] = n]
        BY DEF Coalesced, InPlace
    <2> HIDE DEF n
    <2> QED BY <1>3, <1>4, <2>1, ExceptSeq
<1>6. \A s \in 1..Len(slots) : slots'[s] = IF s = b THEN n ELSE slots[s]
    <2> HIDE DEF n, b
    <2>1. DOMAIN slots = 1..Len(slots)
        BY <1>4, LenProperties
    <2> QED BY <1>5, <2>1
<1> HIDE DEF n, b
<1>7. ASSUME NEW k \in Maps, NEW i \in At(k), FromClient(mail[k][i])
      PROVE  /\ IsOurs(mail[k][i]) /\ Num(mail[k][i]) \in 1..Len(packets)
             /\ Num(mail[k][i])' = IF BeatAt(k, i, b) THEN n ELSE Num(mail[k][i])
    <2>1. IsOurs(mail[k][i]) /\ Num(mail[k][i]) \in 1..Len(packets)
        BY <1>0, <1>7 DEF Numbers, InMail, IsOurs
    <2> QED BY <1>2, <1>6, <1>7, <2>1 DEF Num, IsOurs, BeatAt, FromClient
<1>8. InMail'
    <2>1. ASSUME NEW k \in Maps, NEW i \in At(k), FromClient(mail[k][i])
          PROVE  /\ IsOurs(mail[k][i])'
                 /\ \A j \in At(k) : j < i /\ FromClient(mail[k][j])
                                       => Num(mail[k][j])' < Num(mail[k][i])'
        <3>1. Num(mail[k][i])' >= Num(mail[k][i]) /\ Num(mail[k][i])' \in 1..n
            BY <1>3, <1>7, <2>1
        <3>2. IsOurs(mail[k][i])'
            <4>1. n = Len(packets')
                BY DEF n
            <4> QED BY <1>2, <1>5, <1>7, <2>1, <3>1, <4>1 DEF IsOurs
        <3>3. ASSUME NEW j \in At(k), j < i, FromClient(mail[k][j])
              PROVE  Num(mail[k][j])' < Num(mail[k][i])'
            <4>1. ~BeatAt(k, j, b)
                BY <1>0, <1>2, <1>4, <2>1, <3>3 DEF Numbers, Beats, b, At
            <4>2. Num(mail[k][j])' = Num(mail[k][j]) /\ Num(mail[k][j]) \in 1..Len(packets)
                BY <1>7, <3>3, <4>1
            <4>3. Num(mail[k][j]) < Num(mail[k][i]) /\ Num(mail[k][i]) \in 1..Len(packets)
                BY <1>0, <1>7, <2>1, <3>3 DEF Numbers, InMail
            <4> QED BY <3>1, <4>2, <4>3
        <3> QED BY <3>2, <3>3
    <2> QED BY <1>2, <2>1 DEF InMail, At, FromClient
<1>9. Ahead'
    <2>1. ASSUME NEW k \in Maps, NEW i \in At(k), FromClient(mail[k][i]), Reached(k, i),
                 NEW h \in 1..Len(handled)
          PROVE  handled[h] < Num(mail[k][i])'
        <3>1. Num(mail[k][i])' >= Num(mail[k][i]) /\ Num(mail[k][i])' \in 1..n /\ Num(mail[k][i]) \in Nat
            BY <1>3, <1>7, <2>1
        <3>2. handled[h] < Num(mail[k][i]) /\ handled[h] \in Nat
            BY <1>0, <2>1 DEF Numbers, Ahead, Done
        <3> QED BY <3>1, <3>2
    <2> QED BY <1>2, <2>1 DEF Ahead, At, FromClient, Reached, Arrives
<1>10. InHand' /\ Done'
    BY <1>0, <1>2, <1>3 DEF Numbers, InHand, Done, InSentOrder, n
<1>11. Beats'
    <2>1. packets'[n].beat /\ \A s \in 1..Len(packets) : packets'[s] = packets[s]
        BY <1>1 DEF NewPacket, n
    <2>2. \A s \in 1..Len(slots) : slots'[s] \in 0..n /\ (slots'[s] # 0 => packets'[slots'[s]].beat)
        BY <1>0, <1>3, <1>6, <2>1 DEF Numbers, Beats
    <2> QED BY <1>0, <1>2, <1>5, <2>2 DEF Numbers, Beats, n, At, BeatAt, CallAt, FromClient
<1> QED BY <1>8, <1>9, <1>10, <1>11 DEF Numbers

(* One more packet, in hand.                                              *)
LEMMA NumbersInHand ==
    ASSUME PInv, hand' # None, hand = None, UNCHANGED <<here, mail, handled, calls, held, live, beatLast>>,
           packets' \in Seq(APacket), Len(packets') = Len(packets) + 1,
           \A n \in 1..Len(packets) : packets'[n] = packets[n],
           packets'[Len(packets')].beat \/ hand'.kind # "beat",
           FromClient(hand'), Num(hand)' = Len(packets'),
           hand'.kind = "beat" => /\ hand'.slot \in 1..Len(slots') /\ hand'.slot = beat'.slot
                                  /\ beat'.to = held,
           Len(slots') \in Nat, Len(slots') >= Len(slots),
           \A s \in 1..Len(slots') :
               \/ s \in 1..Len(slots) /\ slots'[s] = slots[s]
               \/ hand'.kind = "beat" /\ hand'.slot = s /\ (s \in 1..Len(slots) => slots[s] = 0),
           beat' = beat \/ hand'.kind = "beat"
    PROVE  Numbers'
<1> DEFINE n == Len(packets')
<1>0. Numbers /\ PostTypes
    BY DEF PInv, Numbers
<1>1. n = Len(packets) + 1 /\ Len(packets) \in Nat /\ n \in Nat /\ Len(slots) \in Nat
    BY <1>0, LenProperties DEF PostTypes
<1>2. ASSUME NEW k \in Maps, NEW i \in At(k), FromClient(mail[k][i])
      PROVE  /\ IsOurs(mail[k][i])' /\ Num(mail[k][i])' = Num(mail[k][i])
             /\ Num(mail[k][i]) \in 1..Len(packets)
             /\ mail[k][i].kind = "beat" => ~(hand'.kind = "beat" /\ hand'.slot = mail[k][i].slot)
    <2>1. IsOurs(mail[k][i]) /\ Num(mail[k][i]) \in 1..Len(packets)
        BY <1>0, <1>2 DEF Numbers, InMail, IsOurs
    <2>2. mail[k][i].kind = "beat" =>
             /\ mail[k][i].slot \in 1..Len(slots) /\ slots[mail[k][i].slot] # 0
             /\ slots'[mail[k][i].slot] = slots[mail[k][i].slot]
             /\ ~(hand'.kind = "beat" /\ hand'.slot = mail[k][i].slot)
        <3> SUFFICES ASSUME mail[k][i].kind = "beat"
                     PROVE  /\ mail[k][i].slot \in 1..Len(slots) /\ slots[mail[k][i].slot] # 0
                            /\ slots'[mail[k][i].slot] = slots[mail[k][i].slot]
                            /\ ~(hand'.kind = "beat" /\ hand'.slot = mail[k][i].slot)
            OBVIOUS
        <3> DEFINE s == mail[k][i].slot
        <3>1. s \in 1..Len(slots) /\ slots[s] # 0
            BY <1>1, <2>1 DEF IsOurs, Num
        <3>2. s \in 1..Len(slots')
            BY <1>1, <3>1
        <3>3. ~(hand'.kind = "beat" /\ hand'.slot = s)
            <4> SUFFICES ASSUME hand'.kind = "beat", hand'.slot = s
                         PROVE  FALSE
                OBVIOUS
            <4>1. slots'[s] = Len(packets')
                BY DEF Num
            <4>2. \/ slots'[s] = slots[s]
                  \/ slots[s] = 0
                BY <3>1, <3>2
            <4>3. slots[s] \in 0..Len(packets)
                BY <1>0, <3>1 DEF Numbers, Beats
            <4> QED BY <1>1, <3>1, <4>1, <4>2, <4>3
        <3> QED BY <3>1, <3>2, <3>3
    <2>3. Num(mail[k][i])' = Num(mail[k][i])
        BY <2>2, <1>2 DEF Num, FromClient
    <2>4. IsOurs(mail[k][i])'
        BY <1>1, <2>1, <2>2, <2>3 DEF IsOurs
    <2> QED BY <2>1, <2>2, <2>3, <2>4
<1>3. InMail'
    BY <1>0, <1>1, <1>2 DEF Numbers, InMail, At, FromClient
<1>4. Ahead'
    BY <1>0, <1>2 DEF Numbers, Ahead, At, FromClient, Reached, Arrives
<1>5. Done'
    BY <1>0, <1>1 DEF Numbers, Done, InSentOrder
<1>6. InHand'
    BY <1>0, <1>1 DEF Numbers, Done, InHand, IsOurs
<1>7. Beats'
    <2>1. \A s \in 1..Len(slots') : slots'[s] \in 0..n /\ (slots'[s] # 0 => packets'[slots'[s]].beat)
        BY <1>0, <1>1 DEF Numbers, Beats, Num
    <2>2. beat'.to # None => beat'.slot \in 1..Len(slots')
        BY <1>0, <1>1 DEF Numbers, Beats
    <2>3. \A k \in Maps : \A i \in At(k) : \A s : BeatAt(k, i, s) => s \in 1..Len(slots)
        BY <1>0 DEF Numbers, InMail, IsOurs, BeatAt, FromClient
    <2>4. hand'.kind = "beat" => \A k \in Maps : \A i \in At(k) : ~BeatAt(k, i, hand'.slot)
        BY <1>2 DEF BeatAt, FromClient
    <2>5. \A m, k \in Maps : \A i \in At(m), j \in At(k) : \A s \in 1..Len(slots') :
             BeatAt(m, i, s)' /\ BeatAt(k, j, s)' => m = k
        BY <1>0, <2>3 DEF Numbers, Beats, BeatAt
    <2>6. ASSUME live', beat'.to # None, NEW m \in Maps, NEW i \in At(m), BeatAt(m, i, beat'.slot)
          PROVE  /\ m = beat'.to
                 /\ beatLast' => \A j \in At(m) : j > i =>
                       /\ ~FromClient(mail[m][j])
                       /\ \A id \in 1..Len(calls) : CallAt(m, j, id) => calls[id].via = None
        <3>1. beat' = beat /\ live
            BY <2>4, <2>6
        <3> QED BY <1>0, <2>6, <3>1 DEF Numbers, Beats
    <2>7. \A m \in Maps : At(m)' = At(m) /\ mail'[m] = mail[m]
        BY DEF At
    <2>8. \A m \in Maps : \A i, s : BeatAt(m, i, s)' <=> BeatAt(m, i, s)
        BY DEF BeatAt
    <2>9. live' /\ beat'.to # None => \A m \in Maps : \A i \in At(m)' :
             BeatAt(m, i, beat.slot)' =>
              /\ m = beat'.to
              /\ beatLast' => \A j \in At(m)' : j > i =>
                    /\ ~FromClient(mail'[m][j])
                    /\ \A id \in 1..Len(calls') : CallAt(m, j, id)' => calls'[id].via = None
        <3> SUFFICES ASSUME live', beat'.to # None, NEW m \in Maps, NEW i \in At(m)', BeatAt(m, i, beat.slot)'
                     PROVE /\ m = beat'.to
                           /\ beatLast' => \A j \in At(m)' : j > i =>
                                /\ ~FromClient(mail'[m][j])
                                /\ \A id \in 1..Len(calls') : CallAt(m, j, id)' => calls'[id].via = None
            OBVIOUS
        <3>1. i \in At(m) /\ BeatAt(m, i, beat'.slot)
            BY <2>7 DEF BeatAt
        <3> QED BY <2>6, <2>7, <3>1 DEF CallAt
    <2> QED BY <2>1, <2>2, <2>5, <2>7, <2>9 DEF Beats
<1> QED BY <1>3, <1>4, <1>5, <1>6, <1>7 DEF Numbers

LEMMA NumbersMarked ==
    ASSUME PInv, NEW f \in States, Marked(f)
    PROVE  Numbers'
<1> USE DEF world, session, client, hist
<1> DEFINE n == Len(packets')
<1>1. PostTypes /\ Routed /\ Beats
    BY DEF PInv
<1>2. NewPacket(TRUE, f)
    BY <1>1, SentIs DEF Marked
<1>3. /\ hand = None /\ live /\ UNCHANGED <<here, mail, handled, calls, held, live, beatLast>>
      /\ hand' = Marker(beat'.slot)
    BY DEF Marked, Free
<1>4. slots \in Seq(Nat) /\ Len(slots) \in Nat /\ DOMAIN slots = 1..Len(slots) /\ held \in Maps
    BY <1>1, LenProperties DEF PostTypes
<1>5. Len(packets) \in Nat /\ n = Len(packets) + 1 /\ n \in Nat /\ n <= MaxPackets
      /\ packets' \in Seq(APacket) /\ packets'[n].beat
      /\ \A p \in 1..Len(packets) : packets'[p] = packets[p]
    BY <1>2 DEF NewPacket
<1> HIDE DEF n
<1>6. /\ beat'.slot \in 1..Len(slots') /\ beat'.to = held /\ Len(slots') \in Nat
      /\ Len(slots') >= Len(slots) /\ Len(slots') <= n
      /\ slots'[beat'.slot] = n
      /\ \A s \in 1..Len(slots') : \/ s \in 1..Len(slots) /\ slots'[s] = slots[s]
                                   \/ s = beat'.slot /\ (s \in 1..Len(slots) => slots[s] = 0)
    <2>1. CASE beat.to = held
        <3>1. beat.slot \in 1..Len(slots)
            BY <1>1, <1>4, <2>1, PostAssumption DEF Beats
        <3>2. slots[beat.slot] = 0 /\ beat' = beat
            BY <2>1 DEF Marked, Waiting
        <3>3. slots' = [slots EXCEPT ![beat.slot] = n]
            BY <2>1 DEF Marked, n
        <3>4. Len(slots') = Len(slots)
            BY <1>4, <1>5, <3>1, <3>3, ExceptSeq
        <3>5. Len(slots') <= n
            BY <1>1, <1>4, <1>5, <3>4 DEF PostTypes
        <3>6. slots'[beat.slot] = n /\ \A s \in 1..Len(slots) : s # beat.slot => slots'[s] = slots[s]
            BY <1>4, <3>1, <3>3
        <3> QED BY <1>4, <2>1, <3>1, <3>2, <3>4, <3>5, <3>6
    <2>2. CASE beat.to # held
        <3>1. slots' = Append(slots, n) /\ beat' = [slot |-> Len(slots'), to |-> held]
            BY <2>2 DEF Marked, n
        <3>2. /\ Len(slots') = Len(slots) + 1 /\ slots'[Len(slots) + 1] = n
              /\ \A s \in 1..Len(slots) : slots'[s] = slots[s]
            BY <1>4, <1>5, <3>1, AppendProperties
        <3>3. Len(slots') <= n
            BY <1>1, <1>4, <1>5, <3>2 DEF PostTypes
        <3>4. beat'.slot = Len(slots) + 1 /\ beat'.to = held
            BY <3>1, <3>2
        <3> QED BY <1>4, <3>2, <3>3, <3>4
    <2> QED BY <2>1, <2>2
<1>7. beat'.slot \in 0..MaxPackets
    BY <1>5, <1>6, PostAssumption
<1>8. hand' # None
    BY <1>3, <1>7, PostAssumption
<1>9. FromClient(hand') /\ hand'.slot = beat'.slot /\ hand'.kind = "beat"
    BY <1>3 DEF FromClient, Marker
<1>10. Num(hand)' = n
    BY <1>6, <1>9 DEF Num
<1>11. packets'[Len(packets')].beat /\ Num(hand)' = Len(packets') /\ Len(packets') = Len(packets) + 1
    BY <1>5, <1>10 DEF n
<1> QED BY <1>3, <1>5, <1>6, <1>8, <1>9, <1>11, NumbersInHand

LEMMA NumbersAsPacket ==
    ASSUME PInv, \/ \E f \in States : AsPacket(f)
                 \/ OtherPacket
    PROVE  Numbers'
<1> USE DEF world, session, client, hist
<1>1. PostTypes
    BY DEF PInv
<1>2. \E b \in BOOLEAN, f \in States \cup {None} : NewPacket(b, f)
    BY <1>1, SentIs DEF AsPacket, OtherPacket
<1>3. /\ Len(packets) \in Nat /\ Len(packets') = Len(packets) + 1 /\ Len(packets') <= MaxPackets
      /\ packets' \in Seq(APacket)
      /\ \A p \in 1..Len(packets) : packets'[p] = packets[p]
    BY <1>2 DEF NewPacket
<1>4. /\ hand = None /\ UNCHANGED <<here, mail, handled, calls, held, live, beatLast, beat, slots>>
      /\ hand' = Packet(Len(packets'))
    BY DEF AsPacket, OtherPacket, Free
<1>5. hand' # None
    BY <1>3, <1>4, PostAssumption
<1>6. FromClient(hand') /\ hand'.kind # "beat" /\ Num(hand)' = Len(packets')
    BY <1>4 DEF FromClient, Packet, Num
<1>7. Len(slots) \in Nat /\ Len(slots') = Len(slots)
    BY <1>1, <1>4, LenProperties DEF PostTypes
<1>8. \A s \in 1..Len(slots') : s \in 1..Len(slots) /\ slots'[s] = slots[s]
    BY <1>4
<1> QED BY <1>3, <1>4, <1>5, <1>6, <1>7, <1>8, NumbersInHand

(* What is in hand goes behind all that was sent.                         *)
LEMMA NumbersPosted ==
    ASSUME PInv, SendToMap
    PROVE  Numbers'
<1> USE DEF world, session, client, hist
<1>1. PostTypes /\ Numbers /\ held \in Maps /\ live
    BY DEF PInv, Numbers, PostTypes, SendToMap
<1>2. Posted(held, hand)
    BY <1>1, SendsHand
<1>3. /\ hand # None /\ hand' = None /\ beatLast' = (hand.kind = "beat")
      /\ UNCHANGED <<here, slots, packets, calls, handled, live, held>>
    BY DEF SendToMap
<1>4. /\ FromClient(hand) /\ IsOurs(hand) /\ Num(hand) = Len(packets)
      /\ hand.kind = "beat" => hand.slot = beat.slot /\ beat.to = held
      /\ \A k \in 1..Len(handled) : handled[k] < Len(packets)
    BY <1>1, <1>3 DEF Numbers, InHand
<1>5. beat' = beat
    <2>1. CASE hand.kind = "beat"
        <3>1. beat' = [beat EXCEPT !.to = held] /\ beat.to = held /\ beat \in [slot : Nat, to : Somewhere]
            BY <1>1, <1>4, <2>1 DEF SendToMap, PostTypes
        <3> QED BY <3>1
    <2> QED BY <2>1 DEF SendToMap
<1>6. ASSUME NEW k \in Maps, NEW i \in At(k)'
      PROVE  \/ i \in At(k) /\ mail'[k][i] = mail[k][i] /\ (Reached(k, i)' <=> Reached(k, i))
             \/ k = held /\ i = Len(mail[k]) + 1 /\ mail'[k][i] = hand
    <2>1. CASE k = held
        <3>1. Carried(k, 0) /\ (i \in At(k) \/ (i = Len(mail[k]) + 1 /\ mail'[k][i] = hand))
            BY <1>2, <1>3, <2>1, PutCarried DEF Posted
        <3>2. i + 0 = i
            BY <1>6 DEF At
        <3> QED BY <2>1, <3>1, <3>2 DEF Carried
    <2>2. CASE k # held
        <3>1. mail'[k] = mail[k]
            BY <1>2, <2>2 DEF Posted, Others
        <3> QED BY <1>3, <3>1 DEF At, Reached, Arrives
    <2> QED BY <2>1, <2>2
<1>7. ASSUME NEW k \in Maps, NEW i \in At(k), FromClient(mail[k][i])
      PROVE  IsOurs(mail[k][i]) /\ Num(mail[k][i]) \in 1..Len(packets) /\ Num(mail[k][i]) < Len(packets)
    BY <1>1, <1>3, <1>7 DEF Numbers, InMail, IsOurs
<1>8. \A e : Num(e)' = Num(e) /\ (IsOurs(e)' <=> IsOurs(e))
    BY <1>3 DEF Num, IsOurs
<1>9. InMail'
    <2>1. ASSUME NEW k \in Maps, NEW i \in At(k)', FromClient(mail'[k][i])
          PROVE  /\ IsOurs(mail'[k][i])
                 /\ \A j \in At(k)' : j < i /\ FromClient(mail'[k][j])
                                        => Num(mail'[k][j]) < Num(mail'[k][i])
        <3>1. CASE i \in At(k) /\ mail'[k][i] = mail[k][i]
            <4>1. ASSUME NEW j \in At(k)', j < i
                  PROVE  j \in At(k) /\ mail'[k][j] = mail[k][j]
                <5>1. j # Len(mail[k]) + 1
                    BY <1>1, <3>1, <4>1, LenProperties DEF At, PostTypes
                <5> QED BY <1>6, <5>1
            <4> QED BY <1>1, <2>1, <3>1, <4>1 DEF Numbers, InMail
        <3>2. CASE k = held /\ i = Len(mail[k]) + 1 /\ mail'[k][i] = hand
            <4>1. ASSUME NEW j \in At(k)', j < i
                  PROVE  j \in At(k) /\ mail'[k][j] = mail[k][j]
                BY <1>6, <3>2, <4>1 DEF At
            <4> QED BY <1>4, <1>7, <3>2, <4>1
        <3> QED BY <1>6, <3>1, <3>2
    <2> QED BY <1>3, <1>8, <2>1 DEF InMail
<1>10. Ahead'
    <2>1. ASSUME NEW k \in Maps, NEW i \in At(k)', FromClient(mail'[k][i]), Reached(k, i)',
                 NEW h \in 1..Len(handled)
          PROVE  handled[h] < Num(mail'[k][i])
        BY <1>1, <1>4, <1>6, <2>1 DEF Numbers, Ahead
    <2> QED BY <1>3, <1>8, <2>1 DEF Ahead
<1>11. InHand' /\ Done'
    BY <1>1, <1>3 DEF Numbers, InHand, Done, InSentOrder
<1>12. Beats'
    <2>1. ASSUME NEW k \in Maps, NEW i \in At(k)', NEW s, BeatAt(k, i, s)'
          PROVE  \/ i \in At(k) /\ BeatAt(k, i, s)
                 \/ k = held /\ hand.kind = "beat" /\ s = beat.slot /\ beat.to = held
                    /\ i = Len(mail[k]) + 1
        BY <1>4, <1>6, <2>1 DEF BeatAt
    <2>2. ASSUME hand.kind = "beat", NEW k \in Maps, NEW i \in At(k)
          PROVE  ~BeatAt(k, i, beat.slot)
        BY <1>4, <1>7, <2>2 DEF BeatAt, Num, FromClient
    <2>3. ASSUME NEW m \in Maps, NEW k \in Maps, NEW i \in At(m)', NEW j \in At(k)',
                 NEW s \in 1..Len(slots), BeatAt(m, i, s)', BeatAt(k, j, s)'
          PROVE  m = k
        <3>1. CASE hand.kind = "beat" /\ s = beat.slot
            BY <2>1, <2>2, <2>3, <3>1
        <3>2. CASE ~(hand.kind = "beat" /\ s = beat.slot)
            <4>1. i \in At(m) /\ BeatAt(m, i, s)
                BY <2>1, <2>3, <3>2
            <4>2. j \in At(k) /\ BeatAt(k, j, s)
                BY <2>1, <2>3, <3>2
            <4> QED BY <1>1, <4>1, <4>2 DEF Numbers, Beats
        <3> QED BY <3>1, <3>2
    <2>4. ASSUME beat.to # None, NEW m \in Maps, NEW i \in At(m)', BeatAt(m, i, beat.slot)'
          PROVE  /\ m = beat.to
                 /\ beatLast' => \A j \in At(m)' : ~(j > i)
        <3>1. CASE hand.kind = "beat"
            <4>1. m = held /\ beat.to = held /\ i = Len(mail[m]) + 1
                BY <1>5, <2>1, <2>2, <2>4, <3>1 DEF BeatAt
            <4>2. Len(mail[m]) \in Nat
                BY <1>1, LenProperties DEF PostTypes
            <4>3. \A j \in At(m)' : ~(j > i)
                BY <1>6, <4>1, <4>2 DEF At
            <4> QED BY <4>1, <4>3
        <3>2. CASE hand.kind # "beat"
            <4>1. i \in At(m) /\ BeatAt(m, i, beat.slot)
                BY <1>5, <2>1, <2>4, <3>2 DEF BeatAt
            <4> QED BY <1>1, <1>3, <2>4, <3>2, <4>1 DEF Numbers, Beats
        <3> QED BY <3>1, <3>2
    <2>5. /\ \A s \in 1..Len(slots') : slots'[s] \in 0..Len(packets')
                                      /\ (slots'[s] # 0 => packets'[slots'[s]].beat)
          /\ beat'.to # None => beat'.slot \in 1..Len(slots')
        BY <1>1, <1>3, <1>5 DEF Numbers, Beats
    <2>6. \A m, k \in Maps : \A i \in At(m)', j \in At(k)' : \A s \in 1..Len(slots') :
             BeatAt(m, i, s)' /\ BeatAt(k, j, s)' => m = k
        BY <1>3, <2>3
    <2>7. live' /\ beat'.to # None => \A m \in Maps : \A i \in At(m)' :
             BeatAt(m, i, beat.slot)' => m = beat'.to /\ (beatLast' => \A j \in At(m)' : ~(j > i))
        BY <1>5, <2>4
    <2> QED BY <2>5, <2>6, <2>7 DEF Beats
<1> QED BY <1>9, <1>10, <1>11, <1>12 DEF Numbers

(* What a map handles is the first of what waits there, after all that the *)
(* player has handled.                                                    *)
LEMMA NumbersHandled ==
    ASSUME PInv, NEW m \in Maps, Popped(m), FromClient(mail[m][1]),
           Reaches(Num(mail[m][1]), m), here' = here, Aside({})
    PROVE  Numbers'
<1> DEFINE n == Num(mail[m][1])
<1>1. PostTypes /\ Numbers /\ Tokens /\ OnePlace
    BY DEF PInv, Numbers
<1>2. 1 \in At(m) /\ n \in 1..Len(packets) /\ (hand # None => n < Len(packets))
    BY <1>1 DEF Popped, Cut, Numbers, InMail, IsOurs
<1>3. handled \in Seq(Nat) /\ Len(handled) \in Nat
    BY <1>1, LenProperties DEF PostTypes
<1>4. m \in here => \A k \in 1..Len(handled) : handled[k] < n
    BY <1>1, <1>2 DEF Numbers, Ahead, Reached
<1> HIDE DEF n
<1>5. \/ m \notin here /\ handled' = handled
      \/ /\ m \in here /\ Len(handled') = Len(handled) + 1 /\ handled'[Len(handled) + 1] = n
         /\ \A k \in 1..Len(handled) : handled'[k] = handled[k] /\ handled[k] < n
    BY <1>4 DEF Reaches, n
<1>6. \A k \in 1..Len(handled') : k \in 1..Len(handled) \/ (k = Len(handled) + 1 /\ m \in here)
    BY <1>3, <1>5
<1>7. Len(packets') = Len(packets) /\ Len(packets) \in Nat
    BY <1>1, LenProperties DEF Aside, PostTypes
<1>8. InMail' /\ Beats'
    BY <1>1, MailAside, BeatsAside DEF Numbers
<1>9. \A k \in 1..Len(handled') : handled'[k] \in 1..Len(packets)
    BY <1>1, <1>2, <1>5, <1>6 DEF Numbers, Done
<1>10. Done'
    <2>1. DOMAIN handled = 1..Len(handled)
        BY <1>3, LenProperties
    <2>2. DOMAIN handled' = 1..Len(handled')
        BY <1>3, LenProperties DEF Reaches
    <2>3. ASSUME NEW i \in 1..Len(handled'), NEW j \in 1..Len(handled'), i < j
          PROVE  handled'[i] < handled'[j]
        <3>1. i \in 1..Len(handled)
            BY <1>3, <1>6, <2>3
        <3>2. CASE j \in 1..Len(handled)
            <4>1. handled[i] < handled[j]
                BY <1>1, <2>1, <2>3, <3>1, <3>2 DEF Numbers, Done, InSentOrder
            <4> QED BY <1>5, <3>1, <3>2, <4>1
        <3>3. CASE j = Len(handled) + 1 /\ m \in here
            BY <1>5, <3>1, <3>3
        <3> QED BY <1>6, <3>2, <3>3
    <2>4. InSentOrder'
        BY <2>2, <2>3 DEF InSentOrder
    <2> QED BY <1>7, <1>9, <2>4 DEF Done
<1>11. InHand'
    <2>1. CASE hand' = None
        BY <2>1 DEF InHand
    <2>2. CASE hand' = hand /\ hand # None
        <3>1. FromClient(hand) /\ IsOurs(hand) /\ Num(hand) = Len(packets)
              /\ \A k \in 1..Len(handled) : handled[k] < Len(packets)
            BY <1>1, <2>2 DEF Numbers, InHand
        <3>2. Num(hand)' = Num(hand) /\ Len(slots') = Len(slots) /\ packets' = packets
            BY <2>2, <3>1 DEF Num, Aside, FromClient
        <3>3. IsOurs(hand)'
            BY <2>2, <3>1, <3>2 DEF IsOurs
        <3>4. held' = held /\ beat' = beat
            BY <2>2 DEF Aside
        <3>5. \A k \in 1..Len(handled') : handled'[k] < Len(packets)
            BY <1>2, <1>5, <1>6, <2>2, <3>1
        <3> QED BY <1>1, <1>7, <2>2, <3>1, <3>2, <3>3, <3>4, <3>5 DEF Numbers, InHand
    <2> QED BY <2>1, <2>2 DEF Aside
<1>12. Ahead'
    <2>1. CASE handled' = handled
        BY <1>1, <2>1, MailAside DEF Numbers
    <2>2. CASE m \in here
        <3>1. ASSUME NEW k \in Maps, NEW i \in At(k)', FromClient(mail'[k][i]), Reached(k, i)'
              PROVE  n < Num(mail[k][i])' /\ \A h \in 1..Len(handled) : handled[h] < Num(mail[k][i])'
            <4>1. k = m
                <5>1. k # m => ~ArrivalIn(k) /\ k \notin here /\ mail'[k] = mail[k]
                    BY <1>1, <2>2 DEF OnePlace, Popped, Others
                <5>2. k # m => ~Reached(k, i)'
                    <6> SUFFICES ASSUME k # m, NEW j \in 1..(i - 1), Arrives(k, j)'
                                 PROVE  FALSE
                        BY <5>1 DEF Reached
                    <6>1. j \in At(k) /\ Arrives(k, j)
                        <7>1. i \in 1..Len(mail'[k]) /\ j \in 1..(i - 1) /\ mail'[k] = mail[k]
                            BY <3>1, <5>1 DEF At
                        <7>2. j \in 1..Len(mail[k])
                            BY <7>1
                        <7> QED BY <7>1, <7>2 DEF At, Arrives
                    <6> QED BY <5>1, <6>1 DEF ArrivalIn
                <5> QED BY <3>1, <5>2
            <4>2. i + 1 \in At(m) /\ mail'[m][i] = mail[m][i + 1] /\ 1 < i + 1
                BY <3>1, <4>1 DEF Popped, Cut, At
            <4>3. Num(mail[m][i])' = Num(mail[m][i + 1])
                BY <3>1, <4>1, <4>2 DEF Num, Aside, FromClient
            <4>4. n < Num(mail[m][i + 1])
                BY <1>1, <1>2, <3>1, <4>1, <4>2 DEF Numbers, InMail, n
            <4>5. \A h \in 1..Len(handled) : handled[h] < Num(mail[m][i + 1])
                BY <1>1, <2>2, <3>1, <4>1, <4>2 DEF Numbers, Ahead, Reached
            <4> QED BY <4>1, <4>3, <4>4, <4>5
        <3>2. ASSUME NEW k \in Maps, NEW i \in At(k)', FromClient(mail'[k][i]), Reached(k, i)',
                     NEW h \in 1..Len(handled')
              PROVE  handled'[h] < Num(mail[k][i])'
            <4>1. n < Num(mail[k][i])' /\ \A g \in 1..Len(handled) : handled[g] < Num(mail[k][i])'
                BY <3>1, <3>2
            <4> QED BY <1>5, <1>6, <2>2, <3>2, <4>1
        <3> QED BY <3>2 DEF Ahead, FromClient
    <2> QED BY <1>5, <2>1, <2>2
<1> QED BY <1>8, <1>10, <1>11, <1>12 DEF Numbers

LEMMA NumbersPacket ==
    ASSUME PInv, NEW m \in Maps, HandlePacket(m)
    PROVE  Numbers' /\ Popped(m) /\ Reaches(mail[m][1].n, m) /\ mail[m][1].kind = "packet"
           /\ 1 \in At(m)
<1> USE DEF world, session, client, hist
<1>1. PostTypes /\ Numbers
    BY DEF PInv, Numbers
<1>2. Popped(m) /\ mail[m][1].kind = "packet" /\ 1 \in At(m) /\ Head(mail[m]) = mail[m][1]
    BY <1>1, HeadIs DEF HandlePacket, Popped, Cut
<1>3. FromClient(mail[m][1]) /\ Num(mail[m][1]) = mail[m][1].n
    BY <1>2 DEF FromClient, Num
<1>4. mail[m][1].n \in Nat
    BY <1>1, <1>2, <1>3 DEF Numbers, InMail, IsOurs
<1>5. Reaches(mail[m][1].n, m)
    BY <1>1, <1>2, <1>4, HandledIs DEF HandlePacket
<1>6. here' = here /\ UNCHANGED <<packets, beat, slots, hand, held, live, beatLast, calls>>
    BY DEF HandlePacket
<1>7. Carries({})
    BY <1>2, <1>6, PopCarries DEF Arrives
<1>8. Aside({})
    BY <1>1, <1>6, <1>7, Down, LenProperties DEF Aside, PostTypes
<1> QED BY <1>2, <1>3, <1>5, <1>6, <1>8, NumbersHandled

LEMMA NumbersBeat ==
    ASSUME PInv, NEW m \in Maps, HandleBeat(m)
    PROVE  /\ Numbers' /\ Popped(m) /\ mail[m][1].kind = "beat" /\ 1 \in At(m)
           /\ mail[m][1].slot \in 1..Len(slots) /\ slots[mail[m][1].slot] # 0
           /\ Reaches(slots[mail[m][1].slot], m)
           /\ slots' = [slots EXCEPT ![mail[m][1].slot] = 0] /\ Len(slots') = Len(slots)
           /\ \A k \in Maps : \A i \in At(k)' :
                 ~(mail'[k][i].kind = "beat" /\ mail'[k][i].slot = mail[m][1].slot)
           /\ hand # None /\ hand.kind = "beat" => hand.slot # mail[m][1].slot
<1> USE DEF world, session, client, hist
<1> DEFINE s == mail[m][1].slot
<1>1. PostTypes /\ Numbers
    BY DEF PInv, Numbers
<1>2. Popped(m) /\ mail[m][1].kind = "beat" /\ 1 \in At(m) /\ Head(mail[m]) = mail[m][1]
    BY <1>1, HeadIs DEF HandleBeat, Popped, Cut
<1>3. FromClient(mail[m][1]) /\ Num(mail[m][1]) = slots[s]
    BY <1>2 DEF FromClient, Num
<1>4. slots[s] \in 1..Len(packets) /\ s \in 1..Len(slots) /\ (hand # None => slots[s] < Len(packets))
    BY <1>1, <1>2, <1>3 DEF Numbers, InMail, IsOurs
<1>5. Len(packets) \in Nat /\ slots \in Seq(Nat) /\ DOMAIN slots = 1..Len(slots) /\ Len(slots) \in Nat
    BY <1>1, LenProperties DEF PostTypes
<1>6. slots' = [slots EXCEPT ![s] = 0] /\ Len(slots') = Len(slots)
    <2>1. slots' = [slots EXCEPT ![s] = 0]
        BY <1>2 DEF HandleBeat
    <2> HIDE DEF s
    <2> QED BY <1>4, <1>5, <2>1, ExceptSeq
<1>7. \A o \in 1..Len(slots) : slots'[o] = IF o = s THEN 0 ELSE slots[o]
    BY <1>5, <1>6
<1>8. Reaches(slots[s], m)
    <2>1. Handled(slots[s], m)
        BY <1>2, <1>4 DEF HandleBeat, Waiting
    <2>2. slots[s] \in Nat
        BY <1>4
    <2> QED BY <1>1, <2>1, <2>2, HandledIs
<1>9. here' = here /\ UNCHANGED <<packets, beat, hand, held, live, beatLast, calls>>
    BY DEF HandleBeat
<1>10. Carries({})
    BY <1>2, <1>9, PopCarries DEF Arrives
<1>11. ASSUME NEW k \in Maps, NEW i \in At(k)'
       PROVE  ~(mail'[k][i].kind = "beat" /\ mail'[k][i].slot = s)
    <2> SUFFICES ASSUME mail'[k][i].kind = "beat", mail'[k][i].slot = s
                 PROVE  FALSE
        OBVIOUS
    <2>1. CASE k = m
        <3>1. i + 1 \in At(m) /\ mail'[m][i] = mail[m][i + 1] /\ 1 < i + 1
            BY <1>2, <1>11, <2>1 DEF Popped, Cut, At
        <3>2. Num(mail[m][1]) < Num(mail[m][i + 1])
            BY <1>1, <1>2, <1>3, <2>1, <3>1 DEF Numbers, InMail, FromClient
        <3> QED BY <1>3, <1>4, <2>1, <3>1, <3>2 DEF Num
    <2>2. CASE k # m
        <3>1. mail'[k] = mail[k]
            BY <1>2, <2>2 DEF Popped, Others
        <3>2. i \in At(k) /\ BeatAt(k, i, s) /\ BeatAt(m, 1, s)
            BY <1>2, <3>1 DEF At, BeatAt
        <3> QED BY <1>1, <1>2, <1>4, <2>2, <3>2 DEF Numbers, Beats
    <2> QED BY <2>1, <2>2
<1>12. ASSUME NEW k \in Maps, NEW i \in At(k)', mail'[k][i].kind = "beat"
       PROVE  mail'[k][i].slot \in 1..Len(slots)
    <2>1. CASE k = m
        <3>1. i + 1 \in At(m) /\ mail'[m][i] = mail[m][i + 1]
            BY <1>2, <1>12, <2>1 DEF Popped, Cut, At
        <3> QED BY <1>1, <1>12, <2>1, <3>1 DEF Numbers, InMail, IsOurs, FromClient
    <2>2. CASE k # m
        <3>1. mail'[k] = mail[k] /\ i \in At(k)
            BY <1>2, <2>2 DEF Popped, Others, At
        <3> QED BY <1>1, <1>12, <3>1 DEF Numbers, InMail, IsOurs, FromClient
    <2> QED BY <2>1, <2>2
<1>13. hand # None /\ hand.kind = "beat" => hand.slot # s /\ hand.slot \in 1..Len(slots)
    BY <1>1, <1>4, <1>5 DEF Numbers, InHand, IsOurs, Num
<1> HIDE DEF s
<1>14. Len(calls) \in Nat
    BY <1>1, LenProperties DEF PostTypes
<1>15. hand' = None \/ (/\ UNCHANGED <<hand, held>>
                        /\ hand.kind = "beat" => slots'[hand.slot] = slots[hand.slot])
    BY <1>7, <1>9, <1>13
<1>16. \A k \in Maps : \A i \in At(k)' : mail'[k][i].kind = "beat" =>
          slots'[mail'[k][i].slot] = slots[mail'[k][i].slot]
    BY <1>7, <1>11, <1>12
<1>17. Aside({})
    BY <1>6, <1>7, <1>9, <1>10, <1>14, <1>15, <1>16, Down DEF Aside
<1>18. Numbers'
    BY <1>2, <1>3, <1>8, <1>9, <1>17, NumbersHandled
<1> QED BY <1>2, <1>4, <1>6, <1>8, <1>11, <1>13, <1>18 DEF s

LEMMA NumbersSession ==
    ASSUME PInv,
           \/ \E f \in States : Heartbeat(f)
           \/ OtherPacket \/ SendToMap \/ PassOn \/ Named \/ HearCall \/ ClientGoes
    PROVE  Numbers'
<1> USE DEF world, session, client, hist
<1>1. PostTypes /\ Numbers /\ Tokens /\ OnePlace /\ Routed
    BY DEF PInv, Numbers
<1>2. Len(calls) \in Nat
    BY <1>1, LenProperties DEF PostTypes
<1>3. CASE PassOn
    <2>1. Posted(ctl[1].to, Arrival) /\ ctl[1].to \in Maps
        BY <1>1, <1>3, PassOnIs
    <2>2. Carries({Arrival})
        BY <1>3, <2>1, PostCarries DEF PassOn
    <2>3. Aside({Arrival})
        BY <1>2, <1>3, <2>2, Down DEF PassOn, Aside, Arrival, FromClient
    <2> QED BY <1>1, <1>3, <2>3, NumbersAside DEF PassOn
<1>4. CASE Named
    <2>1. Carries({})
        BY <1>4, SameCarries DEF Named
    <2>2. Aside({})
        BY <1>1, <1>2, <1>4, <2>1, Down DEF Named, Aside, Routed
    <2> QED BY <1>1, <1>4, <2>2, NumbersAside DEF Named
<1>5. CASE HearCall
    <2>1. PICK id \in 1..Len(calls) : Posted(held, Call(id, FALSE))
        BY <1>1, <1>5, CallPassedIs DEF HearCall
    <2>2. held \in Maps /\ here' = here
        BY <1>1, <1>5 DEF PostTypes, HearCall, CallPassed
    <2>3. Carries({Call(id, FALSE)})
        BY <2>1, <2>2, PostCarries
    <2>4. CarriesDown({Call(id, FALSE)}) /\ ~FromClient(Call(id, FALSE))
        BY <2>3, Down DEF Call, FromClient
    <2>5. Aside({Call(id, FALSE)})
        BY <1>5, <2>4 DEF HearCall, CallPassed, Aside
    <2> QED BY <1>1, <1>5, <2>5, NumbersAside DEF HearCall, CallPassed
<1>6. CASE ClientGoes
    <2>1. \E S \in SUBSET {Arrival, Gone} : Carries(S)
        <3>1. here' = here /\ held \in Maps
            BY <1>1, <1>6 DEF PostTypes, ClientGoes
        <3>2. CASE Posted(held, Gone)
            BY <3>1, <3>2, PostCarries
        <3>3. CASE \E i \in 1..Len(ctl) : ctl[i].to \in Maps /\ PostedTwo(ctl[i].to, Arrival, Gone)
            BY <3>1, <3>3, PostTwoCarries
        <3> QED BY <1>1, <1>6, <3>2, <3>3, ClientCases
    <2>2. PICK S \in SUBSET {Arrival, Gone} : Carries(S)
        BY <2>1
    <2>3. \A e \in S : ~FromClient(e)
        BY DEF Arrival, Gone, FromClient
    <2>4. Aside(S)
        BY <1>6, <2>2, <2>3, Down DEF ClientGoes, Aside
    <2> QED BY <1>1, <1>6, <2>4, NumbersAside DEF ClientGoes
<1> QED BY <1>3, <1>4, <1>5, <1>6, NumbersCoalesced, NumbersMarked, NumbersAsPacket, NumbersPosted
        DEF Heartbeat

LEMMA NumbersMap ==
    ASSUME PInv, NEW m \in Maps,
           \/ HandlePacket(m) \/ HandleBeat(m) \/ HandleArrive(m) \/ HandleGone(m)
           \/ HandleCall(m) \/ Leaves(m)
           \/ \E to \in Maps : Teleport(m, to)
    PROVE  Numbers'
<1> USE DEF world, session, client, hist
<1>1. PostTypes /\ Numbers /\ Tokens /\ OnePlace /\ Routed
    BY DEF PInv, Numbers
<1>2. Len(calls) \in Nat
    BY <1>1, LenProperties DEF PostTypes
<1>3. CASE HandleArrive(m)
    <2>1. Popped(m) /\ mail[m][1].kind = "arrive" /\ 1 \in At(m)
        BY <1>1, <1>3, HeadIs DEF HandleArrive
    <2>2. here = {} /\ here' = {m}
        BY <1>1, <1>3, <2>1 DEF HandleArrive, OnePlace, ArrivalIn, Arrives
    <2>3. Carries({})
        BY <2>1, <2>2, ArriveCarries DEF Arrives
    <2>4. Aside({})
        BY <1>2, <1>3, <2>3, Down DEF HandleArrive, Aside
    <2> QED BY <1>1, <1>3, <2>4, NumbersAside DEF HandleArrive
<1>4. CASE HandleGone(m)
    <2>1. Popped(m) /\ mail[m][1].kind = "disconnect"
        BY <1>1, <1>4, HeadIs DEF HandleGone
    <2>2. ~Arrives(m, 1)
        BY <2>1 DEF Arrives
    <2>3. here' = here
        BY <1>4 DEF HandleGone
    <2>4. Aside({})
        BY <1>2, <1>4, <2>1, <2>2, <2>3, PopCarries, Down DEF HandleGone, Aside
    <2> QED BY <1>1, <1>4, <2>4, NumbersAside DEF HandleGone
<1>5. CASE HandleCall(m)
    <2>1. PICK id \in Nat :
             /\ mail[m][1].kind = "call" /\ mail[m][1].id = id /\ mail[m][1].follow \in BOOLEAN
             /\ CallEnds(m, id)
        BY <1>1, <1>5, CallCases
    <2>2. ~Arrives(m, 1) /\ here' = here
        BY <1>5, <2>1 DEF Arrives, HandleCall, CallDealt
    <2>3. Popped(m) \/ (mail[m][1].follow /\ entry \in Maps /\ SentOn(m, entry, Call(id, FALSE)))
        BY <2>1 DEF CallEnds
    <2>4. CASE Popped(m)
        <3>1. Aside({})
            BY <1>2, <1>5, <2>2, <2>4, PopCarries, Down DEF HandleCall, CallDealt, Aside
        <3> QED BY <1>1, <1>5, <3>1, NumbersAside DEF HandleCall, CallDealt
    <2>5. CASE mail[m][1].follow /\ entry \in Maps /\ SentOn(m, entry, Call(id, FALSE))
        <3>1. calls[id].via = None
            BY <1>1, <2>1, <2>5 DEF Tokens, SentOn, Cut
        <3>2. CarriesDown({Call(id, FALSE)})
            BY <2>2, <2>5, SentOnCarries, Down
        <3>3. Aside({Call(id, FALSE)})
            BY <1>2, <1>5, <3>1, <3>2 DEF HandleCall, CallDealt, Aside, Call, FromClient
        <3> QED BY <1>1, <1>5, <3>3, NumbersAside DEF HandleCall, CallDealt
    <2> QED BY <2>3, <2>4, <2>5
<1>6. CASE Leaves(m)
    <2>1. mail' = mail /\ here' = {} /\ \A k \in Maps : ~ArrivalIn(k)
        BY <1>1, <1>6 DEF Leaves, OnePlace
    <2>2. Aside({})
        BY <1>2, <1>6, <2>1, OutCarries DEF Leaves, Aside
    <2> QED BY <1>1, <1>6, <2>2, NumbersAside DEF Leaves
<1>7. ASSUME NEW to \in Maps, Teleport(m, to)
      PROVE  Numbers'
    <2>1. here' = {} /\ \A k \in Maps : ~ArrivalIn(k)
        BY <1>1, <1>7 DEF Teleport, OnePlace
    <2>2. mail' = mail \/ PostedTwo(to, Arrival, Gone)
        BY <1>1, <1>7, TeleportIs
    <2>3. CarriesDown({Arrival, Gone})
        BY <2>1, <2>2, OutCarries, SetOutCarries
    <2>4. Aside({Arrival, Gone})
        BY <1>2, <1>7, <2>3 DEF Teleport, Aside, Arrival, Gone, FromClient
    <2> QED BY <1>1, <1>7, <2>4, NumbersAside DEF Teleport
<1> QED BY <1>3, <1>4, <1>5, <1>6, <1>7, NumbersPacket, NumbersBeat

LEMMA NumbersStep ==
    ASSUME PInv, [Next]_vars
    PROVE  Numbers'
<1> USE DEF world, session, client, hist
<1>1. PostTypes /\ Numbers /\ Tokens
    BY DEF PInv, Numbers
<1>2. Len(calls) \in Nat
    BY <1>1, LenProperties DEF PostTypes
<1>3. CASE UNCHANGED vars
    <2>1. Carries({})
        BY <1>3, SameCarries DEF vars
    <2>2. Aside({})
        BY <1>2, <1>3, <2>1, Down DEF vars, Aside
    <2> QED BY <1>1, <1>3, <2>2, NumbersAside DEF vars
<1>4. CASE CallReads
    <2>1. Carries({})
        BY <1>4, SameCarries DEF CallReads
    <2>2. Len(calls') = Len(calls) + 1 /\ \A id \in 1..Len(calls) : calls'[id] = calls[id]
        BY <1>1, <1>4, CallReadsIs DEF NewCall
    <2>3. Aside({})
        BY <1>2, <1>4, <2>1, <2>2, Down DEF CallReads, Aside
    <2> QED BY <1>1, <1>4, <2>3, NumbersAside DEF CallReads
<1>5. ASSUME NEW id \in DOMAIN calls, CallSent(id)
      PROVE  Numbers'
    <2>1. /\ id \in 1..Len(calls) /\ id \in Nat /\ ~calls[id].sent /\ calls[id].to \in Maps
          /\ CallChanged(id, [calls[id] EXCEPT !.sent = TRUE])
          /\ Posted(calls[id].to, Call(id, TRUE))
        BY <1>1, <1>5, CallSentIs
    <2>2. calls[id].via = None /\ calls[id] \in ACall
        BY <1>1, <2>1, ElementOfSeq DEF Tokens, PostTypes
    <2>3. \A o \in 1..Len(calls) : calls'[o].via = calls[o].via
        BY <2>1, <2>2 DEF CallChanged, ACall
    <2>4. Len(calls') = Len(calls)
        BY <2>1 DEF CallChanged
    <2>5. CarriesDown({Call(id, TRUE)})
        BY <1>5, <2>1, PostCarries, Down DEF CallSent
    <2>6. Aside({Call(id, TRUE)})
        BY <1>2, <1>5, <2>1, <2>2, <2>3, <2>4, <2>5 DEF CallSent, Aside, Call, FromClient
    <2> QED BY <1>1, <1>5, <2>6, NumbersAside DEF CallSent
<1> QED BY <1>3, <1>4, <1>5, NumbersSession, NumbersMap DEF Next

-----------------------------------------------------------------------------
(* Nothing is lost.  What a step leaves where it waits: all, or all but    *)
(* what a map handles.                                                    *)
KeepsBut(E) ==
    \A k \in Maps : \A i \in At(k) :
        mail[k][i] \in E \/ \E j \in At(k)' : mail'[k][j] = mail[k][i]

LEMMA SameKeeps ==
    ASSUME mail' = mail
    PROVE  KeepsBut({})
BY DEF KeepsBut, At

LEMMA PostKeeps ==
    ASSUME NEW m \in Maps, NEW e, Posted(m, e)
    PROVE  KeepsBut({})
<1>1. \A i \in At(m) : i \in At(m)' /\ mail'[m][i] = mail[m][i]
    BY DEF Posted, Put, At
<1>2. \A k \in Maps \ {m} : mail'[k] = mail[k]
    BY DEF Posted, Others
<1> QED BY <1>1, <1>2 DEF KeepsBut, At

LEMMA PostTwoKeeps ==
    ASSUME NEW m \in Maps, NEW e, NEW f, PostedTwo(m, e, f)
    PROVE  KeepsBut({})
<1>1. \A i \in At(m) : i \in At(m)' /\ mail'[m][i] = mail[m][i]
    BY DEF PostedTwo, At
<1>2. \A k \in Maps \ {m} : mail'[k] = mail[k]
    BY DEF PostedTwo, Others
<1> QED BY <1>1, <1>2 DEF KeepsBut, At

LEMMA CutKeeps ==
    ASSUME NEW m \in Maps, Cut(m), NEW i \in At(m)
    PROVE  mail[m][i] = mail[m][1] \/ \E j \in At(m)' : mail'[m][j] = mail[m][i]
<1>1. CASE i > 1
    <2>1. i - 1 \in 1..Len(mail'[m]) /\ mail'[m][i - 1] = mail[m][i]
        BY <1>1 DEF Cut
    <2> QED BY <2>1 DEF At
<1>2. CASE ~(i > 1)
    BY <1>2 DEF At
<1> QED BY <1>1, <1>2

LEMMA PopKeeps ==
    ASSUME NEW m \in Maps, Popped(m)
    PROVE  KeepsBut({mail[m][1]})
<1>1. \A k \in Maps \ {m} : mail'[k] = mail[k]
    BY DEF Popped, Others
<1>2. \A i \in At(m) : mail[m][i] = mail[m][1] \/ \E j \in At(m)' : mail'[m][j] = mail[m][i]
    BY CutKeeps DEF Popped
<1> QED BY <1>1, <1>2 DEF KeepsBut, At

LEMMA SentOnKeeps ==
    ASSUME NEW m \in Maps, NEW t \in Maps, NEW e, SentOn(m, t, e)
    PROVE  KeepsBut({mail[m][1]})
<1>1. \A k \in Maps \ {m, t} : mail'[k] = mail[k]
    BY DEF SentOn, Others
<1>2. \A i \in At(m) : mail[m][i] = mail[m][1] \/ \E j \in At(m)' : mail'[m][j] = mail[m][i]
    BY CutKeeps DEF SentOn
<1>3. \A i \in At(t) : i \in At(t)' /\ mail'[t][i] = mail[t][i]
    BY DEF SentOn, Put, At
<1> QED BY <1>1, <1>2, <1>3 DEF KeepsBut, At

(* A step that leaves the client's packets alone, and its slots,           *)
LEMMA KeptAside ==
    ASSUME Kept, NEW E, KeepsBut(E), \A e \in E : ~FromClient(e),
           UNCHANGED <<packets, slots, hand, handled, missed>>, beat' = beat,
           live' => live, beatLast' => beatLast
    PROVE  Kept'
<1> SUFFICES ASSUME live'
             PROVE  Kept'
    BY DEF Kept
<1>1. \A k \in Maps : \A i \in At(k) : FromClient(mail[k][i]) =>
          \E j \in At(k)' : mail'[k][j] = mail[k][i]
    BY DEF KeepsBut
<1>2. ASSUME NEW s \in 1..Len(slots), NEW k \in Maps, NEW i \in At(k), BeatAt(k, i, s)
      PROVE  \E j \in At(k)' : BeatAt(k, j, s)'
    BY <1>1, <1>2 DEF BeatAt, FromClient
<1>3. ASSUME NEW n, NEW k \in Maps, NEW i \in At(k), FromClient(mail[k][i]), Num(mail[k][i]) = n
      PROVE  \E j \in At(k)' : FromClient(mail'[k][j]) /\ Num(mail[k][j])' = n
    BY <1>1, <1>3 DEF Num, FromClient
<1>4. hand # None => Num(hand)' = Num(hand)
    BY DEF Num
<1>5. ASSUME NEW n \in 1..Len(packets)
      PROVE  \/ \E k \in 1..Len(handled) : handled[k] = n
             \/ \E x \in missed : x.n = n
             \/ hand # None /\ Num(hand)' = n
             \/ \E k \in Maps : \E i \in At(k)' : FromClient(mail'[k][i]) /\ Num(mail[k][i])' = n
             \/ /\ n < Len(packets) /\ packets[n].beat /\ packets[n + 1].beat
                /\ packets[n].flags = packets[n + 1].flags
    BY <1>3, <1>4 DEF Kept
<1>6. ASSUME NEW s \in 1..Len(slots), slots[s] # 0
      PROVE  \/ hand # None /\ hand.kind = "beat" /\ hand.slot = s
             \/ \E m \in Maps : \E i \in At(m)' : BeatAt(m, i, s)'
    BY <1>2, <1>6 DEF Kept
<1>7. hand = None /\ beatLast' /\ beat.to # None /\ slots[beat.slot] # 0 => slots[beat.slot] = Len(packets)
    BY DEF Kept
<1> QED BY <1>5, <1>6, <1>7 DEF Kept, FromClient

(* a heartbeat in another's place,                                        *)
LEMMA KeptCoalesced ==
    ASSUME PInv, NEW f \in States, Coalesced(f)
    PROVE  Kept'
<1> USE DEF world, session, client, hist
<1> DEFINE b == beat.slot
           n == Len(packets')
<1>1. PostTypes /\ Numbers /\ Kept
    BY DEF PInv, Numbers
<1>2. NewPacket(TRUE, f)
    BY <1>1, SentIs DEF Coalesced, InPlace
<1>3. /\ live /\ hand = None /\ beatLast /\ beat.to = held /\ slots[b] # 0
      /\ UNCHANGED <<mail, hand, beat, live, handled, missed>>
    BY DEF Coalesced, InPlace, Free, Waiting
<1>4. /\ n = Len(packets) + 1 /\ Len(packets) \in Nat
      /\ \A p \in 1..Len(packets) : packets'[p] = packets[p]
      /\ packets'[n].beat /\ packets'[n].flags = f
    BY <1>2 DEF NewPacket
<1>5. beat.to # None /\ b \in 1..Len(slots) /\ slots \in Seq(Nat) /\ Len(slots) \in Nat
    BY <1>1, <1>3, PostAssumption, LenProperties DEF PostTypes, Numbers, Beats
<1>6. slots' = [slots EXCEPT ![b] = n]
    BY DEF Coalesced, InPlace
<1>7. packets[slots[b]].flags = f
    BY DEF Coalesced, SameState
<1> HIDE DEF n, b
<1>8. Len(slots') = Len(slots) /\ \A s \in 1..Len(slots) : slots'[s] = IF s = b THEN n ELSE slots[s]
    <2>1. n \in Nat /\ DOMAIN slots = 1..Len(slots)
        BY <1>4, <1>5, LenProperties
    <2> QED BY <1>5, <1>6, <2>1, ExceptSeq
<1>9. slots[b] = Len(packets) /\ packets[slots[b]].beat
    BY <1>1, <1>3, <1>5 DEF Kept, Numbers, Beats, b
<1>0. PICK m \in Maps : \E i \in At(m) : BeatAt(m, i, b)
    BY <1>1, <1>3, <1>5 DEF Kept, b
<1>10. PICK i \in At(m) : BeatAt(m, i, b)
    BY <1>0
<1>11. ASSUME NEW p \in 1..n
       PROVE  \/ \E k \in 1..Len(handled) : handled[k] = p
              \/ \E x \in missed : x.n = p
              \/ \E k \in Maps : \E j \in At(k) : FromClient(mail[k][j]) /\ Num(mail[k][j])' = p
              \/ /\ p < n /\ packets'[p].beat /\ packets'[p + 1].beat
                 /\ packets'[p].flags = packets'[p + 1].flags
    <2>1. CASE p = n
        <3>1. FromClient(mail[m][i]) /\ Num(mail[m][i])' = n
            BY <1>3, <1>5, <1>8, <1>10 DEF BeatAt, FromClient, Num
        <3> QED BY <2>1, <3>1
    <2>2. CASE p = Len(packets)
        <3>1. p \in 1..Len(packets) /\ p + 1 = n /\ p < n
            BY <1>4, <2>2
        <3> QED BY <1>4, <1>7, <1>9, <2>2, <3>1
    <2>3. CASE p # n /\ p # Len(packets)
        <3>1. p \in 1..Len(packets) /\ p + 1 \in 1..Len(packets) /\ p < n
            BY <1>4, <2>3
        <3>2. ASSUME NEW k \in Maps, NEW j \in At(k), FromClient(mail[k][j]), Num(mail[k][j]) = p
              PROVE  Num(mail[k][j])' = p
            BY <1>1, <1>3, <1>8, <1>9, <2>3, <3>2 DEF Numbers, InMail, IsOurs, Num, FromClient
        <3> QED BY <1>1, <1>3, <1>4, <3>1, <3>2 DEF Kept
    <2> QED BY <2>1, <2>2, <2>3
<1>12. \A s \in 1..Len(slots) : slots'[s] # 0 => \E k \in Maps : \E j \in At(k) : BeatAt(k, j, s)
    BY <1>1, <1>3, <1>8, <1>10 DEF Kept
<1>13. slots'[beat'.slot] = n
    BY <1>3, <1>5, <1>8 DEF b
<1>14. \A s \in 1..Len(slots') : slots'[s] # 0 => \E k \in Maps : \E j \in At(k)' : BeatAt(k, j, s)'
    BY <1>3, <1>8, <1>12 DEF At, BeatAt
<1>15. \A p \in 1..n :
              \/ \E k \in 1..Len(handled') : handled'[k] = p
              \/ \E x \in missed' : x.n = p
              \/ \E k \in Maps : \E j \in At(k)' : FromClient(mail'[k][j]) /\ Num(mail[k][j])' = p
              \/ /\ p < n /\ packets'[p].beat /\ packets'[p + 1].beat
                 /\ packets'[p].flags = packets'[p + 1].flags
    BY <1>3, <1>11 DEF At
<1> QED BY <1>13, <1>14, <1>15 DEF Kept, n, FromClient

(* one more in hand,                                                      *)
LEMMA InHandIs ==
    ASSUME PInv, \/ \E f \in States : Marked(f) \/ AsPacket(f)
                 \/ OtherPacket
    PROVE  /\ Len(packets') = Len(packets) + 1 /\ Len(packets) \in Nat
           /\ \A p \in 1..Len(packets) : packets'[p] = packets[p]
           /\ packets'[Len(packets')].after = {id \in 1..Len(calls) : calls[id].via = held}
           /\ hand = None /\ live /\ UNCHANGED <<mail, live, handled, missed, calls, held>>
           /\ hand' # None /\ Num(hand)' = Len(packets')
           /\ \A s \in 1..Len(slots') : \/ s \in 1..Len(slots) /\ slots'[s] = slots[s]
                                        \/ hand'.kind = "beat" /\ hand'.slot = s
           /\ \A k \in Maps : \A i \in At(k) : FromClient(mail[k][i]) => Num(mail[k][i])' = Num(mail[k][i])
<1> USE DEF world, session, client, hist
<1>1. PostTypes /\ Numbers /\ Kept /\ Numbers'
    BY NumbersMarked, NumbersAsPacket DEF PInv, Numbers
<1>2. \E b \in BOOLEAN, f \in States \cup {None} : NewPacket(b, f)
    BY <1>1, SentIs DEF Marked, AsPacket, OtherPacket
<1>3. /\ Len(packets') = Len(packets) + 1 /\ Len(packets) \in Nat
      /\ \A p \in 1..Len(packets) : packets'[p] = packets[p]
    BY <1>2 DEF NewPacket
<1>4. hand = None /\ live /\ UNCHANGED <<mail, live, handled, missed, calls, held>>
    BY DEF Marked, AsPacket, OtherPacket, Free
<1>5. hand' # None /\ Num(hand)' = Len(packets')
    <2>1. Len(packets') <= MaxPackets /\ Len(packets') \in Nat
        BY <1>2, <1>3 DEF NewPacket
    <2>2. hand' # None
        <3>1. CASE hand' = Packet(Len(packets'))
            BY <2>1, <3>1, PostAssumption
        <3>2. ASSUME NEW f \in States, Marked(f)
              PROVE  hand' # None
            <4>1. PostTypes'
                BY <3>2, TypeSession DEF Heartbeat
            <4>2. held \in Maps /\ held # None /\ Len(slots') \in Nat /\ Len(slots') <= Len(packets')
                BY <1>1, <4>1, PostAssumption, LenProperties DEF PostTypes
            <4>3. beat'.to = held /\ beat'.slot \in 1..Len(slots')
                BY <1>1, <3>2, <4>2 DEF Marked, Numbers, Beats
            <4>4. beat'.slot \in 0..MaxPackets
                BY <2>1, <4>2, <4>3, PostAssumption
            <4> QED BY <3>2, <4>4, PostAssumption DEF Marked
        <3> QED BY <3>1, <3>2 DEF AsPacket, OtherPacket
    <2> QED BY <1>1, <2>2 DEF Numbers, InHand
<1>6. ASSUME NEW s \in 1..Len(slots')
      PROVE  \/ s \in 1..Len(slots) /\ slots'[s] = slots[s]
             \/ hand'.kind = "beat" /\ hand'.slot = s
    <2>1. CASE slots' = slots
        BY <2>1
    <2>2. ASSUME NEW f \in States, Marked(f)
          PROVE  \/ s \in 1..Len(slots) /\ slots'[s] = slots[s]
                 \/ hand'.kind = "beat" /\ hand'.slot = s
        <3>1. slots \in Seq(Nat) /\ Len(slots) \in Nat /\ DOMAIN slots = 1..Len(slots)
            BY <1>1, LenProperties DEF PostTypes
        <3>2. hand'.kind = "beat" /\ hand'.slot = beat'.slot
            BY <2>2 DEF Marked, Marker
        <3>3. Len(packets') \in Nat
            BY <1>3
        <3>4. CASE beat.to = held
            <4>1. beat.slot \in 1..Len(slots)
                BY <1>1, <3>4, PostAssumption DEF Numbers, Beats, PostTypes
            <4>2. slots' = [slots EXCEPT ![beat.slot] = Len(packets')] /\ beat' = beat
                BY <2>2, <3>4 DEF Marked
            <4>3. Len(slots') = Len(slots)
                BY <3>1, <3>3, <4>1, <4>2, ExceptSeq
            <4> QED BY <3>1, <3>2, <4>2, <4>3
        <3>5. CASE beat.to # held
            <4>1. slots' = Append(slots, Len(packets')) /\ beat'.slot = Len(slots')
                BY <2>2, <3>5 DEF Marked
            <4>2. Len(slots') = Len(slots) + 1 /\ \A o \in 1..Len(slots) : slots'[o] = slots[o]
                BY <3>1, <3>3, <4>1, AppendProperties
            <4>3. s \in 1..Len(slots) \/ s = Len(slots')
                BY <3>1, <4>2
            <4> QED BY <3>2, <4>1, <4>2, <4>3
        <3> QED BY <3>4, <3>5
    <2> QED BY <2>1, <2>2 DEF AsPacket, OtherPacket
<1>7. ASSUME NEW k \in Maps, NEW i \in At(k), FromClient(mail[k][i])
      PROVE  Num(mail[k][i])' = Num(mail[k][i])
    <2>1. Num(mail[k][i])' < Len(packets') /\ (mail[k][i].kind = "beat" => mail[k][i].slot \in 1..Len(slots'))
        BY <1>1, <1>4, <1>5, <1>7 DEF Numbers, InMail, IsOurs, At, FromClient
    <2>2. Num(mail[k][i])' \in 1..Len(packets')
        BY <1>1, <1>4, <1>7 DEF Numbers, InMail, IsOurs, At, FromClient
    <2>3. mail[k][i].kind = "beat" => ~(hand'.kind = "beat" /\ hand'.slot = mail[k][i].slot)
        BY <1>3, <1>4, <1>5, <2>1, <2>2 DEF Num
    <2> QED BY <1>4, <1>6, <1>7, <2>1, <2>3 DEF Num, FromClient
<1>8. packets'[Len(packets')].after = {id \in 1..Len(calls) : calls[id].via = held}
    BY <1>2 DEF NewPacket
<1> QED BY <1>3, <1>4, <1>5, <1>6, <1>7, <1>8

LEMMA KeptInHand ==
    ASSUME PInv, \/ \E f \in States : Marked(f) \/ AsPacket(f)
                 \/ OtherPacket
    PROVE  Kept'
<1>1. Kept
    BY DEF PInv
<1>3. /\ Len(packets') = Len(packets) + 1 /\ Len(packets) \in Nat
      /\ \A p \in 1..Len(packets) : packets'[p] = packets[p]
    BY InHandIs
<1>4. hand = None /\ live /\ UNCHANGED <<mail, live, handled, missed>>
    BY InHandIs
<1>5. hand' # None /\ Num(hand)' = Len(packets')
    BY InHandIs
<1>6. \A s \in 1..Len(slots') : \/ s \in 1..Len(slots) /\ slots'[s] = slots[s]
                                \/ hand'.kind = "beat" /\ hand'.slot = s
    BY InHandIs
<1>7. \A k \in Maps : \A i \in At(k) : FromClient(mail[k][i]) => Num(mail[k][i])' = Num(mail[k][i])
    BY InHandIs
<1>8. ASSUME NEW p \in 1..Len(packets')
      PROVE  \/ \E k \in 1..Len(handled) : handled[k] = p
             \/ \E x \in missed : x.n = p
             \/ Num(hand)' = p
             \/ \E k \in Maps : \E j \in At(k) : FromClient(mail[k][j]) /\ Num(mail[k][j])' = p
             \/ /\ p < Len(packets') /\ packets'[p].beat /\ packets'[p + 1].beat
                /\ packets'[p].flags = packets'[p + 1].flags
    <2>1. CASE p = Len(packets')
        BY <1>5, <2>1
    <2>2. CASE p # Len(packets')
        <3>1. p \in 1..Len(packets) /\ (p < Len(packets) => p + 1 \in 1..Len(packets))
            BY <1>3, <2>2
        <3>2. Len(packets) < Len(packets')
            BY <1>3
        <3> QED BY <1>1, <1>3, <1>4, <1>7, <3>1, <3>2 DEF Kept
    <2> QED BY <2>1, <2>2
<1>9. ASSUME NEW s \in 1..Len(slots'), slots'[s] # 0
      PROVE  \/ hand'.kind = "beat" /\ hand'.slot = s
             \/ \E k \in Maps : \E j \in At(k) : BeatAt(k, j, s)
    BY <1>1, <1>4, <1>6, <1>9 DEF Kept
<1>10. \A s \in 1..Len(slots') : slots'[s] # 0 =>
          \/ hand' # None /\ hand'.kind = "beat" /\ hand'.slot = s
          \/ \E k \in Maps : \E j \in At(k)' : BeatAt(k, j, s)'
    BY <1>4, <1>5, <1>9 DEF At, BeatAt
<1>11. \A n \in 1..Len(packets') :
          \/ \E k \in 1..Len(handled') : handled'[k] = n
          \/ \E x \in missed' : x.n = n
          \/ hand' # None /\ Num(hand)' = n
          \/ \E k \in Maps : \E j \in At(k)' : FromClient(mail'[k][j]) /\ Num(mail[k][j])' = n
          \/ /\ n < Len(packets') /\ packets'[n].beat /\ packets'[n + 1].beat
             /\ packets'[n].flags = packets'[n + 1].flags
    <2> SUFFICES ASSUME NEW n \in 1..Len(packets')
                 PROVE  \/ \E k \in 1..Len(handled') : handled'[k] = n
                        \/ \E x \in missed' : x.n = n
                        \/ hand' # None /\ Num(hand)' = n
                        \/ \E k \in Maps : \E j \in At(k)' :
                              FromClient(mail'[k][j]) /\ Num(mail[k][j])' = n
                        \/ /\ n < Len(packets') /\ packets'[n].beat /\ packets'[n + 1].beat
                           /\ packets'[n].flags = packets'[n + 1].flags
        OBVIOUS
    <2>1. CASE \E k \in Maps : \E j \in At(k) : FromClient(mail[k][j]) /\ Num(mail[k][j])' = n
        BY <1>4, <2>1 DEF At
    <2> QED BY <1>4, <1>5, <1>8, <2>1
<1> QED BY <1>5, <1>10, <1>11 DEF Kept

(* what is in hand sent,                                                  *)
LEMMA KeptPosted ==
    ASSUME PInv, SendToMap
    PROVE  Kept'
<1> USE DEF world, session, client, hist
<1>1. PostTypes /\ Numbers /\ Kept /\ held \in Maps /\ live
    BY DEF PInv, Numbers, PostTypes, SendToMap
<1>2. Posted(held, hand)
    BY <1>1, SendsHand
<1>3. /\ hand # None /\ hand' = None /\ beatLast' = (hand.kind = "beat")
      /\ UNCHANGED <<slots, packets, handled, missed, live>>
      /\ beat'.slot = beat.slot
    BY <1>1 DEF SendToMap, PostTypes
<1>4. /\ FromClient(hand) /\ Num(hand) = Len(packets)
      /\ hand.kind = "beat" => hand.slot = beat.slot
    BY <1>1, <1>3 DEF Numbers, InHand
<1>5. \E j \in 1..Len(mail'[held]) : mail'[held][j] = hand
    <2>1. /\ Len(mail[held]) \in Nat /\ Len(mail'[held]) = Len(mail[held]) + 1
          /\ mail'[held][Len(mail[held]) + 1] = hand /\ held' = held
        BY <1>2 DEF Posted, Put, SendToMap
    <2>2. Len(mail[held]) + 1 \in 1..Len(mail'[held])
        BY <2>1
    <2> QED BY <2>1, <2>2 DEF At
<1>6. \A k \in Maps : \A i \in At(k) : \E j \in At(k)' : mail'[k][j] = mail[k][i]
    BY <1>1, <1>2, PostKeeps DEF KeepsBut
<1>7. \A e : Num(e)' = Num(e)
    BY <1>3 DEF Num
<1>8. beatLast' => slots[beat.slot] = Len(packets)
    BY <1>3, <1>4 DEF Num
<1>9. ASSUME NEW s \in 1..Len(slots), slots[s] # 0
      PROVE  \E k \in Maps : \E j \in At(k)' : mail'[k][j].kind = "beat" /\ mail'[k][j].slot = s
    <2>1. CASE hand.kind = "beat" /\ hand.slot = s
        BY <1>1, <1>5, <2>1 DEF At
    <2>2. CASE ~(hand.kind = "beat" /\ hand.slot = s)
        <3>1. PICK k \in Maps : \E i \in At(k) : BeatAt(k, i, s)
            BY <1>1, <1>9, <2>2 DEF Kept
        <3>2. \E j \in At(k)' : mail'[k][j].kind = "beat" /\ mail'[k][j].slot = s
            BY <1>6, <3>1 DEF BeatAt
        <3> QED BY <3>2
    <2> QED BY <2>1, <2>2
<1>10. ASSUME NEW n \in 1..Len(packets),
              \/ hand # None /\ Num(hand) = n
              \/ \E k \in Maps : \E i \in At(k) : FromClient(mail[k][i]) /\ Num(mail[k][i]) = n
       PROVE  \E k \in Maps : \E j \in At(k)' : FromClient(mail'[k][j]) /\ Num(mail'[k][j]) = n
    <2>1. CASE Num(hand) = n
        BY <1>1, <1>4, <1>5, <2>1 DEF At
    <2>2. CASE \E k \in Maps : \E i \in At(k) : FromClient(mail[k][i]) /\ Num(mail[k][i]) = n
        <3>1. PICK k \in Maps : \E i \in At(k) : FromClient(mail[k][i]) /\ Num(mail[k][i]) = n
            BY <2>2
        <3>2. \E j \in At(k)' : FromClient(mail'[k][j]) /\ Num(mail'[k][j]) = n
            BY <1>6, <3>1
        <3> QED BY <3>2
    <2> QED BY <1>10, <2>1, <2>2
<1>11. \A n \in 1..Len(packets) :
          \/ \E k \in 1..Len(handled) : handled[k] = n
          \/ \E x \in missed : x.n = n
          \/ \E m \in Maps : \E i \in At(m)' : FromClient(mail'[m][i]) /\ Num(mail'[m][i]) = n
          \/ /\ n < Len(packets) /\ packets[n].beat /\ packets[n + 1].beat
             /\ packets[n].flags = packets[n + 1].flags
    BY <1>1, <1>10 DEF Kept
<1> QED BY <1>3, <1>7, <1>8, <1>9, <1>11 DEF Kept, BeatAt

(* and what is first in a mailbox handled.                                 *)
LEMMA ClientHandled ==
    ASSUME PInv, NEW m \in Maps, HandlePacket(m) \/ HandleBeat(m)
    PROVE  /\ Popped(m) /\ FromClient(mail[m][1]) /\ Reaches(Num(mail[m][1]), m)
           /\ UNCHANGED <<packets, hand, beat, beatLast, live, here, held, calls>>
           /\ Len(slots') = Len(slots)
           /\ \A s \in 1..Len(slots) :
                 \/ slots'[s] = slots[s] /\ ~BeatAt(m, 1, s)
                 \/ slots'[s] = 0
           /\ hand # None => Num(hand)' = Num(hand)
           /\ \A k \in Maps : \A j \in At(k)' :
                 FromClient(mail'[k][j]) => Num(mail[k][j])' = Num(mail'[k][j])
<1> USE DEF world, session, client, hist
<1>1. PostTypes /\ Numbers 
    BY DEF PInv, Numbers
<1>2. /\ Popped(m) /\ FromClient(mail[m][1]) /\ Reaches(Num(mail[m][1]), m)
      /\ UNCHANGED <<packets, hand, beat, beatLast, live, here, held, calls>>
    BY NumbersPacket, NumbersBeat DEF HandlePacket, HandleBeat, FromClient, Num
<1>3. /\ Len(slots') = Len(slots)
      /\ \A s \in 1..Len(slots) :
            \/ slots'[s] = slots[s] /\ ~BeatAt(m, 1, s)
            \/ slots'[s] = 0
      /\ hand # None => Num(hand)' = Num(hand)
      /\ \A k \in Maps : \A j \in At(k)' :
            FromClient(mail'[k][j]) => Num(mail[k][j])' = Num(mail'[k][j])
    <2>1. CASE HandlePacket(m)
        <3>1. slots' = slots /\ mail[m][1].kind # "beat"
            BY <2>1, NumbersPacket DEF HandlePacket
        <3> QED BY <1>2, <3>1 DEF Num, BeatAt
    <2>2. CASE HandleBeat(m)
        <3> DEFINE s == mail[m][1].slot
        <3>1. /\ s \in 1..Len(slots) /\ slots' = [slots EXCEPT ![s] = 0] /\ Len(slots') = Len(slots)
              /\ \A k \in Maps : \A i \in At(k)' : ~(mail'[k][i].kind = "beat" /\ mail'[k][i].slot = s)
              /\ hand # None /\ hand.kind = "beat" => hand.slot # s
              /\ mail[m][1].kind = "beat"
            BY <2>2, NumbersBeat
        <3> HIDE DEF s
        <3>2. slots \in Seq(Nat) /\ DOMAIN slots = 1..Len(slots)
            BY <1>1, LenProperties DEF PostTypes
        <3>3. \A o \in 1..Len(slots) : slots'[o] = IF o = s THEN 0 ELSE slots[o]
            BY <3>1, <3>2
        <3>4. \A o \in 1..Len(slots) : o # s => ~BeatAt(m, 1, o)
            BY <1>1, <3>1 DEF BeatAt, s
        <3>5. hand # None => FromClient(hand) /\ IsOurs(hand)
            BY <1>1 DEF Numbers, InHand
        <3>6. hand # None => Num(hand)' = Num(hand)
            BY <1>2, <3>1, <3>3, <3>5 DEF Num, IsOurs, FromClient
        <3>7. \A k \in Maps : \A j \in At(k)' :
                 FromClient(mail'[k][j]) => IsOurs(mail[k][j])'
            BY <2>2, NumbersBeat DEF Numbers, InMail, FromClient
        <3>8. \A k \in Maps : \A j \in At(k)' :
                 FromClient(mail'[k][j]) => Num(mail[k][j])' = Num(mail'[k][j])
            BY <3>1, <3>3, <3>7 DEF Num, IsOurs, FromClient
        <3> QED BY <3>1, <3>3, <3>4, <3>6, <3>8
    <2> QED BY <2>1, <2>2
<1> QED BY <1>2, <1>3

LEMMA KeptHandled ==
    ASSUME PInv, NEW m \in Maps, HandlePacket(m) \/ HandleBeat(m)
    PROVE  Kept'
<1>1. PostTypes /\ Numbers /\ Kept
    BY DEF PInv, Numbers
<1>2. /\ Popped(m) /\ FromClient(mail[m][1]) /\ Reaches(Num(mail[m][1]), m)
      /\ UNCHANGED <<packets, hand, beat, beatLast, live>>
    BY ClientHandled
<1>3. \A k \in Maps : \A i \in At(k) :
          mail[k][i] = mail[m][1] \/ \E j \in At(k)' : mail'[k][j] = mail[k][i]
    BY <1>2, PopKeeps DEF KeepsBut
<1>4. /\ Len(slots') = Len(slots)
      /\ \A s \in 1..Len(slots) :
            \/ slots'[s] = slots[s] /\ ~BeatAt(m, 1, s)
            \/ slots'[s] = 0
      /\ hand # None => Num(hand)' = Num(hand)
      /\ \A k \in Maps : \A j \in At(k)' :
            FromClient(mail'[k][j]) => Num(mail[k][j])' = Num(mail'[k][j])
    BY ClientHandled
<1>5. ASSUME NEW k \in Maps, NEW i \in At(k), NEW s \in 1..Len(slots), BeatAt(k, i, s), slots'[s] # 0
      PROVE  \E j \in At(k)' : BeatAt(k, j, s)'
    <2>1. mail[k][i] # mail[m][1]
        BY <1>4, <1>5 DEF BeatAt
    <2> QED BY <1>3, <1>5, <2>1 DEF BeatAt
<1>6. Num(mail[m][1]) \in Nat /\ Len(handled) \in Nat
    BY <1>1, <1>2, LenProperties DEF Popped, Cut, Numbers, InMail, IsOurs, PostTypes
<1>7. \/ \E h \in 1..Len(handled') : handled'[h] = Num(mail[m][1])
      \/ \E x \in missed' : x.n = Num(mail[m][1])
    <2>1. CASE m \in here
        <3>1. Len(handled) + 1 \in 1..Len(handled') /\ handled'[Len(handled) + 1] = Num(mail[m][1])
            BY <1>2, <1>6, <2>1 DEF Reaches
        <3> QED BY <3>1
    <2>2. CASE m \notin here
        <3>1. [n |-> Num(mail[m][1]), moves |-> moves] \in missed'
            BY <1>2, <2>2 DEF Reaches
        <3> QED BY <3>1
    <2> QED BY <2>1, <2>2
<1>8. /\ \A h \in 1..Len(handled) : h \in 1..Len(handled') /\ handled'[h] = handled[h]
      /\ \A x \in missed : x \in missed'
    BY <1>2, <1>6 DEF Reaches
<1>9. ASSUME NEW n, NEW k \in Maps, NEW i \in At(k), FromClient(mail[k][i]), Num(mail[k][i]) = n
      PROVE  \/ \E h \in 1..Len(handled') : handled'[h] = n
             \/ \E x \in missed' : x.n = n
             \/ \E j \in At(k)' : FromClient(mail'[k][j]) /\ Num(mail[k][j])' = n
    <2>1. CASE mail[k][i] = mail[m][1]
        BY <1>7, <1>9, <2>1
    <2>2. CASE \E j \in At(k)' : mail'[k][j] = mail[k][i]
        <3>1. PICK j \in At(k)' : mail'[k][j] = mail[k][i]
            BY <2>2
        <3>2. Num(mail[k][j])' = Num(mail'[k][j]) /\ FromClient(mail'[k][j])
            BY <1>4, <1>9, <3>1
        <3>3. Num(mail'[k][j]) = n
            BY <1>9, <3>1
        <3> QED BY <3>2, <3>3
    <2> QED BY <1>3, <2>1, <2>2
<1> SUFFICES ASSUME live'
             PROVE  Kept'
    BY DEF Kept
<1>10. live /\ packets' = packets /\ hand' = hand
    BY <1>2
<1>11. hand = None /\ beatLast' /\ beat'.to # None /\ slots'[beat'.slot] # 0
          => slots'[beat'.slot] = Len(packets)
    <2>1. beat'.to # None => beat'.slot \in 1..Len(slots)
        BY <1>1, <1>2 DEF Numbers, Beats
    <2> QED BY <1>1, <1>2, <1>4, <1>10, <2>1 DEF Kept
<1>12. ASSUME NEW s \in 1..Len(slots), slots'[s] # 0
       PROVE  \/ hand # None /\ hand.kind = "beat" /\ hand.slot = s
              \/ \E k \in Maps : \E j \in At(k)' : BeatAt(k, j, s)'
    <2>1. slots[s] # 0
        BY <1>4, <1>12
    <2> QED BY <1>1, <1>5, <1>10, <1>12, <2>1 DEF Kept
<1>13. ASSUME NEW n \in 1..Len(packets)
       PROVE  \/ \E k \in 1..Len(handled') : handled'[k] = n
              \/ \E x \in missed' : x.n = n
              \/ hand # None /\ Num(hand)' = n
              \/ \E k \in Maps : \E i \in At(k)' : FromClient(mail'[k][i]) /\ Num(mail[k][i])' = n
              \/ /\ n < Len(packets) /\ packets[n].beat /\ packets[n + 1].beat
                 /\ packets[n].flags = packets[n + 1].flags
    BY <1>1, <1>4, <1>8, <1>9, <1>10 DEF Kept
<1> QED BY <1>4, <1>10, <1>11, <1>12, <1>13 DEF Kept, FromClient

LEMMA KeptSession ==
    ASSUME PInv,
           \/ \E f \in States : Heartbeat(f)
           \/ OtherPacket \/ SendToMap \/ PassOn \/ Named \/ HearCall \/ ClientGoes
    PROVE  Kept'
<1> USE DEF world, session, client, hist
<1>1. PostTypes /\ Kept /\ Tokens
    BY DEF PInv
<1>2. CASE PassOn
    <2>1. KeepsBut({})
        BY <1>1, <1>2, PassOnIs, PostKeeps
    <2> QED BY <1>1, <1>2, <2>1, KeptAside DEF PassOn
<1>3. CASE Named
    <2>1. KeepsBut({})
        BY <1>3, SameKeeps DEF Named
    <2> QED BY <1>1, <1>3, <2>1, KeptAside DEF Named
<1>4. CASE HearCall
    <2>1. PICK id \in 1..Len(calls) : Posted(held, Call(id, FALSE))
        BY <1>1, <1>4, CallPassedIs DEF HearCall
    <2>2. KeepsBut({})
        BY <1>1, <2>1, PostKeeps DEF PostTypes
    <2>3. UNCHANGED <<packets, slots, hand, handled, missed, beat, live>> /\ ~beatLast'
        BY <1>4 DEF HearCall, CallPassed
    <2> QED BY <1>1, <2>2, <2>3, KeptAside
<1>5. CASE ClientGoes
    BY <1>5 DEF ClientGoes, Kept
<1> QED BY <1>2, <1>3, <1>4, <1>5, KeptCoalesced, KeptInHand, KeptPosted DEF Heartbeat

LEMMA KeptMap ==
    ASSUME PInv, NEW m \in Maps,
           \/ HandlePacket(m) \/ HandleBeat(m) \/ HandleArrive(m) \/ HandleGone(m)
           \/ HandleCall(m) \/ Leaves(m)
           \/ \E to \in Maps : Teleport(m, to)
    PROVE  Kept'
<1> USE DEF world, session, client, hist
<1>1. PostTypes /\ Kept
    BY DEF PInv
<1>2. ASSUME Popped(m), ~FromClient(mail[m][1])
      PROVE  KeepsBut({mail[m][1]}) /\ \A e \in {mail[m][1]} : ~FromClient(e)
    BY <1>2, PopKeeps
<1>3. CASE HandleArrive(m)
    <2>1. Popped(m) /\ mail[m][1].kind = "arrive"
        BY <1>1, <1>3, HeadIs DEF HandleArrive
    <2>2. ~FromClient(mail[m][1])
        BY <2>1 DEF FromClient
    <2>3. UNCHANGED <<packets, slots, hand, handled, missed, beat, live, beatLast>>
        BY <1>3 DEF HandleArrive
    <2> QED BY <1>1, <1>2, <2>1, <2>2, <2>3, KeptAside
<1>4. CASE HandleGone(m)
    <2>1. Popped(m) /\ mail[m][1].kind = "disconnect"
        BY <1>1, <1>4, HeadIs DEF HandleGone
    <2>2. ~FromClient(mail[m][1])
        BY <2>1 DEF FromClient
    <2>3. UNCHANGED <<packets, slots, hand, handled, missed, beat, live, beatLast>>
        BY <1>4 DEF HandleGone
    <2> QED BY <1>1, <1>2, <2>1, <2>2, <2>3, KeptAside
<1>5. CASE HandleCall(m)
    <2>1. PICK id \in Nat : mail[m][1].kind = "call" /\ CallEnds(m, id)
        BY <1>1, <1>5, CallCases
    <2>2. ~FromClient(mail[m][1])
        BY <2>1 DEF FromClient
    <2>3. KeepsBut({mail[m][1]})
        BY <2>1, PopKeeps, SentOnKeeps DEF CallEnds
    <2>4. UNCHANGED <<packets, slots, hand, handled, missed, beat, live, beatLast>>
        BY <1>5 DEF HandleCall, CallDealt
    <2> QED BY <1>1, <2>2, <2>3, <2>4, KeptAside
<1>6. CASE Leaves(m)
    <2>1. KeepsBut({})
        BY <1>6, SameKeeps DEF Leaves
    <2> QED BY <1>1, <1>6, <2>1, KeptAside DEF Leaves
<1>7. ASSUME NEW to \in Maps, Teleport(m, to)
      PROVE  Kept'
    <2>1. KeepsBut({})
        BY <1>1, <1>7, TeleportIs, SameKeeps, PostTwoKeeps
    <2> QED BY <1>1, <1>7, <2>1, KeptAside DEF Teleport
<1> QED BY <1>3, <1>4, <1>5, <1>6, <1>7, KeptHandled

LEMMA KeptStep ==
    ASSUME PInv, [Next]_vars
    PROVE  Kept'
<1> USE DEF world, session, client, hist
<1>1. PostTypes /\ Kept
    BY DEF PInv
<1>2. CASE UNCHANGED vars \/ CallReads
    <2>1. UNCHANGED <<mail, packets, slots, hand, handled, missed, beat, live, beatLast>>
        BY <1>2 DEF vars, CallReads
    <2>2. KeepsBut({})
        BY <2>1, SameKeeps
    <2> QED BY <1>1, <2>1, <2>2, KeptAside
<1>3. ASSUME NEW id \in DOMAIN calls, CallSent(id)
      PROVE  Kept'
    <2>1. KeepsBut({})
        BY <1>1, <1>3, CallSentIs, PostKeeps
    <2> QED BY <1>1, <1>3, <2>1, KeptAside DEF CallSent
<1> QED BY <1>2, <1>3, KeptSession, KeptMap DEF Next

-----------------------------------------------------------------------------
(* What was sent since the player moved finds them.                        *)
LEMMA FoundAside ==
    ASSUME InMail, Found, NEW S, Carries(S), \A e \in S : e.kind # "packet",
           moves' = moves, lingering' = lingering,
           \A n \in 1..Len(packets) : packets'[n] = packets[n]
    PROVE  Found'
<1> SUFFICES ASSUME NEW k \in Maps, NEW i \in At(k)', mail'[k][i].kind = "packet",
                    packets'[mail'[k][i].n].heard = moves
             PROVE  /\ ~lingering /\ Reached(k, i)'
                    /\ \A j \in 1..(i - 1) : mail'[k][j].kind # "disconnect"
    BY DEF Found
<1>1. PICK d \in {0, 1} : Carried(k, d) /\ Behindhand(k, d, S)
    BY DEF Carries
<1>2. i + d \in At(k) /\ mail'[k][i] = mail[k][i + d] /\ (Reached(k, i)' <=> Reached(k, i + d))
    BY <1>1 DEF Carried, Behindhand
<1>3. mail[k][i + d].n \in 1..Len(packets)
    BY <1>2 DEF InMail, IsOurs, FromClient, Num
<1>4. /\ ~lingering /\ Reached(k, i + d)
      /\ \A j \in 1..((i + d) - 1) : mail[k][j].kind # "disconnect"
    BY <1>2, <1>3 DEF Found
<1>5. ASSUME NEW j \in 1..(i - 1)
      PROVE  mail'[k][j].kind # "disconnect"
    <2>1. i \in 1..Len(mail'[k]) /\ i + d \in 1..Len(mail[k])
        BY <1>2 DEF At
    <2>2. j \in 1..Len(mail'[k]) /\ j + d \in 1..Len(mail[k]) /\ j + d \in 1..((i + d) - 1)
        BY <2>1
    <2>3. mail'[k][j] = mail[k][j + d]
        BY <1>1, <2>2 DEF Carried, At
    <2> QED BY <1>4, <2>2, <2>3
<1> QED BY <1>2, <1>4, <1>5

LEMMA MovedAside ==
    ASSUME Moved, UNCHANGED <<heard, moves, naming, packets>>, hand' = None \/ hand' = hand,
           OnQueue' => OnQueue
    PROVE  Moved'
BY DEF Moved

LEMMA MissesAside ==
    ASSUME Misses, missed' = missed, Len(packets) \in Nat, Len(packets') \in Nat,
           Len(packets') >= Len(packets), \A n \in 1..Len(packets) : packets'[n] = packets[n]
    PROVE  Misses'
BY DEF Misses

(* In hand, it goes to the map they are in or come to, if they were.       *)
LEMMA FoundPosted ==
    ASSUME PInv, SendToMap
    PROVE  Found'
<1> USE DEF world, session, client, hist
<1>1. PostTypes /\ Numbers /\ Routed /\ Moved /\ Found /\ held \in Maps /\ live
    BY DEF PInv, Numbers, Heard, PostTypes, SendToMap
<1>2. Posted(held, hand)
    BY <1>1, SendsHand
<1>3. hand # None /\ UNCHANGED <<here, packets, moves, lingering>>
    BY DEF SendToMap
<1>4. CASE hand.kind # "packet"
    <2>1. Carries({hand})
        BY <1>1, <1>2, <1>3, PostCarries
    <2> QED BY <1>1, <1>3, <1>4, <2>1, FoundAside DEF Numbers
<1>5. CASE hand.kind = "packet"
    <2>1. hand.n = Len(packets)
        BY <1>1, <1>3, <1>5 DEF Numbers, InHand, Num
    <2>2. heard = moves => ~OnQueue /\ naming = None
        BY <1>1 DEF PostTypes, Moved
    <2>3. packets[hand.n].heard = moves => heard = moves
        BY <1>1, <1>3, <2>1 DEF Moved
    <2> SUFFICES ASSUME NEW k \in Maps, NEW i \in At(k)', mail'[k][i].kind = "packet",
                        packets[mail'[k][i].n].heard = moves
                 PROVE  /\ ~lingering /\ Reached(k, i)'
                        /\ \A j \in 1..(i - 1) : mail'[k][j].kind # "disconnect"
        BY <1>3 DEF Found
    <2>4. CASE k # held
        <3>1. mail'[k] = mail[k]
            BY <1>2, <2>4 DEF Posted, Others
        <3> QED BY <1>1, <1>3, <3>1 DEF Found, At, Reached, Arrives
    <2>5. CASE k = held
        <3>1. /\ Len(mail[k]) \in Nat /\ Len(mail'[k]) = Len(mail[k]) + 1
              /\ \A j \in At(k) : mail'[k][j] = mail[k][j]
              /\ Carried(k, 0)
              /\ i \in At(k) \/ (i = Len(mail[k]) + 1 /\ mail'[k][i] = hand /\ (Reached(k, i)' <=> Coming(k)))
            BY <1>2, <1>3, <2>5, PutCarried DEF Posted, Put
        <3>2. \A j \in 1..(i - 1) : j \in At(k)
            BY <3>1 DEF At
        <3>3. CASE i \in At(k)
            <4>1. mail'[k][i] = mail[k][i] /\ i + 0 = i
                BY <3>1, <3>3 DEF At
            <4>2. Reached(k, i)' <=> Reached(k, i)
                BY <3>1, <3>3, <4>1 DEF Carried
            <4> QED BY <1>1, <3>1, <3>2, <3>3, <4>1, <4>2 DEF Found
        <3>4. CASE i = Len(mail[k]) + 1 /\ mail'[k][i] = hand /\ (Reached(k, i)' <=> Coming(k))
            <4>1. Coming(held) /\ ~lingering
                BY <1>1, <2>2, <2>3, <3>4 DEF Routed
            <4>2. \A j \in At(k) : mail[k][j].kind # "disconnect"
                BY <1>1 DEF Routed
            <4> QED BY <2>5, <3>1, <3>2, <3>4, <4>1, <4>2
        <3> QED BY <3>1, <3>3, <3>4
    <2> QED BY <2>4, <2>5
<1> QED BY <1>4, <1>5

LEMMA HeardSession ==
    ASSUME PInv,
           \/ \E f \in States : Heartbeat(f)
           \/ OtherPacket \/ SendToMap \/ PassOn \/ Named \/ HearCall \/ ClientGoes
    PROVE  Heard'
<1> USE DEF world, session, client, hist
<1>1. PostTypes /\ Numbers /\ Heard /\ Tokens /\ OnePlace /\ Routed
    BY DEF PInv, Numbers
<1>2. Len(packets) \in Nat
    BY <1>1, LenProperties DEF PostTypes
<1>3. ASSUME \/ \E f \in States : Heartbeat(f)
             \/ OtherPacket
      PROVE  Heard'
    <2>1. \E b \in BOOLEAN, f \in States \cup {None} : NewPacket(b, f)
        BY <1>1, <1>3, SentIs DEF Heartbeat, Coalesced, InPlace, Marked, AsPacket, OtherPacket
    <2>2. /\ Len(packets') = Len(packets) + 1 /\ packets'[Len(packets')].heard = heard
          /\ \A n \in 1..Len(packets) : packets'[n] = packets[n]
        BY <2>1 DEF NewPacket
    <2>3. UNCHANGED <<here, mail, lingering, moves, heard, naming, ctl, missed>>
        BY <1>3 DEF Heartbeat, Coalesced, InPlace, Marked, AsPacket, OtherPacket
    <2>4. Found'
        BY <1>1, <2>2, <2>3, SameCarries, FoundAside DEF Heard, Numbers
    <2>5. Misses'
        BY <1>1, <1>2, <2>2, <2>3, MissesAside DEF Heard
    <2>6. \A n \in 1..Len(packets') : packets'[n].heard <= heard
        <3>1. \A n \in 1..Len(packets') : n \in 1..Len(packets) \/ n = Len(packets')
            BY <1>2, <2>2
        <3>2. \A n \in 1..Len(packets) : packets[n].heard <= heard
            BY <1>1 DEF Heard, Moved
        <3>3. heard <= heard
            BY <1>1 DEF PostTypes
        <3> QED BY <2>2, <3>1, <3>2, <3>3
    <2>7. Moved'
        BY <1>1, <2>2, <2>3, <2>6 DEF Heard, Moved, OnQueue, Passing
    <2> QED BY <2>4, <2>5, <2>7 DEF Heard
<1>4. CASE SendToMap
    <2>1. Moved'
        BY <1>1, <1>4, MovedAside DEF SendToMap, Heard, OnQueue, Passing
    <2>2. Misses'
        BY <1>1, <1>4 DEF SendToMap, Heard, Misses
    <2> QED BY <1>4, <2>1, <2>2, FoundPosted DEF Heard
<1>5. CASE PassOn
    <2>1. /\ CtlPopped /\ Passing(1) /\ ctl[1].to \in Maps /\ naming' = ctl[1].to
          /\ Posted(ctl[1].to, Arrival)
        BY <1>1, <1>5, PassOnIs
    <2>2. UNCHANGED <<here, lingering, moves, heard, hand, packets, missed>> /\ naming = None
        BY <1>5 DEF PassOn, Free
    <2>0. Carries({Arrival}) /\ Arrival.kind # "packet"
        BY <2>1, <2>2, PostCarries DEF Arrival
    <2>3. Found'
        BY <1>1, <2>0, <2>2, FoundAside DEF Heard, Numbers
    <2>4. OnQueue /\ ~OnQueue'
        BY <1>1, <2>1 DEF OnQueue, Passing, CtlPopped, OnePlace
    <2>5. Moved'
        BY <1>1, <2>2, <2>4 DEF Heard, Moved
    <2> QED BY <1>1, <2>2, <2>3, <2>5 DEF Heard, Misses
<1>6. CASE Named
    <2>1. UNCHANGED <<here, mail, lingering, moves, hand, packets, missed, ctl>>
          /\ naming # None /\ naming' = None /\ heard' = heard + 1 /\ hand = None
        BY <1>1, <1>6 DEF Named, Routed
    <2>2. Found'
        BY <1>1, <2>1, SameCarries, FoundAside DEF Heard, Numbers
    <2>3. packets \in Seq(APacket) /\ heard \in Nat /\ moves \in Nat
        BY <1>1 DEF PostTypes
    <2>4. \A n \in 1..Len(packets) : packets[n].heard \in Nat
        <3>1. \A n \in 1..Len(packets) : packets[n] \in APacket
            BY <2>3, ElementOfSeq
        <3> QED BY <3>1 DEF APacket
    <2>5. OnQueue' <=> OnQueue
        BY <2>1 DEF OnQueue, Passing
    <2>6. Moved'
        BY <1>1, <2>1, <2>3, <2>4, <2>5 DEF Heard, Moved
    <2> QED BY <1>1, <2>1, <2>2, <2>6 DEF Heard, Misses
<1>7. CASE HearCall
    <2>1. \E id \in 1..Len(calls) : CtlPopped /\ QueuedAt(1, id) /\ Posted(held, Call(id, FALSE))
        BY <1>1, <1>7, CallPassedIs DEF HearCall
    <2>2. PICK id \in 1..Len(calls) : CtlPopped /\ QueuedAt(1, id) /\ Posted(held, Call(id, FALSE))
        BY <2>1
    <2>3. UNCHANGED <<here, lingering, moves, heard, hand, naming, packets, missed>> /\ held \in Maps
        BY <1>1, <1>7 DEF HearCall, CallPassed, PostTypes
    <2>4. Carries({Call(id, FALSE)}) /\ Call(id, FALSE).kind # "packet"
        BY <2>2, <2>3, PostCarries DEF Call
    <2>5. Found'
        BY <1>1, <2>3, <2>4, FoundAside DEF Heard, Numbers
    <2>6. OnQueue' => OnQueue
        BY <2>2 DEF OnQueue, Passing, CtlPopped
    <2>7. Moved'
        BY <1>1, <2>3, <2>6, MovedAside DEF Heard
    <2> QED BY <1>1, <2>3, <2>5, <2>7 DEF Heard, Misses
<1>8. CASE ClientGoes
    <2>1. UNCHANGED <<here, lingering, moves, heard, naming, packets, missed>> /\ hand' = None
          /\ held \in Maps /\ ctl' = <<>>
        BY <1>1, <1>8 DEF ClientGoes, PostTypes
    <2>2. \E S \in SUBSET {Arrival, Gone} : Carries(S)
        <3>1. CASE Posted(held, Gone)
            BY <2>1, <3>1, PostCarries
        <3>2. CASE \E i \in 1..Len(ctl) : ctl[i].to \in Maps /\ PostedTwo(ctl[i].to, Arrival, Gone)
            BY <2>1, <3>2, PostTwoCarries
        <3> QED BY <1>1, <1>8, <3>1, <3>2, ClientCases
    <2>3. PICK S \in SUBSET {Arrival, Gone} : Carries(S)
        BY <2>2
    <2>4. \A e \in S : e.kind # "packet"
        BY DEF Arrival, Gone
    <2>5. Found'
        BY <1>1, <2>1, <2>3, <2>4, FoundAside DEF Heard, Numbers
    <2>6. ~OnQueue'
        BY <2>1 DEF OnQueue
    <2>7. Moved'
        BY <1>1, <2>1, <2>6, MovedAside DEF Heard
    <2> QED BY <1>1, <2>1, <2>5, <2>7 DEF Heard, Misses
<1> QED BY <1>3, <1>4, <1>5, <1>6, <1>7, <1>8

LEMMA HeardMap ==
    ASSUME PInv, NEW m \in Maps,
           \/ HandlePacket(m) \/ HandleBeat(m) \/ HandleArrive(m) \/ HandleGone(m)
           \/ HandleCall(m) \/ Leaves(m)
           \/ \E to \in Maps : Teleport(m, to)
    PROVE  Heard'
<1> USE DEF world, session, client, hist
<1>1. PostTypes /\ Numbers /\ Heard /\ OnePlace /\ Routed
    BY DEF PInv, Numbers
<1>2. Len(packets) \in Nat /\ packets \in Seq(APacket) /\ heard \in Nat /\ moves \in Nat
    BY <1>1, LenProperties DEF PostTypes
<1>3. ASSUME UNCHANGED <<heard, moves, naming, packets, hand>>, ctl' = ctl
      PROVE  Moved'
    BY <1>1, <1>3, MovedAside DEF Heard, OnQueue, Passing
<1>4. CASE HandlePacket(m) \/ HandleBeat(m)
    <2>1. UNCHANGED <<here, lingering, moves, heard, hand, naming, packets, ctl>>
        BY <1>4 DEF HandlePacket, HandleBeat
    <2>2. Popped(m) /\ 1 \in At(m) /\ mail[m][1].kind \in {"packet", "beat"}
        BY <1>4, NumbersPacket, NumbersBeat
    <2>3. Carries({})
        BY <2>1, <2>2, PopCarries DEF Arrives
    <2>4. Found'
        BY <1>1, <2>1, <2>3, FoundAside DEF Heard, Numbers
    <2>5. \A x \in missed' \ missed :
             x.n \in 1..Len(packets) /\ (packets[x.n].beat \/ packets[x.n].heard < x.moves)
        <3>1. CASE HandlePacket(m)
            <4> DEFINE n == mail[m][1].n
            <4>1. n \in 1..Len(packets)
                BY <1>1, <2>2, <3>1, NumbersPacket DEF Numbers, InMail, IsOurs, FromClient, Num
            <4>2. m \notin here => packets[n].heard # moves
                BY <1>1, <2>2, <3>1, NumbersPacket DEF Heard, Found, Reached
            <4>3. packets[n].heard \in Nat /\ packets[n].heard <= heard /\ heard <= moves
                <5>1. packets[n] \in APacket
                    BY <1>2, <4>1, ElementOfSeq
                <5>2. packets[n].heard \in Nat
                    BY <5>1 DEF APacket
                <5>3. packets[n].heard <= heard
                    BY <1>1, <4>1 DEF Heard, Moved
                <5> QED BY <1>1, <5>2, <5>3 DEF Heard, Moved
            <4>4. m \notin here => packets[n].heard < moves
                BY <1>2, <4>2, <4>3
            <4>5. Reaches(n, m)
                BY <3>1, NumbersPacket
            <4> QED BY <4>1, <4>4, <4>5 DEF Reaches
        <3>2. CASE HandleBeat(m)
            <4> DEFINE s == mail[m][1].slot
            <4>1. s \in 1..Len(slots) /\ slots[s] # 0 /\ Reaches(slots[s], m)
                BY <3>2, NumbersBeat
            <4>2. slots[s] \in 1..Len(packets) /\ packets[slots[s]].beat
                BY <1>1, <1>2, <4>1 DEF Numbers, Beats
            <4> QED BY <4>1, <4>2 DEF Reaches
        <3> QED BY <1>4, <3>1, <3>2
    <2>6. Misses'
        BY <1>1, <2>1, <2>5 DEF Heard, Misses
    <2> QED BY <1>3, <2>1, <2>4, <2>6 DEF Heard
<1>5. CASE HandleArrive(m)
    <2>1. Popped(m) /\ mail[m][1].kind = "arrive" /\ 1 \in At(m)
        BY <1>1, <1>5, HeadIs DEF HandleArrive
    <2>2. here = {} /\ here' = {m}
        BY <1>1, <1>5, <2>1 DEF HandleArrive, OnePlace, ArrivalIn, Arrives
    <2>3. UNCHANGED <<lingering, moves, heard, hand, naming, packets, ctl, missed>>
        BY <1>5 DEF HandleArrive
    <2>4. Found'
        BY <1>1, <2>1, <2>2, <2>3, ArriveCarries, FoundAside DEF Heard, Numbers, Arrives
    <2> QED BY <1>1, <1>3, <2>3, <2>4 DEF Heard, Misses
<1>6. CASE HandleGone(m)
    <2>1. Popped(m) /\ mail[m][1].kind = "disconnect"
        BY <1>1, <1>6, HeadIs DEF HandleGone
    <2>2. UNCHANGED <<here, moves, heard, hand, naming, packets, ctl, missed>>
          /\ lingering' = (lingering \/ m \in here)
        BY <1>6 DEF HandleGone
    <2>3. CASE m \notin here
        <3>1. lingering' = lingering
            BY <1>1, <2>2, <2>3 DEF PostTypes
        <3>2. Found'
            BY <1>1, <2>1, <2>2, <3>1, PopCarries, FoundAside DEF Heard, Numbers, Arrives
        <3> QED BY <1>1, <1>3, <2>2, <3>2 DEF Heard, Misses
    <2>4. CASE m \in here
        <3> SUFFICES ASSUME NEW k \in Maps, NEW i \in At(k)', mail'[k][i].kind = "packet",
                            packets[mail'[k][i].n].heard = moves
                     PROVE  FALSE
            BY <1>1, <1>3, <2>2 DEF Heard, Misses, Found
        <3>1. CASE k = m
            <4>1. i \in 1..Len(mail'[m]) /\ i + 1 \in At(m) /\ mail'[m][i] = mail[m][i + 1]
                BY <2>1, <3>1 DEF Popped, Cut, At
            <4>2. 1 \in 1..((i + 1) - 1)
                BY <4>1
            <4> QED BY <1>1, <2>1, <3>1, <4>1, <4>2 DEF Heard, Found
        <3>2. CASE k # m
            <4>1. mail'[k] = mail[k] /\ i \in At(k)
                BY <2>1, <3>2 DEF Popped, Others, At
            <4>2. Reached(k, i)
                BY <1>1, <4>1 DEF Heard, Found
            <4>3. k \notin here /\ ~ArrivalIn(k)
                BY <1>1, <2>4, <3>2 DEF OnePlace
            <4>4. \A j \in 1..(i - 1) : j \in At(k)
                BY <4>1 DEF At
            <4> QED BY <4>2, <4>3, <4>4 DEF Reached, ArrivalIn
        <3> QED BY <3>1, <3>2
    <2> QED BY <2>3, <2>4
<1>7. CASE HandleCall(m)
    <2>1. PICK id \in Nat : mail[m][1].kind = "call" /\ CallEnds(m, id)
        BY <1>1, <1>7, CallCases
    <2>2. UNCHANGED <<here, lingering, moves, heard, hand, naming, packets, missed>>
        BY <1>7 DEF HandleCall, CallDealt
    <2>3. ~Arrives(m, 1) /\ Call(id, FALSE).kind # "packet"
        BY <2>1 DEF Arrives, Call
    <2>4. \E S \in {{}, {Call(id, FALSE)}} : Carries(S)
        <3>1. CASE Popped(m)
            BY <2>2, <2>3, <3>1, PopCarries
        <3>2. CASE entry \in Maps /\ SentOn(m, entry, Call(id, FALSE))
            BY <2>2, <2>3, <3>2, SentOnCarries
        <3> QED BY <2>1, <3>1, <3>2 DEF CallEnds
    <2>5. Found'
        BY <1>1, <2>2, <2>3, <2>4, FoundAside DEF Heard, Numbers
    <2>6. ctl' = ctl \/ CtlPosted(ToPlayer(id))
        BY <2>1 DEF CallEnds
    <2>7. OnQueue' => OnQueue
        BY <2>6 DEF OnQueue, Passing, CtlPosted, ToPlayer
    <2>8. Moved'
        BY <1>1, <2>2, <2>7, MovedAside DEF Heard
    <2> QED BY <1>1, <2>2, <2>5, <2>8 DEF Heard, Misses
<1>8. CASE Leaves(m)
    <2>1. UNCHANGED <<mail, moves, lingering, heard, hand, naming, packets, ctl, missed>> /\ lingering
        BY <1>8 DEF Leaves
    <2>2. Found'
        BY <1>1, <2>1 DEF Heard, Found, At
    <2> QED BY <1>1, <1>3, <2>1, <2>2 DEF Heard, Misses
<1>9. ASSUME NEW to \in Maps, Teleport(m, to)
      PROVE  Heard'
    <2>1. UNCHANGED <<lingering, heard, hand, naming, packets, missed>> /\ moves' = moves + 1
        BY <1>9 DEF Teleport
    <2>2. InMail'
        BY <1>9, NumbersMap DEF Numbers
    <2>3. \A n \in 1..Len(packets) : packets[n].heard \in Nat /\ packets[n].heard <= heard
        <3>1. \A n \in 1..Len(packets) : packets[n] \in APacket
            BY <1>2, ElementOfSeq
        <3>2. \A n \in 1..Len(packets) : packets[n].heard \in Nat
            BY <3>1 DEF APacket
        <3> QED BY <1>1, <3>2 DEF Heard, Moved
    <2>4. heard < moves'
        BY <1>1, <1>2, <2>1 DEF Heard, Moved
    <2>5. \A n \in 1..Len(packets) : packets[n].heard # moves'
        BY <1>2, <2>1, <2>3, <2>4
    <2>6. Found'
        BY <2>1, <2>2, <2>5 DEF Found, InMail, IsOurs, FromClient, Num
    <2>7. Moved'
        BY <1>1, <1>2, <2>1 DEF Heard, Moved
    <2> QED BY <1>1, <2>1, <2>6, <2>7 DEF Heard, Misses
<1> QED BY <1>4, <1>5, <1>6, <1>7, <1>8, <1>9

LEMMA HeardStep ==
    ASSUME PInv, [Next]_vars
    PROVE  Heard'
<1> USE DEF world, session, client, hist
<1>1. PostTypes /\ Heard /\ Numbers
    BY DEF PInv, Numbers
<1>2. CASE UNCHANGED vars \/ CallReads
    <2>1. UNCHANGED <<here, mail, packets, lingering, moves, heard, naming, hand, ctl, missed>>
        BY <1>2 DEF vars, CallReads
    <2>2. Found'
        BY <1>1, <2>1, SameCarries, FoundAside DEF Heard, Numbers
    <2> QED BY <1>1, <2>1, <2>2, MovedAside DEF Heard, Misses, OnQueue, Passing
<1>3. ASSUME NEW id \in DOMAIN calls, CallSent(id)
      PROVE  Heard'
    <2>1. UNCHANGED <<here, packets, lingering, moves, heard, naming, hand, ctl, missed>>
        BY <1>3 DEF CallSent
    <2>2. calls[id].to \in Maps /\ Posted(calls[id].to, Call(id, TRUE))
        BY <1>1, <1>3, CallSentIs
    <2>3. Carries({Call(id, TRUE)}) /\ Call(id, TRUE).kind # "packet"
        BY <2>1, <2>2, PostCarries DEF Call
    <2>4. Found'
        BY <1>1, <2>1, <2>3, FoundAside DEF Heard, Numbers
    <2> QED BY <1>1, <2>1, <2>4, MovedAside DEF Heard, Misses, OnQueue, Passing
<1> QED BY <1>2, <1>3, HeardSession, HeardMap DEF Next

-----------------------------------------------------------------------------
(* Calls, one at a time.                                                  *)
Token(id) ==
    /\ \A m \in Maps : \A i \in At(m) : CallAt(m, i, id) =>
          /\ id \in 1..Len(calls) /\ calls[id].sent /\ ~Ran(id)
          /\ mail[m][i].follow => m = calls[id].to /\ calls[id].via = None
          /\ calls[id].via \in {None, m}
          /\ \A k \in Maps : \A j \in At(k) : CallAt(k, j, id) => k = m /\ j = i
    /\ \A i \in 1..Len(ctl) : QueuedAt(i, id) =>
          /\ id \in 1..Len(calls) /\ calls[id].sent /\ ~Ran(id) /\ calls[id].via = None
          /\ \A j \in 1..Len(ctl) : QueuedAt(j, id) => j = i
          /\ \A m \in Maps : \A j \in At(m) : ~CallAt(m, j, id)
CallsMade ==
    /\ \A id \in 1..Len(calls) : ~calls[id].sent => calls[id].via = None
    /\ \A k \in 1..Len(runs) : runs[k] \in 1..Len(calls) /\ calls[runs[k]].sent
    /\ IsInjective(runs)

LEMMA TokensAre == Tokens <=> (\A id : Token(id)) /\ CallsMade
<1>1. ASSUME Tokens, NEW id
      PROVE  Token(id)
    <2>1. ASSUME NEW m \in Maps, NEW i \in At(m), CallAt(m, i, id)
          PROVE  /\ id \in 1..Len(calls) /\ calls[id].sent /\ ~Ran(id)
                 /\ mail[m][i].follow => m = calls[id].to /\ calls[id].via = None
                 /\ calls[id].via \in {None, m}
                 /\ \A k \in Maps : \A j \in At(k) : CallAt(k, j, id) => k = m /\ j = i
        <3>1. mail[m][i].kind = "call" /\ mail[m][i].id = id
            BY <2>1 DEF CallAt
        <3> QED BY <1>1, <3>1 DEF Tokens
    <2>2. ASSUME NEW i \in 1..Len(ctl), QueuedAt(i, id)
          PROVE  /\ id \in 1..Len(calls) /\ calls[id].sent /\ ~Ran(id) /\ calls[id].via = None
                 /\ \A j \in 1..Len(ctl) : QueuedAt(j, id) => j = i
                 /\ \A m \in Maps : \A j \in At(m) : ~CallAt(m, j, id)
        <3>1. ctl[i].kind = "toplayer" /\ ctl[i].id = id
            BY <2>2 DEF QueuedAt
        <3> QED BY <1>1, <3>1 DEF Tokens
    <2> QED BY <2>1, <2>2 DEF Token
<1>2. ASSUME \A id : Token(id), CallsMade
      PROVE  Tokens
    <2>1. ASSUME NEW m \in Maps, NEW i \in At(m), mail[m][i].kind = "call"
          PROVE  LET id == mail[m][i].id IN
                 /\ id \in 1..Len(calls) /\ calls[id].sent /\ ~Ran(id)
                 /\ mail[m][i].follow => m = calls[id].to /\ calls[id].via = None
                 /\ calls[id].via \in {None, m}
                 /\ \A k \in Maps : \A j \in At(k) : CallAt(k, j, id) => k = m /\ j = i
        <3> DEFINE id == mail[m][i].id
        <3>1. CallAt(m, i, id) /\ Token(id)
            BY <1>2, <2>1 DEF CallAt
        <3> QED BY <3>1 DEF Token
    <2>2. ASSUME NEW i \in 1..Len(ctl), ctl[i].kind = "toplayer"
          PROVE  LET id == ctl[i].id IN
                 /\ id \in 1..Len(calls) /\ calls[id].sent /\ ~Ran(id) /\ calls[id].via = None
                 /\ \A j \in 1..Len(ctl) : QueuedAt(j, id) => j = i
                 /\ \A m \in Maps : \A j \in At(m) : ~CallAt(m, j, id)
        <3> DEFINE id == ctl[i].id
        <3>1. QueuedAt(i, id) /\ Token(id)
            BY <1>2, <2>2 DEF QueuedAt
        <3> QED BY <3>1 DEF Token
    <2> QED BY <1>2, <2>1, <2>2 DEF Tokens, CallsMade
<1>3. Tokens => CallsMade
    BY DEF Tokens, CallsMade
<1> QED BY <1>1, <1>2, <1>3

(* The session's queue loses its head, or gets a word behind.              *)
Queued(id, c) ==
    \A i \in 1..Len(ctl') : ctl'[i].kind = "toplayer" /\ ctl'[i].id = id =>
        i \in Int /\ i + c \in 1..Len(ctl) /\ ctl'[i] = ctl[i + c]
StaysQueued(id) == \E c \in {0, 1} : Queued(id, c)

LEMMA QueueKept ==
    ASSUME NEW id,
           \/ ctl' = ctl \/ CtlPopped \/ ctl' = <<>>
           \/ \E w : CtlPosted(w) /\ ~(w.kind = "toplayer" /\ w.id = id)
    PROVE  StaysQueued(id)
<1>1. CASE ctl' = ctl
    BY <1>1 DEF StaysQueued, Queued
<1>2. CASE CtlPopped
    BY <1>2 DEF StaysQueued, Queued, CtlPopped
<1>3. CASE ctl' = <<>>
    BY <1>3 DEF StaysQueued, Queued
<1>4. ASSUME NEW w, CtlPosted(w), ~(w.kind = "toplayer" /\ w.id = id)
      PROVE  Queued(id, 0)
    <2> SUFFICES ASSUME NEW i \in 1..Len(ctl'), ctl'[i].kind = "toplayer", ctl'[i].id = id
                 PROVE  i \in Int /\ i + 0 \in 1..Len(ctl) /\ ctl'[i] = ctl[i + 0]
        BY DEF Queued
    <2>1. i \in 1..Len(ctl) \/ i = Len(ctl) + 1
        BY <1>4 DEF CtlPosted
    <2>2. i # Len(ctl) + 1
        BY <1>4 DEF CtlPosted
    <2> QED BY <1>4, <2>1, <2>2 DEF CtlPosted
<1> QED BY <1>1, <1>2, <1>3, <1>4 DEF StaysQueued

(* A call a step leaves alone stays where it is.                           *)
CallStays(id) ==
    /\ id \in 1..Len(calls) => id \in 1..Len(calls') /\ calls'[id] = calls[id]
    /\ Ran(id)' => Ran(id)
CallNotIn(S, id) == \A e \in S : ~(e.kind = "call" /\ e.id = id)

LEMMA CallFrom ==
    ASSUME NEW S, CarriesDown(S), NEW id, CallNotIn(S, id), NEW k \in Maps
    PROVE  \E d \in {0, 1} : \A i \in At(k)' : mail'[k][i].kind = "call" /\ mail'[k][i].id = id =>
              i \in Int /\ i + d \in At(k) /\ mail'[k][i] = mail[k][i + d]
                        /\ (Reached(k, i)' => Reached(k, i + d))
<1>1. PICK d \in {0, 1} : CarriedDown(k, d) /\ Behindhand(k, d, S)
    BY DEF CarriesDown
<1>2. ASSUME NEW i \in At(k)', mail'[k][i].kind = "call" /\ mail'[k][i].id = id
      PROVE  i \in Int /\ i + d \in At(k) /\ mail'[k][i] = mail[k][i + d]
                       /\ (Reached(k, i)' => Reached(k, i + d))
    <2>1. i \in Int
        BY DEF At
    <2>2. i + d \in At(k)
        BY <1>1, <1>2 DEF Behindhand, CallNotIn
    <2> QED BY <1>1, <2>1, <2>2 DEF CarriedDown
<1> QED BY <1>2

LEMMA TokenKept ==
    ASSUME NEW id, Token(id), NEW S, CarriesDown(S), CallNotIn(S, id), StaysQueued(id), CallStays(id)
    PROVE  Token(id)'
<1>1. ASSUME NEW k \in Maps
      PROVE  \E d \in {0, 1} : \A i \in At(k)' : mail'[k][i].kind = "call" /\ mail'[k][i].id = id =>
                i \in Int /\ i + d \in At(k) /\ mail'[k][i] = mail[k][i + d]
    BY CallFrom
<1>2. PICK c \in {0, 1} : Queued(id, c)
    BY DEF StaysQueued
<1>3. ASSUME NEW m \in Maps, NEW i \in At(m)', mail'[m][i].kind = "call", mail'[m][i].id = id
      PROVE  /\ id \in 1..Len(calls') /\ calls'[id].sent /\ ~Ran(id)'
             /\ mail'[m][i].follow => m = calls'[id].to /\ calls'[id].via = None
             /\ calls'[id].via \in {None, m}
             /\ \A k \in Maps : \A j \in At(k)' :
                   mail'[k][j].kind = "call" /\ mail'[k][j].id = id => k = m /\ j = i
    <2>1. PICK d \in {0, 1} : \A o \in At(m)' : mail'[m][o].kind = "call" /\ mail'[m][o].id = id =>
                o \in Int /\ o + d \in At(m) /\ mail'[m][o] = mail[m][o + d]
        BY <1>1
    <2>2. i + d \in At(m) /\ mail'[m][i] = mail[m][i + d] /\ CallAt(m, i + d, id) /\ i \in Int
        BY <1>3, <2>1 DEF CallAt
    <2>3. /\ id \in 1..Len(calls) /\ calls[id].sent /\ ~Ran(id)
          /\ mail[m][i + d].follow => m = calls[id].to /\ calls[id].via = None
          /\ calls[id].via \in {None, m}
          /\ \A k \in Maps : \A j \in At(k) : CallAt(k, j, id) => k = m /\ j = i + d
        BY <2>2 DEF Token
    <2>4. ASSUME NEW k \in Maps, NEW j \in At(k)', mail'[k][j].kind = "call", mail'[k][j].id = id
          PROVE  k = m /\ j = i
        <3>1. k = m
            <4>1. \E o \in At(k) : CallAt(k, o, id)
                BY <1>1, <2>4 DEF CallAt
            <4> QED BY <2>3, <4>1
        <3>2. j + d \in At(m) /\ CallAt(m, j + d, id) /\ j \in Int
            BY <2>1, <2>4, <3>1 DEF CallAt
        <3>3. j + d = i + d
            BY <2>3, <3>2
        <3>4. i \in Int /\ j \in Int /\ d \in Int
            BY <2>2, <3>2
        <3>5. j = i
            BY <3>3, <3>4
        <3> QED BY <3>1, <3>5
    <2> QED BY <2>2, <2>3, <2>4 DEF CallStays
<1>4. ASSUME NEW i \in 1..Len(ctl'), ctl'[i].kind = "toplayer", ctl'[i].id = id
      PROVE  /\ id \in 1..Len(calls') /\ calls'[id].sent /\ ~Ran(id)' /\ calls'[id].via = None
             /\ \A j \in 1..Len(ctl') : ctl'[j].kind = "toplayer" /\ ctl'[j].id = id => j = i
             /\ \A m \in Maps : \A j \in At(m)' : ~(mail'[m][j].kind = "call" /\ mail'[m][j].id = id)
    <2>1. i + c \in 1..Len(ctl) /\ QueuedAt(i + c, id) /\ i \in Int
        BY <1>2, <1>4 DEF Queued, QueuedAt
    <2>2. /\ id \in 1..Len(calls) /\ calls[id].sent /\ ~Ran(id) /\ calls[id].via = None
          /\ \A j \in 1..Len(ctl) : QueuedAt(j, id) => j = i + c
          /\ \A m \in Maps : \A j \in At(m) : ~CallAt(m, j, id)
        BY <2>1 DEF Token
    <2>3. \A j \in 1..Len(ctl') : ctl'[j].kind = "toplayer" /\ ctl'[j].id = id => j = i
        <3>1. ASSUME NEW j \in 1..Len(ctl'), ctl'[j].kind = "toplayer", ctl'[j].id = id
              PROVE  j = i
            <4>1. j + c \in 1..Len(ctl) /\ QueuedAt(j + c, id) /\ j \in Int
                BY <1>2, <3>1 DEF Queued, QueuedAt
            <4>2. j + c = i + c
                BY <2>2, <4>1
            <4> QED BY <2>1, <4>1, <4>2
        <3> QED BY <3>1
    <2>4. \A m \in Maps : \A j \in At(m)' : ~(mail'[m][j].kind = "call" /\ mail'[m][j].id = id)
        BY <1>1, <2>2 DEF CallAt
    <2> QED BY <2>2, <2>3, <2>4 DEF CallStays
<1> QED BY <1>3, <1>4 DEF Token, CallAt, QueuedAt

(* Where what is in a mailbox was.                                        *)
LEMMA PostedAt ==
    ASSUME NEW m \in Maps, NEW e, Posted(m, e), NEW k \in Maps, NEW i \in At(k)'
    PROVE  \/ i \in At(k) /\ mail'[k][i] = mail[k][i]
           \/ k = m /\ i = Len(mail[m]) + 1 /\ mail'[k][i] = e
<1>1. CASE k = m
    BY <1>1 DEF Posted, Put, At
<1>2. CASE k # m
    BY <1>2 DEF Posted, Others, At
<1> QED BY <1>1, <1>2

LEMMA PoppedAt ==
    ASSUME NEW m \in Maps, Popped(m), NEW k \in Maps, NEW i \in At(k)'
    PROVE  \E o \in At(k) : mail'[k][i] = mail[k][o] /\ (k = m => o > 1)
<1>1. CASE k = m
    <2>1. i \in 1..Len(mail'[m]) /\ i + 1 \in At(m) /\ mail'[m][i] = mail[m][i + 1]
        BY <1>1 DEF Popped, Cut, At
    <2>2. i + 1 > 1
        BY <2>1
    <2> QED BY <1>1, <2>1, <2>2
<1>2. CASE k # m
    BY <1>2 DEF Popped, Others, At
<1> QED BY <1>1, <1>2

LEMMA SentOnAt ==
    ASSUME NEW m \in Maps, NEW t \in Maps, NEW e, SentOn(m, t, e), NEW k \in Maps, NEW i \in At(k)'
    PROVE  \/ \E o \in At(k) : mail'[k][i] = mail[k][o] /\ (k = m => o > 1)
           \/ k = t /\ i = Len(mail[t]) + 1 /\ mail'[k][i] = e
<1>1. CASE k = m
    <2>1. i \in 1..Len(mail'[m]) /\ i + 1 \in At(m) /\ mail'[m][i] = mail[m][i + 1]
        BY <1>1 DEF SentOn, Cut, At
    <2>2. i + 1 > 1
        BY <2>1
    <2> QED BY <1>1, <2>1, <2>2
<1>2. CASE k = t
    BY <1>2 DEF SentOn, Put, At
<1>3. CASE k # m /\ k # t
    BY <1>3 DEF SentOn, Others, At
<1> QED BY <1>1, <1>2, <1>3

(* A step that leaves all calls alone,                                    *)
LEMMA TokensAside ==
    ASSUME Tokens, NEW S, CarriesDown(S), \A e \in S : e.kind # "call",
           \/ ctl' = ctl \/ CtlPopped \/ ctl' = <<>>
           \/ \E w : CtlPosted(w) /\ w.kind # "toplayer",
           calls' = calls, runs' = runs
    PROVE  Tokens'
<1>1. ASSUME NEW id
      PROVE  Token(id)'
    <2>1. Token(id)
        BY TokensAre
    <2>2. StaysQueued(id)
        BY QueueKept
    <2>3. CallStays(id) /\ CallNotIn(S, id)
        BY DEF CallStays, CallNotIn, Ran
    <2> QED BY <2>1, <2>2, <2>3, TokenKept
<1>2. CallsMade'
    BY TokensAre DEF CallsMade
<1>3. (\A id : Token(id))'
    BY <1>1
<1> QED BY <1>2, <1>3, TokensAre, PTL

(* or all but one.                                                        *)
LEMMA TokensButOne ==
    ASSUME Tokens, NEW one, NEW S, CarriesDown(S), \A e \in S : e.kind = "call" => e.id = one,
           \/ ctl' = ctl \/ CtlPopped
           \/ \E w : CtlPosted(w) /\ (w.kind = "toplayer" => w.id = one),
           \A id \in 1..Len(calls) : id # one => id \in 1..Len(calls') /\ calls'[id] = calls[id],
           \A id : id # one /\ Ran(id)' => Ran(id),
           Token(one)', CallsMade'
    PROVE  Tokens'
<1>1. ASSUME NEW id
      PROVE  Token(id)'
    <2>1. CASE id = one
        BY <2>1
    <2>2. CASE id # one
        <3>1. Token(id)
            BY TokensAre
        <3>2. StaysQueued(id)
            BY <2>2, QueueKept
        <3>3. CallStays(id) /\ CallNotIn(S, id)
            BY <2>2 DEF CallStays, CallNotIn
        <3> QED BY <3>1, <3>2, <3>3, TokenKept
    <2> QED BY <2>1, <2>2
<1>2. (\A id : Token(id))'
    BY <1>1
<1> QED BY <1>2, TokensAre, PTL

LEMMA TokensSent ==
    ASSUME PInv, NEW id \in DOMAIN calls, CallSent(id)
    PROVE  Tokens'
<1> USE DEF world, session, client, hist
<1>1. PostTypes /\ Tokens
    BY DEF PInv
<1> DEFINE to == calls[id].to
<1>2. /\ id \in 1..Len(calls) /\ id \in Nat /\ ~calls[id].sent /\ to \in Maps
      /\ CallChanged(id, [calls[id] EXCEPT !.sent = TRUE])
      /\ Posted(to, Call(id, TRUE))
    BY <1>1, CallSentIs
<1>3. calls[id].via = None /\ calls[id] \in ACall
    BY <1>1, <1>2, ElementOfSeq DEF Tokens, PostTypes
<1>4. /\ Len(calls') = Len(calls)
      /\ \A o \in 1..Len(calls) : o # id => calls'[o] = calls[o]
      /\ calls'[id].sent /\ calls'[id].via = None /\ calls'[id].to = to
    BY <1>2, <1>3 DEF CallChanged, ACall
<1>5. here' = here /\ ctl' = ctl /\ runs' = runs
    BY DEF CallSent
<1>6. CarriesDown({Call(id, TRUE)})
    BY <1>2, <1>5, PostCarries, Down
<1>7. /\ \A m \in Maps : \A i \in At(m) : ~CallAt(m, i, id)
      /\ \A i \in 1..Len(ctl) : ~QueuedAt(i, id)
      /\ ~Ran(id)
    BY <1>1, <1>2 DEF Tokens, CallAt, QueuedAt, Ran
<1> HIDE DEF to
<1>8. \A k \in Maps : \A i \in At(k)' : mail'[k][i].kind = "call" /\ mail'[k][i].id = id =>
         k = to /\ i = Len(mail[to]) + 1 /\ mail'[k][i] = Call(id, TRUE)
    BY ZenonT(90), <1>2, <1>7, PostedAt DEF CallAt
<1>9. Token(id)'
    <2>1. ~Ran(id)' /\ \A i \in 1..Len(ctl') : ~(ctl'[i].kind = "toplayer" /\ ctl'[i].id = id)
        BY <1>5, <1>7 DEF Ran, QueuedAt
    <2>2. ASSUME NEW k \in Maps, NEW i \in At(k)', mail'[k][i].kind = "call", mail'[k][i].id = id
          PROVE  /\ id \in 1..Len(calls') /\ calls'[id].sent /\ ~Ran(id)'
                 /\ mail'[k][i].follow => k = calls'[id].to /\ calls'[id].via = None
                 /\ calls'[id].via \in {None, k}
                 /\ \A m \in Maps : \A j \in At(m)' :
                       mail'[m][j].kind = "call" /\ mail'[m][j].id = id => m = k /\ j = i
        <3>1. k = to /\ i = Len(mail[to]) + 1
            BY <1>8, <2>2
        <3>2. \A m \in Maps : \A j \in At(m)' :
                 mail'[m][j].kind = "call" /\ mail'[m][j].id = id => m = k /\ j = i
            BY <1>8, <3>1
        <3> QED BY <1>2, <1>4, <2>1, <3>1, <3>2
    <2> QED BY <2>1, <2>2 DEF Token, CallAt, QueuedAt
<1>10. CallsMade'
    BY <1>1, <1>2, <1>4, <1>5, TokensAre DEF CallsMade
<1>11. \A e \in {Call(id, TRUE)} : e.kind = "call" => e.id = id
    BY DEF Call
<1> QED BY <1>1, <1>4, <1>5, <1>6, <1>9, <1>10, <1>11, TokensButOne DEF Ran

LEMMA TokensHear ==
    ASSUME PInv, HearCall
    PROVE  Tokens'
<1> USE DEF world, session, client, hist
<1>1. PostTypes /\ Tokens /\ held \in Maps
    BY DEF PInv, PostTypes
<1>2. PICK id \in 1..Len(calls) :
         /\ id \in Nat /\ QueuedAt(1, id) /\ calls[id].via = None
         /\ CtlPopped /\ Posted(held, Call(id, FALSE))
         /\ CallChanged(id, [calls[id] EXCEPT !.via = held])
    BY <1>1, CallPassedIs DEF HearCall
<1>3. calls[id] \in ACall
    BY <1>1, ElementOfSeq DEF PostTypes
<1>4. /\ Len(calls') = Len(calls)
      /\ \A o \in 1..Len(calls) : o # id => calls'[o] = calls[o]
      /\ calls'[id].sent = calls[id].sent /\ calls'[id].via = held
    BY <1>2, <1>3 DEF CallChanged, ACall
<1>5. here' = here /\ runs' = runs
    BY DEF HearCall, CallPassed
<1>6. CarriesDown({Call(id, FALSE)})
    BY <1>1, <1>2, <1>5, PostCarries, Down
<1>7. /\ \A m \in Maps : \A i \in At(m) : ~CallAt(m, i, id)
      /\ \A i \in 1..Len(ctl) : QueuedAt(i, id) => i = 1
      /\ ~Ran(id) /\ calls[id].sent
    <2>1. 1 \in 1..Len(ctl) /\ Token(id)
        BY <1>1, <1>2, TokensAre DEF CtlPopped
    <2> QED BY <1>2, <2>1 DEF Token
<1>8. ASSUME NEW k \in Maps, NEW i \in At(k)', mail'[k][i].kind = "call", mail'[k][i].id = id
      PROVE  k = held /\ i = Len(mail[held]) + 1 /\ mail'[k][i] = Call(id, FALSE)
    <2>1. \/ i \in At(k) /\ mail'[k][i] = mail[k][i]
          \/ k = held /\ i = Len(mail[held]) + 1 /\ mail'[k][i] = Call(id, FALSE)
        BY <1>1, <1>2, PostedAt
    <2> QED BY <1>7, <1>8, <2>1 DEF CallAt
<1>9. Token(id)'
    <2>1. \A i \in 1..Len(ctl') : ~(ctl'[i].kind = "toplayer" /\ ctl'[i].id = id)
        BY <1>2, <1>7 DEF CtlPopped, QueuedAt
    <2>2. ~Ran(id)'
        BY <1>5, <1>7 DEF Ran
    <2>3. ~Call(id, FALSE).follow
        BY DEF Call
    <2>4. ASSUME NEW k \in Maps, NEW i \in At(k)', mail'[k][i].kind = "call", mail'[k][i].id = id
          PROVE  /\ id \in 1..Len(calls') /\ calls'[id].sent /\ ~Ran(id)'
                 /\ mail'[k][i].follow => k = calls'[id].to /\ calls'[id].via = None
                 /\ calls'[id].via \in {None, k}
                 /\ \A m \in Maps : \A j \in At(m)' :
                       mail'[m][j].kind = "call" /\ mail'[m][j].id = id => m = k /\ j = i
        BY <1>4, <1>7, <1>8, <2>2, <2>3, <2>4
    <2> QED BY <2>1, <2>4 DEF Token, CallAt, QueuedAt
<1>10. CallsMade'
    BY <1>1, <1>4, <1>5, <1>7, TokensAre DEF CallsMade
<1>11. \A e \in {Call(id, FALSE)} : e.kind = "call" => e.id = id
    BY DEF Call
<1> QED BY <1>1, <1>2, <1>4, <1>5, <1>6, <1>9, <1>10, <1>11, TokensButOne DEF Ran

(* What a map makes of a call it has: the call is in hand, nowhere else.   *)
LEMMA CallInHand ==
    ASSUME PInv, NEW m \in Maps, HandleCall(m)
    PROVE  \E id \in Nat :
              /\ CallAt(m, 1, id) /\ 1 \in At(m) /\ mail[m][1].follow \in BOOLEAN /\ CallEnds(m, id)
              /\ id \in 1..Len(calls) /\ calls[id].sent /\ ~Ran(id)
              /\ mail[m][1].follow => m = calls[id].to /\ calls[id].via = None
              /\ \A k \in Maps : \A j \in At(k) : CallAt(k, j, id) => k = m /\ j = 1
              /\ \A i \in 1..Len(ctl) : ~QueuedAt(i, id)
              /\ UNCHANGED <<here, calls, live, entry, moves>>
              /\ \E S \in {{}, {Call(id, FALSE)}} : Carries(S)
<1> USE DEF world, session, client, hist
<1>1. PostTypes /\ Tokens
    BY DEF PInv
<1>2. PICK id \in Nat :
         /\ mail[m][1].kind = "call" /\ mail[m][1].id = id /\ mail[m][1].follow \in BOOLEAN
         /\ CallEnds(m, id)
    BY <1>1, CallCases
<1>3. 1 \in At(m)
    BY <1>2 DEF CallEnds, Popped, SentOn, Cut
<1>4. CallAt(m, 1, id) /\ Token(id)
    BY <1>1, <1>2, TokensAre DEF CallAt
<1>5. UNCHANGED <<here, calls, live, entry, moves>>
    BY DEF HandleCall, CallDealt
<1>6. \E S \in {{}, {Call(id, FALSE)}} : Carries(S)
    <2>1. ~Arrives(m, 1)
        BY <1>2 DEF Arrives
    <2>2. CASE Popped(m)
        BY <1>5, <2>1, <2>2, PopCarries
    <2>3. CASE entry \in Maps /\ SentOn(m, entry, Call(id, FALSE))
        BY <1>5, <2>1, <2>3, SentOnCarries
    <2> QED BY <1>2, <2>2, <2>3 DEF CallEnds
<1> QED BY <1>2, <1>3, <1>4, <1>5, <1>6 DEF Token

LEMMA TokensCall ==
    ASSUME PInv, NEW m \in Maps, HandleCall(m)
    PROVE  Tokens'
<1>1. PostTypes /\ Tokens
    BY DEF PInv
<1>2. PICK id \in Nat :
         /\ CallAt(m, 1, id) /\ 1 \in At(m) /\ mail[m][1].follow \in BOOLEAN /\ CallEnds(m, id)
         /\ id \in 1..Len(calls) /\ calls[id].sent /\ ~Ran(id)
         /\ mail[m][1].follow => m = calls[id].to /\ calls[id].via = None
         /\ \A k \in Maps : \A j \in At(k) : CallAt(k, j, id) => k = m /\ j = 1
         /\ \A i \in 1..Len(ctl) : ~QueuedAt(i, id)
         /\ UNCHANGED <<here, calls, live, entry, moves>>
         /\ \E S \in {{}, {Call(id, FALSE)}} : Carries(S)
    BY CallInHand
<1>3. PICK S \in {{}, {Call(id, FALSE)}} : Carries(S)
    BY <1>2
<1>4. CarriesDown(S) /\ \A e \in S : e.kind = "call" => e.id = id
    BY <1>3, Down DEF Call
<1>5. runs \in Seq(Nat) /\ Len(runs) \in Nat /\ DOMAIN runs = 1..Len(runs)
    BY <1>1, LenProperties DEF PostTypes
<1>6. ASSUME Popped(m)
      PROVE  \A k \in Maps : \A i \in At(k)' : ~(mail'[k][i].kind = "call" /\ mail'[k][i].id = id)
    <2> SUFFICES ASSUME NEW k \in Maps, NEW i \in At(k)', mail'[k][i].kind = "call", mail'[k][i].id = id
                 PROVE  FALSE
        OBVIOUS
    <2>1. PICK o \in At(k) : mail'[k][i] = mail[k][o] /\ (k = m => o > 1)
        BY <1>6, PoppedAt
    <2>2. k = m /\ o = 1
        BY <1>2, <2>1 DEF CallAt
    <2> QED BY <2>1, <2>2
<1>7. ASSUME m \in here, runs' = Append(runs, id), Popped(m), ctl' = ctl
      PROVE  Tokens'
    <2>1. \A i \in 1..Len(ctl') : ~(ctl'[i].kind = "toplayer" /\ ctl'[i].id = id)
        BY <1>2, <1>7 DEF QueuedAt
    <2>2. Token(id)'
        BY <1>6, <1>7, <2>1 DEF Token, CallAt, QueuedAt
    <2>3. /\ runs' \in Seq(Nat) /\ Len(runs') = Len(runs) + 1 /\ runs'[Len(runs) + 1] = id
          /\ \A k \in 1..Len(runs) : runs'[k] = runs[k]
        BY <1>5, <1>7, AppendProperties
    <2>4. \A k \in 1..Len(runs') : k \in 1..Len(runs) \/ (k = Len(runs) + 1 /\ runs'[k] = id)
        BY <1>5, <2>3
    <2>5. \A o : o # id /\ Ran(o)' => Ran(o)
        BY <2>3, <2>4 DEF Ran
    <2>6. DOMAIN runs' = 1..Len(runs')
        BY <2>3, LenProperties
    <2>7. CallsMade
        BY <1>1, TokensAre
    <2>8. ASSUME NEW a \in 1..Len(runs'), NEW b \in 1..Len(runs'), runs'[a] = runs'[b]
          PROVE  a = b
        <3>1. \A k \in 1..Len(runs) : runs[k] # id
            BY <1>2 DEF Ran
        <3>2. CASE a \in 1..Len(runs) /\ b \in 1..Len(runs)
            BY <1>5, <2>3, <2>7, <2>8, <3>2 DEF CallsMade, IsInjective
        <3>3. CASE ~(a \in 1..Len(runs) /\ b \in 1..Len(runs))
            BY <2>3, <2>4, <2>8, <3>1, <3>3
        <3> QED BY <3>2, <3>3
    <2>9. IsInjective(runs)'
        BY <2>6, <2>8 DEF IsInjective
    <2>10. \A k \in 1..Len(runs') : runs'[k] \in 1..Len(calls) /\ calls[runs'[k]].sent
        BY <1>2, <2>3, <2>4, <2>7 DEF CallsMade
    <2>11. CallsMade'
        BY <1>2, <2>7, <2>9, <2>10 DEF CallsMade
    <2> QED BY <1>1, <1>2, <1>4, <1>7, <2>2, <2>5, <2>11, TokensButOne
<1>8. ASSUME runs' = runs
      PROVE  CallsMade' /\ \A o : Ran(o)' => Ran(o)
    BY <1>1, <1>2, <1>8, TokensAre DEF CallsMade, Ran
<1>9. ASSUME runs' = runs, Popped(m), ctl' = ctl
      PROVE  Tokens'
    <2>1. \A i \in 1..Len(ctl') : ~(ctl'[i].kind = "toplayer" /\ ctl'[i].id = id)
        BY <1>2, <1>9 DEF QueuedAt
    <2>2. Token(id)'
        BY <1>6, <1>9, <2>1 DEF Token, CallAt, QueuedAt
    <2> QED BY <1>1, <1>2, <1>4, <1>8, <1>9, <2>2, TokensButOne
<1>10. ASSUME runs' = runs, mail[m][1].follow, Popped(m), CtlPosted(ToPlayer(id))
       PROVE  Tokens'
    <2>1. \A i \in 1..Len(ctl') : i \in 1..Len(ctl) \/ i = Len(ctl) + 1
        BY <1>10 DEF CtlPosted
    <2>2. \A i \in 1..Len(ctl') : ctl'[i].kind = "toplayer" /\ ctl'[i].id = id => i = Len(ctl) + 1
        BY <1>2, <1>10, <2>1 DEF QueuedAt, CtlPosted
    <2>3. ~Ran(id)'
        BY <1>2, <1>8, <1>10
    <2>4. Token(id)'
        BY <1>2, <1>6, <1>10, <2>2, <2>3 DEF Token, CallAt, QueuedAt
    <2>5. CtlPosted(ToPlayer(id)) /\ (ToPlayer(id).kind = "toplayer" => ToPlayer(id).id = id)
        BY <1>10 DEF ToPlayer
    <2> QED BY <1>1, <1>2, <1>4, <1>8, <1>10, <2>4, <2>5, TokensButOne
<1>11. ASSUME runs' = runs, mail[m][1].follow, entry \in Maps, SentOn(m, entry, Call(id, FALSE)), ctl' = ctl
       PROVE  Tokens'
    <2>1. \A i \in 1..Len(ctl') : ~(ctl'[i].kind = "toplayer" /\ ctl'[i].id = id)
        BY <1>2, <1>11 DEF QueuedAt
    <2>2. ASSUME NEW k \in Maps, NEW i \in At(k)', mail'[k][i].kind = "call", mail'[k][i].id = id
          PROVE  k = entry /\ i = Len(mail[entry]) + 1 /\ mail'[k][i] = Call(id, FALSE)
        <3>1. CASE \E o \in At(k) : mail'[k][i] = mail[k][o] /\ (k = m => o > 1)
            <4>1. PICK o \in At(k) : mail'[k][i] = mail[k][o] /\ (k = m => o > 1)
                BY <3>1
            <4>2. k = m /\ o = 1
                BY <1>2, <2>2, <4>1 DEF CallAt
            <4> QED BY <4>1, <4>2
        <3>2. \/ \E o \in At(k) : mail'[k][i] = mail[k][o] /\ (k = m => o > 1)
              \/ k = entry /\ i = Len(mail[entry]) + 1 /\ mail'[k][i] = Call(id, FALSE)
            <4> DEFINE to == entry
                       e  == Call(id, FALSE)
            <4>1. to \in Maps /\ SentOn(m, to, e)
                BY <1>11
            <4> HIDE DEF to, e
            <4>2. \/ \E o \in At(k) : mail'[k][i] = mail[k][o] /\ (k = m => o > 1)
                  \/ k = to /\ i = Len(mail[to]) + 1 /\ mail'[k][i] = e
                BY <4>1, SentOnAt
            <4> QED BY <4>2 DEF to, e
        <3> QED BY <3>1, <3>2
    <2>3. ~Ran(id)' /\ ~Call(id, FALSE).follow
        BY <1>2, <1>8, <1>11 DEF Call
    <2>4. ASSUME NEW k \in Maps, NEW i \in At(k)', mail'[k][i].kind = "call", mail'[k][i].id = id
          PROVE  /\ id \in 1..Len(calls') /\ calls'[id].sent /\ ~Ran(id)'
                 /\ mail'[k][i].follow => k = calls'[id].to /\ calls'[id].via = None
                 /\ calls'[id].via \in {None, k}
                 /\ \A o \in Maps : \A j \in At(o)' :
                       mail'[o][j].kind = "call" /\ mail'[o][j].id = id => o = k /\ j = i
        <3>1. k = entry /\ i = Len(mail[entry]) + 1 /\ mail'[k][i] = Call(id, FALSE)
            BY <2>2, <2>4
        <3>2. \A o \in Maps : \A j \in At(o)' :
                 mail'[o][j].kind = "call" /\ mail'[o][j].id = id => o = k /\ j = i
            BY <2>2, <3>1
        <3> QED BY <1>2, <1>11, <2>3, <3>1, <3>2
    <2>5. Token(id)'
        BY <2>1, <2>4 DEF Token, CallAt, QueuedAt
    <2> QED BY <1>1, <1>2, <1>4, <1>8, <1>11, <2>5, TokensButOne
<1> QED BY <1>2, <1>7, <1>9, <1>10, <1>11 DEF CallEnds

LEMMA TokensStep ==
    ASSUME PInv, [Next]_vars
    PROVE  Tokens'
<1> USE DEF world, session, client, hist
<1>1. PostTypes /\ Numbers /\ Tokens /\ OnePlace /\ Routed
    BY DEF PInv, Numbers
<1>2. ASSUME here' = here, mail' = mail, ctl' = ctl, calls' = calls, runs' = runs
      PROVE  Tokens'
    BY <1>1, <1>2, SameCarries, Down, TokensAside
<1>3. ASSUME NEW m \in Maps, Popped(m), ~Arrives(m, 1), here' = here, UNCHANGED <<ctl, calls, runs>>
      PROVE  Tokens'
    BY <1>1, <1>3, PopCarries, Down, TokensAside
<1>4. CASE CallReads
    <2>1. /\ Len(calls) \in Nat /\ Len(calls') = Len(calls) + 1
          /\ \A id \in 1..Len(calls) : calls'[id] = calls[id]
          /\ ~calls'[Len(calls) + 1].sent /\ calls'[Len(calls) + 1].via = None
        BY <1>1, <1>4, CallReadsIs DEF NewCall
    <2>2. UNCHANGED <<here, mail, ctl, runs>>
        BY <1>4 DEF CallReads
    <2>3. CarriesDown({})
        BY <2>2, SameCarries, Down
    <2>4. \A id \in 1..Len(calls') : id \in 1..Len(calls) \/ id = Len(calls) + 1
        BY <2>1
    <2>5. ASSUME NEW id
          PROVE  Token(id)'
        <3>1. StaysQueued(id) /\ CallStays(id) /\ CallNotIn({}, id)
            BY <2>1, <2>2, QueueKept DEF CallStays, CallNotIn, Ran
        <3> QED BY <1>1, <2>3, <3>1, TokensAre, TokenKept
    <2>6. CallsMade'
        BY <1>1, <2>1, <2>2, <2>4, TokensAre DEF CallsMade
    <2>7. (\A id : Token(id))'
        BY <2>5
    <2> QED BY <2>6, <2>7, TokensAre, PTL
<1>5. CASE \E f \in States : Heartbeat(f)
    BY <1>2, <1>5 DEF Heartbeat, Coalesced, InPlace, Marked, AsPacket
<1>6. CASE OtherPacket \/ Named \/ UNCHANGED vars
    BY <1>2, <1>6 DEF OtherPacket, Named, vars
<1>7. CASE SendToMap
    <2>1. Posted(held, hand) /\ held \in Maps /\ FromClient(hand) /\ UNCHANGED <<here, ctl, calls, runs>>
        BY <1>1, <1>7, SendsHand DEF SendToMap, Numbers, InHand
    <2>2. CarriesDown({hand}) /\ hand.kind # "call"
        BY <2>1, PostCarries, Down DEF FromClient
    <2> QED BY <1>1, <2>1, <2>2, TokensAside
<1>8. CASE PassOn
    <2>1. CtlPopped /\ ctl[1].to \in Maps /\ Posted(ctl[1].to, Arrival)
        BY <1>1, <1>8, PassOnIs
    <2>2. UNCHANGED <<here, calls, runs>>
        BY <1>8 DEF PassOn
    <2>3. CarriesDown({Arrival}) /\ Arrival.kind # "call"
        BY <2>1, <2>2, PostCarries, Down DEF Arrival
    <2> QED BY <1>1, <2>1, <2>2, <2>3, TokensAside
<1>9. CASE ClientGoes
    <2>1. UNCHANGED <<here, calls, runs>> /\ ctl' = <<>> /\ held \in Maps
        BY <1>1, <1>9 DEF ClientGoes, PostTypes
    <2>2. \E S \in SUBSET {Arrival, Gone} : Carries(S)
        <3>1. CASE Posted(held, Gone)
            BY <2>1, <3>1, PostCarries
        <3>2. CASE \E i \in 1..Len(ctl) : ctl[i].to \in Maps /\ PostedTwo(ctl[i].to, Arrival, Gone)
            BY <2>1, <3>2, PostTwoCarries
        <3> QED BY <1>1, <1>9, <3>1, <3>2, ClientCases
    <2>3. PICK S \in SUBSET {Arrival, Gone} : CarriesDown(S)
        BY <2>2, Down
    <2>4. \A e \in S : e.kind # "call"
        BY DEF Arrival, Gone
    <2> QED BY <1>1, <2>1, <2>3, <2>4, TokensAside
<1>10. ASSUME NEW m \in Maps, HandlePacket(m) \/ HandleBeat(m)
       PROVE  Tokens'
    <2>1. UNCHANGED <<here, ctl, calls, runs>>
        BY <1>10 DEF HandlePacket, HandleBeat
    <2>2. Popped(m) /\ mail[m][1].kind \in {"packet", "beat"}
        BY <1>10, NumbersPacket, NumbersBeat
    <2>3. ~Arrives(m, 1)
        BY <2>2 DEF Arrives
    <2> QED BY <1>3, <2>1, <2>2, <2>3
<1>11. ASSUME NEW m \in Maps, HandleArrive(m)
       PROVE  Tokens'
    <2>1. Popped(m) /\ mail[m][1].kind = "arrive" /\ 1 \in At(m)
        BY <1>1, <1>11, HeadIs DEF HandleArrive
    <2>2. here = {} /\ here' = {m}
        BY <1>1, <1>11, <2>1 DEF HandleArrive, OnePlace, ArrivalIn, Arrives
    <2>3. CarriesDown({})
        BY <2>1, <2>2, ArriveCarries, Down DEF Arrives
    <2>4. UNCHANGED <<ctl, calls, runs>>
        BY <1>11 DEF HandleArrive
    <2> QED BY <1>1, <2>3, <2>4, TokensAside
<1>12. ASSUME NEW m \in Maps, HandleGone(m)
       PROVE  Tokens'
    <2>1. Popped(m) /\ mail[m][1].kind = "disconnect"
        BY <1>1, <1>12, HeadIs DEF HandleGone
    <2>2. ~Arrives(m, 1)
        BY <2>1 DEF Arrives
    <2> QED BY <1>3, <1>12, <2>1, <2>2 DEF HandleGone
<1>13. ASSUME NEW m \in Maps, Leaves(m) \/ \E to \in Maps : Teleport(m, to)
       PROVE  Tokens'
    <2>1. here' = {} /\ \A k \in Maps : ~ArrivalIn(k)
        BY <1>1, <1>13 DEF Leaves, Teleport, OnePlace
    <2>2. mail' = mail \/ \E to \in Maps : PostedTwo(to, Arrival, Gone)
        BY <1>1, <1>13, TeleportIs DEF Leaves
    <2>3. CarriesDown({Arrival, Gone})
        BY <2>1, <2>2, OutCarries, SetOutCarries
    <2>4. ctl' = ctl \/ \E w : CtlPosted(w) /\ w.kind # "toplayer"
        <3>1. \A to : Transfer(to).kind # "toplayer"
            BY DEF Transfer
        <3> QED BY <1>1, <1>13, <3>1, TeleportIs DEF Leaves
    <2>5. UNCHANGED <<calls, runs>> /\ \A e \in {Arrival, Gone} : e.kind # "call"
        BY <1>13 DEF Leaves, Teleport, Arrival, Gone
    <2> QED BY <1>1, <2>3, <2>4, <2>5, TokensAside
<1> QED BY <1>4, <1>5, <1>6, <1>7, <1>8, <1>9, <1>10, <1>11, <1>12, <1>13,
           TokensCall, TokensHear, TokensSent DEF Next

-----------------------------------------------------------------------------
(* What was sent behind a call stays behind it.  A step that sends no call *)
(* some packet is behind:                                                 *)
LEMMA PassedAside ==
    ASSUME Behind, NEW S, CarriesDown(S), \A e \in S : ~FromClient(e),
           \A e \in S : e.kind = "call" /\ e.id \in 1..Len(calls) => calls[e.id].via = None,
           NEW n \in 1..Len(packets), packets'[n] = packets[n], Passed(n)
    PROVE  Passed(n)'
<1> SUFFICES ASSUME NEW id \in packets[n].after, NEW k \in Maps, NEW i \in At(k)', CallAt(k, i, id)'
             PROVE  FALSE
    BY DEF Passed
<1>1. id \in 1..Len(calls) /\ calls[id].via # None
    BY DEF Behind
<1>2. mail'[k][i].kind = "call" /\ mail'[k][i].id = id
    BY DEF CallAt
<1>3. (\E o \in At(k) : mail'[k][i] = mail[k][o]) \/ mail'[k][i] \in S
    BY <1>2, AsideIs
<1> QED BY <1>1, <1>2, <1>3 DEF Passed, CallAt

LEMMA MailBehindAside ==
    ASSUME Behind, InMail, NEW S, CarriesDown(S), \A e \in S : ~FromClient(e),
           \A e \in S : e.kind = "call" /\ e.id \in 1..Len(calls) => calls[e.id].via = None,
           packets' = packets,
           \A k \in Maps : \A i \in At(k)' :
              FromClient(mail'[k][i]) => Num(mail[k][i])' = Num(mail'[k][i]),
           \A id \in 1..Len(calls) : calls[id].via # None => calls'[id].via = calls[id].via
    PROVE  MailBehind'
<1> SUFFICES ASSUME NEW k \in Maps, NEW i \in At(k)', FromClient(mail'[k][i]),
                    NEW id \in packets[Num(mail'[k][i])].after
             PROVE  /\ calls'[id].via = k
                    /\ \A j \in At(k)' : j > i => ~(mail'[k][j].kind = "call" /\ mail'[k][j].id = id)
    BY DEF MailBehind, FromClient, CallAt
<1>1. PICK d \in {0, 1} :
         /\ \A o \in At(k)' : FromClient(mail'[k][o]) \/ mail'[k][o].kind = "call" =>
               \/ o + d \in At(k) /\ mail'[k][o] = mail[k][o + d]
               \/ mail'[k][o].kind = "call" /\ mail'[k][o] \in S
         /\ \A o \in At(k)' : o \in Int /\ d \in Int
    BY AsideIs
<1>2. i + d \in At(k) /\ mail'[k][i] = mail[k][i + d] /\ FromClient(mail[k][i + d])
    BY <1>1 DEF FromClient
<1>3. Num(mail[k][i + d]) \in 1..Len(packets) /\ id \in packets[Num(mail[k][i + d])].after
    BY <1>2 DEF InMail, IsOurs
<1>4. id \in 1..Len(calls) /\ calls[id].via # None
    BY <1>3 DEF Behind
<1>5. calls[id].via = k /\ \A j \in At(k) : j > i + d => ~CallAt(k, j, id)
    BY <1>2, <1>3 DEF Behind, MailBehind
<1>6. ASSUME NEW j \in At(k)', j > i, mail'[k][j].kind = "call", mail'[k][j].id = id
      PROVE  FALSE
    <2>1. j + d > i + d
        BY <1>1, <1>6
    <2> QED BY <1>1, <1>4, <1>5, <1>6, <2>1 DEF CallAt
<1> QED BY <1>4, <1>5, <1>6

LEMMA BehindAside ==
    ASSUME Behind, Numbers, Numbers', NEW S, CarriesDown(S), \A e \in S : ~FromClient(e),
           \A e \in S : e.kind = "call" /\ e.id \in 1..Len(calls) => calls[e.id].via = None,
           UNCHANGED <<packets, slots>>, handled' = handled,
           hand' = None \/ UNCHANGED <<hand, held>>,
           \A id \in 1..Len(calls) : id \in 1..Len(calls') /\
              (calls[id].via # None => calls'[id].via = calls[id].via)
    PROVE  Behind'
<1>1. \A k \in 1..Len(handled) : handled[k] \in 1..Len(packets)
    BY DEF Numbers, Done
<1>2. \A k \in 1..Len(handled) : Passed(handled[k])
    BY DEF Behind
<1>3. ASSUME NEW k \in 1..Len(handled)
      PROVE  Passed(handled[k])'
    <2>1. PICK n : n = handled[k]
        OBVIOUS
    <2>2. n \in 1..Len(packets) /\ Passed(n) /\ packets'[n] = packets[n]
        BY <1>1, <1>2, <2>1
    <2>3. Passed(n)'
        BY <2>2, PassedAside
    <2> QED BY <2>1, <2>3 DEF Passed
<1>4. MailBehind'
    <2>1. \A k \in Maps : \A i \in At(k)' : Num(mail[k][i])' = Num(mail'[k][i])
        BY DEF Num
    <2> QED BY <2>1, MailBehindAside DEF Numbers
<1>5. hand' # None => \A id \in packets[Len(packets)].after : calls'[id].via = held'
    <2> SUFFICES ASSUME hand' # None, NEW id \in packets[Len(packets)].after
                 PROVE  calls'[id].via = held'
        OBVIOUS
    <2>1. hand' = hand /\ held' = held
        OBVIOUS
    <2>2. Len(packets) \in 1..Len(packets)
        BY <2>1 DEF Numbers, InHand, IsOurs
    <2>3. id \in 1..Len(calls) /\ calls[id].via # None /\ calls[id].via = held
        BY <2>1, <2>2 DEF Behind
    <2> QED BY <2>1, <2>3
<1>6. \A n \in 1..Len(packets) : \A id \in packets[n].after :
          id \in 1..Len(calls') /\ calls'[id].via # None
    BY DEF Behind
<1> QED BY <1>3, <1>4, <1>5, <1>6 DEF Behind

(* A packet sent is behind the calls the session put in that map's mailbox *)
(* before it,                                                             *)
LEMMA BehindInHand ==
    ASSUME PInv, \/ \E f \in States : Marked(f) \/ AsPacket(f)
                 \/ OtherPacket
    PROVE  Behind'
<1>1. PostTypes /\ Numbers /\ Behind /\ held \in Maps /\ held # None
    BY PostAssumption DEF PInv, Numbers, PostTypes
<1>2. /\ Len(packets') = Len(packets) + 1 /\ Len(packets) \in Nat
      /\ \A p \in 1..Len(packets) : packets'[p] = packets[p]
      /\ packets'[Len(packets')].after = {id \in 1..Len(calls) : calls[id].via = held}
      /\ UNCHANGED <<mail, handled, calls, held>>
      /\ \A k \in Maps : \A i \in At(k) : FromClient(mail[k][i]) => Num(mail[k][i])' = Num(mail[k][i])
    BY InHandIs
<1>3. ASSUME NEW n \in 1..Len(packets'), NEW id \in packets'[n].after
      PROVE  id \in 1..Len(calls) /\ calls[id].via # None
    <2>1. CASE n = Len(packets')
        BY <1>1, <1>2, <1>3, <2>1
    <2>2. CASE n # Len(packets')
        <3>1. n \in 1..Len(packets)
            BY <1>2, <2>2
        <3> QED BY <1>1, <1>2, <1>3, <3>1 DEF Behind
    <2> QED BY <2>1, <2>2
<1>4. ASSUME NEW k \in 1..Len(handled)
      PROVE  Passed(handled[k])'
    <2>1. handled[k] \in 1..Len(packets) /\ Passed(handled[k])
        BY <1>1 DEF Numbers, Done, Behind
    <2> QED BY <1>2, <2>1 DEF Passed, At, CallAt
<1>5. MailBehind'
    <2> SUFFICES ASSUME NEW k \in Maps, NEW i \in At(k)', FromClient(mail[k][i])',
                        NEW id \in (packets[Num(mail[k][i])].after)'
                 PROVE  (calls[id].via = k /\ \A j \in At(k) : j > i => ~CallAt(k, j, id))'
        BY DEF MailBehind
    <2>1. /\ i \in At(k) /\ FromClient(mail[k][i]) /\ At(k)' = At(k) /\ calls' = calls
          /\ \A j : CallAt(k, j, id)' <=> CallAt(k, j, id)
        BY <1>2 DEF At, FromClient, CallAt
    <2>2. Num(mail[k][i]) \in 1..Len(packets) /\ Num(mail[k][i])' = Num(mail[k][i])
        BY <1>1, <1>2, <2>1 DEF Numbers, InMail, IsOurs
    <2> QED BY <1>1, <1>2, <2>1, <2>2 DEF Behind, MailBehind
<1>6. \A id \in packets'[Len(packets')].after : calls[id].via = held
    BY <1>2
<1> QED BY <1>2, <1>3, <1>4, <1>5, <1>6 DEF Behind

(* and so is a heartbeat that takes another's place: no such call came     *)
(* after that one.                                                        *)
LEMMA BehindCoalesced ==
    ASSUME PInv, NEW f \in States, Coalesced(f)
    PROVE  Behind'
<1> USE DEF world, session, client, hist
<1> DEFINE b == beat.slot
           n == Len(packets')
<1>1. PostTypes /\ Numbers /\ Behind /\ held \in Maps /\ held # None
    BY PostAssumption DEF PInv, Numbers, PostTypes
<1>2. NewPacket(TRUE, f)
    BY <1>1, SentIs DEF Coalesced, InPlace
<1>3. /\ live /\ hand' = None /\ beatLast /\ beat.to = held
      /\ UNCHANGED <<mail, handled, calls, held>>
    BY DEF Coalesced, InPlace, Free
<1>4. /\ n = Len(packets) + 1 /\ Len(packets) \in Nat /\ n \in Nat
      /\ \A p \in 1..Len(packets) : packets'[p] = packets[p]
      /\ packets'[n].after = {id \in 1..Len(calls) : calls[id].via = held}
    BY <1>2 DEF NewPacket
<1>5. beat.to # None /\ b \in 1..Len(slots) /\ slots \in Seq(Nat) /\ DOMAIN slots = 1..Len(slots)
    BY <1>1, <1>3, LenProperties DEF PostTypes, Numbers, Beats
<1>6. \A s \in 1..Len(slots) : slots'[s] = IF s = b THEN n ELSE slots[s]
    BY <1>5 DEF Coalesced, InPlace
<1> HIDE DEF b, n
<1>7. ASSUME NEW p \in 1..n, NEW id \in packets'[p].after
      PROVE  id \in 1..Len(calls) /\ calls[id].via # None
    <2>1. CASE p = n
        BY <1>1, <1>4, <1>7, <2>1
    <2>2. CASE p # n
        <3>1. p \in 1..Len(packets)
            BY <1>4, <2>2
        <3> QED BY <1>1, <1>4, <1>7, <3>1 DEF Behind
    <2> QED BY <2>1, <2>2
<1>8. ASSUME NEW k \in 1..Len(handled)
      PROVE  Passed(handled[k])'
    <2>1. handled[k] \in 1..Len(packets) /\ Passed(handled[k])
        BY <1>1 DEF Numbers, Done, Behind
    <2> QED BY <1>3, <1>4, <2>1 DEF Passed, At, CallAt
<1>9. ASSUME NEW k \in Maps, NEW i \in At(k), FromClient(mail[k][i]),
             NEW id \in packets'[Num(mail[k][i])'].after
      PROVE  /\ calls[id].via = k
             /\ \A j \in At(k) : j > i => ~CallAt(k, j, id)
    <2>1. IsOurs(mail[k][i]) /\ Num(mail[k][i]) \in 1..Len(packets)
        BY <1>1, <1>9 DEF Numbers, InMail, IsOurs
    <2>2. CASE BeatAt(k, i, b)
        <3>1. Num(mail[k][i])' = n
            BY <1>3, <1>5, <1>6, <2>2 DEF Num, BeatAt
        <3>2. id \in 1..Len(calls) /\ calls[id].via = held
            BY <1>4, <1>9, <3>1
        <3>3. /\ k = beat.to
              /\ \A j \in At(k) : j > i => \A o \in 1..Len(calls) : CallAt(k, j, o) => calls[o].via = None
            BY <1>1, <1>3, <1>5, <2>2 DEF Numbers, Beats, b
        <3> QED BY <1>1, <1>3, <3>2, <3>3
    <2>3. CASE ~BeatAt(k, i, b)
        <3>1. Num(mail[k][i])' = Num(mail[k][i])
            BY <1>3, <1>6, <1>9, <2>1, <2>3 DEF Num, IsOurs, BeatAt, FromClient
        <3> QED BY <1>1, <1>4, <1>9, <2>1, <3>1 DEF Behind, MailBehind
    <2> QED BY <2>2, <2>3
<1>10. MailBehind'
    <2> SUFFICES ASSUME NEW k \in Maps, NEW i \in At(k)', FromClient(mail[k][i])',
                        NEW id \in (packets[Num(mail[k][i])].after)'
                 PROVE  (calls[id].via = k /\ \A j \in At(k) : j > i => ~CallAt(k, j, id))'
        BY DEF MailBehind
    <2>1. /\ i \in At(k) /\ FromClient(mail[k][i]) /\ At(k)' = At(k) /\ calls' = calls
          /\ \A j : CallAt(k, j, id)' <=> CallAt(k, j, id)
        BY <1>3 DEF At, FromClient, CallAt
    <2> QED BY <1>9, <2>1
<1> QED BY <1>3, <1>7, <1>8, <1>10 DEF Behind, n

LEMMA BehindPosted ==
    ASSUME PInv, SendToMap
    PROVE  Behind'
<1> USE DEF world, session, client, hist
<1>1. PostTypes /\ Numbers /\ Behind /\ held \in Maps
    BY DEF PInv, Numbers, PostTypes
<1>2. Posted(held, hand)
    BY <1>1, SendsHand
<1>3. hand # None /\ hand' = None /\ UNCHANGED <<slots, packets, calls, handled>>
    BY DEF SendToMap
<1>4. FromClient(hand) /\ Num(hand) = Len(packets)
    BY <1>1, <1>3 DEF Numbers, InHand
<1>5. Len(mail[held]) \in Nat
    BY <1>1, LenProperties DEF PostTypes
<1>6. ASSUME NEW k \in Maps, NEW i \in At(k)', NEW id, mail'[k][i].kind = "call", mail'[k][i].id = id
      PROVE  i \in At(k) /\ CallAt(k, i, id)
    <2>1. \/ i \in At(k) /\ mail'[k][i] = mail[k][i]
          \/ mail'[k][i] = hand
        BY <1>1, <1>2, PostedAt
    <2> QED BY <1>4, <1>6, <2>1 DEF CallAt, FromClient
<1>7. ASSUME NEW k \in 1..Len(handled)
      PROVE  Passed(handled[k])'
    <2>1. Passed(handled[k])
        BY <1>1 DEF Behind
    <2> QED BY <1>3, <1>6, <2>1 DEF Passed, CallAt
<1>8. ASSUME NEW k \in Maps, NEW i \in At(k)', FromClient(mail'[k][i]),
             NEW id \in packets[Num(mail'[k][i])].after
      PROVE  /\ calls[id].via = k
             /\ \A j \in At(k)' : j > i => ~(mail'[k][j].kind = "call" /\ mail'[k][j].id = id)
    <2>1. \/ i \in At(k) /\ mail'[k][i] = mail[k][i]
          \/ k = held /\ i = Len(mail[held]) + 1 /\ mail'[k][i] = hand
        BY <1>1, <1>2, PostedAt
    <2>2. CASE i \in At(k) /\ mail'[k][i] = mail[k][i]
        BY <1>1, <1>6, <1>8, <2>2 DEF Behind, MailBehind
    <2>3. CASE k = held /\ i = Len(mail[held]) + 1 /\ mail'[k][i] = hand
        <3>1. calls[id].via = held
            BY <1>1, <1>3, <1>4, <1>8, <2>3 DEF Behind
        <3>2. \A j \in At(k)' : ~(j > i)
            BY <1>2, <1>5, <2>3 DEF Posted, Put, At
        <3> QED BY <2>3, <3>1, <3>2
    <2> QED BY <2>1, <2>2, <2>3
<1>9. \A k \in Maps : \A i \in At(k)' : Num(mail[k][i])' = Num(mail'[k][i])
    BY <1>3 DEF Num
<1>10. MailBehind'
    BY <1>3, <1>8, <1>9 DEF MailBehind, FromClient, CallAt
<1>11. \A n \in 1..Len(packets) : \A id \in packets[n].after : id \in 1..Len(calls) /\ calls[id].via # None
    BY <1>1 DEF Behind
<1> QED BY <1>3, <1>7, <1>10, <1>11 DEF Behind

(* A packet handled leaves no call it was sent behind in a mailbox.         *)
LEMMA BehindHandled ==
    ASSUME PInv, NEW m \in Maps, HandlePacket(m) \/ HandleBeat(m)
    PROVE  Behind'
<1>1. PostTypes /\ Numbers /\ Behind /\ Tokens
    BY DEF PInv, Numbers
<1>2. /\ Popped(m) /\ FromClient(mail[m][1]) /\ Reaches(Num(mail[m][1]), m)
      /\ UNCHANGED <<packets, hand, here, held, calls>>
      /\ \A k \in Maps : \A j \in At(k)' :
            FromClient(mail'[k][j]) => Num(mail[k][j])' = Num(mail'[k][j])
    BY ClientHandled
<1>3. CarriesDown({})
    BY <1>2, PopCarries, Down DEF Arrives, FromClient
<1> DEFINE n == Num(mail[m][1])
<1>4. 1 \in At(m) /\ n \in 1..Len(packets)
    BY <1>1, <1>2 DEF Popped, Cut, Numbers, InMail, IsOurs
<1>5. Passed(n)
    <2> SUFFICES ASSUME NEW id \in packets[n].after, NEW k \in Maps, NEW i \in At(k), CallAt(k, i, id)
                 PROVE  FALSE
        BY DEF Passed
    <2>1. calls[id].via = m /\ \A j \in At(m) : j > 1 => ~CallAt(m, j, id)
        BY <1>1, <1>2, <1>4 DEF Behind, MailBehind
    <2>2. calls[id].via # None /\ calls[id].via \in {None, k}
        <3>1. Token(id) /\ calls[id].via # None
            BY <1>1, <1>4, TokensAre DEF Behind
        <3> QED BY <3>1 DEF Token
    <2>3. ~CallAt(m, 1, id)
        BY <1>2 DEF CallAt, FromClient
    <2>4. k = m /\ i \in Nat /\ i >= 1
        BY <2>1, <2>2 DEF At
    <2> QED BY <2>1, <2>3, <2>4
<1> HIDE DEF n
<1>6. ASSUME NEW p \in 1..Len(packets), Passed(p)
      PROVE  Passed(p)'
    BY <1>1, <1>2, <1>3, <1>6, PassedAside
<1>7. ASSUME NEW k \in 1..Len(handled')
      PROVE  handled'[k] \in 1..Len(packets) /\ Passed(handled'[k])
    <2>1. CASE k \in 1..Len(handled) /\ handled'[k] = handled[k]
        BY <1>1, <2>1 DEF Numbers, Done, Behind
    <2>2. CASE handled'[k] = n
        BY <1>4, <1>5, <2>2
    <2>3. Len(handled) \in Nat
        BY <1>1, LenProperties DEF PostTypes
    <2> QED BY <1>2, <2>1, <2>2, <2>3 DEF Reaches, n
<1>8. ASSUME NEW k \in 1..Len(handled')
      PROVE  Passed(handled[k])'
    <2>1. PICK p : p = handled'[k]
        OBVIOUS
    <2>2. Passed(p)'
        BY <1>6, <1>7, <1>8, <2>1
    <2> QED BY <2>1, <2>2 DEF Passed
<1>9. MailBehind'
    BY <1>1, <1>2, <1>3, MailBehindAside DEF Numbers
<1> QED BY <1>1, <1>2, <1>8, <1>9 DEF Behind

LEMMA BehindSession ==
    ASSUME PInv,
           \/ \E f \in States : Heartbeat(f)
           \/ OtherPacket \/ SendToMap \/ PassOn \/ Named \/ HearCall \/ ClientGoes
    PROVE  Behind'
<1> USE DEF world, session, client, hist
<1>1. PostTypes /\ Numbers /\ Numbers' /\ Behind /\ Tokens /\ Routed
    BY NumbersSession DEF PInv, Numbers
<1>2. CASE PassOn
    <2>1. ctl[1].to \in Maps /\ Posted(ctl[1].to, Arrival)
        BY <1>1, <1>2, PassOnIs
    <2>2. UNCHANGED <<here, packets, slots, handled, calls, hand, held>>
        BY <1>2 DEF PassOn
    <2>3. CarriesDown({Arrival}) /\ ~FromClient(Arrival) /\ Arrival.kind # "call"
        BY <2>1, <2>2, PostCarries, Down DEF Arrival, FromClient
    <2> QED BY <1>1, <2>2, <2>3, BehindAside
<1>3. CASE Named
    <2>1. UNCHANGED <<here, mail, packets, slots, handled, calls, hand>> /\ hand = None
        BY <1>1, <1>3 DEF Named, Routed
    <2>2. CarriesDown({})
        BY <2>1, SameCarries, Down
    <2> QED BY <1>1, <2>1, <2>2, BehindAside
<1>4. CASE ClientGoes
    <2>1. UNCHANGED <<here, packets, slots, handled, calls>> /\ hand' = None /\ held \in Maps
        BY <1>1, <1>4 DEF ClientGoes, PostTypes
    <2>2. \E S \in SUBSET {Arrival, Gone} : Carries(S)
        <3>1. CASE Posted(held, Gone)
            BY <2>1, <3>1, PostCarries
        <3>2. CASE \E i \in 1..Len(ctl) : ctl[i].to \in Maps /\ PostedTwo(ctl[i].to, Arrival, Gone)
            BY <2>1, <3>2, PostTwoCarries
        <3> QED BY <1>4, <3>1, <3>2, ClientCases DEF PInv
    <2>3. PICK S \in SUBSET {Arrival, Gone} : CarriesDown(S)
        BY <2>2, Down
    <2>4. \A e \in S : e.kind # "call" /\ ~FromClient(e)
        BY DEF Arrival, Gone, FromClient
    <2> QED BY <1>1, <2>1, <2>3, <2>4, BehindAside
<1>5. CASE HearCall
    <2>1. PICK id \in 1..Len(calls) :
             /\ id \in Nat /\ calls[id].via = None /\ Posted(held, Call(id, FALSE))
             /\ CallChanged(id, [calls[id] EXCEPT !.via = held])
        BY <1>1, <1>5, CallPassedIs DEF HearCall
    <2>2. UNCHANGED <<here, packets, slots, handled, hand, held>> /\ held \in Maps
        BY <1>1, <1>5 DEF HearCall, CallPassed, PostTypes
    <2>3. CarriesDown({Call(id, FALSE)})
        BY <2>1, <2>2, PostCarries, Down
    <2>4. /\ \A e \in {Call(id, FALSE)} : ~FromClient(e)
          /\ \A e \in {Call(id, FALSE)} : e.kind = "call" /\ e.id \in 1..Len(calls) => calls[e.id].via = None
        BY <2>1 DEF Call, FromClient
    <2>5. \A o \in 1..Len(calls) : o \in 1..Len(calls') /\
             (calls[o].via # None => calls'[o].via = calls[o].via)
        BY <2>1 DEF CallChanged
    <2> QED BY <1>1, <2>2, <2>3, <2>4, <2>5, BehindAside
<1> QED BY <1>2, <1>3, <1>4, <1>5, BehindInHand, BehindCoalesced, BehindPosted DEF Heartbeat

LEMMA BehindMap ==
    ASSUME PInv, NEW m \in Maps,
           \/ HandlePacket(m) \/ HandleBeat(m) \/ HandleArrive(m) \/ HandleGone(m)
           \/ HandleCall(m) \/ Leaves(m)
           \/ \E to \in Maps : Teleport(m, to)
    PROVE  Behind'
<1> USE DEF world, session, client, hist
<1>1. PostTypes /\ Numbers /\ Numbers' /\ Behind /\ Tokens /\ OnePlace
    BY NumbersMap DEF PInv, Numbers
<1>2. ASSUME UNCHANGED <<packets, slots, handled, calls, hand, held>>,
             NEW S, CarriesDown(S), \A e \in S : ~FromClient(e),
             \A e \in S : e.kind = "call" /\ e.id \in 1..Len(calls) => calls[e.id].via = None
      PROVE  Behind'
    BY <1>1, <1>2, BehindAside
<1>3. CASE HandleArrive(m)
    <2>1. Popped(m) /\ mail[m][1].kind = "arrive" /\ 1 \in At(m)
        BY <1>1, <1>3, HeadIs DEF HandleArrive
    <2>2. here = {} /\ here' = {m}
        BY <1>1, <1>3, <2>1 DEF HandleArrive, OnePlace, ArrivalIn, Arrives
    <2>3. CarriesDown({})
        BY <2>1, <2>2, ArriveCarries, Down DEF Arrives
    <2> QED BY <1>2, <1>3, <2>3 DEF HandleArrive
<1>4. CASE HandleGone(m)
    <2>1. Popped(m) /\ mail[m][1].kind = "disconnect"
        BY <1>1, <1>4, HeadIs DEF HandleGone
    <2>2. CarriesDown({})
        BY <1>4, <2>1, PopCarries, Down DEF Arrives, HandleGone
    <2> QED BY <1>2, <1>4, <2>2 DEF HandleGone
<1>5. CASE Leaves(m) \/ \E to \in Maps : Teleport(m, to)
    <2>1. here' = {} /\ \A k \in Maps : ~ArrivalIn(k)
        BY <1>1, <1>5 DEF Leaves, Teleport, OnePlace
    <2>2. mail' = mail \/ \E to \in Maps : PostedTwo(to, Arrival, Gone)
        BY <1>1, <1>5, TeleportIs DEF Leaves
    <2>3. CarriesDown({Arrival, Gone})
        BY <2>1, <2>2, OutCarries, SetOutCarries
    <2>4. \A e \in {Arrival, Gone} : e.kind # "call" /\ ~FromClient(e)
        BY DEF Arrival, Gone, FromClient
    <2>5. UNCHANGED <<packets, slots, handled, calls, hand, held>>
        BY <1>5 DEF Leaves, Teleport
    <2> QED BY <1>2, <2>3, <2>4, <2>5
<1>6. CASE HandleCall(m)
    <2>1. PICK id \in Nat :
             /\ CallAt(m, 1, id) /\ CallEnds(m, id)
             /\ mail[m][1].follow => m = calls[id].to /\ calls[id].via = None
             /\ UNCHANGED <<here, calls>>
        BY <1>6, CallInHand
    <2>2. UNCHANGED <<packets, slots, handled, hand, held>>
        BY <1>6 DEF HandleCall, CallDealt
    <2>3. ~Arrives(m, 1)
        BY <2>1 DEF CallAt, Arrives
    <2>4. CASE Popped(m)
        <3>1. CarriesDown({})
            BY <2>1, <2>3, <2>4, PopCarries, Down
        <3> QED BY <1>2, <2>1, <2>2, <3>1
    <2>5. CASE mail[m][1].follow /\ entry \in Maps /\ SentOn(m, entry, Call(id, FALSE))
        <3>1. CarriesDown({Call(id, FALSE)})
            BY <2>1, <2>3, <2>5, SentOnCarries, Down
        <3>2. /\ \A e \in {Call(id, FALSE)} : ~FromClient(e)
              /\ \A e \in {Call(id, FALSE)} : e.kind = "call" /\ e.id \in 1..Len(calls) => calls[e.id].via = None
            BY <2>1, <2>5 DEF Call, FromClient
        <3> QED BY <1>2, <2>1, <2>2, <3>1, <3>2
    <2> QED BY <2>1, <2>4, <2>5 DEF CallEnds
<1> QED BY <1>3, <1>4, <1>5, <1>6, BehindHandled

LEMMA BehindStep ==
    ASSUME PInv, [Next]_vars
    PROVE  Behind'
<1> USE DEF world, session, client, hist
<1>1. PostTypes /\ Numbers /\ Behind /\ Tokens /\ Numbers'
    BY NumbersStep DEF PInv, Numbers
<1>2. CASE CallReads
    <2>1. /\ Len(calls) \in Nat /\ Len(calls') = Len(calls) + 1
          /\ \A id \in 1..Len(calls) : calls'[id] = calls[id]
        BY <1>1, <1>2, CallReadsIs DEF NewCall
    <2>2. UNCHANGED <<here, mail, packets, slots, handled, hand, held>>
        BY <1>2 DEF CallReads
    <2>3. CarriesDown({})
        BY <2>2, SameCarries, Down
    <2>4. \A id \in 1..Len(calls) : id \in 1..Len(calls') /\ calls'[id] = calls[id]
        BY <2>1
    <2> QED BY <1>1, <2>2, <2>3, <2>4, BehindAside
<1>3. ASSUME NEW id \in DOMAIN calls, CallSent(id)
      PROVE  Behind'
    <2>1. /\ id \in 1..Len(calls) /\ ~calls[id].sent /\ calls[id].to \in Maps
          /\ CallChanged(id, [calls[id] EXCEPT !.sent = TRUE])
          /\ Posted(calls[id].to, Call(id, TRUE))
        BY <1>1, <1>3, CallSentIs
    <2>2. calls[id].via = None
        BY <1>1, <2>1 DEF Tokens
    <2>3. UNCHANGED <<here, packets, slots, handled, hand, held>>
        BY <1>3 DEF CallSent
    <2>4. CarriesDown({Call(id, TRUE)})
        BY <2>1, <2>3, PostCarries, Down
    <2>5. /\ \A e \in {Call(id, TRUE)} : ~FromClient(e)
          /\ \A e \in {Call(id, TRUE)} : e.kind = "call" /\ e.id \in 1..Len(calls) => calls[e.id].via = None
        BY <2>2 DEF Call, FromClient
    <2>6. \A o \in 1..Len(calls) : o \in 1..Len(calls') /\
             (calls[o].via # None => calls'[o].via = calls[o].via)
        BY <2>1, <2>2 DEF CallChanged
    <2> QED BY <1>1, <2>3, <2>4, <2>5, <2>6, BehindAside
<1>4. CASE UNCHANGED vars
    <2>1. CarriesDown({})
        BY <1>4, SameCarries, Down DEF vars
    <2> QED BY <1>1, <1>4, <2>1, BehindAside DEF vars
<1> QED BY <1>2, <1>3, <1>4, BehindSession, BehindMap DEF Next

-----------------------------------------------------------------------------
(* A call follows its player: of those a step leaves alone, what is in the *)
(* mailboxes and on the queue still does.                                 *)
CarriesAt(k, S) == \E d \in {0, 1} : Carried(k, d) /\ Behindhand(k, d, S)
QueueStays(id) ==
    \E c \in {0, 1} : \A i \in 1..Len(ctl') :
        QueuedAt(i, id)' \/ Passing(i)' => i \in Int /\ i + c \in 1..Len(ctl) /\ ctl'[i] = ctl[i + c]

LEMMA MailFollowsKept ==
    ASSUME NEW id, Token(id), MailFollows(id), NEW S, Carries(S), CallNotIn(S, id),
           calls[id].to \in Maps, NEW R, CarriesAt(calls[id].to, R), CallNotIn(R, id),
           \A e \in R : e.kind # "arrive", calls'[id] = calls[id], moves' = moves
    PROVE  MailFollows(id)'
<1> SUFFICES ASSUME NEW k \in Maps, NEW i \in At(k)', mail'[k][i].kind = "call", mail'[k][i].id = id
             PROVE  IF mail'[k][i].follow
                    THEN \A j \in At(k)' : j > i => mail'[k][j].kind # "arrive"
                    ELSE Reached(k, i)' /\ calls[id].moves < moves
    BY DEF MailFollows, CallAt, Arrives
<1>1. PICK d \in {0, 1} : Carried(k, d) /\ Behindhand(k, d, S)
    BY DEF Carries
<1>2. i \in Int /\ d \in Int
    BY DEF At
<1>3. i + d \in At(k)
    BY <1>1 DEF Behindhand, CallNotIn
<1>4. mail'[k][i] = mail[k][i + d] /\ (Reached(k, i)' <=> Reached(k, i + d)) /\ CallAt(k, i + d, id)
    BY <1>1, <1>3 DEF Carried, CallAt
<1>5. CASE ~mail'[k][i].follow
    BY <1>3, <1>4, <1>5 DEF MailFollows
<1>6. CASE mail'[k][i].follow
    <2>1. k = calls[id].to
        BY <1>3, <1>4, <1>6 DEF Token
    <2>2. PICK r \in {0, 1} : Carried(k, r) /\ Behindhand(k, r, R)
        BY <2>1 DEF CarriesAt
    <2>3. i + r \in At(k) /\ r \in Int
        BY <2>2 DEF Behindhand, CallNotIn
    <2>4. mail'[k][i] = mail[k][i + r] /\ CallAt(k, i + r, id)
        BY <2>2, <2>3 DEF Carried, CallAt
    <2>5. \A j \in At(k) : j > i + r => ~Arrives(k, j)
        BY <1>6, <2>3, <2>4 DEF MailFollows
    <2>6. ASSUME NEW j \in At(k)', j > i, mail'[k][j].kind = "arrive"
          PROVE  FALSE
        <3>1. j + r \in At(k)
            BY <2>2, <2>6 DEF Behindhand
        <3>2. mail'[k][j] = mail[k][j + r]
            BY <2>2, <3>1 DEF Carried
        <3>3. j \in Int
            BY DEF At
        <3>4. j + r > i + r
            BY <1>2, <2>3, <2>6, <3>3
        <3> QED BY <2>5, <2>6, <3>1, <3>2, <3>4 DEF Arrives
    <2> QED BY <1>6, <2>6
<1> QED BY <1>5, <1>6

LEMMA QueueFollowsKept ==
    ASSUME NEW id, QueueFollows(id), QueueStays(id), calls'[id] = calls[id], moves' = moves
    PROVE  QueueFollows(id)'
<1>1. PICK c \in {0, 1} : \A i \in 1..Len(ctl') :
         QueuedAt(i, id)' \/ Passing(i)' => i \in Int /\ i + c \in 1..Len(ctl) /\ ctl'[i] = ctl[i + c]
    BY DEF QueueStays
<1> SUFFICES ASSUME NEW i \in 1..Len(ctl'), QueuedAt(i, id)'
             PROVE  /\ calls[id].moves < moves
                    /\ \A j \in 1..Len(ctl') : j > i => ~Passing(j)'
    BY DEF QueueFollows
<1>2. i \in Int /\ c \in Int /\ i + c \in 1..Len(ctl) /\ QueuedAt(i + c, id)
    BY <1>1 DEF QueuedAt
<1>3. calls[id].moves < moves /\ \A j \in 1..Len(ctl) : j > i + c => ~Passing(j)
    BY <1>2 DEF QueueFollows
<1>4. ASSUME NEW j \in 1..Len(ctl'), j > i, Passing(j)'
      PROVE  FALSE
    <2>1. j \in Int /\ j + c \in 1..Len(ctl) /\ Passing(j + c)
        BY <1>1, <1>4 DEF Passing
    <2>2. j + c > i + c
        BY <1>2, <1>4, <2>1
    <2> QED BY <1>3, <2>1, <2>2
<1> QED BY <1>3, <1>4

(* The session's queue, unchanged, read, or with a call put behind it.     *)
LEMMA QueueSame ==
    ASSUME NEW id,
           \/ ctl' = ctl \/ CtlPopped
           \/ \E w : CtlPosted(w) /\ w.kind = "toplayer" /\ w.id # id
    PROVE  QueueStays(id) /\ (OnQueue' => OnQueue)
<1>1. CASE ctl' = ctl
    BY <1>1 DEF QueueStays, OnQueue, Passing
<1>2. CASE CtlPopped
    BY <1>2 DEF QueueStays, OnQueue, Passing, CtlPopped
<1>3. ASSUME NEW w, CtlPosted(w), w.kind = "toplayer", w.id # id
      PROVE  QueueStays(id) /\ (OnQueue' => OnQueue)
    <2>1. ASSUME NEW i \in 1..Len(ctl'), QueuedAt(i, id)' \/ Passing(i)'
          PROVE  i \in Int /\ i + 0 \in 1..Len(ctl) /\ ctl'[i] = ctl[i + 0]
        <3>1. i \in 1..Len(ctl) \/ i = Len(ctl) + 1
            BY <1>3 DEF CtlPosted
        <3>2. i # Len(ctl) + 1
            BY <1>3, <2>1 DEF CtlPosted, QueuedAt, Passing
        <3> QED BY <1>3, <3>1, <3>2 DEF CtlPosted
    <2>2. QueueStays(id)
        BY <2>1 DEF QueueStays
    <2>3. OnQueue' => OnQueue
        BY <2>1 DEF OnQueue, Passing
    <2> QED BY <2>2, <2>3
<1> QED BY <1>1, <1>2, <1>3

LEMMA NotDroppedKept ==
    ASSUME NEW id, NotDropped(id), calls'[id] = calls[id], Ran(id) => Ran(id)',
           NEW E, KeepsBut(E), \A e \in E : ~(e.kind = "call" /\ e.id = id),
           \A i \in 1..Len(ctl) : QueuedAt(i, id) => \E j \in 1..Len(ctl') : ctl'[j] = ctl[i]
    PROVE  NotDropped(id)'
<1>1. ASSUME NEW m \in Maps, NEW i \in At(m), CallAt(m, i, id)
      PROVE  \E j \in At(m)' : CallAt(m, j, id)'
    <2>1. \E j \in At(m)' : mail'[m][j] = mail[m][i]
        BY <1>1 DEF KeepsBut, CallAt
    <2> QED BY <1>1, <2>1 DEF CallAt
<1>2. ASSUME NEW i \in 1..Len(ctl), QueuedAt(i, id)
      PROVE  \E j \in 1..Len(ctl') : QueuedAt(j, id)'
    BY <1>2 DEF QueuedAt
<1> QED BY <1>1, <1>2 DEF NotDropped

LEMMA CallIs ==
    ASSUME PostTypes, NEW id \in 1..Len(calls)
    PROVE  calls[id].to \in Maps /\ calls[id].live \in BOOLEAN /\ calls[id].moves \in Int
<1>1. calls[id] \in ACall
    BY ElementOfSeq DEF PostTypes
<1> QED BY <1>1 DEF ACall

(* So a call follows on, with its player where they were or to come.       *)
LEMMA FollowOne ==
    ASSUME NEW id, Token(id), FollowAt(id), calls'[id] = calls[id], calls[id].to \in Maps,
           UNCHANGED <<moves, live, entry, here>>,
           QueueStays(id), OnQueue' => OnQueue, entry # None /\ Coming(entry) => Coming(entry)',
           NEW S, Carries(S), CallNotIn(S, id), \A e \in S : e.kind # "arrive",
           Ran(id) => Ran(id)', NEW E, KeepsBut(E), \A e \in E : ~(e.kind = "call" /\ e.id = id),
           \A i \in 1..Len(ctl) : QueuedAt(i, id) => \E j \in 1..Len(ctl') : ctl'[j] = ctl[i]
    PROVE  FollowAt(id)'
<1>1. Due(id)' => Due(id)
    BY DEF Due
<1>2. CarriesAt(calls[id].to, S)
    BY DEF Carries, CarriesAt
<1>3. Due(id)' /\ Nearby(id) => Nearby(id)'
    BY DEF Due, Nearby
<1>4. Due(id) => NotDropped(id)' /\ MailFollows(id)' /\ QueueFollows(id)'
    BY <1>2, MailFollowsKept, QueueFollowsKept, NotDroppedKept DEF FollowAt
<1> QED BY <1>1, <1>3, <1>4 DEF FollowAt

(* What makes them so, an action at a time: a step that leaves the player  *)
(* where they are, but for what becomes of one call,                       *)
LEMMA FollowButOne ==
    ASSUME PInv, NEW one, UNCHANGED <<moves, live, entry, here>>,
           \/ ctl' = ctl
           \/ CtlPopped /\ QueuedAt(1, one)
           \/ \E w : CtlPosted(w) /\ w.kind = "toplayer" /\ w.id = one,
           \A k \in Maps : ArrivalIn(k) => ArrivalIn(k)',
           NEW S, Carries(S), \A e \in S : e.kind # "arrive" /\ (e.kind = "call" => e.id = one),
           NEW E, KeepsBut(E), \A e \in E : e.kind = "call" => e.id = one,
           \A id : Ran(id) => Ran(id)',
           NEW id \in 1..Len(calls), id # one, calls'[id] = calls[id]
    PROVE  FollowAt(id)'
<1>1. PostTypes /\ Tokens /\ FollowAt(id) /\ Token(id)
    BY TokensAre DEF PInv, Follow
<1>2. calls[id].to \in Maps
    BY <1>1, CallIs
<1>3. QueueStays(id) /\ (OnQueue' => OnQueue)
    BY QueueSame
<1>4. CallNotIn(S, id) /\ \A e \in E : ~(e.kind = "call" /\ e.id = id)
    BY DEF CallNotIn
<1>5. ASSUME NEW i \in 1..Len(ctl), QueuedAt(i, id)
      PROVE  \E j \in 1..Len(ctl') : ctl'[j] = ctl[i]
    <2>1. CASE ctl' = ctl
        BY <2>1
    <2>2. CASE CtlPopped /\ QueuedAt(1, one)
        <3>1. i # 1
            BY <1>5, <2>2 DEF QueuedAt
        <3>2. i - 1 \in 1..Len(ctl') /\ (i - 1) + 1 = i
            BY <2>2, <3>1 DEF CtlPopped
        <3> QED BY <2>2, <3>2 DEF CtlPopped
    <2>3. CASE \E w : CtlPosted(w)
        BY <2>3 DEF CtlPosted
    <2> QED BY <2>1, <2>2, <2>3
<1>6. entry # None /\ Coming(entry) => Coming(entry)'
    BY <1>1 DEF PostTypes, Somewhere, Coming
<1> QED BY <1>1, <1>2, <1>3, <1>4, <1>5, <1>6, FollowOne

LEMMA FollowSame ==
    ASSUME PInv, UNCHANGED <<moves, live, entry, here, ctl, calls, runs>>,
           \A k \in Maps : ArrivalIn(k) => ArrivalIn(k)',
           NEW S, Carries(S), \A e \in S : e.kind # "arrive" /\ e.kind # "call",
           NEW E, KeepsBut(E), \A e \in E : e.kind # "call"
    PROVE  Follow'
<1>1. ASSUME NEW id \in 1..Len(calls)
      PROVE  FollowAt(id)'
    <2>1. id # id + 1 /\ \A o : Ran(o) => Ran(o)'
        BY DEF Ran
    <2> QED BY <2>1, FollowButOne
<1> QED BY <1>1 DEF Follow

(* passing an arrival on: it is not for the map a call waits in,           *)
LEMMA FollowPassOn ==
    ASSUME PInv, PassOn
    PROVE  Follow'
<1> USE DEF world, session, client, hist
<1>1. PostTypes /\ Tokens /\ Follow /\ OnePlace /\ Routed
    BY DEF PInv
<1>2. CtlPopped /\ Passing(1) /\ ctl[1].to \in Maps /\ Posted(ctl[1].to, Arrival)
    BY <1>1, PassOnIs
<1>3. UNCHANGED <<moves, live, entry, here, calls, runs>>
    BY DEF PassOn
<1>4. 1 \in 1..Len(ctl) /\ OnQueue /\ here = {} /\ entry # ctl[1].to
    BY <1>1, <1>2 DEF CtlPopped, OnQueue, OnePlace, Routed
<1>5. \A j \in 1..Len(ctl') : ~Passing(j)'
    <2>1. \A j \in 1..Len(ctl') : j + 1 \in 1..Len(ctl) /\ j + 1 # 1 /\ ctl'[j] = ctl[j + 1]
        BY <1>2 DEF CtlPopped
    <2> QED BY <1>1, <1>2, <1>4, <2>1 DEF OnePlace, Passing
<1>6. Carries({Arrival}) /\ Arrival.kind = "arrive" /\ KeepsBut({})
    BY <1>2, <1>3, PostCarries, PostKeeps DEF Arrival
<1>7. ASSUME NEW id \in 1..Len(calls)
      PROVE  FollowAt(id)'
    <2> SUFFICES ASSUME Due(id)'
                 PROVE  Nearby(id)' /\ NotDropped(id)' /\ MailFollows(id)' /\ QueueFollows(id)'
        BY <1>1, <1>3 DEF Follow, FollowAt
    <2>1. Nearby(id) /\ NotDropped(id) /\ MailFollows(id) /\ QueueFollows(id) /\ Token(id)
        BY <1>1, <1>3, TokensAre DEF Follow, FollowAt, Due
    <2>2. entry = calls[id].to /\ calls[id].moves # moves
        BY <1>4, <2>1 DEF Nearby
    <2>3. calls[id].to \in Maps
        BY <1>1, CallIs
    <2>4. Nearby(id)'
        BY <1>3, <2>2 DEF Nearby
    <2>5. CarriesAt(calls[id].to, {})
        <3>1. mail'[calls[id].to] = mail[calls[id].to]
            BY <1>2, <1>4, <2>2, <2>3 DEF Posted, Others
        <3> QED BY <1>3, <2>3, <3>1, StayCarried DEF CarriesAt
    <2>6. MailFollows(id)'
        BY <1>3, <1>6, <2>1, <2>3, <2>5, MailFollowsKept DEF CallNotIn
    <2>7. QueueFollows(id)'
        <3>1. QueueStays(id)
            BY <1>2, QueueSame
        <3> QED BY <1>3, <2>1, <3>1, QueueFollowsKept
    <2>8. ASSUME NEW i \in 1..Len(ctl), QueuedAt(i, id)
          PROVE  \E j \in 1..Len(ctl') : ctl'[j] = ctl[i]
        <3>1. i # 1
            BY <1>2, <2>8 DEF QueuedAt, Passing
        <3>2. i - 1 \in 1..Len(ctl') /\ (i - 1) + 1 = i
            BY <1>2, <3>1 DEF CtlPopped
        <3> QED BY <1>2, <3>2 DEF CtlPopped
    <2>9. NotDropped(id)'
        BY <1>3, <1>6, <2>1, <2>8, NotDroppedKept DEF Ran
    <2> QED BY <2>4, <2>6, <2>7, <2>9
<1> QED BY <1>3, <1>7 DEF Follow

(* the entry naming another map: the arrival is in its mailbox, or they    *)
(* are in it,                                                             *)
LEMMA FollowNamed ==
    ASSUME PInv, Named
    PROVE  Follow'
<1> USE DEF world, session, client, hist
<1>1. PostTypes /\ Tokens /\ Follow /\ OnePlace /\ Routed
    BY DEF PInv
<1>2. naming # None /\ entry' = naming /\ UNCHANGED <<moves, live, here, mail, ctl, calls, runs>>
    BY DEF Named
<1>3. live /\ entry # None
    BY <1>1, <1>2 DEF Routed
<1>4. entry # naming => ~OnQueue /\ Coming(naming)
    BY <1>1, <1>2, <1>3 DEF Routed, OnQueue
<1>5. Carries({}) /\ KeepsBut({})
    BY <1>2, SameCarries, SameKeeps
<1>6. ASSUME NEW id \in 1..Len(calls)
      PROVE  FollowAt(id)'
    <2> SUFFICES ASSUME Due(id)'
                 PROVE  Nearby(id)' /\ NotDropped(id)' /\ MailFollows(id)' /\ QueueFollows(id)'
        BY <1>1, <1>2 DEF Follow, FollowAt
    <2>1. Nearby(id) /\ NotDropped(id) /\ MailFollows(id) /\ QueueFollows(id)
        BY <1>1, <1>2, <1>3 DEF Follow, FollowAt, Due
    <2>2. OnQueue' = OnQueue /\ \A k : Coming(k)' <=> Coming(k)
        BY <1>2 DEF OnQueue, Passing, Coming, ArrivalIn, Arrives, At
    <2>3. Nearby(id)'
        BY <1>2, <1>4, <2>1, <2>2 DEF Nearby
    <2>4. NotDropped(id)' /\ MailFollows(id)' /\ QueueFollows(id)'
        BY <1>2, <2>1 DEF NotDropped, MailFollows, QueueFollows, Ran, CallAt, QueuedAt, Passing,
                          Arrives, Reached, At
    <2> QED BY <2>3, <2>4
<1> QED BY <1>2, <1>6 DEF Follow

(* the client gone, or the player: no call of before is due,               *)
LEMMA FollowGone ==
    ASSUME PInv, ClientGoes \/ \E m \in Maps : Leaves(m)
    PROVE  Follow'
<1> USE DEF world, session, client, hist
<1>1. PostTypes /\ Follow
    BY DEF PInv
<1>2. /\ UNCHANGED <<moves, calls>> /\ (live' => live) /\ live' \in BOOLEAN
      /\ (live /\ ~live') \/ entry' = None
    <2>1. CASE ClientGoes
        BY <2>1 DEF ClientGoes
    <2>2. CASE \E m \in Maps : Leaves(m)
        BY <1>1, <2>2 DEF Leaves, PostTypes
    <2> QED BY <2>1, <2>2
<1>3. ASSUME NEW id \in 1..Len(calls)
      PROVE  FollowAt(id)'
    <2>1. FollowAt(id) /\ calls[id].live \in BOOLEAN /\ live' \in BOOLEAN
        BY <1>1, <1>2, CallIs DEF Follow
    <2>2. ~Due(id)'
        BY <1>2, <2>1 DEF FollowAt, Due
    <2> QED BY <1>2, <2>1, <2>2 DEF FollowAt
<1> QED BY <1>2, <1>3 DEF Follow

(* an arrival: they are there, with no call but one made before they left, *)
LEMMA FollowArrive ==
    ASSUME PInv, NEW m \in Maps, HandleArrive(m)
    PROVE  Follow'
<1> USE DEF world, session, client, hist
<1>1. PostTypes /\ Tokens /\ Follow /\ OnePlace /\ Routed
    BY DEF PInv
<1>2. Popped(m) /\ mail[m][1].kind = "arrive" /\ 1 \in At(m)
    BY <1>1, HeadIs DEF HandleArrive
<1>3. ArrivalIn(m) /\ Arrives(m, 1)
    BY <1>2 DEF ArrivalIn, Arrives
<1>4. here = {} /\ here' = {m} /\ entry' = m /\ ~OnQueue /\ entry # None
      /\ UNCHANGED <<moves, live, ctl, calls, runs>>
    BY <1>1, <1>3 DEF HandleArrive, OnePlace, Routed
<1>5. Carries({}) /\ KeepsBut({mail[m][1]})
    BY <1>2, <1>3, <1>4, ArriveCarries, PopKeeps
<1>6. ASSUME NEW id \in 1..Len(calls)
      PROVE  FollowAt(id)'
    <2> SUFFICES ASSUME Due(id)'
                 PROVE  Nearby(id)' /\ NotDropped(id)' /\ MailFollows(id)' /\ QueueFollows(id)'
        BY <1>1, <1>4 DEF Follow, FollowAt
    <2>1. Nearby(id) /\ NotDropped(id) /\ MailFollows(id) /\ QueueFollows(id) /\ Token(id)
        BY <1>1, <1>4, TokensAre DEF Follow, FollowAt, Due
    <2>2. calls[id].moves # moves
        BY <1>4, <2>1 DEF Nearby
    <2>3. ~OnQueue' /\ Coming(m)'
        BY <1>4 DEF OnQueue, Passing, Coming
    <2>4. Nearby(id)'
        BY <1>4, <2>2, <2>3 DEF Nearby
    <2>5. calls[id].to \in Maps
        BY <1>1, CallIs
    <2>6. MailFollows(id)'
        <3>1. CarriesAt(calls[id].to, {}) /\ CallNotIn({}, id)
            BY <1>5, <2>5 DEF CallNotIn, Carries, CarriesAt
        <3> QED BY <1>4, <1>5, <2>1, <2>5, <3>1, MailFollowsKept
    <2>7. QueueFollows(id)'
        BY <1>4, <2>1, QueueSame, QueueFollowsKept
    <2>8. NotDropped(id)'
        BY <1>2, <1>4, <1>5, <2>1, NotDroppedKept DEF Ran
    <2> QED BY <2>4, <2>6, <2>7, <2>8
<1> QED BY <1>4, <1>6 DEF Follow

(* a teleport: one made where they were waits ahead of what comes,         *)
LEMMA FollowTeleport ==
    ASSUME PInv, NEW m \in Maps, NEW to \in Maps, Teleport(m, to)
    PROVE  Follow'
<1> USE DEF world, session, client, hist
<1>1. PostTypes /\ Tokens /\ Follow /\ OnePlace /\ Routed /\ moves \in Nat
    BY DEF PInv, PostTypes
<1>2. m \in here /\ to # m /\ moves' = moves + 1 /\ UNCHANGED <<live, calls, runs>>
    BY DEF Teleport
<1>3. entry = m /\ m # None
    BY <1>1, <1>2, PostAssumption DEF Routed
<1>4. (\A k \in Maps : ~ArrivalIn(k)) /\ ~OnQueue
    BY <1>1, <1>2 DEF OnePlace
<1>5. \/ live /\ CtlPosted(Transfer(to)) /\ mail' = mail /\ entry' = m
      \/ ~live /\ PostedTwo(to, Arrival, Gone) /\ entry' = to /\ ctl' = ctl /\ ctl = <<>>
    BY <1>1, <1>3, TeleportIs DEF Routed
<1>6. \A k \in Maps : \A i \in At(k)' : \/ i \in At(k) /\ mail'[k][i] = mail[k][i]
                                        \/ k = to /\ mail'[k][i] \in {Arrival, Gone}
    <2>1. CASE mail' = mail
        BY <2>1 DEF At
    <2>2. CASE PostedTwo(to, Arrival, Gone)
        <3>1. ASSUME NEW k \in Maps, NEW i \in At(k)'
              PROVE  \/ i \in At(k) /\ mail'[k][i] = mail[k][i]
                     \/ k = to /\ mail'[k][i] \in {Arrival, Gone}
            <4>1. CASE k # to
                BY <2>2, <4>1 DEF PostedTwo, Others, At
            <4>2. CASE k = to
                <5>1. i \in At(to) \/ i = Len(mail[to]) + 1 \/ i = Len(mail[to]) + 2
                    BY <2>2, <4>2 DEF PostedTwo, At
                <5> QED BY <2>2, <4>2, <5>1 DEF PostedTwo
            <4> QED BY <4>1, <4>2
        <3> QED BY <3>1
    <2> QED BY <1>5, <2>1, <2>2
<1>7. KeepsBut({})
    BY <1>5, SameKeeps, PostTwoKeeps
<1>8. \A i \in 1..Len(ctl) : i \in 1..Len(ctl') /\ ctl'[i] = ctl[i]
    BY <1>5 DEF CtlPosted
<1>9. \A i \in 1..Len(ctl') : \A id : QueuedAt(i, id)' => i \in 1..Len(ctl) /\ QueuedAt(i, id)
    <2>1. CASE ctl' = ctl
        BY <2>1 DEF QueuedAt
    <2>2. CASE CtlPosted(Transfer(to))
        <3>1. \A i \in 1..Len(ctl') : i \in 1..Len(ctl) \/ i = Len(ctl) + 1
            BY <2>2 DEF CtlPosted
        <3> QED BY <2>2, <3>1 DEF CtlPosted, QueuedAt, Transfer
    <2> QED BY <1>5, <2>1, <2>2
<1>10. ~live => ~OnQueue' /\ Coming(to)'
    <2> SUFFICES ASSUME ~live
                 PROVE  ~OnQueue' /\ Coming(to)'
        OBVIOUS
    <2>1. PostedTwo(to, Arrival, Gone) /\ ctl' = <<>>
        BY <1>5
    <2>2. ArrivalIn(to)'
        BY <1>4, <2>1, SetsOutTwo
    <2> QED BY <2>1, <2>2 DEF OnQueue, Coming
<1>11. ASSUME NEW id \in 1..Len(calls)
       PROVE  FollowAt(id)'
    <2>1. FollowAt(id) /\ calls[id].moves \in Int /\ Token(id)
        BY <1>1, CallIs, TokensAre DEF Follow
    <2>2. calls[id].moves <= moves /\ (live => calls[id].live)
        BY <2>1 DEF FollowAt
    <2>3. calls[id].moves < moves' /\ (live' => calls'[id].live)
        BY <1>1, <1>2, <2>1, <2>2
    <2>4. ASSUME Due(id)'
          PROVE  Nearby(id)' /\ NotDropped(id)' /\ MailFollows(id)' /\ QueueFollows(id)'
        <3>1. calls[id].moves = moves /\ calls[id].live = live
            BY <1>1, <1>2, <2>1, <2>2, <2>4 DEF Due
        <3>2. Due(id)
            BY <1>1, <1>3, <3>1 DEF Due
        <3>3. Nearby(id) /\ NotDropped(id) /\ MailFollows(id) /\ QueueFollows(id)
            BY <2>1, <3>2 DEF FollowAt
        <3>4. calls[id].to = m
            BY <1>2, <3>1, <3>3 DEF Nearby
        <3>5. Nearby(id)'
            <4>1. CASE live
                <5>1. entry' = m
                    BY <1>5, <4>1
                <5> QED BY <1>2, <2>3, <3>4, <5>1 DEF Nearby
            <4>2. CASE ~live
                <5>1. entry' = to
                    BY <1>5, <4>2
                <5> QED BY <1>2, <1>10, <2>3, <4>2, <5>1 DEF Nearby
            <4> QED BY <4>1, <4>2
        <3>6. QueueFollows(id)'
            <4>1. \A i \in 1..Len(ctl) : ~QueuedAt(i, id)
                BY <1>1, <3>1, <3>3 DEF QueueFollows
            <4> QED BY <1>9, <4>1 DEF QueueFollows
        <3>7. NotDropped(id)'
            BY <1>2, <1>7, <1>8, <3>3, NotDroppedKept DEF Ran
        <3>8. MailFollows(id)'
            <4> SUFFICES ASSUME NEW k \in Maps, NEW i \in At(k)', mail'[k][i].kind = "call", mail'[k][i].id = id
                         PROVE  /\ mail'[k][i].follow
                                /\ \A j \in At(k)' : mail'[k][j].kind # "arrive"
                BY DEF MailFollows, CallAt, Arrives
            <4>1. i \in At(k) /\ mail'[k][i] = mail[k][i] /\ CallAt(k, i, id)
                BY <1>6 DEF Arrival, Gone, CallAt
            <4>2. mail[k][i].follow
                BY <1>1, <3>1, <3>3, <4>1 DEF MailFollows
            <4>3. k = m
                BY <2>1, <3>4, <4>1, <4>2 DEF Token
            <4>4. \A j \in At(k)' : mail'[k][j].kind # "arrive"
                BY <1>2, <1>4, <1>6, <4>3 DEF ArrivalIn, Arrives
            <4> QED BY <4>1, <4>2, <4>4
        <3> QED BY <3>5, <3>6, <3>7, <3>8
    <2>5. calls[id].moves <= moves'
        BY <1>1, <1>2, <2>1, <2>3
    <2> QED BY <1>2, <2>3, <2>4, <2>5 DEF FollowAt
<1> QED BY <1>2, <1>11 DEF Follow

(* a call made, where they are or have just left,                          *)
LEMMA FollowReads ==
    ASSUME PInv, CallReads
    PROVE  Follow'
<1> USE DEF world, session, client, hist
<1>1. PostTypes /\ Tokens /\ Follow /\ OnePlace /\ Routed
    BY DEF PInv
<1>2. UNCHANGED <<entry, here, mail, live, moves, ctl, runs>> /\ entry # None
    BY DEF CallReads
<1>3. /\ Len(calls) \in Nat /\ Len(calls') = Len(calls) + 1
      /\ \A id \in 1..Len(calls) : calls'[id] = calls[id]
      /\ calls'[Len(calls) + 1] = [to |-> entry, sent |-> FALSE, via |-> None, live |-> live,
                                   moves |-> IF here = {} THEN moves - 1 ELSE moves]
    BY <1>1, CallReadsIs DEF NewCall
<1>n. PICK n \in Nat : n = Len(calls) + 1
    BY <1>3
<1>4. ASSUME NEW id \in 1..Len(calls)
      PROVE  FollowAt(id)'
    <2>1. FollowAt(id) /\ calls'[id] = calls[id]
        BY <1>1, <1>3 DEF Follow
    <2> QED BY <1>2, <2>1 DEF FollowAt, Due, Nearby, NotDropped, MailFollows, QueueFollows, Ran, CallAt,
                              QueuedAt, Passing, OnQueue, Coming, ArrivalIn, Arrives, Reached, At
<1>5. /\ calls'[n].to = entry /\ ~calls'[n].sent /\ calls'[n].live = live
      /\ calls'[n].moves = IF here = {} THEN moves - 1 ELSE moves
    BY <1>3, <1>n
<1>6. moves \in Nat /\ n \notin 1..Len(calls) /\ Token(n)
    BY <1>1, <1>3, <1>n, TokensAre DEF PostTypes
<1>7. /\ \A m \in Maps : \A i \in At(m) : ~CallAt(m, i, n)
      /\ \A i \in 1..Len(ctl) : ~QueuedAt(i, n)
    BY <1>6 DEF Token
<1>8. MailFollows(n)' /\ QueueFollows(n)' /\ NotDropped(n)'
    BY <1>2, <1>5, <1>7 DEF MailFollows, QueueFollows, NotDropped, CallAt, QueuedAt, At
<1>9. Nearby(n)'
    <2>1. moves - 1 # moves
        BY <1>6
    <2>2. here # {} => here = {entry}
        BY <1>1 DEF Routed, PostTypes
    <2> QED BY <1>2, <1>5, <2>1, <2>2 DEF Nearby
<1>10. calls'[n].moves <= moves /\ (live => calls'[n].live)
    BY <1>5, <1>6
<1>11. FollowAt(n)'
    BY <1>2, <1>8, <1>9, <1>10 DEF FollowAt
<1>12. \A id \in 1..Len(calls') : id \in 1..Len(calls) \/ id = n
    BY <1>3, <1>n
<1> QED BY <1>4, <1>11, <1>12 DEF Follow

(* and sent to the map read for it,                                        *)
LEMMA FollowSent ==
    ASSUME PInv, NEW one \in DOMAIN calls, CallSent(one)
    PROVE  Follow'
<1> USE DEF world, session, client, hist
<1>1. PostTypes /\ Tokens /\ Follow
    BY DEF PInv
<1>2. /\ one \in 1..Len(calls) /\ ~calls[one].sent /\ calls[one].to \in Maps
      /\ CallChanged(one, [calls[one] EXCEPT !.sent = TRUE])
      /\ Posted(calls[one].to, Call(one, TRUE))
    BY <1>1, CallSentIs
<1>3. UNCHANGED <<entry, here, live, moves, ctl, runs>>
    BY DEF CallSent
<1>4. Call(one, TRUE).kind = "call" /\ Call(one, TRUE).id = one /\ Call(one, TRUE).follow
    BY DEF Call
<1>5. Carries({Call(one, TRUE)}) /\ KeepsBut({})
    BY <1>2, <1>3, PostCarries, PostKeeps
<1>6. \A k \in Maps : ArrivalIn(k) => ArrivalIn(k)'
    BY <1>5 DEF KeepsBut, ArrivalIn, Arrives
<1>7. \A id : Ran(id)' <=> Ran(id)
    BY <1>3 DEF Ran
<1>8. Len(calls') = Len(calls) /\ \A id \in 1..Len(calls) : id # one => calls'[id] = calls[id]
    BY <1>2 DEF CallChanged
<1>9. \A id \in 1..Len(calls) : id # one => FollowAt(id)'
    BY <1>3, <1>4, <1>5, <1>6, <1>7, <1>8, FollowButOne
<1>10. calls[one] \in ACall /\ FollowAt(one) /\ Token(one)
    BY <1>1, <1>2, ElementOfSeq, TokensAre DEF PostTypes, Follow
<1>11. calls'[one].to = calls[one].to /\ calls'[one].moves = calls[one].moves
       /\ calls'[one].live = calls[one].live
    BY <1>2, <1>10 DEF CallChanged, ACall
<1>12. /\ \A m \in Maps : \A i \in At(m) : ~CallAt(m, i, one)
       /\ \A i \in 1..Len(ctl) : ~QueuedAt(i, one)
    BY <1>2, <1>10 DEF Token
<1>13. \E k \in Maps : \E i \in At(k)' : mail'[k][i] = Call(one, TRUE)
    <2>1. PICK k \in Maps : k = calls[one].to
        BY <1>2
    <2>2. Put(k, Call(one, TRUE))
        BY <1>2, <2>1 DEF Posted
    <2>3. Len(mail[k]) + 1 \in 1..Len(mail'[k]) /\ mail'[k][Len(mail[k]) + 1] = Call(one, TRUE)
        BY <2>2 DEF Put
    <2> QED BY <2>3 DEF At
<1>14. NotDropped(one)'
    BY <1>2, <1>4, <1>13 DEF NotDropped, CallAt
<1>15. QueueFollows(one)'
    BY <1>3, <1>12 DEF QueueFollows, QueuedAt
<1>16. MailFollows(one)'
    <2> SUFFICES ASSUME NEW k \in Maps, NEW i \in At(k)', mail'[k][i].kind = "call", mail'[k][i].id = one
                 PROVE  mail'[k][i].follow /\ \A j \in At(k)' : ~(j > i)
        BY DEF MailFollows, CallAt
    <2>1. \/ i \in At(k) /\ mail'[k][i] = mail[k][i]
          \/ k = calls[one].to /\ i = Len(mail[calls[one].to]) + 1 /\ mail'[k][i] = Call(one, TRUE)
        BY <1>2, PostedAt
    <2>2. k = calls[one].to /\ i = Len(mail[k]) + 1 /\ mail'[k][i] = Call(one, TRUE)
        BY <1>12, <2>1 DEF CallAt
    <2>3. \A j \in At(k)' : ~(j > i)
        BY <1>2, <2>2 DEF Posted, Put, At
    <2> QED BY <1>4, <2>2, <2>3
<1>17. Due(one)' => Nearby(one)'
    <2>1. Due(one)' => Due(one)
        BY <1>3, <1>11 DEF Due
    <2>2. entry # None /\ Coming(entry) => Coming(entry)'
        BY <1>1, <1>3, <1>6 DEF PostTypes, Somewhere, Coming
    <2>3. OnQueue' => OnQueue
        BY <1>3 DEF OnQueue, Passing
    <2> QED BY <1>3, <1>10, <1>11, <2>1, <2>2, <2>3 DEF FollowAt, Nearby, Due
<1>18. FollowAt(one)'
    BY <1>3, <1>10, <1>11, <1>14, <1>15, <1>16, <1>17 DEF FollowAt
<1> QED BY <1>8, <1>9, <1>18 DEF Follow

(* read from the queue: the player's arrival is ahead of it,               *)
LEMMA FollowHear ==
    ASSUME PInv, HearCall
    PROVE  Follow'
<1> USE DEF world, session, client, hist
<1>1. PostTypes /\ Tokens /\ Tokens' /\ Follow /\ Routed /\ held \in Maps /\ moves \in Nat
    BY TokensHear DEF PInv, PostTypes
<1>2. PICK one \in 1..Len(calls) :
         /\ one \in Nat /\ QueuedAt(1, one) /\ calls[one].via = None
         /\ CtlPopped /\ Posted(held, Call(one, FALSE))
         /\ CallChanged(one, [calls[one] EXCEPT !.via = held])
    BY <1>1, CallPassedIs DEF HearCall
<1>3. live /\ naming = None /\ UNCHANGED <<entry, here, live, moves, runs>>
    BY DEF HearCall, CallPassed, Free
<1>4. Call(one, FALSE).kind = "call" /\ Call(one, FALSE).id = one /\ ~Call(one, FALSE).follow
    BY DEF Call
<1>5. Carries({Call(one, FALSE)}) /\ KeepsBut({})
    BY <1>1, <1>2, <1>3, PostCarries, PostKeeps
<1>6. \A k \in Maps : ArrivalIn(k) => ArrivalIn(k)'
    BY <1>5 DEF KeepsBut, ArrivalIn, Arrives
<1>7. \A id : Ran(id)' <=> Ran(id)
    BY <1>3 DEF Ran
<1>8. Len(calls') = Len(calls) /\ \A id \in 1..Len(calls) : id # one => calls'[id] = calls[id]
    BY <1>2 DEF CallChanged
<1>9. \A id \in 1..Len(calls) : id # one => FollowAt(id)'
    BY <1>2, <1>3, <1>4, <1>5, <1>6, <1>7, <1>8, FollowButOne
<1>10. calls[one] \in ACall /\ FollowAt(one) /\ Token(one) /\ Token(one)'
    <2>1. Token(one)'
        <3>1. (\A id : Token(id))'
            BY <1>1, TokensAre, PTL
        <3> QED BY <3>1
    <2> QED BY <1>1, <1>2, <2>1, ElementOfSeq, TokensAre DEF PostTypes, Follow
<1>11. calls'[one].to = calls[one].to /\ calls'[one].moves = calls[one].moves
       /\ calls'[one].live = calls[one].live
    BY <1>2, <1>10 DEF CallChanged, ACall
<1>12. PICK k \in Maps : k = held
    BY <1>1
<1>13. PICK i \in At(k)' : mail'[k][i] = Call(one, FALSE) /\ (Reached(k, i)' <=> Coming(k))
    <2>1. Put(k, Call(one, FALSE))
        BY <1>2, <1>12 DEF Posted
    <2>2. PICK i \in Nat : i = Len(mail[k]) + 1
        BY <2>1 DEF Put
    <2>3. i \in 1..Len(mail'[k]) /\ mail'[k][i] = Call(one, FALSE) /\ i \notin 1..Len(mail[k])
        <3>1. /\ Len(mail[k]) + 1 \in 1..Len(mail'[k]) /\ Len(mail[k]) + 1 \notin 1..Len(mail[k])
              /\ mail'[k][Len(mail[k]) + 1] = Call(one, FALSE)
            BY <2>1 DEF Put
        <3> QED BY <2>2, <3>1
    <2>4. Reached(k, i)' <=> Coming(k)
        BY <1>3, <2>1, <2>2, <2>3, PutCarried DEF At
    <2> QED BY <2>3, <2>4 DEF At
<1>14. NotDropped(one)'
    BY <1>4, <1>13 DEF NotDropped, CallAt
<1>15. QueueFollows(one)'
    <2>1. CallAt(k, i, one)'
        BY <1>4, <1>13 DEF CallAt
    <2>2. \A j \in 1..Len(ctl') : ~QueuedAt(j, one)'
        BY <1>10, <1>12, <1>13, <2>1 DEF Token
    <2> QED BY <2>2 DEF QueueFollows
<1>16. ASSUME Due(one)'
       PROVE  Nearby(one)' /\ MailFollows(one)'
    <2>1. Due(one) /\ Nearby(one) /\ QueueFollows(one)
        BY <1>3, <1>10, <1>11, <1>16 DEF Due, FollowAt
    <2>2. calls[one].moves < moves /\ ~OnQueue
        <3>1. 1 \in 1..Len(ctl) /\ \A j \in 1..Len(ctl) : j = 1 \/ j > 1
            BY <1>2 DEF CtlPopped
        <3>2. ~Passing(1)
            BY <1>2 DEF QueuedAt, Passing
        <3> QED BY <1>2, <2>1, <3>1, <3>2 DEF QueueFollows, OnQueue
    <2>3. Coming(held) /\ entry = held
        BY <1>1, <1>3, <2>2 DEF Routed
    <2>4. Nearby(one)'
        <3>1. entry # None /\ Coming(entry) => Coming(entry)'
            BY <1>1, <1>3, <1>6 DEF PostTypes, Somewhere, Coming
        <3>2. OnQueue' => OnQueue
            BY <1>2 DEF OnQueue, Passing, CtlPopped
        <3> QED BY <1>3, <1>11, <2>1, <3>1, <3>2 DEF Nearby, Due
    <2>5. MailFollows(one)'
        <3> SUFFICES ASSUME NEW o \in Maps, NEW j \in At(o)', CallAt(o, j, one)'
                     PROVE  ~mail'[o][j].follow /\ Reached(o, j)' /\ calls'[one].moves < moves'
            BY DEF MailFollows
        <3>1. o = k /\ j = i
            BY <1>4, <1>10, <1>13 DEF Token, CallAt
        <3>2. ~mail'[o][j].follow /\ Reached(o, j)'
            BY <1>4, <1>12, <1>13, <2>3, <3>1
        <3> QED BY <1>3, <1>11, <2>2, <3>2
    <2> QED BY <2>4, <2>5
<1>17. FollowAt(one)'
    BY <1>3, <1>10, <1>11, <1>14, <1>15, <1>16 DEF FollowAt
<1> QED BY <1>8, <1>9, <1>17 DEF Follow

(* and in hand in a map they are not in: sent on once more, to where they  *)
(* are or come to; and it isn't dropped there, or in another.              *)
LEMMA FollowCall ==
    ASSUME PInv, NEW m \in Maps, HandleCall(m)
    PROVE  Follow'
<1>1. PostTypes /\ Follow /\ OnePlace /\ Routed /\ moves \in Nat
    BY DEF PInv, PostTypes
<1>2. PICK one \in Nat :
         /\ CallAt(m, 1, one) /\ 1 \in At(m) /\ mail[m][1].follow \in BOOLEAN /\ CallEnds(m, one)
         /\ one \in 1..Len(calls) /\ calls[one].sent /\ ~Ran(one)
         /\ mail[m][1].follow => m = calls[one].to /\ calls[one].via = None
         /\ \A k \in Maps : \A j \in At(k) : CallAt(k, j, one) => k = m /\ j = 1
         /\ \A i \in 1..Len(ctl) : ~QueuedAt(i, one)
         /\ UNCHANGED <<here, calls, live, entry, moves>>
         /\ \E S \in {{}, {Call(one, FALSE)}} : Carries(S)
    BY CallInHand
<1>3. PICK S \in {{}, {Call(one, FALSE)}} : Carries(S)
    BY <1>2
<1>4. Call(one, FALSE).kind = "call" /\ Call(one, FALSE).id = one /\ ~Call(one, FALSE).follow
      /\ ToPlayer(one).kind = "toplayer" /\ ToPlayer(one).id = one
    BY DEF Call, ToPlayer
<1>5. KeepsBut({mail[m][1]}) /\ mail[m][1].kind = "call" /\ mail[m][1].id = one
    BY <1>2, PopKeeps, SentOnKeeps DEF CallEnds, CallAt
<1>6. \A k \in Maps : ArrivalIn(k) => ArrivalIn(k)'
    BY <1>5 DEF KeepsBut, ArrivalIn, Arrives
<1>7. \A id : Ran(id) => Ran(id)'
    <2>1. CASE runs' = runs
        BY <2>1 DEF Ran
    <2>2. CASE runs' = Append(runs, one)
        <3>1. /\ Len(runs) \in Nat /\ Len(runs') = Len(runs) + 1
              /\ \A i \in 1..Len(runs) : runs'[i] = runs[i]
            BY <1>1, <2>2, AppendProperties, LenProperties DEF PostTypes
        <3> QED BY <3>1 DEF Ran
    <2> QED BY <1>2, <2>1, <2>2 DEF CallEnds
<1>8. ctl' = ctl \/ CtlPosted(ToPlayer(one))
    BY <1>2 DEF CallEnds
<1>9. ASSUME NEW id \in 1..Len(calls), id # one
      PROVE  FollowAt(id)'
    <2>1. \A e \in S : e.kind # "arrive" /\ (e.kind = "call" => e.id = one)
        BY <1>4
    <2>2. \A e \in {mail[m][1]} : e.kind = "call" => e.id = one
        BY <1>5
    <2> QED BY <1>2, <1>3, <1>4, <1>5, <1>6, <1>7, <1>8, <1>9, <2>1, <2>2, FollowButOne
<1>10. FollowAt(one) /\ Token(one)' /\ calls[one].to \in Maps /\ calls[one].moves \in Int
    <2>1. (\A id : Token(id))'
        BY TokensCall, TokensAre, PTL
    <2>2. Token(one)'
        BY <2>1
    <2> QED BY <1>1, <1>2, <2>2, CallIs DEF Follow
<1>11. ASSUME Due(one)', m \notin here, mail[m][1].follow
       PROVE  calls[one].moves < moves /\ Nearby(one) /\ calls[one].to = m
    <2>1. Due(one) /\ calls[one].moves <= moves /\ Nearby(one)
        BY <1>2, <1>10, <1>11 DEF Due, FollowAt
    <2>2. calls[one].moves # moves
        BY <1>2, <1>11, <2>1 DEF Nearby
    <2> QED BY <1>1, <1>2, <1>10, <1>11, <2>1, <2>2
<1>12. Due(one)' => Nearby(one)'
    <2>1. Due(one)' => Due(one)
        BY <1>2 DEF Due
    <2>2. entry # None /\ Coming(entry) => Coming(entry)'
        BY <1>1, <1>2, <1>6 DEF PostTypes, Somewhere, Coming
    <2>3. OnQueue' => OnQueue
        <3>1. ToPlayer(one).id # one + 1
            BY <1>4
        <3> QED BY <1>4, <1>8, <3>1, QueueSame
    <2> QED BY <1>2, <1>10, <2>1, <2>2, <2>3 DEF FollowAt, Nearby, Due

<1>13. ASSUME runs' = Append(runs, one)
       PROVE  NotDropped(one)' /\ MailFollows(one)' /\ QueueFollows(one)'
    <2>1. Ran(one)'
        <3>1. /\ Len(runs) \in Nat /\ Len(runs') = Len(runs) + 1 /\ runs'[Len(runs) + 1] = one
            BY <1>1, <1>13, AppendProperties, LenProperties DEF PostTypes
        <3>2. Len(runs) + 1 \in 1..Len(runs')
            BY <3>1
        <3> QED BY <3>1, <3>2 DEF Ran
    <2> QED BY <1>10, <2>1 DEF NotDropped, MailFollows, QueueFollows, Token
<1>14. ASSUME m \notin here, ~mail[m][1].follow \/ entry = None \/ (entry = m /\ ~live)
       PROVE  ~Due(one)'
    <2> SUFFICES ASSUME Due(one)'
                 PROVE  FALSE
        OBVIOUS
    <2>1. Due(one) /\ MailFollows(one) /\ entry # None
        BY <1>2, <1>10 DEF Due, FollowAt
    <2>2. ~Reached(m, 1)
        BY <1>14 DEF Reached
    <2>3. mail[m][1].follow /\ \A j \in At(m) : j > 1 => ~Arrives(m, j)
        BY <1>2, <2>1, <2>2 DEF MailFollows
    <2>4. entry = m /\ ~live
        BY <1>14, <2>1, <2>3
    <2>5. PICK j \in At(m) : Arrives(m, j)
        BY <1>1, <1>14, <2>4 , <2>1 DEF Routed, Coming, ArrivalIn
    <2>6. j # 1
        BY <1>2, <2>5 DEF CallAt, Arrives
    <2>7. j > 1
        BY <2>6 DEF At
    <2> QED BY <2>3, <2>5, <2>7
<1>15. ASSUME m \notin here, mail[m][1].follow, CtlPosted(ToPlayer(one)), Due(one)'
       PROVE  NotDropped(one)' /\ MailFollows(one)' /\ QueueFollows(one)'
    <2>1. PICK n \in Nat : n = Len(ctl) + 1
        BY <1>15 DEF CtlPosted
    <2>2. /\ n \in 1..Len(ctl') /\ ctl'[n] = ToPlayer(one)
          /\ \A i \in 1..Len(ctl') : i \in 1..Len(ctl) \/ i = n
        <3>1. /\ Len(ctl) + 1 \in 1..Len(ctl') /\ ctl'[Len(ctl) + 1] = ToPlayer(one)
              /\ \A i \in 1..Len(ctl') : i \in 1..Len(ctl) \/ i = Len(ctl) + 1
            BY <1>15 DEF CtlPosted
        <3> QED BY <2>1, <3>1
    <2>3. QueuedAt(n, one)'
        BY <1>4, <2>2 DEF QueuedAt
    <2>4. \A i \in 1..Len(ctl') : QueuedAt(i, one)' => i = n
        BY <1>10, <2>2, <2>3 DEF Token
    <2>5. \A j \in 1..Len(ctl') : ~(j > n)
        BY <1>15, <2>1 DEF CtlPosted
    <2>6. QueueFollows(one)'
        BY <1>2, <1>11, <1>15, <2>4, <2>5 DEF QueueFollows
    <2>7. MailFollows(one)'
        BY <1>10, <2>2, <2>3 DEF MailFollows, Token
    <2> QED BY <2>2, <2>3, <2>6, <2>7 DEF NotDropped
<1>16. ASSUME m \notin here, mail[m][1].follow, entry \in Maps, SentOn(m, entry, Call(one, FALSE)), Due(one)'
       PROVE  NotDropped(one)' /\ MailFollows(one)' /\ QueueFollows(one)'
    <2>1. PICK k \in Maps : k = entry
        BY <1>16
    <2>2. k # m /\ Put(k, Call(one, FALSE))
        BY <1>16, <2>1 DEF SentOn
    <2>3. Coming(k) /\ calls[one].moves < moves
        BY <1>11, <1>16, <2>1, <2>2 DEF Nearby
    <2>4. PICK i \in Nat : i = Len(mail[k]) + 1
        BY <2>2 DEF Put
    <2>5. i \in 1..Len(mail'[k]) /\ mail'[k][i] = Call(one, FALSE) /\ i \notin 1..Len(mail[k])
        <3>1. /\ Len(mail[k]) + 1 \in 1..Len(mail'[k]) /\ Len(mail[k]) + 1 \notin 1..Len(mail[k])
              /\ mail'[k][Len(mail[k]) + 1] = Call(one, FALSE)
            BY <2>2 DEF Put
        <3> QED BY <2>4, <3>1
    <2>6. Reached(k, i)'
        BY <1>2, <2>2, <2>3, <2>4, <2>5, PutCarried DEF At
    <2>7. i \in At(k)' /\ CallAt(k, i, one)'
        BY <1>4, <2>5 DEF At, CallAt
    <2>8. \A o \in Maps : \A j \in At(o)' : CallAt(o, j, one)' => o = k /\ j = i
        BY <1>10, <2>7 DEF Token
    <2>9. MailFollows(one)'
        BY <1>2, <1>4, <2>3, <2>5, <2>6, <2>8 DEF MailFollows
    <2>10. QueueFollows(one)'
        BY <1>10, <2>7 DEF QueueFollows, Token
    <2> QED BY <2>7, <2>9, <2>10 DEF NotDropped
<1>17. Due(one)' => NotDropped(one)' /\ MailFollows(one)' /\ QueueFollows(one)'
    BY <1>2, <1>13, <1>14, <1>15, <1>16 DEF CallEnds
<1>18. FollowAt(one)'
    BY <1>2, <1>10, <1>12, <1>17 DEF FollowAt
<1> QED BY <1>2, <1>9, <1>18 DEF Follow

LEMMA FollowStep ==
    ASSUME PInv, [Next]_vars
    PROVE  Follow'
<1> USE DEF world, session, client, hist
<1>1. PostTypes /\ Numbers
    BY DEF PInv, Numbers
<1>2. ASSUME UNCHANGED <<moves, live, entry, here, ctl, calls, runs, mail>>
      PROVE  Follow'
    <2>1. Carries({}) /\ KeepsBut({})
        BY <1>2, SameCarries, SameKeeps
    <2>2. \A k \in Maps : ArrivalIn(k) => ArrivalIn(k)'
        BY <1>2 DEF ArrivalIn, Arrives, At
    <2> QED BY <1>2, <2>1, <2>2, FollowSame
<1>3. ASSUME NEW m \in Maps, Popped(m), mail[m][1].kind \in {"packet", "beat", "disconnect"},
             UNCHANGED <<moves, live, entry, here, ctl, calls, runs>>
      PROVE  Follow'
    <2>1. Carries({}) /\ KeepsBut({mail[m][1]})
        BY <1>3, PopCarries, PopKeeps DEF Arrives
    <2>2. \A k \in Maps : ArrivalIn(k) => ArrivalIn(k)'
        BY <1>3, <2>1 DEF KeepsBut, ArrivalIn, Arrives
    <2>3. \A e \in {mail[m][1]} : e.kind # "call"
        BY <1>3
    <2> QED BY <1>3, <2>1, <2>2, <2>3, FollowSame
<1>4. CASE \E f \in States : Heartbeat(f)
    BY <1>2, <1>4 DEF Heartbeat, Coalesced, InPlace, Marked, AsPacket
<1>5. CASE OtherPacket \/ UNCHANGED vars
    BY <1>2, <1>5 DEF OtherPacket, vars
<1>6. CASE SendToMap
    <2>1. Posted(held, hand) /\ held \in Maps /\ FromClient(hand)
        BY <1>1, <1>6, SendsHand DEF SendToMap, Numbers, InHand
    <2>2. UNCHANGED <<moves, live, entry, here, ctl, calls, runs>>
        BY <1>6 DEF SendToMap
    <2>3. Carries({hand}) /\ KeepsBut({}) /\ hand.kind # "call" /\ hand.kind # "arrive"
        BY <2>1, <2>2, PostCarries, PostKeeps DEF FromClient
    <2>4. \A k \in Maps : ArrivalIn(k) => ArrivalIn(k)'
        BY <2>3 DEF KeepsBut, ArrivalIn, Arrives
    <2> QED BY <2>2, <2>3, <2>4, FollowSame
<1>7. ASSUME NEW m \in Maps, HandlePacket(m) \/ HandleBeat(m)
      PROVE  Follow'
    <2>1. UNCHANGED <<moves, live, entry, here, ctl, calls, runs>>
        BY <1>7 DEF HandlePacket, HandleBeat
    <2> QED BY <1>3, <1>7, <2>1, NumbersPacket, NumbersBeat
<1>8. ASSUME NEW m \in Maps, HandleGone(m)
      PROVE  Follow'
    <2>1. Popped(m) /\ mail[m][1].kind = "disconnect"
        BY <1>1, <1>8, HeadIs DEF HandleGone
    <2> QED BY <1>3, <1>8, <2>1 DEF HandleGone
<1> QED BY <1>4, <1>5, <1>6, <1>7, <1>8, FollowPassOn, FollowNamed, FollowGone, FollowArrive,
           FollowTeleport, FollowReads, FollowSent, FollowHear, FollowCall DEF Next

-----------------------------------------------------------------------------
(* The theorems.                                                          *)
LEMMA Starts == ASSUME Init PROVE PInv
<1> USE DEF Init
<1>1. \A m \in Maps : mail[m] = <<>> /\ At(m) = {}
    BY DEF At
<1>2. /\ 1..Len(ctl) = {} /\ 1..Len(handled) = {} /\ 1..Len(runs) = {} /\ 1..Len(calls) = {}
      /\ 1..Len(packets) = {} /\ 1..Len(slots) = {}
    OBVIOUS
<1>3. entry # None /\ entry \in Maps
    BY PostAssumption
<1>4. PostTypes
    <2>1. mail \in [Maps -> Seq(Event)] /\ ctl \in Seq(Word) /\ slots \in Seq(Nat) /\ packets \in Seq(APacket)
          /\ calls \in Seq(ACall) /\ handled \in Seq(Nat) /\ runs \in Seq(Nat)
        OBVIOUS
    <2>2. beat \in [slot : Nat, to : Somewhere]
        BY DEF NoBeat, Somewhere
    <2>3. Len(slots) = 0 /\ Len(packets) = 0 /\ 0 <= MaxPackets
        BY PostAssumption
    <2>4. hand \in Event \cup {None} /\ naming \in Somewhere /\ entry \in Somewhere /\ missed = {}
        BY DEF Somewhere
    <2>5. /\ here \subseteq Maps /\ held \in Maps /\ lingering \in BOOLEAN /\ live \in BOOLEAN
          /\ beatLast \in BOOLEAN /\ heard \in Nat /\ moves \in Nat
        OBVIOUS
    <2> HIDE DEF Init
    <2> QED BY <2>1, <2>2, <2>3, <2>4, <2>5 DEF PostTypes
<1>5. ~OnQueue /\ \A m \in Maps : ~ArrivalIn(m)
    BY <1>1, <1>2 DEF OnQueue, ArrivalIn
<1>6. OnePlace /\ Routed
    <2>1. OnePlace
        BY <1>1, <1>2, <1>5 DEF OnePlace
    <2>2. Coming(held)
        BY DEF Coming
    <2>3. Routed
        BY <1>1, <1>2, <1>3, <1>5, <2>2 DEF Routed
    <2> QED BY <2>1, <2>3
<1>7. InMail /\ InHand /\ Ahead /\ Beats
    BY <1>1, <1>2 DEF InMail, InHand, Ahead, Beats, NoBeat
<1>8. Done
    <2>1. DOMAIN handled = {}
        OBVIOUS
    <2> QED BY <1>2, <2>1 DEF Done, InSentOrder
<1>9. Kept /\ Heard
    BY <1>1, <1>2, <1>5 DEF Kept, Heard, Moved, Found, Misses
<1>10. Tokens
    <2>1. DOMAIN runs = {}
        OBVIOUS
    <2> QED BY <1>1, <1>2, <2>1 DEF Tokens, IsInjective
<1>11. Behind /\ Follow
    BY <1>1, <1>2 DEF Behind, MailBehind, Follow
<1> QED BY <1>4, <1>6, <1>7, <1>8, <1>9, <1>10, <1>11 DEF PInv

(* Every state keeps the invariant: where the player is and what waits for *)
(* them, through other packets, calls and changes of map (map/mod.rs and   *)
(* session.rs: one mailbox a map, read in order).                          *)
THEOREM Inductive == Spec => []PInv
<1>1. Init => PInv
    BY Starts
<1>2. PInv /\ [Next]_vars => PInv'
    <2> SUFFICES ASSUME PInv, [Next]_vars
                 PROVE  PInv'
        OBVIOUS
    <2> QED BY TypeStep, PlaceStep, NumbersStep, KeptStep, HeardStep, TokensStep, BehindStep, FollowStep
            DEF PInv, Placed, Numbers
<1> QED BY <1>1, <1>2, PTL DEF Spec

(* A client's packets act on its player in the order sent, and none twice, *)
(* their heartbeats coalesced in the slot the session and the map share    *)
(* (Session::heartbeat, send_to_map, MapEvent::Heartbeat).                 *)
THEOREM InOrder == Spec => []InSentOrder
<1>1. PInv => InSentOrder
    BY DEF PInv, Done
<1> QED BY <1>1, Inductive, PTL

(* None of them goes ahead of a call the session put before it (the        *)
(* session's Control::ToPlayer, which clears beat_last).                   *)
THEOREM BehindItsCalls == Spec => []BehindCalls
<1>1. ASSUME PInv
      PROVE  BehindCalls
    <2> SUFFICES ASSUME NEW k \in DOMAIN handled, NEW id \in packets[handled[k]].after,
                        NEW m \in Maps, NEW i \in DOMAIN mail[m], mail[m][i] = Call(id, FALSE)
                 PROVE  FALSE
        BY DEF BehindCalls, Range
    <2>1. DOMAIN handled = 1..Len(handled) /\ DOMAIN mail[m] = At(m)
        BY <1>1, LenProperties DEF PInv, PostTypes, At
    <2>2. Passed(handled[k])
        BY <1>1, <2>1 DEF PInv, Behind
    <2>3. CallAt(m, i, id)
        BY DEF CallAt, Call
    <2> QED BY <2>1, <2>2, <2>3 DEF Passed
<1> QED BY <1>1, Inductive, PTL

(* None is skipped but one whose next says the same, and one misses its    *)
(* player only if they had left as it was sent (or it was a heartbeat).    *)
THEOREM NoneIsSkipped == Spec => []NoneSkipped
<1>1. ASSUME PInv
      PROVE  NoneSkipped
    <2>1. PostTypes /\ Kept /\ Misses /\ InHand /\ InMail
        BY <1>1 DEF PInv, Heard
    <2>2. /\ DOMAIN packets = 1..Len(packets) /\ DOMAIN handled = 1..Len(handled)
          /\ DOMAIN slots = 1..Len(slots)
        BY <2>1, LenProperties DEF PostTypes
    <2>3. \A m \in Maps : DOMAIN mail[m] = At(m) /\ \A i \in At(m) : mail[m][i] \in Event
        BY <2>1, LenProperties, ElementOfSeq DEF PostTypes, At
    <2>4. ASSUME NEW e \in Event, FromClient(e), IsOurs(e), Waits(e)
          PROVE  OnItsWay(Num(e))
        <3>1. CASE e.kind = "packet"
            <4>1. e = Packet(e.n)
                BY <2>4, <3>1 DEF Event, Packet, Arrival, Gone
            <4> QED BY <2>4, <3>1, <4>1 DEF OnItsWay, Num
        <3>2. CASE e.kind = "beat"
            <4>1. e = Marker(e.slot)
                BY <2>4, <3>2 DEF Event, Marker, Arrival, Gone
            <4>2. Num(e) = slots[e.slot] /\ e.slot \in DOMAIN slots
                BY <2>2, <2>4, <3>2 DEF Num, IsOurs
            <4> QED BY <2>4, <4>1, <4>2 DEF OnItsWay
        <3> QED BY <2>4, <3>1, <3>2 DEF FromClient
    <2>5. ASSUME NEW n \in 1..Len(packets), live
          PROVE  \/ n \in Range(handled) \cup Lost \/ OnItsWay(n)
                 \/ /\ n < Len(packets) /\ packets[n].beat /\ packets[n + 1].beat
                    /\ packets[n].flags = packets[n + 1].flags
        <3>1. CASE \E k \in 1..Len(handled) : handled[k] = n
            BY <2>2, <3>1 DEF Range
        <3>2. CASE \E x \in missed : x.n = n
            BY <3>2 DEF Lost
        <3>3. CASE hand # None /\ Num(hand) = n
            BY <2>1, <2>4, <3>3 DEF PostTypes, InHand, Waits
        <3>4. CASE \E m \in Maps : \E i \in At(m) : FromClient(mail[m][i]) /\ Num(mail[m][i]) = n
            <4>1. PICK m \in Maps : \E i \in At(m) : FromClient(mail[m][i]) /\ Num(mail[m][i]) = n
                BY <3>4
            <4>2. PICK i \in At(m) : FromClient(mail[m][i]) /\ Num(mail[m][i]) = n
                BY <4>1
            <4>3. mail[m][i] \in Event /\ IsOurs(mail[m][i]) /\ Waits(mail[m][i])
                BY <2>1, <2>3, <4>2 DEF InMail, Waits, Range
            <4> QED BY <2>4, <4>2, <4>3
        <3> QED BY <2>1, <2>5, <3>1, <3>2, <3>3, <3>4 DEF Kept
    <2> QED BY <2>1, <2>2, <2>5 DEF NoneSkipped, Misses
<1> QED BY <1>1, Inductive, PTL

(* A call is run once, and follows its player through a change of map,     *)
(* however it falls between their leaving, their session and their arrival *)
(* (call_player, after_player, Control::ToPlayer).                         *)
THEOREM CallsAreRun == Spec => []CallsFollow
<1>1. ASSUME PInv
      PROVE  CallsFollow
    <2>1. PostTypes /\ Tokens /\ Follow /\ IsInjective(runs) /\ moves \in Nat
        BY <1>1 DEF PInv, PostTypes, Tokens
    <2>2. ASSUME Quiet, NEW id \in DOMAIN calls, ~(moves >= calls[id].moves + 2),
                 calls[id].live = live, entry # None
          PROVE  id \in Range(runs)
        <3>1. id \in 1..Len(calls) /\ DOMAIN runs = 1..Len(runs)
            BY <2>1, LenProperties DEF PostTypes
        <3>2. calls[id].moves \in Int
            BY <2>1, <3>1, CallIs
        <3>3. Due(id)
            BY <2>1, <2>2, <3>2 DEF Due
        <3>4. calls[id].sent /\ 1..Len(ctl) = {} /\ \A m \in Maps : At(m) = {}
            BY <2>2 DEF Quiet, At
        <3>5. Ran(id)
            BY <2>1, <3>1, <3>3, <3>4 DEF Follow, FollowAt, NotDropped
        <3> QED BY <3>1, <3>5 DEF Ran, Range
    <2> QED BY <2>1, <2>2 DEF CallsFollow
<1> QED BY <1>1, Inductive, PTL
=============================================================================
