-------------------------------- MODULE Post --------------------------------
(***************************************************************************)
(* What is sent to a player who goes from map to map: their client's       *)
(* packets and heartbeats, by way of their session, and what services ask  *)
(* of them (call_player), by way of the map the online list names.  A map  *)
(* reads one mailbox; the session reads its client and its control queue   *)
(* in any order.  A client's newest heartbeat takes the place of the one   *)
(* still waiting in the slot the session and the map share, if nothing was *)
(* sent after that; a call that doesn't find the player goes after them.   *)
(*                                                                         *)
(* One player, in the world throughout or, their client gone, until their  *)
(* linger ends.  `packets` is what the client sent, numbered; `handled`,   *)
(* `missed` and `runs` are histories: what reached the map the player was  *)
(* in, what reached one they were not in, and the calls run.               *)
(***************************************************************************)
EXTENDS Naturals, Sequences, FiniteSets, SequencesExt

CONSTANTS
    Maps,        \* the maps
    None,        \* no map, nothing
    States,      \* a mover's states, as a heartbeat's flags tell them
    Share,       \* a session's share of its map's mailbox
    MaxPackets,  \* bound: packets the client sends
    MaxCalls,    \* bound: calls services make
    MaxMoves     \* bound: teleports to another map

VARIABLES
    entry,     \* the map the player's online entry names
    here,      \* the maps that have the player
    mail,      \* each map's mailbox
    lingering, \* the player's client has gone, as their map knows
    live,      \* the session
    held,      \* the map the session routes to
    ctl,       \* the session's control queue
    hand,      \* the event the session has in hand, until its share has room
    naming,    \* the map an arrival was sent to, not yet named by the entry
    heard,     \* the transfers the session has passed on and routes by
    beat,      \* the slot of the last heartbeat sent, and to which map
    beatLast,  \* nothing was sent to the map after that heartbeat
    slots,     \* what waits in each slot, or 0
    packets,   \* the packets the client sent
    calls,     \* the calls made, and what the player had done by then
    moves,     \* teleports so far
    handled, missed, runs

world   == <<entry, here, lingering, moves>>
session == <<live, held, hand, naming, heard, beat, beatLast>>
client  == <<slots, packets>>
hist    == <<handled, missed, runs>>
vars    == <<entry, here, mail, lingering, live, held, ctl, hand, naming, heard,
             beat, beatLast, slots, packets, calls, moves, handled, missed, runs>>

-----------------------------------------------------------------------------
(* MapEvent: Packet, Heartbeat, Arrive, Disconnect and Call; and Control.  *)
Packet(n)      == [kind |-> "packet", n |-> n]
Marker(s)      == [kind |-> "beat", slot |-> s]
Arrival        == [kind |-> "arrive"]
Gone           == [kind |-> "disconnect"]
Call(id, flw)  == [kind |-> "call", id |-> id, follow |-> flw]
Transfer(to)   == [kind |-> "transfer", to |-> to]
ToPlayer(id)   == [kind |-> "toplayer", id |-> id]

ASSUME PostAssumption ==
    /\ None \notin Maps
    /\ \A n \in 0..MaxPackets : None # Packet(n) /\ None # Marker(n)
    /\ Share \in Nat \ {0}
    /\ MaxPackets \in Nat /\ MaxCalls \in Nat /\ MaxMoves \in Nat

FromClient(e) == e.kind \in {"packet", "beat"}
NoBeat        == [slot |-> 0, to |-> None]

Post(m, e)  == mail' = [mail EXCEPT ![m] = Append(@, e)]
Count(m)    == Len(SelectSeq(mail[m], FromClient))
InMailboxes == FoldSet(LAMBDA m, n : n + Count(m), 0, Maps)

Init ==
    /\ entry \in Maps
    /\ here = {entry} /\ held = entry
    /\ mail = [m \in Maps |-> <<>>]
    /\ lingering = FALSE /\ live = TRUE
    /\ ctl = <<>> /\ hand = None /\ naming = None /\ heard = 0
    /\ beat = NoBeat /\ beatLast = FALSE /\ slots = <<>>
    /\ packets = <<>> /\ calls = <<>> /\ moves = 0
    /\ handled = <<>> /\ missed = {} /\ runs = <<>>

-----------------------------------------------------------------------------
(* The session.                                                           *)

Free == live /\ hand = None /\ naming = None

(* The client's next packet is read: a heartbeat, or another.              *)
Sent(isBeat, flags) ==
    /\ Len(packets) < MaxPackets
    /\ packets' = Append(packets,
          [beat |-> isBeat, flags |-> flags, heard |-> heard,
           after |-> {id \in DOMAIN calls : calls[id].via = held}])

Waiting(s) == slots[s] # 0

(* Session::heartbeat.  In the place of the one that waits, the two the    *)
(* same of the mover's state and nothing sent in between ...               *)
InPlace(flags) ==
    /\ Free /\ Sent(TRUE, flags)
    /\ beat.to = held /\ Waiting(beat.slot)
    /\ slots' = [slots EXCEPT ![beat.slot] = Len(packets')]
    /\ UNCHANGED <<world, mail, session, ctl, calls, hist>>

SameState(flags) == packets[slots[beat.slot]].flags = flags

(* Mutants: with other packets behind it; of another state.                *)
CoalescedBehind(flags)   == InPlace(flags) /\ SameState(flags)
CoalescedAnyState(flags) == InPlace(flags) /\ beatLast
Coalesced(flags)         == InPlace(flags) /\ beatLast /\ SameState(flags)

(* ... in the slot, emptied, or a new one, and its marker goes to the map  *)
(* once there is room ...                                                 *)
Marked(flags) ==
    /\ Free /\ Sent(TRUE, flags)
    /\ IF beat.to = held
       THEN /\ ~Waiting(beat.slot)
            /\ slots' = [slots EXCEPT ![beat.slot] = Len(packets')]
            /\ UNCHANGED beat
       ELSE /\ slots' = Append(slots, Len(packets'))
            /\ beat' = [slot |-> Len(slots'), to |-> held]
    /\ hand' = Marker(beat'.slot)
    /\ UNCHANGED <<world, mail, live, held, naming, heard, beatLast, ctl, calls, hist>>

(* ... or, with one waiting behind other packets or of another state,      *)
(* behind them as a packet.                                               *)
AsPacket(flags) ==
    /\ Free /\ Sent(TRUE, flags)
    /\ beat.to = held /\ Waiting(beat.slot)
    /\ beatLast => ~SameState(flags)
    /\ hand' = Packet(Len(packets'))
    /\ UNCHANGED <<world, mail, live, held, naming, heard, beat, beatLast, ctl, slots, calls, hist>>

Heartbeat(flags) == Coalesced(flags) \/ Marked(flags) \/ AsPacket(flags)

(* Any other packet.                                                      *)
OtherPacket ==
    /\ Free /\ Sent(FALSE, None)
    /\ hand' = Packet(Len(packets'))
    /\ UNCHANGED <<world, mail, live, held, naming, heard, beat, beatLast, ctl, slots, calls, hist>>

(* send_to_map, with room in the session's share.                          *)
SendToMap ==
    /\ live /\ hand # None /\ InMailboxes < Share
    /\ Post(held, hand)
    /\ beatLast' = (hand.kind = "beat")
    /\ beat' = IF hand.kind = "beat" THEN [beat EXCEPT !.to = held] ELSE beat
    /\ hand' = None
    /\ UNCHANGED <<world, live, held, naming, heard, ctl, client, calls, hist>>

(* Control::Transfer: the arrival is sent (deliver) ...                    *)
PassOn ==
    /\ Free /\ ctl # <<>> /\ Head(ctl).kind = "transfer"
    /\ Post(Head(ctl).to, Arrival)
    /\ naming' = Head(ctl).to /\ ctl' = Tail(ctl)
    /\ UNCHANGED <<world, live, held, hand, heard, beat, beatLast, client, calls, hist>>

(* ... then named by the entry, and the session's to route to.             *)
Named ==
    /\ naming # None
    /\ entry' = naming /\ held' = naming /\ naming' = None
    /\ heard' = heard + 1
    /\ UNCHANGED <<here, mail, lingering, moves, live, ctl, hand, beat, beatLast,
                   client, calls, hist>>

(* Control::ToPlayer: the call goes behind the player (mutant: the next    *)
(* heartbeat may go ahead of it).                                          *)
CallPassed ==
    /\ Free /\ ctl # <<>> /\ Head(ctl).kind = "toplayer"
    /\ Post(held, Call(Head(ctl).id, FALSE))
    /\ ctl' = Tail(ctl)
    /\ calls' = [calls EXCEPT ![Head(ctl).id].via = held]
    /\ UNCHANGED <<world, live, held, hand, naming, heard, beat, client, hist>>

HearCallUnmarked == CallPassed /\ UNCHANGED beatLast
HearCall         == CallPassed /\ beatLast' = FALSE

(* The client goes (Session::drop): the player, if on the queue, is passed *)
(* on, the calls behind them are not; and their map is told.              *)
ClientGoes ==
    /\ live /\ naming = None
    /\ live' = FALSE /\ hand' = None /\ ctl' = <<>>
    /\ LET passed == {c.to : c \in {w \in ToSet(ctl) : w.kind = "transfer"}}
           to     == IF passed = {} THEN held ELSE CHOOSE m \in passed : TRUE
       IN  /\ mail' = [mail EXCEPT ![to] =
                          @ \o IF passed = {} THEN <<Gone>> ELSE <<Arrival, Gone>>]
           /\ entry' = IF passed = {} THEN entry ELSE to
           /\ held' = to
    /\ UNCHANGED <<here, lingering, moves, naming, heard, beat, beatLast, client, calls, hist>>

-----------------------------------------------------------------------------
(* A map.                                                                 *)

Heads(m, kind) == mail[m] # <<>> /\ Head(mail[m]).kind = kind
Handled(n, m) ==
    IF m \in here THEN handled' = Append(handled, n) /\ UNCHANGED missed
    ELSE missed' = missed \cup {[n |-> n, moves |-> moves]} /\ UNCHANGED handled

HandlePacket(m) ==
    /\ Heads(m, "packet")
    /\ Handled(Head(mail[m]).n, m)
    /\ mail' = [mail EXCEPT ![m] = Tail(@)]
    /\ UNCHANGED <<world, session, ctl, client, calls, runs>>

(* The slot is emptied, whoever it is from.                               *)
HandleBeat(m) ==
    /\ Heads(m, "beat")
    /\ LET s == Head(mail[m]).slot
       IN  /\ IF Waiting(s) THEN Handled(slots[s], m) ELSE UNCHANGED <<handled, missed>>
           /\ slots' = [slots EXCEPT ![s] = 0]
    /\ mail' = [mail EXCEPT ![m] = Tail(@)]
    /\ UNCHANGED <<world, session, ctl, packets, calls, runs>>

HandleArrive(m) ==
    /\ Heads(m, "arrive")
    /\ here' = here \cup {m} /\ entry' = m
    /\ mail' = [mail EXCEPT ![m] = Tail(@)]
    /\ UNCHANGED <<lingering, moves, session, ctl, client, calls, hist>>

HandleGone(m) ==
    /\ Heads(m, "disconnect")
    /\ lingering' = (lingering \/ m \in here)
    /\ mail' = [mail EXCEPT ![m] = Tail(@)]
    /\ UNCHANGED <<entry, here, moves, session, ctl, client, calls, hist>>

(* after_player: run here, or sent on after them: to the map the entry     *)
(* names, or, that being this one still, behind them on their session's    *)
(* queue.  Sent on once, it is not sent on again.                          *)
Follows(m) == m \notin here /\ Head(mail[m]).follow /\ entry # None

CallDealt(m, toTheirMap, behindThem) ==
    /\ Heads(m, "call")
    /\ LET id   == Head(mail[m]).id
           rest == [mail EXCEPT ![m] = Tail(@)]
       IN  /\ runs' = IF m \in here THEN Append(runs, id) ELSE runs
           /\ mail' = IF toTheirMap
                      THEN [rest EXCEPT ![entry] = Append(@, Call(id, FALSE))] ELSE rest
           /\ ctl' = IF behindThem /\ live THEN Append(ctl, ToPlayer(id)) ELSE ctl
    /\ UNCHANGED <<world, session, client, calls, handled, missed>>

(* Mutant: dropped, with the player on their way.                          *)
HandleCallDropped(m)  == CallDealt(m, Follows(m) /\ entry # m, FALSE)
HandleCall(m)         == CallDealt(m, Follows(m) /\ entry # m, Follows(m) /\ entry = m)

(* Map::teleport_with: taken out, and handed to their session (transfer),  *)
(* or, it gone, sent on by this map.                                      *)
Teleport(m, to) ==
    /\ m \in here /\ to # m
    /\ moves < MaxMoves /\ moves' = moves + 1
    /\ here' = here \ {m}
    /\ IF live
       THEN ctl' = Append(ctl, Transfer(to)) /\ UNCHANGED <<mail, entry>>
       ELSE /\ mail' = [mail EXCEPT ![to] = @ \o <<Arrival, Gone>>]
            /\ entry' = to
            /\ UNCHANGED ctl
    /\ UNCHANGED <<lingering, session, client, calls, hist>>

(* Their linger ends: saved, and off the online list.                     *)
Leaves(m) ==
    /\ m \in here /\ lingering
    /\ here' = here \ {m} /\ entry' = None
    /\ UNCHANGED <<mail, lingering, moves, session, ctl, client, calls, hist>>

-----------------------------------------------------------------------------
(* A service's call (call_player): the map the entry names is read, then   *)
(* the call sent there.                                                   *)
CallReads ==
    /\ entry # None /\ Len(calls) < MaxCalls
    /\ calls' = Append(calls, [to |-> entry, sent |-> FALSE, via |-> None, live |-> live,
                              moves |-> IF here = {} THEN moves - 1 ELSE moves])
    /\ UNCHANGED <<world, mail, session, ctl, client, hist>>

CallSent(id) ==
    /\ ~calls[id].sent
    /\ calls' = [calls EXCEPT ![id].sent = TRUE]
    /\ Post(calls[id].to, Call(id, TRUE))
    /\ UNCHANGED <<world, session, ctl, client, hist>>

Next ==
    \/ \E f \in States : Heartbeat(f)
    \/ OtherPacket \/ SendToMap \/ PassOn \/ Named \/ HearCall \/ ClientGoes
    \/ \E m \in Maps :
          \/ HandlePacket(m) \/ HandleBeat(m) \/ HandleArrive(m) \/ HandleGone(m)
          \/ HandleCall(m) \/ Leaves(m)
          \/ \E to \in Maps : Teleport(m, to)
    \/ CallReads \/ \E id \in DOMAIN calls : CallSent(id)

Spec == Init /\ [][Next]_vars

-----------------------------------------------------------------------------

(* A client's packets act on its player in the order sent, and none twice: *)
(* a heartbeat in the slot never goes ahead of what was sent before it,    *)
(* through other packets, calls and changes of map.                       *)
InSentOrder == \A i, j \in DOMAIN handled : i < j => handled[i] < handled[j]

(* ... nor ahead of a call the session put behind it: what their client    *)
(* sent after that finds it run, or gone by.                              *)
BehindCalls ==
    \A n \in Range(handled) : \A id \in packets[n].after :
        \A m \in Maps : Call(id, FALSE) \notin Range(mail[m])

(* Where a packet waits: in the session's hand or a mailbox, or in a slot  *)
(* whose marker does.                                                     *)
Waits(e)   == e = hand \/ \E m \in Maps : e \in Range(mail[m])
Lost       == {x.n : x \in missed}
OnItsWay(n) == Waits(Packet(n)) \/ \E s \in DOMAIN slots : slots[s] = n /\ Waits(Marker(s))

(* ... and none is dropped but a heartbeat whose next took its place, one  *)
(* that says the same of the mover's state and was sent next of all; and   *)
(* what was in hand as the client went.  One misses its player only if     *)
(* they had left for a map their session had not passed them on to as it   *)
(* sent it (a heartbeat may be ahead of their arrival there).              *)
NoneSkipped ==
    /\ live => \A n \in DOMAIN packets :
          \/ n \in Range(handled) \cup Lost \/ OnItsWay(n)
          \/ /\ n < Len(packets) /\ packets[n].beat /\ packets[n + 1].beat
             /\ packets[n].flags = packets[n + 1].flags
    /\ \A x \in missed : packets[x.n].beat \/ packets[x.n].heard < x.moves

(* "Whether the last thing sent to the map was that heartbeat: only then   *)
(* may the next take its place" (session.rs:104): so no heartbeat of a     *)
(* player goes ahead of their own arrival, and is lost.  It fails, and no  *)
(* run checks it: passing an arrival on leaves beat_last as it was.        *)
BeatsHadLeft == \A x \in missed : packets[x.n].heard < x.moves

Quiet ==
    /\ \A m \in Maps : mail[m] = <<>>
    /\ ctl = <<>> /\ naming = None /\ \A id \in DOMAIN calls : calls[id].sent

(* A call is run once, and follows a player through a change of map,       *)
(* however it falls between their leaving, their session and their         *)
(* arrival: with nothing on its way, it has been run, or they have changed *)
(* maps twice since it was made (one they were at then counted), or their  *)
(* client or they have gone since.                                         *)
CallsFollow ==
    /\ IsInjective(runs)
    /\ Quiet => \A id \in DOMAIN calls :
          \/ id \in Range(runs)
          \/ moves >= calls[id].moves + 2
          \/ calls[id].live # live \/ entry = None

(* "Run `f` on the map that has the player `g`, if they are online,        *)
(* wherever they are" (map/mod.rs:1242).  It fails, and no run checks it:  *)
(* a call is sent on after them once.                                      *)
CallsReach == Quiet => \A id \in DOMAIN calls : id \in Range(runs) \/ entry = None

(* Types and bounds: a session's share of the mailboxes is never           *)
(* exceeded, and the player is in one map at most.                         *)
TypeOK ==
    /\ entry \in Maps \cup {None} /\ here \subseteq Maps /\ Cardinality(here) <= 1
    /\ held \in Maps /\ naming \in Maps \cup {None}
    /\ lingering \in BOOLEAN /\ live \in BOOLEAN /\ beatLast \in BOOLEAN
    /\ \A s \in DOMAIN slots : slots[s] \in 0..Len(packets)
    /\ beat.slot \in 0..Len(slots) /\ beat.to \in Maps \cup {None}
    /\ InMailboxes <= Share
    /\ moves \in Nat
    /\ Range(handled) \cup Lost \subseteq DOMAIN packets
    /\ Range(runs) \subseteq DOMAIN calls
    /\ \A m \in Maps : \A i \in DOMAIN mail[m] :
          mail[m][i].kind \in {"packet", "beat", "arrive", "disconnect", "call"}

=============================================================================
