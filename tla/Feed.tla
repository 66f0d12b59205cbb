-------------------------------- MODULE Feed --------------------------------
(***************************************************************************)
(* What a client is sent (src/game/conn.rs): a queue of its own, that any  *)
(* thread puts frames in, and the chunks of broadcasts of the map it is    *)
(* on, published once for all the map's clients.  Its writer merges the    *)
(* two: an item of the queue carries the number of the last chunk its      *)
(* sender could see, and is written after the chunks up to that one.  A    *)
(* map's thread corks what it sends (a burst, an update) and pushes it at  *)
(* once, and before it hands a client, or word of one, to another task; a  *)
(* client that is to be told of an object is held, so that nothing naming  *)
(* the object goes ahead of its create; and the feeds' waker, a thread of  *)
(* its own, charges each client for its share of the chunks and wakes the  *)
(* writers that have one.  A chunk is linked behind the last first, which  *)
(* is where the waker finds it, and its number stored then, which is what  *)
(* the writers and the senders read.                                       *)
(*                                                                         *)
(* A frame is its number, and a byte long.  `sent`, `must`, `bySession`    *)
(* and `ahead` are histories: what each client was sent, what had been     *)
(* sent to it before each frame, which frames a session sent, and which    *)
(* chunks the waker walked before their number was stored.                 *)
(***************************************************************************)
EXTENDS Naturals, Sequences, FiniteSets, SequencesExt

CONSTANTS
    Maps,       \* the maps, each with its feed
    Clients,    \* the connections
    Indices,    \* the numbers a map gives its clients
    Nobody,     \* no client, no map, no feed
    Capacity,   \* a client's budget, in bytes
    MaxFrames,  \* bound: frames made
    MaxMoves,   \* bound: players put in a map, and connections gone
    MaxCorks,   \* bound: corks begun
    MaxHolds    \* bound: holds begun

Frames == 1..MaxFrames

ASSUME FeedAssumption ==
    /\ Nobody \notin Maps \cup Clients
    /\ Indices \subseteq Nat
    /\ Capacity \in Nat /\ MaxFrames \in Nat
    /\ MaxMoves \in Nat /\ MaxCorks \in Nat /\ MaxHolds \in Nat

VARIABLES
    out,       \* each client's OutboundInner and Shared, and its writer
    written,   \* what each client's writer wrote
    chain,     \* each feed's chunks with their number stored: `published`
               \* is how many
    subs,      \* each feed's readers, by index
    heldIdx,   \* each feed's held clients, by index
    signalled, \* each feed's waker has been told
    signals,   \* the feeds in the waker's channel
    waker,     \* what the waker is at
    wakerAt,   \* the last chunk of each feed the waker has walked
    table,     \* each map's ClientTable: whose each index is
    cork,      \* each map thread's cork, and the chunk it publishes
    pc, job,   \* where a map's thread is in a push, and what it is for
    inHand,    \* what a session has looked at the hold for, and not queued
    creates,   \* the create frame each held client waits for, or 0
    frames,    \* frames made
    moves,     \* players put in a map, and connections gone
    corks,     \* corks begun
    holds,     \* holds begun
    sent, must, bySession, ahead

feeds  == <<chain, subs, heldIdx, signalled>>
wakers == <<signals, waker, wakerAt, ahead>>
bounds == <<moves, corks, holds>>
maps   == <<table, cork, pc, job, bounds>>
hist   == <<sent, must, bySession, frames>>
vars   == <<out, written, chain, subs, heldIdx, signalled, signals, waker,
            wakerAt, table, cork, pc, job, inHand, creates, frames, moves, corks, holds,
            sent, must, bySession, ahead>>

-----------------------------------------------------------------------------
(* Chunks, items and accounts.                                            *)

(* Item::One and Corked, Sub and Unsub.                                   *)
Own(ns, stamp)    == [kind |-> "own", frames |-> ns, stamp |-> stamp]
Sub(f, i, n, acc) == [kind |-> "sub", feed |-> f, me |-> i, after |-> n, account |-> acc]
Unsub(n)          == [kind |-> "unsub", until |-> n]

published(f) == Len(chain[f])

(* The chunks as they are linked, the one whose number is yet to be stored *)
(* the last: it stays where it was kept until then (and a broadcast sent   *)
(* uncorked, alone there).                                                *)
Linked(f) ==
    IF pc[f] = "number"
    THEN Append(chain[f], [log |-> cork[f].log, directs |-> cork[f].directs])
    ELSE chain[f]

NoCork == [on |-> FALSE, log |-> <<>>, directs |-> <<>>, slots |-> [c \in Clients |-> <<>>]]
EmptyCork(f) == [cork[f] EXCEPT !.log = <<>>, !.directs = <<>>,
                                !.slots = [c \in Clients |-> <<>>]]

(* What client `me` reads of a chunk: what was sent to it alone before     *)
(* each broadcast, the broadcast if it is for it, and what was sent to it  *)
(* alone after the last (read_to).                                        *)
Share(chunk, me) ==
    LET alone(k) == FlattenSeq([i \in 1..Len(chunk.directs) |->
                        IF chunk.directs[i].me = me /\ chunk.directs[i].before = k
                        THEN <<[frame |-> chunk.directs[i].frame, own |-> TRUE]>> ELSE <<>>])
        all(k)   == IF k < Len(chunk.log) /\ me \in chunk.log[k + 1].to
                    THEN <<[frame |-> chunk.log[k + 1].frame, own |-> FALSE]>>
                    ELSE <<>>
    IN  FlattenSeq([j \in 1..(Len(chunk.log) + 1) |-> alone(j - 1) \o all(j - 1)])

(* The same of the chunks after the first up to the last.                 *)
ShareOf(chunks, me, first, last) ==
    FlattenSeq([j \in 1..(last - first) |-> Share(chunks[first + j], me)])

Bytes(s) == Cardinality({i \in 1..Len(s) : ~s[i].own})

Lag(o) ==
    IF o.sub.feed = Nobody THEN 0
    ELSE LET a == o.accounts[o.sub.account] IN IF a.due > a.done THEN a.due - a.done ELSE 0

NoJob == [do |-> "none", client |-> Nobody]
NoSub == [feed |-> Nobody, me |-> 0, account |-> 0]
NoReading == [feed |-> Nobody, me |-> 0, at |-> 0, account |-> 0]

Opened ==
    [closed |-> FALSE, queue |-> <<>>, sub |-> NoSub, holding |-> FALSE, held |-> <<>>,
     queued |-> 0, accounts |-> <<>>,
     at |-> "look", head |-> 0, reading |-> NoReading, batch |-> <<>>, ready |-> FALSE]

(* Shared::close: nothing more is queued or written, and what was is        *)
(* dropped.                                                               *)
Closed(o) == [Opened EXCEPT !.closed = TRUE]

Init ==
    /\ out = [c \in Clients |-> Opened]
    /\ written = [c \in Clients |-> <<>>]
    /\ chain = [f \in Maps |-> <<>>]
    /\ subs = [f \in Maps |-> [i \in Indices |-> [client |-> Nobody, after |-> 0, account |-> 0]]]
    /\ heldIdx = [f \in Maps |-> {}]
    /\ signalled = [f \in Maps |-> FALSE]
    /\ signals = <<>> /\ waker = [at |-> "recv", feed |-> Nobody, from |-> 0, to |-> 0]
    /\ wakerAt = [f \in Maps |-> 0]
    /\ table = [f \in Maps |-> [i \in Indices |-> Nobody]]
    /\ cork = [f \in Maps |-> NoCork]
    /\ pc = [f \in Maps |-> "run"] /\ job = [f \in Maps |-> NoJob]
    /\ inHand = [frame |-> 0, client |-> Nobody]
    /\ creates = [c \in Clients |-> 0]
    /\ frames = 0 /\ moves = 0 /\ corks = 0 /\ holds = 0
    /\ sent = [c \in Clients |-> {}]
    /\ must = [c \in Clients |-> [n \in Frames |-> {}]]
    /\ bySession = {} /\ ahead = [f \in Maps |-> {}]

-----------------------------------------------------------------------------
(* What a client has been sent.                                           *)

InMap(f, c) == \E i \in Indices : table[f][i] = c
Placed(c)   == \E f \in Maps : InMap(f, c)

(* What the cork of f keeps for the client c.                             *)
Corking(f, c) ==
    Range(cork[f].slots[c])
        \cup {d.frame : d \in {x \in Range(cork[f].directs) :
                                  out[c].sub.feed = f /\ x.me = out[c].sub.me}}
        \cup {b.frame : b \in {x \in Range(cork[f].log) :
                                  out[c].sub.feed = f /\ out[c].sub.me \in x.to}}

(* Sent to c for good, as the thread a (a map's, or Nobody: a session's)   *)
(* sees it: by itself, or by another thread and not in its cork or hand.   *)
(* What another map's client is held for goes ahead of what the thread's   *)
(* own cork keeps for it: HeldInOrder below fails, for this.               *)
Before(a, c) ==
    LET mine == {f \in Maps : f = a /\ (out[c].holding => InMap(f, c))}
    IN  sent[c] \ ({inHand.frame} \cup UNION {Corking(f, c) : f \in Maps \ mine})

(* The thread a sends the next frame to the clients C.                     *)
Sends(a, C) ==
    LET n == frames + 1
    IN  /\ frames' = n
        /\ bySession' = IF a = Nobody THEN bySession \cup {n} ELSE bySession
        /\ sent' = [c \in Clients |-> IF c \in C THEN sent[c] \cup {n} ELSE sent[c]]
        /\ must' = [c \in Clients |-> IF c \in C THEN [must[c] EXCEPT ![n] = Before(a, c)]
                                      ELSE must[c]]

-----------------------------------------------------------------------------
(* A client's queue.                                                      *)

(* The stamp: the last chunk of the feed the client reads, 0 for none.     *)
Stamp(o) == IF o.sub.feed = Nobody THEN 0 ELSE published(o.sub.feed)

(* enqueue, uncorked, of frames the budget has been taken for.            *)
Enqueued(o, ns) ==
    IF o.closed THEN o
    ELSE [o EXCEPT !.queue = @ \o [i \in 1..Len(ns) |-> Own(<<ns[i]>>, Stamp(o))]]

(* take_budget, and overflow when it isn't there.                         *)
InBudget(o) == o.queued + 1 + Lag(o) <= Capacity
Charged(o)  == IF InBudget(o) THEN [o EXCEPT !.queued = @ + 1] ELSE Closed(o)

(* mutant: what waits on a hold takes no budget.                          *)
KeptFree(o, n) == [o EXCEPT !.held = Append(@, n)]

(* send_frame to a client that is held.                                   *)
Kept(o, n) ==
    IF InBudget(o) THEN [o EXCEPT !.queued = @ + 1, !.held = Append(@, n)] ELSE Closed(o)

(* enqueue on the map f's thread: under its cork, what its feed's client   *)
(* is sent goes among the cork's broadcasts, another's in a slot (push).   *)
MapQueued(f, o, ns) == IF cork[f].on THEN o ELSE Enqueued(o, ns)
Corked(f, o, c, ns) ==
    IF ~cork[f].on \/ o.closed THEN cork[f]
    ELSE IF o.sub.feed = f
         THEN [cork[f] EXCEPT !.directs = @ \o [i \in 1..Len(ns) |->
                    [me |-> o.sub.me, before |-> Len(cork[f].log), frame |-> ns[i]]]]
         ELSE [cork[f] EXCEPT !.slots[c] = @ \o ns]

(* A map sends one client a frame (Outbound::send).                       *)
Direct(f, c) ==
    /\ pc[f] = "run" /\ frames < MaxFrames /\ ~out[c].closed
    /\ LET o == out[c]
           n == frames + 1
       IN  IF o.holding
           THEN /\ out' = [out EXCEPT ![c] = Kept(o, n)]
                /\ UNCHANGED cork
           ELSE /\ out'  = [out EXCEPT ![c] = MapQueued(f, Charged(o), <<n>>)]
                /\ cork' = [cork EXCEPT ![f] = Corked(f, Charged(o), c, <<n>>)]
    /\ Sends(f, {c})
    /\ UNCHANGED <<written, feeds, wakers, table, pc, job, bounds, inHand, creates>>

(* Outbound::send_frame from a session or a service: the hold looked at,   *)
(* then the frame queued.                                                 *)
SessionSend(c) ==
    /\ inHand.frame = 0 /\ frames < MaxFrames /\ ~out[c].closed
    /\ IF out[c].holding
       THEN /\ out' = [out EXCEPT ![c] = Kept(@, frames + 1)]
            /\ Sends(Nobody, {c})
            /\ UNCHANGED inHand
       ELSE /\ inHand' = [frame |-> frames + 1, client |-> c]
            /\ Sends(Nobody, {c})
            /\ UNCHANGED out
    /\ UNCHANGED <<written, feeds, wakers, maps, creates>>

SessionQueue ==
    /\ inHand.frame # 0
    /\ LET c == inHand.client
       IN  out' = [out EXCEPT ![c] = IF @.closed THEN @
                                     ELSE Enqueued(Charged(@), <<inHand.frame>>)]
    /\ inHand' = [frame |-> 0, client |-> Nobody]
    /\ UNCHANGED <<written, feeds, wakers, maps, creates, hist>>

(* Outbound::send_frame_unheld (a pong, a query's answer): past any hold,  *)
(* and so ahead of what is held.                                          *)
SessionUnheld(c) ==
    /\ inHand.frame = 0 /\ frames < MaxFrames /\ ~out[c].closed
    /\ out[c].holding
    /\ out' = [out EXCEPT ![c] = Enqueued(Charged(@), <<frames + 1>>)]
    /\ LET n == frames + 1
       IN  /\ frames' = n
           /\ sent'  = [sent EXCEPT ![c] = @ \cup {n}]
           /\ must'  = [must EXCEPT ![c][n] =
                            Before(Nobody, c) \ (Range(out[c].held) \cup {creates[c]})]
    /\ UNCHANGED <<written, feeds, wakers, maps, inHand, creates, bySession>>

-----------------------------------------------------------------------------
(* Broadcasts.                                                            *)

(* Feed::subscribe: another feed's chunks so far, then this one's.         *)
Subscribed(o, f, i) ==
    IF o.closed THEN o
    ELSE LET acc == Len(o.accounts) + 1
             old == IF o.sub.feed = Nobody THEN o.accounts
                    ELSE [o.accounts EXCEPT ![o.sub.account].open = FALSE]
         IN  [o EXCEPT !.queue = @ \o (IF o.sub.feed = Nobody THEN <<>> ELSE <<Unsub(Stamp(o))>>)
                                   \o <<Sub(f, i, published(f), acc)>>,
                       !.accounts = Append(old, [due |-> 0, done |-> 0, open |-> TRUE]),
                       !.sub = [feed |-> f, me |-> i, account |-> acc]]

(* Those the feed reaches for the first time.                             *)
New(f, to) == {i \in to : subs[f][i].client = Nobody}

(* conn::broadcast to the clients with the indices `to`: into the cork, or *)
(* linked at once.                                                        *)
Broadcast(f, to) ==
    /\ pc[f] = "run" /\ frames < MaxFrames
    /\ to # {} /\ \A i \in to : table[f][i] # Nobody
    /\ LET n      == frames + 1
           whose(i) == table[f][i]
           index(c) == CHOOSE i \in to : whose(i) = c
           C      == {whose(i) : i \in to}
           joined == [c \in C |-> IF index(c) \in New(f, to)
                                  THEN Subscribed(out[c], f, index(c)) ELSE out[c]]
           helds  == (heldIdx[f] \ New(f, to))
                         \cup {i \in New(f, to) : out[whose(i)].holding}
           rest   == to \ helds
       IN  /\ out' = [c \in Clients |->
                        IF c \notin C THEN out[c]
                        ELSE IF index(c) \in helds /\ joined[c].holding THEN Kept(joined[c], n)
                        ELSE joined[c]]
           /\ subs' = [subs EXCEPT ![f] = [i \in Indices |->
                        IF i \notin New(f, to) THEN @[i]
                        ELSE [client |-> whose(i), after |-> published(f),
                              account |-> joined[whose(i)].sub.account]]]
           /\ heldIdx' = [heldIdx EXCEPT ![f] = helds]
           /\ IF rest = {} THEN UNCHANGED <<cork, pc>>
              ELSE /\ cork' = [cork EXCEPT ![f].log = Append(@, [frame |-> n, to |-> rest])]
                   /\ pc' = [pc EXCEPT ![f] = IF cork[f].on THEN "run" ELSE "number"]
           /\ Sends(f, C)
    /\ UNCHANGED <<written, chain, signalled, wakers, table, job, bounds, inHand, creates>>

-----------------------------------------------------------------------------
(* A map's cork, and what it uncorks for.                                 *)

CorkOn(f) ==
    /\ pc[f] = "run" /\ ~cork[f].on
    /\ corks < MaxCorks /\ corks' = corks + 1
    /\ cork' = [cork EXCEPT ![f].on = TRUE]
    /\ UNCHANGED <<out, written, feeds, wakers, table, pc, job, moves, holds, inHand, creates, hist>>

(* What a client held is let go without its creates (Map::let_go).        *)
LetGo(o) == [o EXCEPT !.holding = FALSE, !.held = <<>>]

(* The map's thread uncorks: as its cork ends, before it tells a session   *)
(* something (a call's answer, an event for another map), or as a player   *)
(* leaves it (take_player, let go first).  push: each slot first, stamped  *)
(* as it is queued.                                                       *)
Push(f, j) ==
    /\ pc[f] = "run"
    /\ CASE j.do = "stay"  -> cork[f] # EmptyCork(f)
         [] j.do = "off"   -> cork[f].on
         [] j.do = "leave" -> InMap(f, j.client)
    /\ LET going(c) == c = j.client /\ out[c].holding
           k        == IF j.do = "leave" /\ going(j.client)
                       THEN Corked(f, out[j.client], j.client, out[j.client].held) ELSE cork[f]
           gone(c)  == IF going(c) THEN LetGo(MapQueued(f, out[c], out[c].held)) ELSE out[c]
       IN  /\ out' = [c \in Clients |->
                        IF k.slots[c] = <<>> \/ out[c].closed THEN gone(c)
                        ELSE [gone(c) EXCEPT !.queue = Append(@, Own(k.slots[c], Stamp(gone(c))))]]
           /\ cork' = [cork EXCEPT ![f] = [k EXCEPT !.slots = [c \in Clients |-> <<>>]]]
           /\ pc' = [pc EXCEPT ![f] = IF k.log = <<>> /\ k.directs = <<>> THEN "done" ELSE "publish"]
           /\ heldIdx' = [g \in Maps |-> heldIdx[g] \ {i \in Indices : j.client # Nobody /\ going(j.client)
                              /\ out[j.client].sub.feed = g /\ out[j.client].sub.me = i}]
           /\ IF j.client # Nobody /\ going(j.client)
              THEN /\ sent' = [sent EXCEPT ![j.client] = @ \ {creates[j.client]}]
                   /\ creates' = [creates EXCEPT ![j.client] = 0]
              ELSE UNCHANGED <<sent, creates>>
    /\ job' = [job EXCEPT ![f] = j]
    /\ UNCHANGED <<written, chain, subs, signalled, wakers, table, bounds, inHand,
                   frames, must, bySession>>

(* Feed::publish of what the cork kept: linked behind the last chunk ...   *)
PublishCork(f) ==
    /\ pc[f] = "publish"
    /\ pc' = [pc EXCEPT ![f] = "number"]
    /\ UNCHANGED <<out, written, feeds, wakers, table, cork, job, bounds, inHand, creates, hist>>

(* mutant: what was published stays in the cork.                          *)
NumberAgain(f) ==
    /\ pc[f] = "number"
    /\ chain' = [chain EXCEPT ![f] = Linked(f)]
    /\ pc' = [pc EXCEPT ![f] = "signal"]
    /\ UNCHANGED <<out, written, subs, heldIdx, signalled, wakers, table, cork, job, bounds,
                   inHand, creates, hist>>

(* ... then its number stored.                                            *)
Number(f) ==
    /\ pc[f] = "number"
    /\ chain' = [chain EXCEPT ![f] = Linked(f)]
    /\ cork' = [cork EXCEPT ![f] = EmptyCork(f)]
    /\ pc' = [pc EXCEPT ![f] = "signal"]
    /\ UNCHANGED <<out, written, subs, heldIdx, signalled, wakers, table, job, bounds,
                   inHand, creates, hist>>

(* mutant: the writer isn't told where its reading ends.                  *)
UnsubscribedSilently(o, f, i) ==
    IF o.closed \/ subs[f][i].client = Nobody THEN o
    ELSE IF o.sub.feed = f /\ o.sub.me = i
         THEN [o EXCEPT !.accounts[subs[f][i].account].open = FALSE, !.sub = NoSub]
         ELSE [o EXCEPT !.accounts[subs[f][i].account].open = FALSE]

(* Feed::unsubscribe.                                                     *)
Unsubscribed(o, f, i) ==
    IF o.closed \/ subs[f][i].client = Nobody THEN o
    ELSE IF o.sub.feed = f /\ o.sub.me = i
         THEN [o EXCEPT !.queue = Append(@, Unsub(published(f))),
                        !.accounts[subs[f][i].account].open = FALSE,
                        !.sub = NoSub]
         ELSE [o EXCEPT !.accounts[subs[f][i].account].open = FALSE]

NoReader == [client |-> Nobody, after |-> 0, account |-> 0]

(* The waker is told of a chunk, unless it has been and hasn't looked; and *)
(* what the map uncorked for: its cork ends, or the player's index is let  *)
(* go (ClientTable::release).                                             *)
Signal(f) ==
    /\ pc[f] \in {"signal", "done"}
    /\ IF pc[f] = "done" \/ signalled[f] THEN UNCHANGED <<signalled, signals>>
       ELSE /\ signalled' = [signalled EXCEPT ![f] = TRUE]
            /\ signals' = Append(signals, f)
    /\ pc' = [pc EXCEPT ![f] = "run"]
    /\ job' = [job EXCEPT ![f] = NoJob]
    /\ cork' = IF job[f].do = "off" THEN [cork EXCEPT ![f].on = FALSE] ELSE cork
    /\ IF job[f].do = "leave"
       THEN LET c == job[f].client
                i == CHOOSE x \in Indices : table[f][x] = c
            IN  /\ table' = [table EXCEPT ![f][i] = Nobody]
                /\ out' = [out EXCEPT ![c] = Unsubscribed(@, f, i)]
                /\ subs' = [subs EXCEPT ![f][i] = NoReader]
                /\ heldIdx' = [heldIdx EXCEPT ![f] = @ \ {i}]
       ELSE UNCHANGED <<out, subs, heldIdx, table>>
    /\ UNCHANGED <<written, chain, waker, wakerAt, ahead, bounds, inHand, creates, hist>>

(* A player's arrival, from their session: an event of its own, uncorked.  *)
(* Their index is one free.                                               *)
Arrive(f, c) ==
    /\ pc[f] = "run" /\ ~cork[f].on
    /\ ~Placed(c) /\ ~out[c].closed
    /\ moves < MaxMoves /\ moves' = moves + 1
    /\ \E i \in Indices :
          /\ table[f][i] = Nobody /\ \A j \in Indices : table[f][j] = Nobody => i <= j
          /\ table' = [table EXCEPT ![f][i] = c]
    /\ UNCHANGED <<out, written, feeds, wakers, cork, pc, job, corks, holds, inHand, creates, hist>>

(* Another connection takes the player over: theirs is closed, and the     *)
(* feed reads for it no more (ClientTable::renew).                        *)
TakeOver(f, i, c) ==
    /\ pc[f] = "run" /\ ~cork[f].on
    /\ table[f][i] # Nobody /\ ~Placed(c) /\ ~out[c].closed
    /\ moves < MaxMoves /\ moves' = moves + 1
    /\ out' = [out EXCEPT ![table[f][i]] = Closed(@)]
    /\ table' = [table EXCEPT ![f][i] = c]
    /\ subs' = [subs EXCEPT ![f][i] = NoReader]
    /\ heldIdx' = [heldIdx EXCEPT ![f] = @ \ {i}]
    /\ UNCHANGED <<written, chain, signalled, wakers, cork, pc, job, corks, holds, inHand, creates, hist>>

(* Outbound::hold: the client is to be told of an object; its create has   *)
(* its place from now.                                                    *)
Hold(f, c) ==
    /\ pc[f] = "run" /\ InMap(f, c) /\ ~out[c].closed /\ ~out[c].holding
    /\ frames < MaxFrames
    /\ holds < MaxHolds /\ holds' = holds + 1
    /\ out' = [out EXCEPT ![c].holding = TRUE]
    /\ heldIdx' = [g \in Maps |-> IF out[c].sub.feed = g THEN heldIdx[g] \cup {out[c].sub.me}
                                  ELSE heldIdx[g]]
    /\ creates' = [creates EXCEPT ![c] = frames + 1]
    /\ Sends(f, {c})
    /\ UNCHANGED <<written, chain, subs, signalled, wakers, table, cork, pc, job, moves, corks, inHand>>

(* mutant: the create behind what waited for it.                          *)
ReleasedBehind(c) == Append(out[c].held, creates[c])

(* What a release puts in the queue.                                      *)
Released(c) == <<creates[c]>> \o out[c].held

(* Outbound::release: the create, then what waited for it.  A client       *)
(* nothing waited for has its creates in the update's batch.              *)
Release(f, c) ==
    /\ pc[f] = "run" /\ InMap(f, c) /\ out[c].holding
    /\ LET o  == Charged(out[c])
           ns == Released(c)
       IN  IF out[c].held = <<>>
           THEN /\ out' = [out EXCEPT ![c] = LetGo(@)]
                /\ sent' = [sent EXCEPT ![c] = @ \ {creates[c]}]
                /\ UNCHANGED cork
           ELSE /\ out' = [out EXCEPT ![c] = IF o.closed THEN o ELSE LetGo(MapQueued(f, o, ns))]
                /\ cork' = [cork EXCEPT ![f] = Corked(f, o, c, ns)]
                /\ UNCHANGED sent
    /\ creates' = [creates EXCEPT ![c] = 0]
    /\ heldIdx' = [g \in Maps |-> IF out[c].sub.feed = g THEN heldIdx[g] \ {out[c].sub.me}
                                  ELSE heldIdx[g]]
    /\ UNCHANGED <<written, chain, subs, signalled, wakers, table, pc, job, bounds, inHand,
                   frames, must, bySession>>

(* The connection goes: the client, or a write that takes too long.       *)
Disconnect(c) ==
    /\ ~out[c].closed
    /\ moves < MaxMoves /\ moves' = moves + 1
    /\ out' = [out EXCEPT ![c] = Closed(@)]
    /\ UNCHANGED <<written, feeds, wakers, table, cork, pc, job, corks, holds, inHand, creates, hist>>

-----------------------------------------------------------------------------
(* The waker.                                                             *)

WakerRecv ==
    /\ waker.at = "recv" /\ signals # <<>>
    /\ signalled' = [signalled EXCEPT ![Head(signals)] = FALSE]
    /\ signals' = Tail(signals)
    /\ waker' = [at |-> "walk", feed |-> Head(signals), from |-> 0, to |-> 0]
    /\ UNCHANGED <<out, written, chain, subs, heldIdx, wakerAt, ahead, maps, inHand, creates, hist>>

(* Feed::wake: the chunks linked since the last ...                       *)
WakerWalk ==
    /\ waker.at = "walk"
    /\ LET f  == waker.feed
           to == Len(Linked(f))
       IN  /\ wakerAt' = [wakerAt EXCEPT ![f] = to]
           /\ waker' = [at |-> "charge", feed |-> f, from |-> wakerAt[f], to |-> to]
           /\ ahead' = [ahead EXCEPT ![f] = @ \cup (published(f) + 1)..to]
    /\ UNCHANGED <<out, written, feeds, signals, maps, inHand, creates, hist>>

(* mutants: charged for all the chunks walked; only broadcasts wake.      *)
WokenForAll(o, f, i, r) ==
    LET due == Bytes(ShareOf(Linked(f), i, waker.from, waker.to))
        a   == o.accounts[r.account]
        lag == IF a.due + due > a.done THEN a.due + due - a.done ELSE 0
    IN  IF o.closed \/ ~a.open \/ ShareOf(Linked(f), i, waker.from, waker.to) = <<>> THEN o
        ELSE IF due > 0 /\ o.queued + lag > Capacity THEN Closed(o)
        ELSE [o EXCEPT !.accounts[r.account].due = @ + due, !.ready = TRUE]

WokenByBroadcasts(o, f, i, r) ==
    LET due == Bytes(ShareOf(Linked(f), i, IF r.after > waker.from THEN r.after ELSE waker.from,
                             IF r.after > waker.to THEN r.after ELSE waker.to))
        a   == o.accounts[r.account]
        lag == IF a.due + due > a.done THEN a.due + due - a.done ELSE 0
    IN  IF o.closed \/ ~a.open \/ due = 0 THEN o
        ELSE IF o.queued + lag > Capacity THEN Closed(o)
        ELSE [o EXCEPT !.accounts[r.account].due = @ + due, !.ready = TRUE]

(* ... then those they reach, charged and woken: for the chunks after the  *)
(* one they read after.                                                   *)
Woken(o, f, i, r) ==
    LET due == Bytes(ShareOf(Linked(f), i, IF r.after > waker.from THEN r.after ELSE waker.from,
                             IF r.after > waker.to THEN r.after ELSE waker.to))
        a   == o.accounts[r.account]
        lag == IF a.due + due > a.done THEN a.due + due - a.done ELSE 0
    IN  IF o.closed \/ ~a.open \/ ShareOf(Linked(f), i, waker.from, waker.to) = <<>> THEN o
        ELSE IF due > 0 /\ o.queued + lag > Capacity THEN Closed(o)
        ELSE [o EXCEPT !.accounts[r.account].due = @ + due, !.ready = TRUE]

WakerCharge ==
    /\ waker.at = "charge"
    /\ LET f == waker.feed
           mine(c) == {i \in Indices : subs[f][i].client = c}
       IN  out' = [c \in Clients |->
                     IF out[c].closed \/ mine(c) = {} THEN out[c]
                     ELSE LET i == CHOOSE x \in mine(c) : TRUE IN Woken(out[c], f, i, subs[f][i])]
    /\ waker' = [at |-> "recv", feed |-> Nobody, from |-> 0, to |-> 0]
    /\ UNCHANGED <<written, feeds, signals, wakerAt, ahead, maps, inHand, creates, hist>>

-----------------------------------------------------------------------------
(* A client's writer (run_writer, Frames).                                *)

(* read_to: the feed's chunks up to the target.                           *)
ReadTo(o, target) ==
    LET r == o.reading
        s == ShareOf(chain[r.feed], r.me, r.at, target)
    IN  IF r.feed = Nobody \/ target <= r.at THEN o
        ELSE [o EXCEPT !.batch = @ \o s, !.reading.at = target,
                       !.accounts[r.account].done = @ + Bytes(s)]

(* fill: once there is an item, or the waker's word, the feed's last chunk *)
(* is looked at first ...                                                 *)
Look(c) ==
    LET o == out[c]
    IN  /\ ~o.closed
        /\ o.at = "look" \/ (o.at = "wait" /\ (o.queue # <<>> \/ o.ready))
        /\ out' = [out EXCEPT ![c] = [o EXCEPT !.at = "drain",
                       !.ready = o.ready /\ ~(o.at = "wait" /\ o.queue = <<>>),
                       !.head = IF o.reading.feed = Nobody THEN 0 ELSE published(o.reading.feed)]]
    /\ UNCHANGED <<written, feeds, wakers, maps, inHand, creates, hist>>

(* ... then the queue drained, an item at a time (take): another feed, or  *)
(* none, and its last chunk is looked at again.                           *)
Taken(o, item) ==
    CASE item.kind = "own" ->
            LET s == ReadTo(o, item.stamp)
            IN  [s EXCEPT !.batch = @ \o [i \in 1..Len(item.frames) |->
                                            [frame |-> item.frames[i], own |-> TRUE]]]
      [] item.kind = "sub" ->
            [o EXCEPT !.reading = [feed |-> item.feed, me |-> item.me, at |-> item.after,
                                   account |-> item.account],
                      !.at = "look", !.head = 0]
      [] item.kind = "unsub" ->
            [ReadTo(o, item.until) EXCEPT !.reading = NoReading, !.at = "look", !.head = 0]

Take(c) ==
    /\ ~out[c].closed /\ out[c].at = "drain" /\ out[c].queue # <<>>
    /\ LET o == out[c]
       IN  out' = [out EXCEPT ![c] = Taken([o EXCEPT !.queue = Tail(@)], Head(o.queue))]
    /\ UNCHANGED <<written, feeds, wakers, maps, inHand, creates, hist>>

(* mutant: the broadcasts' bytes too.                                     *)
GivenBackAll(batch) == Len(batch)

(* What a write gives back to the budget: what was the queue's.           *)
GivenBack(batch) == Len(batch) - Bytes(batch)

(* ... then the chunks up to the one looked at; and what there is goes in  *)
(* one write.                                                             *)
Write(c) ==
    /\ ~out[c].closed /\ out[c].at = "drain" /\ out[c].queue = <<>>
    /\ LET o == ReadTo(out[c], out[c].head)
       IN  IF o.batch = <<>>
           THEN out' = [out EXCEPT ![c] = [@ EXCEPT !.at = "wait", !.head = 0]] /\ UNCHANGED written
           ELSE /\ written' = [written EXCEPT ![c] = @ \o [i \in 1..Len(o.batch) |-> o.batch[i].frame]]
                /\ out' = [out EXCEPT ![c] = [o EXCEPT !.batch = <<>>, !.at = "look", !.head = 0,
                                !.queued = @ - GivenBack(o.batch)]]
    /\ UNCHANGED <<feeds, wakers, maps, inHand, creates, hist>>

Jobs == {[do |-> d, client |-> Nobody] : d \in {"stay", "off"}}
            \cup {[do |-> "leave", client |-> c] : c \in Clients}

Next ==
    \/ \E f \in Maps :
          \/ \E c \in Clients : Direct(f, c) \/ Arrive(f, c) \/ Hold(f, c) \/ Release(f, c)
          \/ \E to \in SUBSET Indices : Broadcast(f, to)
          \/ \E i \in Indices, c \in Clients : TakeOver(f, i, c)
          \/ \E j \in Jobs : Push(f, j)
          \/ CorkOn(f) \/ PublishCork(f) \/ Number(f) \/ Signal(f)
    \/ \E c \in Clients : SessionSend(c) \/ SessionUnheld(c) \/ Disconnect(c)
    \/ SessionQueue
    \/ WakerRecv \/ WakerWalk \/ WakerCharge
    \/ \E c \in Clients : Look(c) \/ Take(c) \/ Write(c)

Spec == Init /\ [][Next]_vars

-----------------------------------------------------------------------------

(* What a client is written is in the order it was sent, corked or not, in *)
(* a chunk or in the queue, across a change of map: each frame after all    *)
(* that its sender had sent it before, and all that the others had by then  *)
(* put where it is read from, its queue or a chunk with its number stored.  *)
(* What is in another thread's cork or hand as a frame is sent is not       *)
(* before it; nor, for what a session sends, is what sessions sent the      *)
(* client while it was held and a release put in the map's cork: of that    *)
(* HeldInOrder speaks.  What is released is behind the create it waited for. *)
MergedInOrder ==
    \A c \in Clients : \A p \in 1..Len(written[c]) :
        must[c][written[c][p]] \cap sent[c] \subseteq {written[c][q] : q \in 1..(p - 1)}

(* ... once each, and only what was sent to it: an index given to another  *)
(* client gets it nothing of what its former client was sent.             *)
OnceEach ==
    \A c \in Clients :
        /\ IsInjective(written[c])
        /\ Range(written[c]) \subseteq sent[c]

(* The queue and the chunks are "merged in the order sent" (conn.rs:1029),  *)
(* and what is sent a client held "waits, in the order it was sent" (1407):  *)
(* so what sessions send it is written as they sent it.  It fails: what     *)
(* they sent a client held is released into the map's cork, if it is on,    *)
(* and what they send next, uncorked, is queued ahead of it.              *)
HeldInOrder ==
    \A c \in Clients : \A p, q \in 1..Len(written[c]) :
        p < q /\ {written[c][p], written[c][q]} \subseteq bySession
            => written[c][p] < written[c][q]

(* Nothing is under way for a client.                                     *)
Quiet(c) ==
    /\ ~out[c].closed /\ out[c].at = "wait" /\ out[c].queue = <<>> /\ ~out[c].ready
    /\ ~out[c].holding /\ inHand.frame = 0
    /\ \A f \in Maps : pc[f] = "run" /\ cork[f] = [EmptyCork(f) EXCEPT !.on = cork[f].on]
    /\ signals = <<>> /\ waker.at = "recv"

(* ... and none is lost: a client whose writer waits with nothing on its   *)
(* way has been written all it was sent: the waker "wakes the writers that *)
(* have one" (conn.rs:228).  It fails: the waker may walk a chunk that is   *)
(* linked and has no number yet (376, 377), and the writer it wakes for it *)
(* reads the number before, and waits; told of the chunk again (380), the  *)
(* waker finds it walked.  The chunk waits for the next thing the client   *)
(* is sent.                                                               *)
NothingLost == \A c \in Clients : Quiet(c) => sent[c] \subseteq Range(written[c])

(* The frames for a client in the chunks its writer has yet to read, if the *)
(* waker walked those before their number was stored.                     *)
Overtaken(o) ==
    LET r == o.reading
    IN  UNION {{b.frame : b \in Range(ShareOf(chain[r.feed], r.me, k - 1, k))} :
                  k \in {x \in ahead[r.feed] : r.at < x /\ x <= published(r.feed)}}

(* So that is all that can be late, and the next thing the client is sent  *)
(* brings it: with nothing on its way, a client has been written all it was *)
(* sent, but for chunks its feed's reading has yet to get to and the waker *)
(* had overtaken.  No other wakeup is missed, whatever the order of the    *)
(* publishing, the waker and the writer.                                  *)
OnlyOvertaken ==
    \A c \in Clients : Quiet(c) =>
        sent[c] \subseteq Range(written[c])
            \cup (IF out[c].reading.feed = Nobody THEN {} ELSE Overtaken(out[c]))

(* All that waits for a client's writer, in the order it would take it.   *)
Rest(o) ==
    LET d == FoldLeft(Taken, o, o.queue)
    IN  IF d.reading.feed = Nobody THEN d.batch
        ELSE ReadTo(d, published(d.reading.feed)).batch

(* What waits in a map's cork for the client alone.                       *)
InCork(f, c) ==
    Len(cork[f].slots[c])
        + Cardinality({i \in 1..Len(cork[f].directs) :
                          out[c].sub.feed = f /\ cork[f].directs[i].me = out[c].sub.me})

(* An open client's budget is charged for what was sent to it alone and    *)
(* not written, wherever that waits (its queue, a hold, a cork, a chunk),  *)
(* and for nothing else: so a client that reads is never disconnected for  *)
(* what it has taken, nor one that doesn't kept.                           *)
BudgetIsWhatWaits ==
    \A c \in Clients : ~out[c].closed =>
        LET rest == Rest(out[c])
            corked == FoldSet(LAMBDA f, n : n + InCork(f, c), 0, Maps)
        IN  out[c].queued = (Len(rest) - Bytes(rest)) + Len(out[c].held) + corked

(* ... and the broadcasts it has yet to read: what its account is due is   *)
(* what the waker has walked of its share, and what is done what its       *)
(* writer has read of it.                                                 *)
LagIsWhatIsUnread ==
    \A c \in Clients : ~out[c].closed /\ out[c].sub.feed # Nobody =>
        LET o == out[c]
            f == o.sub.feed
            r == subs[f][o.sub.me]
            a == o.accounts[o.sub.account]
            walked == IF waker.at = "charge" /\ waker.feed = f THEN waker.from ELSE wakerAt[f]
            share(n) == Bytes(ShareOf(Linked(f), o.sub.me, r.after, IF n > r.after THEN n ELSE r.after))
        IN  /\ r.client = c /\ r.account = o.sub.account /\ a.open
            /\ a.due = share(walked)
            /\ a.done = IF o.reading.account = o.sub.account THEN share(o.reading.at) ELSE 0

TypeOK ==
    /\ \A c \in Clients :
          /\ out[c].closed \in BOOLEAN /\ out[c].holding \in BOOLEAN /\ out[c].ready \in BOOLEAN
          /\ out[c].held \in Seq(Frames) /\ out[c].queued \in Nat
          /\ out[c].at \in {"look", "drain", "wait"} /\ out[c].head \in Nat
          /\ out[c].sub.feed \in Maps \cup {Nobody} /\ out[c].sub.me \in Nat
          /\ out[c].sub.account \in 0..Len(out[c].accounts)
          /\ out[c].reading.feed \in Maps \cup {Nobody}
          /\ out[c].reading.account \in 0..Len(out[c].accounts)
    /\ written \in [Clients -> Seq(Frames)]
    /\ heldIdx \in [Maps -> SUBSET Indices] /\ signalled \in [Maps -> BOOLEAN]
    /\ signals \in Seq(Maps) /\ wakerAt \in [Maps -> Nat]
    /\ waker.at \in {"recv", "walk", "charge"}
    /\ table \in [Maps -> [Indices -> Clients \cup {Nobody}]]
    /\ subs \in [Maps -> [Indices -> [client : Clients \cup {Nobody}, after : Nat, account : Nat]]]
    /\ pc \in [Maps -> {"run", "publish", "number", "signal", "done"}]
    /\ inHand \in [frame : Nat, client : Clients \cup {Nobody}]
    /\ creates \in [Clients -> Nat] /\ frames \in Nat
    /\ moves \in Nat /\ corks \in Nat /\ holds \in Nat
    /\ sent \in [Clients -> SUBSET Frames]
    /\ bySession \subseteq Frames

=============================================================================
