------------------------------- MODULE World -------------------------------
(***************************************************************************)
(* Who has the player.  The sessions of one account, the online list and   *)
(* the map actors hand its characters about: a login reads the saved row   *)
(* and sends it to a map, a teleport hands the player back to the session, *)
(* which passes them on to the next map, a second connection replaces the  *)
(* first and takes the player over where they are, a client that goes      *)
(* leaves them lingering, a copy that stops hands on who was coming in,    *)
(* and a shutdown saves everyone, those between maps too.                  *)
(* (src/game/session.rs, registry.rs, map/mod.rs, map/login.rs)            *)
(*                                                                         *)
(* An action is what one task does between two points where another can    *)
(* see or change what it works on: a map handles one event, a session one  *)
(* packet or word.  Saves and loads go through the store in order (module  *)
(* Store), so a load sees every save sent before it: `saved`.  What a      *)
(* player has done is a version, `latest` the newest there ever was.       *)
(***************************************************************************)
EXTENDS Naturals, Sequences, FiniteSets

CONSTANTS
    Chars,        \* the account's characters
    Sessions,     \* the account's connections, each made once
    Copies,       \* maps with copies, which unload and are reset
    Worlds,       \* maps that run until the shutdown
    None, No,     \* nobody, nothing; a query's no
    HasLinger,    \* whether [world] disconnect_linger is above zero
    CanShutdown,  \* whether the server may shut down
    CanReset,     \* whether copies may be reset
    MaxStarts,    \* bound: actors started for a copy; a world's has one
    MaxVersion,   \* bound: a player's progress
    MaxLogins,    \* bound: logins a session asks for
    MaxMail,      \* bound: events waiting at a map when a client sends one
    MaxKicks,     \* bound: kicks and bans
    MaxMoves      \* bound: teleports to another map, kicks and bans together

Keys    == Copies \cup Worlds
Starts(k) == IF k \in Copies THEN MaxStarts ELSE 1
Handles == {h \in Keys \X (1..MaxStarts) : h[2] <= Starts(h[1])}

ASSUME WorldAssumption ==
    /\ Copies \cap Worlds = {}
    /\ {None, No} \cap (Chars \cup Sessions \cup Handles) = {} /\ None # No
    /\ \A c \in Chars, s \in Sessions, n \in 0..MaxLogins : None # [g |-> c, sess |-> s, n |-> n]
    /\ HasLinger \in BOOLEAN /\ CanShutdown \in BOOLEAN /\ CanReset \in BOOLEAN
    /\ MaxStarts \in Nat \ {0} /\ MaxVersion \in Nat /\ MaxLogins \in Nat
    /\ MaxKicks \in Nat /\ MaxMail \in Nat /\ MaxMoves \in Nat

VARIABLES
    \* Maps: those running, by key
    closed,    \* the server is shutting down
    cur,       \* the actor a key names, 0 for none
    made,      \* actors started for a key so far
    mst,       \* each actor: unborn, running, stopping, handing, letting, standin, gone
    expired,   \* the copy went with its raid's reset, and waits to be empty
    reset,     \* a copy's reset: none, decided (its stop to come), done
    \* the map actors
    mq,        \* mailboxes
    players,   \* the players in each map
    leaving,   \* a player saved and out, about to go offline
    next,      \* hand_on: the actor started in a stopped one's place
    handed,    \* hand_on: who it was handed
    \* Registry
    online,    \* the account's entry in the online list
    omap,      \* the map a session's entry names
    current,   \* the account's session
    \* the sessions
    phase,     \* where each session's task is
    state,     \* its State
    goal,      \* the character it logs in, or has
    handle,    \* the map it routes packets to
    row,       \* the row it loaded
    existing,  \* the entry its login found: the session it is of
    waits,     \* the session it replaced
    reply,     \* the answer to its take-over
    ctl,       \* its control queue
    passing,   \* the player it is passing on, and the map it got for them
    kicked,    \* ended by the server
    logins,    \* logins asked for
    \* the store and history
    saved,     \* each character's row, as saved last
    latest,    \* history: each character's newest version
    kicks,     \* kicks so far
    moves,     \* teleports so far
    races      \* history: of the races below, those that were lost

mapsV  == <<closed, cur, made, mst, expired, reset>>
actorV == <<mq, players, leaving, next, handed>>
regV   == <<online, omap, current>>
sessV  == <<phase, state, goal, handle, row, existing, waits, reply, ctl,
            passing, kicked, logins>>
dataV  == <<saved, latest, kicks, moves, races>>
vars   == <<mapsV, actorV, regV, sessV, dataV>>

(* An entry of the online list (Online): a login's, the n-th of its session. *)
Entry  == [g : Chars, sess : Sessions, n : Nat]
Player == [on : Entry, ver : Nat, linger : BOOLEAN, logout : Sessions \cup {None}]

ASSUME NobodyAssumption == None \notin Player \cup [p : Player, to : Handles]

Event == [op : {"arrive"}, kind : {"login", "transfer"}, p : Player]
    \cup [op : {"logout", "disconnect", "leave", "linger"}, g : Chars, sess : Sessions]
    \cup [op : {"takeover"}, old : Entry, new : Entry] \cup [op : {"reap"}, e : Entry]
    \cup [op : {"handedon"}, g : Chars]
    \cup [op : {"stop", "shutdown"}]

Word == [op : {"transfer"}, p : Player, to : Keys]
    \cup [op : {"handedon"}, g : Chars, map : Handles]
    \cup [op : {"loggedout", "kick", "takenover", "replaced"}]

TypeOK ==
    /\ closed \in BOOLEAN
    /\ cur \in [Keys -> 0..MaxStarts] /\ made \in [Keys -> 0..MaxStarts]
    /\ mst \in [Handles -> {"unborn", "running", "stopping", "handing",
                           "letting", "standin", "gone"}]
    /\ expired \in [Copies -> BOOLEAN]
    /\ reset \in [Copies -> {"none", "decided", "done"}]
    /\ mq \in [Handles -> Seq(Event)]
    /\ players \in [Handles -> [Chars -> Player \cup {None}]]
    /\ leaving \in [Handles -> [g : Chars, sess : Sessions, told : BOOLEAN] \cup {None}]
    /\ next \in [Handles -> Handles \cup {None}]
    /\ handed \in [Handles -> SUBSET Chars]
    /\ online \in Entry \cup {None}
    /\ omap \in [Sessions -> Handles \cup {None}]
    /\ current \in Sessions \cup {None}
    /\ phase \in [Sessions -> {"new", "waiting", "serving", "login", "loading",
                               "arriving", "asking", "ending", "releasing", "gone"}]
    /\ state \in [Sessions -> {"Screen", "InWorld", "Left"}]
    /\ goal \in [Sessions -> Chars \cup {None}]
    /\ handle \in [Sessions -> Handles \cup {None}]
    /\ row \in [Sessions -> Nat]
    /\ existing \in [Sessions -> Entry \cup {None}]
    /\ waits \in [Sessions -> Sessions \cup {None}]
    /\ reply \in [Sessions -> Handles \cup {None, No}]
    /\ ctl \in [Sessions -> Seq(Word)]
    /\ passing \in [Sessions -> [p : Player, to : Handles] \cup {None}]
    /\ kicked \in [Sessions -> BOOLEAN]
    /\ logins \in [Sessions -> Nat] /\ kicks \in Nat /\ moves \in Nat
    /\ saved \in [Chars -> Nat] /\ latest \in [Chars -> Nat]
    /\ races \subseteq {"reap", "handon", "turn"}

Init ==
    /\ closed = FALSE
    /\ cur = [k \in Keys |-> 0] /\ made = cur
    /\ mst = [h \in Handles |-> "unborn"]
    /\ expired = [k \in Copies |-> FALSE]
    /\ reset = [k \in Copies |-> "none"]
    /\ mq = [h \in Handles |-> <<>>]
    /\ players = [h \in Handles |-> [c \in Chars |-> None]]
    /\ leaving = [h \in Handles |-> None]
    /\ next = [h \in Handles |-> None]
    /\ handed = [h \in Handles |-> {}]
    /\ online = None /\ current = None
    /\ omap = [s \in Sessions |-> None]
    /\ phase = [s \in Sessions |-> "new"]
    /\ state = [s \in Sessions |-> "Screen"]
    /\ goal = omap /\ handle = omap /\ existing = omap /\ waits = omap /\ reply = omap
    /\ passing = omap
    /\ row = [s \in Sessions |-> 0] /\ logins = row
    /\ ctl = [s \in Sessions |-> <<>>]
    /\ kicked = [s \in Sessions |-> FALSE]
    /\ saved = [c \in Chars |-> 0] /\ latest = saved /\ kicks = 0 /\ moves = 0
    /\ races = {}

-----------------------------------------------------------------------------
(* Mailboxes and handles.                                                 *)

(* What is sent to the map arrives: its receiver isn't closed or dropped.  *)
Open(h) == h # None /\ mst[h] \in {"running", "stopping", "standin"}
Put(boxes, h, e) == [boxes EXCEPT ![h] = Append(@, e)]

(* A session's receiver is closed as its Drop begins.                     *)
Hears(s) == phase[s] \notin {"ending", "releasing", "gone"}
Tell(words, s, w) == IF Hears(s) THEN [words EXCEPT ![s] = Append(@, w)] ELSE words

(* registry.go_offline(g): the entry of the character, whosever.          *)
Offline(g) == IF online # None /\ online.g = g THEN None ELSE online

(* Maps::get: the actor the key names, or one started in its place; once   *)
(* the server shuts down, a stand-in that lets go whoever comes.           *)
Runs(k)   == cur[k] # 0 /\ Open(<<k, cur[k]>>)
Target(k) == IF Runs(k) THEN <<k, cur[k]>> ELSE <<k, made[k] + 1>>
GetMapRunning(k) ==  \* mutant: a map started after the shutdown is no stand-in
    IF Runs(k) THEN UNCHANGED <<cur, made, mst>>
    ELSE /\ made[k] < Starts(k)
         /\ made' = [made EXCEPT ![k] = @ + 1]
         /\ cur'  = [cur EXCEPT ![k] = made[k] + 1]
         /\ mst'  = [mst EXCEPT ![<<k, made[k] + 1>>] = "running"]
GetMap(k) ==
    IF Runs(k) THEN UNCHANGED <<cur, made, mst>>
    ELSE /\ made[k] < Starts(k)
         /\ made' = [made EXCEPT ![k] = @ + 1]
         /\ cur'  = [cur EXCEPT ![k] = made[k] + 1]
         /\ mst'  = [mst EXCEPT ![<<k, made[k] + 1>>] =
                        IF closed THEN "standin" ELSE "running"]

(* Whoever goes to a copy is let in only before its reset.                 *)
LetIn(k) == k \in Copies => reset[k] = "none"
ExpiredCopy(k) == k \in Copies /\ expired[k]

(* deliver: a player between maps to the one at h, or, that one stopped,   *)
(* to the one started in its place; into a copy that expired they are let  *)
(* go, one from the world saved.  `boxes` and `words` are the queues    *)
(* without what brought them here.                                         *)
LetsGo(h) == ~Open(h) /\ ~closed /\ ExpiredCopy(h[1])
TakenBy(h) == IF Open(h) THEN h ELSE IF LetsGo(h) THEN None ELSE Target(h[1])
LetGoUnsaved(a, words) ==  \* mutant: let go without their save
    /\ online' = Offline(a.p.on.g)
    /\ ctl'    = Tell(words, a.p.on.sess, [op |-> "kick"])
    /\ UNCHANGED saved
LetGo(a, words) ==
    /\ saved'  = IF a.kind = "transfer" THEN [saved EXCEPT ![a.p.on.g] = a.p.ver] ELSE saved
    /\ online' = Offline(a.p.on.g)
    /\ ctl'    = Tell(words, a.p.on.sess, [op |-> "kick"])
Deliver(a, h, boxes, words) ==
    IF LetsGo(h)
    THEN /\ LetGo(a, words)
         /\ mq' = boxes
         /\ UNCHANGED <<cur, made, mst, omap>>
    ELSE /\ IF Open(h) THEN UNCHANGED <<cur, made, mst>> ELSE GetMap(h[1])
         /\ mq' = Put(boxes, TakenBy(h), a)
         /\ omap' = [omap EXCEPT ![a.p.on.sess] = TakenBy(h)]
         /\ ctl' = words
         /\ UNCHANGED <<saved, online>>
Transferred(p) == [op |-> "arrive", kind |-> "transfer", p |-> p]

(* Queries among events dropped: their askers hear no answer.             *)
Unanswered(events) ==
    [s \in Sessions |-> IF \E i \in 1..Len(events) :
                              events[i].op = "takeover" /\ events[i].new.sess = s
                        THEN No ELSE reply[s]]

(* A session's player waits in a map's queue; in one that is closed, they   *)
(* are to be handed on.                                                    *)
ComesTo(s, h) == \E i \in 1..Len(mq[h]) : mq[h][i].op = "arrive" /\ mq[h][i].p.on.sess = s
ToHandOn(s) == \E h \in Handles : ~Open(h) /\ ComesTo(s, h)

(* The races the code leaves open, each written down in `races` by the step *)
(* that loses it and read by none:                                         *)
(*   "reap"    a reap is sent for a player who is between maps, or waits in *)
(*             a mailbox as they leave for another map, and won't find them *)
(*   "handon"  a player who is to be handed on is taken off the online list *)
(*   "turn"    a session ends before the one it waited for, and the next    *)
(*             begins                                                      *)
Lost(race, when) == races' = IF when THEN races \cup {race} ELSE races

-----------------------------------------------------------------------------
(* A session's coming and going (run, serve, Drop).                       *)

(* run: the account's session from now; the one it replaces is let go, and *)
(* waited for.                                                            *)
Connect(s) ==
    /\ phase[s] = "new"
    /\ current' = s
    /\ waits' = [waits EXCEPT ![s] = current]
    /\ phase' = [phase EXCEPT ![s] = IF current = None THEN "serving" ELSE "waiting"]
    /\ ctl' = IF current = None THEN ctl ELSE Tell(ctl, current, [op |-> "replaced"])
    /\ UNCHANGED <<mapsV, actorV, online, omap, state, goal, handle, row, existing,
                   reply, passing, kicked, logins, dataV>>

BeginAtOnce(s) ==  \* mutant: without waiting for the session replaced
    /\ phase[s] = "waiting"
    /\ waits' = [waits EXCEPT ![s] = None]
    /\ phase' = [phase EXCEPT ![s] = "serving"]
    /\ UNCHANGED <<mapsV, actorV, regV, state, goal, handle, row, existing,
                   reply, ctl, passing, kicked, logins, dataV>>
(* The session replaced has ended: its receiver is closed.                *)
Begin(s) ==
    /\ phase[s] = "waiting" /\ ~Hears(waits[s])
    /\ waits' = [waits EXCEPT ![s] = None]
    /\ phase' = [phase EXCEPT ![s] = "serving"]
    /\ UNCHANGED <<mapsV, actorV, regV, state, goal, handle, row, existing,
                   reply, ctl, passing, kicked, logins, dataV>>

(* A session ends: its Drop begins by closing its control queue.          *)
Ends(s, byServer) ==
    /\ phase' = [phase EXCEPT ![s] = "ending"]
    /\ kicked' = [kicked EXCEPT ![s] = @ \/ byServer]

(* Replaced or kicked in turn before it began, or its wait is over.       *)
QuitsTurn(s) == Lost("turn", phase[s] = "waiting" /\ Hears(waits[s]))
WaitHeard(s) ==
    /\ phase[s] = "waiting" /\ ctl[s] # <<>>
    /\ waits' = [waits EXCEPT ![s] = None]
    /\ Ends(s, FALSE) /\ QuitsTurn(s)
    /\ UNCHANGED <<mapsV, actorV, regV, state, goal, handle, row, existing,
                   reply, ctl, passing, logins, saved, latest, kicks, moves>>

(* The client goes, sends too fast (ended by the server), or, its session  *)
(* yet waiting, has waited REPLACE_WAIT.                                   *)
ClientGoes(s, flood) ==
    /\ phase[s] \in {"waiting", "serving"} /\ passing[s] = None
    /\ flood => phase[s] = "serving"
    /\ waits' = [waits EXCEPT ![s] = None]
    /\ Ends(s, flood) /\ QuitsTurn(s)
    /\ UNCHANGED <<mapsV, actorV, regV, state, goal, handle, row, existing,
                   reply, ctl, passing, logins, saved, latest, kicks, moves>>

(* send_to_map: its map has stopped and no word of where the player is has *)
(* come: the player went with it (lost_with), or HANDED_ON_WAIT is over.   *)
LostMap(s) ==
    /\ phase[s] = "serving" /\ state[s] = "InWorld" /\ passing[s] = None
    /\ ~Open(handle[s]) /\ ctl[s] = <<>>
    /\ Ends(s, FALSE)
    /\ UNCHANGED <<mapsV, actorV, regV, state, goal, handle, row, existing, waits,
                   reply, ctl, passing, logins, dataV>>

-----------------------------------------------------------------------------
(* Logging in (login, enter).                                             *)

AskLogin(s, c) ==
    /\ phase[s] = "serving" /\ state[s] = "Screen" /\ passing[s] = None
    /\ logins[s] < MaxLogins
    /\ logins' = [logins EXCEPT ![s] = @ + 1]
    /\ goal'   = [goal EXCEPT ![s] = c]
    /\ phase'  = [phase EXCEPT ![s] = "login"]
    /\ UNCHANGED <<mapsV, actorV, regV, state, handle, row, existing, waits, reply,
                   ctl, passing, kicked, dataV>>

(* reap: an entry whose session has gone.                                 *)
BetweenMaps(s) == passing[s] # None \/ \E i \in 1..Len(ctl[s]) : ctl[s][i].op = "transfer"
Reap(e) ==
    /\ IF Open(omap[e.sess])
       THEN mq' = Put(mq, omap[e.sess], [op |-> "reap", e |-> e]) /\ UNCHANGED online
       ELSE online' = (IF online = e THEN None ELSE online) /\ UNCHANGED mq
    /\ races' = races \cup (IF BetweenMaps(e.sess) THEN {"reap"} ELSE {})
                      \cup (IF ToHandOn(e.sess) THEN {"handon"} ELSE {})

NewEntry(s) == [g |-> goal[s], sess |-> s, n |-> logins[s]]

(* That connection goes, or, gone already, is reaped; this login fails.   *)
KickOther(s, e) ==
    /\ phase' = [phase EXCEPT ![s] = "serving"]
    /\ goal' = [goal EXCEPT ![s] = None]
    /\ ctl' = Tell(ctl, e.sess, [op |-> "kick"])
    /\ IF Hears(e.sess) THEN UNCHANGED <<mq, online, races>> ELSE Reap(e)

LookAnyway(s) ==  \* mutant: the row is read, online or not
    /\ phase[s] = "login"
    /\ row'   = [row EXCEPT ![s] = saved[goal[s]]]
    /\ phase' = [phase EXCEPT ![s] = "loading"]
    /\ UNCHANGED <<mapsV, actorV, regV, state, goal, handle, existing, waits, reply,
                   ctl, passing, kicked, logins, dataV>>
(* Nobody of the account is online: the row is read.                      *)
LookNobody(s) ==
    /\ phase[s] = "login" /\ online = None
    /\ row'   = [row EXCEPT ![s] = saved[goal[s]]]
    /\ phase' = [phase EXCEPT ![s] = "loading"]
    /\ UNCHANGED <<mapsV, actorV, regV, state, goal, handle, existing, waits, reply,
                   ctl, passing, kicked, logins, dataV>>

(* The character is in the world: their map is asked to hand them over.   *)
LookTheirs(s) ==
    /\ phase[s] = "login" /\ online # None /\ online.g = goal[s]
    /\ existing' = [existing EXCEPT ![s] = online]
    /\ phase'    = [phase EXCEPT ![s] = "asking"]
    /\ LET h == omap[online.sess] IN
       IF Open(h)
       THEN /\ mq' = Put(mq, h, [op |-> "takeover", old |-> online,
                                 new |-> NewEntry(s)])
            /\ UNCHANGED reply
       ELSE /\ reply' = [reply EXCEPT ![s] = No]
            /\ UNCHANGED mq
    /\ UNCHANGED <<mapsV, players, leaving, next, handed, regV, state, goal, handle,
                   row, waits, ctl, passing, kicked, logins, dataV>>

(* Another of the account's characters is.                                *)
LookOther(s) ==
    /\ phase[s] = "login" /\ online # None /\ online.g # goal[s]
    /\ KickOther(s, online)
    /\ UNCHANGED <<mapsV, players, leaving, next, handed, omap, current, state,
                   handle, row, existing, waits, reply, passing, kicked, logins, saved,
                   latest, kicks, moves>>

(* The row read, they go online, unless another login did meanwhile.  The  *)
(* open world's map is got first, a copy only once they are online.        *)
Enter(s, k) ==
    /\ phase[s] = "loading"
    /\ IF k \in Worlds THEN GetMap(k) ELSE UNCHANGED <<cur, made, mst>>
    /\ IF online # None
       THEN /\ phase' = [phase EXCEPT ![s] = "login"]
            /\ row' = [row EXCEPT ![s] = 0]
            /\ UNCHANGED <<online, omap>>
       ELSE /\ phase' = [phase EXCEPT ![s] = "arriving"]
            /\ online' = NewEntry(s)
            /\ omap' = [omap EXCEPT ![s] = IF k \in Worlds THEN Target(k) ELSE None]
            /\ UNCHANGED row
    /\ UNCHANGED <<closed, expired, reset, actorV, current, state, goal, handle,
                   existing, waits, reply, ctl, passing, kicked, logins, dataV>>

(* Refused: the store is failing, or the row is gone, not theirs, or its   *)
(* name is to be changed first.                                            *)
LoginFails(s) ==
    /\ (phase[s] = "login" /\ online = None) \/ phase[s] = "loading"
    /\ phase' = [phase EXCEPT ![s] = "serving"]
    /\ goal' = [goal EXCEPT ![s] = None]
    /\ row' = [row EXCEPT ![s] = 0]
    /\ UNCHANGED <<mapsV, actorV, regV, state, handle, existing, waits, reply, ctl,
                   passing, kicked, logins, dataV>>

(* Back into a copy, or, it won't have them, home: its map is got.         *)
Resume(s, k) ==
    /\ phase[s] = "arriving" /\ omap[s] = None
    /\ LetIn(k) /\ GetMap(k)
    /\ omap' = [omap EXCEPT ![s] = Target(k)]
    /\ UNCHANGED <<closed, expired, reset, actorV, online, current, sessV, dataV>>

(* Sent to the map, which has them from there.                            *)
Arrive(s) ==
    /\ phase[s] = "arriving" /\ omap[s] # None
    /\ IF Open(omap[s])
       THEN /\ mq' = Put(mq, omap[s],
                         [op |-> "arrive", kind |-> "login",
                          p |-> [on |-> NewEntry(s), ver |-> row[s], linger |-> FALSE,
                                 logout |-> None]])
            /\ handle' = [handle EXCEPT ![s] = omap[s]]
            /\ state'  = [state EXCEPT ![s] = "InWorld"]
            /\ UNCHANGED <<online, goal>>
       ELSE /\ online' = Offline(goal[s])
            /\ goal' = [goal EXCEPT ![s] = None]
            /\ UNCHANGED <<mq, state, handle>>
    /\ row' = [row EXCEPT ![s] = 0]
    /\ phase' = [phase EXCEPT ![s] = "serving"]
    /\ UNCHANGED <<mapsV, players, leaving, next, handed, omap, current,
                   existing, waits, reply, ctl, passing, kicked, logins, dataV>>

(* The map handed them over.                                              *)
TakenOver(s) ==
    /\ phase[s] = "asking" /\ reply[s] \in Handles
    /\ handle' = [handle EXCEPT ![s] = reply[s]]
    /\ state'  = [state EXCEPT ![s] = "InWorld"]
    /\ existing' = [existing EXCEPT ![s] = None]
    /\ reply'  = [reply EXCEPT ![s] = None]
    /\ phase'  = [phase EXCEPT ![s] = "serving"]
    /\ UNCHANGED <<mapsV, actorV, regV, goal, row, waits, ctl, passing,
                   kicked, logins, dataV>>

(* It didn't (leaving, or between maps): look again 5 ms later.           *)
LookAgain(s) ==
    /\ phase[s] = "asking" /\ reply[s] = No
    /\ existing' = [existing EXCEPT ![s] = None]
    /\ reply' = [reply EXCEPT ![s] = None]
    /\ phase' = [phase EXCEPT ![s] = "login"]
    /\ UNCHANGED <<mapsV, actorV, regV, state, goal, handle, row, waits,
                   ctl, passing, kicked, logins, dataV>>

(* It didn't for LOGIN_WAIT, or GHOST_WAIT if their session has gone.      *)
GivesUp(s) ==
    /\ phase[s] = "asking" /\ reply[s] = No
    /\ existing' = [existing EXCEPT ![s] = None]
    /\ reply' = [reply EXCEPT ![s] = None]
    /\ KickOther(s, existing[s])
    /\ UNCHANGED <<mapsV, players, leaving, next, handed, omap, current, state,
                   handle, row, waits, passing, kicked, logins, saved, latest, kicks,
                   moves>>

-----------------------------------------------------------------------------
(* The words of the maps to a session (control), as it serves or, the last *)
(* of them, as it drops.                                                   *)

HearsNext(s, op) ==
    /\ phase[s] \in {"serving", "ending"} /\ passing[s] = None
    /\ ctl[s] # <<>> /\ Head(ctl[s]).op = op
Rest(s) == [ctl EXCEPT ![s] = Tail(@)]

HearTransferTwice(s) ==  \* mutant: the word stays queued
    /\ HearsNext(s, "transfer")
    /\ GetMap(Head(ctl[s]).to)
    /\ passing' = [passing EXCEPT ![s] =
                     [p |-> Head(ctl[s]).p, to |-> Target(Head(ctl[s]).to)]]
    /\ UNCHANGED <<closed, expired, reset, actorV, regV, phase, state, goal, handle, row,
                   existing, waits, reply, ctl, kicked, logins, dataV>>
(* Control::Transfer: the map is got,                                     *)
HearTransfer(s) ==
    /\ HearsNext(s, "transfer")
    /\ GetMap(Head(ctl[s]).to)
    /\ passing' = [passing EXCEPT ![s] =
                     [p |-> Head(ctl[s]).p, to |-> Target(Head(ctl[s]).to)]]
    /\ ctl' = Rest(s)
    /\ UNCHANGED <<closed, expired, reset, actorV, regV, phase, state, goal, handle, row,
                   existing, waits, reply, kicked, logins, dataV>>

(* and the player passed on to it: their packets go to the map that took   *)
(* them.                                                                   *)
PassOn(s) ==
    /\ passing[s] # None
    /\ LET h == passing[s].to IN
       /\ Deliver(Transferred(passing[s].p), h, mq, ctl)
       /\ IF LetsGo(h)
          THEN /\ state' = [state EXCEPT ![s] = "Screen"]
               /\ goal' = [goal EXCEPT ![s] = None]
               /\ handle' = [handle EXCEPT ![s] = None]
          ELSE /\ state'  = [state EXCEPT ![s] = "InWorld"]
               /\ goal'   = [goal EXCEPT ![s] = passing[s].p.on.g]
               /\ handle' = [handle EXCEPT ![s] = TakenBy(h)]
    /\ passing' = [passing EXCEPT ![s] = None]
    /\ UNCHANGED <<closed, expired, reset, players, leaving, next, handed, current, phase,
                   row, existing, waits, reply, kicked, logins, latest, kicks, moves, races>>

(* Control::HandedOn.                                                     *)
HearHandedOn(s) ==
    /\ HearsNext(s, "handedon")
    /\ handle' = IF state[s] = "InWorld" /\ goal[s] = Head(ctl[s]).g
                 THEN [handle EXCEPT ![s] = Head(ctl[s]).map] ELSE handle
    /\ ctl' = Rest(s)
    /\ UNCHANGED <<mapsV, actorV, regV, phase, state, goal, row, existing, waits,
                   reply, passing, kicked, logins, dataV>>

(* Control::LoggedOut.                                                    *)
HearLoggedOut(s) ==
    /\ phase[s] = "serving" /\ HearsNext(s, "loggedout")
    /\ state' = [state EXCEPT ![s] = "Screen"]
    /\ goal' = [goal EXCEPT ![s] = None]
    /\ handle' = [handle EXCEPT ![s] = None]
    /\ ctl' = Rest(s)
    /\ UNCHANGED <<mapsV, actorV, regV, phase, row, existing, waits,
                   reply, passing, kicked, logins, dataV>>

(* Control::Kick.                                                         *)
HearKick(s) ==
    /\ phase[s] = "serving" /\ HearsNext(s, "kick")
    /\ Ends(s, TRUE)
    /\ ctl' = Rest(s)
    /\ UNCHANGED <<mapsV, actorV, regV, state, goal, handle, row, existing, waits,
                   reply, passing, logins, dataV>>

(* Control::TakenOver and Replaced: a player in the world stays in it;      *)
(* replaced, their linger starts.                                          *)
HearLeave(s) ==
    /\ phase[s] = "serving"
    /\ HearsNext(s, "takenover") \/ HearsNext(s, "replaced")
    /\ Ends(s, FALSE)
    /\ state' = [state EXCEPT ![s] = IF @ = "InWorld" THEN "Left" ELSE @]
    /\ mq' = IF state[s] = "InWorld" /\ Head(ctl[s]).op = "replaced" /\ Open(handle[s])
             THEN Put(mq, handle[s], [op |-> "linger", g |-> goal[s], sess |-> s])
             ELSE mq
    /\ goal' = [goal EXCEPT ![s] = None]
    /\ handle' = [handle EXCEPT ![s] = None]
    /\ ctl' = Rest(s)
    /\ UNCHANGED <<mapsV, players, leaving, next, handed, regV, row,
                   existing, waits, reply, passing, logins, dataV>>

(* Drop: of what is still queued, only a player passed or handed on counts. *)
DropRest(s) ==
    /\ phase[s] = "ending" /\ passing[s] = None
    /\ ctl[s] # <<>> /\ Head(ctl[s]).op \notin {"transfer", "handedon"}
    /\ ctl' = Rest(s)
    /\ UNCHANGED <<mapsV, actorV, regV, phase, state, goal, handle, row, existing,
                   waits, reply, passing, kicked, logins, dataV>>

LostAnyway(s) ==  \* mutant: in another map since or not
    online # None /\ online.g = goal[s] /\ online.sess = s
(* lost_with: their map gone, the last they arrived in, and they still its *)
(* player's session.                                                       *)
LostWith(s) == /\ online # None /\ online.g = goal[s] /\ online.sess = s
               /\ omap[s] = handle[s]

(* disconnect: a player in the world leaves it or lingers, or, their map    *)
(* gone with them, goes offline.  At the shutdown the maps save everyone.  *)
Released(s) == current' = IF current = s THEN None ELSE current
Disconnect(s) ==
    /\ phase[s] = "ending" /\ passing[s] = None /\ ctl[s] = <<>>
    /\ closed \/ state[s] # "Screen"
    /\ phase' = [phase EXCEPT ![s] = "gone"]
    /\ state' = [state EXCEPT ![s] = "Screen"]
    /\ goal' = [goal EXCEPT ![s] = None]
    /\ handle' = [handle EXCEPT ![s] = None]
    /\ kicked' = [kicked EXCEPT ![s] = FALSE]
    /\ IF closed THEN UNCHANGED current ELSE Released(s)
    /\ IF closed \/ state[s] = "Left" THEN UNCHANGED <<mq, online, races>>
       ELSE IF Open(handle[s])
       THEN /\ mq' = Put(mq, handle[s], [op |-> IF kicked[s] THEN "leave" ELSE "disconnect",
                                         g |-> goal[s], sess |-> s])
            /\ UNCHANGED <<online, races>>
       ELSE /\ online' = IF LostWith(s) THEN None ELSE online
            /\ Lost("handon", LostWith(s) /\ ToHandOn(s))
            /\ UNCHANGED mq
    /\ UNCHANGED <<mapsV, players, leaving, next, handed, omap, row, existing, waits,
                   reply, ctl, passing, logins, saved, latest, kicks, moves>>

(* One on the character screen releases the account, and, the account's    *)
(* still, lets go who its predecessor left in the world.                   *)
LeftBehind(s) == current = s /\ online # None /\ ~Hears(online.sess)
DisconnectScreen(s) ==
    /\ phase[s] = "ending" /\ passing[s] = None /\ ctl[s] = <<>>
    /\ ~closed /\ state[s] = "Screen"
    /\ Released(s)
    /\ kicked' = [kicked EXCEPT ![s] = FALSE]
    /\ IF LeftBehind(s)
       THEN /\ existing' = [existing EXCEPT ![s] = online]
            /\ phase' = [phase EXCEPT ![s] = "releasing"]
            /\ UNCHANGED online
       ELSE /\ phase' = [phase EXCEPT ![s] = "gone"]
            /\ online' = IF online # None /\ online.sess = s THEN None ELSE online
            /\ UNCHANGED existing
    /\ UNCHANGED <<mapsV, actorV, omap, state, goal, handle,
                   row, waits, reply, ctl, passing, logins, dataV>>
ReapLeft(s) ==
    /\ phase[s] = "releasing"
    /\ Reap(existing[s])
    /\ existing' = [existing EXCEPT ![s] = None]
    /\ phase' = [phase EXCEPT ![s] = "gone"]
    /\ UNCHANGED <<mapsV, players, leaving, next, handed, omap, current, state, goal,
                   handle, row, waits, reply, ctl, passing, kicked, logins, saved,
                   latest, kicks, moves>>

(* A client in the world asks to log out: a packet, sent to its map.      *)
SendLogout(s) ==
    /\ phase[s] = "serving" /\ state[s] = "InWorld" /\ passing[s] = None
    /\ Open(handle[s]) /\ Len(mq[handle[s]]) < MaxMail
    /\ mq' = Put(mq, handle[s], [op |-> "logout", g |-> goal[s], sess |-> s])
    /\ UNCHANGED <<mapsV, players, leaving, next, handed, regV, sessV, dataV>>

(* A kick or a ban, of the account's session wherever it is, and a map's   *)
(* of a client that never said it loaded it (kick_unloaded).               *)
Kick(s) ==
    /\ kicks < MaxKicks /\ moves + kicks < MaxMoves /\ kicks' = kicks + 1
    /\ s = current \/ (online # None /\ online.sess = s)
    /\ ctl' = Tell(ctl, s, [op |-> "kick"])
    /\ UNCHANGED <<mapsV, actorV, regV, phase, state, goal, handle, row, existing,
                   waits, reply, passing, kicked, logins, saved, latest, moves, races>>

-----------------------------------------------------------------------------
(* A map actor's events.  A player taken out of it is saved first, then    *)
(* goes offline and, sent to the character screen, is told.                *)

At(h)        == mst[h] = "running" /\ leaving[h] = None
Takes(h, op) == At(h) /\ mq[h] # <<>> /\ Head(mq[h]).op = op
Event1(h)    == Head(mq[h])
Taken(h)     == [mq EXCEPT ![h] = Tail(@)]
Here(h, g)   == players[h][g] # None

AnySession(h, e) == TRUE  \* mutant: from an old session too
(* from_their_session: not what an old client's session sent before a      *)
(* take-over.                                                              *)
Theirs(h, e) == Here(h, e.g) => players[h][e.g].on.sess = e.sess

Stays == UNCHANGED <<players, leaving, saved>>
Leaves(h, g, told) ==
    /\ players' = [players EXCEPT ![h][g] = None]
    /\ saved'   = [saved EXCEPT ![g] = players[h][g].ver]
    /\ leaving' = [leaving EXCEPT ![h] = [g |-> g, sess |-> players[h][g].on.sess,
                                          told |-> told]]
Lingers(h, g) ==
    /\ players' = [players EXCEPT ![h][g].linger = TRUE]
    /\ UNCHANGED <<leaving, saved>>

LeaveDone(h) ==
    /\ leaving[h] # None
    /\ online' = Offline(leaving[h].g)
    /\ ctl' = IF leaving[h].told THEN Tell(ctl, leaving[h].sess, [op |-> "loggedout"])
              ELSE ctl
    /\ leaving' = [leaving EXCEPT ![h] = None]
    /\ UNCHANGED <<mapsV, mq, players, next, handed, omap, current, phase, state, goal,
                   handle, row, existing, waits, reply, passing, kicked, logins, dataV>>

ClientGoneStays(h, g) == IF HasLinger THEN Stays ELSE Leaves(h, g, FALSE)  \* mutant: no linger
(* handle_disconnect of a player here.                                    *)
ClientGone(h, g) == IF HasLinger THEN Lingers(h, g) ELSE Leaves(h, g, FALSE)

HandleArrive(h) ==
    /\ Takes(h, "arrive")
    /\ LET p == Event1(h).p IN
       /\ players' = [players EXCEPT ![h][p.on.g] = p]
       /\ omap' = [omap EXCEPT ![p.on.sess] = h]
    /\ mq' = Taken(h)
    /\ UNCHANGED <<mapsV, leaving, next, handed, online, current, sessV, dataV>>

(* A logout asked for: its countdown starts, or, refused, or called off    *)
(* (CMSG_LOGOUT_CANCEL), there is none.                                    *)
HandleLogout(h) ==
    /\ Takes(h, "logout")
    /\ LET e == Event1(h) IN
       IF Here(h, e.g) /\ Theirs(h, e)
       THEN \E due \in {e.sess, None} : players' = [players EXCEPT ![h][e.g].logout = due]
       ELSE UNCHANGED players
    /\ mq' = Taken(h)
    /\ UNCHANGED <<mapsV, leaving, next, handed, regV, sessV, dataV>>

(* The client gone; the server's word to leave; another connection's turn. *)
HandleGone(h) ==
    /\ \E op \in {"disconnect", "leave", "linger"} : Takes(h, op)
    /\ LET e == Event1(h) IN
       IF ~Here(h, e.g) \/ ~Theirs(h, e) THEN Stays
       ELSE CASE e.op = "disconnect" -> ClientGone(h, e.g)
              [] e.op = "leave"      -> Leaves(h, e.g, FALSE)
              [] e.op = "linger"     -> IF HasLinger THEN Lingers(h, e.g) ELSE Stays
    /\ mq' = Taken(h)
    /\ UNCHANGED <<mapsV, next, handed, regV, sessV, latest, kicks, moves, races>>

HandleReap(h) ==
    /\ Takes(h, "reap")
    /\ LET e == Event1(h).e IN
       IF Here(h, e.g) THEN ClientGone(h, e.g) /\ UNCHANGED online
       ELSE Stays /\ online' = IF online = e THEN None ELSE online
    /\ mq' = Taken(h)
    /\ UNCHANGED <<mapsV, next, handed, omap, current, sessV, latest, kicks, moves, races>>

(* take_over: the new login's client has the player, where they are: the   *)
(* entry is theirs, the old session hears it and their login the answer.   *)
Replaces(h, old)  == Here(h, old.g) /\ players[h][old.g].on = old /\ online = old
ListedOld(h, new) == UNCHANGED <<online, omap>>  \* mutant: still the old one's entry
Listed(h, new)    == online' = new /\ omap' = [omap EXCEPT ![new.sess] = h]
StillLogsOut(h, new) ==  \* mutant: the old client's logout goes on
    players' = [players EXCEPT ![h][new.g] = [@ EXCEPT !.on = new, !.linger = FALSE]]
HasClient(h, new) == players' = [players EXCEPT ![h][new.g] =
                                   [@ EXCEPT !.on = new, !.linger = FALSE, !.logout = None]]
RefusesSilently(s) == UNCHANGED reply  \* mutant: no answer
Refuses(s)        == reply' = [reply EXCEPT ![s] = No]
HandleTakeOver(h) ==
    /\ Takes(h, "takeover")
    /\ LET old == Event1(h).old  new == Event1(h).new IN
       IF Replaces(h, old)
       THEN /\ Listed(h, new) /\ HasClient(h, new)
            /\ ctl' = Tell(ctl, old.sess, [op |-> "takenover"])
            /\ reply' = [reply EXCEPT ![new.sess] = h]
       ELSE Refuses(new.sess) /\ UNCHANGED <<online, omap, players, ctl>>
    /\ mq' = Taken(h)
    /\ UNCHANGED <<mapsV, leaving, next, handed, current, phase, state, goal, handle,
                   row, existing, waits, passing, kicked, logins, dataV>>

(* handed_on: their session hears where they are, or, gone, lets them go.   *)
HandleHandedOn(h) ==
    /\ Takes(h, "handedon")
    /\ LET g == Event1(h).g IN
       IF ~Here(h, g) THEN Stays /\ UNCHANGED ctl
       ELSE IF Hears(players[h][g].on.sess)
       THEN Stays /\ ctl' = Tell(ctl, players[h][g].on.sess,
                                 [op |-> "handedon", g |-> g, map |-> h])
       ELSE ClientGone(h, g) /\ UNCHANGED ctl
    /\ mq' = Taken(h)
    /\ UNCHANGED <<mapsV, next, handed, regV, phase, state, goal, handle, row,
                   existing, waits, reply, passing, kicked, logins, latest, kicks, moves, races>>

(* Stop and Shutdown: each player is saved and goes, one by one.            *)
HandleStop(h) ==
    /\ Takes(h, "stop") \/ Takes(h, "shutdown")
    /\ IF \E g \in Chars : Here(h, g)
       THEN /\ \E g \in Chars : Here(h, g) /\ Leaves(h, g, Event1(h).op = "stop")
            /\ UNCHANGED <<mst, mq>>
       ELSE /\ mst' = [mst EXCEPT ![h] = "stopping"]
            /\ mq'  = Taken(h)
            /\ Stays
    /\ UNCHANGED <<closed, cur, made, expired, reset, next, handed, regV, sessV,
                   latest, kicks, moves, races>>

-----------------------------------------------------------------------------
(* What a map does of its own.                                            *)

(* A player's doings, and their periodic save.                            *)
Progress(h, g) ==
    /\ At(h) /\ Here(h, g) /\ players[h][g].ver < MaxVersion
    /\ players' = [players EXCEPT ![h][g].ver = @ + 1]
    /\ latest'  = [latest EXCEPT ![g] = players[h][g].ver + 1]
    /\ UNCHANGED <<mapsV, mq, leaving, next, handed, regV, sessV, saved, kicks, moves, races>>
SaveDue(h, g) ==
    /\ At(h) /\ Here(h, g)
    /\ saved' = [saved EXCEPT ![g] = players[h][g].ver]
    /\ UNCHANGED <<mapsV, actorV, regV, sessV, latest, kicks, moves, races>>

(* complete_logout, of one whose logout is due or whom the supervisor       *)
(* sends to the character screen; and a linger's end.                      *)
Goes(h, g, told) ==
    /\ At(h) /\ Here(h, g) /\ Leaves(h, g, told)
    /\ UNCHANGED <<mapsV, mq, next, handed, regV, sessV, latest, kicks, moves, races>>
LogoutDue(h, g)    == Here(h, g) /\ players[h][g].logout # None /\ Goes(h, g, TRUE)
SendToScreen(h, g) == Goes(h, g, TRUE)
LingerEnd(h, g)    == Here(h, g) /\ players[h][g].linger /\ Goes(h, g, FALSE)

ReapWaits(g) ==
    \E h \in Handles : \E i \in 1..Len(mq[h]) : mq[h][i].op = "reap" /\ mq[h][i].e.g = g

(* teleport_with, transfer: out of this map and to their session; one      *)
(* whose session has gone goes on to the other map, and its session's end   *)
(* after them.                                                             *)
Teleport(h, g, k) ==
    /\ At(h) /\ Here(h, g) /\ k # h[1] /\ LetIn(k)
    /\ moves + kicks < MaxMoves /\ moves' = moves + 1
    /\ Lost("reap", ReapWaits(g))
    /\ LET p == players[h][g] IN
       IF Hears(p.on.sess)
       THEN /\ ctl' = Tell(ctl, p.on.sess, [op |-> "transfer", p |-> p, to |-> k])
            /\ UNCHANGED <<cur, made, mst, mq, omap>>
       ELSE /\ GetMap(k)
            /\ mq' = Put(Put(mq, Target(k), Transferred(p)),
                         Target(k), [op |-> "disconnect", g |-> g, sess |-> p.on.sess])
            /\ omap' = [omap EXCEPT ![p.on.sess] = Target(k)]
            /\ UNCHANGED ctl
    /\ players' = [players EXCEPT ![h][g] = None]
    /\ UNCHANGED <<closed, expired, reset, leaving, next, handed, online, current,
                   phase, state, goal, handle, row, existing, waits, reply, passing,
                   kicked, logins, saved, latest, kicks>>

-----------------------------------------------------------------------------
(* Copies that stop, and the shutdown.                                    *)

(* Maps::stop.                                                            *)
Spare(k)  == made[k] < Starts(k)
Stop(k) ==
    /\ cur' = [cur EXCEPT ![k] = 0]
    /\ mq'  = IF Runs(k) THEN Put(mq, <<k, cur[k]>>, [op |-> "stop"]) ELSE mq

(* unload_if_empty: whichever actor the key names is stopped.              *)
Unload(h) ==
    /\ At(h) /\ h[1] \in Copies /\ Spare(h[1])
    /\ \A g \in Chars : ~Here(h, g)
    /\ Stop(h[1])
    /\ mst' = [mst EXCEPT ![h] = "stopping"]
    /\ expired' = [expired EXCEPT ![h[1]] = FALSE]
    /\ UNCHANGED <<closed, made, reset, players, leaving, next, handed, regV, sessV,
                   dataV>>

(* A reset of the copy, refused if it is in use (one let in counts, until   *)
(* they arrive or ON_THE_WAY_SECS are over); a raid's then goes once it is  *)
(* empty.                                                                  *)
InUse(k) == online # None /\ omap[online.sess] # None /\ omap[online.sess][1] = k
Reset(k) ==
    /\ CanReset /\ reset[k] = "none" /\ made[k] > 0
    /\ IF InUse(k)
       THEN /\ reset'   = [reset EXCEPT ![k] = "done"]
            /\ expired' = [expired EXCEPT ![k] = TRUE]
       ELSE reset' = [reset EXCEPT ![k] = "decided"] /\ UNCHANGED expired
    /\ UNCHANGED <<closed, cur, made, mst, actorV, regV, sessV, dataV>>
ResetStops(k) ==
    /\ reset[k] = "decided" /\ Spare(k)
    /\ Stop(k)
    /\ reset' = [reset EXCEPT ![k] = "done"]
    /\ UNCHANGED <<closed, made, mst, expired, players, leaving, next, handed, regV,
                   sessV, dataV>>

(* finish: the shutdown over, its queue is let go; else it is closed, and   *)
(* what is in it handed on if a player is on the way in, or, the copy gone  *)
(* with its raid's reset, let go.                                          *)
Finish(h) ==
    /\ mst[h] = "stopping"
    /\ LET coming == \E i \in 1..Len(mq[h]) : mq[h][i].op = "arrive" IN
       /\ mst' = [mst EXCEPT ![h] = IF closed THEN "standin"
                                    ELSE IF ~coming THEN "gone"
                                    ELSE IF ExpiredCopy(h[1]) THEN "letting"
                                    ELSE "handing"]
       /\ IF closed THEN UNCHANGED <<mq, reply>>
          ELSE /\ mq' = [mq EXCEPT ![h] = IF coming THEN @ ELSE <<>>]
               /\ reply' = IF coming THEN reply ELSE Unanswered(mq[h])
    /\ UNCHANGED <<closed, cur, made, expired, reset, players, leaving, next, handed,
                   regV, phase, state, goal, handle, row, existing, waits, ctl,
                   passing, kicked, logins, dataV>>

(* hand_on: the actor started in its place is got, sent what was waiting    *)
(* here in turn but for words to stop, and told of each player it was      *)
(* handed.                                                                *)
HandGet(h) ==
    /\ mst[h] = "handing" /\ next[h] = None
    /\ GetMap(h[1])
    /\ next' = [next EXCEPT ![h] = Target(h[1])]
    /\ UNCHANGED <<closed, expired, reset, mq, players, leaving, handed, regV, sessV,
                   dataV>>
HandOnTwice(h) ==  \* mutant: who is handed on stays in the queue too, once
    /\ mst[h] = "handing" /\ next[h] # None /\ mq[h] # <<>>
    /\ Event1(h).op = "arrive" /\ Event1(h).p.on.g \notin handed[h]
    /\ Deliver(Event1(h), next[h], mq, ctl)
    /\ handed' = [handed EXCEPT ![h] = @ \cup {Event1(h).p.on.g}]
    /\ UNCHANGED <<closed, expired, reset, players, leaving, next, current, phase, state,
                   reply, goal, handle, row, existing, waits, passing, kicked, logins,
                   latest, kicks, moves, races>>
HandOn(h) ==
    /\ mst[h] = "handing" /\ next[h] # None /\ mq[h] # <<>>
    /\ LET e == Event1(h) IN
       IF e.op = "arrive"
       THEN /\ Deliver(e, next[h], Taken(h), ctl)
            /\ next' = [next EXCEPT ![h] = IF LetsGo(@) THEN @ ELSE TakenBy(@)]
            /\ handed' = IF LetsGo(next[h]) THEN handed
                         ELSE [handed EXCEPT ![h] = @ \cup {e.p.on.g}]
            /\ UNCHANGED reply
       ELSE /\ mq' = IF Open(next[h]) /\ e.op \notin {"stop", "shutdown"}
                     THEN Put(Taken(h), next[h], e) ELSE Taken(h)
            /\ reply' = IF Open(next[h]) THEN reply ELSE Unanswered(<<e>>)
            /\ UNCHANGED <<cur, made, mst, next, handed, omap, ctl, saved, online>>
    /\ UNCHANGED <<closed, expired, reset, players, leaving, current, phase, state,
                   goal, handle, row, existing, waits, passing, kicked, logins, latest,
                   kicks, moves, races>>
HandedOnUntold(h) ==  \* mutant: the next map isn't told of whom it was handed
    /\ mst[h] = "handing" /\ next[h] # None /\ mq[h] = <<>>
    /\ mst' = [mst EXCEPT ![h] = "gone"]
    /\ next' = [next EXCEPT ![h] = None] /\ handed' = [handed EXCEPT ![h] = {}]
    /\ UNCHANGED <<closed, cur, made, expired, reset, mq, players, leaving, regV,
                   sessV, dataV>>
HandedOn(h) ==
    /\ mst[h] = "handing" /\ next[h] # None /\ mq[h] = <<>>
    /\ IF handed[h] = {}
       THEN /\ mst' = [mst EXCEPT ![h] = "gone"]
            /\ next' = [next EXCEPT ![h] = None]
            /\ UNCHANGED <<mq, handed>>
       ELSE \E g \in handed[h] :
              /\ mq' = IF Open(next[h]) THEN Put(mq, next[h], [op |-> "handedon", g |-> g])
                       ELSE mq
              /\ handed' = [handed EXCEPT ![h] = @ \ {g}]
              /\ UNCHANGED <<mst, next>>
    /\ UNCHANGED <<closed, cur, made, expired, reset, players, leaving, regV,
                   sessV, dataV>>

(* let_go_all, let_go: a player arriving is saved where they were going,    *)
(* goes offline and their session ends; one logging in never was in it.    *)
LetGoEach(h) ==
    /\ mst[h] \in {"standin", "letting"} /\ mq[h] # <<>>
    /\ LET e == Event1(h) IN
       IF e.op = "arrive"
       THEN LetGo(e, ctl) /\ UNCHANGED reply
       ELSE reply' = Unanswered(<<e>>) /\ UNCHANGED <<saved, online, ctl>>
    /\ mq' = Taken(h)
    /\ UNCHANGED <<mapsV, players, leaving, next, handed, omap, current, phase, state,
                   goal, handle, row, existing, waits, passing, kicked, logins, latest,
                   kicks, moves, races>>
LetGone(h) ==
    /\ mst[h] = "letting" /\ mq[h] = <<>>
    /\ mst' = [mst EXCEPT ![h] = "gone"]
    /\ UNCHANGED <<closed, cur, made, expired, reset, actorV, regV, sessV, dataV>>

(* shutdown: no map starts after; each is told to save everyone.           *)
Shutdown ==
    /\ CanShutdown /\ ~closed
    /\ closed' = TRUE
    /\ mq' = [h \in Handles |->
                IF cur[h[1]] = h[2] /\ Open(h) THEN Append(mq[h], [op |-> "shutdown"])
                ELSE mq[h]]
    /\ UNCHANGED <<cur, made, mst, expired, reset, players, leaving, next, handed,
                   regV, sessV, dataV>>

-----------------------------------------------------------------------------
Session(s) ==
    \/ Begin(s) \/ WaitHeard(s) \/ LostMap(s)
    \/ LookNobody(s) \/ LookTheirs(s) \/ LookOther(s) \/ LoginFails(s)
    \/ \E k \in Keys : Enter(s, k) \/ Resume(s, k)
    \/ Arrive(s)
    \/ TakenOver(s) \/ LookAgain(s) \/ GivesUp(s)
    \/ HearTransfer(s) \/ PassOn(s) \/ HearHandedOn(s) \/ HearLoggedOut(s)
    \/ HearKick(s) \/ HearLeave(s) \/ DropRest(s)
    \/ Disconnect(s) \/ DisconnectScreen(s) \/ ReapLeft(s)
Client(s) ==
    \/ Connect(s) \/ \E c \in Chars : AskLogin(s, c)
    \/ SendLogout(s) \/ \E flood \in BOOLEAN : ClientGoes(s, flood)
Map(h) ==
    \/ LeaveDone(h) \/ HandleArrive(h) \/ HandleLogout(h) \/ HandleGone(h)
    \/ HandleReap(h) \/ HandleTakeOver(h) \/ HandleHandedOn(h) \/ HandleStop(h)
    \/ Finish(h) \/ HandGet(h) \/ HandOn(h) \/ HandedOn(h) \/ LetGoEach(h) \/ LetGone(h)
    \/ \E g \in Chars : LogoutDue(h, g) \/ LingerEnd(h, g)
Doings(h) ==
    \/ \E g \in Chars : \/ Progress(h, g) \/ SaveDue(h, g) \/ SendToScreen(h, g)
                        \/ \E k \in Keys : Teleport(h, g, k)
    \/ Unload(h)
Realm == Shutdown \/ \E k \in Copies : Reset(k) \/ ResetStops(k)

Next ==
    \/ \E s \in Sessions : Session(s) \/ Client(s) \/ Kick(s)
    \/ \E h \in Handles : Map(h) \/ Doings(h)
    \/ Realm

(* Tasks run on, and a linger, a logout and a wait end; nothing makes a      *)
(* client, a player or an administrator act.  LOGIN_WAIT is a deadline: a   *)
(* login that keeps looking gives up.                                      *)
Fairness ==
    /\ \A s \in Sessions : WF_vars(Session(s)) /\ SF_vars(GivesUp(s))
    /\ \A h \in Handles : WF_vars(Map(h))
Spec == Init /\ [][Next]_vars /\ Fairness
-----------------------------------------------------------------------------
(* Properties.                                                            *)

(* Where a player of the account is: in a map, on their way into one, on   *)
(* their session's queue, or being passed on.                              *)
InMap    == {o \in Handles \X Chars : Here(o[1], o[2])}
InMail   == {o \in UNION {{h} \X DOMAIN mq[h] : h \in Handles} :
                mq[o[1]][o[2]].op = "arrive"}
InWords  == {o \in UNION {{s} \X DOMAIN ctl[s] : s \in Sessions} :
                ctl[o[1]][o[2]].op = "transfer"}
InPass   == {s \in Sessions : passing[s] # None}
Places   == Cardinality(InMap) + Cardinality(InMail) + Cardinality(InWords)
            + Cardinality(InPass)
ThePlayers == {players[o[1]][o[2]] : o \in InMap} \cup {mq[o[1]][o[2]].p : o \in InMail}
              \cup {ctl[o[1]][o[2]].p : o \in InWords} \cup {passing[s].p : s \in InPass}

(* What login, go_online and one session an account are to keep, with no    *)
(* race lost: one of the account's characters at most is in the world, and  *)
(* in one place;                                                           *)
OnePlace == Places <= 1
(* whoever is in the world, between maps too, is who the online list says,  *)
(* on the session it says;                                                 *)
InWorldIsOnline == \A p \in ThePlayers : p.on = online
(* a character not online is saved as they last were;                      *)
OfflineIsSaved ==
    \A c \in Chars : (online = None \/ online.g # c) => saved[c] = latest[c]
(* nobody is in the world as they were once: a login reads the row only     *)
(* after the save of those who left;                                       *)
NobodyStale == \A p \in ThePlayers : p.ver = latest[p.on.g]
(* and one session works at a time.                                        *)
Works(s) == phase[s] \in {"serving", "login", "loading", "arriving", "asking"}
OneWorks == \A s, t \in Sessions : Works(s) /\ Works(t) => s = t

(* No player was missed by a reap or a hand-on so far.                     *)
NoneMissed == races \cap {"reap", "handon"} = {}

(* A player is never copied, by a handover, a hand-on, a take-over or a      *)
(* second login, but after a reap that missed one between maps, or one lost *)
(* with a copy that was handing them on.                                   *)
OnePlaceUnraced == NoneMissed => OnePlace

(* Nobody in the world loses their entry in the online list, or has         *)
(* another's, but by those two.                                            *)
OnlineUnraced == NoneMissed => InWorldIsOnline

(* What a player did is never lost, however they left, but by those two or  *)
(* by two sessions of the account at work, one with an old row.            *)
SavedUnraced == races = {} => OfflineIsSaved

(* Nobody plays on from an old row, but by the same.                       *)
FreshUnraced == races = {} => NobodyStale

(* However many connect, replaced in a chain, one session of the account    *)
(* works at a time, but after one that ended without waiting its turn.      *)
OneWorksInTurn == "turn" \notin races => OneWorks

(* A client in the world isn't left in limbo: its packets reach the map    *)
(* that has its player, or word of where they went is on its way.          *)
Coming(s) ==
    \/ ctl[s] # <<>> \/ passing[s] # None
    \/ \E h \in Handles : /\ leaving[h] # None /\ leaving[h].sess = s /\ leaving[h].told
    \/ Here(handle[s], goal[s]) /\ players[handle[s]][goal[s]].on.sess = s
    \/ ComesTo(s, handle[s])
    \/ \E h \in Handles : \/ goal[s] \in handed[h]
                          \/ \E i \in 1..Len(mq[h]) : mq[h][i].op = "handedon"
NoLimbo ==
    \A s \in Sessions :
        phase[s] = "serving" /\ state[s] = "InWorld" /\ ~closed => Coming(s)

(* Only those whose client has gone linger.                                *)
LingerersHaveNoClient ==
    \A o \in InMap : players[o[1]][o[2]].linger => ~Hears(players[o[1]][o[2]].on.sess)

(* What an old client asked for isn't done to the new one.                 *)
LogoutIsTheirs ==
    \A o \in InMap : LET p == players[o[1]][o[2]] IN p.logout \in {None, p.on.sess}

(* A player left in the world by a session that ended leaves it in the     *)
(* end, or is another session's.                                           *)
GhostLeaves ==
    (online # None /\ ~Hears(online.sess)) ~> (online = None \/ Hears(online.sess))

(* A login comes to an answer: in the world, or back at the character      *)
(* screen, though it looks again and again at an entry that stays.         *)
LoginAnswered == \A s \in Sessions : phase[s] = "login" ~> phase[s] = "serving"

(* The shutdown takes everyone off the online list, those between two      *)
(* maps too; SavedUnraced says that they are saved by then.                *)
ShutdownSaves == closed ~> (online = None)
=============================================================================
