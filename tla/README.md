# TLA+ models of wow_vanilla_server

A model, model-checked and in part proved, of what in this server is hard to get right and hard to test: what the
character store promises while its disk fails under it, who has the player while sessions, the online list and map
actors hand them about, what reaches a player and a client on the way between maps and in which order, and what moves
between players by mail, auction and trade. Line numbers are of `src/src/game/` unless said otherwise.

Run a model from this directory with `tlc -config MCTravel.cfg MCWorld.tla` (a run's module is in the table of
section 4), and the proofs with `tlapm StoreProofs.tla`, and so with `RegisterProofs`, `WorldProofs`,
`WorldSavedProofs`, `PostProofs`, `FeedProofs`, `MarketProofs` and `TradeProofs`.

## 1. Inventory

The server is tokio tasks and a few threads. Two kinds of task carry the game: a **session** per connection and a
**map actor** per map (an open world map runs until the shutdown, a copy of a dungeon or a battleground starts with
the first to go in and unloads when empty). They share no player: a player is a value one of them owns, and moves from
one to another in a message. What they share is the **registry** (who is online, on which session, in which map) and
the **store** (one thread, one SQLite connection, an unbounded queue).

| Component | State | Operations | Talks to | Hard behaviour | What makes it correct |
|---|---|---|---|---|---|
| Character store (`store.rs`) | tables, GUID counter, kept saves, `failing` | save, save together, load, create, rename, delete, flush, retry | requests from sessions, maps, mail, auctions | a full or locked disk, a save the tables refuse, reads and deletions while saves are kept, a crash | nothing saved is lost or goes back; reads see the last save; together is all or nothing; a GUID is used once |
| Session (`session.rs`) | `State` (Screen, InWorld, Left), the map's handle, control queue | wait for the one replaced, log in, take over, route packets, pass on a player, end | registry, maps, store | awaits between a look and its use, words queued behind others, ending with a player in hand | one session at work per account; a player always in one place; no client in limbo |
| Registry (`registry.rs`) | online list, account sessions | claim, release, go online, replace, go offline | all | check-then-act over two locks | who is in the world is online, on the session listed |
| Map actors (`map/mod.rs`, `map/login.rs`) | players, mailbox, copies by key | arrive, disconnect, take over, log out, linger, teleport, unload, hand on, let go, stop | sessions, other maps, registry, store | a copy that stops with players on their way in | saved before offline; nobody twice or nowhere |
| Instances (`instances.rs`) | copies, binds, resets | bind, let in, reset, expire | maps | decided under a lock, stopped outside it | a reset takes no player's progress with it |
| Shutdown (`mod.rs`, `server.rs`) | closed maps | close, save everyone, flush | maps, sessions, store | players between two maps | everyone saved |
| Supervision (`supervisor.rs`, `map/supervise.rs`) | strikes, backoff | restart, escalate | maps, sweeps | bursts across the window's edge | one bad creature doesn't take a map down |
| Connections (`conn.rs`, `map/observers.rs`) | a client's queue, hold and budget; a map's feed of chunks, its cork; the waker | send, broadcast, cork, push, hold, release, subscribe, wake, write | maps, sessions, a writer each, one waker | a queue and a feed merged by stamps, a client that changes feeds, a cork pushed before word of it goes out | all that was sent is written, once, in order; the budget is what waits |
| Heartbeats (`session.rs`, `map/moves.rs`) | one slot per player and map | post, take the place of, take | session and map share it | coalescing against the mailbox's order | no heartbeat ahead of what was sent before it; none skipped but for its next |
| Calls to a player (`map/mod.rs`) | calls on the way | `call_player`, `ToPlayer` | services, maps, sessions | the player changes maps meanwhile | run once, where the player is, or refused |
| Mail, auctions (`social/`) | records by id, each under a lock | send, take, return, delete, sell, bid, cancel, expire | store, maps, sweeps | an item moved between two rows, from two threads, with a crash between | never lost or doubled; whoever is owed is paid |
| Trade (`map/trade.rs`) | two offers, two accepts | offer, change, accept, cancel | one map, the inventory | an offer changed after an accept, an offered item that changes without the trade | what was accepted is what moves, all of it or nothing |
| Groups, guilds, friends | tables behind locks | invite, leave, promote, loot turn | maps | a leader gone | one leader, a member of it |
| Battlegrounds | queues, invitations, places | queue, invite, join, leave | maps, sessions | invitations that lapse as they are accepted | never more than its places |
| Memory guard | state by memory used | sample, act | conn | hysteresis | doesn't flap |
| Combat, spells, AI, loot, quests, visibility | a map's own | the 20 Hz update | none | none concurrent | long sequential simulation |
| Login server, data loaders, setup, tools | files | read, build | none | none | input and output |

Beside these nothing keeps state that outlives a call. `PROJECT.json` lists every component with its sources and
what of it is modelled, and every hazard at its line.

## 2. Plan

In order of what would hurt a player most:

1. **Store** (done): the store's thread against an unreliable disk; proofs of all its safety properties.
2. **World** (done for one account): sessions, registry and maps together, who has the player; proofs that they are in
   one place and online, and that what they did is never lost nor undone, but by the three races the code leaves open.
3. **Register** (done): what the store promises, as a specification of its own that `Store` is proved to implement.
4. **Post** (done): heartbeats and calls to a player against the mailboxes and a change of map; proofs of all its
   properties.
5. **Feed** (done): outbound queues, corks, holds, feeds and their waker; proof that nothing sent is late
   but a chunk the waker walked before its number was stored.
6. **Market** (done): mail and auctions on `save_together`; it takes the store for what `Register` says of it. Proofs
   of all its properties.
7. **Trade** (done), with the proofs of its safety.
8. Next: **Supervision** (strikes over a window, backoff, a map's restart under `World`), **Battlegrounds' queue**
   (invitations that lapse as they are accepted), **loot rolls** and a group's leader, **Memory guard**: a small module
   each. Then *one player, one place* as an abstract specification `World` implements.

Proofs to come: of `Feed`, the order and the accounts; of `World`, `NoLimbo`, on what section 6 says it needs.

A run is one question: the store with a disk that fails, the store with saves that are refused, an account whose player
travels as three connections replace each other, a copy that is reset and a shutdown, two characters and two logins each,
what a client is written, what reaches a player between maps, mail and auctions, a trade; and three for what the code
says of itself and does not do. Five more disagreements have a configuration each, listed in section 5.

## 3. The modules

| Module | What it is |
|---|---|
| `Store`, `MCStore` | the store's thread, its clients and its disk; its small instances |
| `Register` | what the store promises: abstract, implemented by `Store` (`Promise`, `Implements`) |
| `StoreProofs` | theorems of `Store` and their proofs: types, what is kept, GUIDs |
| `RegisterProofs` | theorems of `Store` and their proofs: the order of what is saved, and that it implements `Register` |
| `World`, `MCWorld` | one account's sessions, the registry's entries of it and the maps |
| `WorldProofs` | theorems of `World` and their proofs: types, whose logout it is; one place and online, but for a race lost |
| `WorldSavedProofs` | theorems of `World` and their proofs: one session at work in turn; saved when offline and never stale, but for a race lost |
| `Post`, `MCPost` | what clients and services send a player who changes maps |
| `PostProofs` | theorems of `Post` and their proofs |
| `Feed`, `MCFeed` | what a client is sent: queues, corks, holds, feeds, the waker and the writers |
| `FeedProofs` | theorem of `Feed` and its proof: nothing sent is late but what the waker overtook |
| `Market`, `MCMarket` | mail, auctions and what trades move, their locks, saves and sweeps |
| `MarketProofs` | theorems of `Market` and their proofs: types, items, locks, what is owed; the coins, and the sums over finite sets they need |
| `Trade`, `MCTrade` | a trade's offers, windows and acceptances |
| `TradeProofs` | theorems of `Trade` and their proofs |

How they fit: `Market` relies on `Store` for what `Register` says (saves written in order, each whole, the last of them
lost by a crash), and so writes a save as it is sent; `Trade` says when a trade goes through, and `Market` what its
one save does; `Post` and `Feed` refine the two directions of a message `World` takes as one step (a word to a map, a
word to a client).

Operators marked *mutant* beside a definition are its plausible wrong forms; nothing uses them. They stand
for bugs the properties must find: each property fails if the definition is replaced by its mutant (`mutants` in
`PROJECT.json`).

### Store

| State | In the code |
|---|---|
| `queue`, `todo` | the channel, and the batch `serve_all` took from it (up to `MAX_BATCH`) |
| `writing`, `tries`, `captured` | the transaction of `write_saves`, its tries, and the GUID counter it writes with the rows |
| `unwritten` | of a batch that failed, the saves that went alone and the store couldn't take |
| `pending`, `failing` | `Kept::pending`, `Health::failing` |
| `db`, `counter` | the tables, and the counter kept in them |
| `next` | the GUID counter in memory |
| `life` | what a session knows of a character: asked to be created, alive, deleted |
| `disk` | what the next statement meets: well, busy (another connection's lock) or full |
| `value`, `dropped`, `used`, `answer` | history: what a perfect register would hold, what was lost past `MAX_KEPT`, GUIDs that reached the tables, the last reply |

A save is a set of rows: one for a save of a character or a record, several for `save_together`. A row is a version
and, for a character, a generation of its name; what else is in it no property tells apart. A record that is deleted
is a version like another. Actions follow the thread: `Take`, `Gather` (the saves at the head of the batch, what was
kept ahead of them), `WriteAll`/`WriteBusy`/`WriteCant`/`WriteFails`, `Alone`/`AloneDone`, then `Serve...` for each
other request, `Retry` when none comes for `RETRY_EVERY`. `DiskChanges` is the world outside and `Crash` a process
that dies and starts again on what was committed.

`Register` is three variables: the rows as the requests so far leave them, the rows a crash would leave, the last
reply. `Store` maps to it by its history `value`, by `db`, and by `answer` (a refusal, or a reply with a row dropped
past `MaxKept`, is none).

Not in it: migrations and the backup, account data and bones (saves like the others), the last write of a clean
shutdown, a request that panics (caught, and logged).

### World

Who has the player, for **one account**: its characters, its connections (each made once), the maps.

| State | In the code |
|---|---|
| `phase`, `state`, `goal`, `handle`, `ctl` | a session's task (where its `run` is), its `State`, the character, the map it routes to, its control queue |
| `row`, `existing`, `waits`, `reply`, `passing` | what the task holds over an await: the row it loaded, the entry it found, the session it replaced, the answer to its take-over, the player it is passing on |
| `kicked` | whether the server ended it |
| `online`, `omap`, `current` | the registry's entry of the account, the map it names, the account's session |
| `mst`, `mq`, `players`, `leaving` | map actors, their mailboxes, who is in them, who is saved and out and about to go offline |
| `next`, `handed` | `hand_on`: the actor in a stopped copy's place, and who it was handed |
| `cur`, `made`, `closed`, `expired`, `reset` | `Maps`: the actor of a key; the shutdown; a copy gone with its raid's reset; a reset decided and to come |
| `saved` | rows as the store would give them (a load sees every save sent before it: `Store`'s `Implements`) |
| `latest`, `races` | histories: each character's newest version, and which of the races below were lost |

An action is what a task does between two points at which another could see or change what it works on. A map
handles one event, a session one packet or one word; what they do with an `await` or a lock released in the middle is
two actions (`Enter` and `Arrive`, `HearTransfer` and `PassOn`, `Leaves` and `LeaveDone`, `HandGet`, `HandOn` and
`HandedOn`, `Reset` and `ResetStops`, `DisconnectScreen`, which releases the account, and `ReapLeft`, for who is left in
the world). A reap waits in the map's mailbox like any other event, and what it was sent for may change meanwhile; a
copy that stops closes its queue some steps before what is in it is handed on (`Finish`, `HandOn`).

Three races the code leaves open are lost by some step that goes on as if nothing had been. The history `races` has the
name of each from that step on; no guard reads it:

- `"reap"`: a reap is sent for a player who is between maps (`Reap`), or waits in a mailbox as they leave for another
  map (`Teleport`);
- `"handon"`: a session's end or a reap takes a player off the list, as lost with their copy, while that copy is to
  hand them on (`Disconnect`, `Reap`);
- `"turn"`: a session ends while it waits for one that hasn't ended (`QuitsTurn`).

Section 5 says what follows from each, and has a run for each.

Actors of one map follow each other, at most `MaxStarts` of a copy, so a copy unloads or is reset only while it may
be started again. `Reset` is both a reset (1015-1062 of `instances.rs`) and a raid's, at its time (1183-1222).

Not in it: the game a map plays, panics and restarts of a map, what `Post` has (calls to a player, heartbeats), the
character screen's own requests (their store's side is in `Store`), the clock (a wait or a countdown may end at any
time), other accounts: no word of the above is between two accounts.

### Post

| State | In the code |
|---|---|
| `entry`, `here`, `lingering` | the map the online entry names; which map has the player, and whether their client is known to have gone |
| `mail` | the maps' mailboxes (unbounded but for a client's own packets: `Share`, `session_queue`'s permits) |
| `live`, `held`, `ctl`, `hand`, `naming` | the session: alive, the map it routes to, its control queue, the event it waits for room with, an arrival sent and not yet named |
| `beat`, `beatLast`, `slots` | `Session::beat`, `beat_last`, and what waits in each `Heartbeat`'s slot |
| `packets`, `calls`, `heard`, `handled`, `missed`, `runs` | histories: what the client and services sent and when, and what became of it |

A session handles one packet or one word at a time, with a step between a packet read and its place in the mailbox (it
waits for room), and one between an arrival sent and named. A heartbeat (`Heartbeat`) takes the place of the one still
in its slot (`Coalesced`), or goes behind as a marker (`Marked`) or a packet (`AsPacket`). A call (`CallReads`,
`CallSent`) goes to the map the entry named, and on from there once (`HandleCall`).

Not in it: take-overs (`World`), a map that stops, other players' calls on each other (a call is to this player).

### Feed

| State | In the code |
|---|---|
| `out` | per client `OutboundInner` and `Shared` (queue, hold, what is held, `queued`, subscription, accounts) and its writer (where it is, what it reads, its batch) |
| `chain`, `subs`, `heldIdx`, `signalled` | a `Feed`: its chunks with their number stored (`Linked`: those the waker may find, one more between a link and its number), readers, held indices, whether the waker was told |
| `signals`, `waker`, `wakerAt` | the waker's channel, what it is at, the last chunk it walked |
| `table`, `cork`, `pc`, `job` | a map: whose each index is, its thread's cork, and where in a push it is and what for |
| `inHand` | what a session looked at the hold for, and has not queued |
| `written`, `sent`, `must`, `bySession`, `ahead` | histories: what was written, what each client was sent, what had been sent before each frame, the frames sessions sent, and the chunks the waker walked before their number was stored |

`Direct`, `SessionSend`, `SessionUnheld` and `Broadcast` send; `Push`, `PublishCork`, `Number` and `Signal` are the
four moments of a cork's end (`push`: clients outside the feed first, each stamped; the chunk linked, `conn.rs:376`;
its number stored, 377; the waker told, 380), the last two an uncorked broadcast's too. The waker walks what is
linked, the writers and the stamps go by the number. `Arrive`, `TakeOver` and a push's `leave` move a client between
maps; `WakerRecv`, `WakerWalk`, `WakerCharge` are the waker's turn; `Look`, `Take`, `Write` the writer's. The merge
(`ShareOf`, `ReadTo`) is the code's: a chunk's share is the directs and broadcasts for an index, in order.

Not in it: `gone` and `found` (which only save looking), creature orders and `settle`, statistics of overflows, a write
only partly taken, parked corks, a thread's cork set to a second feed, ciphers and what a connection receives.

### Market

| State | In the code |
|---|---|
| `mem`, `disk` | what memory and the tables say of every character (items and money), mail and auction |
| `holder`, `job`, `pend` | the mail's and the auctions' locks, what each map's thread and the sweep is at with them, and the save it is about to send |
| `old`, `over`, `overdue`, `swept` | mails and auctions past their time; those the sweep found, and took out of memory |
| `nextMail`, `nextLot` | the id counters, counted again at a start |

An operation is a change of memory and a save under way (`Changes`), then the save sent and the locks let go (`Sent`):
the moment between is where another thread or a crash comes in. A bid and a cancel look under the auctions' lock, then
act under the mail's too (`BidAsked`, `BidMade`). A sweep finds, then acts on each (`FindExpired`, `Expire`;
`SweepLots`, `Settle`). Ledgers' `spent` and `lost` are histories: fees paid, and what went with a mail deleted; so is
`owed`, what a mail sent back was sent back as. A save is a record of partial functions (`Tx`, `NoSave` the one of
nothing), built with the module's own `Put`, `Both` and `Onto`: TLC's `:>` and `@@` are not known to the provers.

Not in it: the hour an item's mail takes, the limit of 100 mails, texts and reading, lists, quest mail, the mail of a
deleted character, which market and which account may bid, houses and their rates (a cut of half stands for theirs),
stacks (`Trade` has them).

### Trade

| State | In the code |
|---|---|
| `with`, `offered`, `counts`, `money`, `accepted` | each side's `Trade` |
| `owner`, `carried`, `stack`, `gold`, `spot` | whose each item is, whether it may be traded from where it is, how many it is, purses, and where players stand |
| `shown`, `agreed`, `deal` | histories: each window as last sent, as accepted, and what a trade gave and was seen to give |

A map is one thread, so each packet is a step: what interleaves is the players, and what they do to what they offered,
which the trade isn't told of (`Meanwhile`: worn, banked, split, mailed, destroyed, bought back, spent). `AcceptGoes`
is the last part of `accept` (`trade.rs:424-467`), once neither `AcceptCancelled` (369-383) nor `AcceptBack` (399-427)
answered it.

Not in it: the window's opening, spells on the item in the slot not traded (they may call an acceptance off, as
`Unaccept` and `AcceptBack` may), the refusals `initiate` begins with (dead, of another faction, ignored, logging out),
bag room (an item with no room is mailed) and stacks that merge as they arrive.

## 4. The runs

| Run | Module | Asks |
|---|---|---|
| `MCStore` | `MCStore` | a character, a record, saves apart and together, every request, a disk that is well, busy or full, and a crash: the store is the register (`Implements`), `TogetherWhole`, `DeletedStaysDeleted`, `GuidsNeverReused`, `LoginsWait` |
| `MCStoreRefused` | `MCStore` | two characters, the tables refusing one's row: batches are split and saves go alone, and none is lost or goes back (`NewestHeld`, `RowsNeverGoBack`). And, once the disk stays well, time after time the thread is at rest with nothing kept and every row in the tables as last saved, deleted or renamed, but one lost past `MaxKept` (`KeptIsWritten`) |
| `MCTravel` | `MCWorld` | three connections, each replacing the last and any of them gone at any moment, one character, two maps, a teleport or a kick, lingers, reaps and take-overs: `OnePlaceUnraced`, `OnlineUnraced`, `OneWorksInTurn` |
| `MCReset` | `MCWorld` | a copy that unloads, is reset, or expires, with a player on the way into it, its queue handed on, and the shutdown at any moment: `OnePlaceUnraced`, `OnlineUnraced`, `SavedUnraced`, `NoLimbo`, `ShutdownSaves` |
| `MCTwo` | `MCWorld` | two characters of the account, two connections that log in twice each, logouts, ghosts, reaps, and logins that look again and again: `FreshUnraced`, `LingerersHaveNoClient`, `LogoutIsTheirs`, `GhostLeaves` and `LoginAnswered` |
| `MCFeed` | `MCFeed` | two clients, two maps, frames to one and to all, corks, holds and what is released behind a create, moves between maps and connections gone: `MergedInOrder`, `OnceEach`, `OnlyOvertaken`, `BudgetIsWhatWaits`, `LagIsWhatIsUnread` |
| `MCPost` | `MCPost` | a player who changes maps twice, three packets or heartbeats, a call: `InSentOrder`, `BehindCalls`, `NoneSkipped`, `CallsFollow` |
| `MCMarket` | `MCMarket` | three players on two maps, an item, letters with money or cash on delivery, a trade, an auction with a buyout or none, bids and refunds, the sweep, a crash: `Conserved`, `LastWord`, `ReturnedIsKept`, `PaidFor`, `EndsFairly` |
| `MCTrade` | `MCTrade` | two players, two items, within reach and apart: `AcceptedStands`, `DealAsAgreed`, `AllChangesHands` |
| `MCStoreAlone`, `MCReap`, `MCTradeCounts` | `MCStore`, `MCWorld`, `MCTrade` | one disagreement each: section 5 |

Every module also has a type invariant, `TypeOK`; those of `Store`, `World`, `Market` and `Trade` are proved, and
`Post`'s but for `Share`'s bound (a count of a client's packets in a mailbox: a fold). Each of the others holds with
its runs' constants and may be added to their cfgs.

**Bounds.** Three GUIDs in the store's runs give a first save, one that is kept and one after it, or a creation, a
save and a save together; a queue of two or three and `MaxBatch` as many make batches of one, of several, and ones
that stop at another request. `MaxKept` is below the number of saves in `MCStoreRefused`, so that the oldest are lost.
One character and one record are enough for a save together; two characters for a bad save beside a good one. In
`World`, what can go wrong with a handover needs two maps and a teleport; with three connections that log in once,
`MCTravel` has logins after a reap, take-overs of one taken over, and chains of replaced sessions, some gone before they
begin. `MaxMoves` counts kicks and teleports together: there `MaxMoves` 1 is one of the two, in `MCReset` two, out of a
copy and back. `MCTwo` has one map and two logins of each connection. `MaxVersion` 1 is what is or isn't saved; `MCTravel`
asks nothing of it and has none. `MaxMail` bounds only what a client sends, never the maps' or the sessions' own words.
`MCReset` has one connection, two would be past what a run can do. What the runs of `World` say of one or two moves and a
map or two, the proofs say of any number (but for `LingerersHaveNoClient`, `NoLimbo` and liveness).

In `Feed` a budget of two bytes and two frames are enough to have a frame corked and one sent past the cork, one held and
released behind the create of the hold, one sent alone before a broadcast of the same chunk; one index per map makes the
second client get the first's. A client past its budget is closed, and of a closed client the properties say nothing; the
proof is for any budget. In `Post`, three packets are one that waits, one between and one that may overtake; two teleports
are there and back, or out of a map before the word of the first has come. `MaxMails` counts letters ever posted: two are
a letter sent back or paid for, an outbid's refund, or what an auction's winner and owner are due; a refund and a
settlement after it would be three, which the proofs of all five properties cover. One item is enough, for it goes from
hand to hand; the money is small so that its bounds are met. In `Trade` two players are all a trade concerns (the third is
the proof's); two items and one slot traded make an offer change; two counts are in the run that asks about them.

**Symmetry.** Connections are alike in `MCTravel` and `MCReap`; clients, and maps, in `MCFeed`; maps in `MCPost`; players,
items and places in `MCTrade`; in `MCMarket` the two players on one map. Those runs check invariants and
properties of one step. No run with a liveness property has a symmetry.

**Deadlock** is checked in the store's runs, where the disk can always change. In `World` no client, administrator or
player need act, and with every connection made and gone nothing is left to do, nor in the others once their bounds
are met: `CHECK_DEADLOCK FALSE`.

**Fairness.** The store's thread runs (`WF_vars(Thread)`), which its own loop with a time limit justifies; nothing is
assumed of clients or of the disk, so `KeptIsWritten` has the disk well from some moment on as its premise. In `World`
each session's and each map's task runs (tokio's scheduler: `WF_vars(Session(s))`, `WF_vars(Map(h))`); lingers and
logouts are timers of the map's update and end. A login that finds the account online looks again every 5 ms up to a
deadline (`LOGIN_WAIT`, `GHOST_WAIT`): it may look any number of times but not for ever, which is
`SF_vars(GivesUp(s))`. A session waiting for the one it replaces has no fairness but that of its task: the end of its
wait is `ClientGoes`. What a player does, a kick, a teleport, a reset, an unload, the shutdown: none is fair. `Post`,
`Feed`, `Market` and `Trade` state no fairness: what should happen in the end is said of the states with nothing left
under way (`OnlyOvertaken`, `NoneSkipped`, `CallsFollow`, `LastWord`).

## 5. Where the code and what it says of itself differ

TLC answers each with a counterexample. Three are runs, and `PROJECT.json` quotes the lines:

- `MCStoreAlone`: of a batch with a bad save each goes alone. With the disk full for the earlier of two saves of a row
  and well for the later, the later is written, and the earlier, kept, written over it at the next retry. In all other
  runs the disk doesn't change while saves go alone (`DiskSteadyAlone`).
- `MCReap` (`OnePlace`): a reap waits in the mailbox of the map its player leaves for another. Handled there, it finds
  nobody and takes the entry off the list, and the account's other character logs in beside the first.
- `MCTradeCounts`: a stack put in the window at one and grown to two since is shown as two with the next change of the
  offer; accepted so and split back to one, it is what was first offered (`offer_holds`, `map/trade.rs:294`), and the
  partner gets one.

Five are configurations kept beside the runs, each with its one property (`tlc -config MCThird.cfg MCWorld.tla`, and
`MCFeed.tla` for the last two):

- `MCThird` (`OneWorks`): a session waits for the one it replaces, and may end as it waits; the one before it is at work
  still, and the third, which waited for the second alone, begins beside it. `session.rs:252-259` promises one session of an
  account at work. `OneWorksInTurn` says that it takes this, a session that ends before its turn, however many connect.
- `MCLinger` (`LingerersHaveNoClient`): a reap's `handle_disconnect` (`session.rs:1320`) looks only for the player: one
  taken over since the reap was sent lingers under a client that plays on, and its end takes them out of the world, though
  `map/player.rs:238` has one linger "Their client gone". It takes three connections (the one reaped, the one that asks for
  the reap, the one that takes over); with two, in `MCTwo`, it holds.
- `MCHandOn` (`OfflineIsSaved`): a copy closes its queue, then hands on what is in it. A player on the way back into it is
  there, not saved since; their session finds the queue closed and ends, and `lost_with` (`session.rs:569-581`), which looks
  at the entry's session and map alone, takes them off the list with their last progress in no row.
- `MCFeedSleeps` (`NothingLost`): a chunk is linked (`conn.rs:376`), then numbered (377). The waker, which takes no lock of
  the tail, may walk it between the two and wake a writer that reads the old number (1065) and waits; `signal` (380) then
  finds nothing to walk. The client sleeps with a chunk unread until the next thing it is sent, though the waker "wakes
  the writers that have one" (228).
- `MCFeedCork` (`HeldInOrder`): what sessions sent a client that was held is released into the map's cork, if it is on
  (1438), and what they send next goes ahead of it, though `conn.rs:1407` says that it "waits, in the order it was sent".

A property named `...Unraced` (`OnePlaceUnraced`, `OnlineUnraced`, `SavedUnraced`, `FreshUnraced`), and
`OneWorksInTurn`, speaks of the states in which no race that bears on it was lost so far: once one was, what it says
is lost, as `MCReap`, `MCHandOn` and `MCThird` show, and nothing is claimed of what follows. No step is disabled for losing a
race, the other properties hold after one too, and the races are named as narrowly as the code allows: a reap of a
player who stays, a copy that hands on with the session alive, a session that ends in its turn are not among them.
`OnlyOvertaken` is of the same kind: of a client with nothing on its way it excuses the frames of a chunk the waker
walked before its number, and no other.

Seen while modelling, and in no run (each by the constants named, with the property as the only one):

- Store: a deletion that takes out the last of what is kept leaves `failing` set with nothing to retry, so logins are
  refused until some save is written (`FailingMeansKept`, with `MCStore`'s constants).
- World: a session replaced with word of a hand-on queued behind asks the stopped copy for the linger, and the player
  is left online with no client and no linger (`session.rs:643`; `GhostLeaves` with a copy and lingers).
- Post: a call is sent on after a player once, so two changes of map may lose it, though `map/mod.rs:1242` says
  "wherever they are" (`CallsReach`); and passing an arrival on leaves `beat_last` set, so a heartbeat may take the
  place of one sent to the same map before the player's arrival there, and reach it first (`BeatsHadLeft`;
  `session.rs:104`). Both with `MCPost`'s constants. Two calls may also run out of the order they were made in.
- Trade: an item gone when the window was last sent and back since is traded though not shown.
- `Kept::keep` drops an earlier save of a character for a later one though the later may be one the tables refuse, and
  so be lost: `NewestHeld` speaks of what the tables would take, `MCStoreRefused`'s refused rows are always refused.
- `unload_if_empty` stops whichever actor its key names; `hand_on`'s look at `expired` comes after `unloaded` forgot
  it for a copy that unloaded itself, so it lets go only those on the way into one that was stopped.

## 6. The proofs

`StoreProofs` proves of every instance (any characters, records, batch size, bounds; `StoreAssumption` alone):

- `TypeCorrect`: `Spec => []TypeOK`;
- `KeptMeansWait`: `Spec => []LoginsWait`;
- `GuidsOnce`: `Spec => []GuidsNeverReused`, crashes and deletions included;

all three from `Inductive`, `Spec => []IInv`. `IInv` is the conjunction of

- `TypeOK`;
- `Phases`: what is held is where the thread is. Between requests nothing is being written, and while it writes nothing
  is in `pending`, having gone ahead of the saves;
- `KeptFails`: what is kept means `failing`. `LoginsWait` is this between requests;
- `Counted`: the GUIDs in requests, in what is held and in the tables are under the counter they go with. The
  property itself, *used under `next`*, isn't inductive: a crash sets `next` from the tables and the counter kept in
  them, so the counter must be above what was ever written, and it is written with the rows, as read when the
  transaction began (`captured`), so the saves in the transaction must be under that;
- `Known`: what is in the tables was sent, and a good save that is held is of a row the register has. A rename reads the
  name from the register, and would have none to give without it.

The argument goes action by action (`TypeStep`, `PhaseStep`, `FailStep`, `CountStep`, `KnownStep`). What the thread
keeps after compaction is described by `KeepIs` and `AtOf`: a subsequence of what it was given, with no other member;
they rest on `RankOnto`, that the ranks of a finite set of indices are all the numbers up to their count. What the
tables hold after a transaction is `AfterIs`: the row of the last save of it, or the one before.

`RegisterProofs` goes on from there to the rows themselves. Unconditionally:

- `StaysInOrder`: `Spec => []OInv`, the inductive invariant of what follows;
- `DeletedStays`: `Spec => []DeletedStaysDeleted`;
- `TogetherIsWhole`: `Spec => TogetherWhole`;

and, assuming `SteadyDisk`,

- `BooksKept`: `Spec => []NInv`, inductive too;
- `NewestStays`, `RowsForward`: `Spec => []NewestHeld`, `Spec => RowsNeverGoBack`;
- `ImplementsRegister`: `Spec => Implements`, the refinement of `Register`, step by step.

`SteadyDisk` is `Refused = {} \/ DiskSteadyAlone`: no save is ever refused by the tables, or the disk doesn't change
while saves go alone. It leaves out what `MCStoreAlone` shows and nothing else, and the three properties are false
without it. `MCStore` and `MCStoreRefused` satisfy it.

`OInv` is `IInv`, `Between` (an idle thread has no batch) and `Orders`, which says that requests stay in the order
they were sent, wherever they are: what the thread holds is sorted, what waits behind what went alone is older than
what is written, what is yet to be taken is newer than all of it (`InTurn`, `Numbered`, `Fresh`); a save's rows are
its own and under its character's name (`Shape`, `Names`); and a character is asked about once at a time, with no save
of it behind a deletion (`Lives`). That last is why a deletion may forget what is kept: there is nothing of the
character on its way but there. `NInv` adds `Books`: a row that is held is newer than the one in the tables, and the
last held that the tables take is what a perfect register has, or nothing is held and the tables have it, or it was
lost past `MaxKept`. `Behind`, the first half, is what a save put by while a later one is written would break: hence
`Steady`, that none is put by once the disk is well. A batch is many rows, written in one step, compacted before:
`AfterGood` and `FinalOf` are what a transaction leaves of each row, whether compacted first or not.

`PostProofs` proves of every instance (any maps, packets, calls, teleports; `PostAssumption` alone) `InOrder`
(`InSentOrder`), `BehindItsCalls` (`BehindCalls`), `NoneIsSkipped` (`NoneSkipped`) and `CallsAreRun` (`CallsFollow`),
from its `Inductive`, `Spec => []PInv`. None of the four is inductive. `PInv` says

- `OnePlace`, `Routed`: the player is in one map, one mailbox or on the session's queue; a session that lives has the
  player, or routes to where they are or will be;
- `InMail`, `InHand`, `Ahead`, `Done`: a packet is in one place; behind another in a mailbox, it was sent after it;
  and what the player will be there for was sent after all they have handled. `Reached` is the key to it: a packet in
  the mailbox of a map the player has left is never handled, though its number may be below what was, and is told from
  one behind an arrival by what is ahead of it;
- `Beats`, `Kept`: a slot has one marker, in the last heartbeat's map if it is the session's own, with nothing of the
  client's behind it nor a call the session put there if that heartbeat was sent last. With it a heartbeat that takes
  another's place overtakes nothing;
- `Heard`: what was sent since the player last moved finds them;
- `Tokens`, `Behind`: a call waits in one place and is run once; what was sent behind it stays behind;
- `Follow`: a call that is due (its player has moved once at most since it was made) is near: in the map it was made
  to, or ahead of the arrival that will take it.

Each conjunct is kept by every step of the session, the maps and the services: `TypeStep`, `PlaceStep`, `NumbersStep`,
`KeptStep`, `HeardStep`, `TokensStep`, `BehindStep`, `FollowStep`, which take a step as what it does to the mailboxes
(`Popped`, `Posted`, `SentOn`).

`MarketProofs` proves of every instance (any characters, maps, items, ids, prices, sums; `MarketAssumption`: the
sweep is no map's thread, nothing is both a record and none, an auction asks something):

- `TypeCorrect`: `Spec => []TypeOK`, with it that no one's money leaves 0..`MaxMoney`, and that a buyout ends its
  auction;
- `LastWordStands`: `Spec => []LastWord`;
- `ItemsInOnePlace`: `Spec => []ItemsOnce`, the part of `Conserved` about items;
- `DeliveryIsPaid`, `AuctionsEndFairly`: `Spec => PaidFor`, `Spec => EndsFairly`;
- `SentBackIsKept`: `Spec => []ReturnedIsKept`.

They rest on `Inductive`, `Spec => []IInv`. Of all but the last none is inductive: each is about what is written, and
what a step writes was decided as memory changed, under locks. So `IInv` says what the locks are for:

- `Locks`: a save on its way has only what its thread owns: the rows of its map's characters, mails while it holds the
  mail's lock, auctions while it holds theirs. With it no two saves on their way have a record in common (`OneSaves`),
  so that their order doesn't matter;
- `SweptAlone`: the one thing saved without its lock is the auction the sweep settles; it is out of memory, where nobody
  can bid on it or cancel it, until the save is sent;
- `Fresh`: ids to come are of nothing;
- `Waits`: what a bid or a cancel was allowed on, as it took the auctions' lock, is as it was when it acts;
- `RowsDue`, `MailDue`, `LotsDue`: memory is the database with the saves on their way.

Every change of memory is one lemma, `Changing`, from what it owns (`Owned`); `SentInv` and `CrashInv` are the other
two cases. On top of it, one more invariant for three of the properties, of the saves on their way: `ItemsInv` (every
save moves each item it has from where the database has it to one place), `AllPay` (one that takes an item sent cash
on delivery has its payment) and `AllFair` (one that deletes an auction has the letters that settle it). A save sent
keeps them for the others because it has nothing of theirs. `ReturnedIsKept` is of memory, and kept (`OwedInv`)
because a step changes one mail at most of those there are (`OwedOthers`; those it posts have ids no mail has), and a
crash forgets what was owed by a save not yet sent.

`MarketProofs` proves last the rest of `Conserved`, the coins: `NothingMadeOrLost`, `Spec => []Conserved`, for any
finite number of characters (`PlayersAssumption`; an infinite one has no sum). `CoinsInv`, over `IInv`, says that each
save about to be sent has, with its fee, as much as the records it is written over have in the database (`Balanced`),
and that nothing is bid where nobody bid (`NoBid`; a refund is the bid of who is outbid). A save sent then leaves the
sum as it was, and leaves the others balanced, for it has none of their records. What a step decided is balanced
action by action (`SendMailCoins`, `TakeMoneyCoins`, `BidCoins`, ...), each by the sums over the two or three records
it touches. The sums are folds over sets: `Subsets` proves what is true of the empty set and kept as one more is put
in true of every finite one, for a set of sets rather than a predicate, from the least number with a set of its size
outside; `SumAny` and `SumParts` unfold them.

`FeedProofs` proves of every instance (any maps, clients, indices, frames, budget and bounds; `FeedAssumption` alone)
`LateIsOvertaken`: `Spec => []OnlyOvertaken`. `OnlyOvertaken` speaks only of a client with nothing under way, so its
invariant, `FeedInv` (`Inductive`), says where each frame is while something is:

- `Fine`, of each open client: each frame it was sent is written, or `Coming` (in its writer's batch, in its queue, or
  in a chunk one of its readings gets to), or `Elsewhere` (held, the create of a hold, in a session's hand, kept in a
  cork for it). A reading is the one its writer is at, or one an item of its queue will begin; `Goes` says how far it
  gets, up to what the item that ends it says. So an item put in the queue, a stamp taken, a chunk published, a client
  subscribed or unsubscribed each changes what a reading gets to, and never loses a chunk that has something for it;
- `Sound`, in it: an item's stamp is no more than its feed had, the last reading is of the feed the client reads now,
  and a writer that waits has an empty batch. `Woke`: of a chunk the waker has walked, and not overtaken (in `ahead`),
  with something for the client, that came after its writer's last look, the writer has been told. Here the order of
  `Look` and `Take` matters: a writer that begins another reading looks again before it waits;
- `Told`: of each chunk not yet walked the waker has been told, has it in its channel, or is about to be (`pc` is
  `"signal"`); `signalled` is dropped before the walk, so that a chunk published during it is told again. With it
  (`Walks`), the waker is past the numbered chunks by one at most, which is linked, in `ahead`, and is numbered next;
- `Seated`: a client is in one place, its index in the feed it reads is its own, and the feed knows of it; an index in
  `heldIdx` is of a client that is held, for a broadcast is kept for it alone and not for others;
- `Pushing`: a cork off is empty but for the moment it lends a broadcast (`"number"`), and so is one that has been
  pushed when the map's thread goes on to what it was pushed for. A client that changed feeds with something in a cork
  would not be sent it.

What a step does to one client is one of a few kinds, with a lemma each for what still comes: something behind its
queue (`Grown`, `Put`), a reading ended or begun behind it (`Behind`, `Ends`), an item taken or read up to (`Shifted`,
`Carries`, `Passed`), a chunk more in its feed, as its number is stored (`Longer`, `PublishedComing`). `ReadToIs` and
`ShareIs` unfold what the writer reads of a chunk: `FlattenSeq` is recursive, and `Flattened` gets from its
definition, by the least number, that what is in a part is in the whole.

`TradeProofs` proves of every instance (any players, items, slots, sums; `TradeAssumption` alone) `TypeCorrect`,
`TradesPaired` (`Paired`), `AcceptancesStand` (`AcceptedStands`), `DealsAgreed` (`DealAsAgreed`) and `AllAtOnce`
(`AllChangesHands`), all from its `Inductive`, `Spec => []IInv`. `AcceptedStands` isn't inductive: what a player
accepted is their window, so one must know that each window stands for the partner's offer at every moment (`Seen`),
and that who has accepted accepted the very window they have (`Accepted`). With `Paired`, a change to an offer touches
its maker, the one partner who sees it, and no third. The steps are three: a trade begins or ends for both
(`Resetting`), an offer changes and the partner sees it (`Changing`), acceptances are called off (`CallingOff`);
`GoingAgreed` and `AllAtOnce` are about the step that goes through.

`WorldProofs` proves of every instance (any characters, connections, copies, maps, logins, moves and starts)
`TypeCorrect` and `LogoutsAreTheirs` (`LogoutIsTheirs`), `OneInOnePlace` (`OnePlaceUnraced`) and `TheyAreOnline`
(`OnlineUnraced`), by `WorldAssumption` and `NobodyAssumption` (no one is not someone). Nothing is assumed of the
steps: the reap and the hand-on may come at any moment, and what the last two say is said of the states with neither
race lost, for after one `OnePlace` and `InWorldIsOnline` are false (section 5).

`TypeOK` isn't inductive: what a step puts in a queue is what a session's phase says it has. So `TInv` adds `Phases`
(a login has its character, one that asks the entry it asked of, one that is to reap an entry whose session has gone),
`Born` (actors are numbered as they start, and a stopped one hands on to one that has started) and, in the types, that
a player's logout is their own session's, in maps, mailboxes, words and hands, and a take-over of the character it is
for. `TInv` holds always. Over it, `WInv` holds while `NoneMissed`, and is inductive so, since `races` only grows
(`RacesGrow`):

- `OneSpot`: in the whole of the account's maps, mailboxes, words, hands, logins about to arrive and departures under
  way there is at most one player, or their place. `OnePlace` leaves out the last two, and could not be inductive
  without them: a login that is about to arrive has no player yet, and one who has left is still on the list;
- `SpotsListed`: who is there is the one online, with their own entry, in the map the entry names when a map or a
  mailbox has them. A login goes online only if nobody is (`Enter`), so it finds no spot taken;
- `Screens`: whoever is online has their session where it can be in the world, or gone: a session back at the
  character screen may log in again under another entry;
- `LoggedOut`: one `loggedout` at most is on its way to a session, of a player no longer online and to a session not
  yet at the screen, so that it sends nobody to the screen who is in the world again;
- `TakeOvers`: a take-over in a mailbox has its login waiting for it, and is the only one of that login, so that the
  entry it puts on the list is new;
- `Reaps`: a reap waits in a mailbox only for an entry whose session has gone, and if that entry is online still,
  whoever it is for is in that map or comes to it before the reap does, or the map will never handle it. A step that
  breaks this is one that writes a lost race down, and only such a step does;
- `Counts`: no login past `MaxLogins`, for a login's number tells its entry from the session's earlier ones.

The steps are of a few kinds, each with its lemma: spots go or move up a queue (`SpotsKept`, `ListedKept`), one spot
goes from one place to another, the entry goes with nobody there (`NoneKept`), and what is said in mailboxes and words
changes without them (`LoggedKept`, `TakeOversKept`, `ReapsKept`). `MailGoes` and `WordsGo` say what a step does to
all the queues: a head taken from some, something behind others. Each invariant was first checked by TLC on the runs'
instances.

`WorldSavedProofs` goes on from `WInv` to the database, for any number of everything and by the same two assumptions:

- `WorkInTurn`: `Spec => []OneWorksInTurn`, for any number of connections. The invariant, while `"turn"` is not in
  `races`, is `Turns`: the sessions can be numbered as they came so that who waits, waits for the last before it that
  hears, and who works is before all that hear. It is a session that ends as it waits that leaves the next with one
  too far ahead to wait for;
- `SavedWhenOffline`, `NeverStale`: `Spec => []SavedUnraced` and `Spec => []FreshUnraced`, by `SInv` while no race was
  lost: whoever is in a map, a mailbox, a word or a hand is as they last were (`AllNew`); a character whose row is
  older is in the world or on the way from map to map, to be saved from there (`Unsaved`); and the row a login has
  read stands until it arrives or looks again (`Rows`): as it loads nobody is online, for the session looked in
  between, and by `OneWorks`, which holds by then, no other session put anyone online since. Two sessions at work may
  be one that reads a row and one whose map saves after, so `"turn"` is of the races here.

Only model-checked:

- of `World`, `LingerersHaveNoClient` and `NoLimbo`. A map handles a reap for whoever it has then, whatever session
  they play on, so that the first is false with three sessions (`MCLinger`); of two, it needs to know of each reap who
  comes before it and who after in every queue it may be in or be handed on with. The second is about the order in
  which a copy stops and starts again, and about what the sessions are yet to be told;
- of `Feed`, `MergedInOrder`, `OnceEach`, `BudgetIsWhatWaits` and `LagIsWhatIsUnread`: they speak of the whole of what
  waits for a client, in the order or with the bytes in which it would be read (`Rest`, a fold over items that reads
  chunks), where `OnlyOvertaken` needs only each frame to be somewhere;
- liveness (`KeptIsWritten`, `GhostLeaves`, `LoginAnswered`, `ShutdownSaves`), since fairness and ENABLED are out of
  the prover's reach.

`PostTypes` is the part of `Post`'s `TypeOK` its proofs need; the bound it leaves out is a count over a sequence.

## 7. Not modelled

The rest of the server is a map's own sequential simulation (combat, auras, spells, AI, loot, quests, professions,
visibility), most of its lines, in floating point and over data files: it has no concurrency but what the modules above
have, and what it computes is a matter for tests. The login server is cryptography and files; setup, tools, benches and
loaders are input and output. Groups, guilds, channels and friends are tables each behind a lock; battlegrounds,
supervision and the memory guard are small state machines and the next of the plan.
