------------------------------- MODULE Market -------------------------------
(***************************************************************************)
(* Mail and auctions, and the trades that go through: items and money that *)
(* move between characters, mails and auctions, each move saved in one     *)
(* transaction (Store::save_together).  Maps are threads, and the sweeps   *)
(* one more; the mail and the auctions have a lock each, held from the     *)
(* change in memory until its save is sent, the auctions' first.  The      *)
(* store is what Store shows it to be: saves are written in the order      *)
(* sent, each whole, and a crash loses the last of them not written.  So a *)
(* save is written here as it is sent: a crash that loses those sent since *)
(* some moment leaves what a crash at that moment does.                    *)
(*                                                                         *)
(* `mem` and `disk` are ledgers: what memory and the database say of every *)
(* character, mail and auction; `spent` and `lost` in them are histories:  *)
(* the fees paid, and the items that went with a mail deleted.  So is      *)
(* `owed`: each mail sent back, as it was then, till its sender has had    *)
(* something of it, or its new time is up.                                 *)
(***************************************************************************)
EXTENDS Naturals, Sequences, FiniteSets, SequencesExt

CONSTANTS
    Players,    \* the characters, in the world
    MapOf,      \* the map each is in
    Items,      \* the items they have between them, none of which stacks
    None,       \* no item, nobody, nothing
    Sweeper,    \* the thread of the sweeps
    Gold,       \* what each character has at first
    MaxMoney,   \* the most one may hold
    Postage, Deposit,
    StartBid, Buyouts, Prices,  \* what an auction may ask (0, no buyout), and a bid be
    Sums, Cods, \* what a letter or a trade may bring, and a letter ask
    MaxMails,   \* bound: mails posted
    MaxLots,    \* bound: auctions put up
    MaxMoves,   \* bound: letters and moves between players
    MaxCrashes  \* bound: crashes

Maps    == {MapOf[p] : p \in Players}
Threads == Maps \cup {Sweeper}
MailIds == 1..MaxMails
LotIds  == 1..MaxLots

(* What is kept: rows, mails and auctions (one with a buyout ends at it).  *)
Rows  == [bag : SUBSET Items, gold : 0..MaxMoney]
Mails == {m \in [kind : {"normal", "auction"}, from : Players \cup {None}, to : Players,
                 item : Items \cup {None}, money : Nat, cod : Nat,
                 back : BOOLEAN, payment : BOOLEAN] :
             m.from = None => m.kind = "auction" /\ m.cod = 0}
Lots  == {a \in [item : Items, owner : Players, bid : Nat,
                 bidder : Players \cup {None}, buyout : Nat] :
             a.buyout > 0 => a.bid < a.buyout}
Jobs  == [op : {"bid", "cancel"}, who : Players, lot : LotIds, price : Nat]

ASSUME MarketAssumption ==
    /\ MapOf \in [Players -> Maps] /\ Sweeper \notin Maps
    /\ None \notin Players \cup Items \cup Threads
    /\ None \notin Mails /\ None \notin Lots /\ None \notin Jobs
    /\ Gold \in Nat /\ MaxMoney \in Nat /\ Gold <= MaxMoney
    /\ Postage \in Nat /\ Deposit \in Nat /\ StartBid \in Nat \ {0}
    /\ Prices \subseteq Nat \ {0} /\ Buyouts \subseteq Nat
    /\ Sums \subseteq Nat /\ Cods \subseteq Nat
    /\ MaxMails \in Nat /\ MaxLots \in Nat
ASSUME PlayersAssumption == IsFiniteSet(Players)

VARIABLES
    mem, disk,  \* the ledgers
    holder,     \* who holds the mail's and the auctions' locks
    job,        \* what each thread is at, with the auctions' lock
    pend,       \* the save each thread is about to send
    old, over,  \* mails past their time, auctions past theirs
    overdue,    \* expired mails the sweep found
    swept,      \* auctions it took out, to settle
    owed,       \* what mails sent back are owed
    nextMail, nextLot, moves, crashes

vars == <<mem, disk, holder, job, pend, old, over, overdue, swept,
          nextMail, nextLot, moves, crashes, owed>>

-----------------------------------------------------------------------------
(* A save: rows, records put or (None) deleted, and what it cost.  (TLC's  *)
(* own @@ and :> are not known to the proofs.)                             *)

Empty     == [k \in {} |-> None]
Put(k, v) == [x \in {k} |-> v]
Both(f, g) == [x \in DOMAIN f \cup DOMAIN g |-> IF x \in DOMAIN f THEN f[x] ELSE g[x]]
Onto(f, new) == [x \in DOMAIN f |-> IF x \in DOMAIN new THEN new[x] ELSE f[x]]

Tx(rows, mails, lots, fee, lost) ==
    [rows |-> rows, mail |-> mails, lot |-> lots, fee |-> fee, lost |-> lost]

Apply(L, tx) ==
    [rows |-> Onto(L.rows, tx.rows), mail |-> Onto(L.mail, tx.mail),
     lot |-> Onto(L.lot, tx.lot), spent |-> L.spent + tx.fee, lost |-> L.lost \cup tx.lost]
NoSave == Tx(Empty, Empty, Empty, 0, {})

Row(p)      == mem.rows[p]
Mail(id)    == mem.mail[id]
Lot(l)      == mem.lot[l]
Has(i)      == IF i = None THEN {} ELSE {i}
Paying(p, n)      == Put(p, [Row(p) EXCEPT !.gold = @ - n])
Giving(p, i, n)   == Put(p, [bag |-> Row(p).bag \ Has(i), gold |-> Row(p).gold - n])
Getting(p, i, n)  == Put(p, [bag |-> Row(p).bag \cup Has(i), gold |-> Row(p).gold + n])

Letter(from, to, item, money, cod) ==
    [kind |-> "normal", from |-> from, to |-> to, item |-> item, money |-> money,
     cod |-> cod, back |-> FALSE, payment |-> FALSE]
Payment(from, to, money) == [Letter(from, to, None, money, 0) EXCEPT !.payment = TRUE]
Notice(to, item, money)  == [Letter(None, to, item, money, 0) EXCEPT !.kind = "auction"]

(* post_in: each mail under the next id.                                   *)
Posting(letters) ==
    [id \in nextMail..(nextMail + Len(letters) - 1) |-> letters[id - nextMail + 1]]
RoomToPost(n) == nextMail + n - 1 <= MaxMails /\ nextMail' = nextMail + n

Init ==
    /\ \E owner \in [Items -> Players] :
          mem = [rows  |-> [p \in Players |-> [bag |-> {i \in Items : owner[i] = p}, gold |-> Gold]],
                 mail  |-> [id \in MailIds |-> None], lot |-> [l \in LotIds |-> None],
                 spent |-> 0, lost |-> {}]
    /\ disk = mem
    /\ holder = [mail |-> None, lots |-> None]
    /\ job = [t \in Threads |-> None] /\ pend = [t \in Threads |-> NoSave]
    /\ old = {} /\ over = {} /\ overdue = {} /\ swept = {}
    /\ nextMail = 1 /\ nextLot = 1 /\ moves = 0 /\ crashes = 0
    /\ owed = [id \in MailIds |-> None]

-----------------------------------------------------------------------------
(* The locks, and the save sent under them.                               *)

Idle(t) == job[t] = None /\ pend[t] = NoSave

(* Mutant: a lock let go as soon as memory has changed.                    *)
TakesBriefly(t, lock) == holder[lock] = None /\ UNCHANGED holder
Takes(t, lock) == holder[lock] = None /\ holder' = [holder EXCEPT ![lock] = t]

(* A change in memory, and its save on the way (mutant: the characters     *)
(* left to a save of their own).                                           *)
Saving(t, tx, saved) == mem' = Apply(mem, tx) /\ pend' = [pend EXCEPT ![t] = saved]
ChangesRecords(t, tx) == Saving(t, tx, [tx EXCEPT !.rows = Empty])
Changes(t, tx)        == Saving(t, tx, tx)

(* Store::save_together, and the locks let go.                            *)
Sent(t) ==
    /\ pend[t] # NoSave
    /\ disk' = Apply(disk, pend[t])
    /\ pend' = [pend EXCEPT ![t] = NoSave] /\ job' = [job EXCEPT ![t] = None]
    /\ holder' = [l \in DOMAIN holder |-> IF holder[l] = t THEN None ELSE holder[l]]
    /\ UNCHANGED <<mem, old, over, overdue, swept, nextMail, nextLot, moves, crashes, owed>>

(* What is in memory alone is lost; a start loads the rest, and counts ids *)
(* from the highest there is.                                              *)
NextId(f) == CHOOSE n \in 1..(Cardinality(DOMAIN f) + 1) :
                /\ \A m \in DOMAIN f : m >= n => f[m] = None
                /\ n > 1 => f[n - 1] # None

Crash ==
    /\ crashes < MaxCrashes /\ crashes' = crashes + 1
    /\ mem' = disk
    /\ holder' = [mail |-> None, lots |-> None]
    /\ job' = [t \in Threads |-> None] /\ pend' = [t \in Threads |-> NoSave]
    /\ overdue' = {} /\ swept' = {}
    /\ nextMail' = NextId(disk.mail) /\ nextLot' = NextId(disk.lot)
    /\ old' = {id \in old : disk.mail[id] # None}
    /\ over' = {l \in over : disk.lot[l] # None}
    /\ owed' = [id \in MailIds |-> IF \E t \in Threads : id \in DOMAIN pend[t].mail
                                   THEN None ELSE owed[id]]
    /\ UNCHANGED <<disk, moves>>

-----------------------------------------------------------------------------
(* Mail.                                                                   *)

MailStep(t) == Idle(t) /\ Takes(t, "mail")
MailKept    == UNCHANGED <<disk, job, over, overdue, swept, nextLot, crashes>>
Own(p, id)  == Mail(id) # None /\ Mail(id).to = p
Owes(id, m) == owed' = [owed EXCEPT ![id] = m]

(* mail::send: money, or an item, cash on delivery or not.                 *)
SendMail(p, to, i, money, cod) ==
    /\ moves < MaxMoves /\ moves' = moves + 1
    /\ p # to /\ (i # None => i \in Row(p).bag)
    /\ money = 0 \/ cod = 0
    /\ Row(p).gold >= money + Postage
    /\ MailStep(MapOf[p]) /\ RoomToPost(1)
    /\ Changes(MapOf[p],
          Tx(Giving(p, i, money + Postage),
             Posting(<<Letter(p, to, i, money, IF i = None THEN 0 ELSE cod)>>), Empty, Postage, {}))
    /\ UNCHANGED <<old, owed>> /\ MailKept

(* take_money: what fits under MAX_MONEY.                                  *)
TakeMoney(p, id) ==
    /\ Own(p, id)
    /\ MailStep(MapOf[p])
    /\ LET room == MaxMoney - Row(p).gold
           take == IF Mail(id).money < room THEN Mail(id).money ELSE room
       IN  /\ take > 0
           /\ Changes(MapOf[p],
                 Tx(Getting(p, None, take), Put(id, [Mail(id) EXCEPT !.money = @ - take]),
                    Empty, 0, {}))
    /\ Owes(id, None)
    /\ UNCHANGED <<old, nextMail, moves>> /\ MailKept

(* take_item: cash on delivery is paid, and goes to the sender (mutant:    *)
(* with the sender's next mail).                                           *)
Paid(p, m) == IF m.cod > 0 THEN <<Payment(p, m.from, m.cod)>> ELSE <<>>

ItemTaken(p, id, paid) ==
    /\ Own(p, id) /\ Mail(id).item # None /\ Row(p).gold >= Mail(id).cod
    /\ MailStep(MapOf[p])
    /\ LET m == Mail(id)
       IN  /\ RoomToPost(Len(paid))
           /\ Changes(MapOf[p],
                 Tx(Put(p, [bag |-> Row(p).bag \cup {m.item}, gold |-> Row(p).gold - m.cod]),
                    Both(Put(id, [m EXCEPT !.item = None, !.cod = 0]), Posting(paid)),
                    Empty, 0, {}))
    /\ Owes(id, None)
    /\ UNCHANGED <<old, moves>> /\ MailKept

TakeItemUnpaid(p, id) == ItemTaken(p, id, <<>>)
TakeItem(p, id)       == ItemTaken(p, id, Paid(p, Mail(id)))

(* send_back: to its sender, for its time again.                           *)
SentBack(m) == [m EXCEPT !.from = m.to, !.to = m.from, !.cod = 0,
                         !.back = TRUE, !.payment = FALSE]

ReturnMail(p, id) ==
    /\ Own(p, id) /\ Mail(id).kind = "normal" /\ ~Mail(id).back
    /\ MailStep(MapOf[p])
    /\ Changes(MapOf[p], Tx(Empty, Put(id, SentBack(Mail(id))), Empty, 0, {}))
    /\ Owes(id, SentBack(Mail(id)))
    /\ old' = old \ {id} /\ UNCHANGED <<nextMail, moves>> /\ MailKept

Discarded(id) == Tx(Empty, Put(id, None), Empty, Mail(id).money, Has(Mail(id).item))

DeleteMail(p, id) ==
    /\ Own(p, id) /\ Mail(id).cod = 0
    /\ MailStep(MapOf[p])
    /\ Changes(MapOf[p], Discarded(id))
    /\ Owes(id, None)
    /\ old' = old \ {id} /\ UNCHANGED <<nextMail, moves>> /\ MailKept

(* mail::sweep: what has expired is found, then each, by its id, and its   *)
(* expiry read again (mutant: not), goes back to a player who sent it, or  *)
(* away.                                                                   *)
FindExpired ==
    /\ Idle(Sweeper) /\ swept = {} /\ overdue = {}
    /\ holder.mail = None
    /\ old # {} /\ overdue' = old
    /\ UNCHANGED <<mem, disk, holder, job, pend, old, over, swept, nextMail, nextLot,
                   moves, crashes, owed>>

Passed(id) == /\ overdue' = overdue \ {id}
              /\ UNCHANGED <<disk, job, over, swept, nextMail, nextLot, moves, crashes>>

ExpireFound(id) ==
    /\ id \in overdue /\ Mail(id) # None
    /\ MailStep(Sweeper)
    /\ LET m == Mail(id)
       IN  IF /\ m.kind = "normal" /\ ~m.back /\ ~m.payment
              /\ m.item # None \/ m.money > 0
           THEN /\ Changes(Sweeper, Tx(Empty, Put(id, SentBack(m)), Empty, 0, {}))
                /\ Owes(id, SentBack(m))
           ELSE Changes(Sweeper, Discarded(id)) /\ UNCHANGED owed
    /\ old' = old \ {id} /\ Passed(id)

Expire(id) == id \in old /\ ExpireFound(id)

ExpireNot(id) ==
    /\ id \in overdue /\ (id \in old => Mail(id) = None)
    /\ Idle(Sweeper) /\ holder.mail = None
    /\ Passed(id) /\ UNCHANGED <<mem, holder, pend, old, owed>>

-----------------------------------------------------------------------------
(* Auctions.                                                               *)

LotKept == UNCHANGED <<disk, old, overdue, moves, crashes, owed>>

(* auction::sell                                                           *)
Sell(p, i, buyout) ==
    /\ i \in Row(p).bag /\ Row(p).gold >= Deposit
    /\ buyout = 0 \/ buyout >= StartBid
    /\ Idle(MapOf[p]) /\ Takes(MapOf[p], "lots")
    /\ nextLot <= MaxLots /\ nextLot' = nextLot + 1
    /\ Changes(MapOf[p],
          Tx(Giving(p, i, Deposit), Empty,
             Put(nextLot, [item |-> i, owner |-> p, bid |-> 0, bidder |-> None, buyout |-> buyout]),
             0, {}))
    /\ UNCHANGED <<job, over, swept, nextMail>> /\ LotKept

(* settle: the item to the winner, the money to the seller (mutant: the    *)
(* other way); and the outbid's refund.                                    *)
Cut(a)     == a.bid \div 2
SettledByOwner(a) == <<Notice(a.owner, a.item, 0), Notice(a.bidder, None, a.bid - Cut(a) + Deposit)>>
Settled(a) == <<Notice(a.bidder, a.item, 0), Notice(a.owner, None, a.bid - Cut(a) + Deposit)>>
Refund(a)  == IF a.bidder = None THEN <<>> ELSE <<Notice(a.bidder, None, a.bid)>>

(* bid: the auctions' lock, the checks, and the mail's lock after it       *)
(* (mutant: a raise of one's own pays in full).                            *)
Least(a) == IF a.bid > 0 THEN a.bid + 1 ELSE StartBid
CostInFull(p, a, price) == price
Cost(p, a, price) == IF a.bidder = p THEN price - a.bid ELSE price
Buys(a, price)    == a.buyout > 0 /\ price >= a.buyout

BidAsked(p, l, price) ==
    /\ Lot(l) # None /\ l \notin over /\ Lot(l).owner # p
    /\ Lot(l).bid > 0 => price > Lot(l).bid
    /\ price >= Least(Lot(l)) \/ Buys(Lot(l), price)
    /\ LET price2 == IF Buys(Lot(l), price) THEN Lot(l).buyout ELSE price
       IN  /\ Row(p).gold >= Cost(p, Lot(l), price2)
           /\ job' = [job EXCEPT ![MapOf[p]] =
                         [op |-> "bid", who |-> p, lot |-> l, price |-> price2]]
    /\ Idle(MapOf[p]) /\ Takes(MapOf[p], "lots")
    /\ UNCHANGED <<mem, pend, over, swept, nextMail, nextLot>> /\ LotKept

BidMade(t) ==
    /\ job[t] # None /\ job[t].op = "bid" /\ pend[t] = NoSave
    /\ Takes(t, "mail")
    /\ LET p      == job[t].who
           l      == job[t].lot
           a      == Lot(l)
           raised == [a EXCEPT !.bid = job[t].price, !.bidder = p]
           bought == Buys(a, job[t].price)
           mails  == (IF a.bidder = p THEN <<>> ELSE Refund(a))
                     \o (IF bought THEN Settled(raised) ELSE <<>>)
       IN  /\ RoomToPost(Len(mails))
           /\ Changes(t,
                 Tx(Paying(p, Cost(p, a, job[t].price)), Posting(mails),
                    Put(l, IF bought THEN None ELSE raised),
                    IF bought THEN Cut(raised) ELSE 0, {}))
           /\ over' = IF bought THEN over \ {l} ELSE over
    /\ UNCHANGED <<job, swept, nextLot>> /\ LotKept

(* cancel: the seller takes it back, and pays the cut of a bid on it.      *)
Fee(a) == IF a.bidder = None THEN 0 ELSE Cut(a)

CancelAsked(p, l) ==
    /\ Lot(l) # None /\ Lot(l).owner = p
    /\ Lot(l).bidder = None \/ l \notin over
    /\ Row(p).gold >= Fee(Lot(l))
    /\ Idle(MapOf[p]) /\ Takes(MapOf[p], "lots")
    /\ job' = [job EXCEPT ![MapOf[p]] = [op |-> "cancel", who |-> p, lot |-> l, price |-> 0]]
    /\ UNCHANGED <<mem, pend, over, swept, nextMail, nextLot>> /\ LotKept

CancelMade(t) ==
    /\ job[t] # None /\ job[t].op = "cancel" /\ pend[t] = NoSave
    /\ Takes(t, "mail")
    /\ LET p     == job[t].who
           a     == Lot(job[t].lot)
           mails == Refund(a) \o <<Notice(p, a.item, 0)>>
       IN  /\ RoomToPost(Len(mails))
           /\ Changes(t, Tx(Paying(p, Fee(a)), Posting(mails), Put(job[t].lot, None),
                            Fee(a) + Deposit, {}))
           /\ over' = over \ {job[t].lot}
    /\ UNCHANGED <<job, swept, nextLot>> /\ LotKept

(* auction::sweep: what has run out is taken out of memory, and the lock   *)
(* let go ...                                                              *)
SweepLots ==
    /\ Idle(Sweeper) /\ swept = {} /\ overdue = {}
    /\ holder.lots = None
    /\ over # {}
    /\ swept' = {[id |-> l, lot |-> Lot(l)] : l \in over} /\ over' = {}
    /\ mem' = [mem EXCEPT !.lot = [l \in LotIds |-> IF l \in over THEN None ELSE @[l]]]
    /\ UNCHANGED <<holder, job, pend, nextMail, nextLot>> /\ LotKept

(* ... then each settled, or sent back.                                    *)
Settle(x) ==
    /\ x \in swept /\ swept' = swept \ {x}
    /\ MailStep(Sweeper)
    /\ LET a     == x.lot
           mails == IF a.bidder # None THEN Settled(a) ELSE <<Notice(a.owner, a.item, 0)>>
       IN  /\ RoomToPost(Len(mails))
           /\ Changes(Sweeper, Tx(Empty, Posting(mails), Put(x.id, None),
                                  IF a.bidder # None THEN Cut(a) ELSE Deposit, {}))
    /\ UNCHANGED <<job, over, nextLot>> /\ LotKept

-----------------------------------------------------------------------------
(* trade::accept, both having: both sides' items and money at once, and    *)
(* both saved.                                                             *)
Traded(p, q, i, j, m, n) ==
    /\ moves < MaxMoves /\ moves' = moves + 1
    /\ p # q /\ MapOf[p] = MapOf[q] /\ Idle(MapOf[p])
    /\ i # None => i \in Row(p).bag
    /\ j # None => j \in Row(q).bag
    /\ Row(p).gold >= m /\ Row(q).gold >= n
    /\ Row(p).gold + n <= MaxMoney + m /\ Row(q).gold + m <= MaxMoney + n
    /\ Changes(MapOf[p],
          Tx(Both(Put(p, [bag |-> (Row(p).bag \ Has(i)) \cup Has(j), gold |-> Row(p).gold - m + n]),
                  Put(q, [bag |-> (Row(q).bag \ Has(j)) \cup Has(i), gold |-> Row(q).gold - n + m])),
             Empty, Empty, 0, {}))
    /\ UNCHANGED <<disk, holder, job, old, over, overdue, swept, nextMail, nextLot, crashes, owed>>

(* Time passes.                                                            *)
Ages ==
    /\ \/ \E id \in MailIds \ old : /\ Mail(id) # None /\ old' = old \cup {id}
                                     /\ Owes(id, None) /\ UNCHANGED over
       \/ \E l \in LotIds \ over : Lot(l) # None /\ over' = over \cup {l} /\ UNCHANGED <<old, owed>>
    /\ UNCHANGED <<mem, disk, holder, job, pend, overdue, swept, nextMail, nextLot,
                   moves, crashes>>

Next ==
    \/ \E t \in Threads : Sent(t) \/ BidMade(t) \/ CancelMade(t)
    \/ Crash \/ Ages
    \/ \E p \in Players :
          \/ \E id \in MailIds :
                TakeMoney(p, id) \/ TakeItem(p, id) \/ ReturnMail(p, id) \/ DeleteMail(p, id)
          \/ \E to \in Players, i \in Items \cup {None}, m \in Sums, c \in Cods :
                SendMail(p, to, i, m, c)
          \/ \E i \in Items, b \in Buyouts : Sell(p, i, b)
          \/ \E l \in LotIds : CancelAsked(p, l) \/ \E n \in Prices : BidAsked(p, l, n)
          \/ \E q \in Players, i, j \in Items \cup {None}, m, n \in Sums :
                Traded(p, q, i, j, m, n)
    \/ FindExpired \/ \E id \in MailIds : Expire(id) \/ ExpireNot(id)
    \/ SweepLots \/ \E x \in swept : Settle(x)

Spec == Init /\ [][Next]_vars

-----------------------------------------------------------------------------
(* Where an item is, in a ledger or a save.                                *)
Places(L, i) ==
    {<<"bag", p>> : p \in {p \in DOMAIN L.rows : i \in L.rows[p].bag}}
    \cup {<<"mail", id>> : id \in {id \in DOMAIN L.mail : L.mail[id] # None /\ L.mail[id].item = i}}
    \cup {<<"lot", l>> : l \in {l \in DOMAIN L.lot : L.lot[l] # None /\ L.lot[l].item = i}}

(* "a crash after it neither loses nor copies what moved"                  *)
(* (map/mod.rs:1849): whatever is written when the server goes, each item  *)
(* is in one bag, mail or auction there, and in no other.                  *)
ItemsOnce ==
    \A i \in Items : Cardinality(Places(disk, i)) = IF i \in disk.lost THEN 0 ELSE 1

(* The coins of a ledger, or of a save's records.                          *)
Golds(L)  == [p \in DOMAIN L.rows |-> L.rows[p].gold]
Moneys(L) == [id \in DOMAIN L.mail |-> IF L.mail[id] = None THEN 0 ELSE L.mail[id].money]
Stakes(L) == [l \in DOMAIN L.lot |-> IF L.lot[l] = None THEN 0 ELSE L.lot[l].bid + Deposit]
Coins(L)  == SumFunction(Golds(L)) + SumFunction(Moneys(L)) + SumFunction(Stakes(L)) + L.spent

(* ... no coin is made or lost in any of the moves but the fees, and no    *)
(* one has more than the most one may hold.                                *)
Conserved ==
    /\ ItemsOnce
    /\ Coins(disk) = Gold * Cardinality(Players)
    /\ \A p \in Players : Row(p).gold \in 0..MaxMoney

(* Of each character, mail and auction the last change is written last:    *)
(* with every save sent, the database says what memory does.               *)
LastWord ==
    swept = {} /\ (\A t \in Threads : pend[t] = NoSave) => disk = mem

(* A mail sent back, by its receiver or by the sweep, is there for its     *)
(* sender with all it held, for its time again, and a crash once that is   *)
(* sent to the store does not undo it: until they take or delete it or the *)
(* new time is up, a sweep that found it past its first time included.     *)
ReturnedIsKept ==
    \A id \in MailIds : owed[id] # None => Mail(id) = owed[id] /\ id \notin old

(* An item sent cash on delivery is its taker's only as the payment is on  *)
(* its way to the sender, and in the same transaction.                     *)
PaidFor ==
    [][\A id \in MailIds :
          LET m == disk.mail[id]
          IN  m # None /\ m.cod > 0 /\ m.item # None /\ m.item \in disk'.rows[m.to].bag
              => \E k \in MailIds : /\ disk'.mail[k] # None /\ disk.mail[k] # disk'.mail[k]
                                    /\ disk'.mail[k].payment
                                    /\ disk'.mail[k].to = m.from /\ disk'.mail[k].money = m.cod]_vars

(* An auction that ends gives the bidder the item and the owner the bid,   *)
(* less the cut; or the owner the item, and no one keeps a bid: whoever    *)
(* was outbid or called off is paid back in the same transaction.          *)
EndsFairly ==
    [][\A l \in LotIds :
          LET a            == disk.lot[l]
              Sends(to, i, n) == \E k \in MailIds : /\ disk'.mail[k] # disk.mail[k]
                                                   /\ disk'.mail[k] = Notice(to, i, n)
              Sold(to, n)  == Sends(to, a.item, 0) /\ Sends(a.owner, None, n - n \div 2 + Deposit)
          IN  a # None /\ disk'.lot[l] = None
              => \/ a.bidder # None /\ Sold(a.bidder, a.bid)
                 \/ /\ a.bidder # None => Sends(a.bidder, None, a.bid)
                    /\ \/ Sends(a.owner, a.item, 0)
                       \/ \E p \in Players \ {a.owner, a.bidder} : Sold(p, a.buyout)
                 \/ a.bidder # None /\ Sold(a.bidder, a.buyout)]_vars

(* Types and bounds.  No one holds more than MAX_MONEY whatever comes by   *)
(* mail, auction or trade; and a buyout ends its auction: no bid that      *)
(* reaches it waits.                                                       *)
Ledger == [rows : [Players -> Rows], mail : [MailIds -> Mails \cup {None}],
           lot : [LotIds -> Lots \cup {None}], spent : Nat, lost : SUBSET Items]

SaveOK(tx) ==
    /\ DOMAIN tx.rows \subseteq Players /\ \A p \in DOMAIN tx.rows : tx.rows[p] \in Rows
    /\ DOMAIN tx.mail \subseteq MailIds
    /\ \A id \in DOMAIN tx.mail : tx.mail[id] \in Mails \cup {None}
    /\ DOMAIN tx.lot \subseteq LotIds
    /\ \A l \in DOMAIN tx.lot : tx.lot[l] \in Lots \cup {None}
    /\ tx.fee \in Nat /\ tx.lost \subseteq Items

TypeOK ==
    /\ mem \in Ledger /\ disk \in Ledger
    /\ holder \in [{"mail", "lots"} -> Threads \cup {None}]
    /\ job \in [Threads -> Jobs \cup {None}]
    /\ DOMAIN pend = Threads /\ \A t \in Threads : SaveOK(pend[t])
    /\ old \subseteq MailIds /\ over \subseteq LotIds /\ overdue \subseteq MailIds
    /\ swept \subseteq [id : LotIds, lot : Lots]
    /\ nextMail \in Nat \ {0} /\ nextLot \in Nat \ {0} /\ moves \in Nat /\ crashes \in Nat

=============================================================================
