-------------------------------- MODULE Trade --------------------------------
(***************************************************************************)
(* Trades between players near each other on one map (map/trade.rs): each  *)
(* side offers items and money, either may change its offer, move, stack   *)
(* or lose what it offered, and walk away at any time, and once both have  *)
(* accepted everything changes hands at once or nothing does.  The map is  *)
(* one thread: a step is one packet or one update.                         *)
(*                                                                         *)
(* `shown` is a history: each player's window on their partner's offer, as *)
(* the map last sent it; `agreed`, what it showed as they accepted, while  *)
(* that stands; and `deal`, of a trade that has just gone through, what    *)
(* each got and had agreed to.  Spells on the item in the slot not traded  *)
(* are left out, but that they may call the acceptance off.                *)
(***************************************************************************)
EXTENDS Naturals, FiniteSets

CONSTANTS
    Players, Items,
    None,       \* nobody, nothing
    Slots,      \* a side's slots ...
    NotTraded,  \* ... and the one whose item stays with its owner
    Spots,      \* where one may stand: within reach of those at the same
    Counts,     \* how many a stack may have
    Gold,       \* what each has at first
    MaxMoney    \* the most one may hold

ASSUME TradeAssumption ==
    /\ None \notin Players \cup Items
    /\ NotTraded \in Slots
    /\ Counts \subseteq Nat
    /\ Gold \in Nat /\ MaxMoney \in Nat /\ Gold <= MaxMoney

VARIABLES
    with,      \* each player's partner in a trade
    offered,   \* the item in each slot of theirs
    counts,    \* its stack, as it was offered
    money,     \* the money they offer
    accepted,  \* they accept
    owner,     \* whose each item is
    carried,   \* the items in a backpack or a bag: not worn, banked or sold
    stack,     \* how many each is
    gold, spot,
    shown, agreed, deal

trade == <<with, offered, counts, money, accepted>>
goods == <<owner, carried, stack, gold, spot>>
vars  == <<with, offered, counts, money, accepted, owner, carried, stack, gold, spot,
           shown, agreed, deal>>

NoItems   == [s \in Slots |-> None]
NoCounts  == [s \in Slots |-> 0]
NoDeal    == [p \in Players |-> None]
NoWindow  == [items |-> NoItems, counts |-> NoCounts, money |-> 0]
ForTrade  == Slots \ {NotTraded}

Init ==
    /\ with = [p \in Players |-> None]
    /\ offered = [p \in Players |-> NoItems] /\ counts = [p \in Players |-> NoCounts]
    /\ money = [p \in Players |-> 0] /\ accepted = [p \in Players |-> FALSE]
    /\ owner \in [Items -> Players] /\ carried = Items /\ stack \in [Items -> Counts]
    /\ gold = [p \in Players |-> Gold] /\ spot \in [Players -> Spots]
    /\ shown = [p \in Players |-> NoWindow] /\ agreed = [p \in Players |-> NoWindow]
    /\ deal = NoDeal

-----------------------------------------------------------------------------
Near(p, q) == spot[p] = spot[q]

(* An acceptance that no longer stands.                                    *)
Withdrawn(S) == agreed' = [p \in Players |-> IF p \in S THEN NoWindow ELSE agreed[p]]

(* Both sides of a new trade, or of one that ends.                         *)
Reset(g, w, gWith, wWith) ==
    /\ with' = [with EXCEPT ![g] = gWith, ![w] = wWith]
    /\ offered' = [offered EXCEPT ![g] = NoItems, ![w] = NoItems]
    /\ counts' = [counts EXCEPT ![g] = NoCounts, ![w] = NoCounts]
    /\ money' = [money EXCEPT ![g] = 0, ![w] = 0]
    /\ accepted' = [accepted EXCEPT ![g] = FALSE, ![w] = FALSE]
    /\ shown' = [shown EXCEPT ![g] = NoWindow, ![w] = NoWindow]
    /\ Withdrawn({g, w})

(* initiate: neither is in a trade.                                        *)
Initiate(g, w) ==
    /\ g # w /\ with[g] = None /\ with[w] = None /\ Near(g, w)
    /\ Reset(g, w, w, g)
    /\ deal' = NoDeal /\ UNCHANGED goods

(* cancel: by either, or as one dies, logs out or leaves the map.          *)
Ends(g) == Reset(g, with[g], None, None)

Cancel(g) ==
    /\ with[g] # None
    /\ Ends(g)
    /\ deal' = NoDeal /\ UNCHANGED goods

(* update: partners who have moved apart.                                  *)
Update(g) == ~Near(g, with[g]) /\ Cancel(g)

-----------------------------------------------------------------------------
(* An offer.                                                               *)

(* offer: what the partner's window is sent.                               *)
Window(g) ==
    [items  |-> [s \in Slots |-> IF offered'[g][s] # None /\ owner[offered'[g][s]] = g
                                 THEN offered'[g][s] ELSE None],
     counts |-> [s \in Slots |-> IF offered'[g][s] # None /\ owner[offered'[g][s]] = g
                                 THEN stack[offered'[g][s]] ELSE 0],
     money  |-> money'[g]]

(* changed: neither side has accepted it, and the partner sees it          *)
(* (mutants: the partner's acceptance stands; they aren't sent it).        *)
ChangedOwn(g) ==
    /\ accepted' = [accepted EXCEPT ![g] = FALSE] /\ Withdrawn({g})
    /\ shown' = [shown EXCEPT ![with[g]] = Window(g)]
ChangedUnseen(g) ==
    /\ accepted' = [accepted EXCEPT ![g] = FALSE, ![with[g]] = FALSE]
    /\ Withdrawn({g, with[g]}) /\ UNCHANGED shown
Changed(g) ==
    /\ accepted' = [accepted EXCEPT ![g] = FALSE, ![with[g]] = FALSE]
    /\ Withdrawn({g, with[g]})
    /\ shown' = [shown EXCEPT ![with[g]] = Window(g)]

Tradable(g, i) == owner[i] = g /\ i \in carried

SetItem(g, s, i) ==
    /\ with[g] # None /\ Tradable(g, i)
    /\ \A t \in Slots : offered[g][t] # i
    /\ offered' = [offered EXCEPT ![g][s] = i]
    /\ counts' = [counts EXCEPT ![g][s] = stack[i]]
    /\ UNCHANGED money /\ Changed(g)
    /\ deal' = NoDeal /\ UNCHANGED <<with, goods>>

ClearItem(g, s) ==
    /\ with[g] # None
    /\ offered' = [offered EXCEPT ![g][s] = None]
    /\ UNCHANGED money /\ Changed(g)
    /\ deal' = NoDeal /\ UNCHANGED <<with, counts, goods>>

(* Any sum: that they have it is looked at as it goes through.             *)
SetMoney(g, n) ==
    /\ with[g] # None
    /\ money' = [money EXCEPT ![g] = n]
    /\ UNCHANGED offered /\ Changed(g)
    /\ deal' = NoDeal /\ UNCHANGED <<with, counts, goods>>

Unaccept(g) ==
    /\ with[g] # None
    /\ accepted' = [accepted EXCEPT ![g] = FALSE] /\ Withdrawn({g})
    /\ deal' = NoDeal /\ UNCHANGED <<with, offered, counts, money, goods, shown>>

-----------------------------------------------------------------------------
(* accept.                                                                 *)

(* offer_holds: each item still theirs to trade, its stack as offered.     *)
OfferHolds(g) == \A s \in ForTrade : offered[g][s] # None =>
    Tradable(g, offered[g][s]) /\ stack[offered[g][s]] = counts[g][s]

(* Each can pay, and hold what comes (mutant: their room isn't looked at). *)
CanPay(g, w)  == gold[g] >= money[g]
HasRoom(g, w) == gold[g] + money[w] <= MaxMoney + money[g]
Affords(g, w) == CanPay(g, w) /\ HasRoom(g, w)

(* The partner hasn't.                                                     *)
AcceptFirst(g) ==
    /\ with[g] # None /\ ~accepted[with[g]]
    /\ accepted' = [accepted EXCEPT ![g] = TRUE]
    /\ agreed' = [agreed EXCEPT ![g] = shown[g]]
    /\ deal' = NoDeal /\ UNCHANGED <<with, offered, counts, money, goods, shown>>

(* Both have, and they are apart, or an offer no longer holds.             *)
AcceptCancelled(g) ==
    /\ with[g] # None /\ accepted[with[g]]
    /\ ~Near(g, with[g]) \/ ~OfferHolds(g) \/ ~OfferHolds(with[g])
    /\ Ends(g)
    /\ deal' = NoDeal /\ UNCHANGED goods

(* ... or one can't pay or has no room for what comes, or a spell isn't    *)
(* ready: back to the trade.                                               *)
AcceptBack(g) ==
    /\ with[g] # None /\ accepted[with[g]]
    /\ Near(g, with[g]) /\ OfferHolds(g) /\ OfferHolds(with[g])
    /\ accepted' = [accepted EXCEPT ![g] = FALSE, ![with[g]] = FALSE]
    /\ Withdrawn({g, with[g]})
    /\ deal' = NoDeal /\ UNCHANGED <<with, offered, counts, money, goods, shown>>

(* ... or it goes through.                                                 *)
Got(g) == [items  |-> [s \in ForTrade |-> offered[with[g]][s]],
           counts |-> [s \in ForTrade |-> IF offered[with[g]][s] = None THEN 0
                                          ELSE stack[offered[with[g]][s]]],
           money  |-> money[with[g]]]
Saw(win) == [items  |-> [s \in ForTrade |-> win.items[s]],
             counts |-> [s \in ForTrade |-> win.counts[s]],
             money  |-> win.money]
Traded(g, i) == \E s \in ForTrade : offered[g][s] = i
Capped(n)    == IF n < MaxMoney THEN n ELSE MaxMoney

AcceptGoes(g) ==
    /\ with[g] # None /\ accepted[with[g]]
    /\ Near(g, with[g]) /\ OfferHolds(g) /\ OfferHolds(with[g])
    /\ Affords(g, with[g]) /\ Affords(with[g], g)
    /\ owner' = [i \in Items |-> IF Traded(g, i) THEN with[g]
                                 ELSE IF Traded(with[g], i) THEN g ELSE owner[i]]
    /\ gold' = [gold EXCEPT ![g] = Capped(@ - money[g] + money[with[g]]),
                            ![with[g]] = Capped(@ - money[with[g]] + money[g])]
    /\ deal' = [NoDeal EXCEPT
          ![g]       = [got |-> Got(g), saw |-> Saw(shown[g])],
          ![with[g]] = [got |-> Got(with[g]), saw |-> Saw(agreed[with[g]])]]
    /\ Ends(g)
    /\ UNCHANGED <<carried, stack, spot>>

Accept(g) == AcceptFirst(g) \/ AcceptCancelled(g) \/ AcceptBack(g) \/ AcceptGoes(g)

-----------------------------------------------------------------------------
(* What else the players do meanwhile, none of which tells the trade.      *)

(* An item worn, banked or sold, and back.                                 *)
PutAway(i) == i \in carried /\ carried' = carried \ {i}
TakeOut(i) == i \notin carried /\ carried' = carried \cup {i}
(* Some of it split off, or more put onto it.                              *)
Restack(i, n) == stack' = [stack EXCEPT ![i] = n]
(* Gone: destroyed, used up, mailed, put up at auction; and come back, to  *)
(* where it may be traded from.                                            *)
Loses(i) ==
    /\ owner' = [owner EXCEPT ![i] = None]
    /\ carried' = carried \cup {i}
Gains(p, i) == owner[i] = None /\ owner' = [owner EXCEPT ![i] = p]
(* Money earned and spent.                                                 *)
Purse(p, n) == gold' = [gold EXCEPT ![p] = n]
Walks(p, s) == spot' = [spot EXCEPT ![p] = s]

Meanwhile ==
    \/ \E i \in Items : owner[i] # None /\
          \/ (PutAway(i) \/ TakeOut(i)) /\ UNCHANGED <<owner, stack, gold, spot>>
          \/ Loses(i) /\ UNCHANGED <<stack, gold, spot>>
          \/ \E n \in Counts : Restack(i, n) /\ UNCHANGED <<owner, carried, gold, spot>>
    \/ \E p \in Players :
          \/ \E i \in Items : Gains(p, i) /\ UNCHANGED <<carried, stack, gold, spot>>
          \/ \E n \in 0..MaxMoney : Purse(p, n) /\ UNCHANGED <<owner, carried, stack, spot>>
          \/ \E s \in Spots : Walks(p, s) /\ UNCHANGED <<owner, carried, stack, gold>>

Next ==
    \/ \E g \in Players :
          \/ \E w \in Players : Initiate(g, w)
          \/ Cancel(g) \/ (with[g] # None /\ Update(g)) \/ Accept(g) \/ Unaccept(g)
          \/ \E s \in Slots : ClearItem(g, s) \/ \E i \in Items : SetItem(g, s, i)
          \/ \E n \in 0..MaxMoney : SetMoney(g, n)
    \/ Meanwhile /\ deal' = NoDeal /\ UNCHANGED <<trade, shown, agreed>>

Spec == Init /\ [][Next]_vars

-----------------------------------------------------------------------------
Window0 == [items : [Slots -> Items \cup {None}], counts : [Slots -> Nat], money : Nat]

TypeOK ==
    /\ with \in [Players -> Players \cup {None}]
    /\ offered \in [Players -> [Slots -> Items \cup {None}]]
    /\ counts \in [Players -> [Slots -> Nat]]
    /\ money \in [Players -> 0..MaxMoney]
    /\ accepted \in [Players -> BOOLEAN]
    /\ owner \in [Items -> Players \cup {None}] /\ carried \subseteq Items
    /\ stack \in [Items -> Counts]
    /\ gold \in [Players -> 0..MaxMoney]
    /\ shown \in [Players -> Window0] /\ agreed \in [Players -> Window0]

(* A trade has two sides, each the other's: no one is in two, and none     *)
(* ends for one of them alone.                                             *)
Paired == \A p \in Players : with[p] # None => with[p] # p /\ with[with[p]] = p

(* What a window shows of an offer is in it: its money, and each item in   *)
(* its slot (not each item of the offer in the window: one that was gone   *)
(* when it was sent may be back).                                          *)
Stands(win, w) ==
    /\ win.money = money[w]
    /\ \A s \in ForTrade : win.items[s] # None => offered[w][s] = win.items[s]

(* An acceptance stands for the offer as its maker saw it: whatever        *)
(* changes an offer calls both acceptances off (changed, map/trade.rs:182).*)
AcceptedStands ==
    \A p \in Players : with[p] # None /\ accepted[p] => Stands(agreed[p], with[p])

(* No trade gives either less than they saw as they accepted: every item   *)
(* in its slot, and the money.                                             *)
DealAsAgreed ==
    \A p \in Players : deal[p] # None =>
        /\ deal[p].got.money = deal[p].saw.money
        /\ \A s \in ForTrade : deal[p].saw.items[s] # None
                              => deal[p].got.items[s] = deal[p].saw.items[s]

(* "both accept, and everything changes hands at once or nothing does"     *)
(* (map/trade.rs:3): the step that ends a trade well does so for both      *)
(* sides, makes and loses no money, and takes each item from the one who   *)
(* has it to the other.                                                    *)
AllChangesHands ==
    [][\A p \in Players : deal'[p] # None =>
          LET w == with[p]
          IN  /\ with'[p] = None /\ with'[w] = None
              /\ gold'[p] + gold'[w] = gold[p] + gold[w]
              /\ \A s \in ForTrade : offered[p][s] # None =>
                    owner[offered[p][s]] = p /\ owner'[offered[p][s]] = w]_vars

(* Each slot's stack "as it was offered, as the partner saw it"            *)
(* (map/trade.rs:27): and as many of each as they saw.                     *)
CountsAsShown ==
    \A p \in Players : deal[p] # None => deal[p].got.counts = deal[p].saw.counts

=============================================================================
