---------------------------- MODULE TradeProofs ----------------------------
(***************************************************************************)
(* What holds of trades for any number of players, items and slots, and    *)
(* any sums: a trade has two sides, an acceptance stands for the offer as  *)
(* it was shown, and what goes through is what both accepted, all of it at *)
(* once.                                                                   *)
(***************************************************************************)
EXTENDS Trade, TLAPS

-----------------------------------------------------------------------------
(* The inductive invariant: a window always stands for the partner's       *)
(* offer, for each change to it is shown, and one who accepts accepted     *)
(* that very window, for each change calls their acceptance off.           *)
Partner == Players \cup {None}
Offer   == [Slots -> Items \cup {None}]

TradeType ==
    /\ with \in [Players -> Partner]
    /\ offered \in [Players -> Offer]
    /\ counts \in [Players -> [Slots -> Nat]]
    /\ money \in [Players -> 0..MaxMoney]
    /\ accepted \in [Players -> BOOLEAN]
    /\ shown \in [Players -> Window0] /\ agreed \in [Players -> Window0]
GoodsType ==
    /\ owner \in [Items -> Players \cup {None}] /\ carried \subseteq Items
    /\ stack \in [Items -> Counts]
    /\ gold \in [Players -> 0..MaxMoney]
Seen     == \A p \in Players : with[p] # None => Stands(shown[p], with[p])
Accepted == \A p \in Players : with[p] # None /\ accepted[p] => agreed[p] = shown[p]

IInv == TypeOK /\ Paired /\ Seen /\ Accepted /\ DealAsAgreed

TradeInv == TradeType /\ Paired /\ Seen /\ Accepted

LEMMA Types == (TypeOK <=> TradeType /\ GoodsType) /\ (TypeOK' <=> TradeType' /\ GoodsType')
BY DEF TypeOK, TradeType, GoodsType, Partner, Offer

(* An empty window is one, and shows nothing that isn't in an empty offer. *)
LEMMA Nothing ==
    /\ NoWindow \in Window0 /\ NoItems \in Offer /\ NoCounts \in [Slots -> Nat]
    /\ NoWindow.money = 0 /\ \A s \in Slots : NoWindow.items[s] = None
BY DEF NoWindow, NoItems, NoCounts, Window0, Offer

(* No deal is none for each.                                               *)
LEMMA NoDeals ==
    ASSUME deal' = NoDeal PROVE (\A p \in Players : deal'[p] = None) /\ DealAsAgreed'
BY DEF NoDeal, DealAsAgreed

-----------------------------------------------------------------------------
(* The two ways a trade changes.                                           *)

(* A pair who trade with each other, or neither with anyone, begin anew or *)
(* end: no one else trades with either of them.                            *)
LEMMA Resetting ==
    ASSUME TradeInv, NEW g \in Players, NEW w \in Players, g # w,
           NEW a \in Partner, NEW b \in Partner, Reset(g, w, a, b),
           \/ with[g] = None /\ with[w] = None /\ a = w /\ b = g
           \/ with[g] = w /\ a = None /\ b = None
    PROVE  TradeInv'
<1> USE DEF TradeInv
<1>1. TradeType'
    <2>1. with' \in [Players -> Partner] /\ accepted' \in [Players -> BOOLEAN]
        BY DEF Reset, TradeType
    <2>2. offered' \in [Players -> Offer] /\ counts' \in [Players -> [Slots -> Nat]]
        BY Nothing DEF Reset, TradeType
    <2>3. 0 \in 0..MaxMoney
        BY TradeAssumption
    <2>4. money' \in [Players -> 0..MaxMoney]
        BY <2>3 DEF Reset, TradeType
    <2>5. shown' \in [Players -> Window0] /\ agreed' \in [Players -> Window0]
        BY Nothing DEF Reset, Withdrawn, TradeType
    <2> QED BY <2>1, <2>2, <2>4, <2>5 DEF TradeType
<1>2. /\ with' = [with EXCEPT ![g] = a, ![w] = b]
      /\ offered' = [offered EXCEPT ![g] = NoItems, ![w] = NoItems]
      /\ money' = [money EXCEPT ![g] = 0, ![w] = 0]
      /\ accepted' = [accepted EXCEPT ![g] = FALSE, ![w] = FALSE]
      /\ shown' = [shown EXCEPT ![g] = NoWindow, ![w] = NoWindow]
      /\ agreed' = [p \in Players |-> IF p \in {g, w} THEN NoWindow ELSE agreed[p]]
    BY DEF Reset, Withdrawn
<1>3. None \notin Players
    BY TradeAssumption
<1>4. \A p \in Players \ {g, w} :
          with'[p] = with[p] /\ (with[p] # None => with[p] \in Players \ {g, w})
    BY <1>2, <1>3 DEF TradeType, Partner, Paired
<1>5. with'[g] = a /\ with'[w] = b
    BY <1>2 DEF TradeType
<1>6. Paired'
    BY <1>3, <1>4, <1>5 DEF Paired
<1>7. Seen'
    <2> SUFFICES ASSUME NEW p \in Players, with'[p] # None
                 PROVE  Stands(shown[p], with[p])'
        BY DEF Seen
    <2>1. CASE p \in {g, w}
        <3>1. shown'[p] = NoWindow /\ with'[p] \in {g, w}
            BY <1>2, <1>5, <2>1 DEF TradeType
        <3>2. money'[with'[p]] = 0
            BY <1>2, <3>1 DEF TradeType
        <3> QED BY <3>1, <3>2, Nothing DEF Stands, ForTrade
    <2>2. CASE p \notin {g, w}
        <3>1. with'[p] = with[p] /\ with[p] \in Players \ {g, w}
            BY <1>4, <2>2
        <3>2. /\ shown'[p] = shown[p]
              /\ offered'[with[p]] = offered[with[p]] /\ money'[with[p]] = money[with[p]]
            BY <1>2, <2>2, <3>1 DEF TradeType
        <3>3. Stands(shown[p], with[p])
            BY <3>1, TradeAssumption DEF Seen
        <3> QED BY <3>1, <3>2, <3>3 DEF Stands
    <2> QED BY <2>1, <2>2
<1>8. Accepted'
    <2> SUFFICES ASSUME NEW p \in Players, with'[p] # None, accepted'[p]
                 PROVE  agreed'[p] = shown'[p]
        BY DEF Accepted
    <2>1. p \notin {g, w}
        BY <1>2 DEF TradeType
    <2>2. with'[p] = with[p] /\ agreed'[p] = agreed[p] /\ shown'[p] = shown[p]
        BY <1>2, <1>4, <2>1 DEF TradeType
    <2>3. with[p] # None
        BY <2>2
    <2>4. accepted[p]
        BY <1>2, <2>1 DEF TradeType
    <2>5. agreed[p] = shown[p]
        BY <2>3, <2>4 DEF Accepted
    <2> QED BY <2>2, <2>5
<1> QED BY <1>1, <1>6, <1>7, <1>8

(* One side changes their offer, and their partner is shown it.            *)
LEMMA Changing ==
    ASSUME TradeInv, GoodsType, NEW g \in Players, with[g] # None, Changed(g),
           offered' \in [Players -> Offer], \A p \in Players \ {g} : offered'[p] = offered[p],
           money' \in [Players -> 0..MaxMoney], \A p \in Players \ {g} : money'[p] = money[p],
           counts' \in [Players -> [Slots -> Nat]], with' = with
    PROVE  TradeInv'
<1> USE DEF TradeInv
<1> DEFINE w == with[g]
<1>1. w \in Players /\ w # g /\ with[w] = g /\ None \notin Players
    BY TradeAssumption DEF TradeType, Partner, Paired
<1>2. /\ accepted' = [accepted EXCEPT ![g] = FALSE, ![w] = FALSE]
      /\ agreed' = [p \in Players |-> IF p \in {g, w} THEN NoWindow ELSE agreed[p]]
      /\ shown' = [shown EXCEPT ![w] = Window(g)]
    BY DEF Changed, Withdrawn
<1>3. /\ Window(g) \in Window0 /\ Window(g).money = money'[g]
      /\ \A s \in Slots : Window(g).items[s] # None => offered'[g][s] = Window(g).items[s]
    <2>1. \A s \in Slots : offered'[g][s] \in Items \cup {None}
        BY DEF Offer
    <2>2. \A i \in Items : stack[i] \in Nat
        BY TradeAssumption DEF GoodsType
    <2>3. money'[g] \in Nat
        BY TradeAssumption
    <2> QED BY <2>1, <2>2, <2>3 DEF Window, Window0
<1>4. TradeType'
    <2>1. shown' \in [Players -> Window0] /\ agreed' \in [Players -> Window0]
        BY <1>2, <1>3, Nothing DEF TradeType
    <2>2. accepted' \in [Players -> BOOLEAN]
        BY <1>2 DEF TradeType
    <2> QED BY <2>1, <2>2 DEF TradeType
<1>5. Paired'
    BY DEF Paired
<1>6. Seen'
    <2> SUFFICES ASSUME NEW p \in Players, with[p] # None
                 PROVE  Stands(shown[p], with[p])'
        BY DEF Seen
    <2>1. CASE p = w
        <3>1. with'[p] = g /\ shown'[p] = Window(g)
            BY <1>1, <1>2, <2>1 DEF TradeType
        <3> QED BY <1>3, <3>1 DEF Stands, ForTrade
    <2>2. CASE p # w
        <3>1. with[p] \in Players /\ with[p] # g
            BY <1>1, <2>2 DEF TradeType, Partner, Paired
        <3>2. shown'[p] = shown[p]
            BY <1>2, <2>2 DEF TradeType
        <3>3. offered'[with[p]] = offered[with[p]] /\ money'[with[p]] = money[with[p]]
            BY <3>1
        <3> QED BY <3>2, <3>3 DEF Seen, Stands
    <2> QED BY <2>1, <2>2
<1>7. Accepted'
    <2> SUFFICES ASSUME NEW p \in Players, with[p] # None, accepted'[p]
                 PROVE  agreed'[p] = shown'[p]
        BY DEF Accepted
    <2>1. p \notin {g, w}
        BY <1>1, <1>2 DEF TradeType
    <2> QED BY <1>2, <2>1 DEF Accepted, TradeType
<1> QED BY <1>4, <1>5, <1>6, <1>7

(* Some acceptances are called off, and nothing else changes.              *)
LEMMA CallingOff ==
    ASSUME TradeInv, NEW S \in SUBSET Players, Withdrawn(S),
           accepted' \in [Players -> BOOLEAN], \A p \in S : ~accepted'[p],
           \A p \in Players \ S : accepted'[p] = accepted[p],
           UNCHANGED <<with, offered, counts, money, shown>>
    PROVE  TradeInv'
<1> USE DEF TradeInv
<1>1. agreed' \in [Players -> Window0]
    BY Nothing DEF Withdrawn, TradeType
<1>2. TradeType'
    BY <1>1 DEF TradeType
<1>3. Paired' /\ Seen'
    BY DEF Paired, Seen, Stands
<1>4. Accepted'
    BY DEF Accepted, Withdrawn
<1> QED BY <1>2, <1>3, <1>4

-----------------------------------------------------------------------------
(* Each step.                                                              *)

LEMMA InitInv == Init => IInv
<1> SUFFICES ASSUME Init PROVE IInv
    OBVIOUS
<1>1. 0 \in 0..MaxMoney /\ Gold \in 0..MaxMoney
    BY TradeAssumption
<1>2. TypeOK
    <2>1. money \in [Players -> 0..MaxMoney] /\ gold \in [Players -> 0..MaxMoney]
        BY <1>1 DEF Init
    <2>2. /\ offered \in [Players -> Offer] /\ counts \in [Players -> [Slots -> Nat]]
          /\ shown \in [Players -> Window0] /\ agreed \in [Players -> Window0]
        BY Nothing DEF Init
    <2> QED BY <2>1, <2>2 DEF Init, TypeOK, Offer
<1>3. Paired /\ Seen /\ Accepted /\ DealAsAgreed
    BY DEF Init, Paired, Seen, Accepted, DealAsAgreed, NoDeal
<1> QED BY <1>2, <1>3 DEF IInv

(* The steps in which nothing changes hands.                               *)
LEMMA TradeSteps ==
    ASSUME IInv, NEW g \in Players,
           \/ \E w \in Players : Initiate(g, w)
           \/ Cancel(g) \/ Unaccept(g)
           \/ AcceptFirst(g) \/ AcceptCancelled(g) \/ AcceptBack(g)
           \/ \E s \in Slots : ClearItem(g, s) \/ \E i \in Items : SetItem(g, s, i)
           \/ \E n \in 0..MaxMoney : SetMoney(g, n)
    PROVE  TradeInv' /\ UNCHANGED goods /\ deal' = NoDeal
<1>1. TradeInv /\ TradeType /\ GoodsType /\ Paired /\ None \notin Players
    BY Types, TradeAssumption DEF IInv, TradeInv
<1>2. with[g] # None =>
          with[g] \in Players /\ with[g] # g /\ with[with[g]] = g /\ None \in Partner
    BY <1>1 DEF TradeType, Partner, Paired
<1>3. ASSUME NEW w \in Players, Initiate(g, w)
      PROVE  TradeInv' /\ UNCHANGED goods /\ deal' = NoDeal
    <2>1. g \in Partner /\ w \in Partner
        BY DEF Partner
    <2> QED BY <1>1, <1>3, <2>1, Resetting DEF Initiate
<1>4. CASE Cancel(g) \/ AcceptCancelled(g)
    <2>1. /\ with[g] # None /\ Reset(g, with[g], None, None)
          /\ UNCHANGED goods /\ deal' = NoDeal
        BY <1>4 DEF Cancel, AcceptCancelled, Ends
    <2> QED BY <1>1, <1>2, <2>1, Resetting
<1>5. CASE Unaccept(g)
    <2>1. accepted' = [accepted EXCEPT ![g] = FALSE] /\ Withdrawn({g})
        BY <1>5 DEF Unaccept
    <2>2. accepted' \in [Players -> BOOLEAN] /\ ~accepted'[g]
          /\ \A p \in Players \ {g} : accepted'[p] = accepted[p]
        BY <1>1, <2>1 DEF TradeType
    <2>3. {g} \in SUBSET Players /\ \A p \in {g} : ~accepted'[p]
        BY <2>2
    <2>4. UNCHANGED <<with, offered, counts, money, shown>> /\ UNCHANGED goods /\ deal' = NoDeal
        BY <1>5 DEF Unaccept
    <2> QED BY <1>1, <2>1, <2>2, <2>3, <2>4, CallingOff
<1>6. CASE AcceptBack(g)
    <2>1. /\ accepted' = [accepted EXCEPT ![g] = FALSE, ![with[g]] = FALSE]
          /\ Withdrawn({g, with[g]}) /\ with[g] # None
        BY <1>6 DEF AcceptBack
    <2>2. accepted' \in [Players -> BOOLEAN] /\ ~accepted'[g] /\ ~accepted'[with[g]]
        BY <1>1, <1>2, <2>1 DEF TradeType
    <2>3. \A p \in Players \ {g, with[g]} : accepted'[p] = accepted[p]
        BY <1>1, <2>1 DEF TradeType
    <2>4. {g, with[g]} \in SUBSET Players /\ \A p \in {g, with[g]} : ~accepted'[p]
        BY <1>2, <2>1, <2>2
    <2>5. UNCHANGED <<with, offered, counts, money, shown>> /\ UNCHANGED goods /\ deal' = NoDeal
        BY <1>6 DEF AcceptBack
    <2> QED BY <1>1, <2>1, <2>2, <2>3, <2>4, <2>5, CallingOff
<1>7. CASE AcceptFirst(g)
    <2>1. /\ accepted' = [accepted EXCEPT ![g] = TRUE] /\ agreed' = [agreed EXCEPT ![g] = shown[g]]
          /\ UNCHANGED <<with, offered, counts, money, shown>>
          /\ UNCHANGED goods /\ deal' = NoDeal
        BY <1>7 DEF AcceptFirst
    <2>2. TradeType'
        BY <1>1, <2>1 DEF TradeType
    <2>3. Paired' /\ Seen'
        BY <1>1, <2>1 DEF TradeInv, Paired, Seen, Stands
    <2>4. Accepted'
        <3> SUFFICES ASSUME NEW p \in Players, with'[p] # None, accepted'[p]
                     PROVE  agreed'[p] = shown'[p]
            BY DEF Accepted
        <3>1. CASE p = g
            BY <1>1, <2>1, <3>1 DEF TradeType
        <3>2. CASE p # g
            <4>1. /\ with'[p] = with[p] /\ accepted'[p] = accepted[p]
                  /\ agreed'[p] = agreed[p] /\ shown'[p] = shown[p]
                BY <1>1, <2>1, <3>2 DEF TradeType
            <4>2. with[p] # None
                BY <4>1
            <4>3. accepted[p]
                BY <4>1
            <4>4. agreed[p] = shown[p]
                BY <1>1, <4>2, <4>3 DEF TradeInv, Accepted
            <4> QED BY <4>1, <4>4
        <3> QED BY <3>1, <3>2
    <2> QED BY <2>1, <2>2, <2>3, <2>4 DEF TradeInv
<1>8. ASSUME NEW s \in Slots, ClearItem(g, s)
      PROVE  TradeInv' /\ UNCHANGED goods /\ deal' = NoDeal
    <2>1. /\ with[g] # None /\ offered' = [offered EXCEPT ![g][s] = None]
          /\ money' = money /\ Changed(g) /\ with' = with /\ counts' = counts
          /\ UNCHANGED goods /\ deal' = NoDeal
        BY <1>8 DEF ClearItem
    <2>2. /\ offered' \in [Players -> Offer]
          /\ \A p \in Players \ {g} : offered'[p] = offered[p]
        BY <1>1, <2>1 DEF TradeType, Offer
    <2>3. /\ money' \in [Players -> 0..MaxMoney] /\ counts' \in [Players -> [Slots -> Nat]]
          /\ \A p \in Players \ {g} : money'[p] = money[p]
        BY <1>1, <2>1 DEF TradeType
    <2> QED BY <1>1, <2>1, <2>2, <2>3, Changing
<1>9. ASSUME NEW s \in Slots, NEW i \in Items, SetItem(g, s, i)
      PROVE  TradeInv' /\ UNCHANGED goods /\ deal' = NoDeal
    <2>1. /\ with[g] # None /\ offered' = [offered EXCEPT ![g][s] = i]
          /\ money' = money /\ Changed(g) /\ with' = with
          /\ counts' = [counts EXCEPT ![g][s] = stack[i]]
          /\ UNCHANGED goods /\ deal' = NoDeal
        BY <1>9 DEF SetItem
    <2>2. /\ offered' \in [Players -> Offer]
          /\ \A p \in Players \ {g} : offered'[p] = offered[p]
        BY <1>1, <2>1 DEF TradeType, Offer
    <2>3. stack[i] \in Nat
        BY <1>1, TradeAssumption DEF GoodsType
    <2>4. /\ money' \in [Players -> 0..MaxMoney] /\ counts' \in [Players -> [Slots -> Nat]]
          /\ \A p \in Players \ {g} : money'[p] = money[p]
        BY <1>1, <2>1, <2>3 DEF TradeType
    <2> QED BY <1>1, <2>1, <2>2, <2>4, Changing
<1>10. ASSUME NEW n \in 0..MaxMoney, SetMoney(g, n)
       PROVE  TradeInv' /\ UNCHANGED goods /\ deal' = NoDeal
    <2>1. /\ with[g] # None /\ money' = [money EXCEPT ![g] = n]
          /\ offered' = offered /\ Changed(g) /\ with' = with /\ counts' = counts
          /\ UNCHANGED goods /\ deal' = NoDeal
        BY <1>10 DEF SetMoney
    <2>2. /\ money' \in [Players -> 0..MaxMoney] /\ counts' \in [Players -> [Slots -> Nat]]
          /\ offered' \in [Players -> Offer]
          /\ \A p \in Players \ {g} : money'[p] = money[p] /\ offered'[p] = offered[p]
        BY <1>1, <2>1 DEF TradeType
    <2> QED BY <1>1, <2>1, <2>2, Changing
<1> QED BY <1>3, <1>4, <1>5, <1>6, <1>7, <1>8, <1>9, <1>10

(* A trade that goes through.                                              *)
LEMMA GoingTypes ==
    ASSUME IInv, NEW g \in Players, AcceptGoes(g) PROVE TradeInv' /\ GoodsType'
<1> DEFINE w == with[g]
<1>1. TradeInv /\ TradeType /\ GoodsType /\ Paired /\ None \notin Players
    BY Types, TradeAssumption DEF IInv, TradeInv
<1>2. w \in Players /\ w # g /\ with[w] = g /\ None \in Partner
    BY <1>1 DEF AcceptGoes, TradeType, Partner, Paired
<1>3. TradeInv'
    <2>1. Reset(g, w, None, None)
        BY DEF AcceptGoes, Ends
    <2> QED BY <1>1, <1>2, <2>1, Resetting
<1>4. owner' \in [Items -> Players \cup {None}]
    BY <1>1, <1>2 DEF AcceptGoes, GoodsType
<1>5. \A n \in Nat : Capped(n) \in 0..MaxMoney
    BY TradeAssumption DEF Capped
<1>6. gold' \in [Players -> 0..MaxMoney]
    <2>1. /\ gold[g] \in Nat /\ gold[w] \in Nat /\ money[g] \in Nat /\ money[w] \in Nat
          /\ money[g] <= gold[g] /\ money[w] <= gold[w]
        BY <1>1, <1>2, TradeAssumption DEF GoodsType, TradeType, AcceptGoes, Affords, CanPay
    <2>2. gold[g] - money[g] + money[w] \in Nat /\ gold[w] - money[w] + money[g] \in Nat
        BY <2>1
    <2>3. gold' = [gold EXCEPT ![g] = Capped(gold[g] - money[g] + money[w]),
                               ![w] = Capped(gold[w] - money[w] + money[g])]
        BY <1>1, <1>2 DEF AcceptGoes, GoodsType
    <2> QED BY <1>1, <1>2, <1>5, <2>2, <2>3 DEF GoodsType
<1>7. GoodsType'
    BY <1>1, <1>4, <1>6 DEF AcceptGoes, GoodsType
<1> QED BY <1>3, <1>7

(* Each gets what they accepted: the one who accepts last, what they are   *)
(* shown, and their partner what they were shown as they accepted.         *)
LEMMA GoingAgreed ==
    ASSUME IInv, NEW g \in Players, AcceptGoes(g) PROVE DealAsAgreed'
<1> DEFINE w == with[g]
<1>1. TradeType /\ Paired /\ Seen /\ Accepted /\ None \notin Players
    BY Types, TradeAssumption DEF IInv
<1>2. w \in Players /\ w # g /\ with[w] = g /\ g # None /\ w # None /\ accepted[w]
    BY <1>1 DEF AcceptGoes, TradeType, Partner, Paired
<1>3. deal' = [NoDeal EXCEPT ![g] = [got |-> Got(g), saw |-> Saw(shown[g])],
                             ![w] = [got |-> Got(w), saw |-> Saw(agreed[w])]]
    BY DEF AcceptGoes
<1>4. /\ \A p \in Players \ {g, w} : deal'[p] = None
      /\ deal'[g] = [got |-> Got(g), saw |-> Saw(shown[g])]
      /\ deal'[w] = [got |-> Got(w), saw |-> Saw(agreed[w])]
    BY <1>2, <1>3 DEF NoDeal
<1>5. Stands(shown[g], w)
    BY <1>1, <1>2 DEF Seen
<1>6. Stands(agreed[w], g)
    <2>1. Stands(shown[w], g)
        BY <1>1, <1>2 DEF Seen
    <2>2. agreed[w] = shown[w]
        BY <1>1, <1>2 DEF Accepted
    <2> QED BY <2>1, <2>2
<1>7. ASSUME NEW p \in Players, NEW win, Stands(win, with[p])
      PROVE  /\ Got(p).money = Saw(win).money
             /\ \A s \in ForTrade : Saw(win).items[s] # None
                                   => Got(p).items[s] = Saw(win).items[s]
    BY <1>7 DEF Got, Saw, Stands
<1>8. /\ Got(g).money = Saw(shown[g]).money
      /\ \A s \in ForTrade : Saw(shown[g]).items[s] # None
                            => Got(g).items[s] = Saw(shown[g]).items[s]
    BY <1>5, <1>7
<1>9. /\ Got(w).money = Saw(agreed[w]).money
      /\ \A s \in ForTrade : Saw(agreed[w]).items[s] # None
                            => Got(w).items[s] = Saw(agreed[w]).items[s]
    BY <1>2, <1>6, <1>7
<1> QED BY <1>4, <1>8, <1>9 DEF DealAsAgreed

(* What the players do besides, and nothing at all.                        *)
LEMMA MeanwhileStep ==
    ASSUME IInv, Meanwhile, deal' = NoDeal, UNCHANGED <<trade, shown, agreed>> PROVE IInv'
<1>1. TradeInv /\ TradeType /\ GoodsType
    BY Types DEF IInv, TradeInv
<1>2. TradeInv'
    BY <1>1 DEF TradeInv, TradeType, Paired, Seen, Stands, Accepted, trade
<1>3. GoodsType'
    BY <1>1 DEF GoodsType, Meanwhile, PutAway, TakeOut, Restack, Loses, Gains, Purse, Walks
<1> QED BY <1>2, <1>3, NoDeals, Types DEF IInv, TradeInv

LEMMA NextInv == IInv /\ [Next]_vars => IInv'
<1> SUFFICES ASSUME IInv, [Next]_vars PROVE IInv'
    OBVIOUS
<1>1. GoodsType
    BY Types DEF IInv
<1>2. ASSUME NEW g \in Players, AcceptGoes(g) PROVE IInv'
    BY <1>2, GoingTypes, GoingAgreed, Types DEF IInv, TradeInv
<1>3. ASSUME TradeInv', UNCHANGED goods, deal' = NoDeal PROVE IInv'
    <2>1. GoodsType'
        BY <1>1, <1>3 DEF GoodsType, goods
    <2> QED BY <1>3, <2>1, NoDeals, Types DEF IInv, TradeInv
<1>4. CASE Meanwhile /\ deal' = NoDeal /\ UNCHANGED <<trade, shown, agreed>>
    BY <1>4, MeanwhileStep
<1>5. CASE UNCHANGED vars
    BY <1>5 DEF vars, IInv, TypeOK, Paired, Seen, Stands, Accepted, DealAsAgreed
<1>6. ASSUME NEW g \in Players,
             \/ \E w \in Players : Initiate(g, w)
             \/ Cancel(g) \/ Unaccept(g)
             \/ AcceptFirst(g) \/ AcceptCancelled(g) \/ AcceptBack(g)
             \/ \E s \in Slots : ClearItem(g, s) \/ \E i \in Items : SetItem(g, s, i)
             \/ \E n \in 0..MaxMoney : SetMoney(g, n)
      PROVE  IInv'
    BY <1>3, <1>6, TradeSteps
<1> QED BY <1>2, <1>4, <1>5, <1>6 DEF Next, Accept, Update

-----------------------------------------------------------------------------
(* The theorems.                                                           *)

(* IInv holds of every behaviour of the trades of a map.                   *)
THEOREM Inductive == Spec => []IInv
BY InitInv, NextInv, PTL DEF Spec

(* A trade's state is always well formed: no sum is below nothing or above *)
(* the most one may hold (accept, set_money).                              *)
THEOREM TypeCorrect == Spec => []TypeOK
<1>1. IInv => TypeOK
    BY DEF IInv
<1> QED BY <1>1, Inductive, PTL

(* A trade has two sides, each the other's (initiate, cancel, accept).     *)
THEOREM TradesPaired == Spec => []Paired
<1>1. IInv => Paired
    BY DEF IInv
<1> QED BY <1>1, Inductive, PTL

(* An acceptance stands for the offer as its maker saw it, whoever changes *)
(* what and whenever (changed, accept, unaccept).                          *)
THEOREM AcceptancesStand == Spec => []AcceptedStands
<1>1. IInv => AcceptedStands
    BY DEF IInv, Seen, Accepted, AcceptedStands
<1> QED BY <1>1, Inductive, PTL

(* No trade gives either less than they saw as they accepted (accept).     *)
THEOREM DealsAgreed == Spec => []DealAsAgreed
<1>1. IInv => DealAsAgreed
    BY DEF IInv
<1> QED BY <1>1, Inductive, PTL

(* A trade that goes through ends on both sides, moves each item from the  *)
(* one who has it, and makes and loses no money (accept).                  *)
THEOREM AllAtOnce == Spec => AllChangesHands
<1> DEFINE Done(p) ==
        LET w == with[p]
        IN  /\ with'[p] = None /\ with'[w] = None
            /\ gold'[p] + gold'[w] = gold[p] + gold[w]
            /\ \A s \in ForTrade : offered[p][s] # None =>
                  owner[offered[p][s]] = p /\ owner'[offered[p][s]] = w
<1>1. ASSUME IInv, NEW g \in Players, AcceptGoes(g), NEW p \in Players, deal'[p] # None
      PROVE  Done(p)
    <2> DEFINE w == with[g]
    <2>1. TradeType /\ GoodsType /\ Paired /\ None \notin Players
        BY <1>1, Types, TradeAssumption DEF IInv
    <2>2. w \in Players /\ w # g /\ with[w] = g
        BY <1>1, <2>1 DEF AcceptGoes, TradeType, Partner, Paired
    <2>3. deal' = [NoDeal EXCEPT ![g] = [got |-> Got(g), saw |-> Saw(shown[g])],
                                 ![w] = [got |-> Got(w), saw |-> Saw(agreed[w])]]
        BY <1>1 DEF AcceptGoes
    <2>4. p \in {g, w}
        BY <1>1, <2>2, <2>3 DEF NoDeal
    <2>5. with'[g] = None /\ with'[w] = None
        BY <1>1, <2>1, <2>2 DEF AcceptGoes, Ends, Reset, TradeType
    <2>6. gold'[g] + gold'[w] = gold[g] + gold[w]
        <3>1. /\ gold[g] \in Nat /\ gold[w] \in Nat /\ money[g] \in Nat /\ money[w] \in Nat
              /\ money[g] <= gold[g] /\ money[w] <= gold[w] /\ MaxMoney \in Nat
              /\ gold[g] + money[w] <= MaxMoney + money[g]
              /\ gold[w] + money[g] <= MaxMoney + money[w]
            BY <1>1, <2>1, <2>2, TradeAssumption
            DEF GoodsType, TradeType, AcceptGoes, Affords, CanPay, HasRoom
        <3>2. /\ gold[g] - money[g] + money[w] <= MaxMoney
              /\ gold[w] - money[w] + money[g] <= MaxMoney
            BY <3>1
        <3>3. /\ Capped(gold[g] - money[g] + money[w]) = gold[g] - money[g] + money[w]
              /\ Capped(gold[w] - money[w] + money[g]) = gold[w] - money[w] + money[g]
            BY <3>1, <3>2 DEF Capped
        <3>4. /\ gold'[g] = Capped(gold[g] - money[g] + money[w])
              /\ gold'[w] = Capped(gold[w] - money[w] + money[g])
            BY <1>1, <2>1, <2>2 DEF AcceptGoes, GoodsType
        <3> QED BY <3>1, <3>3, <3>4
    <2>7. /\ OfferHolds(g) /\ OfferHolds(w)
          /\ owner' = [i \in Items |-> IF Traded(g, i) THEN w
                                      ELSE IF Traded(w, i) THEN g ELSE owner[i]]
        BY <1>1 DEF AcceptGoes
    <2>8. \A q \in {g, w} : \A s \in ForTrade : offered[q][s] # None =>
              offered[q][s] \in Items /\ owner[offered[q][s]] = q /\ Traded(q, offered[q][s])
        BY <2>1, <2>2, <2>7 DEF OfferHolds, Tradable, Traded, TradeType, Offer, ForTrade
    <2>9. \A i \in Items : Traded(g, i) => owner[i] = g
        <3> SUFFICES ASSUME NEW i \in Items, Traded(g, i) PROVE owner[i] = g
            OBVIOUS
        <3>1. PICK s \in ForTrade : offered[g][s] = i
            BY DEF Traded
        <3>2. i # None
            BY TradeAssumption
        <3> QED BY <2>8, <3>1, <3>2
    <2>10. \A s \in ForTrade : offered[g][s] # None =>
              owner[offered[g][s]] = g /\ owner'[offered[g][s]] = w
        BY <2>7, <2>8
    <2>11. \A s \in ForTrade : offered[w][s] # None =>
              owner[offered[w][s]] = w /\ owner'[offered[w][s]] = g
        BY <2>2, <2>7, <2>8, <2>9
    <2>12. CASE p = g
        BY <2>5, <2>6, <2>10, <2>12
    <2>13. CASE p = w
        <3>1. gold'[w] + gold'[g] = gold[w] + gold[g]
            <4>1. /\ gold[g] \in Nat /\ gold[w] \in Nat
                  /\ gold'[g] \in Nat /\ gold'[w] \in Nat
                BY <1>1, <2>1, <2>2, GoingTypes, TradeAssumption DEF GoodsType
            <4> QED BY <2>6, <4>1
        <3> QED BY <2>2, <2>5, <2>11, <2>13, <3>1
    <2> QED BY <2>4, <2>12, <2>13
<1>2. ASSUME NEW p \in Players, deal' = NoDeal PROVE deal'[p] = None
    BY <1>2, NoDeals
<1>3. ASSUME IInv, Next PROVE \A p \in Players : deal'[p] # None => Done(p)
    <2> SUFFICES ASSUME NEW p \in Players, deal'[p] # None PROVE Done(p)
        OBVIOUS
    <2>1. \/ deal' = NoDeal \/ \E g \in Players : AcceptGoes(g)
        BY <1>3, TradeSteps DEF Next, Accept, Update
    <2> QED BY <1>1, <1>2, <1>3, <2>1
<1>4. IInv /\ [Next]_vars => [\A p \in Players : deal'[p] # None => Done(p)]_vars
    BY <1>3
<1> QED BY <1>4, Inductive, PTL DEF Spec, AllChangesHands
=============================================================================
