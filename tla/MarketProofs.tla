---------------------------- MODULE MarketProofs ----------------------------
(***************************************************************************)
(* What holds of mail and auctions for any number of characters, maps,     *)
(* items, mails and auctions, and any prices: types and bounds; that the   *)
(* last change to each record is written last; that each item is in one    *)
(* place of the database, whatever a crash leaves; that an item sent cash  *)
(* on delivery is paid in the transaction that delivers it; that an        *)
(* auction ends with what each side is due; that a mail sent back is kept  *)
(* for its sender; and, last, that no money is made or lost.  Coins are    *)
(* sums over finite sets, which the library folds by recursion: so what    *)
(* such sums do is proved here, by induction over subsets.                 *)
(***************************************************************************)
EXTENDS Market, FiniteSetTheorems, WellFoundedInduction, TLAPS

-----------------------------------------------------------------------------
(* The inductive invariant.  A save a thread is about to send has only     *)
(* what the thread owns: the rows of its map's characters, and mails and   *)
(* auctions as long as it holds their lock; but for the auction the sweep  *)
(* settles, that no one else can reach once it is out of memory.           *)
Locks ==
    /\ holder["lots"] # Sweeper
    /\ \A t \in Threads :
        /\ \A p \in DOMAIN pend[t].rows : MapOf[p] = t
        /\ holder["mail"] # t =>
              DOMAIN pend[t].mail = {} /\ pend[t].fee = 0 /\ pend[t].lost = {}
        /\ holder["lots"] # t /\ t # Sweeper => DOMAIN pend[t].lot = {}
        /\ job[t] # None => holder["lots"] = t /\ MapOf[job[t].who] = t

(* The auctions the sweep took out, not yet settled in the database.       *)
Settling == DOMAIN pend[Sweeper].lot
Away     == {x.id : x \in swept} \cup Settling

SweptAlone ==
    /\ \A l \in Away : mem.lot[l] = None /\ l < nextLot
    /\ \A l \in Settling : pend[Sweeper].lot[l] = None
    /\ \A x \in swept : x.id \notin Settling /\ disk.lot[x.id] = x.lot
    /\ \A l \in over : mem.lot[l] # None
    /\ holder["lots"] # None => DOMAIN pend[holder["lots"]].lot \cap Away = {}

(* Ids to come are of nothing.                                             *)
Fresh ==
    /\ \A id \in MailIds : mem.mail[id] # None => id < nextMail
    /\ \A l \in LotIds : mem.lot[l] # None => l < nextLot

(* What a bid or a cancel was allowed on is as it was.                     *)
Allowed(j) ==
    LET a == mem.lot[j.lot]
    IN  /\ a # None
        /\ j.op = "bid" => /\ a.owner # j.who /\ j.price > a.bid
                           /\ Buys(a, j.price) => j.price = a.buyout
                           /\ mem.rows[j.who].gold >= Cost(j.who, a, j.price)
        /\ j.op = "cancel" => a.owner = j.who /\ mem.rows[j.who].gold >= Fee(a)
Waits == \A t \in Threads : job[t] # None /\ pend[t] = NoSave => Allowed(job[t])

(* Memory is the database with the saves on their way.                     *)
RowsDue ==
    \A p \in Players :
        mem.rows[p] = IF p \in DOMAIN pend[MapOf[p]].rows
                      THEN pend[MapOf[p]].rows[p] ELSE disk.rows[p]
MailDue ==
    /\ \A id \in MailIds :
        mem.mail[id] = IF holder["mail"] # None /\ id \in DOMAIN pend[holder["mail"]].mail
                       THEN pend[holder["mail"]].mail[id] ELSE disk.mail[id]
    /\ mem.spent = IF holder["mail"] # None THEN disk.spent + pend[holder["mail"]].fee
                   ELSE disk.spent
    /\ mem.lost = IF holder["mail"] # None THEN disk.lost \cup pend[holder["mail"]].lost
                  ELSE disk.lost
LotsDue ==
    \A l \in LotIds \ Away :
        mem.lot[l] = IF holder["lots"] # None /\ l \in DOMAIN pend[holder["lots"]].lot
                     THEN pend[holder["lots"]].lot[l] ELSE disk.lot[l]

IInv == TypeOK /\ Locks /\ SweptAlone /\ Fresh /\ Waits /\ RowsDue /\ MailDue /\ LotsDue

(* Each save moves every item it has from where the database has it, and   *)
(* leaves it in one place, or says it is lost.                             *)
Keys(tx) == {<<"bag", p>> : p \in DOMAIN tx.rows} \cup {<<"mail", id>> : id \in DOMAIN tx.mail}
            \cup {<<"lot", l>> : l \in DOMAIN tx.lot}
OneOf(S, i, lost) == IF i \in lost THEN S = {} ELSE \E x : S = {x}
Moved(L, tx, i) ==
    IF Places(L, i) \cap Keys(tx) = {} THEN Places(tx, i) = {} /\ i \notin tx.lost
    ELSE OneOf(Places(tx, i), i, tx.lost)
Moves(L, tx) == \A i \in Items : Moved(L, tx, i)
Once(L)  == \A i \in Items : OneOf(Places(L, i), i, L.lost)
ItemsInv == Once(disk) /\ \A t \in Threads : Moves(disk, pend[t])

-----------------------------------------------------------------------------
(* The parts of a save, and what it does to a ledger.                      *)
Threaded == Sweeper \in Threads /\ \A p \in Players : MapOf[p] \in Threads \ {Sweeper}

LEMMA ThreadsAre == Threaded /\ None \notin Threads
BY MarketAssumption DEF Threaded, Threads, Maps

LEMMA Parts ==
    /\ DOMAIN Empty = {}
    /\ \A k, v : DOMAIN Put(k, v) = {k} /\ Put(k, v)[k] = v
    /\ \A f, g : /\ DOMAIN Both(f, g) = DOMAIN f \cup DOMAIN g
                 /\ \A x \in DOMAIN f : Both(f, g)[x] = f[x]
                 /\ \A x \in DOMAIN g \ DOMAIN f : Both(f, g)[x] = g[x]
BY DEF Empty, Put, Both

LEMMA Fields ==
    ASSUME NEW r, NEW m, NEW l, NEW f, NEW g
    PROVE  /\ Tx(r, m, l, f, g).rows = r /\ Tx(r, m, l, f, g).mail = m
           /\ Tx(r, m, l, f, g).lot = l /\ Tx(r, m, l, f, g).fee = f
           /\ Tx(r, m, l, f, g).lost = g
BY DEF Tx

LEMMA NoneToSend ==
    /\ DOMAIN NoSave.rows = {} /\ DOMAIN NoSave.mail = {} /\ DOMAIN NoSave.lot = {}
    /\ NoSave.fee = 0 /\ NoSave.lost = {} /\ SaveOK(NoSave)
<1>1. /\ NoSave.rows = Empty /\ NoSave.mail = Empty /\ NoSave.lot = Empty
      /\ NoSave.fee = 0 /\ NoSave.lost = {}
    BY DEF NoSave, Tx
<1> QED BY <1>1, Parts DEF SaveOK

LEMMA Applied ==
    ASSUME NEW L \in Ledger, NEW tx, SaveOK(tx)
    PROVE  /\ Apply(L, tx) \in Ledger
           /\ \A p \in Players : Apply(L, tx).rows[p] =
                 IF p \in DOMAIN tx.rows THEN tx.rows[p] ELSE L.rows[p]
           /\ \A id \in MailIds : Apply(L, tx).mail[id] =
                 IF id \in DOMAIN tx.mail THEN tx.mail[id] ELSE L.mail[id]
           /\ \A l \in LotIds : Apply(L, tx).lot[l] =
                 IF l \in DOMAIN tx.lot THEN tx.lot[l] ELSE L.lot[l]
           /\ Apply(L, tx).spent = L.spent + tx.fee
           /\ Apply(L, tx).lost = L.lost \cup tx.lost
<1>1. /\ Apply(L, tx).rows = Onto(L.rows, tx.rows)
      /\ Apply(L, tx).mail = Onto(L.mail, tx.mail)
      /\ Apply(L, tx).lot = Onto(L.lot, tx.lot)
      /\ Apply(L, tx).spent = L.spent + tx.fee
      /\ Apply(L, tx).lost = L.lost \cup tx.lost
      /\ Apply(L, tx) = [rows |-> Apply(L, tx).rows, mail |-> Apply(L, tx).mail,
                         lot |-> Apply(L, tx).lot, spent |-> Apply(L, tx).spent,
                         lost |-> Apply(L, tx).lost]
    BY DEF Apply
<1>2. /\ L.rows \in [Players -> Rows] /\ L.mail \in [MailIds -> Mails \cup {None}]
      /\ L.lot \in [LotIds -> Lots \cup {None}] /\ L.spent \in Nat /\ L.lost \subseteq Items
    BY DEF Ledger
<1>3. /\ Onto(L.rows, tx.rows) \in [Players -> Rows]
      /\ \A p \in Players : Onto(L.rows, tx.rows)[p] =
            IF p \in DOMAIN tx.rows THEN tx.rows[p] ELSE L.rows[p]
    BY <1>2 DEF SaveOK, Onto
<1>4. /\ Onto(L.mail, tx.mail) \in [MailIds -> Mails \cup {None}]
      /\ \A id \in MailIds : Onto(L.mail, tx.mail)[id] =
            IF id \in DOMAIN tx.mail THEN tx.mail[id] ELSE L.mail[id]
    BY <1>2 DEF SaveOK, Onto
<1>5. /\ Onto(L.lot, tx.lot) \in [LotIds -> Lots \cup {None}]
      /\ \A l \in LotIds : Onto(L.lot, tx.lot)[l] =
            IF l \in DOMAIN tx.lot THEN tx.lot[l] ELSE L.lot[l]
    BY <1>2 DEF SaveOK, Onto
<1>6. L.spent + tx.fee \in Nat /\ L.lost \cup tx.lost \subseteq Items
    BY <1>2 DEF SaveOK
<1>7. Apply(L, tx) \in Ledger
    BY <1>1, <1>3, <1>4, <1>5, <1>6 DEF Ledger
<1> QED BY <1>1, <1>3, <1>4, <1>5, <1>7

-----------------------------------------------------------------------------
(* What every change in memory has in common: what the thread may change,  *)
(* by the locks it has, and that what it takes out of memory is its own.   *)
OwnRows(t, tx) == \A p \in DOMAIN tx.rows : MapOf[p] = t
OwnMail(t, tx) ==
    \/ holder["mail"] = None /\ holder'["mail"] = t
    \/ /\ holder'["mail"] = holder["mail"]
       /\ DOMAIN tx.mail = {} /\ tx.fee = 0 /\ tx.lost = {}
OwnLots(t, tx) ==
    \/ /\ t # Sweeper /\ holder["lots"] \in {None, t} /\ holder'["lots"] = t
       /\ DOMAIN tx.lot \cap Away = {} /\ swept' = swept
    \/ holder'["lots"] = holder["lots"] /\ DOMAIN tx.lot = {} /\ swept' = swept
    \/ /\ holder'["lots"] = holder["lots"] /\ t = Sweeper
       /\ \E x \in swept : /\ DOMAIN tx.lot = {x.id} /\ tx.lot[x.id] = None
                           /\ swept' = swept \ {x}
NewIds(tx) ==
    /\ nextMail' \in Nat /\ nextMail <= nextMail' /\ \A id \in DOMAIN tx.mail : id < nextMail'
    /\ nextLot' \in Nat /\ nextLot <= nextLot'
    /\ \A l \in DOMAIN tx.lot : tx.lot[l] # None => l < nextLot'
Rest(t, tx) ==
    /\ UNCHANGED <<disk, job, crashes>> /\ moves' \in Nat
    /\ old' \subseteq MailIds /\ overdue' \subseteq MailIds
    /\ over' \subseteq over /\ \A l \in over' \cap DOMAIN tx.lot : tx.lot[l] # None
    /\ holder' \in [{"mail", "lots"} -> Threads \cup {None}]
Owned(t, tx) ==
    /\ pend[t] = NoSave /\ tx # NoSave /\ SaveOK(tx)
    /\ OwnRows(t, tx) /\ OwnMail(t, tx) /\ OwnLots(t, tx) /\ NewIds(tx) /\ Rest(t, tx)

LEMMA Changing ==
    ASSUME IInv, NEW t \in Threads, NEW tx, Changes(t, tx), Owned(t, tx)
    PROVE  IInv'
<1> USE DEF IInv
<1>1. /\ mem' = Apply(mem, tx) /\ mem \in Ledger /\ disk' = disk /\ job' = job
      /\ DOMAIN pend = Threads /\ pend' = [pend EXCEPT ![t] = tx]
      /\ pend[t] = NoSave /\ SaveOK(tx)
    BY DEF Changes, Saving, Owned, Rest, TypeOK
<1>2. /\ DOMAIN pend' = Threads /\ pend'[t] = tx
      /\ \A u \in Threads \ {t} : pend'[u] = pend[u]
    BY <1>1
<1>3. /\ mem' \in Ledger
      /\ \A p \in Players : mem'.rows[p] = IF p \in DOMAIN tx.rows THEN tx.rows[p] ELSE mem.rows[p]
      /\ \A id \in MailIds : mem'.mail[id] = IF id \in DOMAIN tx.mail THEN tx.mail[id] ELSE mem.mail[id]
      /\ \A l \in LotIds : mem'.lot[l] = IF l \in DOMAIN tx.lot THEN tx.lot[l] ELSE mem.lot[l]
      /\ mem'.spent = mem.spent + tx.fee /\ mem'.lost = mem.lost \cup tx.lost
    BY <1>1, Applied
<1>4. /\ DOMAIN tx.rows \subseteq Players /\ DOMAIN tx.mail \subseteq MailIds
      /\ DOMAIN tx.lot \subseteq LotIds /\ tx.fee \in Nat
    BY <1>1 DEF SaveOK
<1>5. /\ DOMAIN pend[t].rows = {} /\ DOMAIN pend[t].mail = {} /\ DOMAIN pend[t].lot = {}
      /\ pend[t].fee = 0 /\ pend[t].lost = {}
    BY <1>1, NoneToSend
<1>6. holder' \in [{"mail", "lots"} -> Threads \cup {None}] /\ None \notin Threads
    BY ThreadsAre DEF Owned, Rest
<1>7. TypeOK'
    <2>1. \A u \in Threads : SaveOK(pend'[u])
        BY <1>1, <1>2 DEF TypeOK
    <2>2. nextMail' \in Nat \ {0} /\ nextLot' \in Nat \ {0}
        BY DEF TypeOK, Owned, NewIds
    <2>3. swept' \subseteq [id : LotIds, lot : Lots]
        BY DEF TypeOK, Owned, OwnLots
    <2>4. /\ old' \subseteq MailIds /\ overdue' \subseteq MailIds /\ over' \subseteq LotIds
          /\ moves' \in Nat /\ crashes' \in Nat /\ disk' \in Ledger
          /\ job' \in [Threads -> Jobs \cup {None}]
        BY DEF TypeOK, Owned, Rest
    <2> QED BY <1>2, <1>3, <1>6, <2>1, <2>2, <2>3, <2>4 DEF TypeOK
<1>8. Settling' = Settling \cup (IF t = Sweeper THEN DOMAIN tx.lot ELSE {}) /\ Away' = Away
    <2>1. Sweeper \in Threads
        BY ThreadsAre DEF Threaded
    <2>2. Settling' = Settling \cup (IF t = Sweeper THEN DOMAIN tx.lot ELSE {})
        BY <1>2, <1>5, <2>1 DEF Settling
    <2>3. CASE DOMAIN tx.lot = {} /\ swept' = swept
        BY <2>2, <2>3 DEF Away
    <2>4. CASE t # Sweeper /\ swept' = swept
        BY <2>2, <2>4 DEF Away
    <2>5. CASE /\ t = Sweeper
               /\ \E x \in swept : DOMAIN tx.lot = {x.id} /\ swept' = swept \ {x}
        BY <2>2, <2>5 DEF Away
    <2> QED BY <2>2, <2>3, <2>4, <2>5 DEF Owned, OwnLots
<1>9. Locks'
    <2>1. holder'["lots"] # Sweeper
        BY <1>6, ThreadsAre DEF Owned, OwnLots, Locks, Threaded
    <2>2. ASSUME NEW u \in Threads, u # t
          PROVE  /\ \A p \in DOMAIN pend'[u].rows : MapOf[p] = u
                 /\ holder'["mail"] # u =>
                      DOMAIN pend'[u].mail = {} /\ pend'[u].fee = 0 /\ pend'[u].lost = {}
                 /\ holder'["lots"] # u /\ u # Sweeper => DOMAIN pend'[u].lot = {}
                 /\ job'[u] # None => holder'["lots"] = u /\ MapOf[job'[u].who] = u
        <3>1. pend'[u] = pend[u] /\ job'[u] = job[u]
            BY <1>1, <1>2, <2>2
        <3>2. holder'["mail"] # u => holder["mail"] # u
            BY <1>6, <2>2 DEF Owned, OwnMail
        <3>3. holder["lots"] = u => holder'["lots"] = u
            BY <1>6, <2>2 DEF Owned, OwnLots
        <3>4. holder'["lots"] # u => holder["lots"] # u
            BY <3>3
        <3> QED BY <3>1, <3>2, <3>3, <3>4 DEF Locks
    <2>3. /\ \A p \in DOMAIN tx.rows : MapOf[p] = t
          /\ holder'["mail"] # t => DOMAIN tx.mail = {} /\ tx.fee = 0 /\ tx.lost = {}
          /\ holder'["lots"] # t /\ t # Sweeper => DOMAIN tx.lot = {}
          /\ job'[t] # None => holder'["lots"] = t /\ MapOf[job'[t].who] = t
        BY <1>1 DEF Owned, OwnRows, OwnMail, OwnLots, Locks
    <2> QED BY <1>2, <2>1, <2>2, <2>3 DEF Locks
<1>10. Fresh'
    BY <1>3 DEF Fresh, Owned, NewIds, TypeOK, MailIds, LotIds
<1>11. RowsDue'
    <2> SUFFICES ASSUME NEW p \in Players
                 PROVE mem'.rows[p] = IF p \in DOMAIN pend'[MapOf[p]].rows
                                      THEN pend'[MapOf[p]].rows[p] ELSE disk'.rows[p]
        BY DEF RowsDue
    <2>1. MapOf[p] \in Threads
        BY ThreadsAre DEF Threaded
    <2>2. p \in DOMAIN tx.rows => MapOf[p] = t
        BY DEF Owned, OwnRows
    <2> QED BY <1>1, <1>2, <1>3, <1>5, <2>1, <2>2 DEF RowsDue
<1>12. MailDue'
    <2>1. /\ mem.spent \in Nat /\ disk.spent \in Nat
        BY DEF TypeOK, Ledger
    <2>2. CASE holder["mail"] = None /\ holder'["mail"] = t
        <3>1. pend'[holder'["mail"]] = tx /\ holder'["mail"] # None
            BY <1>2, <1>6, <2>2
        <3>2. /\ \A id \in MailIds : mem.mail[id] = disk.mail[id]
              /\ mem.spent = disk.spent /\ mem.lost = disk.lost
            BY <2>2 DEF MailDue
        <3> QED BY <1>1, <1>3, <3>1, <3>2 DEF MailDue
    <2>3. CASE /\ holder'["mail"] = holder["mail"]
               /\ DOMAIN tx.mail = {} /\ tx.fee = 0 /\ tx.lost = {}
        <3>1. /\ \A id \in MailIds : mem'.mail[id] = mem.mail[id]
              /\ mem'.spent = mem.spent /\ mem'.lost = mem.lost
            BY <1>3, <2>1, <2>3
        <3>2. CASE holder["mail"] \notin {None, t}
            <4>1. holder["mail"] \in Threads \ {t}
                BY <3>2 DEF TypeOK
            <4> QED BY <1>1, <1>2, <2>3, <3>1, <4>1 DEF MailDue
        <3>3. CASE holder["mail"] = None
            BY <1>1, <2>3, <3>1, <3>3 DEF MailDue
        <3>4. CASE holder["mail"] = t
            <4>1. t # None /\ holder'["mail"] = t
                BY <1>6, <2>3, <3>4
            <4>2. /\ \A id \in MailIds : mem.mail[id] = disk.mail[id]
                  /\ mem.spent = disk.spent + 0 /\ mem.lost = disk.lost
                BY <1>5, <3>4, <4>1 DEF MailDue
            <4> QED BY <1>1, <1>2, <2>3, <3>1, <4>1, <4>2 DEF MailDue
        <3> QED BY <3>2, <3>3, <3>4
    <2> QED BY <2>2, <2>3 DEF Owned, OwnMail
<1>13. Away \subseteq LotIds
    BY ThreadsAre DEF Away, Settling, TypeOK, SaveOK, Threaded
<1>14. LotsDue'
    <2> SUFFICES ASSUME NEW l \in LotIds \ Away
                 PROVE mem'.lot[l] = IF /\ holder'["lots"] # None
                                        /\ l \in DOMAIN pend'[holder'["lots"]].lot
                                     THEN pend'[holder'["lots"]].lot[l] ELSE disk'.lot[l]
        BY <1>8 DEF LotsDue
    <2>1. CASE holder["lots"] \in {None, t} /\ holder'["lots"] = t
        <3>1. mem.lot[l] = disk.lot[l]
            BY <1>5, <1>6, <2>1 DEF LotsDue
        <3> QED BY <1>1, <1>2, <1>3, <1>6, <2>1, <3>1
    <2>2. CASE holder'["lots"] = holder["lots"] /\ l \notin DOMAIN tx.lot
        <3>1. mem'.lot[l] = mem.lot[l]
            BY <1>3, <2>2
        <3>2. CASE holder["lots"] = None
            BY <1>1, <2>2, <3>1, <3>2 DEF LotsDue
        <3>3. CASE holder["lots"] = t
            BY <1>1, <1>2, <1>5, <2>2, <3>1, <3>3 DEF LotsDue
        <3>4. CASE holder["lots"] \in Threads \ {t}
            BY <1>1, <1>2, <2>2, <3>1, <3>4 DEF LotsDue
        <3> QED BY <3>2, <3>3, <3>4 DEF TypeOK
    <2>3. \A x \in swept : x.id # l
        BY DEF Away
    <2> QED BY <2>1, <2>2, <2>3 DEF Owned, OwnLots
<1>15. SweptAlone'
    <2>1. \A l \in Away' : mem'.lot[l] = None /\ l < nextLot'
        <3> SUFFICES ASSUME NEW l \in Away PROVE mem'.lot[l] = None /\ l < nextLot'
            BY <1>8
        <3>1. mem.lot[l] = None /\ l < nextLot /\ l \in LotIds /\ nextLot \in Nat
            BY <1>13 DEF SweptAlone, TypeOK
        <3>2. l \in DOMAIN tx.lot => tx.lot[l] = None
            BY DEF Owned, OwnLots
        <3> QED BY <1>3, <3>1, <3>2 DEF Owned, NewIds, LotIds
    <2>2. \A l \in Settling' : pend'[Sweeper].lot[l] = None
        <3>1. Sweeper \in Threads
            BY ThreadsAre DEF Threaded
        <3>2. CASE t # Sweeper
            BY <1>2, <1>8, <3>1, <3>2 DEF SweptAlone
        <3>3. CASE t = Sweeper
            BY <1>2, <1>5, <1>8, <3>3 DEF Settling, Owned, OwnLots
        <3> QED BY <3>2, <3>3
    <2>3. \A x \in swept' : disk'.lot[x.id] = x.lot
        BY <1>1 DEF Owned, OwnLots, SweptAlone
    <2>6. \A x \in swept' : x.id \notin Settling'
        <3>1. CASE swept' = swept /\ (t # Sweeper \/ DOMAIN tx.lot = {})
            BY <1>8, <3>1 DEF SweptAlone
        <3>2. ASSUME NEW y \in swept, DOMAIN tx.lot = {y.id}, swept' = swept \ {y},
                     NEW x \in swept'
              PROVE  x.id \notin Settling'
            <4>1. x \in swept /\ x # y /\ x.id \notin Settling
                BY <3>2 DEF SweptAlone
            <4>2. /\ x.lot = disk.lot[x.id] /\ y.lot = disk.lot[y.id]
                  /\ x \in [id : LotIds, lot : Lots] /\ y \in [id : LotIds, lot : Lots]
                BY <4>1 DEF SweptAlone, TypeOK
            <4>3. x.id # y.id
                BY <4>1, <4>2
            <4> QED BY <1>8, <3>2, <4>1, <4>3
        <3> QED BY <3>1, <3>2 DEF Owned, OwnLots
    <2>4. \A l \in over' : mem'.lot[l] # None
        BY <1>3 DEF Owned, Rest, SweptAlone, TypeOK
    <2>5. holder'["lots"] # None => DOMAIN pend'[holder'["lots"]].lot \cap Away' = {}
        <3>1. CASE t # Sweeper /\ holder'["lots"] = t /\ DOMAIN tx.lot \cap Away = {}
            BY <1>2, <1>8, <3>1
        <3>2. CASE holder'["lots"] = holder["lots"] /\ DOMAIN tx.lot = {}
            <4>1. CASE holder["lots"] = t
                BY <1>2, <3>2, <4>1
            <4>2. CASE holder["lots"] \in Threads \ {t}
                BY <1>2, <1>8, <3>2, <4>2, <1>6 DEF SweptAlone
            <4> QED BY <3>2, <4>1, <4>2 DEF TypeOK
        <3>3. CASE holder'["lots"] = holder["lots"] /\ t = Sweeper
            <4>1. holder["lots"] # t
                BY <3>3 DEF Locks
            <4>2. CASE holder["lots"] \in Threads \ {t}
                BY <1>2, <1>8, <3>3, <4>2, <1>6 DEF SweptAlone
            <4> QED BY <3>3, <4>1, <4>2 DEF TypeOK
        <3> QED BY <3>1, <3>2, <3>3 DEF Owned, OwnLots
    <2> QED BY <2>1, <2>2, <2>3, <2>4, <2>5, <2>6 DEF SweptAlone
<1>16. Waits'
    <2> SUFFICES ASSUME NEW u \in Threads, job'[u] # None, pend'[u] = NoSave
                 PROVE  Allowed(job[u])'
        BY <1>1 DEF Waits, Allowed
    <2>1. u # t /\ pend[u] = NoSave /\ job[u] # None /\ job'[u] = job[u]
        BY <1>1, <1>2 DEF Owned
    <2>2. Allowed(job[u]) /\ holder["lots"] = u /\ MapOf[job[u].who] = u /\ job[u] \in Jobs
        BY <2>1 DEF Waits, Locks, TypeOK
    <2>3. job[u].who \in Players /\ job[u].lot \in LotIds
        BY <2>2 DEF Jobs
    <2>4. mem'.rows[job[u].who] = mem.rows[job[u].who]
        BY <1>3, <2>1, <2>2, <2>3 DEF Owned, OwnRows
    <2>5. job[u].lot \notin DOMAIN tx.lot
        <3>1. mem.lot[job[u].lot] # None
            BY <2>2 DEF Allowed
        <3>2. job[u].lot \notin Away
            BY <3>1 DEF SweptAlone
        <3>3. \A x \in swept : x.id \in Away
            BY DEF Away
        <3> QED BY <1>6, <2>1, <2>2, <3>2, <3>3 DEF Owned, OwnLots
    <2>6. mem'.lot[job[u].lot] = mem.lot[job[u].lot]
        BY <1>3, <2>3, <2>5
    <2> QED BY <1>1, <2>1, <2>2, <2>4, <2>6 DEF Allowed
<1> QED BY <1>7, <1>9, <1>10, <1>11, <1>12, <1>14, <1>15, <1>16

-----------------------------------------------------------------------------
(* The parts of the changes: locks, letters, ids.                          *)
LEMMA TakingMail ==
    ASSUME TypeOK, NEW t \in Threads, Takes(t, "mail"), NEW tx
    PROVE  /\ OwnMail(t, tx) /\ holder'["lots"] = holder["lots"]
           /\ holder' \in [{"mail", "lots"} -> Threads \cup {None}]
BY DEF TypeOK, Takes, OwnMail

LEMMA TakingLots ==
    ASSUME TypeOK, NEW t \in Threads, Takes(t, "lots")
    PROVE  /\ holder["lots"] = None /\ holder'["lots"] = t /\ holder'["mail"] = holder["mail"]
           /\ holder' \in [{"mail", "lots"} -> Threads \cup {None}]
BY DEF TypeOK, Takes

LEMMA SomethingToSend ==
    ASSUME NEW tx, DOMAIN tx.rows # {} \/ DOMAIN tx.mail # {} \/ DOMAIN tx.lot # {}
    PROVE  tx # NoSave
BY NoneToSend

LEMMA LettersAre ==
    /\ \A p, to \in Players, i \in Items \cup {None}, m, c \in Nat :
          Letter(p, to, i, m, c) \in Mails
    /\ \A p, to \in Players, m \in Nat : Payment(p, to, m) \in Mails
    /\ \A to \in Players, i \in Items \cup {None}, m \in Nat : Notice(to, i, m) \in Mails
<1>1. None \notin Players
    BY MarketAssumption
<1> QED BY <1>1 DEF Letter, Payment, Notice, Mails

LEMMA Posted ==
    ASSUME TypeOK, NEW letters \in Seq(Mails), RoomToPost(Len(letters))
    PROVE  /\ DOMAIN Posting(letters) \subseteq MailIds
           /\ \A id \in DOMAIN Posting(letters) :
                 Posting(letters)[id] \in Mails /\ nextMail <= id /\ id < nextMail'
           /\ nextMail' \in Nat /\ nextMail <= nextMail'
<1>1. nextMail \in Nat \ {0} /\ MaxMails \in Nat /\ Len(letters) \in Nat
    BY MarketAssumption DEF TypeOK
<1>2. /\ nextMail + Len(letters) - 1 <= MaxMails /\ nextMail' = nextMail + Len(letters)
    BY DEF RoomToPost
<1>3. DOMAIN Posting(letters) = nextMail..(nextMail + Len(letters) - 1)
    BY DEF Posting
<1>4. ASSUME NEW id \in nextMail..(nextMail + Len(letters) - 1)
      PROVE  /\ id \in MailIds /\ nextMail <= id /\ id < nextMail'
             /\ Posting(letters)[id] \in Mails
    <2>1. id - nextMail + 1 \in 1..Len(letters)
        BY <1>1, <1>4
    <2>2. letters[id - nextMail + 1] \in Mails
        BY <2>1
    <2>3. Posting(letters)[id] = letters[id - nextMail + 1]
        BY <1>4 DEF Posting
    <2> QED BY <1>1, <1>2, <1>4, <2>2, <2>3 DEF MailIds
<1> QED BY <1>1, <1>2, <1>3, <1>4

LEMMA RowsAre ==
    ASSUME TypeOK, NEW p \in Players
    PROVE  /\ Row(p) \in Rows /\ Row(p).bag \subseteq Items /\ Row(p).gold \in Nat
           /\ Row(p).gold <= MaxMoney
BY MarketAssumption DEF TypeOK, Ledger, Row, Rows

LEMMA MailIs ==
    ASSUME TypeOK, NEW id \in MailIds, Mail(id) # None
    PROVE  /\ Mail(id) \in Mails /\ Mail(id).to \in Players /\ Mail(id).money \in Nat
           /\ Mail(id).cod \in Nat /\ Mail(id).item \in Items \cup {None}
BY DEF TypeOK, Ledger, Mail, Mails

LEMMA LotIs ==
    ASSUME TypeOK, NEW l \in LotIds, Lot(l) # None
    PROVE  Lot(l) \in Lots
BY DEF TypeOK, Ledger, Lot

-----------------------------------------------------------------------------
(* Mail.                                                                   *)
LEMMA MailChange ==
    ASSUME IInv, NEW t \in Threads, NEW tx, pend[t] = NoSave, Takes(t, "mail"),
           Changes(t, tx), SaveOK(tx), OwnRows(t, tx), DOMAIN tx.mail # {}, DOMAIN tx.lot = {},
           nextMail' \in Nat, nextMail <= nextMail',
           \A id \in DOMAIN tx.mail : id < nextMail',
           UNCHANGED <<disk, job, over, swept, nextLot, crashes>>, moves' \in Nat,
           old' \subseteq MailIds, overdue' \subseteq MailIds
    PROVE  IInv'
<1>1. TypeOK /\ tx # NoSave
    BY SomethingToSend DEF IInv
<1>2. OwnMail(t, tx) /\ OwnLots(t, tx)
    BY <1>1, TakingMail DEF OwnLots
<1>3. NewIds(tx)
    BY <1>1 DEF NewIds, TypeOK
<1>4. Rest(t, tx)
    BY <1>1, TakingMail DEF Rest
<1> QED BY <1>1, <1>2, <1>3, <1>4, Changing DEF Owned

(* What a mail step leaves as it was is fit to be.                         *)
LEMMA MailKeptIs ==
    ASSUME TypeOK, MailKept, old' \subseteq old
    PROVE  /\ UNCHANGED <<disk, job, over, swept, nextLot, crashes>>
           /\ old' \subseteq MailIds /\ overdue' \subseteq MailIds
           /\ nextMail \in Nat /\ moves \in Nat
BY DEF TypeOK, MailKept

LEMMA SendMailInv ==
    ASSUME IInv, NEW p \in Players, NEW to \in Players, NEW i \in Items \cup {None},
           NEW m \in Sums, NEW c \in Cods, SendMail(p, to, i, m, c)
    PROVE  IInv'
<1> DEFINE t == MapOf[p]
           rows == Giving(p, i, m + Postage)
           letters == <<Letter(p, to, i, m, IF i = None THEN 0 ELSE c)>>
           tx == Tx(rows, Posting(letters), Empty, Postage, {})
<1>1. /\ TypeOK /\ t \in Threads /\ m \in Nat /\ c \in Nat /\ Postage \in Nat
    BY ThreadsAre, MarketAssumption DEF IInv, Threaded
<1>2. /\ Changes(t, tx) /\ pend[t] = NoSave /\ Takes(t, "mail") /\ RoomToPost(1)
      /\ Row(p).gold >= m + Postage
      /\ MailKept /\ old' \subseteq old /\ moves' = moves + 1
    BY DEF SendMail, MailStep, Idle
<1>3. letters \in Seq(Mails) /\ Len(letters) = 1
    <2>1. (IF i = None THEN 0 ELSE c) \in Nat
        BY <1>1
    <2>2. Letter(p, to, i, m, IF i = None THEN 0 ELSE c) \in Mails
        BY <1>1, <2>1, LettersAre
    <2> QED BY <2>2
<1>4. DOMAIN rows = {p} /\ rows[p] \in Rows
    <2>1. rows = Put(p, [bag |-> Row(p).bag \ Has(i), gold |-> Row(p).gold - (m + Postage)])
        BY DEF Giving
    <2>2. [bag |-> Row(p).bag \ Has(i), gold |-> Row(p).gold - (m + Postage)] \in Rows
        BY <1>1, <1>2, RowsAre, MarketAssumption DEF Rows
    <2> QED BY <2>1, <2>2 DEF Put
<1> HIDE DEF rows, letters
<1>5. /\ tx.rows = rows /\ tx.mail = Posting(letters) /\ DOMAIN tx.lot = {} /\ tx.fee = Postage
      /\ tx.lost = {}
    BY Fields, Parts
<1> HIDE DEF tx
<1>6. /\ DOMAIN tx.mail \subseteq MailIds /\ nextMail' \in Nat /\ nextMail <= nextMail'
      /\ \A id \in DOMAIN tx.mail : tx.mail[id] \in Mails /\ id < nextMail'
    BY <1>1, <1>2, <1>3, <1>5, Posted
<1>7. DOMAIN tx.mail # {}
    BY <1>1, <1>3, <1>5 DEF Posting, TypeOK
<1>8. SaveOK(tx) /\ OwnRows(t, tx)
    BY <1>1, <1>4, <1>5, <1>6 DEF SaveOK, OwnRows
<1> QED BY <1>1, <1>2, <1>5, <1>6, <1>7, <1>8, MailKeptIs, MailChange

LEMMA TakeMoneyInv ==
    ASSUME IInv, NEW p \in Players, NEW id \in MailIds, TakeMoney(p, id)
    PROVE  IInv'
<1> DEFINE t == MapOf[p]
           room == MaxMoney - Row(p).gold
           take == IF Mail(id).money < room THEN Mail(id).money ELSE room
           rows == Getting(p, None, take)
           mails == Put(id, [Mail(id) EXCEPT !.money = @ - take])
           tx == Tx(rows, mails, Empty, 0, {})
<1>1. TypeOK /\ t \in Threads
    BY ThreadsAre DEF IInv, Threaded
<1>2. /\ Changes(t, tx) /\ pend[t] = NoSave /\ Takes(t, "mail") /\ take > 0
      /\ Mail(id) # None
      /\ MailKept /\ UNCHANGED <<old, nextMail, moves>>
    BY DEF TakeMoney, MailStep, Idle, Own
<1>3. /\ take \in Nat /\ take <= Mail(id).money /\ Row(p).gold + take <= MaxMoney
    BY <1>1, <1>2, RowsAre, MailIs, MarketAssumption
<1>4. DOMAIN rows = {p} /\ rows[p] \in Rows
    <2>1. rows = Put(p, [bag |-> Row(p).bag \cup Has(None), gold |-> Row(p).gold + take])
        BY DEF Getting
    <2>2. [bag |-> Row(p).bag \cup Has(None), gold |-> Row(p).gold + take] \in Rows
        BY <1>1, <1>3, RowsAre, MarketAssumption DEF Rows, Has
    <2> QED BY <2>1, <2>2 DEF Put
<1>5. DOMAIN mails = {id} /\ mails[id] \in Mails
    <2>1. [Mail(id) EXCEPT !.money = @ - take] \in Mails
        BY <1>1, <1>2, <1>3, MailIs DEF Mails
    <2> QED BY <2>1 DEF Put
<1> HIDE DEF rows, mails
<1>6. /\ tx.rows = rows /\ tx.mail = mails /\ DOMAIN tx.lot = {} /\ tx.fee = 0
      /\ tx.lost = {}
    BY Fields, Parts
<1> HIDE DEF tx
<1>7. id < nextMail
    BY <1>2 DEF IInv, Fresh, Mail
<1>8. SaveOK(tx) /\ OwnRows(t, tx)
    BY <1>1, <1>4, <1>5, <1>6 DEF SaveOK, OwnRows
<1> QED BY <1>1, <1>2, <1>5, <1>6, <1>7, <1>8, MailKeptIs, MailChange

LEMMA TakeItemInv ==
    ASSUME IInv, NEW p \in Players, NEW id \in MailIds, TakeItem(p, id)
    PROVE  IInv'
<1> DEFINE t == MapOf[p]
           m == Mail(id)
           paid == Paid(p, m)
           rows == Put(p, [bag |-> Row(p).bag \cup {m.item}, gold |-> Row(p).gold - m.cod])
           mails == Both(Put(id, [m EXCEPT !.item = None, !.cod = 0]), Posting(paid))
           tx == Tx(rows, mails, Empty, 0, {})
<1>1. TypeOK /\ t \in Threads /\ None \notin Players
    BY ThreadsAre, MarketAssumption DEF IInv, Threaded
<1>2. /\ Changes(t, tx) /\ pend[t] = NoSave /\ Takes(t, "mail") /\ RoomToPost(Len(paid))
      /\ m # None /\ m.item # None /\ Row(p).gold >= m.cod
      /\ MailKept /\ UNCHANGED <<old, moves>>
    BY DEF TakeItem, ItemTaken, MailStep, Idle, Own
<1>3. m \in Mails /\ m.item \in Items /\ m.cod \in Nat
    BY <1>1, <1>2, MailIs
<1>4. paid \in Seq(Mails)
    <2>1. CASE m.cod > 0
        <3>1. m.from \in Players
            BY <1>3, <2>1 DEF Mails
        <3>2. Payment(p, m.from, m.cod) \in Mails
            BY <1>3, <3>1, LettersAre
        <3> QED BY <2>1, <3>2 DEF Paid
    <2> QED BY <2>1 DEF Paid
<1>5. DOMAIN rows = {p} /\ rows[p] \in Rows
    <2>1. [bag |-> Row(p).bag \cup {m.item}, gold |-> Row(p).gold - m.cod] \in Rows
        BY <1>1, <1>2, <1>3, RowsAre, MarketAssumption DEF Rows
    <2> QED BY <2>1 DEF Put
<1>6. /\ DOMAIN Posting(paid) \subseteq MailIds /\ nextMail' \in Nat /\ nextMail <= nextMail'
      /\ \A k \in DOMAIN Posting(paid) : Posting(paid)[k] \in Mails /\ k < nextMail'
    BY <1>1, <1>2, <1>4, Posted
<1>7. /\ id \in DOMAIN mails /\ DOMAIN mails \subseteq MailIds
      /\ \A k \in DOMAIN mails : mails[k] \in Mails /\ k < nextMail'
    <2>1. [m EXCEPT !.item = None, !.cod = 0] \in Mails
        BY <1>3 DEF Mails
    <2>2. id < nextMail'
        BY <1>1, <1>2, <1>6 DEF IInv, Fresh, Mail, TypeOK, MailIds
    <2> QED BY <1>6, <2>1, <2>2 DEF Both, Put
<1> HIDE DEF rows, mails
<1>8. /\ tx.rows = rows /\ tx.mail = mails /\ DOMAIN tx.lot = {} /\ tx.fee = 0
      /\ tx.lost = {}
    BY Fields, Parts
<1> HIDE DEF tx
<1>9. SaveOK(tx) /\ OwnRows(t, tx)
    BY <1>1, <1>5, <1>7, <1>8 DEF SaveOK, OwnRows
<1> QED BY <1>1, <1>2, <1>6, <1>7, <1>8, <1>9, MailKeptIs, MailChange

(* One mail goes back, or away.                                            *)
LEMMA OneMail ==
    ASSUME IInv, NEW t \in Threads, NEW id \in MailIds, NEW v \in Mails \cup {None},
           NEW fee \in Nat, NEW lost \in SUBSET Items, Mail(id) # None,
           pend[t] = NoSave, Takes(t, "mail"), Changes(t, Tx(Empty, Put(id, v), Empty, fee, lost)),
           old' = old \ {id}, overdue' \subseteq overdue,
           UNCHANGED <<disk, job, over, swept, nextMail, nextLot, moves, crashes>>
    PROVE  IInv'
<1> DEFINE mails == Put(id, v)
           tx == Tx(Empty, mails, Empty, fee, lost)
<1>1. TypeOK
    BY DEF IInv
<1>2. DOMAIN mails = {id} /\ mails[id] = v
    BY DEF Put
<1> HIDE DEF mails
<1>3. /\ DOMAIN tx.rows = {} /\ tx.mail = mails /\ DOMAIN tx.lot = {} /\ tx.fee = fee
      /\ tx.lost = lost /\ Changes(t, tx)
    BY Fields, Parts DEF mails
<1> HIDE DEF tx
<1>4. SaveOK(tx) /\ OwnRows(t, tx)
    BY <1>2, <1>3 DEF SaveOK, OwnRows
<1>5. id < nextMail /\ nextMail \in Nat /\ moves \in Nat
    BY <1>1 DEF IInv, Fresh, Mail, TypeOK
<1>6. old' \subseteq MailIds /\ overdue' \subseteq MailIds
    BY <1>1 DEF TypeOK
<1> QED BY <1>2, <1>3, <1>4, <1>5, <1>6, MailChange

LEMMA GoesBack ==
    ASSUME NEW m \in Mails, m.kind = "normal"
    PROVE  SentBack(m) \in Mails
<1>1. m.from \in Players /\ m.to \in Players /\ None \notin Players
    BY MarketAssumption DEF Mails
<1> QED BY <1>1 DEF Mails, SentBack

LEMMA GoesAway ==
    ASSUME NEW m \in Mails
    PROVE  m.money \in Nat /\ Has(m.item) \in SUBSET Items
BY DEF Mails, Has

LEMMA ReturnMailInv ==
    ASSUME IInv, NEW p \in Players, NEW id \in MailIds, ReturnMail(p, id)
    PROVE  IInv'
<1>1. TypeOK /\ MapOf[p] \in Threads /\ Mail(id) # None /\ Mail(id).kind = "normal"
    BY ThreadsAre DEF IInv, Threaded, ReturnMail, Own
<1>2. SentBack(Mail(id)) \in Mails
    BY <1>1, MailIs, GoesBack
<1>3. /\ pend[MapOf[p]] = NoSave /\ Takes(MapOf[p], "mail")
      /\ Changes(MapOf[p], Tx(Empty, Put(id, SentBack(Mail(id))), Empty, 0, {}))
      /\ old' = old \ {id} /\ UNCHANGED <<nextMail, moves>> /\ MailKept
    BY DEF ReturnMail, MailStep, Idle
<1> QED BY <1>1, <1>2, <1>3, OneMail DEF MailKept

LEMMA DeleteMailInv ==
    ASSUME IInv, NEW p \in Players, NEW id \in MailIds, DeleteMail(p, id)
    PROVE  IInv'
<1>1. TypeOK /\ MapOf[p] \in Threads /\ Mail(id) # None
    BY ThreadsAre DEF IInv, Threaded, DeleteMail, Own
<1>2. Mail(id).money \in Nat /\ Has(Mail(id).item) \in SUBSET Items
    BY <1>1, MailIs, GoesAway
<1>3. /\ pend[MapOf[p]] = NoSave /\ Takes(MapOf[p], "mail")
      /\ Changes(MapOf[p], Tx(Empty, Put(id, None), Empty, Mail(id).money, Has(Mail(id).item)))
      /\ old' = old \ {id} /\ UNCHANGED <<nextMail, moves>> /\ MailKept
    BY DEF DeleteMail, MailStep, Idle, Discarded
<1> QED BY <1>1, <1>2, <1>3, OneMail DEF MailKept

LEMMA ExpireInv ==
    ASSUME IInv, NEW id \in MailIds, Expire(id)
    PROVE  IInv'
<1>1. TypeOK /\ Sweeper \in Threads /\ Mail(id) # None
    BY ThreadsAre DEF IInv, Threaded, Expire, ExpireFound
<1>2. /\ Mail(id) \in Mails /\ Mail(id).money \in Nat /\ Has(Mail(id).item) \in SUBSET Items
      /\ Mail(id).kind = "normal" => SentBack(Mail(id)) \in Mails
    BY <1>1, MailIs, GoesAway, GoesBack
<1>3. /\ pend[Sweeper] = NoSave /\ Takes(Sweeper, "mail")
      /\ old' = old \ {id} /\ overdue' \subseteq overdue
      /\ UNCHANGED <<disk, job, over, swept, nextMail, nextLot, moves, crashes>>
    BY DEF Expire, ExpireFound, MailStep, Idle, Passed
<1>4. \/ /\ Changes(Sweeper, Tx(Empty, Put(id, SentBack(Mail(id))), Empty, 0, {}))
         /\ Mail(id).kind = "normal"
      \/ Changes(Sweeper, Tx(Empty, Put(id, None), Empty, Mail(id).money, Has(Mail(id).item)))
    BY DEF Expire, ExpireFound, Discarded
<1>5. CASE /\ Changes(Sweeper, Tx(Empty, Put(id, SentBack(Mail(id))), Empty, 0, {}))
           /\ Mail(id).kind = "normal"
    BY <1>1, <1>2, <1>3, <1>5, OneMail
<1>6. CASE Changes(Sweeper, Tx(Empty, Put(id, None), Empty, Mail(id).money, Has(Mail(id).item)))
    BY <1>1, <1>2, <1>3, <1>6, OneMail
<1> QED BY <1>4, <1>5, <1>6

(* The sweep looks, and passes over one: no more than its list changes.    *)
LEMMA SweepLooks ==
    ASSUME IInv, overdue' \subseteq MailIds, old' \subseteq MailIds,
           UNCHANGED <<mem, disk, holder, job, pend, swept, nextMail, nextLot, moves, crashes>>,
           over' \subseteq LotIds, \A l \in over' : mem.lot[l] # None
    PROVE  IInv'
<1>1. TypeOK'
    BY DEF IInv, TypeOK
<1>2. Away' = Away /\ Settling' = Settling
    BY DEF Away, Settling
<1>3. SweptAlone'
    BY <1>2 DEF IInv, SweptAlone
<1>4. Locks' /\ Fresh' /\ RowsDue' /\ MailDue'
    BY DEF IInv, Locks, Fresh, RowsDue, MailDue
<1>5. LotsDue'
    BY <1>2 DEF IInv, LotsDue
<1>6. Waits'
    BY DEF IInv, Waits, Allowed
<1> QED BY <1>1, <1>3, <1>4, <1>5, <1>6 DEF IInv

LEMMA LooksInv ==
    ASSUME IInv, FindExpired \/ (\E id \in MailIds : ExpireNot(id)) \/ Ages
    PROVE  IInv'
<1> USE DEF IInv
<1>1. CASE FindExpired
    BY <1>1, SweepLooks DEF FindExpired, TypeOK, SweptAlone
<1>2. CASE \E id \in MailIds : ExpireNot(id)
    BY <1>2, SweepLooks DEF ExpireNot, Passed, TypeOK, SweptAlone
<1>3. CASE Ages
    BY <1>3, SweepLooks DEF Ages, TypeOK, SweptAlone, Lot
<1> QED BY <1>1, <1>2, <1>3

-----------------------------------------------------------------------------
(* Auctions.                                                               *)
LEMMA NoticesAre ==
    ASSUME NEW a, a.owner \in Players, a.item \in Items, a.bid \in Nat,
           a.bidder \in Players \cup {None}
    PROVE  /\ Refund(a) \in Seq(Mails) /\ Cut(a) \in Nat /\ Fee(a) \in Nat
           /\ a.bidder # None => Settled(a) \in Seq(Mails)
<1>1. Cut(a) \in Nat /\ a.bid - Cut(a) + Deposit \in Nat /\ a.item \in Items \cup {None}
    BY MarketAssumption DEF Cut
<1>2. a.bidder # None => Notice(a.bidder, None, a.bid) \in Mails
    BY LettersAre
<1>3. a.bidder # None => /\ Notice(a.bidder, a.item, 0) \in Mails
                         /\ Notice(a.owner, None, a.bid - Cut(a) + Deposit) \in Mails
    BY <1>1, LettersAre
<1> QED BY <1>1, <1>2, <1>3 DEF Refund, Settled, Fee

LEMMA SellInv ==
    ASSUME IInv, NEW p \in Players, NEW i \in Items, NEW b \in Buyouts, Sell(p, i, b)
    PROVE  IInv'
<1> DEFINE t == MapOf[p]
           rows == Giving(p, i, Deposit)
           a == [item |-> i, owner |-> p, bid |-> 0, bidder |-> None, buyout |-> b]
           lots == Put(nextLot, a)
           tx == Tx(rows, Empty, lots, 0, {})
<1>1. /\ TypeOK /\ t \in Threads /\ t # Sweeper /\ b \in Nat /\ Deposit \in Nat
      /\ nextLot \in Nat \ {0} /\ MaxLots \in Nat /\ StartBid \in Nat \ {0}
    BY ThreadsAre, MarketAssumption DEF IInv, Threaded, TypeOK
<1>2. /\ Changes(t, tx) /\ pend[t] = NoSave /\ Takes(t, "lots")
      /\ Row(p).gold >= Deposit
      /\ b = 0 \/ b >= StartBid
      /\ nextLot <= MaxLots /\ nextLot' = nextLot + 1
      /\ UNCHANGED <<job, over, swept, nextMail, disk, old, overdue, moves, crashes>>
    BY DEF Sell, Idle, LotKept
<1>3. DOMAIN rows = {p} /\ rows[p] \in Rows
    <2>1. rows = Put(p, [bag |-> Row(p).bag \ Has(i), gold |-> Row(p).gold - Deposit])
        BY DEF Giving
    <2>2. [bag |-> Row(p).bag \ Has(i), gold |-> Row(p).gold - Deposit] \in Rows
        <3>1. /\ Row(p).gold - Deposit \in 0..MaxMoney
              /\ Row(p).bag \ Has(i) \in SUBSET Items
            BY <1>1, <1>2, RowsAre, MarketAssumption
        <3> QED BY <3>1 DEF Rows
    <2> QED BY <2>1, <2>2 DEF Put
<1>4. DOMAIN lots = {nextLot} /\ lots[nextLot] \in Lots /\ lots[nextLot] # None
    <2>1. a \in Lots
        BY <1>1, <1>2 DEF Lots
    <2>2. a # None
        BY <2>1, MarketAssumption
    <2> QED BY <2>1, <2>2 DEF Put
<1> HIDE DEF rows, lots
<1>5. /\ tx.rows = rows /\ DOMAIN tx.mail = {} /\ tx.lot = lots /\ tx.fee = 0 /\ tx.lost = {}
    BY Fields, Parts
<1> HIDE DEF tx
<1>6. SaveOK(tx) /\ OwnRows(t, tx)
    BY <1>1, <1>2, <1>3, <1>4, <1>5 DEF SaveOK, OwnRows, LotIds
<1>7. tx # NoSave
    BY <1>3, <1>5, SomethingToSend
<1>8. nextLot \notin Away
    BY <1>1 DEF IInv, SweptAlone
<1>9. OwnMail(t, tx) /\ OwnLots(t, tx)
    BY <1>1, <1>2, <1>4, <1>5, <1>8, TakingLots DEF OwnMail, OwnLots
<1>10. NewIds(tx)
    <2>1. nextMail \in Nat
        BY <1>1 DEF TypeOK
    <2> QED BY <1>1, <1>2, <1>4, <1>5, <2>1 DEF NewIds
<1>11. Rest(t, tx)
    <2>1. moves \in Nat /\ old \subseteq MailIds /\ overdue \subseteq MailIds
        BY <1>1 DEF TypeOK
    <2> QED BY <1>1, <1>2, <1>4, <1>5, <2>1, TakingLots DEF Rest
<1> QED BY <1>1, <1>2, <1>6, <1>7, <1>9, <1>10, <1>11, Changing DEF Owned

(* A bid or a cancel begins: its lock taken, nothing changes.              *)
LEMMA Asking ==
    ASSUME IInv, NEW p \in Players, NEW j \in Jobs, j.who = p,
           job' = [job EXCEPT ![MapOf[p]] = j], Idle(MapOf[p]), Takes(MapOf[p], "lots"),
           Allowed(j),
           UNCHANGED <<mem, disk, pend, old, over, overdue, swept, nextMail, nextLot, moves, crashes>>
    PROVE  IInv'
<1> DEFINE t == MapOf[p]
<1>1. /\ TypeOK /\ t \in Threads /\ t # Sweeper /\ pend[t] = NoSave /\ None \notin Threads
    BY ThreadsAre DEF IInv, Threaded, Idle
<1>2. /\ holder["lots"] = None /\ holder'["lots"] = t /\ holder'["mail"] = holder["mail"]
      /\ holder' \in [{"mail", "lots"} -> Threads \cup {None}]
    BY <1>1, TakingLots DEF Idle
<1>3. DOMAIN pend[t].lot = {}
    BY <1>1, NoneToSend
<1>4. job \in [Threads -> Jobs \cup {None}]
    BY <1>1 DEF TypeOK
<1>5. /\ job'[t] = j /\ \A u \in Threads \ {t} : job'[u] = job[u]
      /\ job' \in [Threads -> Jobs \cup {None}]
    BY <1>1, <1>4
<1>6. TypeOK'
    BY <1>1, <1>2, <1>5 DEF TypeOK
<1>7. Away' = Away /\ Settling' = Settling
    BY DEF Away, Settling
<1>8. Locks'
    BY <1>1, <1>2, <1>5 DEF IInv, Locks
<1>9. SweptAlone'
    BY <1>2, <1>3, <1>7 DEF IInv, SweptAlone
<1>10. Fresh' /\ RowsDue' /\ MailDue'
    BY <1>2 DEF IInv, Fresh, RowsDue, MailDue
<1>11. LotsDue'
    BY <1>2, <1>3, <1>7 DEF IInv, LotsDue
<1>12. Waits'
    <2>1. \A k : Allowed(k)' <=> Allowed(k)
        BY DEF Allowed
    <2> QED BY <1>4, <1>5, <2>1 DEF IInv, Waits, Allowed
<1> QED BY <1>6, <1>8, <1>9, <1>10, <1>11, <1>12 DEF IInv

LEMMA BidAskedInv ==
    ASSUME IInv, NEW p \in Players, NEW l \in LotIds, NEW n \in Prices, BidAsked(p, l, n)
    PROVE  IInv'
<1> DEFINE price == IF Buys(Lot(l), n) THEN Lot(l).buyout ELSE n
           j == [op |-> "bid", who |-> p, lot |-> l, price |-> price]
<1>1. Lot(l) # None /\ Lot(l) \in Lots /\ n \in Nat \ {0}
    BY LotIs, MarketAssumption DEF IInv, BidAsked
<1>2. Lot(l).bid \in Nat /\ Lot(l).buyout \in Nat /\ (Lot(l).buyout > 0 => Lot(l).bid < Lot(l).buyout)
    BY <1>1 DEF Lots
<1>3. price \in Nat /\ price > Lot(l).bid
    BY <1>1, <1>2 DEF BidAsked, Buys
<1>4. j \in Jobs /\ j.who = p
    BY <1>3 DEF Jobs
<1>5. /\ job' = [job EXCEPT ![MapOf[p]] = j] /\ Idle(MapOf[p]) /\ Takes(MapOf[p], "lots")
      /\ Row(p).gold >= Cost(p, Lot(l), price) /\ Lot(l).owner # p
      /\ Buys(Lot(l), price) => price = Lot(l).buyout
      /\ UNCHANGED <<mem, disk, pend, old, over, overdue, swept, nextMail, nextLot, moves, crashes>>
    BY DEF BidAsked, LotKept
<1>6. Allowed(j)
    BY <1>1, <1>3, <1>5 DEF Allowed, Lot, Row
<1> HIDE DEF j
<1> QED BY <1>4, <1>5, <1>6, Asking

LEMMA CancelAskedInv ==
    ASSUME IInv, NEW p \in Players, NEW l \in LotIds, CancelAsked(p, l)
    PROVE  IInv'
<1> DEFINE j == [op |-> "cancel", who |-> p, lot |-> l, price |-> 0]
<1>1. j \in Jobs /\ j.who = p
    BY DEF Jobs
<1>2. /\ job' = [job EXCEPT ![MapOf[p]] = j] /\ Idle(MapOf[p]) /\ Takes(MapOf[p], "lots")
      /\ UNCHANGED <<mem, disk, pend, old, over, overdue, swept, nextMail, nextLot, moves, crashes>>
    BY DEF CancelAsked, LotKept
<1>3. Allowed(j)
    BY DEF Allowed, CancelAsked, Lot, Row
<1> HIDE DEF j
<1> QED BY <1>1, <1>2, <1>3, Asking

LEMMA BidMadeInv ==
    ASSUME IInv, NEW t \in Threads, BidMade(t)
    PROVE  IInv'
<1> DEFINE p      == job[t].who
           l      == job[t].lot
           a      == Lot(l)
           raised == [a EXCEPT !.bid = job[t].price, !.bidder = p]
           bought == Buys(a, job[t].price)
           refund == IF a.bidder = p THEN <<>> ELSE Refund(a)
           done   == IF bought THEN Settled(raised) ELSE <<>>
           fee    == IF bought THEN Cut(raised) ELSE 0
           cost   == Cost(p, a, job[t].price)
           left   == IF bought THEN None ELSE raised
           tx     == Tx(Paying(p, cost), Posting(refund \o done), Put(l, left), fee, {})
<1>1. /\ job[t] # None /\ job[t].op = "bid" /\ pend[t] = NoSave /\ Takes(t, "mail")
      /\ RoomToPost(Len(refund \o done)) /\ Changes(t, tx)
      /\ over' = (IF bought THEN over \ {l} ELSE over)
      /\ UNCHANGED <<job, swept, nextLot, disk, old, overdue, moves, crashes>>
    BY DEF BidMade, LotKept
<1>2. /\ TypeOK /\ job[t] \in Jobs /\ holder["lots"] = t /\ MapOf[p] = t /\ Allowed(job[t])
    BY <1>1 DEF IInv, TypeOK, Locks, Waits
<1>3. /\ p \in Players /\ l \in LotIds /\ job[t].price \in Nat /\ t # Sweeper
    BY <1>2, ThreadsAre DEF Jobs, Threaded
<1>4. /\ a # None /\ a \in Lots /\ job[t].price > a.bid /\ Row(p).gold >= cost
    BY <1>1, <1>2, <1>3, LotIs DEF Allowed, Lot, Row
<1>5. /\ a.owner \in Players /\ a.item \in Items /\ a.bid \in Nat /\ a.buyout \in Nat
      /\ a.bidder \in Players \cup {None} /\ None \notin Players
    BY <1>4, MarketAssumption DEF Lots
<1>6. cost \in Nat
    BY <1>3, <1>4, <1>5 DEF Cost
<1>7. /\ raised.owner = a.owner /\ raised.item = a.item /\ raised.bid = job[t].price
      /\ raised.bidder = p
      /\ bought \/ raised \in Lots
    <2> DEFINE Bids == [item : Items, owner : Players, bid : Nat,
                       bidder : Players \cup {None}, buyout : Nat]
    <2>1. a \in Bids
        BY <1>4 DEF Lots
    <2>2. /\ raised \in Bids /\ raised.owner = a.owner /\ raised.item = a.item
          /\ raised.bid = job[t].price /\ raised.bidder = p /\ raised.buyout = a.buyout
        BY <1>3, <2>1
    <2>3. ~bought => (raised.buyout > 0 => raised.bid < raised.buyout)
        BY <1>3, <1>5, <2>2 DEF Buys
    <2> QED BY <2>2, <2>3 DEF Lots
<1>8. refund \o done \in Seq(Mails) /\ fee \in Nat
    <2>1. Refund(a) \in Seq(Mails)
        BY <1>5, NoticesAre
    <2>2. Settled(raised) \in Seq(Mails) /\ Cut(raised) \in Nat
        BY <1>3, <1>5, <1>7, NoticesAre
    <2>3. refund \in Seq(Mails) /\ done \in Seq(Mails)
        BY <2>1, <2>2
    <2> QED BY <2>2, <2>3
<1>9. /\ left \in Lots \cup {None} /\ (left = None => bought)
    BY <1>7, MarketAssumption
<1> HIDE DEF refund, done, fee, cost, left
<1>10. [Row(p) EXCEPT !.gold = @ - cost] \in Rows
    BY <1>2, <1>3, <1>4, <1>6, RowsAre, MarketAssumption DEF Rows
<1>11. /\ DOMAIN tx.rows = {p} /\ tx.rows[p] \in Rows
       /\ tx.mail = Posting(refund \o done)
       /\ DOMAIN tx.lot = {l} /\ tx.lot[l] = left /\ tx.fee = fee /\ tx.lost = {}
    BY <1>10 DEF Tx, Paying, Put
<1> HIDE DEF tx, p, l, bought
<1>12. /\ DOMAIN tx.mail \subseteq MailIds /\ nextMail' \in Nat /\ nextMail <= nextMail'
       /\ \A id \in DOMAIN tx.mail : tx.mail[id] \in Mails /\ id < nextMail'
    BY <1>1, <1>2, <1>8, <1>11, Posted
<1>13. SaveOK(tx) /\ OwnRows(t, tx)
    BY <1>2, <1>3, <1>8, <1>9, <1>11, <1>12 DEF SaveOK, OwnRows, p
<1>14. tx # NoSave
    BY <1>11, SomethingToSend
<1>15. OwnMail(t, tx) /\ OwnLots(t, tx)
    <2>1. l \notin Away
        BY <1>4 DEF IInv, SweptAlone, Lot
    <2> QED BY <1>1, <1>2, <1>3, <1>11, <2>1, TakingMail DEF OwnLots
<1>16. NewIds(tx)
    <2>1. nextLot \in Nat /\ l < nextLot
        BY <1>2, <1>3, <1>4 DEF IInv, TypeOK, Fresh, Lot
    <2> QED BY <1>1, <1>11, <1>12, <2>1 DEF NewIds
<1>17. Rest(t, tx)
    <2>1. moves \in Nat /\ old \subseteq MailIds /\ overdue \subseteq MailIds
        BY <1>2 DEF TypeOK
    <2> QED BY <1>1, <1>2, <1>9, <1>11, <2>1, TakingMail DEF Rest
<1> QED BY <1>1, <1>2, <1>13, <1>14, <1>15, <1>16, <1>17, Changing DEF Owned

LEMMA CancelMadeInv ==
    ASSUME IInv, NEW t \in Threads, CancelMade(t)
    PROVE  IInv'
<1> DEFINE p     == job[t].who
           l     == job[t].lot
           a     == Lot(l)
           mails == Refund(a) \o <<Notice(p, a.item, 0)>>
           fee   == Fee(a)
           tx    == Tx(Paying(p, fee), Posting(mails), Put(l, None), fee + Deposit, {})
<1>1. /\ job[t] # None /\ job[t].op = "cancel" /\ pend[t] = NoSave /\ Takes(t, "mail")
      /\ RoomToPost(Len(mails)) /\ Changes(t, tx) /\ over' = over \ {l}
      /\ UNCHANGED <<job, swept, nextLot, disk, old, overdue, moves, crashes>>
    BY DEF CancelMade, LotKept
<1>2. /\ TypeOK /\ job[t] \in Jobs /\ holder["lots"] = t /\ MapOf[p] = t /\ Allowed(job[t])
    BY <1>1 DEF IInv, TypeOK, Locks, Waits
<1>3. /\ p \in Players /\ l \in LotIds /\ t # Sweeper
    BY <1>2, ThreadsAre DEF Jobs, Threaded
<1>4. /\ a # None /\ a \in Lots /\ Row(p).gold >= fee
    BY <1>1, <1>2, <1>3, LotIs DEF Allowed, Lot, Row
<1>5. /\ a.owner \in Players /\ a.item \in Items /\ a.bid \in Nat
      /\ a.bidder \in Players \cup {None} /\ Deposit \in Nat
    BY <1>4, MarketAssumption DEF Lots
<1>6. mails \in Seq(Mails) /\ fee \in Nat
    <2>1. Refund(a) \in Seq(Mails) /\ fee \in Nat
        BY <1>5, NoticesAre
    <2>2. Notice(p, a.item, 0) \in Mails
        BY <1>3, <1>5, LettersAre
    <2>3. <<Notice(p, a.item, 0)>> \in Seq(Mails)
        BY <2>2
    <2> QED BY <2>1, <2>3
<1> HIDE DEF mails, fee
<1>7. [Row(p) EXCEPT !.gold = @ - fee] \in Rows
    BY <1>2, <1>3, <1>4, <1>6, RowsAre, MarketAssumption DEF Rows
<1>8. /\ DOMAIN tx.rows = {p} /\ tx.rows[p] \in Rows
      /\ tx.mail = Posting(mails)
      /\ DOMAIN tx.lot = {l} /\ tx.lot[l] = None /\ tx.fee = fee + Deposit /\ tx.lost = {}
    BY <1>7 DEF Tx, Paying, Put
<1> HIDE DEF tx, p, l
<1>9. /\ DOMAIN tx.mail \subseteq MailIds /\ nextMail' \in Nat /\ nextMail <= nextMail'
      /\ \A id \in DOMAIN tx.mail : tx.mail[id] \in Mails /\ id < nextMail'
    BY <1>1, <1>2, <1>6, <1>8, Posted
<1>10. fee + Deposit \in Nat
    BY <1>5, <1>6
<1>11. SaveOK(tx) /\ OwnRows(t, tx)
    BY <1>2, <1>3, <1>8, <1>9, <1>10 DEF SaveOK, OwnRows, p
<1>12. tx # NoSave
    BY <1>8, SomethingToSend
<1>13. OwnMail(t, tx) /\ OwnLots(t, tx)
    <2>1. l \notin Away
        BY <1>4 DEF IInv, SweptAlone, Lot
    <2> QED BY <1>1, <1>2, <1>3, <1>8, <2>1, TakingMail DEF OwnLots
<1>14. NewIds(tx)
    <2>1. nextLot \in Nat
        BY <1>2 DEF TypeOK
    <2> QED BY <1>1, <1>8, <1>9, <2>1 DEF NewIds
<1>15. Rest(t, tx)
    <2>1. moves \in Nat /\ old \subseteq MailIds /\ overdue \subseteq MailIds
        BY <1>2 DEF TypeOK
    <2> QED BY <1>1, <1>2, <1>8, <2>1, TakingMail DEF Rest
<1> QED BY <1>1, <1>2, <1>11, <1>12, <1>13, <1>14, <1>15, Changing DEF Owned

LEMMA SettleInv ==
    ASSUME IInv, NEW x \in swept, Settle(x)
    PROVE  IInv'
<1> DEFINE t     == Sweeper
           a     == x.lot
           mails == IF a.bidder # None THEN Settled(a) ELSE <<Notice(a.owner, a.item, 0)>>
           fee   == IF a.bidder # None THEN Cut(a) ELSE Deposit
           tx    == Tx(Empty, Posting(mails), Put(x.id, None), fee, {})
<1>1. /\ pend[t] = NoSave /\ Takes(t, "mail") /\ swept' = swept \ {x}
      /\ RoomToPost(Len(mails)) /\ Changes(t, tx)
      /\ UNCHANGED <<job, over, nextLot, disk, old, overdue, moves, crashes>>
    BY DEF Settle, MailStep, Idle, LotKept
<1>2. TypeOK /\ t \in Threads /\ x.id \in LotIds /\ a \in Lots
    BY ThreadsAre DEF IInv, TypeOK, Threaded
<1>3. /\ a.owner \in Players /\ a.item \in Items /\ a.bid \in Nat
      /\ a.bidder \in Players \cup {None} /\ Deposit \in Nat
    BY <1>2, MarketAssumption DEF Lots
<1>4. mails \in Seq(Mails) /\ fee \in Nat
    <2>1. Notice(a.owner, a.item, 0) \in Mails
        BY <1>3, LettersAre
    <2>2. Cut(a) \in Nat /\ (a.bidder # None => Settled(a) \in Seq(Mails))
        BY <1>3, NoticesAre
    <2> QED BY <1>3, <2>1, <2>2
<1> HIDE DEF mails, fee
<1>5. /\ DOMAIN tx.rows = {} /\ tx.mail = Posting(mails)
      /\ DOMAIN tx.lot = {x.id} /\ tx.lot[x.id] = None /\ tx.fee = fee /\ tx.lost = {}
    BY DEF Tx, Put, Empty
<1> HIDE DEF tx
<1>6. /\ DOMAIN tx.mail \subseteq MailIds /\ nextMail' \in Nat /\ nextMail <= nextMail'
      /\ \A id \in DOMAIN tx.mail : tx.mail[id] \in Mails /\ id < nextMail'
    BY <1>1, <1>2, <1>4, <1>5, Posted
<1>7. SaveOK(tx) /\ OwnRows(t, tx)
    BY <1>2, <1>4, <1>5, <1>6 DEF SaveOK, OwnRows
<1>8. tx # NoSave
    BY <1>5, SomethingToSend
<1>9. OwnMail(t, tx) /\ OwnLots(t, tx)
    BY <1>1, <1>2, <1>5, TakingMail DEF OwnLots
<1>10. NewIds(tx)
    <2>1. nextLot \in Nat
        BY <1>2 DEF TypeOK
    <2> QED BY <1>1, <1>5, <1>6, <2>1 DEF NewIds
<1>11. Rest(t, tx)
    <2>1. moves \in Nat /\ old \subseteq MailIds /\ overdue \subseteq MailIds
        BY <1>2 DEF TypeOK
    <2>2. x.id \notin over
        BY DEF IInv, SweptAlone, Away
    <2> QED BY <1>1, <1>2, <1>5, <2>1, <2>2, TakingMail DEF Rest
<1> QED BY <1>1, <1>2, <1>7, <1>8, <1>9, <1>10, <1>11, Changing DEF Owned

LEMMA TradedInv ==
    ASSUME IInv, NEW p \in Players, NEW q \in Players,
           NEW i \in Items \cup {None}, NEW j \in Items \cup {None}, NEW m \in Sums, NEW n \in Sums,
           Traded(p, q, i, j, m, n)
    PROVE  IInv'
<1> DEFINE t    == MapOf[p]
           rowp == [bag |-> (Row(p).bag \ Has(i)) \cup Has(j), gold |-> Row(p).gold - m + n]
           rowq == [bag |-> (Row(q).bag \ Has(j)) \cup Has(i), gold |-> Row(q).gold - n + m]
           rows == Both(Put(p, rowp), Put(q, rowq))
           tx   == Tx(rows, Empty, Empty, 0, {})
<1>1. TypeOK /\ t \in Threads /\ m \in Nat /\ n \in Nat
    BY ThreadsAre, MarketAssumption DEF IInv, Threaded
<1>2. /\ pend[t] = NoSave /\ Changes(t, tx) /\ p # q /\ MapOf[q] = t
      /\ Row(p).gold >= m /\ Row(q).gold >= n
      /\ Row(p).gold + n <= MaxMoney + m /\ Row(q).gold + m <= MaxMoney + n
      /\ moves' = moves + 1
      /\ UNCHANGED <<disk, holder, job, old, over, overdue, swept, nextMail, nextLot, crashes>>
    BY DEF Traded, Idle
<1>3. /\ Row(p).gold - m + n \in 0..MaxMoney /\ Row(q).gold - n + m \in 0..MaxMoney
    BY <1>1, <1>2, RowsAre, MarketAssumption
<1>4. rowp \in Rows /\ rowq \in Rows
    BY <1>1, <1>3, RowsAre DEF Rows, Has
<1>5. DOMAIN rows = {p, q} /\ rows[p] \in Rows /\ rows[q] \in Rows
    BY <1>4 DEF Both, Put
<1> HIDE DEF rows
<1>6. /\ tx.rows = rows /\ DOMAIN tx.mail = {} /\ DOMAIN tx.lot = {} /\ tx.fee = 0
      /\ tx.lost = {}
    BY DEF Tx, Empty
<1> HIDE DEF tx
<1>7. SaveOK(tx) /\ OwnRows(t, tx) /\ tx # NoSave
    BY <1>2, <1>5, <1>6, SomethingToSend DEF SaveOK, OwnRows
<1>8. OwnMail(t, tx) /\ OwnLots(t, tx)
    BY <1>2, <1>6 DEF OwnMail, OwnLots
<1>9. NewIds(tx) /\ Rest(t, tx)
    BY <1>1, <1>2, <1>6 DEF NewIds, Rest, TypeOK
<1> QED BY <1>1, <1>2, <1>7, <1>8, <1>9, Changing DEF Owned

LEMMA SweepLotsInv ==
    ASSUME IInv, SweepLots
    PROVE  IInv'
<1> USE DEF IInv
<1>1. /\ pend[Sweeper] = NoSave /\ swept = {} /\ holder["lots"] = None /\ over' = {}
      /\ swept' = {[id |-> l, lot |-> Lot(l)] : l \in over}
      /\ mem' = [mem EXCEPT !.lot = [l \in LotIds |-> IF l \in over THEN None ELSE @[l]]]
      /\ UNCHANGED <<holder, job, pend, nextMail, nextLot, disk, old, overdue, moves, crashes>>
    BY DEF SweepLots, Idle, LotKept
<1>2. mem \in Ledger /\ over \subseteq LotIds /\ nextLot \in Nat
    BY DEF TypeOK
<1>3. /\ mem' \in Ledger /\ mem'.rows = mem.rows /\ mem'.mail = mem.mail
      /\ mem'.spent = mem.spent /\ mem'.lost = mem.lost
      /\ \A l \in LotIds : mem'.lot[l] = IF l \in over THEN None ELSE mem.lot[l]
    BY <1>1, <1>2 DEF Ledger
<1>4. Away = {} /\ Settling = {} /\ Settling' = {} /\ Away' = over
    <2>1. Settling = {} /\ Settling' = {}
        BY <1>1, NoneToSend DEF Settling
    <2>2. \A l \in over : [id |-> l, lot |-> Lot(l)].id = l
        OBVIOUS
    <2> QED BY <1>1, <2>1, <2>2 DEF Away
<1>5. \A l \in over : Lot(l) = disk.lot[l] /\ Lot(l) # None /\ Lot(l) \in Lots /\ l < nextLot
    <2> SUFFICES ASSUME NEW l \in over
                 PROVE Lot(l) = disk.lot[l] /\ Lot(l) # None /\ Lot(l) \in Lots /\ l < nextLot
        OBVIOUS
    <2>1. mem.lot[l] # None /\ l \in LotIds
        BY <1>2 DEF SweptAlone
    <2> QED BY <1>1, <1>4, <2>1, LotIs DEF LotsDue, Fresh, Lot
<1>6. TypeOK'
    <2>1. swept' \subseteq [id : LotIds, lot : Lots]
        BY <1>1, <1>2, <1>5
    <2> QED BY <1>1, <1>3, <2>1 DEF TypeOK
<1>7. Locks'
    BY <1>1 DEF Locks
<1>8. SweptAlone'
    <2>1. \A x \in swept' : x.id \notin Settling' /\ disk'.lot[x.id] = x.lot
        BY <1>1, <1>4, <1>5
    <2> QED BY <1>1, <1>2, <1>3, <1>4, <1>5, <2>1 DEF SweptAlone
<1>9. Fresh'
    BY <1>1, <1>3 DEF Fresh
<1>10. Waits'
    BY <1>1, ThreadsAre DEF Waits, Locks
<1>11. RowsDue' /\ MailDue'
    BY <1>1, <1>3 DEF RowsDue, MailDue
<1>12. LotsDue'
    BY <1>1, <1>3, <1>4 DEF LotsDue
<1> QED BY <1>6, <1>7, <1>8, <1>9, <1>10, <1>11, <1>12

-----------------------------------------------------------------------------
(* A save is written.                                                      *)
LEMMA SentInv ==
    ASSUME IInv, NEW t \in Threads, Sent(t)
    PROVE  IInv'
<1> USE DEF IInv
<1> DEFINE tx == pend[t]
<1>1. /\ disk' = Apply(disk, tx) /\ pend' = [pend EXCEPT ![t] = NoSave]
      /\ job' = [job EXCEPT ![t] = None]
      /\ holder' = [l \in DOMAIN holder |-> IF holder[l] = t THEN None ELSE holder[l]]
      /\ UNCHANGED <<mem, old, over, overdue, swept, nextMail, nextLot, moves, crashes>>
    BY DEF Sent
<1>2. /\ disk \in Ledger /\ SaveOK(tx) /\ DOMAIN pend = Threads
      /\ job \in [Threads -> Jobs \cup {None}]
      /\ holder \in [{"mail", "lots"} -> Threads \cup {None}] /\ None \notin Threads
    BY ThreadsAre DEF TypeOK
<1>3. /\ disk' \in Ledger
      /\ \A p \in Players : disk'.rows[p] = IF p \in DOMAIN tx.rows THEN tx.rows[p] ELSE disk.rows[p]
      /\ \A id \in MailIds : disk'.mail[id] = IF id \in DOMAIN tx.mail THEN tx.mail[id] ELSE disk.mail[id]
      /\ \A l \in LotIds : disk'.lot[l] = IF l \in DOMAIN tx.lot THEN tx.lot[l] ELSE disk.lot[l]
      /\ disk'.spent = disk.spent + tx.fee /\ disk'.lost = disk.lost \cup tx.lost
    BY <1>1, <1>2, Applied
<1>4. /\ DOMAIN pend' = Threads /\ pend'[t] = NoSave /\ job'[t] = None
      /\ \A u \in Threads \ {t} : pend'[u] = pend[u] /\ job'[u] = job[u]
      /\ job' \in [Threads -> Jobs \cup {None}]
    BY <1>1, <1>2
<1>5. /\ holder' \in [{"mail", "lots"} -> Threads \cup {None}]
      /\ \A k \in {"mail", "lots"} :
            /\ holder[k] = t => holder'[k] = None
            /\ holder[k] # t => holder'[k] = holder[k]
    BY <1>1, <1>2
<1>6. /\ DOMAIN pend'[t].rows = {} /\ DOMAIN pend'[t].mail = {} /\ DOMAIN pend'[t].lot = {}
      /\ pend'[t].fee = 0 /\ pend'[t].lost = {} /\ SaveOK(pend'[t])
    BY <1>4, NoneToSend
<1>7. TypeOK'
    BY <1>1, <1>3, <1>4, <1>5, <1>6 DEF TypeOK
<1>8. Settling' = (IF t = Sweeper THEN {} ELSE Settling) /\ Away' \subseteq Away
    <2>1. Sweeper \in Threads
        BY ThreadsAre DEF Threaded
    <2>2. Settling' = IF t = Sweeper THEN {} ELSE Settling
        BY <1>4, <1>6, <2>1 DEF Settling
    <2> QED BY <1>1, <2>2 DEF Away
<1>9. Locks'
    <2>1. holder'["lots"] # Sweeper
        BY <1>2, <1>5, ThreadsAre DEF Locks, Threaded
    <2>2. ASSUME NEW u \in Threads, u # t
          PROVE  /\ \A p \in DOMAIN pend'[u].rows : MapOf[p] = u
                 /\ holder'["mail"] # u =>
                      DOMAIN pend'[u].mail = {} /\ pend'[u].fee = 0 /\ pend'[u].lost = {}
                 /\ holder'["lots"] # u /\ u # Sweeper => DOMAIN pend'[u].lot = {}
                 /\ job'[u] # None => holder'["lots"] = u /\ MapOf[job'[u].who] = u
        <3>1. pend'[u] = pend[u] /\ job'[u] = job[u]
            BY <1>4, <2>2
        <3>2. \A k \in {"mail", "lots"} : holder[k] = u => holder'[k] = u
            BY <1>5, <2>2
        <3> QED BY <3>1, <3>2 DEF Locks
    <2> QED BY <1>4, <1>6, <2>1, <2>2 DEF Locks
<1>10. Fresh'
    BY <1>1 DEF Fresh
<1>11. Away \subseteq LotIds
    BY ThreadsAre DEF Away, Settling, TypeOK, SaveOK, Threaded
<1>12. DOMAIN tx.lot \cap {x.id : x \in swept} = {}
    <2>1. CASE t = Sweeper
        BY <2>1 DEF SweptAlone, Settling
    <2>2. CASE t # Sweeper /\ holder["lots"] = t
        BY <1>2, <2>2 DEF SweptAlone, Away
    <2>3. CASE t # Sweeper /\ holder["lots"] # t
        BY <2>3 DEF Locks
    <2> QED BY <2>1, <2>2, <2>3
<1>13. SweptAlone'
    <2>1. \A x \in swept : x.id \in LotIds
        BY DEF TypeOK
    <2>2. \A x \in swept' : x.id \notin Settling' /\ disk'.lot[x.id] = x.lot
        BY <1>1, <1>3, <1>8, <1>12, <2>1 DEF SweptAlone
    <2>3. \A l \in Settling' : pend'[Sweeper].lot[l] = None
        BY <1>4, <1>8, ThreadsAre DEF SweptAlone, Threaded
    <2>4. holder'["lots"] # None => DOMAIN pend'[holder'["lots"]].lot \cap Away' = {}
        <3>1. SUFFICES ASSUME holder'["lots"] # None
                       PROVE DOMAIN pend'[holder'["lots"]].lot \cap Away' = {}
            OBVIOUS
        <3>2. holder'["lots"] = holder["lots"] /\ holder["lots"] \in Threads \ {t}
            BY <1>2, <1>5, <3>1
        <3> QED BY <1>2, <1>4, <1>8, <3>2 DEF SweptAlone
    <2> QED BY <1>1, <1>8, <2>2, <2>3, <2>4 DEF SweptAlone
<1>14. Waits'
    <2>1. \A k : Allowed(k)' <=> Allowed(k)
        BY <1>1 DEF Allowed
    <2> QED BY <1>4, <2>1 DEF Waits, Allowed
<1>15. RowsDue'
    <2> SUFFICES ASSUME NEW p \in Players
                 PROVE mem'.rows[p] = IF p \in DOMAIN pend'[MapOf[p]].rows
                                      THEN pend'[MapOf[p]].rows[p] ELSE disk'.rows[p]
        BY DEF RowsDue
    <2>1. MapOf[p] \in Threads
        BY ThreadsAre DEF Threaded
    <2>2. p \in DOMAIN tx.rows => MapOf[p] = t
        BY DEF Locks
    <2> QED BY <1>1, <1>3, <1>4, <1>6, <2>1, <2>2 DEF RowsDue
<1>16. MailDue'
    <2>1. CASE holder["mail"] = t
        <3>1. holder'["mail"] = None
            BY <1>5, <2>1
        <3>2. t # None
            BY <1>2
        <3>3. \A id \in MailIds : mem'.mail[id] = disk'.mail[id]
            BY <1>1, <1>3, <2>1, <3>2 DEF MailDue
        <3>4. mem'.spent = disk'.spent /\ mem'.lost = disk'.lost
            BY <1>1, <1>3, <2>1, <3>2 DEF MailDue
        <3> QED BY <3>1, <3>3, <3>4 DEF MailDue
    <2>2. CASE holder["mail"] # t
        <3>1. /\ holder'["mail"] = holder["mail"] /\ DOMAIN tx.mail = {} /\ tx.fee = 0 /\ tx.lost = {}
            BY <1>5, <2>2 DEF Locks
        <3>2. /\ \A id \in MailIds : disk'.mail[id] = disk.mail[id]
              /\ disk'.spent = disk.spent /\ disk'.lost = disk.lost
            BY <1>2, <1>3, <3>1 DEF Ledger
        <3>3. holder["mail"] # None => pend'[holder["mail"]] = pend[holder["mail"]]
            BY <1>2, <1>4, <2>2
        <3> QED BY <1>1, <3>1, <3>2, <3>3 DEF MailDue
    <2> QED BY <2>1, <2>2
<1>17. LotsDue'
    <2> SUFFICES ASSUME NEW l \in LotIds, l \notin Away'
                 PROVE mem'.lot[l] = IF /\ holder'["lots"] # None
                                        /\ l \in DOMAIN pend'[holder'["lots"]].lot
                                     THEN pend'[holder'["lots"]].lot[l] ELSE disk'.lot[l]
        BY DEF LotsDue
    <2>1. CASE t = Sweeper /\ l \in Away
        <3>1. l \in DOMAIN tx.lot
            BY <1>1, <2>1 DEF Away, Settling
        <3>2. mem.lot[l] = None /\ disk'.lot[l] = None
            BY <1>3, <2>1, <3>1 DEF SweptAlone, Settling
        <3>3. holder["lots"] # None => l \notin DOMAIN pend[holder["lots"]].lot
            BY <2>1 DEF SweptAlone
        <3>4. holder["lots"] # t /\ holder'["lots"] = holder["lots"]
            BY <1>5, <2>1 DEF Locks
        <3>5. holder["lots"] # None => pend'[holder["lots"]] = pend[holder["lots"]]
            BY <1>2, <1>4, <3>4
        <3> QED BY <1>1, <3>2, <3>3, <3>4, <3>5
    <2>2. CASE t = Sweeper /\ l \notin Away
        <3>1. l \notin DOMAIN tx.lot
            BY <2>2 DEF Away, Settling
        <3>2. holder["lots"] # t /\ holder'["lots"] = holder["lots"]
            BY <1>5, <2>2 DEF Locks
        <3>3. holder["lots"] # None => pend'[holder["lots"]] = pend[holder["lots"]]
            BY <1>2, <1>4, <3>2
        <3> QED BY <1>1, <1>3, <2>2, <3>1, <3>2, <3>3 DEF LotsDue
    <2>3. CASE t # Sweeper
        <3>1. l \notin Away
            BY <1>1, <1>8, <2>3 DEF Away
        <3>2. CASE holder["lots"] = t
            <4>1. holder'["lots"] = None /\ t # None
                BY <1>2, <1>5, <3>2
            <4> QED BY <1>1, <1>3, <3>1, <3>2, <4>1 DEF LotsDue
        <3>3. CASE holder["lots"] # t
            <4>1. holder'["lots"] = holder["lots"] /\ DOMAIN tx.lot = {}
                BY <1>5, <2>3, <3>3 DEF Locks
            <4>2. holder["lots"] # None => pend'[holder["lots"]] = pend[holder["lots"]]
                BY <1>2, <1>4, <3>3
            <4> QED BY <1>1, <1>3, <3>1, <4>1, <4>2 DEF LotsDue
        <3> QED BY <3>2, <3>3
    <2> QED BY <2>1, <2>2, <2>3
<1> QED BY <1>7, <1>9, <1>10, <1>13, <1>14, <1>15, <1>16, <1>17

-----------------------------------------------------------------------------
(* A crash, and the start: ids go on after the highest there is.           *)
LEMMA LeastOf ==
    ASSUME NEW I, I \subseteq Nat, I # {}
    PROVE  \E m \in I : \A i \in I : m <= i
<1>1. PICK m \in I : \A i \in I : <<i, m>> \notin OpToRel(<, Nat)
    BY NatLessThanWellFounded, WFMin
<1>2. \A i \in I : ~(i < m)
    <2> SUFFICES ASSUME NEW i \in I, i < m PROVE FALSE
        OBVIOUS
    <2>1. <<i, m>> \in Nat \X Nat /\ <<i, m>>[1] < <<i, m>>[2]
        OBVIOUS
    <2> QED BY <1>1, <2>1, Zenon DEF OpToRel
<1> QED BY <1>2

LEMMA NextIdIs ==
    ASSUME NEW N \in Nat, NEW V, NEW f \in [1..N -> V]
    PROVE  NextId(f) \in Nat \ {0} /\ \A m \in 1..N : f[m] # None => m < NextId(f)
<1> DEFINE Above(n) == \A m \in 1..N : m >= n => f[m] = None
           I == {n \in Nat : n > 0 /\ Above(n)}
<1>1. N + 1 \in I
    OBVIOUS
<1>2. PICK n \in I : \A k \in I : n <= k
    BY <1>1, LeastOf
<1>3. n \in 1..(N + 1) /\ Above(n)
    BY <1>1, <1>2
<1>4. n > 1 => f[n - 1] # None
    <2> SUFFICES ASSUME n > 1, f[n - 1] = None PROVE FALSE
        OBVIOUS
    <2>1. n - 1 \notin I
        BY <1>2
    <2>2. PICK m \in 1..N : m >= n - 1 /\ f[m] # None
        BY <1>3, <2>1
    <2>3. m >= n
        BY <1>3, <2>2
    <2> QED BY <1>3, <2>2, <2>3
<1>5. Cardinality(DOMAIN f) = N
    BY FS_Interval
<1>6. \E k \in 1..(Cardinality(DOMAIN f) + 1) :
          /\ \A m \in DOMAIN f : m >= k => f[m] = None
          /\ k > 1 => f[k - 1] # None
    BY <1>3, <1>4, <1>5
<1>7. /\ NextId(f) \in 1..(Cardinality(DOMAIN f) + 1)
      /\ \A m \in DOMAIN f : m >= NextId(f) => f[m] = None
    BY <1>6 DEF NextId
<1> QED BY <1>5, <1>7

LEMMA CrashInv ==
    ASSUME IInv, Crash
    PROVE  IInv'
<1> USE DEF IInv
<1>1. /\ mem' = disk /\ disk' = disk /\ moves' = moves /\ crashes' = crashes + 1
      /\ holder' = [mail |-> None, lots |-> None]
      /\ job' = [t \in Threads |-> None] /\ pend' = [t \in Threads |-> NoSave]
      /\ overdue' = {} /\ swept' = {}
      /\ nextMail' = NextId(disk.mail) /\ nextLot' = NextId(disk.lot)
      /\ old' \subseteq old /\ over' \subseteq over /\ \A l \in over' : disk.lot[l] # None
    BY DEF Crash
<1>2. /\ disk \in Ledger /\ disk.mail \in [1..MaxMails -> Mails \cup {None}]
      /\ disk.lot \in [1..MaxLots -> Lots \cup {None}]
    BY DEF TypeOK, Ledger, MailIds, LotIds
<1>3. /\ nextMail' \in Nat \ {0} /\ nextLot' \in Nat \ {0}
      /\ \A id \in MailIds : disk.mail[id] # None => id < nextMail'
      /\ \A l \in LotIds : disk.lot[l] # None => l < nextLot'
    BY <1>1, <1>2, NextIdIs, MarketAssumption DEF MailIds, LotIds
<1>4. /\ DOMAIN pend' = Threads
      /\ \A t \in Threads : /\ pend'[t] = NoSave /\ SaveOK(pend'[t])
                            /\ DOMAIN pend'[t].rows = {} /\ DOMAIN pend'[t].mail = {}
                            /\ DOMAIN pend'[t].lot = {}
                            /\ pend'[t].fee = 0 /\ pend'[t].lost = {}
    BY <1>1, NoneToSend
<1>5. /\ holder'["lots"] = None /\ holder'["mail"] = None
      /\ holder' \in [{"mail", "lots"} -> Threads \cup {None}]
    BY <1>1
<1>6. Settling' = {} /\ Away' = {}
    BY <1>1, <1>4, ThreadsAre DEF Settling, Away, Threaded
<1>7. TypeOK'
    BY <1>1, <1>2, <1>3, <1>4, <1>5 DEF TypeOK
<1>8. Locks'
    BY <1>1, <1>4, <1>5, ThreadsAre DEF Locks, Threaded
<1>9. SweptAlone' /\ Fresh'
    BY <1>1, <1>3, <1>5, <1>6 DEF SweptAlone, Fresh
<1>10. Waits' /\ RowsDue'
    BY <1>1, <1>4, ThreadsAre DEF Waits, RowsDue, Threaded
<1>11. MailDue' /\ LotsDue'
    BY <1>1, <1>5 DEF MailDue, LotsDue
<1> QED BY <1>7, <1>8, <1>9, <1>10, <1>11

LEMMA InitInv == Init => IInv
<1> SUFFICES ASSUME Init PROVE IInv
    OBVIOUS
<1>1. /\ disk = mem /\ mem \in Ledger
      /\ \A id \in MailIds : mem.mail[id] = None
      /\ \A l \in LotIds : mem.lot[l] = None
    <2>1. PICK owner \in [Items -> Players] :
            mem = [rows |-> [p \in Players |-> [bag |-> {i \in Items : owner[i] = p}, gold |-> Gold]],
                   mail |-> [id \in MailIds |-> None], lot |-> [l \in LotIds |-> None],
                   spent |-> 0, lost |-> {}]
        BY DEF Init
    <2>2. \A p \in Players : [bag |-> {i \in Items : owner[i] = p}, gold |-> Gold] \in Rows
        BY MarketAssumption DEF Rows
    <2> QED BY <2>1, <2>2 DEF Init, Ledger
<1>2. /\ DOMAIN pend = Threads
      /\ \A t \in Threads : /\ pend[t] = NoSave /\ SaveOK(pend[t]) /\ job[t] = None
                            /\ DOMAIN pend[t].rows = {} /\ DOMAIN pend[t].mail = {}
                            /\ DOMAIN pend[t].lot = {}
                            /\ pend[t].fee = 0 /\ pend[t].lost = {}
      /\ job \in [Threads -> Jobs \cup {None}]
    BY NoneToSend DEF Init
<1>3. /\ holder["lots"] = None /\ holder["mail"] = None
      /\ holder \in [{"mail", "lots"} -> Threads \cup {None}]
    BY DEF Init
<1>4. Settling = {} /\ Away = {} /\ swept = {} /\ over = {} /\ overdue = {} /\ old = {}
    BY <1>2, ThreadsAre DEF Init, Settling, Away, Threaded
<1>5. TypeOK
    BY <1>1, <1>2, <1>3, <1>4 DEF TypeOK, Init
<1>6. Locks
    BY <1>2, <1>3, ThreadsAre DEF Locks, Threaded
<1>7. SweptAlone /\ Fresh
    BY <1>1, <1>3, <1>4 DEF SweptAlone, Fresh
<1>8. Waits /\ RowsDue
    BY <1>1, <1>2, ThreadsAre DEF Waits, RowsDue, Threaded
<1>9. MailDue /\ LotsDue
    BY <1>1, <1>3 DEF MailDue, LotsDue
<1> QED BY <1>5, <1>6, <1>7, <1>8, <1>9 DEF IInv

LEMMA NextInv == IInv /\ [Next]_vars => IInv'
<1> SUFFICES ASSUME IInv, [Next]_vars PROVE IInv'
    OBVIOUS
<1>1. CASE \E t \in Threads : Sent(t)
    BY <1>1, SentInv
<1>2. CASE \E t \in Threads : BidMade(t)
    BY <1>2, BidMadeInv
<1>3. CASE \E t \in Threads : CancelMade(t)
    BY <1>3, CancelMadeInv
<1>4. CASE Crash
    BY <1>4, CrashInv
<1>5. CASE Ages \/ FindExpired \/ \E id \in MailIds : ExpireNot(id)
    BY <1>5, LooksInv
<1>6. CASE \E p \in Players, id \in MailIds :
              TakeMoney(p, id) \/ TakeItem(p, id) \/ ReturnMail(p, id) \/ DeleteMail(p, id)
    BY <1>6, TakeMoneyInv, TakeItemInv, ReturnMailInv, DeleteMailInv
<1>7. CASE \E p, to \in Players, i \in Items \cup {None}, m \in Sums, c \in Cods :
              SendMail(p, to, i, m, c)
    BY <1>7, SendMailInv
<1>8. CASE \E p \in Players, i \in Items, b \in Buyouts : Sell(p, i, b)
    BY <1>8, SellInv
<1>9. CASE \E p \in Players, l \in LotIds : CancelAsked(p, l)
    BY <1>9, CancelAskedInv
<1>10. CASE \E p \in Players, l \in LotIds, n \in Prices : BidAsked(p, l, n)
    BY <1>10, BidAskedInv
<1>11. CASE \E p, q \in Players, i, j \in Items \cup {None}, m, n \in Sums :
               Traded(p, q, i, j, m, n)
    BY <1>11, TradedInv
<1>12. CASE \E id \in MailIds : Expire(id)
    BY <1>12, ExpireInv
<1>13. CASE SweepLots
    BY <1>13, SweepLotsInv
<1>14. CASE \E x \in swept : Settle(x)
    BY <1>14, SettleInv
<1>15. CASE UNCHANGED vars
    BY <1>15, SweepLooks DEF vars, IInv, TypeOK, SweptAlone
<1> QED BY <1>1, <1>2, <1>3, <1>4, <1>5, <1>6, <1>7, <1>8, <1>9, <1>10, <1>11, <1>12, <1>13,
           <1>14, <1>15 DEF Next

(* The invariant holds always.                                             *)
THEOREM Inductive == Spec => []IInv
<1>1. IInv /\ [Next]_vars => IInv'
    BY NextInv
<1> QED BY <1>1, InitInv, PTL DEF Spec

(* No one's money is less than nothing or more than MAX_MONEY, whatever    *)
(* comes by mail, auction or trade, and a buyout ends its auction.         *)
THEOREM TypeCorrect == Spec => []TypeOK
<1>1. IInv => TypeOK
    BY DEF IInv
<1> QED BY <1>1, Inductive, PTL

(* With every save sent, the database says what memory does: of no         *)
(* character, mail or auction is an older change written over a newer      *)
(* (mail.rs sends each save under the lock its change was made under).     *)
THEOREM LastWordStands == Spec => []LastWord
<1>1. IInv => LastWord
    <2> SUFFICES ASSUME IInv, swept = {}, \A t \in Threads : pend[t] = NoSave
                 PROVE  disk = mem
        BY DEF LastWord
    <2> USE DEF IInv
    <2>1. /\ mem \in Ledger /\ disk \in Ledger
          /\ holder \in [{"mail", "lots"} -> Threads \cup {None}]
        BY DEF TypeOK
    <2>2. /\ Away = {}
          /\ \A t \in Threads : /\ DOMAIN pend[t].rows = {} /\ DOMAIN pend[t].mail = {}
                                /\ DOMAIN pend[t].lot = {}
                                /\ pend[t].fee = 0 /\ pend[t].lost = {}
        BY NoneToSend, ThreadsAre DEF Away, Settling, Threaded
    <2>3. \A p \in Players : mem.rows[p] = disk.rows[p]
        BY <2>2, ThreadsAre DEF RowsDue, Threaded
    <2>4. /\ \A id \in MailIds : mem.mail[id] = disk.mail[id]
          /\ mem.spent = disk.spent /\ mem.lost = disk.lost
        <3>1. CASE holder["mail"] = None
            BY <3>1 DEF MailDue
        <3>2. CASE holder["mail"] \in Threads
            BY <2>1, <2>2, <3>2, ThreadsAre DEF MailDue, Ledger
        <3> QED BY <2>1, <3>1, <3>2
    <2>5. \A l \in LotIds : mem.lot[l] = disk.lot[l]
        BY <2>1, <2>2 DEF LotsDue
    <2>6. mem.rows = disk.rows /\ mem.mail = disk.mail /\ mem.lot = disk.lot
        BY <2>1, <2>3, <2>4, <2>5 DEF Ledger
    <2> QED BY <2>1, <2>4, <2>6 DEF Ledger
<1> QED BY <1>1, Inductive, PTL

-----------------------------------------------------------------------------
(* Where items are.                                                        *)
LEMMA At ==
    ASSUME NEW L, NEW i
    PROVE  /\ \A p : <<"bag", p>> \in Places(L, i) <=> p \in DOMAIN L.rows /\ i \in L.rows[p].bag
           /\ \A id : <<"mail", id>> \in Places(L, i) <=>
                 id \in DOMAIN L.mail /\ L.mail[id] # None /\ L.mail[id].item = i
           /\ \A l : <<"lot", l>> \in Places(L, i) <=>
                 l \in DOMAIN L.lot /\ L.lot[l] # None /\ L.lot[l].item = i
           /\ Places(L, i) \subseteq Keys(L)
BY DEF Places, Keys

LEMMA KeysAre ==
    ASSUME NEW tx
    PROVE  /\ \A p : <<"bag", p>> \in Keys(tx) <=> p \in DOMAIN tx.rows
           /\ \A id : <<"mail", id>> \in Keys(tx) <=> id \in DOMAIN tx.mail
           /\ \A l : <<"lot", l>> \in Keys(tx) <=> l \in DOMAIN tx.lot
           /\ \A k \in Keys(tx) : \/ \E p \in DOMAIN tx.rows : k = <<"bag", p>>
                                  \/ \E id \in DOMAIN tx.mail : k = <<"mail", id>>
                                  \/ \E l \in DOMAIN tx.lot : k = <<"lot", l>>
BY DEF Keys

LEMMA AppliedPlaces ==
    ASSUME NEW L \in Ledger, NEW tx, SaveOK(tx), NEW i
    PROVE  Places(Apply(L, tx), i) = (Places(L, i) \ Keys(tx)) \cup Places(tx, i)
<1> DEFINE A == Apply(L, tx)
<1>1. /\ A \in Ledger
      /\ \A p \in Players : A.rows[p] = IF p \in DOMAIN tx.rows THEN tx.rows[p] ELSE L.rows[p]
      /\ \A id \in MailIds : A.mail[id] = IF id \in DOMAIN tx.mail THEN tx.mail[id] ELSE L.mail[id]
      /\ \A l \in LotIds : A.lot[l] = IF l \in DOMAIN tx.lot THEN tx.lot[l] ELSE L.lot[l]
    BY Applied
<1> HIDE DEF A
<1>2. /\ DOMAIN A.rows = Players /\ DOMAIN A.mail = MailIds /\ DOMAIN A.lot = LotIds
      /\ DOMAIN L.rows = Players /\ DOMAIN L.mail = MailIds /\ DOMAIN L.lot = LotIds
      /\ DOMAIN tx.rows \subseteq Players /\ DOMAIN tx.mail \subseteq MailIds
      /\ DOMAIN tx.lot \subseteq LotIds
    BY <1>1 DEF Ledger, SaveOK
<1>3. \A p \in Players : <<"bag", p>> \in Places(A, i) <=>
          \/ <<"bag", p>> \in Places(L, i) /\ <<"bag", p>> \notin Keys(tx)
          \/ <<"bag", p>> \in Places(tx, i)
    <2> SUFFICES ASSUME NEW p \in Players
                 PROVE  <<"bag", p>> \in Places(A, i) <=>
                          \/ <<"bag", p>> \in Places(L, i) /\ <<"bag", p>> \notin Keys(tx)
                          \/ <<"bag", p>> \in Places(tx, i)
        OBVIOUS
    <2>1. <<"bag", p>> \in Places(A, i) <=> i \in A.rows[p].bag
        BY <1>2, At
    <2>2. <<"bag", p>> \in Places(L, i) <=> i \in L.rows[p].bag
        BY <1>2, At
    <2>3. <<"bag", p>> \in Places(tx, i) <=> p \in DOMAIN tx.rows /\ i \in tx.rows[p].bag
        BY At
    <2>4. <<"bag", p>> \in Keys(tx) <=> p \in DOMAIN tx.rows
        BY KeysAre
    <2> QED BY <1>1, <2>1, <2>2, <2>3, <2>4
<1>4. \A id \in MailIds : <<"mail", id>> \in Places(A, i) <=>
          \/ <<"mail", id>> \in Places(L, i) /\ <<"mail", id>> \notin Keys(tx)
          \/ <<"mail", id>> \in Places(tx, i)
    <2> SUFFICES ASSUME NEW id \in MailIds
                 PROVE  <<"mail", id>> \in Places(A, i) <=>
                          \/ <<"mail", id>> \in Places(L, i) /\ <<"mail", id>> \notin Keys(tx)
                          \/ <<"mail", id>> \in Places(tx, i)
        OBVIOUS
    <2>1. <<"mail", id>> \in Places(A, i) <=> A.mail[id] # None /\ A.mail[id].item = i
        BY <1>2, At
    <2>2. <<"mail", id>> \in Places(L, i) <=> L.mail[id] # None /\ L.mail[id].item = i
        BY <1>2, At
    <2>3. <<"mail", id>> \in Places(tx, i) <=> id \in DOMAIN tx.mail /\ tx.mail[id] # None /\ tx.mail[id].item = i
        BY At
    <2>4. <<"mail", id>> \in Keys(tx) <=> id \in DOMAIN tx.mail
        BY KeysAre
    <2> QED BY <1>1, <2>1, <2>2, <2>3, <2>4
<1>5. \A l \in LotIds : <<"lot", l>> \in Places(A, i) <=>
          \/ <<"lot", l>> \in Places(L, i) /\ <<"lot", l>> \notin Keys(tx)
          \/ <<"lot", l>> \in Places(tx, i)
    <2> SUFFICES ASSUME NEW l \in LotIds
                 PROVE  <<"lot", l>> \in Places(A, i) <=>
                          \/ <<"lot", l>> \in Places(L, i) /\ <<"lot", l>> \notin Keys(tx)
                          \/ <<"lot", l>> \in Places(tx, i)
        OBVIOUS
    <2>1. <<"lot", l>> \in Places(A, i) <=> A.lot[l] # None /\ A.lot[l].item = i
        BY <1>2, At
    <2>2. <<"lot", l>> \in Places(L, i) <=> L.lot[l] # None /\ L.lot[l].item = i
        BY <1>2, At
    <2>3. <<"lot", l>> \in Places(tx, i) <=> l \in DOMAIN tx.lot /\ tx.lot[l] # None /\ tx.lot[l].item = i
        BY At
    <2>4. <<"lot", l>> \in Keys(tx) <=> l \in DOMAIN tx.lot
        BY KeysAre
    <2> QED BY <1>1, <2>1, <2>2, <2>3, <2>4
<1>6. /\ Places(A, i) \subseteq Keys(A) /\ Places(L, i) \subseteq Keys(A)
      /\ Places(tx, i) \subseteq Keys(A)
    BY <1>2 DEF Places, Keys
<1>7. \A k \in Keys(A) : \/ \E p \in Players : k = <<"bag", p>>
                         \/ \E id \in MailIds : k = <<"mail", id>>
                         \/ \E l \in LotIds : k = <<"lot", l>>
    BY <1>2 DEF Keys
<1>8. \A k \in Keys(A) : k \in Places(A, i) <=>
          k \in (Places(L, i) \ Keys(tx)) \cup Places(tx, i)
    BY <1>3, <1>4, <1>5, <1>7
<1> QED BY <1>6, <1>8 DEF A

(* A save that leaves an item where it is.                                 *)
LEMMA Stays ==
    ASSUME Once(disk), NEW i \in Items, NEW tx, i \notin tx.lost,
           Places(tx, i) = Places(disk, i) \cap Keys(tx)
    PROVE  Moved(disk, tx, i)
BY DEF Once, Moved, OneOf

(* A save that puts an item elsewhere.                                     *)
LEMMA Goes ==
    ASSUME NEW i \in Items, NEW tx, i \notin tx.lost, NEW from \in Keys(tx),
           from \in Places(disk, i), NEW to \in Places(tx, i), \A k \in Places(tx, i) : k = to
    PROVE  Moved(disk, tx, i)
<1>1. Places(tx, i) = {to}
    OBVIOUS
<1> QED BY <1>1 DEF Moved, OneOf

(* A save of nothing.                                                      *)
LEMMA NothingMoves == ASSUME NEW L PROVE Moves(L, NoSave)
<1>1. Keys(NoSave) = {} /\ \A i : Places(NoSave, i) = {}
    BY NoneToSend DEF Keys, Places
<1> QED BY <1>1, NoneToSend DEF Moves, Moved

(* No two threads are about to save the same record.                       *)
LEMMA OneSaves ==
    ASSUME IInv, NEW t \in Threads, NEW u \in Threads, u # t
    PROVE  /\ DOMAIN pend[u].rows \cap DOMAIN pend[t].rows = {}
           /\ DOMAIN pend[u].mail \cap DOMAIN pend[t].mail = {}
           /\ DOMAIN pend[u].lot \cap DOMAIN pend[t].lot = {}
<1>1. /\ DOMAIN pend[u].rows \cap DOMAIN pend[t].rows = {}
      /\ DOMAIN pend[u].mail \cap DOMAIN pend[t].mail = {}
    BY DEF IInv, Locks
<1>2. DOMAIN pend[u].lot \cap DOMAIN pend[t].lot = {}
    <2>1. \A v \in Threads : DOMAIN pend[v].lot # {} => v = Sweeper \/ v = holder["lots"]
        BY DEF IInv, Locks
    <2>2. holder["lots"] \in Threads => DOMAIN pend[holder["lots"]].lot \cap DOMAIN pend[Sweeper].lot = {}
        BY ThreadsAre DEF IInv, SweptAlone, Away, Settling
    <2> QED BY <2>1, <2>2
<1> QED BY <1>1, <1>2

LEMMA SentItems ==
    ASSUME IInv, ItemsInv, NEW t \in Threads, Sent(t)
    PROVE  ItemsInv'
<1> DEFINE tx == pend[t]
<1>1. /\ disk' = Apply(disk, tx) /\ disk \in Ledger /\ SaveOK(tx) /\ DOMAIN pend = Threads
      /\ pend'[t] = NoSave /\ \A u \in Threads \ {t} : pend'[u] = pend[u]
    BY DEF Sent, IInv, TypeOK
<1>2. disk'.lost = disk.lost \cup tx.lost
    BY <1>1, Applied
<1>3. \A i : Places(disk', i) = (Places(disk, i) \ Keys(tx)) \cup Places(tx, i)
    BY <1>1, AppliedPlaces
<1>4. \A i : Places(tx, i) \subseteq Keys(tx)
    BY At
<1>5. Once(disk')
    <2> SUFFICES ASSUME NEW i \in Items PROVE OneOf(Places(disk', i), i, disk'.lost)
        BY DEF Once
    <2>1. OneOf(Places(disk, i), i, disk.lost) /\ Moved(disk, tx, i)
        BY DEF ItemsInv, Once, Moves
    <2>2. CASE Places(disk, i) \cap Keys(tx) = {}
        BY <1>2, <1>3, <2>1, <2>2 DEF Moved, OneOf
    <2>3. CASE Places(disk, i) \cap Keys(tx) # {}
        <3>1. i \notin disk.lost /\ Places(disk, i) \ Keys(tx) = {}
            BY <2>1, <2>3 DEF OneOf
        <3>2. Places(disk', i) = Places(tx, i) /\ OneOf(Places(tx, i), i, tx.lost)
            BY <1>3, <2>1, <2>3, <3>1 DEF Moved
        <3> QED BY <1>2, <3>1, <3>2 DEF OneOf
    <2> QED BY <2>2, <2>3
<1>6. ASSUME NEW u \in Threads, u # t PROVE Keys(pend[u]) \cap Keys(tx) = {}
    <2>1. /\ DOMAIN pend[u].rows \cap DOMAIN tx.rows = {}
          /\ DOMAIN pend[u].mail \cap DOMAIN tx.mail = {}
          /\ DOMAIN pend[u].lot \cap DOMAIN tx.lot = {}
        BY <1>6, OneSaves
    <2>2. ASSUME NEW k \in Keys(pend[u]), k \in Keys(tx) PROVE FALSE
        <3>1. CASE \E p \in DOMAIN pend[u].rows : k = <<"bag", p>>
            BY <2>1, <2>2, <3>1, KeysAre
        <3>2. CASE \E id \in DOMAIN pend[u].mail : k = <<"mail", id>>
            BY <2>1, <2>2, <3>2, KeysAre
        <3>3. CASE \E l \in DOMAIN pend[u].lot : k = <<"lot", l>>
            BY <2>1, <2>2, <3>3, KeysAre
        <3> QED BY <3>1, <3>2, <3>3, KeysAre
    <2> QED BY <2>2
<1>7. ASSUME NEW u \in Threads PROVE Moves(disk', pend'[u])
    <2>1. CASE u = t
        BY <1>1, <2>1, NothingMoves
    <2>2. CASE u # t
        <3>1. \A i : Places(disk', i) \cap Keys(pend[u]) = Places(disk, i) \cap Keys(pend[u])
            BY <1>3, <1>4, <1>6, <2>2
        <3>2. Moves(disk, pend[u])
            BY DEF ItemsInv
        <3> QED BY <1>1, <2>2, <3>1, <3>2 DEF Moves, Moved
    <2> QED BY <2>1, <2>2
<1> QED BY <1>5, <1>7 DEF ItemsInv

LEMMA ChangingItems ==
    ASSUME IInv, ItemsInv, NEW t \in Threads, NEW tx, Changes(t, tx), disk' = disk,
           Moves(disk, tx)
    PROVE  ItemsInv'
<1>1. \A u \in Threads : pend'[u] = IF u = t THEN tx ELSE pend[u]
    BY DEF Changes, Saving, IInv, TypeOK
<1> QED BY <1>1 DEF ItemsInv, Once

(* What the database says of what a thread may change is what memory does. *)
LEMMA Current ==
    ASSUME IInv, NEW t \in Threads, pend[t] = NoSave
    PROVE  /\ \A p \in Players : MapOf[p] = t => disk.rows[p] = mem.rows[p]
           /\ holder["mail"] = None => \A id \in MailIds : disk.mail[id] = mem.mail[id]
           /\ holder["lots"] \in {None, t} => \A l \in LotIds \ Away : disk.lot[l] = mem.lot[l]
BY NoneToSend DEF IInv, RowsDue, MailDue, LotsDue

(* There is nothing where a mail or an auction is to be.                   *)
LEMMA NothingThere ==
    ASSUME IInv, NEW t \in Threads, pend[t] = NoSave, NEW i
    PROVE  /\ \A id : holder["mail"] = None /\ id >= nextMail => <<"mail", id>> \notin Places(disk, i)
           /\ holder["lots"] = None => <<"lot", nextLot>> \notin Places(disk, i)
<1>1. /\ DOMAIN disk.mail = MailIds /\ DOMAIN disk.lot = LotIds
      /\ nextMail \in Nat /\ nextLot \in Nat
    BY DEF IInv, TypeOK, Ledger
<1>2. \A id \in MailIds : holder["mail"] = None /\ id >= nextMail => disk.mail[id] = None
    BY <1>1, Current DEF IInv, Fresh, MailIds
<1>3. nextLot \in LotIds /\ holder["lots"] = None => disk.lot[nextLot] = None
    <2>1. nextLot \notin Away
        BY <1>1 DEF IInv, SweptAlone
    <2> QED BY <1>1, <2>1, Current DEF IInv, Fresh
<1> QED BY <1>1, <1>2, <1>3, At

-----------------------------------------------------------------------------
(* Each change moves what it has.                                          *)
LEMMA SendMailItems ==
    ASSUME IInv, ItemsInv, NEW p \in Players, NEW to \in Players, NEW i \in Items \cup {None},
           NEW m \in Sums, NEW c \in Cods, SendMail(p, to, i, m, c)
    PROVE  ItemsInv'
<1> DEFINE t == MapOf[p]
           row == [bag |-> Row(p).bag \ Has(i), gold |-> Row(p).gold - (m + Postage)]
           letter == Letter(p, to, i, m, IF i = None THEN 0 ELSE c)
           tx == Tx(Giving(p, i, m + Postage), Posting(<<letter>>), Empty, Postage, {})
<1>1. /\ t \in Threads /\ Changes(t, tx) /\ disk' = disk /\ pend[t] = NoSave
      /\ holder["mail"] = None /\ (i # None => i \in Row(p).bag)
    BY ThreadsAre DEF SendMail, MailStep, MailKept, Idle, Takes, Threaded
<1>2. /\ nextMail \in Nat /\ disk.rows[p] = Row(p) /\ DOMAIN disk.rows = Players
      /\ None \notin Items
    BY <1>1, Current, MarketAssumption DEF IInv, TypeOK, Ledger, Row
<1>3. letter # None /\ letter.item = i
    <2>1. (IF i = None THEN 0 ELSE c) \in Nat /\ m \in Nat
        BY MarketAssumption
    <2>2. letter \in Mails
        BY <2>1, LettersAre
    <2> QED BY <2>2, MarketAssumption DEF Letter
<1> HIDE DEF letter
<1>4. /\ DOMAIN tx.rows = {p} /\ tx.rows[p].bag = Row(p).bag \ Has(i)
      /\ DOMAIN tx.mail = {nextMail} /\ tx.mail[nextMail] = letter
      /\ DOMAIN tx.lot = {} /\ tx.lost = {}
    BY <1>2 DEF Tx, Giving, Put, Posting, Empty
<1> HIDE DEF tx
<1>5. ASSUME NEW j \in Items PROVE Moved(disk, tx, j)
    <2>1. Keys(tx) = {<<"bag", p>>, <<"mail", nextMail>>}
        BY <1>4 DEF Keys
    <2>2. /\ <<"bag", p>> \in Places(tx, j) <=> j \in Row(p).bag \ Has(i)
          /\ <<"mail", nextMail>> \in Places(tx, j) <=> j = i
          /\ Places(tx, j) \subseteq Keys(tx)
        BY <1>3, <1>4, At
    <2>3. /\ <<"bag", p>> \in Places(disk, j) <=> j \in Row(p).bag
          /\ <<"mail", nextMail>> \notin Places(disk, j)
        BY <1>1, <1>2, At, NothingThere
    <2>4. CASE j = i
        <3>1. <<"bag", p>> \notin Places(tx, j)
            BY <1>2, <2>2, <2>4 DEF Has
        <3>2. <<"mail", nextMail>> \in Places(tx, j) /\ <<"bag", p>> \in Places(disk, j)
            BY <1>1, <1>2, <2>2, <2>3, <2>4
        <3>3. \A k \in Places(tx, j) : k = <<"mail", nextMail>>
            BY <2>1, <2>2, <3>1
        <3> QED BY <1>4, <2>1, <3>2, <3>3, Goes
    <2>5. CASE j # i
        <3>1. j \notin Has(i)
            BY <2>5 DEF Has
        <3>2. Places(tx, j) = Places(disk, j) \cap Keys(tx)
            BY <2>1, <2>2, <2>3, <2>5, <3>1
        <3> QED BY <1>4, <3>2, Stays DEF ItemsInv
    <2> QED BY <2>4, <2>5
<1> QED BY <1>1, <1>5, ChangingItems DEF Moves

LEMMA TakeMoneyItems ==
    ASSUME IInv, ItemsInv, NEW p \in Players, NEW id \in MailIds, TakeMoney(p, id)
    PROVE  ItemsInv'
<1> DEFINE t == MapOf[p]
           room == MaxMoney - Row(p).gold
           take == IF Mail(id).money < room THEN Mail(id).money ELSE room
           left == [Mail(id) EXCEPT !.money = @ - take]
           tx == Tx(Getting(p, None, take), Put(id, left), Empty, 0, {})
<1>1. /\ t \in Threads /\ Changes(t, tx) /\ disk' = disk /\ pend[t] = NoSave
      /\ holder["mail"] = None /\ Mail(id) # None
    BY ThreadsAre DEF TakeMoney, MailStep, MailKept, Idle, Takes, Threaded, Own
<1>2. /\ disk.rows[p] = Row(p) /\ DOMAIN disk.rows = Players
      /\ disk.mail[id] = Mail(id) /\ DOMAIN disk.mail = MailIds
    BY <1>1, Current DEF IInv, TypeOK, Ledger, Row, Mail
<1>3. left # None /\ left.item = Mail(id).item
    <2>1. Mail(id) \in Mails /\ Row(p).gold <= MaxMoney /\ Row(p).gold \in Nat
        BY <1>1, MailIs, RowsAre DEF IInv
    <2>2. take \in Nat /\ take <= Mail(id).money
        BY <1>1, <2>1, MailIs, MarketAssumption DEF IInv
    <2>3. left \in Mails /\ left.item = Mail(id).item
        BY <2>1, <2>2 DEF Mails
    <2> QED BY <2>3, MarketAssumption
<1> HIDE DEF left, take
<1>4. /\ DOMAIN tx.rows = {p} /\ tx.rows[p].bag = Row(p).bag
      /\ DOMAIN tx.mail = {id} /\ tx.mail[id] = left
      /\ DOMAIN tx.lot = {} /\ tx.lost = {}
    BY DEF Tx, Getting, Has, Put, Empty
<1> HIDE DEF tx
<1>5. ASSUME NEW j \in Items PROVE Moved(disk, tx, j)
    <2>1. Keys(tx) = {<<"bag", p>>, <<"mail", id>>}
        BY <1>4 DEF Keys
    <2>2. /\ <<"bag", p>> \in Places(tx, j) <=> j \in Row(p).bag
          /\ <<"mail", id>> \in Places(tx, j) <=> Mail(id).item = j
          /\ Places(tx, j) \subseteq Keys(tx)
        BY <1>3, <1>4, At
    <2>3. /\ <<"bag", p>> \in Places(disk, j) <=> j \in Row(p).bag
          /\ <<"mail", id>> \in Places(disk, j) <=> Mail(id).item = j
        BY <1>1, <1>2, At
    <2>4. Places(tx, j) = Places(disk, j) \cap Keys(tx)
        BY <2>1, <2>2, <2>3
    <2> QED BY <1>4, <2>4, Stays DEF ItemsInv
<1> QED BY <1>1, <1>5, ChangingItems DEF Moves

(* Letters without an item put none anywhere.                              *)
LEMMA EmptyLetters ==
    ASSUME IInv, NEW letters \in Seq(Mails), NEW id \in DOMAIN Posting(letters),
           \A k \in 1..Len(letters) : letters[k].item = None
    PROVE  Posting(letters)[id].item = None /\ id >= nextMail
<1>1. id \in nextMail..(nextMail + Len(letters) - 1) /\ nextMail \in Nat /\ Len(letters) \in Nat
    BY DEF Posting, IInv, TypeOK
<1>2. Posting(letters)[id] = letters[id - nextMail + 1]
    BY <1>1 DEF Posting
<1>3. id - nextMail + 1 \in 1..Len(letters)
    BY <1>1
<1> QED BY <1>1, <1>2, <1>3

LEMMA TakeItemItems ==
    ASSUME IInv, ItemsInv, NEW p \in Players, NEW id \in MailIds, TakeItem(p, id)
    PROVE  ItemsInv'
<1> DEFINE t == MapOf[p]
           m == Mail(id)
           paid == Paid(p, m)
           left == [m EXCEPT !.item = None, !.cod = 0]
           tx == Tx(Put(p, [bag |-> Row(p).bag \cup {m.item}, gold |-> Row(p).gold - m.cod]),
                    Both(Put(id, left), Posting(paid)), Empty, 0, {})
<1>1. /\ t \in Threads /\ Changes(t, tx) /\ disk' = disk /\ pend[t] = NoSave
      /\ holder["mail"] = None /\ m # None /\ m.item # None
    BY ThreadsAre DEF TakeItem, ItemTaken, MailStep, MailKept, Idle, Takes, Threaded, Own
<1>2. /\ disk.rows[p] = Row(p) /\ DOMAIN disk.rows = Players
      /\ disk.mail[id] = m /\ DOMAIN disk.mail = MailIds
      /\ id < nextMail /\ nextMail \in Nat /\ None \notin Items
    BY <1>1, Current, MarketAssumption DEF IInv, TypeOK, Ledger, Row, Mail, Fresh
<1>3. m \in Mails /\ m.item \in Items /\ left.item = None
    BY <1>1, MailIs DEF IInv, Mails
<1>4. paid \in Seq(Mails) /\ \A k \in 1..Len(paid) : paid[k].item = None
    <2>1. CASE m.cod > 0
        <3>1. m.from \in Players /\ m.cod \in Nat
            BY <1>3, <2>1 DEF Mails
        <3>2. Payment(p, m.from, m.cod) \in Mails /\ Payment(p, m.from, m.cod).item = None
            BY <3>1, LettersAre DEF Payment, Letter
        <3> QED BY <2>1, <3>2 DEF Paid
    <2>2. CASE ~(m.cod > 0)
        BY <2>2 DEF Paid
    <2> QED BY <2>1, <2>2
<1> HIDE DEF left, paid
<1>5. /\ DOMAIN tx.rows = {p} /\ tx.rows[p].bag = Row(p).bag \cup {m.item}
      /\ DOMAIN tx.mail = {id} \cup DOMAIN Posting(paid) /\ tx.mail[id] = left
      /\ \A k \in DOMAIN Posting(paid) \ {id} : tx.mail[k] = Posting(paid)[k]
      /\ DOMAIN tx.lot = {} /\ tx.lost = {}
    BY DEF Tx, Both, Put, Empty
<1>6. \A k \in DOMAIN Posting(paid) : Posting(paid)[k].item = None /\ k >= nextMail /\ k # id
    BY <1>2, <1>4, EmptyLetters DEF IInv, TypeOK, Posting
<1> HIDE DEF tx
<1>7. ASSUME NEW j \in Items PROVE Moved(disk, tx, j)
    <2>1. /\ <<"bag", p>> \in Keys(tx) /\ <<"mail", id>> \in Keys(tx)
          /\ \A k \in Keys(tx) : \/ k = <<"bag", p>> \/ k = <<"mail", id>>
                                 \/ \E n \in DOMAIN Posting(paid) : k = <<"mail", n>>
        BY <1>5 DEF Keys
    <2>2. /\ <<"bag", p>> \in Places(tx, j) <=> j \in Row(p).bag \/ j = m.item
          /\ <<"mail", id>> \notin Places(tx, j)
          /\ Places(tx, j) \subseteq Keys(tx)
        <3>1. /\ <<"bag", p>> \in Places(tx, j) <=> p \in DOMAIN tx.rows /\ j \in tx.rows[p].bag
              /\ <<"mail", id>> \in Places(tx, j) => tx.mail[id].item = j
              /\ Places(tx, j) \subseteq Keys(tx)
            BY At
        <3> QED BY <1>2, <1>3, <1>5, <3>1
    <2>3. \A n \in DOMAIN Posting(paid) : <<"mail", n>> \notin Places(tx, j)
        <3>1. \A n : <<"mail", n>> \in Places(tx, j) => tx.mail[n].item = j
            BY At
        <3>2. \A n \in DOMAIN Posting(paid) : tx.mail[n].item = None
            BY <1>5, <1>6
        <3> QED BY <1>2, <3>1, <3>2
    <2>4. /\ <<"bag", p>> \in Places(disk, j) <=> j \in Row(p).bag
          /\ <<"mail", id>> \in Places(disk, j) <=> j = m.item
        BY <1>1, <1>2, At
    <2>5. \A n \in DOMAIN Posting(paid) : <<"mail", n>> \notin Places(disk, j)
        BY <1>1, <1>6, NothingThere
    <2>6. CASE j = m.item
        <3>1. /\ <<"bag", p>> \in Places(tx, j) /\ <<"mail", id>> \in Places(disk, j)
              /\ \A k \in Places(tx, j) : k = <<"bag", p>>
            BY <2>1, <2>2, <2>3, <2>4, <2>6
        <3> QED BY <1>5, <2>1, <3>1, Goes
    <2>7. CASE j # m.item
        <3>1. \A k \in Keys(tx) : k \in Places(tx, j) <=> k \in Places(disk, j)
            BY <2>1, <2>2, <2>3, <2>4, <2>5, <2>7
        <3>2. Places(tx, j) = Places(disk, j) \cap Keys(tx)
            BY <2>2, <3>1
        <3> QED BY <1>5, <3>2, Stays DEF ItemsInv
    <2> QED BY <2>6, <2>7
<1> QED BY <1>1, <1>7, ChangingItems DEF Moves

LEMMA OneMailItems ==
    ASSUME IInv, ItemsInv, NEW t \in Threads, NEW id \in MailIds, NEW v, NEW fee, NEW lost,
           Mail(id) # None, pend[t] = NoSave, holder["mail"] = None, disk' = disk,
           Changes(t, Tx(Empty, Put(id, v), Empty, fee, lost)),
           \/ v # None /\ v.item = Mail(id).item /\ lost = {}
           \/ v = None /\ lost = Has(Mail(id).item)
    PROVE  ItemsInv'
<1> DEFINE tx == Tx(Empty, Put(id, v), Empty, fee, lost)
<1>1. Changes(t, tx)
    OBVIOUS
<1>2. disk.mail[id] = Mail(id) /\ DOMAIN disk.mail = MailIds
    BY Current DEF IInv, TypeOK, Ledger, Mail
<1>3. /\ DOMAIN tx.rows = {} /\ DOMAIN tx.mail = {id} /\ tx.mail[id] = v
      /\ DOMAIN tx.lot = {} /\ tx.lost = lost
    BY DEF Tx, Put, Empty
<1> HIDE DEF tx
<1>4. ASSUME NEW j \in Items PROVE Moved(disk, tx, j)
    <2>1. Keys(tx) = {<<"mail", id>>}
        BY <1>3 DEF Keys
    <2>2. /\ <<"mail", id>> \in Places(tx, j) <=> v # None /\ v.item = j
          /\ Places(tx, j) \subseteq Keys(tx)
        BY <1>3, At
    <2>3. <<"mail", id>> \in Places(disk, j) <=> Mail(id).item = j
        BY <1>2, At
    <2>4. CASE v # None /\ v.item = Mail(id).item /\ lost = {}
        <3>1. Places(tx, j) = Places(disk, j) \cap Keys(tx)
            BY <2>1, <2>2, <2>3, <2>4
        <3> QED BY <1>3, <2>4, <3>1, Stays DEF ItemsInv
    <2>5. CASE v = None /\ lost = Has(Mail(id).item)
        <3>1. Places(tx, j) = {}
            BY <2>1, <2>2, <2>5
        <3>2. None \notin Items
            BY MarketAssumption
        <3>3. j \in lost <=> Places(disk, j) \cap Keys(tx) # {}
            BY <2>1, <2>3, <2>5, <3>2 DEF Has
        <3> QED BY <1>3, <3>1, <3>3 DEF Moved, OneOf
    <2> QED BY <2>4, <2>5
<1> QED BY <1>1, <1>4, ChangingItems DEF Moves

LEMMA MailLeavesItems ==
    ASSUME IInv, ItemsInv, NEW id \in MailIds,
           \/ \E p \in Players : ReturnMail(p, id) \/ DeleteMail(p, id)
           \/ Expire(id)
    PROVE  ItemsInv'
<1>1. ASSUME Mail(id) # None, Mail(id).kind = "normal"
      PROVE  SentBack(Mail(id)) # None /\ SentBack(Mail(id)).item = Mail(id).item
    <2>1. Mail(id) \in Mails
        BY <1>1, MailIs DEF IInv
    <2>2. SentBack(Mail(id)) \in Mails /\ SentBack(Mail(id)).item = Mail(id).item
        BY <1>1, <2>1, GoesBack DEF SentBack, Mails
    <2> QED BY <2>2, MarketAssumption
<1>2. CASE \E p \in Players : ReturnMail(p, id)
    <2>1. PICK p \in Players : ReturnMail(p, id)
        BY <1>2
    <2>2. /\ MapOf[p] \in Threads /\ Mail(id) # None /\ Mail(id).kind = "normal"
          /\ pend[MapOf[p]] = NoSave /\ holder["mail"] = None /\ disk' = disk
          /\ Changes(MapOf[p], Tx(Empty, Put(id, SentBack(Mail(id))), Empty, 0, {}))
        BY <2>1, ThreadsAre DEF ReturnMail, Own, MailStep, Idle, Takes, MailKept, Threaded
    <2> QED BY <1>1, <2>2, OneMailItems
<1>3. CASE \E p \in Players : DeleteMail(p, id)
    <2>1. PICK p \in Players : DeleteMail(p, id)
        BY <1>3
    <2>2. /\ MapOf[p] \in Threads /\ Mail(id) # None
          /\ pend[MapOf[p]] = NoSave /\ holder["mail"] = None /\ disk' = disk
          /\ Changes(MapOf[p], Tx(Empty, Put(id, None), Empty, Mail(id).money, Has(Mail(id).item)))
        BY <2>1, ThreadsAre
        DEF DeleteMail, Own, MailStep, Idle, Takes, MailKept, Threaded, Discarded
    <2> QED BY <2>2, OneMailItems
<1>4. CASE Expire(id)
    <2>1. /\ Sweeper \in Threads /\ Mail(id) # None
          /\ pend[Sweeper] = NoSave /\ holder["mail"] = None /\ disk' = disk
        BY <1>4, ThreadsAre DEF Expire, ExpireFound, MailStep, Idle, Takes, Passed, Threaded
    <2>2. \/ /\ Changes(Sweeper, Tx(Empty, Put(id, SentBack(Mail(id))), Empty, 0, {}))
             /\ Mail(id).kind = "normal"
          \/ Changes(Sweeper, Tx(Empty, Put(id, None), Empty, Mail(id).money, Has(Mail(id).item)))
        BY <1>4 DEF Expire, ExpireFound, Discarded
    <2>3. CASE /\ Changes(Sweeper, Tx(Empty, Put(id, SentBack(Mail(id))), Empty, 0, {}))
               /\ Mail(id).kind = "normal"
        BY <1>1, <2>1, <2>3, OneMailItems
    <2>4. CASE Changes(Sweeper, Tx(Empty, Put(id, None), Empty, Mail(id).money, Has(Mail(id).item)))
        BY <2>1, <2>4, OneMailItems
    <2> QED BY <2>2, <2>3, <2>4
<1> QED BY <1>2, <1>3, <1>4

LEMMA SellItems ==
    ASSUME IInv, ItemsInv, NEW p \in Players, NEW i \in Items, NEW b \in Buyouts, Sell(p, i, b)
    PROVE  ItemsInv'
<1> DEFINE t == MapOf[p]
           a == [item |-> i, owner |-> p, bid |-> 0, bidder |-> None, buyout |-> b]
           tx == Tx(Giving(p, i, Deposit), Empty, Put(nextLot, a), 0, {})
<1>1. /\ t \in Threads /\ Changes(t, tx) /\ disk' = disk /\ pend[t] = NoSave
      /\ holder["lots"] = None /\ i \in Row(p).bag /\ b \in Nat
      /\ b = 0 \/ b >= StartBid
    BY ThreadsAre, MarketAssumption DEF Sell, LotKept, Idle, Takes, Threaded
<1>2. disk.rows[p] = Row(p) /\ DOMAIN disk.rows = Players /\ None \notin Items
    BY <1>1, Current, MarketAssumption DEF IInv, TypeOK, Ledger, Row
<1>3. a # None /\ a.item = i
    <2>1. a \in Lots
        BY <1>1, MarketAssumption DEF Lots
    <2> QED BY <2>1, MarketAssumption
<1> HIDE DEF a
<1>4. /\ DOMAIN tx.rows = {p} /\ tx.rows[p].bag = Row(p).bag \ {i}
      /\ DOMAIN tx.lot = {nextLot} /\ tx.lot[nextLot] = a
      /\ DOMAIN tx.mail = {} /\ tx.lost = {}
    BY <1>2 DEF Tx, Giving, Has, Put, Empty
<1> HIDE DEF tx
<1>5. ASSUME NEW j \in Items PROVE Moved(disk, tx, j)
    <2>1. Keys(tx) = {<<"bag", p>>, <<"lot", nextLot>>}
        BY <1>4 DEF Keys
    <2>2. /\ <<"bag", p>> \in Places(tx, j) <=> j \in Row(p).bag \ {i}
          /\ <<"lot", nextLot>> \in Places(tx, j) <=> j = i
          /\ Places(tx, j) \subseteq Keys(tx)
        BY <1>3, <1>4, At
    <2>3. /\ <<"bag", p>> \in Places(disk, j) <=> j \in Row(p).bag
          /\ <<"lot", nextLot>> \notin Places(disk, j)
        BY <1>1, <1>2, At, NothingThere
    <2>4. CASE j = i
        <3>1. /\ <<"lot", nextLot>> \in Places(tx, j) /\ <<"bag", p>> \in Places(disk, j)
              /\ \A k \in Places(tx, j) : k = <<"lot", nextLot>>
            BY <1>1, <2>1, <2>2, <2>3, <2>4
        <3> QED BY <1>4, <2>1, <3>1, Goes
    <2>5. CASE j # i
        <3>1. Places(tx, j) = Places(disk, j) \cap Keys(tx)
            BY <2>1, <2>2, <2>3, <2>5
        <3> QED BY <1>4, <3>1, Stays DEF ItemsInv
    <2> QED BY <2>4, <2>5
<1> QED BY <1>1, <1>5, ChangingItems DEF Moves

(* One letter of several brings an item.                                   *)
Brings(letters, k, i) ==
    /\ k \in 1..Len(letters) /\ letters[k].item = i
    /\ \A n \in 1..Len(letters) : n # k => letters[n].item = None

LEMMA OneBrings ==
    ASSUME IInv, NEW letters \in Seq(Mails), NEW k, NEW i, Brings(letters, k, i)
    PROVE  /\ nextMail + k - 1 \in DOMAIN Posting(letters)
           /\ Posting(letters)[nextMail + k - 1] # None
           /\ Posting(letters)[nextMail + k - 1].item = i
           /\ \A id \in DOMAIN Posting(letters) :
                 /\ id >= nextMail
                 /\ id # nextMail + k - 1 => Posting(letters)[id].item = None
<1>1. nextMail \in Nat /\ Len(letters) \in Nat /\ k \in 1..Len(letters)
    BY DEF IInv, TypeOK, Brings
<1>2. \A id \in DOMAIN Posting(letters) :
          /\ id \in nextMail..(nextMail + Len(letters) - 1)
          /\ Posting(letters)[id] = letters[id - nextMail + 1]
          /\ id - nextMail + 1 \in 1..Len(letters)
    BY <1>1 DEF Posting
<1>3. nextMail + k - 1 \in DOMAIN Posting(letters) /\ (nextMail + k - 1) - nextMail + 1 = k
    BY <1>1 DEF Posting
<1>4. letters[k] \in Mails
    BY <1>1
<1>5. /\ Posting(letters)[nextMail + k - 1] # None
      /\ Posting(letters)[nextMail + k - 1].item = i
    BY <1>2, <1>3, <1>4, MarketAssumption DEF Brings
<1>6. ASSUME NEW id \in DOMAIN Posting(letters)
      PROVE  id >= nextMail /\ (id # nextMail + k - 1 => Posting(letters)[id].item = None)
    <2>1. id # nextMail + k - 1 => id - nextMail + 1 # k
        BY <1>1, <1>2
    <2> QED BY <1>1, <1>2, <2>1 DEF Brings
<1> QED BY <1>3, <1>5, <1>6

(* An auction ends: its item in one of the letters.                        *)
Ends(t, tx, letters, n, l, i) ==
    /\ Changes(t, tx) /\ disk' = disk /\ pend[t] = NoSave /\ holder["mail"] = None
    /\ letters \in Seq(Mails) /\ l \in LotIds /\ i \in Items
    /\ Brings(letters, n, i) /\ disk.lot[l] # None /\ disk.lot[l].item = i
    /\ tx.mail = Posting(letters) /\ DOMAIN tx.lot = {l} /\ tx.lot[l] = None /\ tx.lost = {}
    /\ \A p \in DOMAIN tx.rows :
          p \in Players /\ MapOf[p] = t /\ tx.rows[p].bag = mem.rows[p].bag

LEMMA LotEnds ==
    ASSUME IInv, ItemsInv, NEW t \in Threads, NEW tx, NEW letters, NEW n, NEW l, NEW i,
           Ends(t, tx, letters, n, l, i)
    PROVE  ItemsInv'
<1>0. /\ Changes(t, tx) /\ disk' = disk /\ pend[t] = NoSave /\ holder["mail"] = None
      /\ letters \in Seq(Mails) /\ l \in LotIds /\ i \in Items
      /\ Brings(letters, n, i) /\ disk.lot[l] # None /\ disk.lot[l].item = i
      /\ tx.mail = Posting(letters) /\ DOMAIN tx.lot = {l} /\ tx.lot[l] = None /\ tx.lost = {}
      /\ \A p \in DOMAIN tx.rows :
            p \in Players /\ MapOf[p] = t /\ tx.rows[p].bag = mem.rows[p].bag
    BY DEF Ends
<1> USE <1>0
<1> DEFINE id == nextMail + n - 1
           P == Posting(letters)
<1>1. /\ id \in DOMAIN P /\ P[id] # None /\ P[id].item = i
      /\ \A k \in DOMAIN P : k >= nextMail /\ (k # id => P[k].item = None)
    BY OneBrings
<1> HIDE DEF id, P
<1>2. tx.mail = P
    BY DEF P
<1>3. /\ DOMAIN disk.rows = Players /\ DOMAIN disk.lot = LotIds /\ None \notin Items
      /\ \A p \in DOMAIN tx.rows : disk.rows[p] = mem.rows[p]
    BY Current, MarketAssumption DEF IInv, TypeOK, Ledger
<1>4. ASSUME NEW j \in Items PROVE Moved(disk, tx, j)
    <2>1. \A p \in DOMAIN tx.rows : <<"bag", p>> \in Places(tx, j) <=> <<"bag", p>> \in Places(disk, j)
        <3> SUFFICES ASSUME NEW p \in DOMAIN tx.rows
                     PROVE <<"bag", p>> \in Places(tx, j) <=> <<"bag", p>> \in Places(disk, j)
            OBVIOUS
        <3>1. /\ <<"bag", p>> \in Places(tx, j) <=> j \in tx.rows[p].bag
              /\ <<"bag", p>> \in Places(disk, j) <=> j \in disk.rows[p].bag
            BY <1>3, At
        <3> QED BY <1>3, <3>1
    <2>2. \A k \in DOMAIN P : /\ <<"mail", k>> \in Places(tx, j) <=> k = id /\ j = i
                              /\ <<"mail", k>> \notin Places(disk, j)
        <3> SUFFICES ASSUME NEW k \in DOMAIN P
                     PROVE  /\ <<"mail", k>> \in Places(tx, j) <=> k = id /\ j = i
                            /\ <<"mail", k>> \notin Places(disk, j)
            OBVIOUS
        <3>1. <<"mail", k>> \in Places(tx, j) <=> P[k] # None /\ P[k].item = j
            BY <1>2, At
        <3>2. <<"mail", k>> \notin Places(disk, j)
            BY <1>1, NothingThere
        <3> QED BY <1>1, <1>3, <3>1, <3>2
    <2>3. /\ <<"lot", l>> \notin Places(tx, j)
          /\ <<"lot", l>> \in Places(disk, j) <=> j = i
        <3>1. <<"lot", l>> \in Places(tx, j) => tx.lot[l] # None
            BY At
        <3>2. <<"lot", l>> \in Places(disk, j) <=> j = i
            BY <1>3, At
        <3> QED BY <3>1, <3>2
    <2>4. /\ \A k \in Keys(tx) : \/ \E p \in DOMAIN tx.rows : k = <<"bag", p>>
                                 \/ \E m \in DOMAIN P : k = <<"mail", m>>
                                 \/ k = <<"lot", l>>
          /\ <<"lot", l>> \in Keys(tx)
        BY <1>2, KeysAre
    <2>5. Places(tx, j) \subseteq Keys(tx)
        BY At
    <2>6. CASE j = i
        <3>1. <<"mail", id>> \in Places(tx, j) /\ <<"lot", l>> \in Places(disk, j)
            BY <1>1, <2>2, <2>3, <2>6
        <3>2. \A p \in DOMAIN tx.rows : <<"bag", p>> \notin Places(disk, j)
            <4>1. \A x, y : x \in Places(disk, j) /\ y \in Places(disk, j) => x = y
                BY DEF ItemsInv, Once, OneOf
            <4>2. \A p : <<"bag", p>> # <<"lot", l>>
                OBVIOUS
            <4> QED BY <3>1, <4>1, <4>2
        <3>3. \A k \in Places(tx, j) : k = <<"mail", id>>
            BY <2>1, <2>2, <2>3, <2>4, <2>5, <3>2
        <3> QED BY <2>4, <3>1, <3>3, Goes
    <2>7. CASE j # i
        <3>1. \A k \in Keys(tx) : k \in Places(tx, j) <=> k \in Places(disk, j)
            BY <2>1, <2>2, <2>3, <2>4, <2>7
        <3>2. Places(tx, j) = Places(disk, j) \cap Keys(tx)
            BY <2>5, <3>1
        <3> QED BY <3>2, Stays DEF ItemsInv
    <2> QED BY <2>6, <2>7
<1> QED BY <1>4, ChangingItems DEF Moves

LEMMA NoticesBring ==
    ASSUME NEW a, a.owner \in Players, a.item \in Items, a.bid \in Nat,
           a.bidder \in Players \cup {None}
    PROVE  /\ \A k \in 1..Len(Refund(a)) : Refund(a)[k].item = None
           /\ Len(Settled(a)) = 2 /\ Settled(a)[1].item = a.item /\ Settled(a)[2].item = None
<1>1. \A to, i, m : Notice(to, i, m).item = i
    BY DEF Notice, Letter
<1> QED BY <1>1 DEF Refund, Settled

LEMMA SettleItems ==
    ASSUME IInv, ItemsInv, NEW x \in swept, Settle(x)
    PROVE  ItemsInv'
<1> DEFINE a     == x.lot
           mails == IF a.bidder # None THEN Settled(a) ELSE <<Notice(a.owner, a.item, 0)>>
           fee   == IF a.bidder # None THEN Cut(a) ELSE Deposit
           tx    == Tx(Empty, Posting(mails), Put(x.id, None), fee, {})
<1>1. /\ Sweeper \in Threads /\ pend[Sweeper] = NoSave /\ holder["mail"] = None
      /\ Changes(Sweeper, tx) /\ disk' = disk
    BY ThreadsAre DEF Settle, MailStep, Idle, Takes, LotKept, Threaded
<1>2. /\ x.id \in LotIds /\ a \in Lots /\ disk.lot[x.id] = a /\ a # None
    BY MarketAssumption DEF IInv, TypeOK, SweptAlone
<1>3. /\ a.owner \in Players /\ a.item \in Items /\ a.bid \in Nat
      /\ a.bidder \in Players \cup {None}
    BY <1>2 DEF Lots
<1>4. mails \in Seq(Mails) /\ Brings(mails, 1, a.item)
    <2>1. CASE a.bidder # None
        BY <1>3, <2>1, NoticesAre, NoticesBring DEF Brings
    <2>2. CASE a.bidder = None
        <3>1. Notice(a.owner, a.item, 0) \in Mails /\ Notice(a.owner, a.item, 0).item = a.item
            BY <1>3, LettersAre DEF Notice, Letter
        <3> QED BY <2>2, <3>1 DEF Brings
    <2> QED BY <2>1, <2>2
<1> HIDE DEF mails, fee
<1>5. /\ DOMAIN tx.rows = {} /\ tx.mail = Posting(mails)
      /\ DOMAIN tx.lot = {x.id} /\ tx.lot[x.id] = None /\ tx.lost = {}
    BY DEF Tx, Put, Empty
<1> HIDE DEF tx
<1>6. Ends(Sweeper, tx, mails, 1, x.id, a.item)
    BY <1>1, <1>2, <1>3, <1>4, <1>5 DEF Ends
<1> QED BY <1>1, <1>6, LotEnds

LEMMA CancelMadeItems ==
    ASSUME IInv, ItemsInv, NEW t \in Threads, CancelMade(t)
    PROVE  ItemsInv'
<1> DEFINE p     == job[t].who
           l     == job[t].lot
           a     == Lot(l)
           refund == Refund(a)
           mails == refund \o <<Notice(p, a.item, 0)>>
           fee   == Fee(a)
           tx    == Tx(Paying(p, fee), Posting(mails), Put(l, None), fee + Deposit, {})
<1>1. /\ job[t] # None /\ job[t].op = "cancel" /\ pend[t] = NoSave /\ holder["mail"] = None
      /\ Changes(t, tx) /\ disk' = disk
    BY DEF CancelMade, LotKept, Takes
<1>2. /\ TypeOK /\ job[t] \in Jobs /\ holder["lots"] = t /\ MapOf[p] = t /\ Allowed(job[t])
    BY <1>1 DEF IInv, TypeOK, Locks, Waits
<1>3. p \in Players /\ l \in LotIds
    BY <1>2 DEF Jobs
<1>4. a # None /\ a \in Lots /\ disk.lot[l] = a
    <2>1. a # None /\ a \in Lots
        BY <1>2, <1>3, LotIs DEF Allowed, Lot
    <2>2. l \notin Away
        BY <2>1 DEF IInv, SweptAlone, Lot
    <2> QED BY <1>1, <1>2, <1>3, <2>1, <2>2, Current DEF Lot
<1>5. /\ a.owner \in Players /\ a.item \in Items /\ a.bid \in Nat
      /\ a.bidder \in Players \cup {None}
    BY <1>4 DEF Lots
<1>6. mails \in Seq(Mails) /\ Brings(mails, Len(refund) + 1, a.item)
    <2>1. refund \in Seq(Mails) /\ \A k \in 1..Len(refund) : refund[k].item = None
        BY <1>5, NoticesAre, NoticesBring
    <2>2. Notice(p, a.item, 0) \in Mails /\ Notice(p, a.item, 0).item = a.item
        BY <1>3, <1>5, LettersAre DEF Notice, Letter
    <2> HIDE DEF refund
    <2>3. /\ Len(mails) = Len(refund) + 1 /\ mails \in Seq(Mails)
          /\ \A k \in 1..Len(refund) : mails[k] = refund[k]
          /\ mails[Len(refund) + 1] = Notice(p, a.item, 0)
        BY <2>1, <2>2
    <2> QED BY <2>1, <2>2, <2>3 DEF Brings
<1> HIDE DEF mails, fee
<1>7. /\ DOMAIN tx.rows = {p} /\ tx.rows[p].bag = mem.rows[p].bag /\ tx.mail = Posting(mails)
      /\ DOMAIN tx.lot = {l} /\ tx.lot[l] = None /\ tx.lost = {}
    <2>1. Row(p).bag = mem.rows[p].bag /\ Row(p) \in [bag : SUBSET Items, gold : 0..MaxMoney]
        BY <1>2, <1>3, RowsAre DEF Row, Rows
    <2> QED BY <2>1 DEF Tx, Paying, Put
<1> HIDE DEF tx
<1>8. \A k \in DOMAIN tx.rows :
          k \in Players /\ MapOf[k] = t /\ tx.rows[k].bag = mem.rows[k].bag
    BY <1>2, <1>3, <1>7
<1>9. a.item \in Items /\ disk.lot[l] # None /\ disk.lot[l].item = a.item
    BY <1>4, <1>5
<1> HIDE DEF a, p, l, refund
<1>10. Ends(t, tx, mails, Len(refund) + 1, l, a.item)
    BY <1>1, <1>3, <1>6, <1>7, <1>8, <1>9 DEF Ends
<1> QED BY <1>10, LotEnds

LEMMA Joined ==
    ASSUME NEW s \in Seq(Mails), NEW u \in Seq(Mails)
    PROVE  /\ s \o u \in Seq(Mails) /\ Len(s \o u) = Len(s) + Len(u)
           /\ \A k \in 1..Len(s) : (s \o u)[k] = s[k]
           /\ \A k \in 1..Len(u) : (s \o u)[Len(s) + k] = u[k]
OBVIOUS

LEMMA BidMadeItems ==
    ASSUME IInv, ItemsInv, NEW t \in Threads, BidMade(t)
    PROVE  ItemsInv'
<1> DEFINE p      == job[t].who
           l      == job[t].lot
           a      == Lot(l)
           raised == [a EXCEPT !.bid = job[t].price, !.bidder = p]
           bought == Buys(a, job[t].price)
           refund == IF a.bidder = p THEN <<>> ELSE Refund(a)
           done   == IF bought THEN Settled(raised) ELSE <<>>
           fee    == IF bought THEN Cut(raised) ELSE 0
           cost   == Cost(p, a, job[t].price)
           left   == IF bought THEN None ELSE raised
           mails  == refund \o done
           tx     == Tx(Paying(p, cost), Posting(mails), Put(l, left), fee, {})
<1>1. /\ job[t] # None /\ job[t].op = "bid" /\ pend[t] = NoSave /\ holder["mail"] = None
      /\ Changes(t, tx) /\ disk' = disk
    BY DEF BidMade, LotKept, Takes
<1>2. /\ TypeOK /\ job[t] \in Jobs /\ holder["lots"] = t /\ MapOf[p] = t /\ Allowed(job[t])
    BY <1>1 DEF IInv, TypeOK, Locks, Waits
<1>3. p \in Players /\ l \in LotIds /\ job[t].price \in Nat
    BY <1>2 DEF Jobs
<1>4. a # None /\ a \in Lots /\ disk.lot[l] = a
    <2>1. a # None /\ a \in Lots
        BY <1>2, <1>3, LotIs DEF Allowed, Lot
    <2>2. l \notin Away
        BY <2>1 DEF IInv, SweptAlone, Lot
    <2> QED BY <1>1, <1>2, <1>3, <2>1, <2>2, Current DEF Lot
<1>5. /\ a.owner \in Players /\ a.item \in Items /\ a.bid \in Nat /\ a.buyout \in Nat
      /\ a.bidder \in Players \cup {None} /\ None \notin Players
    BY <1>4, MarketAssumption DEF Lots
<1>6. /\ raised.owner = a.owner /\ raised.item = a.item /\ raised.bid = job[t].price
      /\ raised.bidder = p
      /\ bought \/ raised \in Lots
    <2> DEFINE Bids == [item : Items, owner : Players, bid : Nat,
                       bidder : Players \cup {None}, buyout : Nat]
    <2>1. a \in Bids
        BY <1>4 DEF Lots
    <2>2. /\ raised \in Bids /\ raised.owner = a.owner /\ raised.item = a.item
          /\ raised.bid = job[t].price /\ raised.bidder = p /\ raised.buyout = a.buyout
        BY <1>3, <2>1
    <2>3. ~bought => (raised.buyout > 0 => raised.bid < raised.buyout)
        BY <1>3, <1>5, <2>2 DEF Buys
    <2> QED BY <2>2, <2>3 DEF Lots
<1>7. refund \in Seq(Mails) /\ \A k \in 1..Len(refund) : refund[k].item = None
    <2>1. Refund(a) \in Seq(Mails) /\ \A k \in 1..Len(Refund(a)) : Refund(a)[k].item = None
        BY <1>5, NoticesAre, NoticesBring
    <2> QED BY <2>1
<1>8. /\ Settled(raised) \in Seq(Mails) /\ Len(Settled(raised)) = 2
      /\ Settled(raised)[1].item = a.item /\ Settled(raised)[2].item = None
    BY <1>3, <1>5, <1>6, NoticesAre, NoticesBring
<1>9. /\ DOMAIN tx.rows = {p} /\ tx.rows[p].bag = mem.rows[p].bag /\ tx.mail = Posting(mails)
      /\ DOMAIN tx.lot = {l} /\ tx.lot[l] = left /\ tx.lost = {}
    <2>1. Row(p).bag = mem.rows[p].bag /\ Row(p) \in [bag : SUBSET Items, gold : 0..MaxMoney]
        BY <1>2, <1>3, RowsAre DEF Row, Rows
    <2> HIDE DEF mails, left, fee, cost
    <2> QED BY <2>1 DEF Tx, Paying, Put
<1> HIDE DEF tx, refund
<1>10. CASE bought
    <2>1. /\ left = None /\ done \in Seq(Mails) /\ Len(done) = 2
          /\ done[1].item = a.item /\ done[2].item = None
        BY <1>8, <1>10
    <2> HIDE DEF done, left
    <2>2. /\ Len(mails) = Len(refund) + 2 /\ mails \in Seq(Mails)
          /\ \A k \in 1..Len(refund) : mails[k] = refund[k]
          /\ mails[Len(refund) + 1] = done[1] /\ mails[Len(refund) + 2] = done[2]
        <3> DEFINE u == done
        <3>1. mails = refund \o u /\ u \in Seq(Mails) /\ Len(u) = 2 /\ refund \in Seq(Mails)
            BY <1>7, <2>1
        <3> HIDE DEF u
        <3>2. /\ refund \o u \in Seq(Mails) /\ Len(refund \o u) = Len(refund) + Len(u)
              /\ \A k \in 1..Len(refund) : (refund \o u)[k] = refund[k]
              /\ \A k \in 1..Len(u) : (refund \o u)[Len(refund) + k] = u[k]
            BY <3>1, Joined
        <3> HIDE DEF mails
        <3>3. /\ Len(mails) = Len(refund) + 2 /\ mails \in Seq(Mails)
              /\ \A k \in 1..Len(refund) : mails[k] = refund[k]
              /\ \A k \in 1..2 : mails[Len(refund) + k] = u[k]
            BY <3>1, <3>2
        <3> QED BY <3>3 DEF u
    <2> HIDE DEF mails
    <2>3. Brings(mails, Len(refund) + 1, a.item)
        <3>1. Len(refund) \in Nat /\ Len(refund) + 1 \in 1..Len(mails)
            BY <1>7, <2>2
        <3>2. mails[Len(refund) + 1].item = a.item
            BY <2>1, <2>2
        <3>3. ASSUME NEW n \in 1..Len(mails), n # Len(refund) + 1 PROVE mails[n].item = None
            <4>1. n \in 1..Len(refund) \/ n = Len(refund) + 2
                BY <2>2, <3>1, <3>3
            <4> QED BY <1>7, <2>1, <2>2, <4>1
        <3> QED BY <3>1, <3>2, <3>3 DEF Brings
    <2>4. \A k \in DOMAIN tx.rows :
              k \in Players /\ MapOf[k] = t /\ tx.rows[k].bag = mem.rows[k].bag
        BY <1>2, <1>3, <1>9
    <2>5. a.item \in Items /\ disk.lot[l] # None /\ disk.lot[l].item = a.item
        BY <1>4, <1>5
    <2> HIDE DEF a, p, l
    <2>6. Ends(t, tx, mails, Len(refund) + 1, l, a.item)
        BY <1>1, <1>3, <1>9, <2>1, <2>2, <2>3, <2>4, <2>5 DEF Ends
    <2> QED BY <2>6, LotEnds
<1>11. CASE ~bought
    <2>1. left = raised /\ mails = refund /\ raised # None
        BY <1>6, <1>7, <1>11, MarketAssumption
    <2> HIDE DEF left, mails, raised
    <2>2. \A id \in DOMAIN tx.mail : tx.mail[id].item = None /\ id >= nextMail
        BY <1>7, <1>9, <2>1, EmptyLetters
    <2>3. ASSUME NEW j \in Items PROVE Moved(disk, tx, j)
        <3>1. <<"bag", p>> \in Places(tx, j) <=> <<"bag", p>> \in Places(disk, j)
            <4>1. <<"bag", p>> \in Places(tx, j) <=> j \in tx.rows[p].bag
                BY <1>9, At
            <4>2. <<"bag", p>> \in Places(disk, j) <=> j \in disk.rows[p].bag
                BY <1>2, <1>3, At DEF TypeOK, Ledger
            <4>3. disk.rows[p] = mem.rows[p]
                BY <1>1, <1>2, <1>3, Current
            <4> QED BY <1>9, <4>1, <4>2, <4>3
        <3>2. \A id \in DOMAIN tx.mail : /\ <<"mail", id>> \notin Places(tx, j)
                                         /\ <<"mail", id>> \notin Places(disk, j)
            <4>1. \A id : <<"mail", id>> \in Places(tx, j) => tx.mail[id].item = j
                BY At
            <4>2. \A id \in DOMAIN tx.mail : <<"mail", id>> \notin Places(disk, j)
                BY <1>1, <2>2, NothingThere
            <4> QED BY <2>2, <4>1, <4>2, MarketAssumption
        <3>3. <<"lot", l>> \in Places(tx, j) <=> <<"lot", l>> \in Places(disk, j)
            <4>1. <<"lot", l>> \in Places(tx, j) <=> raised.item = j
                BY <1>9, <2>1, At
            <4>2. <<"lot", l>> \in Places(disk, j) <=> a.item = j
                BY <1>2, <1>3, <1>4, At DEF TypeOK, Ledger
            <4> QED BY <1>6, <4>1, <4>2
        <3>4. /\ Places(tx, j) \subseteq Keys(tx)
              /\ \A k \in Keys(tx) : \/ k = <<"bag", p>> \/ k = <<"lot", l>>
                                     \/ \E id \in DOMAIN tx.mail : k = <<"mail", id>>
            BY <1>9, At, KeysAre
        <3>5. \A k \in Keys(tx) : k \in Places(tx, j) <=> k \in Places(disk, j)
            BY <3>1, <3>2, <3>3, <3>4
        <3>6. Places(tx, j) = Places(disk, j) \cap Keys(tx)
            BY <3>4, <3>5
        <3> QED BY <1>9, <3>6, Stays DEF ItemsInv
    <2> QED BY <1>1, <2>3, ChangingItems DEF Moves
<1> QED BY <1>10, <1>11

LEMMA TradedItems ==
    ASSUME IInv, ItemsInv, NEW p \in Players, NEW q \in Players,
           NEW i \in Items \cup {None}, NEW j \in Items \cup {None},
           NEW m \in Sums, NEW n \in Sums, Traded(p, q, i, j, m, n)
    PROVE  ItemsInv'
<1> DEFINE t == MapOf[p]
           forP == [bag |-> (Row(p).bag \ Has(i)) \cup Has(j), gold |-> Row(p).gold - m + n]
           forQ == [bag |-> (Row(q).bag \ Has(j)) \cup Has(i), gold |-> Row(q).gold - n + m]
           tx == Tx(Both(Put(p, forP), Put(q, forQ)), Empty, Empty, 0, {})
<1>1. /\ t \in Threads /\ Changes(t, tx) /\ disk' = disk /\ pend[t] = NoSave
      /\ p # q /\ MapOf[q] = t
      /\ i # None => i \in Row(p).bag
      /\ j # None => j \in Row(q).bag
    BY ThreadsAre DEF Traded, Idle, Threaded
<1>2. /\ disk.rows[p] = Row(p) /\ disk.rows[q] = Row(q) /\ DOMAIN disk.rows = Players
      /\ None \notin Items
    BY <1>1, Current, MarketAssumption DEF IInv, TypeOK, Ledger, Row
<1>3. /\ DOMAIN tx.rows = {p, q} /\ tx.rows[p].bag = (Row(p).bag \ Has(i)) \cup Has(j)
      /\ tx.rows[q].bag = (Row(q).bag \ Has(j)) \cup Has(i)
      /\ DOMAIN tx.mail = {} /\ DOMAIN tx.lot = {} /\ tx.lost = {}
    <2>1. forP.bag = (Row(p).bag \ Has(i)) \cup Has(j) /\ forQ.bag = (Row(q).bag \ Has(j)) \cup Has(i)
        OBVIOUS
    <2> HIDE DEF forP, forQ
    <2> QED BY <1>1, <2>1 DEF Tx, Both, Put, Empty
<1> HIDE DEF tx
<1>4. ASSUME NEW k \in Items PROVE Moved(disk, tx, k)
    <2> DEFINE atP == <<"bag", p>>
               atQ == <<"bag", q>>
    <2>1. Keys(tx) = {atP, atQ} /\ atP # atQ
        BY <1>1, <1>3 DEF Keys
    <2>2. /\ atP \in Places(tx, k) <=> k \in (Row(p).bag \ Has(i)) \cup Has(j)
          /\ atQ \in Places(tx, k) <=> k \in (Row(q).bag \ Has(j)) \cup Has(i)
          /\ Places(tx, k) \subseteq Keys(tx)
        BY <1>3, At
    <2>3. /\ atP \in Places(disk, k) <=> k \in Row(p).bag
          /\ atQ \in Places(disk, k) <=> k \in Row(q).bag
        BY <1>2, At
    <2>4. ~(k \in Row(p).bag /\ k \in Row(q).bag)
        BY <2>1, <2>3 DEF ItemsInv, Once, OneOf
    <2> HIDE DEF atP, atQ
    <2>5. CASE k = i
        <3>1. /\ k \in Row(p).bag /\ k \notin Row(q).bag /\ k \in Has(i) /\ k \notin Has(j)
            BY <1>1, <1>2, <2>4, <2>5 DEF Has
        <3>2. /\ atQ \in Places(tx, k) /\ atP \in Places(disk, k)
              /\ \A x \in Places(tx, k) : x = atQ
            BY <2>1, <2>2, <2>3, <3>1
        <3> QED BY <1>3, <2>1, <3>2, Goes
    <2>6. CASE k = j /\ k # i
        <3>1. /\ k \in Row(q).bag /\ k \notin Row(p).bag /\ k \in Has(j) /\ k \notin Has(i)
            BY <1>1, <1>2, <2>4, <2>6 DEF Has
        <3>2. /\ atP \in Places(tx, k) /\ atQ \in Places(disk, k)
              /\ \A x \in Places(tx, k) : x = atP
            BY <2>1, <2>2, <2>3, <3>1
        <3> QED BY <1>3, <2>1, <3>2, Goes
    <2>7. CASE k # i /\ k # j
        <3>1. k \notin Has(i) /\ k \notin Has(j)
            BY <1>2, <2>7 DEF Has
        <3>2. Places(tx, k) = Places(disk, k) \cap Keys(tx)
            BY <2>1, <2>2, <2>3, <3>1
        <3> QED BY <1>3, <3>2, Stays DEF ItemsInv
    <2> QED BY <2>5, <2>6, <2>7
<1> QED BY <1>1, <1>4, ChangingItems DEF Moves

(* Nothing is saved, or about to be, that was not.                         *)
LEMMA SameItems ==
    ASSUME ItemsInv, disk' = disk, pend' = pend
    PROVE  ItemsInv'
BY DEF ItemsInv, Once

LEMMA CrashItems ==
    ASSUME ItemsInv, Crash
    PROVE  ItemsInv'
<1>1. disk' = disk /\ \A t \in Threads : pend'[t] = NoSave
    BY DEF Crash
<1> QED BY <1>1, NothingMoves DEF ItemsInv, Once

LEMMA InitItems == Init => ItemsInv
<1> SUFFICES ASSUME Init PROVE ItemsInv
    OBVIOUS
<1>1. PICK owner \in [Items -> Players] :
        mem = [rows  |-> [p \in Players |-> [bag |-> {i \in Items : owner[i] = p}, gold |-> Gold]],
               mail  |-> [id \in MailIds |-> None], lot |-> [l \in LotIds |-> None],
               spent |-> 0, lost |-> {}]
    BY DEF Init
<1>2. /\ DOMAIN disk.rows = Players /\ \A p \in Players : disk.rows[p].bag = {i \in Items : owner[i] = p}
      /\ \A id \in DOMAIN disk.mail : disk.mail[id] = None
      /\ \A l \in DOMAIN disk.lot : disk.lot[l] = None
      /\ disk.lost = {} /\ \A t \in Threads : pend[t] = NoSave
    BY <1>1 DEF Init
<1>3. ASSUME NEW i \in Items PROVE OneOf(Places(disk, i), i, disk.lost)
    <2>1. /\ <<"bag", owner[i]>> \in Places(disk, i)
          /\ \A k \in Places(disk, i) : k = <<"bag", owner[i]>>
        BY <1>2 DEF Places
    <2> QED BY <1>2, <2>1 DEF OneOf
<1> QED BY <1>2, <1>3, NothingMoves DEF ItemsInv, Once

LEMMA NextItems == IInv /\ ItemsInv /\ [Next]_vars => ItemsInv'
<1> SUFFICES ASSUME IInv, ItemsInv, [Next]_vars PROVE ItemsInv'
    OBVIOUS
<1>1. CASE UNCHANGED vars
    BY <1>1, SameItems DEF vars
<1>2. ASSUME NEW t \in Threads, Sent(t) \/ BidMade(t) \/ CancelMade(t) PROVE ItemsInv'
    BY <1>2, SentItems, BidMadeItems, CancelMadeItems
<1>3. CASE Crash
    BY <1>3, CrashItems
<1>4. CASE Ages \/ FindExpired \/ SweepLots
    BY <1>4, SameItems DEF Ages, FindExpired, SweepLots, LotKept
<1>5. ASSUME NEW p \in Players, NEW id \in MailIds,
             TakeMoney(p, id) \/ TakeItem(p, id) \/ ReturnMail(p, id) \/ DeleteMail(p, id)
      PROVE  ItemsInv'
    BY <1>5, TakeMoneyItems, TakeItemItems, MailLeavesItems
<1>6. ASSUME NEW p \in Players, NEW to \in Players, NEW i \in Items \cup {None},
             NEW m \in Sums, NEW c \in Cods, SendMail(p, to, i, m, c)
      PROVE  ItemsInv'
    BY <1>6, SendMailItems
<1>7. ASSUME NEW p \in Players, NEW i \in Items, NEW b \in Buyouts, Sell(p, i, b)
      PROVE  ItemsInv'
    BY <1>7, SellItems
<1>8. ASSUME NEW p \in Players, NEW l \in LotIds,
             CancelAsked(p, l) \/ \E n \in Prices : BidAsked(p, l, n)
      PROVE  ItemsInv'
    BY <1>8, SameItems DEF CancelAsked, BidAsked, LotKept
<1>9. ASSUME NEW p \in Players, NEW q \in Players, NEW i \in Items \cup {None},
             NEW j \in Items \cup {None}, NEW m \in Sums, NEW n \in Sums,
             Traded(p, q, i, j, m, n)
      PROVE  ItemsInv'
    BY <1>9, TradedItems
<1>10. ASSUME NEW id \in MailIds, Expire(id) \/ ExpireNot(id) PROVE ItemsInv'
    <2>1. CASE Expire(id)
        BY <2>1, MailLeavesItems
    <2>2. CASE ExpireNot(id)
        BY <2>2, SameItems DEF ExpireNot, Passed
    <2> QED BY <1>10, <2>1, <2>2
<1>11. ASSUME NEW x \in swept, Settle(x) PROVE ItemsInv'
    BY <1>11, SettleItems
<1> QED BY <1>1, <1>2, <1>3, <1>4, <1>5, <1>6, <1>7, <1>8, <1>9, <1>10, <1>11 DEF Next

(* Each item is in one bag, mail or auction of the database, and in no     *)
(* other, or went with a mail deleted: whatever save was the last, a start *)
(* after a crash neither lost nor copied anything.                         *)
THEOREM ItemsInOnePlace == Spec => []ItemsOnce
<1>1. IInv /\ ItemsInv => ItemsOnce
    <2> SUFFICES ASSUME ItemsInv, NEW i \in Items
                 PROVE  Cardinality(Places(disk, i)) = IF i \in disk.lost THEN 0 ELSE 1
        BY DEF ItemsOnce
    <2>1. OneOf(Places(disk, i), i, disk.lost)
        BY DEF ItemsInv, Once
    <2>2. CASE i \in disk.lost
        BY <2>1, <2>2, FS_EmptySet DEF OneOf
    <2>3. CASE i \notin disk.lost
        <3>1. PICK k : k \in Places(disk, i) /\ \A x \in Places(disk, i) : x = k
            BY <2>1, <2>3 DEF OneOf
        <3>2. Places(disk, i) = {k}
            BY <3>1
        <3> QED BY <2>3, <3>2, FS_Singleton
    <2> QED BY <2>2, <2>3
<1> QED BY <1>1, Inductive, InitItems, NextItems, PTL DEF Spec

-----------------------------------------------------------------------------
(* What is written: one thread's save at a time.                           *)
LEMMA OnlySends ==
    ASSUME [Next]_vars, disk' # disk
    PROVE  \E t \in Threads : Sent(t)
<1>1. CASE UNCHANGED vars
    BY <1>1 DEF vars
<1>2. ASSUME NEW t \in Threads, BidMade(t) \/ CancelMade(t) PROVE disk' = disk
    BY <1>2 DEF BidMade, CancelMade, LotKept
<1>3. CASE Crash \/ Ages
    BY <1>3 DEF Crash, Ages
<1>4. ASSUME NEW p \in Players, NEW id \in MailIds,
             TakeMoney(p, id) \/ TakeItem(p, id) \/ ReturnMail(p, id) \/ DeleteMail(p, id)
      PROVE  disk' = disk
    BY <1>4 DEF TakeMoney, TakeItem, ItemTaken, ReturnMail, DeleteMail, MailKept
<1>5. ASSUME NEW p \in Players, NEW to \in Players, NEW i \in Items \cup {None},
             NEW m \in Sums, NEW c \in Cods, SendMail(p, to, i, m, c)
      PROVE  disk' = disk
    BY <1>5 DEF SendMail, MailKept
<1>6. ASSUME NEW p \in Players, NEW i \in Items, NEW b \in Buyouts, Sell(p, i, b)
      PROVE  disk' = disk
    BY <1>6 DEF Sell, LotKept
<1>7. ASSUME NEW p \in Players, NEW l \in LotIds,
             CancelAsked(p, l) \/ \E n \in Prices : BidAsked(p, l, n)
      PROVE  disk' = disk
    BY <1>7 DEF CancelAsked, BidAsked, LotKept
<1>8. ASSUME NEW p \in Players, NEW q \in Players, NEW i \in Items \cup {None},
             NEW j \in Items \cup {None}, NEW m \in Sums, NEW n \in Sums,
             Traded(p, q, i, j, m, n)
      PROVE  disk' = disk
    BY <1>8 DEF Traded
<1>9. ASSUME FindExpired \/ SweepLots
             \/ (\E id \in MailIds : Expire(id) \/ ExpireNot(id))
             \/ (\E x \in swept : Settle(x))
      PROVE  disk' = disk
    BY <1>9 DEF FindExpired, SweepLots, Expire, ExpireFound, ExpireNot, Passed, Settle, LotKept
<1> QED BY <1>1, <1>2, <1>3, <1>4, <1>5, <1>6, <1>7, <1>8, <1>9 DEF Next

(* A save that puts an item sent cash on delivery in its taker's bag has   *)
(* the payment too, in a mail that is new.                                 *)
Owing(m, tx) ==
    /\ m # None /\ m.cod > 0 /\ m.item # None
    /\ m.to \in DOMAIN tx.rows /\ m.item \in tx.rows[m.to].bag
Pays(v, m) == v # None /\ v.payment /\ v.to = m.from /\ v.money = m.cod
PaysAll(tx) ==
    \A id \in MailIds : Owing(disk.mail[id], tx) =>
        \E k \in DOMAIN tx.mail : tx.mail[k] # disk.mail[k] /\ Pays(tx.mail[k], disk.mail[id])
AllPay == \A t \in Threads : PaysAll(pend[t])

(* An item in a mail of the database is in none of its bags, and in no     *)
(* other of its mails.                                                     *)
LEMMA InMailOnly ==
    ASSUME IInv, ItemsInv, NEW id \in MailIds, disk.mail[id] # None, disk.mail[id].item # None
    PROVE  /\ disk.mail[id].item \in Items
           /\ \A p \in Players : disk.mail[id].item \notin disk.rows[p].bag
           /\ \A k \in MailIds : disk.mail[k] # None /\ disk.mail[k].item = disk.mail[id].item
                                   => k = id
<1> DEFINE i == disk.mail[id].item
<1>1. /\ DOMAIN disk.rows = Players /\ DOMAIN disk.mail = MailIds /\ i \in Items
    BY DEF IInv, TypeOK, Ledger, Mails
<1>2. \A x, y \in Places(disk, i) : x = y
    BY <1>1 DEF ItemsInv, Once, OneOf
<1>3. <<"mail", id>> \in Places(disk, i)
    BY <1>1, At
<1>4. ASSUME NEW p \in Players, i \in disk.rows[p].bag PROVE FALSE
    <2>1. <<"bag", p>> \in Places(disk, i)
        BY <1>1, <1>4, At
    <2>2. <<"bag", p>> # <<"mail", id>>
        OBVIOUS
    <2> QED BY <1>2, <1>3, <2>1, <2>2
<1>5. ASSUME NEW k \in MailIds, disk.mail[k] # None, disk.mail[k].item = i PROVE k = id
    <2>1. <<"mail", k>> \in Places(disk, i)
        BY <1>1, <1>5, At
    <2>2. <<"mail", k>> = <<"mail", id>>
        BY <1>2, <1>3, <2>1
    <2> QED BY <2>2
<1> QED BY <1>1, <1>4, <1>5

(* A save of what was in bags takes nothing from a mail.                   *)
LEMMA PaysNothing ==
    ASSUME IInv, ItemsInv, NEW tx, DOMAIN tx.rows \subseteq Players,
           \A p \in DOMAIN tx.rows : \A i \in tx.rows[p].bag :
               \E q \in Players : i \in disk.rows[q].bag
    PROVE  PaysAll(tx)
BY InMailOnly DEF PaysAll, Owing

(* What a thread is about to send pays, if it does for what is to be       *)
(* written over.                                                           *)
LEMMA AsPaid ==
    ASSUME NEW u, NEW tx, pend'[u] = tx,
           \A id \in MailIds : Owing(disk'.mail[id], tx) =>
               \E k \in DOMAIN tx.mail :
                   tx.mail[k] # disk'.mail[k] /\ Pays(tx.mail[k], disk'.mail[id])
    PROVE  PaysAll(pend[u])'
<1> SUFFICES ASSUME NEW id \in MailIds, Owing(disk.mail[id], pend[u])'
             PROVE  (\E k \in DOMAIN pend[u].mail :
                        pend[u].mail[k] # disk.mail[k] /\ Pays(pend[u].mail[k], disk.mail[id]))'
    BY DEF PaysAll
<1>1. Owing(disk'.mail[id], tx)
    BY DEF Owing
<1>2. PICK k \in DOMAIN tx.mail : tx.mail[k] # disk'.mail[k] /\ Pays(tx.mail[k], disk'.mail[id])
    BY <1>1
<1> QED BY <1>2 DEF Pays

LEMMA ChangingPays ==
    ASSUME IInv, AllPay, NEW t \in Threads, NEW tx, Changes(t, tx), disk' = disk, PaysAll(tx)
    PROVE  AllPay'
<1>1. \A u \in Threads : pend'[u] = IF u = t THEN tx ELSE pend[u]
    BY DEF Changes, Saving, IInv, TypeOK
<1>2. ASSUME NEW u \in Threads PROVE PaysAll(pend[u])'
    <2> DEFINE tu == IF u = t THEN tx ELSE pend[u]
    <2>1. pend'[u] = tu /\ PaysAll(tu)
        BY <1>1 DEF AllPay
    <2> HIDE DEF tu
    <2>2. \A id \in MailIds : Owing(disk'.mail[id], tu) =>
              \E k \in DOMAIN tu.mail :
                  tu.mail[k] # disk'.mail[k] /\ Pays(tu.mail[k], disk'.mail[id])
        BY <2>1 DEF PaysAll
    <2> QED BY <2>1, <2>2, AsPaid
<1> QED BY <1>2 DEF AllPay

LEMMA SentPays ==
    ASSUME IInv, ItemsInv, AllPay, NEW t \in Threads, Sent(t)
    PROVE  AllPay'
<1>1. /\ disk' = Apply(disk, pend[t]) /\ disk \in Ledger /\ SaveOK(pend[t]) /\ DOMAIN pend = Threads
      /\ pend'[t] = NoSave /\ \A u \in Threads \ {t} : pend'[u] = pend[u]
    BY DEF Sent, IInv, TypeOK
<1>2. /\ disk' \in Ledger
      /\ \A id \in MailIds : disk'.mail[id] =
             IF id \in DOMAIN pend[t].mail THEN pend[t].mail[id] ELSE disk.mail[id]
    BY <1>1, Applied
<1>3. ItemsInv'
    BY SentItems
<1>4. ASSUME NEW u \in Threads, u # t, NEW id \in MailIds, Owing(disk'.mail[id], pend[u])
      PROVE  \E k \in DOMAIN pend[u].mail :
                 pend[u].mail[k] # disk'.mail[k] /\ Pays(pend[u].mail[k], disk'.mail[id])
    <2> DEFINE m == disk'.mail[id]
               i == m.item
               tu == pend[u]
    <2>1. /\ m # None /\ i # None /\ m.to \in DOMAIN tu.rows /\ i \in tu.rows[m.to].bag
        BY <1>4 DEF Owing
    <2>2. DOMAIN tu.mail \cap DOMAIN pend[t].mail = {}
        BY <1>4 DEF IInv, Locks
    <2>3. i \in Items /\ DOMAIN disk'.mail = MailIds
        BY <1>2, <2>1 DEF Ledger, Mails
    <2>4. <<"bag", m.to>> \in Places(tu, i) /\ <<"mail", id>> \in Places(disk', i)
        BY <2>1, <2>3, At
    <2> HIDE DEF i, m, tu
    <2>5. OneOf(Places(disk', i), i, disk'.lost)
        BY <1>3, <2>3 DEF ItemsInv, Once
    <2>6. \A x \in Places(disk', i) : x = <<"mail", id>>
        BY <2>4, <2>5 DEF OneOf
    <2>7. Moved(disk', tu, i)
        BY <1>1, <1>3, <1>4, <2>3 DEF ItemsInv, Moves, tu
    <2>8. CASE id \in DOMAIN pend[t].mail
        <3>1. <<"mail", id>> \notin Keys(tu)
            BY <2>2, <2>8, KeysAre
        <3>2. Places(disk', i) \cap Keys(tu) = {}
            BY <2>6, <3>1
        <3> QED BY <2>4, <2>7, <3>2 DEF Moved
    <2>9. CASE id \notin DOMAIN pend[t].mail
        <3>1. m = disk.mail[id] /\ Owing(disk.mail[id], tu)
            BY <1>2, <1>4, <2>9 DEF m, tu
        <3>2. PICK k \in DOMAIN tu.mail : tu.mail[k] # disk.mail[k] /\ Pays(tu.mail[k], m)
            BY <3>1 DEF AllPay, PaysAll, tu
        <3>3. k \in MailIds /\ k \notin DOMAIN pend[t].mail
            BY <2>2, <3>2 DEF IInv, TypeOK, SaveOK, tu
        <3>4. disk'.mail[k] = disk.mail[k]
            BY <1>2, <3>3
        <3> QED BY <3>2, <3>4 DEF tu, m
    <2> QED BY <2>8, <2>9
<1>5. ASSUME NEW u \in Threads PROVE PaysAll(pend[u])'
    <2>1. CASE u = t
        BY <1>1, <2>1, NoneToSend DEF PaysAll, Owing
    <2>2. CASE u # t
        <3>1. pend'[u] = pend[u]
            BY <1>1, <2>2
        <3> QED BY <1>4, <2>2, <3>1, AsPaid
    <2> QED BY <2>1, <2>2
<1> QED BY <1>5 DEF AllPay

LEMMA TakeItemPays ==
    ASSUME IInv, ItemsInv, AllPay, NEW p \in Players, NEW id \in MailIds, TakeItem(p, id)
    PROVE  AllPay'
<1> DEFINE t == MapOf[p]
           m == Mail(id)
           paid == Paid(p, m)
           left == [m EXCEPT !.item = None, !.cod = 0]
           tx == Tx(Put(p, [bag |-> Row(p).bag \cup {m.item}, gold |-> Row(p).gold - m.cod]),
                    Both(Put(id, left), Posting(paid)), Empty, 0, {})
<1>1. /\ t \in Threads /\ Changes(t, tx) /\ disk' = disk /\ pend[t] = NoSave
      /\ holder["mail"] = None /\ m # None /\ m.item # None /\ RoomToPost(Len(paid))
    BY ThreadsAre DEF TakeItem, ItemTaken, MailStep, MailKept, Idle, Takes, Threaded, Own
<1>2. /\ disk.rows[p] = Row(p) /\ disk.mail[id] = m
      /\ id < nextMail /\ nextMail \in Nat \ {0}
    BY <1>1, Current DEF IInv, TypeOK, Ledger, Row, Mail, Fresh
<1> HIDE DEF left
<1>3. /\ DOMAIN tx.rows = {p} /\ tx.rows[p].bag = Row(p).bag \cup {m.item}
      /\ DOMAIN tx.mail = {id} \cup DOMAIN Posting(paid)
      /\ \A k \in DOMAIN Posting(paid) \ {id} : tx.mail[k] = Posting(paid)[k]
    <2> HIDE DEF paid
    <2> QED BY DEF Tx, Both, Put
<1> HIDE DEF tx
<1>4. ASSUME NEW n \in MailIds, Owing(disk.mail[n], tx)
      PROVE  \E k \in DOMAIN tx.mail : tx.mail[k] # disk.mail[k] /\ Pays(tx.mail[k], disk.mail[n])
    <2>1. /\ disk.mail[n] # None /\ disk.mail[n].item # None /\ disk.mail[n].cod > 0
          /\ disk.mail[n].item \in Row(p).bag \cup {m.item}
        BY <1>3, <1>4 DEF Owing
    <2>2. disk.mail[n].item \notin Row(p).bag
        BY <1>2, <2>1, InMailOnly
    <2>3. n = id
        BY <1>1, <1>2, <2>1, <2>2, InMailOnly
    <2>4. paid = <<Payment(p, m.from, m.cod)>> /\ disk.mail[n] = m
        BY <1>2, <2>1, <2>3 DEF Paid
    <2> HIDE DEF paid, m
    <2>5. nextMail <= MaxMails /\ nextMail \in MailIds
        BY <1>1, <1>2, <2>4, MarketAssumption DEF RoomToPost, MailIds
    <2>6. /\ nextMail \in DOMAIN Posting(paid) /\ nextMail # id
          /\ Posting(paid)[nextMail] = Payment(p, m.from, m.cod)
        <3>1. /\ DOMAIN Posting(paid) = nextMail..nextMail
              /\ \A k \in nextMail..nextMail : Posting(paid)[k] = paid[k - nextMail + 1]
            BY <1>2, <2>4 DEF Posting
        <3>2. nextMail \in nextMail..nextMail /\ nextMail - nextMail + 1 = 1
            BY <1>2
        <3> QED BY <1>2, <2>4, <3>1, <3>2
    <2>7. disk.mail[nextMail] = None
        <3>1. mem.mail[nextMail] = None
            BY <1>2, <2>5 DEF IInv, Fresh
        <3> QED BY <1>1, <2>5, <3>1, Current
    <2>8. Pays(Payment(p, m.from, m.cod), m)
        <3>1. m \in Mails /\ m.cod > 0
            BY <1>1, <2>1, <2>4, MailIs DEF IInv, m
        <3>2. m.from \in Players /\ m.cod \in Nat
            BY <3>1 DEF Mails
        <3>3. Payment(p, m.from, m.cod) \in Mails
            BY <3>2, LettersAre
        <3>4. Payment(p, m.from, m.cod) # None
            BY <3>3, MarketAssumption
        <3> QED BY <3>4 DEF Pays, Payment, Letter
    <2>9. tx.mail[nextMail] = Payment(p, m.from, m.cod) /\ nextMail \in DOMAIN tx.mail
        BY <1>3, <2>6
    <2>10. Payment(p, m.from, m.cod) # None
        BY <2>8 DEF Pays
    <2> QED BY <2>4, <2>7, <2>8, <2>9, <2>10
<1>5. PaysAll(tx)
    BY <1>4 DEF PaysAll
<1> QED BY <1>1, <1>5, ChangingPays

(* What else changes memory moves what was in bags.                        *)
LEMMA BagsPay ==
    ASSUME IInv, ItemsInv, AllPay, NEW t \in Threads, NEW tx, Changes(t, tx), disk' = disk,
           pend[t] = NoSave,
           \A p \in DOMAIN tx.rows :
               /\ p \in Players /\ MapOf[p] = t
               /\ \A i \in tx.rows[p].bag :
                     \E q \in Players : MapOf[q] = t /\ i \in Row(q).bag
    PROVE  AllPay'
<1>1. \A q \in Players : MapOf[q] = t => disk.rows[q] = Row(q)
    BY Current DEF Row
<1>2. PaysAll(tx)
    <2>1. \A p \in DOMAIN tx.rows : \A i \in tx.rows[p].bag :
              \E q \in Players : i \in disk.rows[q].bag
        BY <1>1
    <2> QED BY <2>1, PaysNothing
<1> QED BY <1>2, ChangingPays

LEMMA NextPays == IInv /\ ItemsInv /\ AllPay /\ [Next]_vars => AllPay'
<1> SUFFICES ASSUME IInv, ItemsInv, AllPay, [Next]_vars PROVE AllPay'
    OBVIOUS
<1>0. ASSUME disk' = disk, pend' = pend PROVE AllPay'
    BY <1>0 DEF AllPay, PaysAll, Owing, Pays
<1>1. CASE UNCHANGED vars
    BY <1>0, <1>1 DEF vars
<1>2. ASSUME NEW t \in Threads, Sent(t) PROVE AllPay'
    BY <1>2, SentPays
<1>3. ASSUME NEW t \in Threads, BidMade(t) \/ CancelMade(t) PROVE AllPay'
    <2>1. /\ job[t] # None /\ pend[t] = NoSave /\ disk' = disk
        BY <1>3 DEF BidMade, CancelMade, LotKept
    <2>2. job[t].who \in Players /\ MapOf[job[t].who] = t
        BY <2>1 DEF IInv, TypeOK, Locks, Jobs
    <2>3. PICK c, mails, lots, fee :
              Changes(t, Tx(Paying(job[t].who, c), mails, lots, fee, {}))
        BY <1>3 DEF BidMade, CancelMade
    <2> DEFINE tx == Tx(Paying(job[t].who, c), mails, lots, fee, {})
    <2>4. DOMAIN tx.rows = {job[t].who} /\ tx.rows[job[t].who].bag = Row(job[t].who).bag
        <3>1. Row(job[t].who) \in [bag : SUBSET Items, gold : 0..MaxMoney]
            BY <2>2, RowsAre DEF IInv, Row, Rows
        <3> QED BY <3>1 DEF Tx, Paying, Put
    <2>5. Changes(t, tx)
        BY <2>3
    <2> HIDE DEF tx
    <2> QED BY <2>1, <2>2, <2>4, <2>5, BagsPay
<1>4. CASE Crash
    <2>1. disk' = disk /\ \A t \in Threads : pend'[t] = NoSave
        BY <1>4 DEF Crash
    <2> QED BY <2>1, NoneToSend DEF AllPay, PaysAll, Owing
<1>5. CASE Ages \/ FindExpired \/ SweepLots
    BY <1>0, <1>5 DEF Ages, FindExpired, SweepLots, LotKept
<1>6. ASSUME NEW p \in Players, NEW id \in MailIds, TakeItem(p, id) PROVE AllPay'
    BY <1>6, TakeItemPays
<1>7. ASSUME NEW p \in Players, NEW id \in MailIds, TakeMoney(p, id) PROVE AllPay'
    <2>1. PICK take, left : Changes(MapOf[p], Tx(Getting(p, None, take), left, Empty, 0, {}))
        BY <1>7 DEF TakeMoney
    <2> DEFINE tx == Tx(Getting(p, None, take), left, Empty, 0, {})
    <2>2. /\ MapOf[p] \in Threads /\ pend[MapOf[p]] = NoSave /\ disk' = disk
        BY <1>7, ThreadsAre DEF TakeMoney, MailStep, MailKept, Idle, Threaded
    <2>3. DOMAIN tx.rows = {p} /\ tx.rows[p].bag = Row(p).bag
        BY DEF Tx, Getting, Put, Has
    <2>4. Changes(MapOf[p], tx)
        BY <2>1
    <2> HIDE DEF tx
    <2> QED BY <2>2, <2>3, <2>4, BagsPay
<1>8. ASSUME NEW p \in Players, NEW id \in MailIds, ReturnMail(p, id) \/ DeleteMail(p, id)
      PROVE  AllPay'
    <2>1. PICK mails, fee, lost : Changes(MapOf[p], Tx(Empty, mails, Empty, fee, lost))
        BY <1>8 DEF ReturnMail, DeleteMail, Discarded
    <2>2. /\ MapOf[p] \in Threads /\ pend[MapOf[p]] = NoSave /\ disk' = disk
        BY <1>8, ThreadsAre DEF ReturnMail, DeleteMail, MailStep, MailKept, Idle, Threaded
    <2>3. DOMAIN Tx(Empty, mails, Empty, fee, lost).rows = {}
        BY Fields, Parts
    <2> QED BY <2>1, <2>2, <2>3, BagsPay
<1>9. ASSUME NEW p \in Players, NEW to \in Players, NEW i \in Items \cup {None},
             NEW m \in Sums, NEW c \in Cods, SendMail(p, to, i, m, c)
      PROVE  AllPay'
    <2>1. PICK n, mails, fee : Changes(MapOf[p], Tx(Giving(p, i, n), mails, Empty, fee, {}))
        BY <1>9 DEF SendMail
    <2> DEFINE tx == Tx(Giving(p, i, n), mails, Empty, fee, {})
    <2>2. /\ MapOf[p] \in Threads /\ pend[MapOf[p]] = NoSave /\ disk' = disk
        BY <1>9, ThreadsAre DEF SendMail, MailStep, MailKept, Idle, Threaded
    <2>3. DOMAIN tx.rows = {p} /\ tx.rows[p].bag = Row(p).bag \ Has(i)
        BY DEF Tx, Giving, Put
    <2>4. Changes(MapOf[p], tx)
        BY <2>1
    <2> HIDE DEF tx
    <2> QED BY <2>2, <2>3, <2>4, BagsPay
<1>10. ASSUME NEW p \in Players, NEW i \in Items, NEW b \in Buyouts, Sell(p, i, b)
       PROVE  AllPay'
    <2>1. PICK lots : Changes(MapOf[p], Tx(Giving(p, i, Deposit), Empty, lots, 0, {}))
        BY <1>10 DEF Sell
    <2> DEFINE tx == Tx(Giving(p, i, Deposit), Empty, lots, 0, {})
    <2>2. /\ MapOf[p] \in Threads /\ pend[MapOf[p]] = NoSave /\ disk' = disk
        BY <1>10, ThreadsAre DEF Sell, LotKept, Idle, Threaded
    <2>3. DOMAIN tx.rows = {p} /\ tx.rows[p].bag = Row(p).bag \ Has(i)
        BY DEF Tx, Giving, Put
    <2>4. Changes(MapOf[p], tx)
        BY <2>1
    <2> HIDE DEF tx
    <2> QED BY <2>2, <2>3, <2>4, BagsPay
<1>11. ASSUME NEW p \in Players, NEW l \in LotIds,
              CancelAsked(p, l) \/ \E n \in Prices : BidAsked(p, l, n)
       PROVE  AllPay'
    BY <1>0, <1>11 DEF CancelAsked, BidAsked, LotKept
<1>12. ASSUME NEW p \in Players, NEW q \in Players, NEW i \in Items \cup {None},
              NEW j \in Items \cup {None}, NEW m \in Sums, NEW n \in Sums,
              Traded(p, q, i, j, m, n)
       PROVE  AllPay'
    <2> DEFINE forP == [bag |-> (Row(p).bag \ Has(i)) \cup Has(j), gold |-> Row(p).gold - m + n]
               forQ == [bag |-> (Row(q).bag \ Has(j)) \cup Has(i), gold |-> Row(q).gold - n + m]
               tx == Tx(Both(Put(p, forP), Put(q, forQ)), Empty, Empty, 0, {})
    <2>1. /\ MapOf[p] \in Threads /\ pend[MapOf[p]] = NoSave /\ disk' = disk
          /\ p # q /\ MapOf[q] = MapOf[p] /\ Changes(MapOf[p], tx)
          /\ Has(i) \subseteq Row(p).bag /\ Has(j) \subseteq Row(q).bag
        BY <1>12, ThreadsAre DEF Traded, Idle, Threaded, Has
    <2>2. /\ forP.bag = (Row(p).bag \ Has(i)) \cup Has(j)
          /\ forQ.bag = (Row(q).bag \ Has(j)) \cup Has(i)
        OBVIOUS
    <2> HIDE DEF forP, forQ
    <2>3. /\ DOMAIN tx.rows = {p, q} /\ tx.rows[p] = forP /\ tx.rows[q] = forQ
        BY <2>1 DEF Tx, Both, Put
    <2> HIDE DEF tx
    <2>4. \A r \in {p, q} : \A k \in tx.rows[r].bag :
              \E s \in Players : MapOf[s] = MapOf[p] /\ k \in Row(s).bag
        BY <2>1, <2>2, <2>3
    <2> QED BY <2>1, <2>3, <2>4, BagsPay
<1>13. ASSUME NEW id \in MailIds, Expire(id) \/ ExpireNot(id) PROVE AllPay'
    <2>1. CASE Expire(id)
        <3>1. PICK mails, fee, lost : Changes(Sweeper, Tx(Empty, mails, Empty, fee, lost))
            BY <2>1 DEF Expire, ExpireFound, Discarded
        <3>2. Sweeper \in Threads /\ pend[Sweeper] = NoSave /\ disk' = disk
            BY <2>1, ThreadsAre DEF Expire, ExpireFound, MailStep, Idle, Passed, Threaded
        <3>3. DOMAIN Tx(Empty, mails, Empty, fee, lost).rows = {}
            BY Fields, Parts
        <3> QED BY <3>1, <3>2, <3>3, BagsPay
    <2>2. CASE ExpireNot(id)
        BY <1>0, <2>2 DEF ExpireNot, Passed
    <2> QED BY <1>13, <2>1, <2>2
<1>14. ASSUME NEW x \in swept, Settle(x) PROVE AllPay'
    <2>1. PICK mails, lots, fee : Changes(Sweeper, Tx(Empty, mails, lots, fee, {}))
        BY <1>14 DEF Settle
    <2>2. Sweeper \in Threads /\ pend[Sweeper] = NoSave /\ disk' = disk
        BY <1>14, ThreadsAre DEF Settle, MailStep, Idle, LotKept, Threaded
    <2>3. DOMAIN Tx(Empty, mails, lots, fee, {}).rows = {}
        BY Fields, Parts
    <2> QED BY <2>1, <2>2, <2>3, BagsPay
<1> QED BY <1>1, <1>2, <1>3, <1>4, <1>5, <1>6, <1>7, <1>8, <1>9, <1>10, <1>11, <1>12, <1>13,
           <1>14 DEF Next

(* The item of a mail sent cash on delivery is written to its taker's bag  *)
(* only together with a new mail that brings the sender the price, however *)
(* many maps take, send and trade at once.                                 *)
THEOREM DeliveryIsPaid == Spec => PaidFor
<1> DEFINE Due(id) ==
        LET m == disk.mail[id]
        IN  m # None /\ m.cod > 0 /\ m.item # None /\ m.item \in disk'.rows[m.to].bag
            => \E k \in MailIds : /\ disk'.mail[k] # None /\ disk.mail[k] # disk'.mail[k]
                                  /\ disk'.mail[k].payment
                                  /\ disk'.mail[k].to = m.from /\ disk'.mail[k].money = m.cod
<1>1. Init => AllPay
    BY NoneToSend DEF Init, AllPay, PaysAll, Owing
<1>2. ASSUME IInv, ItemsInv, AllPay, [Next]_vars, NEW id \in MailIds PROVE Due(id)
    <2> DEFINE m == disk.mail[id]
    <2> SUFFICES ASSUME m # None, m.cod > 0, m.item # None, m.item \in disk'.rows[m.to].bag
                 PROVE  \E k \in MailIds : disk.mail[k] # disk'.mail[k] /\ Pays(disk'.mail[k], m)
        BY DEF Pays
    <2>1. m.to \in Players
        BY <1>2 DEF IInv, TypeOK, Ledger, Mails
    <2>2. m.item \notin disk.rows[m.to].bag
        BY <1>2, <2>1, InMailOnly
    <2>3. PICK t \in Threads : Sent(t)
        BY <1>2, <2>2, OnlySends
    <2>4. /\ disk' = Apply(disk, pend[t]) /\ disk \in Ledger /\ SaveOK(pend[t])
        BY <1>2, <2>3 DEF Sent, IInv, TypeOK
    <2>5. /\ \A k \in MailIds : disk'.mail[k] =
                 IF k \in DOMAIN pend[t].mail THEN pend[t].mail[k] ELSE disk.mail[k]
          /\ \A p \in Players : disk'.rows[p] =
                 IF p \in DOMAIN pend[t].rows THEN pend[t].rows[p] ELSE disk.rows[p]
        BY <2>4, Applied
    <2>6. Owing(disk.mail[id], pend[t])
        BY <2>1, <2>2, <2>5 DEF Owing
    <2>7. PICK k \in DOMAIN pend[t].mail :
              pend[t].mail[k] # disk.mail[k] /\ Pays(pend[t].mail[k], disk.mail[id])
        BY <1>2, <2>6 DEF AllPay, PaysAll
    <2>8. k \in MailIds /\ disk'.mail[k] = pend[t].mail[k]
        BY <2>4, <2>5, <2>7 DEF SaveOK
    <2> QED BY <2>7, <2>8
<1>3. IInv /\ ItemsInv /\ AllPay /\ [Next]_vars => [\A id \in MailIds : Due(id)]_vars
    BY <1>2
<1> QED BY <1>1, <1>3, Inductive, InitItems, NextItems, NextPays, PTL DEF Spec, PaidFor

-----------------------------------------------------------------------------
(* How auctions end.  A save that deletes one has the letters that settle  *)
(* it, each a mail that is new.                                            *)
Delivers(tx, to, i, n) ==
    \E k \in DOMAIN tx.mail : tx.mail[k] # disk.mail[k] /\ tx.mail[k] = Notice(to, i, n)
Sells(tx, a, to, n) == Delivers(tx, to, a.item, 0) /\ Delivers(tx, a.owner, None, n - n \div 2 + Deposit)
Fair(tx, a) ==
    \/ a.bidder # None /\ Sells(tx, a, a.bidder, a.bid)
    \/ /\ a.bidder # None => Delivers(tx, a.bidder, None, a.bid)
       /\ \/ Delivers(tx, a.owner, a.item, 0)
          \/ \E p \in Players \ {a.owner, a.bidder} : Sells(tx, a, p, a.buyout)
    \/ a.bidder # None /\ Sells(tx, a, a.bidder, a.buyout)
AllEnd(tx) ==
    \A l \in DOMAIN tx.lot : disk.lot[l] # None /\ tx.lot[l] = None => Fair(tx, disk.lot[l])
AllFair == \A t \in Threads : AllEnd(pend[t])

(* A save is as fair as it was, if what it is to write over has not        *)
(* changed.                                                                *)
LEMMA AsFair ==
    ASSUME NEW u, NEW tx, pend'[u] = tx, AllEnd(tx),
           \A k \in DOMAIN tx.mail : disk'.mail[k] = disk.mail[k],
           \A l \in DOMAIN tx.lot : disk'.lot[l] = disk.lot[l]
    PROVE  AllEnd(pend[u])'
<1>1. \A to, i, n : Delivers(tx, to, i, n) =>
          \E k \in DOMAIN tx.mail : tx.mail[k] # disk'.mail[k] /\ tx.mail[k] = Notice(to, i, n)
    BY DEF Delivers
<1>2. ASSUME NEW to, NEW i, NEW n, Delivers(tx, to, i, n) PROVE Delivers(pend[u], to, i, n)'
    BY <1>1, <1>2 DEF Delivers, Notice, Letter
<1>3. ASSUME NEW l \in DOMAIN tx.lot, disk'.lot[l] # None, tx.lot[l] = None
      PROVE  Fair(pend[u], disk.lot[l])'
    <2>1. Fair(tx, disk.lot[l]) /\ disk'.lot[l] = disk.lot[l]
        BY <1>3 DEF AllEnd
    <2>2. \A to, n : Sells(tx, disk.lot[l], to, n) => Sells(pend[u], disk.lot[l], to, n)'
        BY <1>2, <2>1 DEF Sells
    <2> QED BY <1>2, <2>1, <2>2 DEF Fair
<1> QED BY <1>3 DEF AllEnd

LEMMA ChangingEnds ==
    ASSUME IInv, AllFair, NEW t \in Threads, NEW tx, Changes(t, tx), disk' = disk, AllEnd(tx)
    PROVE  AllFair'
<1>1. \A u \in Threads : pend'[u] = IF u = t THEN tx ELSE pend[u]
    BY DEF Changes, Saving, IInv, TypeOK
<1>2. ASSUME NEW u \in Threads PROVE AllEnd(pend[u])'
    BY <1>1, AsFair DEF AllFair
<1> QED BY <1>2 DEF AllFair

LEMMA SentEnds ==
    ASSUME IInv, AllFair, NEW t \in Threads, Sent(t)
    PROVE  AllFair'
<1>1. /\ disk' = Apply(disk, pend[t]) /\ disk \in Ledger /\ SaveOK(pend[t]) /\ DOMAIN pend = Threads
      /\ pend'[t] = NoSave /\ \A u \in Threads \ {t} : pend'[u] = pend[u]
    BY DEF Sent, IInv, TypeOK
<1>2. /\ \A id \in MailIds : id \notin DOMAIN pend[t].mail => disk'.mail[id] = disk.mail[id]
      /\ \A l \in LotIds : l \notin DOMAIN pend[t].lot => disk'.lot[l] = disk.lot[l]
    BY <1>1, Applied
<1>3. ASSUME NEW u \in Threads PROVE AllEnd(pend[u])'
    <2>1. CASE u = t
        BY <1>1, <2>1, NoneToSend DEF AllEnd
    <2>2. CASE u # t
        <3>1. /\ DOMAIN pend[u].mail \subseteq MailIds /\ DOMAIN pend[u].lot \subseteq LotIds
            BY DEF IInv, TypeOK, SaveOK
        <3>2. /\ DOMAIN pend[u].mail \cap DOMAIN pend[t].mail = {}
              /\ DOMAIN pend[u].lot \cap DOMAIN pend[t].lot = {}
            BY <2>2, OneSaves
        <3> QED BY <1>1, <1>2, <2>2, <3>1, <3>2, AsFair DEF AllFair
    <2> QED BY <2>1, <2>2
<1> QED BY <1>3 DEF AllFair

(* Each letter posted is a mail that is new.                               *)
Posts(t, tx, letters) ==
    /\ pend[t] = NoSave /\ holder["mail"] = None
    /\ letters \in Seq(Mails) /\ RoomToPost(Len(letters)) /\ tx.mail = Posting(letters)

LEMMA Arrives ==
    ASSUME IInv, NEW t \in Threads, NEW tx, NEW letters, Posts(t, tx, letters)
    PROVE  \A n \in 1..Len(letters) : \A to, i, m :
               letters[n] = Notice(to, i, m) => Delivers(tx, to, i, m)
<1> SUFFICES ASSUME NEW n \in 1..Len(letters), NEW to, NEW i, NEW m, letters[n] = Notice(to, i, m)
             PROVE  Delivers(tx, to, i, m)
    OBVIOUS
<1> DEFINE id == nextMail + n - 1
<1>1. /\ nextMail \in Nat \ {0} /\ Len(letters) \in Nat /\ MaxMails \in Nat
      /\ nextMail + Len(letters) - 1 <= MaxMails
    BY MarketAssumption DEF IInv, TypeOK, RoomToPost, Posts
<1>2. /\ id \in DOMAIN Posting(letters) /\ id - nextMail + 1 = n /\ id \in MailIds
      /\ id >= nextMail /\ Posting(letters)[id] = letters[id - nextMail + 1]
    BY <1>1 DEF Posting, MailIds
<1>3. disk.mail[id] = None
    <2>1. mem.mail[id] = None
        BY <1>1, <1>2 DEF IInv, Fresh, MailIds
    <2> QED BY <1>2, <2>1, Current DEF Posts
<1>4. letters[n] \in Mails /\ letters[n] # None
    BY <1>1, MarketAssumption DEF Posts
<1> QED BY <1>2, <1>3, <1>4 DEF Delivers, Posts

LEMMA SettleEnds ==
    ASSUME IInv, AllFair, NEW x \in swept, Settle(x)
    PROVE  AllFair'
<1> DEFINE a     == x.lot
           mails == IF a.bidder # None THEN Settled(a) ELSE <<Notice(a.owner, a.item, 0)>>
           fee   == IF a.bidder # None THEN Cut(a) ELSE Deposit
           tx    == Tx(Empty, Posting(mails), Put(x.id, None), fee, {})
<1>1. /\ Sweeper \in Threads /\ pend[Sweeper] = NoSave /\ holder["mail"] = None
      /\ Changes(Sweeper, tx) /\ disk' = disk /\ RoomToPost(Len(mails))
    BY ThreadsAre DEF Settle, MailStep, Idle, Takes, LotKept, Threaded
<1>2. /\ x.id \in LotIds /\ a \in Lots /\ disk.lot[x.id] = a
    BY DEF IInv, TypeOK, SweptAlone
<1>3. /\ a.owner \in Players /\ a.item \in Items /\ a.bid \in Nat
      /\ a.bidder \in Players \cup {None}
    BY <1>2 DEF Lots
<1>4. /\ tx.mail = Posting(mails) /\ DOMAIN tx.lot = {x.id}
    <2> HIDE DEF mails, fee
    <2> QED BY DEF Tx, Put
<1> HIDE DEF tx
<1>5. ASSUME a.bidder # None PROVE Fair(tx, a)
    <2>1. /\ mails \in Seq(Mails) /\ Len(mails) = 2
          /\ mails[1] = Notice(a.bidder, a.item, 0)
          /\ mails[2] = Notice(a.owner, None, a.bid - a.bid \div 2 + Deposit)
        BY <1>3, <1>5, NoticesAre DEF Settled, Cut
    <2> HIDE DEF mails
    <2>2. Posts(Sweeper, tx, mails)
        BY <1>1, <1>4, <2>1 DEF Posts
    <2>3. \A n \in 1..Len(mails) : \A to, i, m : mails[n] = Notice(to, i, m) => Delivers(tx, to, i, m)
        BY <1>1, <2>2, Arrives
    <2>4. Delivers(tx, a.bidder, a.item, 0) /\ Delivers(tx, a.owner, None, a.bid - a.bid \div 2 + Deposit)
        BY <2>1, <2>3
    <2> QED BY <1>5, <2>4 DEF Fair, Sells
<1>6. ASSUME a.bidder = None PROVE Fair(tx, a)
    <2>1. Notice(a.owner, a.item, 0) \in Mails
        BY <1>3, LettersAre
    <2>2. /\ mails \in Seq(Mails) /\ Len(mails) = 1 /\ mails[1] = Notice(a.owner, a.item, 0)
        BY <1>6, <2>1
    <2> HIDE DEF mails
    <2>3. Posts(Sweeper, tx, mails)
        BY <1>1, <1>4, <2>2 DEF Posts
    <2>4. \A n \in 1..Len(mails) : \A to, i, m : mails[n] = Notice(to, i, m) => Delivers(tx, to, i, m)
        BY <1>1, <2>3, Arrives
    <2>5. Delivers(tx, a.owner, a.item, 0)
        BY <2>2, <2>4
    <2> QED BY <1>6, <2>5 DEF Fair
<1>7. AllEnd(tx)
    <2>1. Fair(tx, a)
        BY <1>5, <1>6
    <2> HIDE DEF a
    <2> QED BY <1>2, <1>4, <2>1 DEF AllEnd
<1> QED BY <1>1, <1>7, ChangingEnds

LEMMA CancelMadeEnds ==
    ASSUME IInv, AllFair, NEW t \in Threads, CancelMade(t)
    PROVE  AllFair'
<1> DEFINE p     == job[t].who
           l     == job[t].lot
           a     == Lot(l)
           refund == Refund(a)
           back  == <<Notice(p, a.item, 0)>>
           mails == refund \o back
           fee   == Fee(a)
           tx    == Tx(Paying(p, fee), Posting(mails), Put(l, None), fee + Deposit, {})
<1>1. /\ job[t] # None /\ job[t].op = "cancel" /\ pend[t] = NoSave /\ holder["mail"] = None
      /\ Changes(t, tx) /\ disk' = disk /\ RoomToPost(Len(mails))
    BY DEF CancelMade, LotKept, Takes
<1>2. /\ TypeOK /\ job[t] \in Jobs /\ holder["lots"] = t /\ Allowed(job[t])
    BY <1>1 DEF IInv, TypeOK, Locks, Waits
<1>3. p \in Players /\ l \in LotIds
    BY <1>2 DEF Jobs
<1>4. a # None /\ a \in Lots /\ disk.lot[l] = a /\ a.owner = p
    <2>1. a # None /\ a \in Lots /\ a.owner = p
        BY <1>1, <1>2, <1>3, LotIs DEF Allowed, Lot
    <2>2. l \notin Away
        BY <2>1 DEF IInv, SweptAlone, Lot
    <2> QED BY <1>1, <1>2, <1>3, <2>1, <2>2, Current DEF Lot
<1>5. /\ a.owner \in Players /\ a.item \in Items /\ a.bid \in Nat
      /\ a.bidder \in Players \cup {None}
    BY <1>4 DEF Lots
<1>6. /\ mails \in Seq(Mails) /\ Len(mails) = Len(refund) + 1 /\ Len(refund) \in Nat
      /\ \A k \in 1..Len(refund) : mails[k] = refund[k]
      /\ mails[Len(refund) + 1] = Notice(p, a.item, 0)
    <2>1. refund \in Seq(Mails)
        BY <1>5, NoticesAre
    <2>2. Notice(p, a.item, 0) \in Mails
        BY <1>3, <1>5, LettersAre
    <2>3. back \in Seq(Mails) /\ Len(back) = 1 /\ back[1] = Notice(p, a.item, 0)
        BY <2>2
    <2> HIDE DEF refund, back
    <2>4. /\ refund \o back \in Seq(Mails) /\ Len(refund \o back) = Len(refund) + Len(back)
          /\ \A k \in 1..Len(refund) : (refund \o back)[k] = refund[k]
          /\ \A k \in 1..Len(back) : (refund \o back)[Len(refund) + k] = back[k]
        BY <2>1, <2>3, Joined
    <2> HIDE DEF mails
    <2>5. mails = refund \o back /\ Len(refund) \in Nat
        BY <2>1 DEF mails
    <2> QED BY <2>3, <2>4, <2>5
<1>7. a.bidder # None => Len(refund) = 1 /\ refund[1] = Notice(a.bidder, None, a.bid)
    BY DEF Refund
<1> HIDE DEF mails, fee, refund
<1>8. tx.mail = Posting(mails) /\ DOMAIN tx.lot = {l}
    BY DEF Tx, Put
<1> HIDE DEF tx
<1>9. Posts(t, tx, mails)
    BY <1>1, <1>6, <1>8 DEF Posts
<1>10. \A n \in 1..Len(mails) : \A to, i, m : mails[n] = Notice(to, i, m) => Delivers(tx, to, i, m)
    BY <1>9, Arrives
<1>11. Delivers(tx, a.owner, a.item, 0)
    BY <1>4, <1>6, <1>10
<1>12. a.bidder # None => Delivers(tx, a.bidder, None, a.bid)
    BY <1>6, <1>7, <1>10
<1> HIDE DEF a, l, p
<1>13. AllEnd(tx)
    BY <1>4, <1>8, <1>11, <1>12 DEF AllEnd, Fair
<1> QED BY <1>1, <1>13, ChangingEnds

LEMMA BidMadeEnds ==
    ASSUME IInv, AllFair, NEW t \in Threads, BidMade(t)
    PROVE  AllFair'
<1> DEFINE p      == job[t].who
           l      == job[t].lot
           a      == Lot(l)
           price  == job[t].price
           raised == [a EXCEPT !.bid = price, !.bidder = p]
           bought == Buys(a, price)
           refund == IF a.bidder = p THEN <<>> ELSE Refund(a)
           done   == IF bought THEN Settled(raised) ELSE <<>>
           fee    == IF bought THEN Cut(raised) ELSE 0
           cost   == Cost(p, a, price)
           left   == IF bought THEN None ELSE raised
           mails  == refund \o done
           tx     == Tx(Paying(p, cost), Posting(mails), Put(l, left), fee, {})
<1>1. /\ job[t] # None /\ job[t].op = "bid" /\ pend[t] = NoSave /\ holder["mail"] = None
      /\ Changes(t, tx) /\ disk' = disk /\ RoomToPost(Len(mails))
    BY DEF BidMade, LotKept, Takes
<1>2. /\ TypeOK /\ job[t] \in Jobs /\ holder["lots"] = t /\ Allowed(job[t])
    BY <1>1 DEF IInv, TypeOK, Locks, Waits
<1>3. p \in Players /\ l \in LotIds /\ price \in Nat
    BY <1>2 DEF Jobs
<1>4. /\ a # None /\ a \in Lots /\ disk.lot[l] = a
      /\ a.owner # p /\ (bought => price = a.buyout)
    <2>1. a # None /\ a \in Lots /\ a.owner # p /\ (bought => price = a.buyout)
        BY <1>1, <1>2, <1>3, LotIs DEF Allowed, Lot
    <2>2. l \notin Away
        BY <2>1 DEF IInv, SweptAlone, Lot
    <2> QED BY <1>1, <1>2, <1>3, <2>1, <2>2, Current DEF Lot
<1>5. /\ a.owner \in Players /\ a.item \in Items /\ a.bid \in Nat /\ a.buyout \in Nat
      /\ a.bidder \in Players \cup {None} /\ None \notin Players
    BY <1>4, MarketAssumption DEF Lots
<1>6. /\ raised.owner = a.owner /\ raised.item = a.item /\ raised.bid = price
      /\ raised.bidder = p
    BY <1>4 DEF Lots
<1>7. /\ refund \in Seq(Mails)
      /\ a.bidder \notin {None, p} => Len(refund) = 1 /\ refund[1] = Notice(a.bidder, None, a.bid)
    <2>1. Refund(a) \in Seq(Mails)
        BY <1>5, NoticesAre
    <2>2. a.bidder # None => Len(Refund(a)) = 1 /\ Refund(a)[1] = Notice(a.bidder, None, a.bid)
        BY DEF Refund
    <2> QED BY <2>1, <2>2
<1>8. /\ Settled(raised) \in Seq(Mails) /\ Len(Settled(raised)) = 2
      /\ Settled(raised)[1] = Notice(p, a.item, 0)
      /\ Settled(raised)[2] = Notice(a.owner, None, price - price \div 2 + Deposit)
    <2>1. Settled(raised) \in Seq(Mails)
        BY <1>3, <1>5, <1>6, NoticesAre
    <2> HIDE DEF raised
    <2> QED BY <1>6, <2>1 DEF Settled, Cut
<1>9. tx.mail = Posting(mails) /\ DOMAIN tx.lot = {l} /\ tx.lot[l] = left
    <2> HIDE DEF mails, left, fee, cost
    <2> QED BY DEF Tx, Put
<1> HIDE DEF tx, refund
<1>10. ASSUME bought PROVE Fair(tx, a)
    <2>1. /\ done = Settled(raised) /\ done \in Seq(Mails) /\ Len(done) = 2
        BY <1>8, <1>10
    <2> HIDE DEF done, raised
    <2>2. /\ mails \in Seq(Mails) /\ Len(mails) = Len(refund) + 2 /\ Len(refund) \in Nat
          /\ \A k \in 1..Len(refund) : mails[k] = refund[k]
          /\ \A k \in 1..2 : mails[Len(refund) + k] = done[k]
        <3>1. /\ refund \o done \in Seq(Mails) /\ Len(refund \o done) = Len(refund) + Len(done)
              /\ \A k \in 1..Len(refund) : (refund \o done)[k] = refund[k]
              /\ \A k \in 1..Len(done) : (refund \o done)[Len(refund) + k] = done[k]
            BY <1>7, <2>1, Joined
        <3> QED BY <1>7, <2>1, <3>1
    <2> HIDE DEF mails
    <2>3. Posts(t, tx, mails)
        BY <1>1, <1>9, <2>2 DEF Posts
    <2>4. \A n \in 1..Len(mails) : \A to, i, m : mails[n] = Notice(to, i, m) => Delivers(tx, to, i, m)
        BY <2>3, Arrives
    <2>5. Delivers(tx, p, a.item, 0)
        <3>1. mails[Len(refund) + 1] = Notice(p, a.item, 0)
            BY <1>8, <2>1, <2>2
        <3> QED BY <2>2, <2>4, <3>1
    <2>6. Delivers(tx, a.owner, None, price - price \div 2 + Deposit)
        <3>1. mails[Len(refund) + 2] = Notice(a.owner, None, price - price \div 2 + Deposit)
            BY <1>8, <2>1, <2>2
        <3> QED BY <2>2, <2>4, <3>1
    <2>7. a.bidder \notin {None, p} => Delivers(tx, a.bidder, None, a.bid)
        BY <1>7, <2>2, <2>4
    <2>8. Sells(tx, a, p, a.buyout)
        BY <1>4, <1>10, <2>5, <2>6 DEF Sells
    <2> HIDE DEF a, p
    <2>9. CASE a.bidder = p
        BY <1>3, <1>5, <2>8, <2>9 DEF Fair
    <2>10. CASE a.bidder # p
        BY <1>3, <1>4, <1>5, <2>7, <2>8, <2>10 DEF Fair
    <2> QED BY <2>9, <2>10
<1>11. AllEnd(tx)
    <2>1. ~bought => left # None
        <3>1. ASSUME ~bought PROVE raised \in Lots
            <4> DEFINE Bids == [item : Items, owner : Players, bid : Nat,
                               bidder : Players \cup {None}, buyout : Nat]
            <4>1. a \in Bids
                BY <1>4 DEF Lots
            <4>2. raised \in Bids /\ raised.bid = price /\ raised.bidder = p /\ raised.buyout = a.buyout
                BY <1>3, <4>1
            <4>3. raised.buyout > 0 => raised.bid < raised.buyout
                BY <1>3, <1>5, <3>1, <4>2 DEF Buys
            <4> QED BY <1>3, <4>2, <4>3 DEF Lots
        <3> QED BY <3>1, MarketAssumption
    <2> HIDE DEF a, left, bought
    <2> QED BY <1>4, <1>9, <1>10, <2>1 DEF AllEnd
<1> QED BY <1>1, <1>11, ChangingEnds

LEMMA NextEnds == IInv /\ AllFair /\ [Next]_vars => AllFair'
<1> SUFFICES ASSUME IInv, AllFair, [Next]_vars PROVE AllFair'
    OBVIOUS
<1>0. ASSUME disk' = disk, pend' = pend PROVE AllFair'
    BY <1>0, AsFair DEF AllFair
<1>1. CASE UNCHANGED vars
    BY <1>0, <1>1 DEF vars
<1>2. ASSUME NEW t \in Threads, Sent(t) \/ BidMade(t) \/ CancelMade(t) PROVE AllFair'
    BY <1>2, SentEnds, BidMadeEnds, CancelMadeEnds
<1>3. CASE Crash
    <2>1. disk' = disk /\ \A t \in Threads : pend'[t] = NoSave
        BY <1>3 DEF Crash
    <2> QED BY <2>1, NoneToSend DEF AllFair, AllEnd
<1>4. CASE Ages \/ FindExpired \/ SweepLots
    BY <1>0, <1>4 DEF Ages, FindExpired, SweepLots, LotKept
<1>5. ASSUME NEW t \in Threads, NEW rows, NEW mails, NEW fee, NEW lost,
             Changes(t, Tx(rows, mails, Empty, fee, lost)), disk' = disk
      PROVE  AllFair'
    <2> DEFINE tx == Tx(rows, mails, Empty, fee, lost)
    <2>1. AllEnd(tx)
        BY Fields, Parts DEF AllEnd
    <2>2. Changes(t, tx)
        BY <1>5
    <2> HIDE DEF tx
    <2> QED BY <1>5, <2>1, <2>2, ChangingEnds
<1>6. ASSUME NEW p \in Players, NEW id \in MailIds,
             TakeMoney(p, id) \/ TakeItem(p, id) \/ ReturnMail(p, id) \/ DeleteMail(p, id)
      PROVE  AllFair'
    <2>1. MapOf[p] \in Threads /\ disk' = disk
        BY <1>6, ThreadsAre
        DEF TakeMoney, TakeItem, ItemTaken, ReturnMail, DeleteMail, MailKept, Threaded
    <2>2. PICK rows, mails, fee, lost : Changes(MapOf[p], Tx(rows, mails, Empty, fee, lost))
        BY <1>6 DEF TakeMoney, TakeItem, ItemTaken, ReturnMail, DeleteMail, Discarded
    <2> QED BY <1>5, <2>1, <2>2
<1>7. ASSUME NEW p \in Players, NEW to \in Players, NEW i \in Items \cup {None},
             NEW m \in Sums, NEW c \in Cods, SendMail(p, to, i, m, c)
      PROVE  AllFair'
    <2>1. MapOf[p] \in Threads /\ disk' = disk
        BY <1>7, ThreadsAre DEF SendMail, MailKept, Threaded
    <2>2. PICK rows, mails, fee, lost : Changes(MapOf[p], Tx(rows, mails, Empty, fee, lost))
        BY <1>7 DEF SendMail
    <2> QED BY <1>5, <2>1, <2>2
<1>8. ASSUME NEW p \in Players, NEW i \in Items, NEW b \in Buyouts, Sell(p, i, b)
      PROVE  AllFair'
    <2> DEFINE a == [item |-> i, owner |-> p, bid |-> 0, bidder |-> None, buyout |-> b]
               tx == Tx(Giving(p, i, Deposit), Empty, Put(nextLot, a), 0, {})
    <2>1. /\ MapOf[p] \in Threads /\ disk' = disk /\ b \in Nat
          /\ b = 0 \/ b >= StartBid
        BY <1>8, ThreadsAre, MarketAssumption DEF Sell, LotKept, Threaded
    <2>2. a \in Lots
        BY <1>8, MarketAssumption DEF Lots, Sell
    <2> HIDE DEF a
    <2>3. AllEnd(tx)
        <3>1. DOMAIN tx.lot = {nextLot} /\ tx.lot[nextLot] = a
            BY DEF Tx, Put
        <3> HIDE DEF tx
        <3> QED BY <2>2, <3>1, MarketAssumption DEF AllEnd
    <2>4. Changes(MapOf[p], tx)
        BY <1>8 DEF Sell, a
    <2> HIDE DEF tx
    <2> QED BY <2>1, <2>3, <2>4, ChangingEnds
<1>9. ASSUME NEW p \in Players, NEW l \in LotIds,
             CancelAsked(p, l) \/ \E n \in Prices : BidAsked(p, l, n)
      PROVE  AllFair'
    BY <1>0, <1>9 DEF CancelAsked, BidAsked, LotKept
<1>10. ASSUME NEW p \in Players, NEW q \in Players, NEW i \in Items \cup {None},
              NEW j \in Items \cup {None}, NEW m \in Sums, NEW n \in Sums,
              Traded(p, q, i, j, m, n)
       PROVE  AllFair'
    <2>1. MapOf[p] \in Threads /\ disk' = disk
        BY <1>10, ThreadsAre DEF Traded, Threaded
    <2>2. PICK rows, mails, fee, lost : Changes(MapOf[p], Tx(rows, mails, Empty, fee, lost))
        BY <1>10 DEF Traded
    <2> QED BY <1>5, <2>1, <2>2
<1>11. ASSUME NEW id \in MailIds, Expire(id) \/ ExpireNot(id) PROVE AllFair'
    <2>1. CASE Expire(id)
        <3>1. Sweeper \in Threads /\ disk' = disk
            BY <2>1, ThreadsAre DEF Expire, ExpireFound, Passed, Threaded
        <3>2. PICK rows, mails, fee, lost : Changes(Sweeper, Tx(rows, mails, Empty, fee, lost))
            BY <2>1 DEF Expire, ExpireFound, Discarded
        <3> QED BY <1>5, <3>1, <3>2
    <2>2. CASE ExpireNot(id)
        BY <1>0, <2>2 DEF ExpireNot, Passed
    <2> QED BY <1>11, <2>1, <2>2
<1>12. ASSUME NEW x \in swept, Settle(x) PROVE AllFair'
    BY <1>12, SettleEnds
<1> QED BY <1>1, <1>2, <1>3, <1>4, <1>6, <1>7, <1>8, <1>9, <1>10, <1>11, <1>12 DEF Next

(* Whatever ends an auction in the database, a sale by its time or by a    *)
(* buyout or a cancel, brings in the same transaction the item to the      *)
(* winner and the price less the cut to the owner, or the item back, and   *)
(* the bid of whoever was outbid or called off.                            *)
THEOREM AuctionsEndFairly == Spec => EndsFairly
<1> DEFINE Ended(l) ==
        LET a            == disk.lot[l]
            Sends(to, i, n) == \E k \in MailIds : /\ disk'.mail[k] # disk.mail[k]
                                                 /\ disk'.mail[k] = Notice(to, i, n)
            Sold(to, n)  == Sends(to, a.item, 0) /\ Sends(a.owner, None, n - n \div 2 + Deposit)
        IN  a # None /\ disk'.lot[l] = None
            => \/ a.bidder # None /\ Sold(a.bidder, a.bid)
               \/ /\ a.bidder # None => Sends(a.bidder, None, a.bid)
                  /\ \/ Sends(a.owner, a.item, 0)
                     \/ \E p \in Players \ {a.owner, a.bidder} : Sold(p, a.buyout)
               \/ a.bidder # None /\ Sold(a.bidder, a.buyout)
<1>1. Init => AllFair
    BY NoneToSend DEF Init, AllFair, AllEnd
<1>2. ASSUME IInv, AllFair, [Next]_vars, NEW l \in LotIds PROVE Ended(l)
    <2> DEFINE a == disk.lot[l]
               Comes(to, i, n) == \E k \in MailIds : /\ disk'.mail[k] # disk.mail[k]
                                                    /\ disk'.mail[k] = Notice(to, i, n)
               Goods(to, n) == Comes(to, a.item, 0) /\ Comes(a.owner, None, n - n \div 2 + Deposit)
    <2>0. ASSUME a # None, disk'.lot[l] = None
          PROVE  \/ a.bidder # None /\ Goods(a.bidder, a.bid)
                 \/ /\ a.bidder # None => Comes(a.bidder, None, a.bid)
                    /\ \/ Comes(a.owner, a.item, 0)
                       \/ \E p \in Players \ {a.owner, a.bidder} : Goods(p, a.buyout)
                 \/ a.bidder # None /\ Goods(a.bidder, a.buyout)
        <3>1. PICK t \in Threads : Sent(t)
            BY <1>2, <2>0, OnlySends
        <3>2. /\ disk' = Apply(disk, pend[t]) /\ disk \in Ledger /\ SaveOK(pend[t])
            BY <1>2, <3>1 DEF Sent, IInv, TypeOK
        <3>3. /\ \A k \in MailIds : disk'.mail[k] =
                     IF k \in DOMAIN pend[t].mail THEN pend[t].mail[k] ELSE disk.mail[k]
              /\ disk'.lot[l] = IF l \in DOMAIN pend[t].lot THEN pend[t].lot[l] ELSE disk.lot[l]
            BY <3>2, Applied
        <3>4. Fair(pend[t], a)
            BY <1>2, <2>0, <3>3 DEF AllFair, AllEnd
        <3>5. DOMAIN pend[t].mail \subseteq MailIds
            BY <3>2 DEF SaveOK
        <3>6. \A to, i, n : Delivers(pend[t], to, i, n) => Comes(to, i, n)
            BY <3>3, <3>5 DEF Delivers
        <3> HIDE DEF Comes, a
        <3>7. \A to, n : Sells(pend[t], a, to, n) => Goods(to, n)
            BY <3>6 DEF Sells
        <3> HIDE DEF Goods
        <3> QED BY <3>4, <3>6, <3>7 DEF Fair
    <2> QED BY <2>0
<1>3. IInv /\ AllFair /\ [Next]_vars => [\A l \in LotIds : Ended(l)]_vars
    BY <1>2
<1> QED BY <1>1, <1>3, Inductive, NextEnds, PTL DEF Spec, EndsFairly

(* What is owed stays: a step changes one mail at most of those there are, *)
(* and the others it has are posted under new ids.                         *)
OwedInv == owed = [id \in MailIds |-> owed[id]] /\ ReturnedIsKept

OnlyPosts(tx) == \A id \in DOMAIN tx.mail : id >= nextMail
Leaves == UNCHANGED <<owed, old>>

LEMMA OwedOthers ==
    ASSUME IInv, OwedInv, NEW k, NEW t, NEW tx, Changes(t, tx),
           \A id \in DOMAIN tx.mail : id = k \/ id >= nextMail,
           owed' = [id \in MailIds |-> owed'[id]],
           \A id \in MailIds : id # k => owed'[id] = owed[id],
           old' \subseteq old,
           k \in MailIds /\ owed'[k] # None => Mail(k)' = owed'[k] /\ k \notin old'
    PROVE  OwedInv'
<1>1. DOMAIN mem.mail = MailIds /\ nextMail \in Nat
    BY DEF IInv, TypeOK, Ledger
<1>2. mem'.mail = Onto(mem.mail, tx.mail)
    BY DEF Changes, Saving, Apply
<1>3. ASSUME NEW id \in MailIds, owed'[id] # None
      PROVE  Mail(id)' = owed'[id] /\ id \notin old'
    <2>1. CASE id = k
        BY <1>3, <2>1
    <2>2. CASE id # k
        <3>1. owed[id] # None /\ owed'[id] = owed[id] /\ mem.mail[id] = owed[id] /\ id \notin old
            BY <1>3, <2>2 DEF OwedInv, ReturnedIsKept, Mail
        <3>2. id < nextMail /\ id \in Nat
            BY <3>1 DEF IInv, Fresh, MailIds
        <3>3. id \notin DOMAIN tx.mail
            BY <1>1, <2>2, <3>2
        <3>4. mem'.mail[id] = mem.mail[id]
            BY <1>1, <1>2, <3>3 DEF Onto
        <3> QED BY <3>1, <3>4 DEF Mail
    <2> QED BY <2>1, <2>2
<1> QED BY <1>3 DEF OwedInv, ReturnedIsKept

(* ... as what posts, or trades, leaves it;                                *)
LEMMA OwedPosts ==
    ASSUME IInv, OwedInv, NEW t, NEW tx, Changes(t, tx), OnlyPosts(tx), Leaves
    PROVE  OwedInv'
<1>1. PICK k : k \notin MailIds
    <2>1. -1 \notin MailIds
        BY MarketAssumption DEF MailIds
    <2> QED BY <2>1
<1> QED BY <1>1, OwedOthers DEF OwedInv, Leaves, OnlyPosts

LEMMA PostsLetters ==
    ASSUME IInv, NEW rows, NEW letters, NEW lots, NEW fee, NEW lost
    PROVE  OnlyPosts(Tx(rows, Posting(letters), lots, fee, lost))
<1>1. \A id \in DOMAIN Posting(letters) : id >= nextMail
    BY DEF Posting, IInv, TypeOK
<1> QED BY <1>1, Fields DEF OnlyPosts

LEMMA PostsNone ==
    ASSUME NEW rows, NEW lots, NEW fee, NEW lost
    PROVE  OnlyPosts(Tx(rows, Empty, lots, fee, lost))
BY Fields, Parts DEF OnlyPosts

(* ... what changes the mail k, whose sender has it, or is to have it;     *)
LEMMA OwedOne ==
    ASSUME IInv, OwedInv, NEW k \in MailIds, NEW t, NEW rows, NEW v, NEW fee, NEW lost, NEW paid,
           Changes(t, Tx(rows, Both(Put(k, v), Posting(paid)), Empty, fee, lost))
              \/ Changes(t, Tx(rows, Put(k, v), Empty, fee, lost)),
           NEW m, Owes(k, m), m # None => m = v /\ k \notin old', old' \subseteq old
    PROVE  OwedInv'
<1>1. PICK tx : /\ Changes(t, tx) /\ k \in DOMAIN tx.mail /\ tx.mail[k] = v
                /\ \A id \in DOMAIN tx.mail : id = k \/ id >= nextMail
    <2>1. CASE Changes(t, Tx(rows, Both(Put(k, v), Posting(paid)), Empty, fee, lost))
        <3>1. \A id \in DOMAIN Posting(paid) : id >= nextMail
            BY DEF Posting, IInv, TypeOK
        <3>2. PICK both : both = Both(Put(k, v), Posting(paid))
            OBVIOUS
        <3>3. DOMAIN both = {k} \cup DOMAIN Posting(paid) /\ both[k] = v
            <4>1. PICK a, b : a = Put(k, v) /\ b = Posting(paid)
                OBVIOUS
            <4>2. DOMAIN a = {k} /\ a[k] = v
                BY <4>1 DEF Put
            <4>3. DOMAIN Both(a, b) = DOMAIN a \cup DOMAIN b /\ Both(a, b)[k] = a[k]
                BY <4>2 DEF Both
            <4> QED BY <3>2, <4>1, <4>2, <4>3
        <3>4. PICK tx : tx = Tx(rows, both, Empty, fee, lost)
            OBVIOUS
        <3>5. tx.mail = both /\ Changes(t, tx)
            BY <2>1, <3>2, <3>4, Fields
        <3> QED BY <3>1, <3>3, <3>5
    <2>2. CASE Changes(t, Tx(rows, Put(k, v), Empty, fee, lost))
        <3>1. PICK tx : tx = Tx(rows, Put(k, v), Empty, fee, lost)
            OBVIOUS
        <3>2. tx.mail = Put(k, v) /\ Changes(t, tx)
            BY <2>2, <3>1, Fields
        <3>3. DOMAIN tx.mail = {k} /\ tx.mail[k] = v
            BY <3>2 DEF Put
        <3> QED BY <3>2, <3>3
    <2> QED BY <2>1, <2>2
<1>2. /\ owed' = [id \in MailIds |-> owed'[id]] /\ owed'[k] = m
      /\ \A id \in MailIds : id # k => owed'[id] = owed[id]
    BY DEF OwedInv, Owes
<1>3. Mail(k)' = v
    <2>1. DOMAIN mem.mail = MailIds
        BY DEF IInv, TypeOK, Ledger
    <2>2. mem'.mail = Onto(mem.mail, tx.mail)
        BY <1>1 DEF Changes, Saving, Apply
    <2> QED BY <1>1, <2>1, <2>2 DEF Onto, Mail
<1> QED BY <1>1, <1>2, <1>3, OwedOthers

(* ... what leaves memory's mails as they were;                            *)
LEMMA OwedSame ==
    ASSUME OwedInv, Leaves, mem'.mail = mem.mail
    PROVE  OwedInv'
BY DEF OwedInv, ReturnedIsKept, Leaves, Mail

(* ... and what a crash leaves: what was sent is in the database.          *)
LEMMA OwedCrash ==
    ASSUME IInv, OwedInv, Crash
    PROVE  OwedInv'
<1>1. /\ mem' = disk /\ old' \subseteq old
      /\ owed' = [id \in MailIds |-> IF \E t \in Threads : id \in DOMAIN pend[t].mail
                                     THEN None ELSE owed[id]]
    BY DEF Crash
<1>2. ASSUME NEW id \in MailIds, owed'[id] # None
      PROVE  Mail(id)' = owed'[id] /\ id \notin old'
    <2>1. /\ \A t \in Threads : id \notin DOMAIN pend[t].mail
          /\ owed'[id] = owed[id]
        BY <1>1, <1>2
    <2>2. holder["mail"] \in Threads \cup {None}
        BY DEF IInv, TypeOK
    <2>3. mem.mail[id] = disk.mail[id]
        BY <2>1, <2>2 DEF IInv, MailDue
    <2> QED BY <1>1, <1>2, <2>1, <2>3 DEF OwedInv, ReturnedIsKept, Mail
<1> QED BY <1>1, <1>2 DEF OwedInv, ReturnedIsKept

LEMMA OwedMailSteps ==
    ASSUME IInv, OwedInv, NEW p \in Players, NEW id \in MailIds,
           TakeMoney(p, id) \/ TakeItem(p, id) \/ ReturnMail(p, id) \/ DeleteMail(p, id)
    PROVE  OwedInv'
<1>1. CASE TakeMoney(p, id)
    <2>1. PICK rows, v : /\ Changes(MapOf[p], Tx(rows, Put(id, v), Empty, 0, {}))
                         /\ Owes(id, None) /\ old' = old
        BY <1>1 DEF TakeMoney
    <2> QED BY <2>1, OwedOne
<1>2. CASE TakeItem(p, id)
    <2>1. PICK rows, v, paid : /\ Changes(MapOf[p], Tx(rows, Both(Put(id, v), Posting(paid)), Empty, 0, {}))
                               /\ Owes(id, None) /\ old' = old
        BY <1>2 DEF TakeItem, ItemTaken
    <2> QED BY <2>1, OwedOne
<1>3. CASE ReturnMail(p, id)
    <2>1. /\ Changes(MapOf[p], Tx(Empty, Put(id, SentBack(Mail(id))), Empty, 0, {}))
          /\ Owes(id, SentBack(Mail(id))) /\ old' = old \ {id}
        BY <1>3 DEF ReturnMail
    <2> QED BY <2>1, OwedOne
<1>4. CASE DeleteMail(p, id)
    <2>1. /\ Changes(MapOf[p], Tx(Empty, Put(id, None), Empty, Mail(id).money, Has(Mail(id).item)))
          /\ Owes(id, None) /\ old' = old \ {id}
        BY <1>4 DEF DeleteMail, Discarded
    <2> QED BY <2>1, OwedOne
<1> QED BY <1>1, <1>2, <1>3, <1>4

LEMMA OwedSweep ==
    ASSUME IInv, OwedInv, NEW id \in MailIds, Expire(id)
    PROVE  OwedInv'
<1>1. /\ id \in old /\ old' = old \ {id}
      /\ \/ /\ Changes(Sweeper, Tx(Empty, Put(id, SentBack(Mail(id))), Empty, 0, {}))
            /\ Owes(id, SentBack(Mail(id)))
         \/ /\ Changes(Sweeper, Tx(Empty, Put(id, None), Empty, Mail(id).money, Has(Mail(id).item)))
            /\ owed' = owed
    BY DEF Expire, ExpireFound, Discarded
<1>2. CASE /\ Changes(Sweeper, Tx(Empty, Put(id, SentBack(Mail(id))), Empty, 0, {}))
           /\ Owes(id, SentBack(Mail(id)))
    BY <1>1, <1>2, OwedOne
<1>3. CASE /\ Changes(Sweeper, Tx(Empty, Put(id, None), Empty, Mail(id).money, Has(Mail(id).item)))
           /\ owed' = owed
    <2>1. owed[id] = None
        BY <1>1 DEF OwedInv, ReturnedIsKept
    <2>2. Owes(id, None)
        BY <1>3, <2>1 DEF Owes, OwedInv
    <2> QED BY <1>1, <1>3, <2>2, OwedOne
<1> QED BY <1>1, <1>2, <1>3

LEMMA OwedAges ==
    ASSUME OwedInv, Ages
    PROVE  OwedInv'
<1>1. CASE \E id \in MailIds \ old : old' = old \cup {id} /\ Owes(id, None)
    <2>1. PICK id \in MailIds : old' = old \cup {id} /\ owed' = [owed EXCEPT ![id] = None]
        BY <1>1 DEF Owes
    <2>2. mem' = mem
        BY DEF Ages
    <2> QED BY <2>1, <2>2 DEF OwedInv, ReturnedIsKept, Mail
<1>2. CASE UNCHANGED <<old, owed>>
    BY <1>2, OwedSame DEF Leaves, Ages
<1> QED BY <1>1, <1>2 DEF Ages

LEMMA OwedSettles ==
    ASSUME IInv, OwedInv, NEW t,
           BidMade(t) \/ CancelMade(t) \/ (\E x \in swept : Settle(x))
    PROVE  OwedInv'
<1>1. PICK u, rows, letters, lots, fee :
         Changes(u, Tx(rows, Posting(letters), lots, fee, {})) /\ Leaves
    BY DEF BidMade, CancelMade, Settle, LotKept, Leaves
<1> QED BY <1>1, PostsLetters, OwedPosts

LEMMA NextOwed == IInv /\ OwedInv /\ [Next]_vars => OwedInv'
<1> SUFFICES ASSUME IInv, OwedInv, [Next]_vars PROVE OwedInv'
    OBVIOUS
<1>1. CASE UNCHANGED vars
    BY <1>1, OwedSame DEF vars, Leaves
<1>2. ASSUME NEW t \in Threads, Sent(t) PROVE OwedInv'
    BY <1>2, OwedSame DEF Sent, Leaves
<1>3. ASSUME NEW t \in Threads, BidMade(t) \/ CancelMade(t) PROVE OwedInv'
    BY <1>3, OwedSettles
<1>4. CASE Crash
    BY <1>4, OwedCrash
<1>5. CASE Ages
    BY <1>5, OwedAges
<1>6. ASSUME NEW p \in Players, NEW id \in MailIds,
             TakeMoney(p, id) \/ TakeItem(p, id) \/ ReturnMail(p, id) \/ DeleteMail(p, id)
      PROVE  OwedInv'
    BY <1>6, OwedMailSteps
<1>7. ASSUME NEW p \in Players, NEW to \in Players, NEW i \in Items \cup {None},
             NEW m \in Sums, NEW c \in Cods, SendMail(p, to, i, m, c)
      PROVE  OwedInv'
    <2>1. PICK rows, letters, fee :
             Changes(MapOf[p], Tx(rows, Posting(letters), Empty, fee, {})) /\ Leaves
        BY <1>7 DEF SendMail, Leaves
    <2> QED BY <2>1, PostsLetters, OwedPosts
<1>8. ASSUME NEW p \in Players, NEW i \in Items, NEW b \in Buyouts, Sell(p, i, b) PROVE OwedInv'
    <2>1. PICK rows, lots : Changes(MapOf[p], Tx(rows, Empty, lots, 0, {})) /\ Leaves
        BY <1>8 DEF Sell, LotKept, Leaves
    <2> QED BY <2>1, PostsNone, OwedPosts
<1>9. ASSUME NEW p \in Players, NEW l \in LotIds,
             CancelAsked(p, l) \/ \E n \in Prices : BidAsked(p, l, n)
      PROVE  OwedInv'
    BY <1>9, OwedSame DEF CancelAsked, BidAsked, LotKept, Leaves
<1>10. ASSUME NEW p \in Players, NEW q \in Players, NEW i \in Items \cup {None},
              NEW j \in Items \cup {None}, NEW m \in Sums, NEW n \in Sums,
              Traded(p, q, i, j, m, n)
       PROVE  OwedInv'
    <2>1. PICK rows : Changes(MapOf[p], Tx(rows, Empty, Empty, 0, {})) /\ Leaves
        BY <1>10 DEF Traded, Leaves
    <2> QED BY <2>1, PostsNone, OwedPosts
<1>11. CASE FindExpired
    BY <1>11, OwedSame DEF FindExpired, Leaves
<1>12. ASSUME NEW id \in MailIds, Expire(id) \/ ExpireNot(id) PROVE OwedInv'
    BY <1>12, OwedSweep, OwedSame DEF ExpireNot, Leaves
<1>13. CASE SweepLots
    BY <1>13, OwedSame DEF SweepLots, LotKept, Leaves, IInv, TypeOK, Ledger
<1>14. ASSUME NEW x \in swept, Settle(x) PROVE OwedInv'
    BY <1>14, OwedSettles
<1> QED BY <1>1, <1>2, <1>3, <1>4, <1>5, <1>6, <1>7, <1>8, <1>9, <1>10, <1>11, <1>12, <1>13,
           <1>14 DEF Next

(* A mail sent back stays with all it held, in memory and over a crash     *)
(* once it is written, until its sender has had of it or its new time is   *)
(* up, whatever the sweep had found of it before.                          *)
THEOREM SentBackIsKept == Spec => []ReturnedIsKept
<1>1. Init => OwedInv
    BY DEF Init, OwedInv, ReturnedIsKept
<1> QED BY <1>1, Inductive, NextOwed, PTL DEF Spec, OwedInv

-----------------------------------------------------------------------------
(* Induction, over the numbers and over the subsets of a finite set: each  *)
(* is stated of the set of those a fact holds of, so that no operator is a *)
(* parameter, and comes from the least number of a set.                    *)
LEMMA LeastNumber ==
    ASSUME NEW T \in SUBSET Nat, T # {}
    PROVE  \E x \in T : \A y \in T : x <= y
<1> DEFINE R == {ss \in Nat \X Nat : ss[1] < ss[2]}
<1>1. IsWellFoundedOn(R, Nat)
    BY NatLessThanWellFounded DEF OpToRel
<1> HIDE DEF R
<1>2. PICK x \in T : \A y \in T : ~(<<y, x>> \in R)
    BY <1>1, WFMin
<1>3. ASSUME NEW y \in T, ~(x <= y)
      PROVE  FALSE
    <2>1. y \in Nat /\ x \in Nat /\ y < x
        BY <1>3
    <2>2. <<y, x>> \in Nat \X Nat /\ <<y, x>>[1] < <<y, x>>[2]
        BY <2>1
    <2> QED BY <1>2, <2>2 DEF R
<1> QED BY <1>3

LEMMA Numbers ==
    ASSUME NEW T \in SUBSET Nat, 0 \in T, \A n \in T : n + 1 \in T
    PROVE  T = Nat
<1> SUFFICES ASSUME Nat \ T # {}
             PROVE  FALSE
    OBVIOUS
<1>1. PICK x \in Nat \ T : \A y \in Nat \ T : x <= y
    BY LeastNumber
<1>2. x # 0 /\ x - 1 \in Nat /\ x - 1 \in T
    BY <1>1
<1> QED BY <1>1, <1>2

LEMMA Subsets ==
    ASSUME NEW S, IsFiniteSet(S), NEW T \in SUBSET SUBSET S, {} \in T,
           \A s \in SUBSET S : s # {} /\ (\A x \in s : s \ {x} \in T) => s \in T
    PROVE  T = SUBSET S
<1> DEFINE N == {n \in Nat : \A s \in SUBSET S : Cardinality(s) = n => s \in T}
<1>1. \A s \in SUBSET S : IsFiniteSet(s) /\ Cardinality(s) \in Nat
    BY FS_Subset, FS_CardinalityType
<1>2. 0 \in N
    BY <1>1, FS_EmptySet
<1>3. ASSUME NEW n \in N
      PROVE  n + 1 \in N
    <2> SUFFICES ASSUME NEW s \in SUBSET S, Cardinality(s) = n + 1
                 PROVE  s \in T
        OBVIOUS
    <2>1. s # {}
        BY <1>1, FS_EmptySet
    <2>2. ASSUME NEW x \in s
          PROVE  s \ {x} \in T
        <3>1. Cardinality(s \ {x}) = n
            BY <1>1, FS_RemoveElement
        <3> QED BY <3>1
    <2> QED BY <2>1, <2>2
<1> HIDE DEF N
<1>4. N = Nat
    <2>1. N \in SUBSET Nat
        BY DEF N
    <2> QED BY <1>2, <1>3, <2>1, Numbers
<1> QED BY <1>1, <1>4 DEF N

-----------------------------------------------------------------------------
(* A sum over a finite set adds one of it to the sum of the rest; it is no *)
(* matter which.                                                           *)
Picked(s) == CHOOSE x \in s : TRUE
Adds(g, f, s) == g[s] = IF s = {} THEN 0 ELSE f[Picked(s)] + g[s \ {Picked(s)}]
Recurs(g, f, S) == g = [s \in SUBSET S |-> IF s = {} THEN 0 ELSE f[Picked(s)] + g[s \ {Picked(s)}]]
Naturally(f, S) == \A x \in S : f[x] \in Nat

LEMMA PickedIn == \A s : s # {} => Picked(s) \in s
BY DEF Picked

LEMMA Adder ==
    ASSUME NEW f, NEW S, IsFiniteSet(S), Naturally(f, S)
    PROVE  \E g : /\ g \in [SUBSET S -> Nat] /\ \A s \in SUBSET S : Adds(g, f, s)
                  /\ Recurs(g, f, S)
<1> DEFINE N == {n \in Nat : \E g \in [SUBSET S -> Nat] :
                                \A s \in SUBSET S : Cardinality(s) <= n => Adds(g, f, s)}
<1>1. \A s \in SUBSET S : IsFiniteSet(s) /\ Cardinality(s) \in Nat
    BY FS_Subset, FS_CardinalityType
<1>2. 0 \in N
    <2>1. PICK g \in [SUBSET S -> Nat] : g = [s \in SUBSET S |-> 0]
        OBVIOUS
    <2>2. ASSUME NEW s \in SUBSET S, Cardinality(s) <= 0
          PROVE  Adds(g, f, s)
        <3>1. s = {}
            BY <1>1, <2>2, FS_EmptySet
        <3> QED BY <2>1, <3>1 DEF Adds
    <2> QED BY <2>2
<1>3. ASSUME NEW n \in N
      PROVE  n + 1 \in N
    <2>1. PICK g \in [SUBSET S -> Nat] : \A s \in SUBSET S : Cardinality(s) <= n => Adds(g, f, s)
        OBVIOUS
    <2> DEFINE h0 == [s \in SUBSET S |-> IF s = {} THEN 0 ELSE f[Picked(s)] + g[s \ {Picked(s)}]]
    <2>2. \A s \in SUBSET S : s # {} => f[Picked(s)] \in Nat /\ s \ {Picked(s)} \in SUBSET S
        BY PickedIn DEF Naturally
    <2>3. h0 \in [SUBSET S -> Nat]
        BY <2>2
    <2>4. PICK h \in [SUBSET S -> Nat] : h = h0
        BY <2>3
    <2>5. \A s \in SUBSET S : h[s] = IF s = {} THEN 0 ELSE f[Picked(s)] + g[s \ {Picked(s)}]
        BY <2>4
    <2>6. ASSUME NEW s \in SUBSET S, Cardinality(s) <= n + 1
          PROVE  Adds(h, f, s)
        <3>1. CASE s = {}
            BY <2>5, <3>1 DEF Adds
        <3>2. CASE s # {}
            <4> DEFINE r == s \ {Picked(s)}
            <4>1. Cardinality(r) <= n /\ r \in SUBSET S
                BY <1>1, <2>6, <3>2, PickedIn, FS_RemoveElement
            <4>2. h[r] = g[r]
                BY <2>1, <2>5, <4>1 DEF Adds
            <4> QED BY <2>5, <3>2, <4>2 DEF Adds
        <3> QED BY <3>1, <3>2
    <2> QED BY <2>6
<1>4. Cardinality(S) \in N
    <2> HIDE DEF N
    <2>1. N \in SUBSET Nat
        BY DEF N
    <2> QED BY <1>1, <1>2, <1>3, <2>1, Numbers
<1>5. PICK g \in [SUBSET S -> Nat] : \A s \in SUBSET S : Cardinality(s) <= Cardinality(S) => Adds(g, f, s)
    BY <1>4
<1>6. \A s \in SUBSET S : Adds(g, f, s)
    BY <1>5, FS_Subset
<1>7. Recurs(g, f, S)
    BY <1>6 DEF Adds, Recurs
<1> QED BY <1>6, <1>7

LEMMA Added ==
    ASSUME NEW f, NEW S, IsFiniteSet(S), Naturally(f, S)
    PROVE  \E g : /\ \A s \in SUBSET S : Adds(g, f, s)
                  /\ SumFunctionOnSet(f, S) = g[S]
<1> DEFINE G == CHOOSE g : Recurs(g, f, S)
<1>1. Recurs(G, f, S)
    BY Adder
<1>2. SumFunctionOnSet(f, S) = G[S]
    BY DEF SumFunctionOnSet, FoldFunctionOnSet, MapThenFoldSet, Recurs, Picked
<1> HIDE DEF G
<1>3. \A s \in SUBSET S : Adds(G, f, s)
    BY <1>1 DEF Adds, Recurs
<1> QED BY <1>2, <1>3

LEMMA SameSums ==
    ASSUME NEW f, NEW S, IsFiniteSet(S), NEW g, NEW h,
           \A s \in SUBSET S : Adds(g, f, s) /\ Adds(h, f, s)
    PROVE  g[S] = h[S]
<1> DEFINE T == {s \in SUBSET S : g[s] = h[s]}
<1>1. {} \in T
    BY DEF Adds
<1>2. ASSUME NEW s \in SUBSET S, s # {}, \A x \in s : s \ {x} \in T
      PROVE  s \in T
    BY <1>2, PickedIn DEF Adds
<1> HIDE DEF T
<1>3. T = SUBSET S
    <2>1. T \in SUBSET SUBSET S
        BY DEF T
    <2> QED BY <1>1, <1>2, <2>1, Subsets
<1> QED BY <1>3 DEF T

Sum(f, S) == SumFunctionOnSet(f, S)

LEMMA SumPicked ==
    ASSUME NEW f, NEW S, IsFiniteSet(S), Naturally(f, S)
    PROVE  /\ S = {} => Sum(f, S) = 0
           /\ S # {} => Sum(f, S) = f[Picked(S)] + Sum(f, S \ {Picked(S)})
<1>1. PICK g : (\A s \in SUBSET S : Adds(g, f, s)) /\ SumFunctionOnSet(f, S) = g[S]
    BY Added
<1>2. CASE S = {}
    BY <1>1, <1>2 DEF Adds, Sum
<1>3. CASE S # {}
    <2> DEFINE R == S \ {Picked(S)}
    <2>1. IsFiniteSet(R) /\ Naturally(f, R) /\ R \in SUBSET S
        BY FS_Subset DEF Naturally
    <2> HIDE DEF R
    <2>2. PICK h : (\A s \in SUBSET R : Adds(h, f, s)) /\ SumFunctionOnSet(f, R) = h[R]
        BY <2>1, Added
    <2>3. \A s \in SUBSET R : Adds(g, f, s)
        BY <1>1, <2>1
    <2>4. g[R] = h[R]
        BY <2>1, <2>2, <2>3, SameSums
    <2>5. g[S] = f[Picked(S)] + g[R]
        BY <1>1, <1>3 DEF Adds, R
    <2> QED BY <1>1, <2>2, <2>4, <2>5, <1>3 DEF Sum, R
<1> QED BY <1>2, <1>3

LEMMA SumNat ==
    ASSUME NEW f, NEW S, IsFiniteSet(S), Naturally(f, S)
    PROVE  Sum(f, S) \in Nat
<1> DEFINE T == {s \in SUBSET S : Sum(f, s) \in Nat}
<1>1. \A s \in SUBSET S : IsFiniteSet(s) /\ Naturally(f, s)
    BY FS_Subset DEF Naturally
<1>2. {} \in T
    <2>1. Sum(f, {}) = 0
        BY <1>1, SumPicked
    <2> QED BY <2>1
<1>3. ASSUME NEW s \in SUBSET S, s # {}, \A x \in s : s \ {x} \in T
      PROVE  s \in T
    <2>1. Picked(s) \in s /\ f[Picked(s)] \in Nat
        BY <1>1, <1>3, PickedIn DEF Naturally
    <2>2. Sum(f, s) = f[Picked(s)] + Sum(f, s \ {Picked(s)})
        BY <1>1, <1>3, SumPicked
    <2> QED BY <1>3, <2>1, <2>2
<1> HIDE DEF T
<1>4. T = SUBSET S
    <2>1. T \in SUBSET SUBSET S
        BY DEF T
    <2> QED BY <1>2, <1>3, <2>1, Subsets
<1> QED BY <1>4 DEF T

LEMMA SumAny ==
    ASSUME NEW f, NEW S, IsFiniteSet(S), Naturally(f, S), NEW x \in S
    PROVE  Sum(f, S) = f[x] + Sum(f, S \ {x})
<1> DEFINE T == {s \in SUBSET S : \A y \in s : Sum(f, s) = f[y] + Sum(f, s \ {y})}
<1>1. \A s \in SUBSET S : IsFiniteSet(s) /\ Naturally(f, s) /\ Sum(f, s) \in Nat
    BY FS_Subset, SumNat DEF Naturally
<1>2. ASSUME NEW s \in SUBSET S, s # {}, \A y \in s : s \ {y} \in T
      PROVE  s \in T
    <2> DEFINE p == Picked(s)
    <2>1. p \in s /\ Sum(f, s) = f[p] + Sum(f, s \ {p})
        BY <1>1, <1>2, PickedIn, SumPicked
    <2> HIDE DEF p
    <2>2. ASSUME NEW y \in s, y # p
          PROVE  Sum(f, s) = f[y] + Sum(f, s \ {y})
        <3>1. Sum(f, s \ {p}) = f[y] + Sum(f, (s \ {p}) \ {y})
            BY <1>2, <2>1, <2>2
        <3>2. Sum(f, s \ {y}) = f[p] + Sum(f, (s \ {y}) \ {p})
            BY <1>2, <2>1, <2>2
        <3> DEFINE rest == Sum(f, (s \ {p}) \ {y})
        <3>3. (s \ {p}) \ {y} = (s \ {y}) \ {p}
            OBVIOUS
        <3>4. rest \in Nat /\ f[y] \in Nat /\ f[p] \in Nat
            BY <1>1, <2>1 DEF Naturally
        <3>5. Sum(f, (s \ {y}) \ {p}) = rest
            BY <3>3
        <3> HIDE DEF rest
        <3>6. Sum(f, s) = f[p] + (f[y] + rest) /\ Sum(f, s \ {y}) = f[p] + rest
            BY <2>1, <3>1, <3>2, <3>5 DEF rest
        <3> QED BY <3>4, <3>6
    <2> QED BY <2>1, <2>2
<1>3. {} \in T
    OBVIOUS
<1> HIDE DEF T
<1>4. T = SUBSET S
    <2>1. T \in SUBSET SUBSET S
        BY DEF T
    <2> QED BY <1>2, <1>3, <2>1, Subsets
<1> QED BY <1>4 DEF T

LEMMA SumWith ==
    ASSUME NEW f, NEW S, IsFiniteSet(S), NEW x, Naturally(f, S \cup {x}), x \notin S
    PROVE  Sum(f, S \cup {x}) = f[x] + Sum(f, S)
<1>1. IsFiniteSet(S \cup {x}) /\ (S \cup {x}) \ {x} = S
    BY FS_AddElement
<1> QED BY <1>1, SumAny

LEMMA SumOfNone == \A f : Sum(f, {}) = 0
BY SumPicked, FS_EmptySet DEF Naturally

LEMMA SumOfOne ==
    ASSUME NEW f, NEW x, f[x] \in Nat
    PROVE  Sum(f, {x}) = f[x]
<1>1. Sum(f, {} \cup {x}) = f[x] + Sum(f, {})
    BY SumWith, FS_EmptySet DEF Naturally
<1> QED BY <1>1, SumOfNone

LEMMA SumAlike ==
    ASSUME NEW f, NEW g, NEW S, IsFiniteSet(S), Naturally(f, S), \A x \in S : f[x] = g[x]
    PROVE  Sum(f, S) = Sum(g, S)
<1> DEFINE T == {s \in SUBSET S : Sum(f, s) = Sum(g, s)}
<1>1. \A s \in SUBSET S : IsFiniteSet(s) /\ Naturally(f, s) /\ Naturally(g, s)
    BY FS_Subset DEF Naturally
<1>2. ASSUME NEW s \in SUBSET S, s # {}, \A y \in s : s \ {y} \in T
      PROVE  s \in T
    <2>1. PICK x \in s : TRUE
        BY <1>2
    <2>2. Sum(f, s) = f[x] + Sum(f, s \ {x}) /\ Sum(g, s) = g[x] + Sum(g, s \ {x})
        BY <1>1, SumAny
    <2> QED BY <1>2, <2>2
<1>3. {} \in T
    BY SumOfNone
<1> HIDE DEF T
<1>4. T = SUBSET S
    <2>1. T \in SUBSET SUBSET S
        BY DEF T
    <2> QED BY <1>2, <1>3, <2>1, Subsets
<1> QED BY <1>4 DEF T

LEMMA SumParts ==
    ASSUME NEW f, NEW S, IsFiniteSet(S), NEW D \in SUBSET S, Naturally(f, S)
    PROVE  Sum(f, S) = Sum(f, D) + Sum(f, S \ D)
<1> DEFINE T == {s \in SUBSET D : Sum(f, (S \ D) \cup s) = Sum(f, s) + Sum(f, S \ D)}
<1>1. \A s \in SUBSET S : IsFiniteSet(s) /\ Naturally(f, s) /\ Sum(f, s) \in Nat
    BY FS_Subset, SumNat DEF Naturally
<1>2. ASSUME NEW s \in SUBSET D, s # {}, \A y \in s : s \ {y} \in T
      PROVE  s \in T
    <2>1. PICK x \in s : TRUE
        BY <1>2
    <2> DEFINE u == (S \ D) \cup s
    <2>2. u \in SUBSET S /\ x \in u /\ u \ {x} = (S \ D) \cup (s \ {x}) /\ s \in SUBSET S
        OBVIOUS
    <2> HIDE DEF u
    <2>3. Sum(f, s) = f[x] + Sum(f, s \ {x}) /\ Sum(f, u) = f[x] + Sum(f, u \ {x})
        BY <1>1, <2>2, SumAny
    <2>4. Sum(f, u \ {x}) = Sum(f, s \ {x}) + Sum(f, S \ D)
        BY <1>2, <2>2
    <2>5. f[x] \in Nat /\ Sum(f, s \ {x}) \in Nat /\ Sum(f, S \ D) \in Nat
        BY <1>1 DEF Naturally
    <2> QED BY <2>3, <2>4, <2>5 DEF u
<1>3. {} \in T
    <2>1. Sum(f, {}) = 0 /\ Sum(f, S \ D) \in Nat /\ (S \ D) \cup {} = S \ D
        BY <1>1, SumOfNone
    <2> QED BY <2>1
<1> HIDE DEF T
<1>4. T = SUBSET D
    <2>1. T \in SUBSET SUBSET D
        BY DEF T
    <2> QED BY <1>1, <1>2, <1>3, <2>1, Subsets
<1>5. (S \ D) \cup D = S
    OBVIOUS
<1> QED BY <1>4, <1>5 DEF T

LEMMA SumOfAlike ==
    ASSUME NEW f, NEW S, IsFiniteSet(S), NEW n \in Nat, \A x \in S : f[x] = n
    PROVE  Sum(f, S) = n * Cardinality(S)
<1> DEFINE T == {s \in SUBSET S : Sum(f, s) = n * Cardinality(s)}
<1>1. \A s \in SUBSET S : IsFiniteSet(s) /\ Naturally(f, s) /\ Cardinality(s) \in Nat
    BY FS_Subset, FS_CardinalityType DEF Naturally
<1>2. ASSUME NEW s \in SUBSET S, s # {}, \A y \in s : s \ {y} \in T
      PROVE  s \in T
    <2>1. PICK x \in s : TRUE
        BY <1>2
    <2>2. Sum(f, s) = n + Sum(f, s \ {x})
        BY <1>1, SumAny
    <2>3. Cardinality(s \ {x}) = Cardinality(s) - 1 /\ s \ {x} \in SUBSET S
        BY <1>1, FS_RemoveElement
    <2> DEFINE m == Cardinality(s \ {x})
    <2>4. Sum(f, s \ {x}) = n * m /\ m \in Nat /\ Cardinality(s) = m + 1
        BY <1>1, <1>2, <2>3
    <2> HIDE DEF m
    <2>5. n * (m + 1) = n + n * m
        BY <2>4
    <2> QED BY <2>2, <2>4, <2>5
<1>3. {} \in T
    <2>1. Sum(f, {}) = 0 /\ Cardinality({}) = 0 /\ n * 0 = 0
        BY SumOfNone, FS_EmptySet
    <2> QED BY <2>1
<1> HIDE DEF T
<1>4. T = SUBSET S
    <2>1. T \in SUBSET SUBSET S
        BY DEF T
    <2> QED BY <1>2, <1>3, <2>1, Subsets
<1> QED BY <1>4 DEF T

(* Two things.                                                             *)
LEMMA SumOfTwo ==
    ASSUME NEW f, NEW x, NEW y, x # y, f[x] \in Nat, f[y] \in Nat, NEW S, S = {x, y}
    PROVE  Sum(f, S) = f[x] + f[y]
<1> DEFINE R == {x}
<1>1. S = R \cup {y}
    OBVIOUS
<1>2. IsFiniteSet(R) /\ y \notin R /\ Naturally(f, R \cup {y})
    BY FS_Singleton DEF Naturally
<1>3. Sum(f, R) = f[x]
    BY SumOfOne
<1> HIDE DEF R
<1>4. Sum(f, S) = f[y] + Sum(f, R)
    BY <1>1, <1>2, SumWith
<1> QED BY <1>3, <1>4

(* Some of what is added made something else.                              *)
LEMMA SumOnto ==
    ASSUME NEW f, NEW g, NEW h, NEW S, IsFiniteSet(S), NEW D \in SUBSET S,
           Naturally(f, S), Naturally(h, D),
           \A x \in S : g[x] = IF x \in D THEN h[x] ELSE f[x]
    PROVE  /\ Sum(g, S) + Sum(f, D) = Sum(f, S) + Sum(h, D)
           /\ Sum(g, S) \in Nat /\ Sum(f, D) \in Nat /\ Sum(f, S) \in Nat /\ Sum(h, D) \in Nat
<1>1. /\ IsFiniteSet(D) /\ IsFiniteSet(S \ D) /\ Naturally(f, D) /\ Naturally(f, S \ D)
      /\ Naturally(g, S) /\ Naturally(g, D) /\ Naturally(g, S \ D)
    BY FS_Subset DEF Naturally
<1>2. /\ Sum(g, S) \in Nat /\ Sum(f, D) \in Nat /\ Sum(f, S) \in Nat /\ Sum(h, D) \in Nat
      /\ Sum(f, S \ D) \in Nat
    BY <1>1, SumNat
<1>3. Sum(f, S) = Sum(f, D) + Sum(f, S \ D) /\ Sum(g, S) = Sum(g, D) + Sum(g, S \ D)
    BY <1>1, SumParts
<1>4. Sum(h, D) = Sum(g, D)
    <2>1. \A x \in D : h[x] = g[x]
        OBVIOUS
    <2> QED BY <1>1, <2>1, SumAlike
<1>5. Sum(f, S \ D) = Sum(g, S \ D)
    <2>1. \A x \in S \ D : f[x] = g[x]
        OBVIOUS
    <2> QED BY <1>1, <2>1, SumAlike
<1> QED BY <1>2, <1>3, <1>4, <1>5

-----------------------------------------------------------------------------
(* The invariant.  Each save about to be sent has, with its fee, as much   *)
(* as the records it is written over; and what no one bid for has no bid.  *)
InBags(L, D) == Sum(Golds(L), D)
InMail(L, D) == Sum(Moneys(L), D)
InLots(L, D) == Sum(Stakes(L), D)
Held(L, tx)  == InBags(L, DOMAIN tx.rows) + InMail(L, DOMAIN tx.mail) + InLots(L, DOMAIN tx.lot)
Balanced(L, tx) == Held(L, tx) = Held(tx, tx) + tx.fee
NoBid(L) == \A l \in DOMAIN L.lot :
                L.lot[l] # None /\ L.lot[l].bidder = None => L.lot[l].bid = 0
CoinsInv == /\ Coins(disk) = Gold * Cardinality(Players) /\ NoBid(disk)
            /\ \A t \in Threads : Balanced(disk, pend[t]) /\ NoBid(pend[t])

-----------------------------------------------------------------------------
(* What a ledger and a save have is numbers, of finite sets.               *)
LEMMA AllFinite == IsFiniteSet(Players) /\ IsFiniteSet(MailIds) /\ IsFiniteSet(LotIds)
BY PlayersAssumption, MarketAssumption, FS_Interval DEF MailIds, LotIds

Kept(L) == /\ DOMAIN L.rows \subseteq Players /\ DOMAIN L.mail \subseteq MailIds
           /\ DOMAIN L.lot \subseteq LotIds
           /\ \A p \in DOMAIN L.rows : L.rows[p] \in Rows
           /\ \A id \in DOMAIN L.mail : L.mail[id] \in Mails \cup {None}
           /\ \A l \in DOMAIN L.lot : L.lot[l] \in Lots \cup {None}

LEMMA LedgerKept == \A L \in Ledger : /\ Kept(L) /\ L.spent \in Nat
                                      /\ DOMAIN L.rows = Players /\ DOMAIN L.mail = MailIds
                                      /\ DOMAIN L.lot = LotIds
BY DEF Ledger, Kept

LEMMA SaveKept == \A tx : SaveOK(tx) => Kept(tx) /\ tx.fee \in Nat
BY DEF SaveOK, Kept

LEMMA Counted ==
    ASSUME NEW L, Kept(L)
    PROVE  /\ IsFiniteSet(DOMAIN L.rows) /\ Naturally(Golds(L), DOMAIN L.rows)
           /\ IsFiniteSet(DOMAIN L.mail) /\ Naturally(Moneys(L), DOMAIN L.mail)
           /\ IsFiniteSet(DOMAIN L.lot) /\ Naturally(Stakes(L), DOMAIN L.lot)
<1>1. IsFiniteSet(DOMAIN L.rows) /\ IsFiniteSet(DOMAIN L.mail) /\ IsFiniteSet(DOMAIN L.lot)
    BY AllFinite, FS_Subset DEF Kept
<1>2. Naturally(Golds(L), DOMAIN L.rows)
    BY MarketAssumption DEF Kept, Golds, Naturally, Rows
<1>3. Naturally(Moneys(L), DOMAIN L.mail)
    BY DEF Kept, Moneys, Naturally, Mails
<1>4. Naturally(Stakes(L), DOMAIN L.lot)
    <2>1. ASSUME NEW l \in DOMAIN L.lot PROVE Stakes(L)[l] \in Nat
        <3>1. Stakes(L)[l] = IF L.lot[l] = None THEN 0 ELSE L.lot[l].bid + Deposit
            BY DEF Stakes
        <3>2. L.lot[l] # None => L.lot[l].bid \in Nat
            BY DEF Kept, Lots
        <3> QED BY <3>1, <3>2, MarketAssumption
    <2> QED BY <2>1 DEF Naturally
<1> QED BY <1>1, <1>2, <1>3, <1>4

LEMMA CoinsAre ==
    ASSUME NEW L
    PROVE  Coins(L) = InBags(L, DOMAIN L.rows) + InMail(L, DOMAIN L.mail) + InLots(L, DOMAIN L.lot)
                      + L.spent
<1>1. DOMAIN Golds(L) = DOMAIN L.rows /\ DOMAIN Moneys(L) = DOMAIN L.mail /\ DOMAIN Stakes(L) = DOMAIN L.lot
    BY DEF Golds, Moneys, Stakes
<1>2. \A f : SumFunction(f) = Sum(f, DOMAIN f)
    BY DEF SumFunction, Sum
<1> QED BY <1>1, <1>2 DEF Coins, InBags, InMail, InLots

(* What two ledgers have in common, and what a save leaves.                *)
LEMMA HeldAlike ==
    ASSUME NEW L, NEW M, NEW tx, Kept(L), Kept(M),
           DOMAIN tx.rows \subseteq DOMAIN L.rows, DOMAIN tx.mail \subseteq DOMAIN L.mail,
           DOMAIN tx.lot \subseteq DOMAIN L.lot,
           DOMAIN tx.rows \subseteq DOMAIN M.rows, DOMAIN tx.mail \subseteq DOMAIN M.mail,
           DOMAIN tx.lot \subseteq DOMAIN M.lot,
           \A p \in DOMAIN tx.rows : L.rows[p] = M.rows[p],
           \A id \in DOMAIN tx.mail : L.mail[id] = M.mail[id],
           \A l \in DOMAIN tx.lot : L.lot[l] = M.lot[l]
    PROVE  Held(L, tx) = Held(M, tx)
<1>1. InBags(L, DOMAIN tx.rows) = InBags(M, DOMAIN tx.rows)
    <2>1. IsFiniteSet(DOMAIN tx.rows) /\ Naturally(Golds(L), DOMAIN tx.rows)
        BY Counted, FS_Subset DEF Naturally
    <2>2. \A p \in DOMAIN tx.rows : Golds(L)[p] = Golds(M)[p]
        BY DEF Golds
    <2> QED BY <2>1, <2>2, SumAlike DEF InBags
<1>2. InMail(L, DOMAIN tx.mail) = InMail(M, DOMAIN tx.mail)
    <2>1. IsFiniteSet(DOMAIN tx.mail) /\ Naturally(Moneys(L), DOMAIN tx.mail)
        BY Counted, FS_Subset DEF Naturally
    <2>2. \A id \in DOMAIN tx.mail : Moneys(L)[id] = Moneys(M)[id]
        BY DEF Moneys
    <2> QED BY <2>1, <2>2, SumAlike DEF InMail
<1>3. InLots(L, DOMAIN tx.lot) = InLots(M, DOMAIN tx.lot)
    <2>1. IsFiniteSet(DOMAIN tx.lot) /\ Naturally(Stakes(L), DOMAIN tx.lot)
        BY Counted, FS_Subset DEF Naturally
    <2>2. \A l \in DOMAIN tx.lot : Stakes(L)[l] = Stakes(M)[l]
        BY DEF Stakes
    <2> QED BY <2>1, <2>2, SumAlike DEF InLots
<1> QED BY <1>1, <1>2, <1>3 DEF Held

LEMMA AppliedCoins ==
    ASSUME NEW L \in Ledger, NEW tx, SaveOK(tx)
    PROVE  /\ Coins(Apply(L, tx)) + Held(L, tx) = Coins(L) + (Held(tx, tx) + tx.fee)
           /\ Coins(Apply(L, tx)) \in Nat /\ Held(L, tx) \in Nat /\ Coins(L) \in Nat
           /\ Held(tx, tx) + tx.fee \in Nat
<1> DEFINE A == Apply(L, tx)
<1>1. /\ A \in Ledger /\ A.spent = L.spent + tx.fee
      /\ \A p \in Players : A.rows[p] = IF p \in DOMAIN tx.rows THEN tx.rows[p] ELSE L.rows[p]
      /\ \A id \in MailIds : A.mail[id] = IF id \in DOMAIN tx.mail THEN tx.mail[id] ELSE L.mail[id]
      /\ \A l \in LotIds : A.lot[l] = IF l \in DOMAIN tx.lot THEN tx.lot[l] ELSE L.lot[l]
    BY Applied
<1> HIDE DEF A
<1>2. /\ Kept(A) /\ Kept(L) /\ Kept(tx) /\ L.spent \in Nat /\ tx.fee \in Nat
      /\ DOMAIN A.rows = Players /\ DOMAIN A.mail = MailIds /\ DOMAIN A.lot = LotIds
      /\ DOMAIN L.rows = Players /\ DOMAIN L.mail = MailIds /\ DOMAIN L.lot = LotIds
      /\ DOMAIN tx.rows \subseteq Players /\ DOMAIN tx.mail \subseteq MailIds
      /\ DOMAIN tx.lot \subseteq LotIds
    BY <1>1, LedgerKept, SaveKept DEF Kept
<1>3. /\ IsFiniteSet(Players) /\ Naturally(Golds(L), Players) /\ Naturally(Golds(tx), DOMAIN tx.rows)
      /\ IsFiniteSet(MailIds) /\ Naturally(Moneys(L), MailIds) /\ Naturally(Moneys(tx), DOMAIN tx.mail)
      /\ IsFiniteSet(LotIds) /\ Naturally(Stakes(L), LotIds) /\ Naturally(Stakes(tx), DOMAIN tx.lot)
    BY <1>2, Counted
<1>4. /\ InBags(A, Players) + InBags(L, DOMAIN tx.rows) = InBags(L, Players) + InBags(tx, DOMAIN tx.rows)
      /\ InBags(A, Players) \in Nat /\ InBags(L, DOMAIN tx.rows) \in Nat
      /\ InBags(L, Players) \in Nat /\ InBags(tx, DOMAIN tx.rows) \in Nat
    <2>1. \A p \in Players : Golds(A)[p] = IF p \in DOMAIN tx.rows THEN Golds(tx)[p] ELSE Golds(L)[p]
        BY <1>1, <1>2 DEF Golds
    <2> DEFINE f == Golds(L)
               g == Golds(A)
               h == Golds(tx)
               D == DOMAIN tx.rows
    <2>2. /\ IsFiniteSet(Players) /\ D \in SUBSET Players /\ Naturally(f, Players) /\ Naturally(h, D)
          /\ \A p \in Players : g[p] = IF p \in D THEN h[p] ELSE f[p]
        BY <1>2, <1>3, <2>1
    <2> HIDE DEF f, g, h, D
    <2>3. /\ Sum(g, Players) + Sum(f, D) = Sum(f, Players) + Sum(h, D)
          /\ Sum(g, Players) \in Nat /\ Sum(f, D) \in Nat
          /\ Sum(f, Players) \in Nat /\ Sum(h, D) \in Nat
        BY <2>2, SumOnto
    <2> QED BY <2>3 DEF InBags, f, g, h, D
<1>5. /\ InMail(A, MailIds) + InMail(L, DOMAIN tx.mail) = InMail(L, MailIds) + InMail(tx, DOMAIN tx.mail)
      /\ InMail(A, MailIds) \in Nat /\ InMail(L, DOMAIN tx.mail) \in Nat
      /\ InMail(L, MailIds) \in Nat /\ InMail(tx, DOMAIN tx.mail) \in Nat
    <2>1. \A id \in MailIds : Moneys(A)[id] = IF id \in DOMAIN tx.mail THEN Moneys(tx)[id] ELSE Moneys(L)[id]
        BY <1>1, <1>2 DEF Moneys
    <2> QED BY <1>2, <1>3, <2>1, SumOnto DEF InMail
<1>6. /\ InLots(A, LotIds) + InLots(L, DOMAIN tx.lot) = InLots(L, LotIds) + InLots(tx, DOMAIN tx.lot)
      /\ InLots(A, LotIds) \in Nat /\ InLots(L, DOMAIN tx.lot) \in Nat
      /\ InLots(L, LotIds) \in Nat /\ InLots(tx, DOMAIN tx.lot) \in Nat
    <2>1. \A l \in LotIds : Stakes(A)[l] = IF l \in DOMAIN tx.lot THEN Stakes(tx)[l] ELSE Stakes(L)[l]
        BY <1>1, <1>2 DEF Stakes
    <2> QED BY <1>2, <1>3, <2>1, SumOnto DEF InLots
<1>7. /\ Coins(A) = InBags(A, Players) + InMail(A, MailIds) + InLots(A, LotIds) + (L.spent + tx.fee)
      /\ Coins(L) = InBags(L, Players) + InMail(L, MailIds) + InLots(L, LotIds) + L.spent
    BY <1>1, <1>2, CoinsAre
<1>8. /\ Held(L, tx) = InBags(L, DOMAIN tx.rows) + InMail(L, DOMAIN tx.mail) + InLots(L, DOMAIN tx.lot)
      /\ Held(tx, tx) = InBags(tx, DOMAIN tx.rows) + InMail(tx, DOMAIN tx.mail) + InLots(tx, DOMAIN tx.lot)
    BY DEF Held
<1>9. /\ Coins(A) \in Nat /\ Coins(L) \in Nat /\ Held(L, tx) \in Nat /\ Held(tx, tx) + tx.fee \in Nat
    BY <1>2, <1>4, <1>5, <1>6, <1>7, <1>8
<1>10. Coins(A) + Held(L, tx) = Coins(L) + (Held(tx, tx) + tx.fee)
    BY <1>2, <1>4, <1>5, <1>6, <1>7, <1>8
<1> QED BY <1>9, <1>10 DEF A

-----------------------------------------------------------------------------
(* A save of nothing, a save sent, and a change in memory.                 *)
LEMMA NothingMade == ASSUME NEW L PROVE Balanced(L, NoSave) /\ NoBid(NoSave)
BY NoneToSend, SumOfNone DEF Balanced, Held, InBags, InMail, InLots, NoBid

LEMMA SentCoins ==
    ASSUME IInv, CoinsInv, NEW t \in Threads, Sent(t)
    PROVE  CoinsInv'
<1> DEFINE tx == pend[t]
<1>1. /\ disk' = Apply(disk, tx) /\ disk \in Ledger /\ SaveOK(tx) /\ DOMAIN pend = Threads
      /\ pend'[t] = NoSave /\ \A u \in Threads \ {t} : pend'[u] = pend[u]
      /\ \A u \in Threads : SaveOK(pend[u])
    BY DEF Sent, IInv, TypeOK
<1>2. /\ disk' \in Ledger
      /\ \A p \in Players : disk'.rows[p] = IF p \in DOMAIN tx.rows THEN tx.rows[p] ELSE disk.rows[p]
      /\ \A id \in MailIds : disk'.mail[id] = IF id \in DOMAIN tx.mail THEN tx.mail[id] ELSE disk.mail[id]
      /\ \A l \in LotIds : disk'.lot[l] = IF l \in DOMAIN tx.lot THEN tx.lot[l] ELSE disk.lot[l]
    BY <1>1, Applied
<1>3. Coins(disk') = Coins(disk)
    <2>1. Held(disk, tx) = Held(tx, tx) + tx.fee
        BY DEF CoinsInv, Balanced
    <2>2. /\ Coins(disk') + Held(disk, tx) = Coins(disk) + (Held(tx, tx) + tx.fee)
          /\ Coins(disk') \in Nat /\ Held(disk, tx) \in Nat /\ Coins(disk) \in Nat
        BY <1>1, AppliedCoins
    <2> QED BY <2>1, <2>2
<1>4. NoBid(disk')
    <2>1. DOMAIN disk'.lot = LotIds /\ DOMAIN disk.lot = LotIds /\ NoBid(disk) /\ NoBid(tx)
        BY <1>1, <1>2, LedgerKept DEF CoinsInv
    <2> QED BY <1>2, <2>1 DEF NoBid
<1>5. ASSUME NEW u \in Threads
      PROVE  Balanced(disk', pend'[u]) /\ NoBid(pend'[u])
    <2>1. CASE u = t
        BY <1>1, <2>1, NothingMade
    <2>2. CASE u # t
        <3>1. /\ DOMAIN pend[u].rows \cap DOMAIN tx.rows = {}
              /\ DOMAIN pend[u].mail \cap DOMAIN tx.mail = {}
              /\ DOMAIN pend[u].lot \cap DOMAIN tx.lot = {}
            BY <2>2, OneSaves
        <3>2. /\ Kept(disk) /\ Kept(disk') /\ Kept(pend[u])
              /\ DOMAIN disk.rows = Players /\ DOMAIN disk.mail = MailIds /\ DOMAIN disk.lot = LotIds
              /\ DOMAIN disk'.rows = Players /\ DOMAIN disk'.mail = MailIds /\ DOMAIN disk'.lot = LotIds
            BY <1>1, <1>2, LedgerKept, SaveKept
        <3>3. /\ DOMAIN pend[u].rows \subseteq Players /\ DOMAIN pend[u].mail \subseteq MailIds
              /\ DOMAIN pend[u].lot \subseteq LotIds
            BY <3>2 DEF Kept
        <3>4. Held(disk, pend[u]) = Held(disk', pend[u])
            <4>1. \A p \in DOMAIN pend[u].rows : disk.rows[p] = disk'.rows[p]
                BY <1>2, <3>1, <3>3
            <4>2. \A id \in DOMAIN pend[u].mail : disk.mail[id] = disk'.mail[id]
                BY <1>2, <3>1, <3>3
            <4>3. \A l \in DOMAIN pend[u].lot : disk.lot[l] = disk'.lot[l]
                BY <1>2, <3>1, <3>3
            <4> QED BY <3>2, <3>3, <4>1, <4>2, <4>3, HeldAlike
        <3>5. Balanced(disk, pend[u]) /\ NoBid(pend[u])
            BY DEF CoinsInv
        <3> QED BY <1>1, <2>2, <3>4, <3>5 DEF Balanced
    <2> QED BY <2>1, <2>2
<1>6. Coins(disk)' = Coins(disk') /\ NoBid(disk)' = NoBid(disk')
    BY DEF Coins, NoBid, Golds, Moneys, Stakes
<1>7. \A u \in Threads : Balanced(disk, pend[u])' = Balanced(disk', pend'[u]) /\ NoBid(pend[u])' = NoBid(pend'[u])
    BY DEF Balanced, Held, InBags, InMail, InLots, Golds, Moneys, Stakes, NoBid
<1> QED BY <1>3, <1>4, <1>5, <1>6, <1>7 DEF CoinsInv

LEMMA ChangingCoins ==
    ASSUME IInv, CoinsInv, NEW t \in Threads, NEW tx, Changes(t, tx), disk' = disk,
           Balanced(disk, tx), NoBid(tx)
    PROVE  CoinsInv'
<1>1. \A u \in Threads : pend'[u] = IF u = t THEN tx ELSE pend[u]
    BY DEF Changes, Saving, IInv, TypeOK
<1> QED BY <1>1 DEF CoinsInv

-----------------------------------------------------------------------------
(* The sums a change needs: of one or two rows, a mail, an auction, and up *)
(* to three letters.                                                       *)
MoneyOf(m) == IF m = None THEN 0 ELSE m.money
StakeOf(a) == IF a = None THEN 0 ELSE a.bid + Deposit

LEMMA FewThings ==
    ASSUME NEW L, Kept(L)
    PROVE  \A D :
              /\ D = {} => InBags(L, D) = 0 /\ InMail(L, D) = 0 /\ InLots(L, D) = 0
              /\ \A p \in DOMAIN L.rows : D = {p} => InBags(L, D) = L.rows[p].gold
              /\ \A p, q \in DOMAIN L.rows :
                    D = {p, q} /\ p # q => InBags(L, D) = L.rows[p].gold + L.rows[q].gold
              /\ \A id \in DOMAIN L.mail : D = {id} => InMail(L, D) = MoneyOf(L.mail[id])
              /\ \A id, k \in DOMAIN L.mail :
                    D = {id, k} /\ id # k => InMail(L, D) = MoneyOf(L.mail[id]) + MoneyOf(L.mail[k])
              /\ \A l \in DOMAIN L.lot : D = {l} => InLots(L, D) = StakeOf(L.lot[l])
<1> SUFFICES ASSUME NEW D
             PROVE  /\ D = {} => InBags(L, D) = 0 /\ InMail(L, D) = 0 /\ InLots(L, D) = 0
                    /\ \A p \in DOMAIN L.rows : D = {p} => InBags(L, D) = L.rows[p].gold
                    /\ \A p, q \in DOMAIN L.rows :
                          D = {p, q} /\ p # q => InBags(L, D) = L.rows[p].gold + L.rows[q].gold
                    /\ \A id \in DOMAIN L.mail : D = {id} => InMail(L, D) = MoneyOf(L.mail[id])
                    /\ \A id, k \in DOMAIN L.mail :
                          D = {id, k} /\ id # k => InMail(L, D) = MoneyOf(L.mail[id]) + MoneyOf(L.mail[k])
                    /\ \A l \in DOMAIN L.lot : D = {l} => InLots(L, D) = StakeOf(L.lot[l])
    OBVIOUS
<1>1. D = {} => InBags(L, D) = 0 /\ InMail(L, D) = 0 /\ InLots(L, D) = 0
    BY SumOfNone DEF InBags, InMail, InLots
<1>2. \A p \in DOMAIN L.rows : Golds(L)[p] = L.rows[p].gold /\ Golds(L)[p] \in Nat
    BY Counted DEF Golds, Naturally
<1>3. \A id \in DOMAIN L.mail : Moneys(L)[id] = MoneyOf(L.mail[id]) /\ Moneys(L)[id] \in Nat
    BY Counted DEF Moneys, Naturally, MoneyOf
<1>4. \A l \in DOMAIN L.lot : Stakes(L)[l] = StakeOf(L.lot[l]) /\ Stakes(L)[l] \in Nat
    BY Counted DEF Stakes, Naturally, StakeOf
<1>5. \A p \in DOMAIN L.rows : D = {p} => InBags(L, D) = L.rows[p].gold
    BY <1>2, SumOfOne DEF InBags
<1>6. \A p, q \in DOMAIN L.rows :
          D = {p, q} /\ p # q => InBags(L, D) = L.rows[p].gold + L.rows[q].gold
    <2> SUFFICES ASSUME NEW p \in DOMAIN L.rows, NEW q \in DOMAIN L.rows, p # q, D = {p, q}
                 PROVE  InBags(L, D) = L.rows[p].gold + L.rows[q].gold
        OBVIOUS
    <2>1. Sum(Golds(L), D) = Golds(L)[p] + Golds(L)[q]
        BY <1>2, SumOfTwo
    <2> QED BY <1>2, <2>1 DEF InBags
<1>7. \A id \in DOMAIN L.mail : D = {id} => InMail(L, D) = MoneyOf(L.mail[id])
    BY <1>3, SumOfOne DEF InMail
<1>8. \A id, k \in DOMAIN L.mail :
          D = {id, k} /\ id # k => InMail(L, D) = MoneyOf(L.mail[id]) + MoneyOf(L.mail[k])
    <2> SUFFICES ASSUME NEW id \in DOMAIN L.mail, NEW k \in DOMAIN L.mail, id # k, D = {id, k}
                 PROVE  InMail(L, D) = MoneyOf(L.mail[id]) + MoneyOf(L.mail[k])
        OBVIOUS
    <2>1. Sum(Moneys(L), D) = Moneys(L)[id] + Moneys(L)[k]
        BY <1>3, SumOfTwo
    <2> QED BY <1>3, <2>1 DEF InMail
<1>9. \A l \in DOMAIN L.lot : D = {l} => InLots(L, D) = StakeOf(L.lot[l])
    BY <1>4, SumOfOne DEF InLots
<1> QED BY <1>1, <1>5, <1>6, <1>7, <1>8, <1>9

Worth(letters) ==
    (IF Len(letters) > 0 THEN letters[1].money ELSE 0)
    + (IF Len(letters) > 1 THEN letters[2].money ELSE 0)
    + (IF Len(letters) > 2 THEN letters[3].money ELSE 0)

LEMMA LettersWorth ==
    ASSUME NEW f, NEW n \in Nat, NEW letters \in Seq(Mails), Len(letters) <= 3,
           \A k \in 1..Len(letters) : f[n + k - 1] = letters[k].money
    PROVE  Sum(f, n..(n + Len(letters) - 1)) = Worth(letters)
<1> DEFINE c == Len(letters)
<1>1. c \in 0..3 /\ \A k \in 1..c : letters[k].money \in Nat
    <2>1. \A k \in 1..Len(letters) : letters[k] \in Mails
        OBVIOUS
    <2>2. \A m \in Mails : m.money \in Nat
        BY DEF Mails
    <2>3. c \in Nat /\ c <= 3
        OBVIOUS
    <2> HIDE DEF c
    <2>4. c \in 0..3
        BY <2>3
    <2> QED BY <2>1, <2>2, <2>4 DEF c
<1>2. CASE c = 0
    <2>1. n..(n + c - 1) = {}
        BY <1>2
    <2>2. Sum(f, n..(n + c - 1)) = 0
        BY <2>1, SumOfNone
    <2> QED BY <1>2, <2>2 DEF Worth
<1>3. CASE c = 1
    <2>1. n..(n + c - 1) = {n} /\ f[n] = letters[1].money /\ letters[1].money \in Nat
        <3>1. f[n + 1 - 1] = letters[1].money
            BY <1>3
        <3> QED BY <1>1, <1>3, <3>1
    <2>2. Sum(f, n..(n + c - 1)) = letters[1].money
        BY <2>1, SumOfOne
    <2> QED BY <1>3, <2>1, <2>2 DEF Worth
<1>4. CASE c = 2
    <2>1. /\ n..(n + c - 1) = {n, n + 1} /\ n # n + 1
          /\ f[n] = letters[1].money /\ f[n + 1] = letters[2].money
          /\ letters[1].money \in Nat /\ letters[2].money \in Nat
        <3>1. f[n + 1 - 1] = letters[1].money /\ f[n + 2 - 1] = letters[2].money
            BY <1>4
        <3> QED BY <1>1, <1>4, <3>1
    <2> DEFINE S == n..(n + c - 1)
               x == letters[1].money
               y == letters[2].money
    <2> HIDE DEF S, x, y
    <2>2. Sum(f, S) = x + y
        <3>1. S = {n, n + 1} /\ n # n + 1 /\ f[n] = x /\ f[n + 1] = y /\ x \in Nat /\ y \in Nat
            BY <2>1 DEF S, x, y
        <3> DEFINE n1 == n + 1
        <3>2. S = {n, n1} /\ n # n1 /\ f[n] = x /\ f[n1] = y /\ x \in Nat /\ y \in Nat
            BY <3>1
        <3> HIDE DEF n1
        <3> QED BY <3>2, SumOfTwo
    <2> USE DEF S, x, y
    <2> QED BY <1>4, <2>1, <2>2 DEF Worth
<1>5. CASE c = 3
    <2>1. /\ n..(n + c - 1) = {n, n + 1, n + 2} /\ n # n + 1 /\ n + 1 # n + 2 /\ n + 2 # n
          /\ f[n] = letters[1].money /\ f[n + 1] = letters[2].money /\ f[n + 2] = letters[3].money
          /\ letters[1].money \in Nat /\ letters[2].money \in Nat /\ letters[3].money \in Nat
        <3>1. /\ f[n + 1 - 1] = letters[1].money /\ f[n + 2 - 1] = letters[2].money
              /\ f[n + 3 - 1] = letters[3].money
            BY <1>5
        <3> QED BY <1>1, <1>5, <3>1
    <2> DEFINE S == n..(n + c - 1)
               x == letters[1].money
               y == letters[2].money
               z == letters[3].money
    <2> HIDE DEF S, x, y, z
    <2>2. Sum(f, S) = x + y + z
        <3> DEFINE n1 == n + 1
                   n2 == n + 2
                   R == n..(n + 1)
        <3>1. /\ R = {n, n1} /\ n # n1 /\ S = R \cup {n2} /\ n2 \notin R /\ IsFiniteSet(R)
              /\ f[n] = x /\ f[n1] = y /\ f[n2] = z /\ x \in Nat /\ y \in Nat /\ z \in Nat
            <4>1. f[n] = x /\ f[n1] = y /\ f[n2] = z /\ x \in Nat /\ y \in Nat /\ z \in Nat
                BY <2>1 DEF x, y, z
            <4>2. R = {n, n1} /\ n # n1 /\ n2 \notin R /\ S = R \cup {n2}
                <5>1. S = {n, n + 1, n + 2}
                    BY <2>1 DEF S
                <5>2. R = {n, n + 1} /\ n # n + 1 /\ n + 2 \notin R
                    OBVIOUS
                <5> QED BY <5>1, <5>2
            <4>3. IsFiniteSet(R)
                BY FS_Interval
            <4> QED BY <4>1, <4>2, <4>3
        <3> HIDE DEF n1, n2, R
        <3>2. Sum(f, R) = x + y
            BY <3>1, SumOfTwo
        <3>3. Naturally(f, R \cup {n2})
            BY <3>1 DEF Naturally
        <3>4. Sum(f, S) = f[n2] + Sum(f, R)
            BY <3>1, <3>3, SumWith
        <3> QED BY <3>1, <3>2, <3>4
    <2> USE DEF S, x, y, z
    <2> QED BY <1>5, <2>1, <2>2 DEF Worth
<1> QED BY <1>1, <1>2, <1>3, <1>4, <1>5

(* Letters are worth what they bring, and were nothing in the database.    *)
LEMMA NoneThere ==
    ASSUME IInv, NEW t \in Threads, pend[t] = NoSave, holder["mail"] = None,
           NEW id \in MailIds, id >= nextMail
    PROVE  disk.mail[id] = None
<1>1. nextMail \in Nat /\ disk.mail[id] = mem.mail[id]
    BY Current DEF IInv, TypeOK
<1> QED BY <1>1 DEF IInv, Fresh, MailIds

LEMMA PostedCoins ==
    ASSUME IInv, NEW t \in Threads, pend[t] = NoSave, holder["mail"] = None,
           NEW letters \in Seq(Mails), Len(letters) <= 3, RoomToPost(Len(letters)),
           NEW tx, tx.mail = Posting(letters)
    PROVE  /\ InMail(tx, DOMAIN tx.mail) = Worth(letters)
           /\ InMail(disk, DOMAIN tx.mail) = 0
<1> DEFINE c == Len(letters)
<1>1. nextMail \in Nat /\ c \in Nat /\ disk \in Ledger /\ TypeOK
    BY DEF IInv, TypeOK
<1>2. /\ DOMAIN tx.mail = nextMail..(nextMail + c - 1) /\ DOMAIN tx.mail \subseteq MailIds
      /\ \A id \in DOMAIN tx.mail : tx.mail[id] = letters[id - nextMail + 1] /\ nextMail <= id
    BY <1>1, Posted DEF Posting
<1>3. InMail(tx, DOMAIN tx.mail) = Worth(letters)
    <2>1. ASSUME NEW k \in 1..c PROVE Moneys(tx)[nextMail + k - 1] = letters[k].money
        <3> DEFINE id == nextMail + k - 1
        <3>1. id \in DOMAIN tx.mail /\ id - nextMail + 1 = k
            BY <1>1, <1>2
        <3>2. tx.mail[id] = letters[k] /\ letters[k] \in Mails /\ None \notin Mails
            BY <1>2, <3>1, MarketAssumption
        <3> HIDE DEF id
        <3>3. Moneys(tx)[id] = letters[k].money
            BY <3>1, <3>2 DEF Moneys
        <3> QED BY <3>3 DEF id
    <2>2. Sum(Moneys(tx), nextMail..(nextMail + c - 1)) = Worth(letters)
        BY <1>1, <2>1, LettersWorth
    <2> QED BY <1>2, <2>2 DEF InMail
<1>4. InMail(disk, DOMAIN tx.mail) = 0
    <2>1. \A id \in DOMAIN tx.mail : disk.mail[id] = None
        BY <1>2, NoneThere
    <2>2. DOMAIN disk.mail = MailIds
        BY <1>1 DEF Ledger
    <2>3. \A id \in DOMAIN tx.mail : Moneys(disk)[id] = 0
        BY <1>2, <2>1, <2>2 DEF Moneys
    <2>4. IsFiniteSet(DOMAIN tx.mail)
        BY <1>2, AllFinite, FS_Subset
    <2>5. Sum(Moneys(disk), DOMAIN tx.mail) = 0 * Cardinality(DOMAIN tx.mail)
        BY <2>3, <2>4, SumOfAlike
    <2>6. Cardinality(DOMAIN tx.mail) \in Nat
        BY <2>4, FS_CardinalityType
    <2> QED BY <2>5, <2>6 DEF InMail
<1> QED BY <1>3, <1>4

LEMMA WorthAre ==
    /\ Worth(<<>>) = 0
    /\ \A m \in Mails : Worth(<<m>>) = m.money
    /\ \A m, n \in Mails : Worth(<<m, n>>) = m.money + n.money
    /\ \A m, n, o \in Mails : Worth(<<m, n, o>>) = m.money + n.money + o.money
<1>1. \A m \in Mails : m.money \in Nat
    BY DEF Mails
<1> QED BY <1>1 DEF Worth

(* What each letter brings.                                                *)
LEMMA LettersBring ==
    /\ \A p, to, i, m, c : Letter(p, to, i, m, c).money = m
    /\ \A p, to, m : Payment(p, to, m).money = m
    /\ \A to, i, m : Notice(to, i, m).money = m
BY DEF Letter, Payment, Notice

LEMMA JoinedWorth ==
    ASSUME NEW u \in Seq(Mails), NEW v \in Seq(Mails), Len(u) <= 1, Len(v) <= 2
    PROVE  /\ u \o v \in Seq(Mails) /\ Len(u \o v) <= 3
           /\ Worth(u \o v) = Worth(u) + Worth(v) /\ Worth(u) \in Nat /\ Worth(v) \in Nat
<1> DEFINE w == u \o v
<1>1. /\ w \in Seq(Mails) /\ Len(w) = Len(u) + Len(v)
      /\ \A k \in 1..Len(u) : w[k] = u[k]
      /\ \A k \in 1..Len(v) : w[Len(u) + k] = v[k]
    BY Joined
<1>2. /\ Len(u) \in Nat /\ Len(v) \in Nat
      /\ \A k \in 1..Len(u) : u[k] \in Mails
      /\ \A k \in 1..Len(v) : v[k] \in Mails
    OBVIOUS
<1>3. \A m \in Mails : m.money \in Nat
    BY DEF Mails
<1> HIDE DEF w
<1> DEFINE a == Len(u)
           b == Len(v)
<1>4. a \in {0, 1} /\ b \in {0, 1, 2} /\ Len(w) = a + b
    <2>1. a \in Nat /\ b \in Nat /\ a <= 1 /\ b <= 2 /\ Len(w) = a + b
        BY <1>1, <1>2
    <2> HIDE DEF a, b
    <2> QED BY <2>1
<1>5. /\ a = 1 => w[1] = u[1] /\ u[1].money \in Nat
      /\ b > 0 => w[a + 1] = v[1] /\ v[1].money \in Nat
      /\ b > 1 => w[a + 2] = v[2] /\ v[2].money \in Nat
    BY <1>1, <1>2, <1>3, <1>4
<1>6. Len(u) = a /\ Len(v) = b
    OBVIOUS
<1> HIDE DEF a, b
<1>7. /\ Worth(u) = IF a = 1 THEN u[1].money ELSE 0
      /\ Worth(v) = (IF b > 0 THEN v[1].money ELSE 0) + (IF b > 1 THEN v[2].money ELSE 0)
    BY <1>4, <1>5, <1>6 DEF Worth
<1>8. Worth(w) = Worth(u) + Worth(v)
    <2>1. CASE a = 0
        <3>1. /\ Worth(u) = 0 /\ Len(w) = b
              /\ b > 0 => w[1] = v[1] /\ v[1].money \in Nat
              /\ b > 1 => w[2] = v[2] /\ v[2].money \in Nat
            BY <1>4, <1>5, <1>7, <2>1
        <3>2. CASE b = 0
            BY <1>7, <3>1, <3>2 DEF Worth
        <3>3. CASE b = 1
            <4>1. Worth(v) = v[1].money /\ Worth(w) = v[1].money
                BY <1>7, <3>1, <3>3 DEF Worth
            <4> QED BY <3>1, <3>3, <4>1
        <3>4. CASE b = 2
            <4>1. Worth(v) = v[1].money + v[2].money /\ Worth(w) = v[1].money + v[2].money
                BY <1>7, <3>1, <3>4 DEF Worth
            <4> QED BY <3>1, <3>4, <4>1
        <3> QED BY <1>4, <3>2, <3>3, <3>4
    <2>2. CASE a = 1
        <3>1. /\ w[1] = u[1] /\ u[1].money \in Nat /\ Worth(u) = u[1].money /\ Len(w) = 1 + b
              /\ b > 0 => w[2] = v[1] /\ v[1].money \in Nat
              /\ b > 1 => w[3] = v[2] /\ v[2].money \in Nat
            BY <1>4, <1>5, <1>7, <2>2
        <3>2. CASE b = 0
            BY <1>7, <3>1, <3>2 DEF Worth
        <3>3. CASE b = 1
            <4>1. Worth(v) = v[1].money
                BY <1>7, <3>1, <3>3
            <4>2. w[1] = u[1] /\ w[2] = v[1] /\ Len(w) = 2
                BY <3>1, <3>3
            <4>3. w[1].money \in Nat /\ w[2].money \in Nat
                BY <3>1, <3>3
            <4>4. Worth(w) = w[1].money + w[2].money
                BY <4>2, <4>3 DEF Worth
            <4> QED BY <3>1, <4>1, <4>2, <4>4
        <3>4. CASE b = 2
            <4>1. Worth(v) = v[1].money + v[2].money
                BY <1>7, <3>1, <3>4
            <4>2. w[1] = u[1] /\ w[2] = v[1] /\ w[3] = v[2] /\ Len(w) = 3
                BY <3>1, <3>4
            <4>3. v[1].money \in Nat /\ v[2].money \in Nat
                BY <3>1, <3>4
            <4>4. w[1].money \in Nat /\ w[2].money \in Nat /\ w[3].money \in Nat
                BY <3>1, <4>2, <4>3
            <4>5. Worth(w) = w[1].money + w[2].money + w[3].money
                BY <4>2, <4>4 DEF Worth
            <4> QED BY <3>1, <4>1, <4>2, <4>3, <4>5
        <3> QED BY <1>4, <3>2, <3>3, <3>4
    <2> QED BY <1>4, <2>1, <2>2
<1>9. Worth(u) \in Nat /\ Worth(v) \in Nat
    BY <1>4, <1>5, <1>7
<1> QED BY <1>1, <1>4, <1>8, <1>9 DEF w

-----------------------------------------------------------------------------
(* A save is fit, and so is the database it is to be written over.         *)
Fits(tx) ==
    /\ SaveOK(tx) /\ Kept(tx) /\ Kept(disk)
    /\ DOMAIN disk.rows = Players /\ DOMAIN disk.mail = MailIds /\ DOMAIN disk.lot = LotIds

LEMMA Fitting ==
    ASSUME IInv, IInv', NEW t \in Threads, NEW tx, Changes(t, tx)
    PROVE  Fits(tx) /\ nextMail \in Nat
<1>1. pend'[t] = tx /\ disk \in Ledger /\ nextMail \in Nat
    BY DEF Changes, Saving, IInv, TypeOK
<1>2. SaveOK(pend'[t])
    BY DEF IInv, TypeOK
<1> QED BY <1>1, <1>2, LedgerKept, SaveKept DEF Fits

-----------------------------------------------------------------------------
(* Each change takes what it gives.                                        *)
LEMMA SendMailCoins ==
    ASSUME IInv, CoinsInv, IInv', NEW p \in Players, NEW to \in Players, NEW i \in Items \cup {None},
           NEW m \in Sums, NEW c \in Cods, SendMail(p, to, i, m, c)
    PROVE  CoinsInv'
<1> DEFINE t == MapOf[p]
           letter == Letter(p, to, i, m, IF i = None THEN 0 ELSE c)
           letters == <<letter>>
           tx == Tx(Giving(p, i, m + Postage), Posting(letters), Empty, Postage, {})
<1>1. /\ t \in Threads /\ Changes(t, tx) /\ disk' = disk /\ pend[t] = NoSave
      /\ holder["mail"] = None /\ Row(p).gold >= m + Postage /\ RoomToPost(1)
    BY ThreadsAre DEF SendMail, MailStep, MailKept, Idle, Takes, Threaded
<1>2. /\ disk.rows[p] = Row(p) /\ Row(p).gold \in Nat /\ m \in Nat /\ Postage \in Nat /\ TypeOK
    BY <1>1, Current, RowsAre, MarketAssumption DEF IInv, Row
<1>3. Fits(tx)
    <2>1. t \in Threads /\ Changes(t, tx)
        BY <1>1
    <2> HIDE DEF tx, t
    <2> QED BY <2>1, Fitting, SMTT(40)
<1>4. letter \in Mails /\ letter.money = m
    <2>1. (IF i = None THEN 0 ELSE c) \in Nat
        BY MarketAssumption
    <2> QED BY <1>2, <2>1, LettersAre, LettersBring
<1> HIDE DEF letter
<1>5. /\ letters \in Seq(Mails) /\ Len(letters) <= 3 /\ Worth(letters) = m
      /\ RoomToPost(Len(letters))
    <2>1. Len(letters) = 1
        OBVIOUS
    <2> QED BY <1>1, <1>4, <2>1, WorthAre
<1> HIDE DEF letters
<1>6. /\ DOMAIN tx.rows = {p} /\ tx.rows[p].gold = Row(p).gold - (m + Postage)
      /\ tx.mail = Posting(letters) /\ DOMAIN tx.lot = {} /\ tx.fee = Postage
    BY DEF Tx, Giving, Put, Empty
<1> HIDE DEF tx
<1>7. InMail(tx, DOMAIN tx.mail) = m /\ InMail(disk, DOMAIN tx.mail) = 0
    BY <1>1, <1>5, <1>6, PostedCoins
<1>8. /\ InBags(disk, DOMAIN tx.rows) = Row(p).gold /\ InLots(disk, DOMAIN tx.lot) = 0
      /\ InBags(tx, DOMAIN tx.rows) = Row(p).gold - (m + Postage) /\ InLots(tx, DOMAIN tx.lot) = 0
    BY <1>2, <1>3, <1>6, FewThings DEF Fits
<1>9. Balanced(disk, tx)
    BY <1>1, <1>2, <1>6, <1>7, <1>8 DEF Balanced, Held
<1>10. NoBid(tx)
    BY <1>6 DEF NoBid
<1> QED BY <1>1, <1>9, <1>10, ChangingCoins

LEMMA TakeMoneyCoins ==
    ASSUME IInv, CoinsInv, IInv', NEW p \in Players, NEW id \in MailIds, TakeMoney(p, id)
    PROVE  CoinsInv'
<1> DEFINE t == MapOf[p]
           mail == Mail(id)
           room == MaxMoney - Row(p).gold
           take == IF mail.money < room THEN mail.money ELSE room
           left == [mail EXCEPT !.money = @ - take]
           tx == Tx(Getting(p, None, take), Put(id, left), Empty, 0, {})
<1>1. /\ t \in Threads /\ Changes(t, tx) /\ disk' = disk /\ pend[t] = NoSave
      /\ holder["mail"] = None /\ mail # None /\ take > 0
    BY ThreadsAre DEF TakeMoney, Own, MailStep, MailKept, Idle, Takes, Threaded
<1>2. /\ disk.rows[p] = Row(p) /\ Row(p).gold \in Nat /\ Row(p).gold <= MaxMoney /\ MaxMoney \in Nat
      /\ disk.mail[id] = mail /\ mail \in Mails /\ mail.money \in Nat
    BY <1>1, Current, RowsAre, MailIs, MarketAssumption DEF IInv, Row, Mail
<1>3. Fits(tx)
    BY <1>1, Fitting
<1>4. take \in Nat /\ take <= mail.money
    BY <1>2
<1>5. left.money = mail.money - take /\ left # None
    <2>1. left \in Mails
        BY <1>2, <1>4 DEF Mails
    <2>2. left.money = mail.money - take
        BY <1>2 DEF Mails
    <2> QED BY <2>1, <2>2, MarketAssumption
<1> HIDE DEF take, left, mail
<1>6. /\ DOMAIN tx.rows = {p} /\ tx.rows[p].gold = Row(p).gold + take
      /\ DOMAIN tx.mail = {id} /\ tx.mail[id] = left /\ DOMAIN tx.lot = {} /\ tx.fee = 0
    BY DEF Tx, Getting, Put, Empty
<1> HIDE DEF tx
<1>7. /\ InBags(disk, DOMAIN tx.rows) = Row(p).gold /\ InBags(tx, DOMAIN tx.rows) = Row(p).gold + take
      /\ InMail(disk, DOMAIN tx.mail) = MoneyOf(mail) /\ InMail(tx, DOMAIN tx.mail) = MoneyOf(left)
      /\ InLots(disk, DOMAIN tx.lot) = 0 /\ InLots(tx, DOMAIN tx.lot) = 0
    BY <1>2, <1>3, <1>6, FewThings DEF Fits
<1>8. MoneyOf(mail) = mail.money /\ MoneyOf(left) = mail.money - take
    BY <1>1, <1>5 DEF MoneyOf
<1>9. Balanced(disk, tx)
    BY <1>2, <1>4, <1>6, <1>7, <1>8 DEF Balanced, Held
<1>10. NoBid(tx)
    BY <1>6 DEF NoBid
<1> QED BY <1>1, <1>9, <1>10, ChangingCoins

LEMMA TakeItemCoins ==
    ASSUME IInv, CoinsInv, IInv', NEW p \in Players, NEW id \in MailIds, TakeItem(p, id)
    PROVE  CoinsInv'
<1> DEFINE t == MapOf[p]
           mail == Mail(id)
           paid == Paid(p, mail)
           left == [mail EXCEPT !.item = None, !.cod = 0]
           tx == Tx(Put(p, [bag |-> Row(p).bag \cup {mail.item}, gold |-> Row(p).gold - mail.cod]),
                    Both(Put(id, left), Posting(paid)), Empty, 0, {})
<1>1. /\ t \in Threads /\ Changes(t, tx) /\ disk' = disk /\ pend[t] = NoSave
      /\ holder["mail"] = None /\ mail # None /\ Row(p).gold >= mail.cod /\ RoomToPost(Len(paid))
    BY ThreadsAre DEF TakeItem, ItemTaken, Own, MailStep, MailKept, Idle, Takes, Threaded
<1>2. /\ disk.rows[p] = Row(p) /\ Row(p).gold \in Nat
      /\ disk.mail[id] = mail /\ mail \in Mails /\ mail.money \in Nat /\ mail.cod \in Nat
    BY <1>1, Current, RowsAre, MailIs DEF IInv, Row, Mail
<1>3. Fits(tx) /\ nextMail \in Nat
    BY <1>1, Fitting
<1>4. id < nextMail
    BY <1>1 DEF IInv, Fresh, Mail
<1>5. left.money = mail.money /\ left # None
    <2>1. left \in Mails
        BY <1>2 DEF Mails
    <2>2. left.money = mail.money
        BY <1>2 DEF Mails
    <2> QED BY <2>1, <2>2, MarketAssumption
<1> DEFINE posted == Posting(paid)
<1>6. /\ mail.cod = 0 => DOMAIN posted = {}
      /\ mail.cod > 0 => /\ DOMAIN posted = {nextMail} /\ posted[nextMail] # None
                         /\ posted[nextMail].money = mail.cod
    <2>1. CASE mail.cod = 0
        <3>1. paid = <<>>
            BY <2>1 DEF Paid
        <3> QED BY <1>3, <2>1, <3>1 DEF Posting
    <2>2. CASE mail.cod > 0
        <3> DEFINE letter == Payment(p, mail.from, mail.cod)
        <3>1. paid = <<letter>>
            BY <2>2 DEF Paid
        <3>2. letter # None /\ letter.money = mail.cod
            <4>1. mail.from \in Players
                BY <1>2, <2>2 DEF Mails
            <4>2. letter \in Mails
                BY <1>2, <4>1, LettersAre
            <4> QED BY <4>2, LettersBring, MarketAssumption
        <3> HIDE DEF letter
        <3>3. DOMAIN posted = {nextMail} /\ posted[nextMail] = letter
            BY <1>3, <3>1 DEF Posting
        <3> QED BY <2>2, <3>2, <3>3
    <2> QED BY <1>2, <2>1, <2>2
<1> HIDE DEF posted, left, mail, paid
<1>7. /\ DOMAIN tx.rows = {p} /\ tx.rows[p].gold = Row(p).gold - mail.cod
      /\ tx.mail = Both(Put(id, left), posted) /\ DOMAIN tx.lot = {} /\ tx.fee = 0
    BY DEF Tx, Put, Empty, posted
<1> HIDE DEF tx
<1> DEFINE kept == Put(id, left)
<1>8. DOMAIN tx.mail = {id} \cup DOMAIN posted /\ tx.mail[id] = left
    <2>1. DOMAIN kept = {id} /\ kept[id] = left
        BY DEF Put
    <2>2. tx.mail = Both(kept, posted)
        BY <1>7
    <2> HIDE DEF kept
    <2> QED BY <2>1, <2>2 DEF Both
<1>9. /\ InBags(disk, DOMAIN tx.rows) = Row(p).gold
      /\ InBags(tx, DOMAIN tx.rows) = Row(p).gold - mail.cod
      /\ InLots(disk, DOMAIN tx.lot) = 0 /\ InLots(tx, DOMAIN tx.lot) = 0
    BY <1>2, <1>3, <1>7, FewThings DEF Fits
<1>10. MoneyOf(mail) = mail.money /\ MoneyOf(left) = mail.money
    BY <1>1, <1>5 DEF MoneyOf
<1>11. InMail(disk, DOMAIN tx.mail) = mail.money /\ InMail(tx, DOMAIN tx.mail) = mail.money + mail.cod
    <2>1. CASE mail.cod = 0
        <3>1. DOMAIN tx.mail = {id}
            BY <1>6, <1>8, <2>1
        <3> QED BY <1>2, <1>3, <1>8, <1>10, <2>1, <3>1, FewThings DEF Fits
    <2>2. CASE mail.cod > 0
        <3>1. DOMAIN tx.mail = {id, nextMail} /\ id # nextMail
            BY <1>3, <1>4, <1>6, <1>8, <2>2
        <3>2. MoneyOf(tx.mail[nextMail]) = mail.cod
            <4>1. nextMail \in DOMAIN posted /\ nextMail \notin DOMAIN kept
                <5>1. DOMAIN kept = {id}
                    BY DEF Put
                <5> QED BY <1>6, <2>2, <3>1, <5>1
            <4>2. tx.mail[nextMail] = posted[nextMail]
                BY <1>7, <4>1 DEF Both
            <4> QED BY <1>6, <2>2, <4>2 DEF MoneyOf
        <3>3. nextMail \in MailIds /\ MoneyOf(disk.mail[nextMail]) = 0
            <4>1. nextMail \in MailIds
                BY <1>3, <3>1 DEF Fits, Kept
            <4>2. disk.mail[nextMail] = None
                BY <1>1, <1>3, <4>1, NoneThere
            <4> QED BY <4>1, <4>2 DEF MoneyOf
        <3> DEFINE D == DOMAIN tx.mail
        <3>4. D = {id, nextMail} /\ id \in D /\ nextMail \in D
            BY <3>1
        <3> HIDE DEF D
        <3>5. InMail(disk, D) = MoneyOf(disk.mail[id]) + MoneyOf(disk.mail[nextMail])
            BY <1>3, <3>1, <3>3, <3>4, FewThings DEF Fits
        <3>6. InMail(tx, D) = MoneyOf(tx.mail[id]) + MoneyOf(tx.mail[nextMail])
            BY <1>3, <3>1, <3>4, FewThings DEF Fits, D
        <3> QED BY <1>2, <1>8, <1>10, <3>2, <3>3, <3>5, <3>6 DEF D
    <2> QED BY <1>2, <2>1, <2>2
<1>12. Balanced(disk, tx)
    BY <1>1, <1>2, <1>7, <1>9, <1>11 DEF Balanced, Held
<1>13. NoBid(tx)
    BY <1>7 DEF NoBid
<1> QED BY <1>1, <1>12, <1>13, ChangingCoins

LEMMA OneMailCoins ==
    ASSUME IInv, CoinsInv, IInv', NEW t \in Threads, NEW id \in MailIds, NEW v, NEW fee, NEW lost,
           Mail(id) # None, pend[t] = NoSave, holder["mail"] = None, disk' = disk,
           Changes(t, Tx(Empty, Put(id, v), Empty, fee, lost)),
           \/ v # None /\ v.money = Mail(id).money /\ fee = 0
           \/ v = None /\ fee = Mail(id).money
    PROVE  CoinsInv'
<1> DEFINE tx == Tx(Empty, Put(id, v), Empty, fee, lost)
           mail == Mail(id)
<1>1. disk.mail[id] = mail /\ mail # None /\ mail.money \in Nat
    BY Current, MailIs DEF IInv, Mail
<1>2. Fits(tx)
    BY Fitting
<1>3. Changes(t, tx)
    OBVIOUS
<1>4. \/ v # None /\ v.money = mail.money /\ fee = 0
      \/ v = None /\ fee = mail.money
    OBVIOUS
<1> HIDE DEF mail
<1>5. /\ DOMAIN tx.rows = {} /\ DOMAIN tx.mail = {id} /\ tx.mail[id] = v /\ DOMAIN tx.lot = {}
      /\ tx.fee = fee
    BY DEF Tx, Put, Empty
<1> HIDE DEF tx
<1>6. /\ InBags(disk, DOMAIN tx.rows) = 0 /\ InBags(tx, DOMAIN tx.rows) = 0
      /\ InMail(disk, DOMAIN tx.mail) = MoneyOf(mail) /\ InMail(tx, DOMAIN tx.mail) = MoneyOf(v)
      /\ InLots(disk, DOMAIN tx.lot) = 0 /\ InLots(tx, DOMAIN tx.lot) = 0
    BY <1>1, <1>2, <1>5, FewThings DEF Fits
<1>7. MoneyOf(mail) = MoneyOf(v) + fee /\ MoneyOf(v) \in Nat /\ fee \in Nat
    BY <1>1, <1>4 DEF MoneyOf
<1>8. Balanced(disk, tx)
    BY <1>5, <1>6, <1>7 DEF Balanced, Held
<1>9. NoBid(tx)
    BY <1>5 DEF NoBid
<1> QED BY <1>3, <1>8, <1>9, ChangingCoins

LEMMA MailLeavesCoins ==
    ASSUME IInv, CoinsInv, IInv', NEW id \in MailIds,
           \/ \E p \in Players : ReturnMail(p, id) \/ DeleteMail(p, id)
           \/ Expire(id)
    PROVE  CoinsInv'
<1>1. ASSUME Mail(id) # None, Mail(id).kind = "normal"
      PROVE  SentBack(Mail(id)) # None /\ SentBack(Mail(id)).money = Mail(id).money
    <2>1. Mail(id) \in Mails
        BY <1>1, MailIs DEF IInv
    <2>2. SentBack(Mail(id)) \in Mails /\ SentBack(Mail(id)).money = Mail(id).money
        BY <1>1, <2>1, GoesBack DEF SentBack, Mails
    <2> QED BY <2>2, MarketAssumption
<1>2. CASE \E p \in Players : ReturnMail(p, id)
    <2>1. PICK p \in Players : ReturnMail(p, id)
        BY <1>2
    <2>2. /\ MapOf[p] \in Threads /\ Mail(id) # None /\ Mail(id).kind = "normal"
          /\ pend[MapOf[p]] = NoSave /\ holder["mail"] = None /\ disk' = disk
          /\ Changes(MapOf[p], Tx(Empty, Put(id, SentBack(Mail(id))), Empty, 0, {}))
        BY <2>1, ThreadsAre DEF ReturnMail, Own, MailStep, Idle, Takes, MailKept, Threaded
    <2> QED BY <1>1, <2>2, OneMailCoins
<1>3. CASE \E p \in Players : DeleteMail(p, id)
    <2>1. PICK p \in Players : DeleteMail(p, id)
        BY <1>3
    <2>2. /\ MapOf[p] \in Threads /\ Mail(id) # None
          /\ pend[MapOf[p]] = NoSave /\ holder["mail"] = None /\ disk' = disk
          /\ Changes(MapOf[p], Tx(Empty, Put(id, None), Empty, Mail(id).money, Has(Mail(id).item)))
        BY <2>1, ThreadsAre
        DEF DeleteMail, Own, MailStep, Idle, Takes, MailKept, Threaded, Discarded
    <2> QED BY <2>2, OneMailCoins
<1>4. CASE Expire(id)
    <2>1. /\ Sweeper \in Threads /\ Mail(id) # None
          /\ pend[Sweeper] = NoSave /\ holder["mail"] = None /\ disk' = disk
        BY <1>4, ThreadsAre DEF Expire, ExpireFound, MailStep, Idle, Takes, Passed, Threaded
    <2>2. \/ /\ Changes(Sweeper, Tx(Empty, Put(id, SentBack(Mail(id))), Empty, 0, {}))
             /\ Mail(id).kind = "normal"
          \/ Changes(Sweeper, Tx(Empty, Put(id, None), Empty, Mail(id).money, Has(Mail(id).item)))
        BY <1>4 DEF Expire, ExpireFound, Discarded
    <2>3. CASE /\ Changes(Sweeper, Tx(Empty, Put(id, SentBack(Mail(id))), Empty, 0, {}))
               /\ Mail(id).kind = "normal"
        BY <1>1, <2>1, <2>3, OneMailCoins
    <2>4. CASE Changes(Sweeper, Tx(Empty, Put(id, None), Empty, Mail(id).money, Has(Mail(id).item)))
        BY <2>1, <2>4, OneMailCoins
    <2> QED BY <2>2, <2>3, <2>4
<1> QED BY <1>2, <1>3, <1>4

LEMMA SellCoins ==
    ASSUME IInv, CoinsInv, IInv', NEW p \in Players, NEW i \in Items, NEW b \in Buyouts, Sell(p, i, b)
    PROVE  CoinsInv'
<1> DEFINE t == MapOf[p]
           a == [item |-> i, owner |-> p, bid |-> 0, bidder |-> None, buyout |-> b]
           tx == Tx(Giving(p, i, Deposit), Empty, Put(nextLot, a), 0, {})
<1>1. /\ t \in Threads /\ Changes(t, tx) /\ disk' = disk /\ pend[t] = NoSave
      /\ holder["lots"] = None /\ Row(p).gold >= Deposit /\ b \in Nat /\ Deposit \in Nat
      /\ b = 0 \/ b >= StartBid
    BY ThreadsAre, MarketAssumption DEF Sell, LotKept, Idle, Takes, Threaded
<1>2. disk.rows[p] = Row(p) /\ Row(p).gold \in Nat
    BY <1>1, Current, RowsAre DEF IInv, Row
<1>3. Fits(tx)
    BY <1>1, Fitting
<1>4. a # None /\ a.bid = 0
    <2>1. a \in Lots
        BY <1>1, MarketAssumption DEF Lots
    <2> QED BY <2>1, MarketAssumption
<1> HIDE DEF a
<1>5. /\ DOMAIN tx.rows = {p} /\ tx.rows[p].gold = Row(p).gold - Deposit
      /\ DOMAIN tx.lot = {nextLot} /\ tx.lot[nextLot] = a
      /\ DOMAIN tx.mail = {} /\ tx.fee = 0
    BY DEF Tx, Giving, Put, Empty
<1> HIDE DEF tx
<1>6. nextLot \in LotIds /\ disk.lot[nextLot] = None
    <2>1. nextLot \in LotIds /\ nextLot \in Nat
        BY <1>3, <1>5 DEF Fits, Kept, IInv, TypeOK
    <2>2. nextLot \notin Away
        BY <2>1 DEF IInv, SweptAlone
    <2>3. disk.lot[nextLot] = mem.lot[nextLot]
        BY <1>1, <2>1, <2>2, Current
    <2> QED BY <2>1, <2>3 DEF IInv, Fresh
<1>7. /\ InBags(disk, DOMAIN tx.rows) = Row(p).gold /\ InBags(tx, DOMAIN tx.rows) = Row(p).gold - Deposit
      /\ InMail(disk, DOMAIN tx.mail) = 0 /\ InMail(tx, DOMAIN tx.mail) = 0
      /\ InLots(disk, DOMAIN tx.lot) = StakeOf(None) /\ InLots(tx, DOMAIN tx.lot) = StakeOf(a)
    BY <1>2, <1>3, <1>5, <1>6, FewThings DEF Fits
<1>8. StakeOf(None) = 0 /\ StakeOf(a) = Deposit
    BY <1>1, <1>4 DEF StakeOf
<1>9. Balanced(disk, tx)
    BY <1>1, <1>2, <1>5, <1>7, <1>8 DEF Balanced, Held
<1>10. NoBid(tx)
    BY <1>4, <1>5 DEF NoBid
<1> QED BY <1>1, <1>9, <1>10, ChangingCoins

(* What the letters of an auction that ends are worth: to the last coin,   *)
(* with the cut, the bid and the deposit.                                  *)
LEMMA AuctionWorth ==
    ASSUME NEW a, a.owner \in Players, a.item \in Items, a.bid \in Nat,
           a.bidder \in Players \cup {None}
    PROVE  /\ Refund(a) \in Seq(Mails) /\ Len(Refund(a)) <= 1
           /\ Worth(Refund(a)) = IF a.bidder = None THEN 0 ELSE a.bid
           /\ Cut(a) \in Nat /\ Cut(a) <= a.bid
           /\ a.bidder # None => /\ Settled(a) \in Seq(Mails) /\ Len(Settled(a)) = 2
                                 /\ Worth(Settled(a)) = a.bid - Cut(a) + Deposit
<1>1. Cut(a) \in Nat /\ Cut(a) <= a.bid /\ Deposit \in Nat
    BY MarketAssumption DEF Cut
<1>2. CASE a.bidder = None
    <2>1. Refund(a) = <<>>
        BY <1>2 DEF Refund
    <2> QED BY <1>1, <1>2, <2>1, WorthAre
<1>3. CASE a.bidder # None
    <2> DEFINE back == Notice(a.bidder, None, a.bid)
               won  == Notice(a.bidder, a.item, 0)
               sold == Notice(a.owner, None, a.bid - Cut(a) + Deposit)
    <2>1. /\ back \in Mails /\ back.money = a.bid /\ won \in Mails /\ won.money = 0
          /\ sold \in Mails /\ sold.money = a.bid - Cut(a) + Deposit
        <3>1. /\ a.bidder \in Players /\ a.item \in Items \cup {None} /\ None \in Items \cup {None}
              /\ a.bid - Cut(a) + Deposit \in Nat /\ 0 \in Nat
            BY <1>1, <1>3
        <3>2. back \in Mails /\ won \in Mails /\ sold \in Mails
            BY <3>1, LettersAre
        <3>3. back.money = a.bid /\ won.money = 0 /\ sold.money = a.bid - Cut(a) + Deposit
            BY LettersBring
        <3> QED BY <3>2, <3>3
    <2>2. Refund(a) = <<back>> /\ Settled(a) = <<won, sold>>
        BY <1>3 DEF Refund, Settled
    <2> HIDE DEF back, won, sold
    <2>3. Worth(<<back>>) = a.bid /\ Worth(<<won, sold>>) = a.bid - Cut(a) + Deposit
        BY <1>1, <2>1, WorthAre
    <2> QED BY <1>1, <1>3, <2>1, <2>2, <2>3
<1> QED BY <1>2, <1>3

LEMMA SettleCoins ==
    ASSUME IInv, CoinsInv, IInv', NEW x \in swept, Settle(x)
    PROVE  CoinsInv'
<1> DEFINE a     == x.lot
           mails == IF a.bidder # None THEN Settled(a) ELSE <<Notice(a.owner, a.item, 0)>>
           fee   == IF a.bidder # None THEN Cut(a) ELSE Deposit
           tx    == Tx(Empty, Posting(mails), Put(x.id, None), fee, {})
<1>1. /\ Sweeper \in Threads /\ pend[Sweeper] = NoSave /\ holder["mail"] = None
      /\ Changes(Sweeper, tx) /\ disk' = disk /\ RoomToPost(Len(mails))
    BY ThreadsAre DEF Settle, MailStep, Idle, Takes, LotKept, Threaded
<1>2. /\ x.id \in LotIds /\ a \in Lots /\ disk.lot[x.id] = a /\ a # None
    BY MarketAssumption DEF IInv, TypeOK, SweptAlone
<1>3. /\ a.owner \in Players /\ a.item \in Items /\ a.bid \in Nat
      /\ a.bidder \in Players \cup {None} /\ Deposit \in Nat
    BY <1>2, MarketAssumption DEF Lots
<1>4. Fits(tx)
    BY <1>1, Fitting
<1>5. /\ mails \in Seq(Mails) /\ Len(mails) <= 3 /\ Worth(mails) \in Nat /\ fee \in Nat
      /\ Worth(mails) + fee = a.bid + Deposit
    <2>1. CASE a.bidder # None
        <3>1. /\ mails = Settled(a) /\ fee = Cut(a) /\ Settled(a) \in Seq(Mails)
              /\ Len(Settled(a)) = 2 /\ Worth(Settled(a)) = a.bid - Cut(a) + Deposit
              /\ Cut(a) \in Nat /\ Cut(a) <= a.bid
            BY <1>3, <2>1, AuctionWorth
        <3> HIDE DEF mails, fee
        <3> QED BY <1>3, <3>1
    <2>2. CASE a.bidder = None
        <3> DEFINE n == Notice(a.owner, a.item, 0)
        <3>1. n \in Mails /\ n.money = 0 /\ mails = <<n>> /\ fee = Deposit
            BY <1>3, <2>2, LettersAre, LettersBring
        <3>2. a.bid = 0
            BY <1>2, <1>4, <2>2 DEF CoinsInv, NoBid, Fits
        <3> HIDE DEF n, mails, fee
        <3>3. Worth(<<n>>) = 0 /\ <<n>> \in Seq(Mails) /\ Len(<<n>>) = 1
            BY <3>1, WorthAre
        <3> QED BY <1>3, <3>1, <3>2, <3>3
    <2> QED BY <2>1, <2>2
<1> HIDE DEF mails, fee
<1>6. /\ DOMAIN tx.rows = {} /\ tx.mail = Posting(mails)
      /\ DOMAIN tx.lot = {x.id} /\ tx.lot[x.id] = None /\ tx.fee = fee
    BY DEF Tx, Put, Empty
<1> HIDE DEF tx
<1>7. InMail(tx, DOMAIN tx.mail) = Worth(mails) /\ InMail(disk, DOMAIN tx.mail) = 0
    BY <1>1, <1>5, <1>6, PostedCoins
<1>8. /\ InBags(disk, DOMAIN tx.rows) = 0 /\ InBags(tx, DOMAIN tx.rows) = 0
      /\ InLots(disk, DOMAIN tx.lot) = StakeOf(a) /\ InLots(tx, DOMAIN tx.lot) = StakeOf(None)
    BY <1>2, <1>4, <1>6, FewThings DEF Fits
<1>9. StakeOf(None) = 0 /\ StakeOf(a) = a.bid + Deposit
    BY <1>2 DEF StakeOf
<1>10. Balanced(disk, tx)
    BY <1>3, <1>5, <1>6, <1>7, <1>8, <1>9 DEF Balanced, Held
<1>11. NoBid(tx)
    BY <1>6 DEF NoBid
<1> QED BY <1>1, <1>10, <1>11, ChangingCoins

LEMMA CancelMadeCoins ==
    ASSUME IInv, CoinsInv, IInv', NEW t \in Threads, CancelMade(t)
    PROVE  CoinsInv'
<1> DEFINE p      == job[t].who
           l      == job[t].lot
           a      == Lot(l)
           refund == Refund(a)
           back   == <<Notice(p, a.item, 0)>>
           mails  == refund \o back
           fee    == Fee(a)
           tx     == Tx(Paying(p, fee), Posting(mails), Put(l, None), fee + Deposit, {})
<1>1. /\ job[t] # None /\ job[t].op = "cancel" /\ pend[t] = NoSave /\ holder["mail"] = None
      /\ Changes(t, tx) /\ disk' = disk /\ RoomToPost(Len(mails))
    BY DEF CancelMade, LotKept, Takes
<1>2. /\ TypeOK /\ job[t] \in Jobs /\ holder["lots"] = t /\ MapOf[p] = t /\ Allowed(job[t])
    BY <1>1 DEF IInv, TypeOK, Locks, Waits
<1>3. p \in Players /\ l \in LotIds
    BY <1>2 DEF Jobs
<1>4. a # None /\ a \in Lots /\ disk.lot[l] = a /\ Row(p).gold >= fee
    <2>1. a # None /\ a \in Lots /\ Row(p).gold >= fee
        BY <1>1, <1>2, <1>3, LotIs DEF Allowed, Lot, Row
    <2>2. l \notin Away
        BY <2>1 DEF IInv, SweptAlone, Lot
    <2> QED BY <1>1, <1>2, <1>3, <2>1, <2>2, Current DEF Lot
<1>5. /\ a.owner \in Players /\ a.item \in Items /\ a.bid \in Nat
      /\ a.bidder \in Players \cup {None} /\ Deposit \in Nat
    BY <1>4, MarketAssumption DEF Lots
<1>6. disk.rows[p] = Row(p) /\ Row(p).gold \in Nat
    BY <1>1, <1>2, <1>3, Current, RowsAre DEF Row
<1>7. Fits(tx)
    BY <1>1, Fitting
<1>8. a.bidder = None => a.bid = 0
    BY <1>3, <1>4, <1>7 DEF CoinsInv, NoBid, Fits
<1>9. /\ refund \in Seq(Mails) /\ Len(refund) <= 1 /\ Worth(refund) = a.bid
      /\ fee \in Nat
    BY <1>5, <1>8, AuctionWorth, NoticesAre
<1>10. back \in Seq(Mails) /\ Len(back) <= 2 /\ Worth(back) = 0
    <2> DEFINE n == Notice(p, a.item, 0)
    <2>1. n \in Mails /\ n.money = 0
        BY <1>3, <1>5, LettersAre, LettersBring
    <2> HIDE DEF n
    <2>2. Worth(<<n>>) = 0 /\ <<n>> \in Seq(Mails) /\ Len(<<n>>) = 1
        BY <2>1, WorthAre
    <2> QED BY <2>2 DEF n
<1> HIDE DEF refund, back
<1>11. mails \in Seq(Mails) /\ Len(mails) <= 3 /\ Worth(mails) = a.bid
    <2>1. Worth(mails) = Worth(refund) + Worth(back) /\ mails \in Seq(Mails) /\ Len(mails) <= 3
        BY <1>9, <1>10, JoinedWorth
    <2> QED BY <1>5, <1>9, <1>10, <2>1
<1> HIDE DEF mails, fee, a, l, p
<1>12. /\ DOMAIN tx.rows = {p} /\ tx.rows[p].gold = Row(p).gold - fee
       /\ tx.mail = Posting(mails)
       /\ DOMAIN tx.lot = {l} /\ tx.lot[l] = None /\ tx.fee = fee + Deposit
    <2>1. Row(p) \in Rows
        BY <1>2, <1>3, RowsAre
    <2> QED BY <2>1 DEF Tx, Paying, Put, Rows
<1> HIDE DEF tx
<1>13. InMail(tx, DOMAIN tx.mail) = a.bid /\ InMail(disk, DOMAIN tx.mail) = 0
    BY <1>1, <1>11, <1>12, PostedCoins
<1>14. /\ InBags(disk, DOMAIN tx.rows) = Row(p).gold /\ InBags(tx, DOMAIN tx.rows) = Row(p).gold - fee
       /\ InLots(disk, DOMAIN tx.lot) = StakeOf(a) /\ InLots(tx, DOMAIN tx.lot) = StakeOf(None)
    BY <1>3, <1>4, <1>6, <1>7, <1>12, FewThings DEF Fits
<1>15. StakeOf(None) = 0 /\ StakeOf(a) = a.bid + Deposit
    BY <1>4 DEF StakeOf
<1>16. Balanced(disk, tx)
    BY <1>4, <1>5, <1>6, <1>9, <1>12, <1>13, <1>14, <1>15 DEF Balanced, Held
<1>17. NoBid(tx)
    BY <1>12 DEF NoBid
<1> QED BY <1>1, <1>16, <1>17, ChangingCoins

LEMMA BidMadeCoins ==
    ASSUME IInv, CoinsInv, IInv', NEW t \in Threads, BidMade(t)
    PROVE  CoinsInv'
<1> DEFINE p      == job[t].who
           l      == job[t].lot
           a      == Lot(l)
           price  == job[t].price
           raised == [a EXCEPT !.bid = price, !.bidder = p]
           bought == Buys(a, price)
           refund == IF a.bidder = p THEN <<>> ELSE Refund(a)
           done   == IF bought THEN Settled(raised) ELSE <<>>
           mails  == refund \o done
           fee    == IF bought THEN Cut(raised) ELSE 0
           cost   == Cost(p, a, price)
           left   == IF bought THEN None ELSE raised
           tx     == Tx(Paying(p, cost), Posting(mails), Put(l, left), fee, {})
<1>1. /\ job[t] # None /\ job[t].op = "bid" /\ pend[t] = NoSave /\ holder["mail"] = None
      /\ Changes(t, tx) /\ disk' = disk /\ RoomToPost(Len(mails))
    BY DEF BidMade, LotKept, Takes
<1>2. /\ TypeOK /\ job[t] \in Jobs /\ holder["lots"] = t /\ MapOf[p] = t /\ Allowed(job[t])
    BY <1>1 DEF IInv, TypeOK, Locks, Waits
<1>3. p \in Players /\ l \in LotIds /\ price \in Nat
    BY <1>2 DEF Jobs
<1>4. a # None /\ a \in Lots /\ disk.lot[l] = a /\ price > a.bid /\ Row(p).gold >= cost
    <2>1. a # None /\ a \in Lots /\ price > a.bid /\ Row(p).gold >= cost
        BY <1>1, <1>2, <1>3, LotIs DEF Allowed, Lot, Row
    <2>2. l \notin Away
        BY <2>1 DEF IInv, SweptAlone, Lot
    <2> QED BY <1>1, <1>2, <1>3, <2>1, <2>2, Current DEF Lot
<1>5. /\ a.owner \in Players /\ a.item \in Items /\ a.bid \in Nat /\ a.buyout \in Nat
      /\ a.bidder \in Players \cup {None} /\ None \notin Players /\ Deposit \in Nat
    BY <1>4, MarketAssumption DEF Lots
<1>6. disk.rows[p] = Row(p) /\ Row(p).gold \in Nat
    BY <1>1, <1>2, <1>3, Current, RowsAre DEF Row
<1>7. Fits(tx)
    BY <1>1, Fitting
<1>8. a.bidder = None => a.bid = 0
    BY <1>3, <1>4, <1>7 DEF CoinsInv, NoBid, Fits
<1>9. /\ raised.owner = a.owner /\ raised.item = a.item /\ raised.bid = price
      /\ raised.bidder = p /\ (bought \/ raised # None)
    <2> DEFINE Bids == [item : Items, owner : Players, bid : Nat,
                       bidder : Players \cup {None}, buyout : Nat]
    <2>1. a \in Bids
        BY <1>4 DEF Lots
    <2>2. /\ raised \in Bids /\ raised.owner = a.owner /\ raised.item = a.item
          /\ raised.bid = price /\ raised.bidder = p /\ raised.buyout = a.buyout
        BY <1>3, <2>1
    <2>3. ~bought => (raised.buyout > 0 => raised.bid < raised.buyout)
        BY <1>3, <1>5, <2>2 DEF Buys
    <2>4. ~bought => raised \in Lots
        BY <2>2, <2>3 DEF Lots
    <2> QED BY <2>2, <2>4, MarketAssumption
<1>10. /\ refund \in Seq(Mails) /\ Len(refund) <= 1 /\ Worth(refund) \in Nat /\ cost \in Nat
       /\ cost + a.bid = price + Worth(refund)
    <2>1. CASE a.bidder = p
        <3>1. refund = <<>> /\ cost = price - a.bid
            BY <2>1 DEF Cost
        <3>2. Worth(<<>>) = 0 /\ <<>> \in Seq(Mails) /\ Len(<<>>) = 0
            BY WorthAre
        <3> HIDE DEF refund, cost, price, a
        <3> QED BY <1>3, <1>4, <1>5, <3>1, <3>2
    <2>2. CASE a.bidder # p
        <3>1. /\ refund = Refund(a) /\ cost = price /\ Refund(a) \in Seq(Mails) /\ Len(Refund(a)) <= 1
              /\ Worth(Refund(a)) = a.bid
            BY <1>5, <1>8, <2>2, AuctionWorth DEF Cost
        <3> HIDE DEF refund, cost, price, a
        <3> QED BY <1>3, <1>5, <3>1
    <2> QED BY <2>1, <2>2
<1>11. /\ done \in Seq(Mails) /\ Len(done) <= 2 /\ Worth(done) \in Nat /\ fee \in Nat
       /\ StakeOf(left) \in Nat /\ Worth(done) + fee + StakeOf(left) = price + Deposit
    <2>1. CASE bought
        <3>1. /\ Settled(raised) \in Seq(Mails) /\ Len(Settled(raised)) = 2
              /\ Worth(Settled(raised)) = price - Cut(raised) + Deposit
              /\ Cut(raised) \in Nat /\ Cut(raised) <= price
            <4> HIDE DEF raised
            <4> QED BY <1>3, <1>5, <1>9, AuctionWorth
        <3>2. done = Settled(raised) /\ fee = Cut(raised) /\ StakeOf(left) = 0
            BY <2>1 DEF StakeOf
        <3> HIDE DEF done, fee, left, raised, price
        <3>3. /\ done \in Seq(Mails) /\ Len(done) <= 2 /\ Worth(done) = price - fee + Deposit
              /\ fee \in Nat /\ fee <= price
            <4>1. done = Settled(raised) /\ fee = Cut(raised)
                BY <3>2
            <4>2. done \in Seq(Mails) /\ Len(done) = 2
                BY <3>1, <4>1
            <4>3. Worth(done) = price - fee + Deposit
                BY <3>1, <4>1, Zenon
            <4>4. fee \in Nat /\ fee <= price
                BY <3>1, <4>1
            <4> QED BY <4>2, <4>3, <4>4
        <3> DEFINE worth == Worth(done)
        <3>4. worth = price - fee + Deposit
            BY <3>3
        <3> HIDE DEF worth
        <3>5. worth \in Nat /\ worth + fee + 0 = price + Deposit
            BY <1>3, <1>5, <3>3, <3>4
        <3> QED BY <3>2, <3>3, <3>5 DEF worth
    <2>2. CASE ~bought
        <3>1. done = <<>> /\ fee = 0 /\ left = raised
            BY <2>2
        <3>2. done \in Seq(Mails) /\ Len(done) <= 2 /\ Worth(done) = 0
            <4>1. Worth(<<>>) = 0 /\ <<>> \in Seq(Mails) /\ Len(<<>>) <= 2
                BY WorthAre
            <4> HIDE DEF done
            <4> QED BY <3>1, <4>1
        <3>3. StakeOf(raised) = price + Deposit
            <4> HIDE DEF raised
            <4> QED BY <1>9, <2>2 DEF StakeOf
        <3>4. StakeOf(left) = price + Deposit
            BY <3>1, <3>3
        <3> HIDE DEF done, fee, left, raised, price
        <3> QED BY <1>3, <1>5, <3>1, <3>2, <3>4
    <2> HIDE DEF done, fee, left, bought, price
    <2> QED BY <2>1, <2>2
<1>12. left = None \/ left.bidder = p
    BY <1>9
<1> HIDE DEF refund, done, fee, cost, left, raised, price
<1>13. /\ mails \in Seq(Mails) /\ Len(mails) <= 3 /\ Worth(mails) = Worth(refund) + Worth(done)
    BY <1>10, <1>11, JoinedWorth
<1> HIDE DEF mails, bought, a, l, p
<1>14. /\ DOMAIN tx.rows = {p} /\ tx.rows[p].gold = Row(p).gold - cost
       /\ tx.mail = Posting(mails)
       /\ DOMAIN tx.lot = {l} /\ tx.lot[l] = left /\ tx.fee = fee
    <2>1. Row(p) \in Rows
        BY <1>2, <1>3, RowsAre
    <2> QED BY <2>1 DEF Tx, Paying, Put, Rows
<1> HIDE DEF tx
<1>15. InMail(tx, DOMAIN tx.mail) = Worth(mails) /\ InMail(disk, DOMAIN tx.mail) = 0
    BY <1>1, <1>13, <1>14, PostedCoins
<1>16. /\ InBags(disk, DOMAIN tx.rows) = Row(p).gold /\ InBags(tx, DOMAIN tx.rows) = Row(p).gold - cost
       /\ InLots(disk, DOMAIN tx.lot) = StakeOf(a) /\ InLots(tx, DOMAIN tx.lot) = StakeOf(left)
    BY <1>3, <1>4, <1>6, <1>7, <1>14, FewThings DEF Fits
<1>17. StakeOf(a) = a.bid + Deposit
    BY <1>4 DEF StakeOf
<1>18. Balanced(disk, tx)
    <2>1. Held(disk, tx) = Row(p).gold + (a.bid + Deposit) /\ a.bid \in Nat /\ Deposit \in Nat
        BY <1>5, <1>6, <1>15, <1>16, <1>17 DEF Held
    <2>2. Held(tx, tx) = (Row(p).gold - cost) + (Worth(refund) + Worth(done)) + StakeOf(left)
        BY <1>13, <1>15, <1>16 DEF Held
    <2> DEFINE g == Row(p).gold
               back == Worth(refund)
               sold == Worth(done)
               stake == StakeOf(left)
               bid == a.bid
    <2>3. /\ g \in Nat /\ back \in Nat /\ sold \in Nat /\ stake \in Nat /\ fee \in Nat /\ cost \in Nat
          /\ price \in Nat /\ bid \in Nat
          /\ sold + fee + stake = price + Deposit /\ cost + bid = price + back
        BY <1>3, <1>5, <1>6, <1>10, <1>11
    <2> HIDE DEF g, back, sold, stake, bid
    <2>4. g + (bid + Deposit) = (g - cost) + (back + sold) + stake + fee
        BY <2>1, <2>3
    <2> QED BY <1>14, <2>1, <2>2, <2>4 DEF Balanced, g, back, sold, stake, bid
<1>19. NoBid(tx)
    BY <1>3, <1>5, <1>12, <1>14 DEF NoBid
<1> QED BY <1>1, <1>18, <1>19, ChangingCoins

LEMMA TradedCoins ==
    ASSUME IInv, CoinsInv, IInv', NEW p \in Players, NEW q \in Players,
           NEW i \in Items \cup {None}, NEW j \in Items \cup {None},
           NEW m \in Sums, NEW n \in Sums, Traded(p, q, i, j, m, n)
    PROVE  CoinsInv'
<1> DEFINE t == MapOf[p]
           forP == [bag |-> (Row(p).bag \ Has(i)) \cup Has(j), gold |-> Row(p).gold - m + n]
           forQ == [bag |-> (Row(q).bag \ Has(j)) \cup Has(i), gold |-> Row(q).gold - n + m]
           tx == Tx(Both(Put(p, forP), Put(q, forQ)), Empty, Empty, 0, {})
<1>1. /\ t \in Threads /\ Changes(t, tx) /\ disk' = disk /\ pend[t] = NoSave
      /\ p # q /\ MapOf[q] = t /\ Row(p).gold >= m /\ Row(q).gold >= n
    BY ThreadsAre DEF Traded, Idle, Threaded
<1>2. /\ disk.rows[p] = Row(p) /\ disk.rows[q] = Row(q) /\ m \in Nat /\ n \in Nat
      /\ Row(p).gold \in Nat /\ Row(q).gold \in Nat
    BY <1>1, Current, RowsAre, MarketAssumption DEF IInv, Row
<1>3. Fits(tx)
    BY <1>1, Fitting
<1>4. /\ DOMAIN tx.rows = {p, q} /\ tx.rows[p].gold = Row(p).gold - m + n
      /\ tx.rows[q].gold = Row(q).gold - n + m
      /\ DOMAIN tx.mail = {} /\ DOMAIN tx.lot = {} /\ tx.fee = 0
    <2>1. forP.gold = Row(p).gold - m + n /\ forQ.gold = Row(q).gold - n + m
        OBVIOUS
    <2> HIDE DEF forP, forQ
    <2> QED BY <1>1, <2>1 DEF Tx, Both, Put, Empty
<1> HIDE DEF tx
<1>5. /\ InMail(disk, DOMAIN tx.mail) = 0 /\ InMail(tx, DOMAIN tx.mail) = 0
      /\ InLots(disk, DOMAIN tx.lot) = 0 /\ InLots(tx, DOMAIN tx.lot) = 0
    BY <1>3, <1>4, FewThings DEF Fits
<1> DEFINE D == DOMAIN tx.rows
<1>6. D = {p, q} /\ p \in D /\ q \in D
    BY <1>4
<1> HIDE DEF D
<1>7. InBags(disk, D) = Row(p).gold + Row(q).gold
    BY <1>1, <1>2, <1>3, <1>6, FewThings DEF Fits
<1>8. InBags(tx, D) = (Row(p).gold - m + n) + (Row(q).gold - n + m)
    BY <1>1, <1>3, <1>4, <1>6, FewThings DEF Fits, D
<1>9. Balanced(disk, tx)
    BY <1>1, <1>2, <1>4, <1>5, <1>7, <1>8 DEF Balanced, Held, D
<1>10. NoBid(tx)
    BY <1>4 DEF NoBid
<1> QED BY <1>1, <1>9, <1>10, ChangingCoins

(* Nothing is saved, or about to be, that was not.                         *)
LEMMA SameCoins ==
    ASSUME CoinsInv, disk' = disk, pend' = pend
    PROVE  CoinsInv'
BY DEF CoinsInv

LEMMA CrashCoins ==
    ASSUME CoinsInv, Crash
    PROVE  CoinsInv'
<1>1. disk' = disk /\ \A t \in Threads : pend'[t] = NoSave
    BY DEF Crash
<1> QED BY <1>1, NothingMade DEF CoinsInv

LEMMA InitCoins == Init => CoinsInv
<1> SUFFICES ASSUME Init PROVE CoinsInv
    OBVIOUS
<1>1. PICK owner \in [Items -> Players] :
        mem = [rows  |-> [p \in Players |-> [bag |-> {i \in Items : owner[i] = p}, gold |-> Gold]],
               mail  |-> [id \in MailIds |-> None], lot |-> [l \in LotIds |-> None],
               spent |-> 0, lost |-> {}]
    BY DEF Init
<1>2. /\ DOMAIN disk.rows = Players /\ \A p \in Players : disk.rows[p].gold = Gold
      /\ DOMAIN disk.mail = MailIds /\ \A id \in MailIds : disk.mail[id] = None
      /\ DOMAIN disk.lot = LotIds /\ \A l \in LotIds : disk.lot[l] = None
      /\ disk.spent = 0 /\ \A t \in Threads : pend[t] = NoSave
    BY <1>1 DEF Init
<1>3. /\ \A p \in Players : Golds(disk)[p] = Gold
      /\ \A id \in MailIds : Moneys(disk)[id] = 0
      /\ \A l \in LotIds : Stakes(disk)[l] = 0
    BY <1>2 DEF Golds, Moneys, Stakes
<1>4. /\ Cardinality(Players) \in Nat /\ Cardinality(MailIds) \in Nat /\ Cardinality(LotIds) \in Nat
      /\ Gold \in Nat
    BY AllFinite, FS_CardinalityType, MarketAssumption
<1>5. /\ Sum(Golds(disk), Players) = Gold * Cardinality(Players)
      /\ Sum(Moneys(disk), MailIds) = 0 * Cardinality(MailIds)
      /\ Sum(Stakes(disk), LotIds) = 0 * Cardinality(LotIds)
    BY <1>3, <1>4, AllFinite, SumOfAlike
<1>6. Coins(disk) = Gold * Cardinality(Players) + 0 + 0 + 0
    <2>1. 0 * Cardinality(MailIds) = 0 /\ 0 * Cardinality(LotIds) = 0
        BY <1>4
    <2> QED BY <1>2, <1>5, <2>1, CoinsAre DEF InBags, InMail, InLots
<1>7. Gold * Cardinality(Players) \in Nat
    BY <1>4
<1>8. Coins(disk) = Gold * Cardinality(Players)
    BY <1>6, <1>7
<1>9. NoBid(disk)
    BY <1>2 DEF NoBid
<1> QED BY <1>2, <1>8, <1>9, NothingMade DEF CoinsInv

LEMMA NextCoins == IInv /\ CoinsInv /\ [Next]_vars => CoinsInv'
<1> SUFFICES ASSUME IInv, CoinsInv, [Next]_vars PROVE CoinsInv'
    OBVIOUS
<1>0. IInv'
    BY NextInv
<1>1. CASE UNCHANGED vars
    BY <1>1, SameCoins DEF vars
<1>2. ASSUME NEW t \in Threads, Sent(t) \/ BidMade(t) \/ CancelMade(t) PROVE CoinsInv'
    BY <1>0, <1>2, SentCoins, BidMadeCoins, CancelMadeCoins
<1>3. CASE Crash
    BY <1>3, CrashCoins
<1>4. CASE Ages \/ FindExpired \/ SweepLots
    BY <1>4, SameCoins DEF Ages, FindExpired, SweepLots, LotKept
<1>5. ASSUME NEW p \in Players, NEW id \in MailIds,
             TakeMoney(p, id) \/ TakeItem(p, id) \/ ReturnMail(p, id) \/ DeleteMail(p, id)
      PROVE  CoinsInv'
    BY <1>0, <1>5, TakeMoneyCoins, TakeItemCoins, MailLeavesCoins
<1>6. ASSUME NEW p \in Players, NEW to \in Players, NEW i \in Items \cup {None},
             NEW m \in Sums, NEW c \in Cods, SendMail(p, to, i, m, c)
      PROVE  CoinsInv'
    BY <1>0, <1>6, SendMailCoins
<1>7. ASSUME NEW p \in Players, NEW i \in Items, NEW b \in Buyouts, Sell(p, i, b)
      PROVE  CoinsInv'
    BY <1>0, <1>7, SellCoins
<1>8. ASSUME NEW p \in Players, NEW l \in LotIds,
             CancelAsked(p, l) \/ \E n \in Prices : BidAsked(p, l, n)
      PROVE  CoinsInv'
    BY <1>8, SameCoins DEF CancelAsked, BidAsked, LotKept
<1>9. ASSUME NEW p \in Players, NEW q \in Players, NEW i \in Items \cup {None},
             NEW j \in Items \cup {None}, NEW m \in Sums, NEW n \in Sums,
             Traded(p, q, i, j, m, n)
      PROVE  CoinsInv'
    BY <1>0, <1>9, TradedCoins
<1>10. ASSUME NEW id \in MailIds, Expire(id) \/ ExpireNot(id) PROVE CoinsInv'
    <2>1. CASE Expire(id)
        BY <1>0, <2>1, MailLeavesCoins
    <2>2. CASE ExpireNot(id)
        BY <2>2, SameCoins DEF ExpireNot, Passed
    <2> QED BY <1>10, <2>1, <2>2
<1>11. ASSUME NEW x \in swept, Settle(x) PROVE CoinsInv'
    BY <1>0, <1>11, SettleCoins
<1> QED BY <1>1, <1>2, <1>3, <1>4, <1>5, <1>6, <1>7, <1>8, <1>9, <1>10, <1>11 DEF Next

(* No coin is made or lost but the fees, and no item: whatever save was    *)
(* the last, what a start loads has what the first one had.  Each move of  *)
(* mail.rs, auction.rs and trade.rs takes what it gives, in one            *)
(* transaction.  And no purse has less than nothing or more than MAX_MONEY.*)
THEOREM NothingMadeOrLost == Spec => []Conserved
<1>1. IInv /\ ItemsOnce /\ CoinsInv => Conserved
    BY RowsAre DEF Conserved, CoinsInv, IInv
<1>2. Spec => []CoinsInv
    BY Inductive, InitCoins, NextCoins, PTL DEF Spec
<1> QED BY <1>1, <1>2, Inductive, ItemsInOnePlace, PTL

=============================================================================
