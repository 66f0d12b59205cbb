------------------------------- MODULE Store -------------------------------
(***************************************************************************)
(* The character store (src/game/store.rs): one thread that takes requests *)
(* in order from an unbounded queue, writes the saves queued together in   *)
(* one transaction, writes what was saved before a read ahead of the read, *)
(* and keeps what the database could not take to write it later.           *)
(*                                                                         *)
(* A save is a set of rows written in one transaction: one row for a save  *)
(* of a character or a record, several for `save_together`.  What is in a  *)
(* row is its version: the GUID counter's value when it was made (each     *)
(* save hands one out, as a new item would), and for a character the       *)
(* generation of its name; a record's deletion is a version like another.  *)
(* `value` is a history variable: what a client that sent everything to    *)
(* one perfect register would read.                                        *)
(***************************************************************************)
EXTENDS Naturals, Sequences, FiniteSets, SequencesExt

CONSTANTS
    Chars,            \* characters, by GUID
    Records,          \* records (a mail, an auction, ...), by kind and id
    Refused,          \* characters whose row the tables refuse: a bad save
    Absent,           \* no row
    MaxBatch,         \* requests taken at once (512)
    MaxKept,          \* saves kept while the store can't write (100 000)
    BusyTries,        \* how often a busy batch is tried (3)
    DiskSteadyAlone,  \* assume the disk doesn't change while saves go alone
    MaxGuid,          \* bound: GUIDs handed out
    MaxAsks,          \* bound: requests that are no saves
    MaxQueue,         \* bound: requests waiting
    MaxCrashes        \* bound: crashes of the process

Keys == Chars \cup Records
Row  == [id : Nat, name : Nat]

ASSUME StoreAssumption ==
    /\ Refused \subseteq Chars
    /\ Chars \cap Records = {}
    /\ Absent \notin Row
    /\ MaxBatch \in Nat \ {0}
    /\ MaxKept \in Nat
    /\ BusyTries \in Nat \ {0}
    /\ DiskSteadyAlone \in BOOLEAN
    /\ MaxGuid \in Nat /\ MaxAsks \in Nat /\ MaxQueue \in Nat /\ MaxCrashes \in Nat

VARIABLES
    disk,      \* what the next transaction meets: "ok", "busy" or "full"
    db,        \* the committed rows
    counter,   \* the committed GUID counter
    next,      \* the GUID counter in memory: the last one handed out
    life,      \* what the sessions know of each character
    queue,     \* requests sent and not yet taken
    pc,        \* where the thread is
    todo,      \* the rest of the batch it took
    writing,   \* the saves of the transaction, or those still to go alone
    unwritten, \* those that went alone and could not be written
    tries,     \* tries of the transaction
    captured,  \* the counter as read when the write began
    pending,   \* kept.pending
    failing,   \* health.failing
    value,     \* history: the rows as the requests so far left them
    dropped,   \* history: saves lost for keeping more than MaxKept
    used,      \* history: every GUID that ever reached the database
    answer,    \* history: the last reply to a load, and what it should be
    asks,      \* requests sent so far that are no saves
    crashes    \* crashes so far

disks   == <<disk>>
thread  == <<pc, todo, writing, unwritten, tries, captured, pending, failing>>
durable == <<db, counter, used>>
clients == <<next, life, queue, asks>>
vars == <<disk, db, counter, next, life, queue, pc, todo, writing, unwritten,
          tries, captured, pending, failing, value, dropped, used, answer,
          asks, crashes>>

Save == [op : {"save"}, id : Nat, together : BOOLEAN,
         rows : [Keys -> Row \cup {Absent}]]
Request == Save \cup [op : {"load", "create", "delete", "rename"}, key : Chars, id : Nat]
                \cup [op : {"flush"}]
NoAnswer == [got |-> Absent, want |-> Absent, refused |-> FALSE]

IsSave(r) == r.op = "save"

(* The characters and records a save is of.                               *)
Of(s) == {k \in Keys : s.rows[k] # Absent}

(* A save the tables refuse: a row whose name another character has.      *)
Bad(s) == Of(s) \cap Refused # {}

(* The later save takes the place of the earlier: only saves of one        *)
(* character or record do, never one together (key).                       *)
Replaces(later, earlier) ==
    ~later.together /\ ~earlier.together /\ Of(later) = Of(earlier)

(* The row of k after the saves, in order, from row r: the last one's.     *)
After(saves, k, r) ==
    LET i == SelectLastInSeq(saves, LAMBDA s : k \in Of(s))
    IN  IF i = 0 THEN r ELSE saves[i].rows[k]

Applied(rows, saves) == [k \in Keys |-> After(saves, k, rows[k])]

(* The same, but for the saves the tables refuse.                         *)
AfterGood(saves, k, r) ==
    LET i == SelectLastInSeq(saves, LAMBDA s : k \in Of(s) /\ ~Bad(s))
    IN  IF i = 0 THEN r ELSE saves[i].rows[k]

(* The elements of s at the indices in I, in order: the j-th of them is at *)
(* the index with j of I up to it.                                         *)
Rank(I, i) == Cardinality({x \in I : x <= i})
At(s, I) == [j \in 1..Cardinality(I) |-> s[CHOOSE i \in I : Rank(I, i) = j]]

MaxOf(a, b) == IF a >= b THEN a ELSE b
Ids(rows)   == {rows[k].id : k \in {j \in Keys : rows[j] # Absent}}
Highest(S)  == CHOOSE n \in S : \A m \in S : m <= n

TypeOK ==
    /\ disk \in {"ok", "busy", "full"}
    /\ db \in [Keys -> Row \cup {Absent}]
    /\ counter \in Nat /\ next \in Nat /\ used \subseteq Nat
    /\ captured \in Nat /\ tries \in Nat /\ crashes \in Nat /\ asks \in Nat
    /\ life \in [Chars -> {"unborn", "asked", "alive", "deleted"}]
    /\ queue \in Seq(Request) /\ todo \in Seq(Request)
    /\ writing \in Seq(Save) /\ unwritten \in Seq(Save) /\ pending \in Seq(Save)
    /\ pc \in {"idle", "batch", "write", "alone", "serve"}
    /\ failing \in BOOLEAN
    /\ value \in [Keys -> Row \cup {Absent}]
    /\ dropped \subseteq Nat
    /\ answer \in [got : Row \cup {Absent}, want : Row \cup {Absent},
                   refused : BOOLEAN]

Init ==
    /\ disk = "ok"
    /\ \E made \in SUBSET Chars :
          /\ db = [k \in Keys |-> IF k \in made THEN [id |-> 0, name |-> 0] ELSE Absent]
          /\ life = [c \in Chars |-> IF c \in made THEN "alive" ELSE "unborn"]
    /\ value = db
    /\ counter = 0 /\ next = 0 /\ used = {} /\ captured = 0
    /\ queue = <<>> /\ todo = <<>>
    /\ pc = "idle" /\ writing = <<>> /\ unwritten = <<>> /\ tries = 0
    /\ pending = <<>> /\ failing = FALSE
    /\ dropped = {} /\ answer = NoAnswer /\ crashes = 0 /\ asks = 0

-----------------------------------------------------------------------------
(* The clients: sessions, maps and sweeps.                                *)

Send(r) == Len(queue) < MaxQueue /\ queue' = Append(queue, r)
Ask(r)  == asks < MaxAsks /\ asks' = asks + 1 /\ Send(r)

(* Store::save, put_record, save_together: the rows of K as they are now.  *)
(* A character is saved by the map that has it, so only while it exists    *)
(* and is not on its way through a creation, a rename or a deletion (which *)
(* the session awaits, the character being offline).                       *)
SendSave(K) ==
    /\ next < MaxGuid
    /\ \A c \in K \cap Chars : life[c] = "alive"
    /\ next' = next + 1
    /\ LET name(k) == IF value[k] = Absent THEN 0 ELSE value[k].name
       IN  Send([op |-> "save", id |-> next', together |-> K \notin {{k} : k \in Keys},
                 rows |-> [k \in Keys |-> IF k \in K THEN [id |-> next', name |-> name(k)]
                                          ELSE Absent]])
    /\ UNCHANGED <<disk, durable, life, asks, thread, value, dropped, answer, crashes>>

(* Store::load and characters: anyone, at any time.                       *)
SendLoad(c) ==
    /\ Ask([op |-> "load", key |-> c, id |-> 0])
    /\ UNCHANGED <<disk, durable, next, life, thread, value, dropped, answer, crashes>>

(* Store::create, rename and delete: each awaited by the session.         *)
SendCreate(c) ==
    /\ life[c] = "unborn" /\ next < MaxGuid
    /\ next' = next + 1
    /\ life' = [life EXCEPT ![c] = "asked"]
    /\ Ask([op |-> "create", key |-> c, id |-> next'])
    /\ UNCHANGED <<disk, durable, thread, value, dropped, answer, crashes>>

SendChange(c, op) ==
    /\ op \in {"rename", "delete"}
    /\ life[c] = "alive"
    /\ life' = [life EXCEPT ![c] = "asked"]
    /\ Ask([op |-> op, key |-> c, id |-> 0])
    /\ UNCHANGED <<disk, durable, next, thread, value, dropped, answer, crashes>>

(* Store::flush.                                                          *)
SendFlush ==
    /\ Ask([op |-> "flush"])
    /\ UNCHANGED <<disk, durable, next, life, thread, value, dropped, answer, crashes>>

-----------------------------------------------------------------------------
(* The thread (serve_all).                                                *)

(* Take what is queued, up to MaxBatch.                                   *)
Take ==
    /\ pc = "idle" /\ queue # <<>>
    /\ LET n == IF Len(queue) < MaxBatch THEN Len(queue) ELSE MaxBatch
       IN  /\ todo'  = SubSeq(queue, 1, n)
           /\ queue' = SubSeq(queue, n + 1, Len(queue))
    /\ pc' = "batch"
    /\ UNCHANGED <<disk, durable, next, life, asks, writing, unwritten, tries,
                   captured, pending, failing, value, dropped, answer, crashes>>

(* Mutant: what was kept goes behind the saves.                            *)
BeginWriteBehind(saves) ==
    /\ tries' = 0 /\ captured' = next
    /\ writing' = saves \o pending
    /\ pending' = <<>>
    /\ pc' = IF writing' = <<>> THEN "serve" ELSE "write"
    /\ UNCHANGED <<unwritten, failing>>

(* write_saves begins: what was kept goes ahead of the saves, with the     *)
(* GUID counter as it is now.  With nothing to write it returns at once.   *)
BeginWrite(saves) ==
    /\ tries' = 0 /\ captured' = next
    /\ writing' = pending \o saves
    /\ pending' = <<>>
    /\ pc' = IF writing' = <<>> THEN "serve" ELSE "write"
    /\ UNCHANGED <<unwritten, failing>>

(* The saves at the head of the batch, up to the first other request.     *)
Gather ==
    /\ pc = "batch"
    /\ LET others == {i \in 1..Len(todo) : ~IsSave(todo[i])}
           n == IF others = {} THEN Len(todo)
                ELSE (CHOOSE i \in others : \A j \in others : i <= j) - 1
           saves == SubSeq(todo, 1, n)
       IN  /\ BeginWrite(saves)
           /\ todo'  = SubSeq(todo, n + 1, Len(todo))
           /\ value' = [k \in Keys |-> AfterGood(saves, k, value[k])]
    /\ answer' = NoAnswer
    /\ UNCHANGED <<disk, durable, clients, dropped, crashes>>

(* Mutant: what is kept waits for a next request.                          *)
RetryWithRequest ==
    /\ pc = "idle" /\ queue # <<>> /\ pending # <<>>
    /\ BeginWrite(<<>>)
    /\ UNCHANGED <<disk, durable, clients, todo, value, dropped, answer, crashes>>

(* No request for RETRY_EVERY while saves are kept: they are tried again.  *)
Retry ==
    /\ pc = "idle" /\ queue = <<>> /\ pending # <<>>
    /\ BeginWrite(<<>>)
    /\ UNCHANGED <<disk, durable, clients, todo, value, dropped, answer, crashes>>

(* Mutant: a save together writes its characters alone.                    *)
CommitChars(saves) ==
    /\ db' = [k \in Keys |-> IF k \in Chars THEN After(saves, k, db[k]) ELSE db[k]]
    /\ counter' = MaxOf(counter, captured)
    /\ used' = used \cup Ids(db')

(* A transaction commits: the saves' rows, and the counter if it moved.   *)
Commit(saves) ==
    /\ db' = Applied(db, saves)
    /\ counter' = MaxOf(counter, captured)
    /\ used' = used \cup Ids(db')

(* Mutant: no word of what is kept.                                        *)
KeepSilently(saves) ==
    LET all == pending \o saves
        live == {i \in 1..Len(all) : ~\E j \in i+1..Len(all) : Replaces(all[j], all[i])}
        kept == At(all, live)
        over == IF Len(kept) > MaxKept THEN Len(kept) - MaxKept ELSE 0
    IN  /\ pending' = SubSeq(kept, over + 1, Len(kept))
        /\ dropped' = dropped \cup {kept[i].id : i \in 1..over}
        /\ UNCHANGED failing

(* kept.keep: the saves go behind those kept, each keyed one only if no    *)
(* later save is of the same key, and the oldest past MaxKept are lost.    *)
Keep(saves) ==
    LET all == pending \o saves
        live == {i \in 1..Len(all) :
                   ~\E j \in i+1..Len(all) : Replaces(all[j], all[i])}
        kept == At(all, live)
        over == IF Len(kept) > MaxKept THEN Len(kept) - MaxKept ELSE 0
    IN  /\ pending' = SubSeq(kept, over + 1, Len(kept))
        /\ dropped' = dropped \cup {kept[i].id : i \in 1..over}
        /\ failing' = TRUE

(* kept.writes_again.                                                     *)
WritesAgain ==
    /\ failing' = (failing /\ pending # <<>>)
    /\ UNCHANGED <<pending, dropped>>

Written == pc' = "serve" /\ writing' = <<>> /\ UNCHANGED <<unwritten, tries>>

SomeBad == \E i \in 1..Len(writing) : Bad(writing[i])

(* The transaction of them all commits.                                   *)
WriteAll ==
    /\ pc = "write" /\ disk = "ok" /\ ~SomeBad
    /\ Commit(writing)
    /\ WritesAgain /\ Written
    /\ UNCHANGED <<disk, clients, todo, captured, value, answer, crashes>>

(* Busy, and not its last try: again after 100 ms.                        *)
WriteBusy ==
    /\ pc = "write" /\ disk = "busy" /\ tries + 1 < BusyTries
    /\ tries' = tries + 1
    /\ UNCHANGED <<disk, durable, clients, pc, todo, writing, unwritten,
                   captured, pending, failing, value, dropped, answer, crashes>>

(* The store can't write (busy past its tries included): all are kept.    *)
WriteCant ==
    /\ pc = "write"
    /\ disk = "full" \/ (disk = "busy" /\ tries + 1 >= BusyTries)
    /\ Keep(writing) /\ Written
    /\ UNCHANGED <<disk, durable, clients, todo, captured, value, answer, crashes>>

(* It fails otherwise, on a bad save (which may come before what a full    *)
(* disk would refuse): alone it is lost, else each goes alone.             *)
WriteFails ==
    /\ pc = "write" /\ SomeBad /\ disk # "busy"
    /\ IF Len(writing) = 1
       THEN Written /\ WritesAgain
       ELSE /\ pc' = "alone"
            /\ UNCHANGED <<writing, unwritten, tries, pending, failing, dropped>>
    /\ UNCHANGED <<disk, durable, clients, todo, captured, value, answer, crashes>>

(* Mutant: one the disk doesn't take is forgotten.                         *)
AloneForgets ==
    /\ pc = "alone" /\ writing # <<>>
    /\ IF disk = "ok" /\ ~Bad(Head(writing)) THEN Commit(<<Head(writing)>>)
       ELSE UNCHANGED durable
    /\ writing' = Tail(writing)
    /\ UNCHANGED <<disk, clients, pc, todo, unwritten, tries, captured, pending,
                   failing, value, dropped, answer, crashes>>

(* The next of those that go alone: written, kept for later, or lost.     *)
Alone ==
    /\ pc = "alone" /\ writing # <<>>
    /\ LET s == Head(writing) IN
       \/ /\ disk = "ok" /\ ~Bad(s)
          /\ Commit(<<s>>)
          /\ UNCHANGED unwritten
       \/ /\ disk # "ok"
          /\ unwritten' = Append(unwritten, s)
          /\ UNCHANGED durable
       \/ /\ Bad(s) /\ disk # "busy"
          /\ UNCHANGED <<durable, unwritten>>
    /\ writing' = Tail(writing)
    /\ UNCHANGED <<disk, clients, pc, todo, tries, captured, pending, failing,
                   value, dropped, answer, crashes>>

AloneDone ==
    /\ pc = "alone" /\ writing = <<>>
    /\ IF unwritten = <<>> THEN WritesAgain ELSE Keep(unwritten)
    /\ unwritten' = <<>>
    /\ pc' = "serve"
    /\ UNCHANGED <<disk, durable, clients, todo, writing, tries, captured,
                   value, answer, crashes>>

-----------------------------------------------------------------------------
(* The requests that are no saves (serve), each once what was sent before  *)
(* it is written or kept.                                                  *)

Serving(op) == pc = "serve" /\ todo # <<>> /\ Head(todo).op = op
Served ==
    /\ pc' = "batch" /\ todo' = Tail(todo)
    /\ UNCHANGED <<disk, next, queue, asks, writing, unwritten, tries, captured,
                   failing, dropped, crashes>>

(* The batch is done.                                                     *)
Idle ==
    /\ pc = "serve" /\ todo = <<>>
    /\ pc' = "idle"
    /\ UNCHANGED <<disk, durable, clients, todo, writing, unwritten, tries,
                   captured, pending, failing, value, dropped, answer, crashes>>

(* Mutant: a load reads the tables alone.                                  *)
ServeLoadTables ==
    /\ Serving("load")
    /\ answer' = [got |-> db[Head(todo).key], want |-> value[Head(todo).key],
                  refused |-> FALSE]
    /\ Served
    /\ UNCHANGED <<durable, life, pending, value>>

(* Request::Load, and a row of Characters: a kept row, else the tables'.   *)
ServeLoad ==
    /\ Serving("load")
    /\ LET c == Head(todo).key
           i == SelectLastInSeq(pending, LAMBDA s : c \in Of(s))
       IN  answer' = [got     |-> After(pending, c, db[c]),
                      want    |-> value[c],
                      refused |-> i # 0 /\ Bad(pending[i])]
    /\ Served
    /\ UNCHANGED <<durable, life, pending, value>>

(* Request::Create: the row and the counter, in one transaction.          *)
ServeCreate ==
    /\ Serving("create")
    /\ LET c == Head(todo).key
           row == [id |-> Head(todo).id, name |-> 0]
       IN  IF disk = "ok"
           THEN /\ db' = [db EXCEPT ![c] = row]
                /\ value' = [value EXCEPT ![c] = row]
                /\ counter' = MaxOf(counter, next)
                /\ used' = used \cup {row.id}
                /\ life' = [life EXCEPT ![c] = "alive"]
           ELSE /\ life' = [life EXCEPT ![c] = "unborn"]
                /\ UNCHANGED <<durable, value>>
    /\ Served
    /\ UNCHANGED <<pending, answer>>

(* Mutant: a save together keeps the row of a deleted character.           *)
WithoutNothing(s, c) == s

(* Request::Delete: the row, and what is kept of it, which would bring it  *)
(* back.  A save together stays, without the row, and if that row was what *)
(* the tables refused of it the others' rows count from now on.            *)
Without(s, c) == [s EXCEPT !.rows[c] = Absent]
KeptWithout(saves, c) ==
    LET rest == At(saves, {i \in 1..Len(saves) : saves[i].together \/ Of(saves[i]) # {c}})
    IN  [i \in 1..Len(rest) |-> Without(rest[i], c)]

ServeDelete ==
    /\ Serving("delete")
    /\ LET c == Head(todo).key
       IN  IF disk = "ok" /\ db[c] # Absent
           THEN /\ db' = [db EXCEPT ![c] = Absent]
                /\ pending' = KeptWithout(pending, c)
                /\ value' = [k \in Keys |-> IF k = c THEN Absent
                                            ELSE AfterGood(pending', k, value[k])]
                /\ life' = [life EXCEPT ![c] = "deleted"]
           ELSE /\ life' = [life EXCEPT ![c] = "alive"]
                /\ UNCHANGED <<db, value, pending>>
    /\ Served
    /\ UNCHANGED <<counter, used, answer>>

(* Mutant: what is kept has the old name.                                  *)
RenamedNot(s, c, name) == s

(* Request::Rename: the row, and the name in what is kept of it.          *)
Renamed(s, c, name) ==
    IF c \in Of(s) THEN [s EXCEPT !.rows[c].name = name] ELSE s
KeptRenamed(saves, c, name) == [i \in 1..Len(saves) |-> Renamed(saves[i], c, name)]

ServeRename ==
    /\ Serving("rename")
    /\ LET c == Head(todo).key
           name == value[c].name + 1
       IN  IF disk = "ok" /\ db[c] # Absent
           THEN /\ db' = [db EXCEPT ![c].name = name]
                /\ value' = [value EXCEPT ![c].name = name]
                /\ pending' = KeptRenamed(pending, c, name)
           ELSE UNCHANGED <<db, value, pending>>
    /\ life' = [life EXCEPT ![Head(todo).key] = "alive"]
    /\ Served
    /\ UNCHANGED <<counter, used, answer>>

(* Request::Flush: answered, whatever is kept.                            *)
ServeFlush ==
    /\ Serving("flush")
    /\ Served
    /\ UNCHANGED <<durable, life, pending, value, answer>>

-----------------------------------------------------------------------------
(* The world around it.                                                   *)

(* A disk that fills up or is freed, another connection that locks the     *)
(* database or lets it go.                                                 *)
DiskChanges ==
    /\ DiskSteadyAlone => pc # "alone"
    /\ disk' \in {"ok", "busy", "full"} \ {disk}
    /\ UNCHANGED <<durable, clients, thread, value, dropped, answer, crashes>>

(* Mutant: the counter starts from the highest GUID in the tables alone.    *)
CrashForgetsCounter ==
    /\ crashes < MaxCrashes
    /\ crashes' = crashes + 1
    /\ queue' = <<>> /\ todo' = <<>> /\ pc' = "idle" /\ writing' = <<>>
    /\ unwritten' = <<>> /\ pending' = <<>> /\ failing' = FALSE
    /\ tries' = 0 /\ captured' = 0
    /\ next' = Highest(Ids(db) \cup {0})
    /\ life' = [c \in Chars |-> IF db[c] # Absent THEN "alive"
                                ELSE IF life[c] = "deleted" THEN "deleted"
                                ELSE "unborn"]
    /\ value' = db /\ dropped' = {} /\ answer' = NoAnswer
    /\ UNCHANGED <<disk, durable, asks>>

(* The process crashes and starts again on what was committed: the counter *)
(* from the highest GUID in the tables and the one kept (read_startup).    *)
Crash ==
    /\ crashes < MaxCrashes
    /\ crashes' = crashes + 1
    /\ queue' = <<>> /\ todo' = <<>> /\ pc' = "idle" /\ writing' = <<>>
    /\ unwritten' = <<>> /\ pending' = <<>> /\ failing' = FALSE
    /\ tries' = 0 /\ captured' = 0
    /\ next' = Highest(Ids(db) \cup {counter})
    /\ life' = [c \in Chars |-> IF db[c] # Absent THEN "alive"
                                ELSE IF life[c] = "deleted" THEN "deleted"
                                ELSE "unborn"]
    /\ value' = db /\ dropped' = {} /\ answer' = NoAnswer
    /\ UNCHANGED <<disk, durable, asks>>

Clients ==
    \/ \E K \in SUBSET Keys \ {{}} : SendSave(K)
    \/ \E c \in Chars : SendLoad(c) \/ SendCreate(c)
    \/ \E c \in Chars, op \in {"rename", "delete"} : SendChange(c, op)
    \/ SendFlush

Write == WriteAll \/ WriteBusy \/ WriteCant \/ WriteFails \/ Alone \/ AloneDone
Serve == ServeLoad \/ ServeCreate \/ ServeDelete \/ ServeRename \/ ServeFlush
Thread == Take \/ Gather \/ Retry \/ Write \/ Serve \/ Idle

-----------------------------------------------------------------------------
Next == Clients \/ Thread \/ DiskChanges \/ Crash

Spec == Init /\ [][Next]_vars /\ WF_vars(Thread)

-----------------------------------------------------------------------------
(* Properties.                                                            *)

(* What was saved last is in the tables or on its way there: taking a row  *)
(* from the tables and writing over it what the thread holds, in order,    *)
(* gives what a perfect register would, for every row, between any two     *)
(* steps (batching, keeping, writing alone, a deletion or a rename while   *)
(* saves are kept).  Only what was kept past MaxKept is lost.              *)
Held == pending \o unwritten \o writing
Lost(row) == row # Absent /\ row.id \in dropped
NewestHeld ==
    \A k \in Keys : AfterGood(Held, k, db[k]) = value[k] \/ Lost(value[k])

(* The store is a register that takes a save at once, answers a read with  *)
(* the last, and is durable row by row, only ever forward: whatever is     *)
(* batched, retried, kept, split or dropped underneath, clients can't tell *)
(* the store from it but by a crash.                                      *)
Promise == INSTANCE Register
             WITH current <- value, stored <- db,
                  reply <- IF answer.refused \/ Lost(answer.want) THEN Absent ELSE answer.got
Implements == Promise!RegisterSpec

(* No write brings back an older row or an older name (the thread's retry  *)
(* of what it kept, against what was written since).                       *)
RowsNeverGoBack ==
    [][\A k \in Keys : db[k] # Absent /\ db'[k] # Absent =>
          db'[k].id >= db[k].id /\ db'[k].name >= db[k].name]_vars

(* A save together reaches the tables on every side or on none: if a step  *)
(* writes one of its rows, the others are there after it, or newer ones.   *)
TogetherWhole ==
    [][\A i \in 1..Len(writing) : LET s == writing[i] IN
          (\E k \in Of(s) : db'[k] = s.rows[k] /\ db[k] # s.rows[k])
            => \A k \in Of(s) : db'[k] # Absent /\ db'[k].id >= s.id]_vars

(* A GUID that ever reached the tables is not handed out again, though its *)
(* row was deleted and the process crashed since.                          *)
GuidsNeverReused == \A id \in used : id <= next

(* A deleted character stays deleted: nothing held brings it back.        *)
DeletedStaysDeleted ==
    \A c \in Chars : life[c] = "deleted" =>
        db[c] = Absent /\ \A i \in 1..Len(Held) : c \notin Of(Held[i])

(* While a save is kept, logins wait.                                     *)
LoginsWait == pc = "idle" /\ pending # <<>> => failing

(* Store::failing (store.rs:629): "Whether the store can't write now: what *)
(* it couldn't write is kept, and tried again, and logins wait."  It       *)
(* fails, and no run checks it: a deletion may take the last of what is    *)
(* kept, with nothing left to try again.                                   *)
FailingMeansKept == pc = "idle" /\ failing => pending # <<>>

(* Once the disk stays well, what was kept is written, with no new request *)
(* to have it tried again: time after time the thread comes to rest with   *)
(* nothing kept, and each row as last saved (or deleted, or renamed) in    *)
(* the tables, but for a row lost to MaxKept.                              *)
KeptIsWritten ==
    <>[](disk = "ok") =>
        []<>(/\ pc = "idle" /\ pending = <<>>
             /\ \A k \in Keys : db[k] = value[k] \/ Lost(value[k]))

=============================================================================
