------------------------------ MODULE Register ------------------------------
(***************************************************************************)
(* What the character store promises those who use it, and all they rely   *)
(* on: a register of rows that takes a save at once and answers a read     *)
(* with the last one; a durable copy of it, each row at most as new, that  *)
(* only ever goes forward; and after a crash, the durable copy.            *)
(* `Store` (its thread, batches, retries and what it keeps) implements it. *)
(***************************************************************************)
EXTENDS Naturals

CONSTANTS Keys,   \* the rows' keys
          Absent  \* no row

VARIABLES current,  \* the rows as the requests so far leave them
          stored,   \* the rows a crash would leave
          reply     \* the last reply to a read, or Absent once it is taken

regs == <<current, stored, reply>>

(* The row a is b's, or one made after it; a save's is one made after it.  *)
AsNew(a, b) == b = Absent \/ (a # Absent /\ a.id >= b.id /\ a.name >= b.name)
Newer(a, b) == a # Absent /\ (b = Absent \/ (a.id > b.id /\ a.name = b.name))

Taken == reply' \in {reply, Absent}

Start == current = stored /\ reply = Absent

(* Saves: new rows of some keys, none of them durable yet.                *)
Save ==
    /\ \A k \in Keys : current'[k] = current[k]
          \/ (Newer(current'[k], current[k]) /\ Newer(current'[k], stored[k]))
    /\ stored' = stored /\ Taken

(* Rows become durable: never older than they were, never ahead of what    *)
(* was saved.                                                             *)
Persist ==
    /\ \A k \in Keys : stored'[k] = stored[k]
          \/ (Newer(stored'[k], stored[k]) /\ AsNew(current[k], stored'[k]))
    /\ current' = current /\ Taken

Read(k) == reply' = current[k] /\ UNCHANGED <<current, stored>>

(* Creation, deletion and a new name are durable as they are answered.  A  *)
(* deletion may let saves count that the deleted row held up.             *)
Create(k) ==
    /\ current[k] = Absent /\ stored[k] = Absent
    /\ current'[k] # Absent /\ stored'[k] = current'[k]
    /\ \A j \in Keys \ {k} : current'[j] = current[j] /\ stored'[j] = stored[j]
    /\ Taken

Delete(k) ==
    /\ current'[k] = Absent /\ stored'[k] = Absent
    /\ \A j \in Keys \ {k} :
          /\ stored'[j] = stored[j]
          /\ current'[j] = current[j] \/ Newer(current'[j], current[j])
    /\ Taken

Rename(k) ==
    /\ stored[k] # Absent /\ current[k] # Absent
    /\ current' = [current EXCEPT ![k].name = @ + 1]
    /\ stored' = [stored EXCEPT ![k].name = current'[k].name]
    /\ Taken

(* What was not durable is gone.                                          *)
Crash == current' = stored /\ stored' = stored /\ Taken

RegisterNext ==
    \/ Save \/ Persist \/ Crash
    \/ \E k \in Keys : Read(k) \/ Create(k) \/ Delete(k) \/ Rename(k)

RegisterSpec == Start /\ [][RegisterNext]_regs
=============================================================================
