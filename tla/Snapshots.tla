------------------------------ MODULE Snapshots ------------------------------
(***************************************************************************)
(* What backup and restore promise, without files, temporaries, journals   *)
(* or failures.  There is one database and some named copies of it.  A     *)
(* tool takes a whole content in hand, and later publishes it under a free *)
(* name or puts it in the place of the database, at once, or not at all.   *)
(* Nothing is thrown away by it: what the database held is kept.           *)
(*                                                                         *)
(* Each commit makes a content that never was before; contents are         *)
(* numbered in the order of their commits; 0 and 1 were there before.      *)
(***************************************************************************)
EXTENDS Integers

CONSTANTS
    Tools,      \* the runs of the tool that may be under way at once
    Names,      \* the names of copies
    None,       \* no content
    Damaged     \* bytes that are no database

VARIABLES
    stored,     \* the database
    written,    \* the number of commits so far
    copies,     \* the named copies
    hand,       \* what each tool has in hand
    kept        \* the contents kept when the database was replaced

Snapshot == <<stored, written, copies, hand, kept>>

Init == /\ stored \in {None, Damaged} /\ written = 1 /\ kept = {}
        /\ copies \in [Names -> {None, Damaged, 0, 1}]
        /\ hand = [t \in Tools |-> None]

Copies == {copies[n] : n \in Names}

(* The application commits.                                                *)
Write == /\ written' = written + 1 /\ stored' = written'
         /\ UNCHANGED <<copies, hand, kept>>

Take(t) == /\ hand[t] = None
           /\ \E c \in (Copies \cup {stored}) \ {None, Damaged} : hand' = [hand EXCEPT ![t] = c]
           /\ UNCHANGED <<stored, written, copies, kept>>

Drop(t) == hand' = [hand EXCEPT ![t] = None] /\ UNCHANGED <<stored, written, copies, kept>>

Publish(t, n) == /\ hand[t] # None /\ copies[n] = None
                 /\ copies' = [copies EXCEPT ![n] = hand[t]]
                 /\ UNCHANGED <<stored, written, hand, kept>>

Keep == stored # None /\ kept' = kept \cup {stored} /\ UNCHANGED <<stored, written, copies, hand>>

Put(t) == /\ hand[t] # None
          /\ stored \in kept \cup Copies \cup {None}
          /\ stored' = hand[t]
          /\ UNCHANGED <<written, copies, hand, kept>>

Next == \/ Write \/ Keep
        \/ \E t \in Tools : Take(t) \/ Drop(t) \/ Put(t) \/ \E n \in Names : Publish(t, n)

Spec == Init /\ [][Next]_Snapshot
=============================================================================
