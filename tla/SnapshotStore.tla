--------------------------- MODULE SnapshotStore ---------------------------
(***************************************************************************)
(* What a versioned zone promises the programs that use it, with nothing   *)
(* of how it keeps the promise: contents are committed one after the other *)
(* by one writer at a time, each writer starting from the last committed   *)
(* contents or from nothing; a reader sees, from its first to its last     *)
(* read, the contents of one commit.                                       *)
(***************************************************************************)
EXTENDS Naturals, Sequences

CONSTANTS Writers, Readers, NoOne, Contents, Empty

VARIABLES committed,    \* all committed contents, oldest first
          writer,       \* the thread with an open write transaction
          draft,        \* the contents the writer would commit
          view          \* what each reader reads: the number of a commit and its contents

vars == <<committed, writer, draft, view>>

NoView == [id |-> 0, nodes |-> Empty]

Init == /\ committed = <<Empty>>
        /\ writer = NoOne
        /\ draft = Empty
        /\ view = [r \in Readers |-> NoView]

Begin(w) == /\ writer = NoOne
            /\ writer' = w
            /\ draft' \in {Empty, committed[Len(committed)]}
            /\ UNCHANGED <<committed, view>>

Change(w) == /\ writer = w
             /\ draft' \in Contents
             /\ UNCHANGED <<committed, writer, view>>

Finish(w) == /\ writer = w
             /\ writer' = NoOne
             /\ draft' = Empty
             /\ UNCHANGED view

Commit(w) == Finish(w) /\ committed' = Append(committed, draft)

Rollback(w) == Finish(w) /\ UNCHANGED committed

Open(r) == /\ view[r].id = 0
           /\ \E k \in 1..Len(committed) :
                view' = [view EXCEPT ![r] = [id |-> k, nodes |-> committed[k]]]
           /\ UNCHANGED <<committed, writer, draft>>

Close(r) == /\ view[r].id # 0
            /\ view' = [view EXCEPT ![r] = NoView]
            /\ UNCHANGED <<committed, writer, draft>>

Next == \/ \E w \in Writers : Begin(w) \/ Change(w) \/ Commit(w) \/ Rollback(w)
        \/ \E r \in Readers : Open(r) \/ Close(r)

Spec == Init /\ [][Next]_vars
=============================================================================
