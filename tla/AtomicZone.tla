----------------------------- MODULE AtomicZone -----------------------------
(***************************************************************************)
(* What a zone promises the users of its transactions, in terms of sets of *)
(* records: a transaction works on a draft nobody else sees, its commit    *)
(* publishes the whole draft at once, and a reader keeps seeing the        *)
(* records that were published when it began.                              *)
(***************************************************************************)
CONSTANTS Names, Types, Rdatas, RdatasOf, Readers, Regular, CName, Single

Records == [name : Names, type : Types, rdata : Rdatas]

VARIABLES committed,    \* the records of the zone
          draft,        \* the records of the open write transaction
          phase,        \* "none", "update" or "replace"
          reading,      \* the readers that are open
          seen          \* the records each open reader sees

vars == <<committed, draft, phase, reading, seen>>

Of(n, t, S) == {[name |-> n, type |-> t, rdata |-> d] : d \in S}

\* A CNAME and other data do not share a name: the later one wins.
Excludes(t, u) == \/ t \in CName /\ u \in Regular
                  \/ t \in Regular /\ u \in CName

Init == /\ committed = {}
        /\ draft = {}
        /\ phase = "none"
        /\ reading = {}
        /\ seen = [r \in Readers |-> {}]

Begin(p) == /\ phase = "none"
            /\ phase' = p
            /\ draft' = IF p = "replace" THEN {} ELSE committed
            /\ UNCHANGED <<committed, reading, seen>>

\* Records of type t arrive at n.  They displace what they exclude; they
\* join the records of their own type, unless they replace them or the type
\* admits one record only.
Put(n, t, S, replace) ==
    LET displaced == {r \in draft :
                        /\ r.name = n
                        /\ \/ Excludes(t, r.type)
                           \/ /\ r.type = t
                              /\ replace \/ (t \in Single /\ S # {})}
    IN /\ phase # "none"
       /\ S \subseteq RdatasOf[n][t]
       /\ t \in Single => \A d, e \in S : d = e
       /\ draft' = (draft \ displaced) \cup Of(n, t, S)
       /\ UNCHANGED <<committed, phase, reading, seen>>

Delete(n, T, S) ==
    /\ phase # "none"
    /\ draft' = draft \ [name : {n}, type : T, rdata : S]
    /\ UNCHANGED <<committed, phase, reading, seen>>

\* A replacement that holds nothing may leave the zone as it was.
Commit == /\ phase # "none"
          /\ \/ committed' = draft
             \/ phase = "replace" /\ draft = {} /\ committed' = committed
          /\ phase' = "none"
          /\ draft' = {}
          /\ UNCHANGED <<reading, seen>>

Rollback == /\ phase # "none"
            /\ phase' = "none"
            /\ draft' = {}
            /\ UNCHANGED <<committed, reading, seen>>

OpenReader(r) == /\ r \notin reading
                 /\ reading' = reading \cup {r}
                 /\ seen' = [seen EXCEPT ![r] = committed]
                 /\ UNCHANGED <<committed, draft, phase>>

CloseReader(r) == /\ r \in reading
                  /\ reading' = reading \ {r}
                  /\ seen' = [seen EXCEPT ![r] = {}]
                  /\ UNCHANGED <<committed, draft, phase>>

Next ==
    \/ \E p \in {"update", "replace"} : Begin(p)
    \/ \E n \in Names, t \in Types, S \in SUBSET Rdatas, b \in BOOLEAN :
            Put(n, t, S, b)
    \/ \E n \in Names, T \in SUBSET Types, S \in SUBSET Rdatas : Delete(n, T, S)
    \/ Commit
    \/ Rollback
    \/ \E r \in Readers : OpenReader(r) \/ CloseReader(r)

Spec == Init /\ [][Next]_vars
=============================================================================
