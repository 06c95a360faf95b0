---------------------------- MODULE BlockOwnership ----------------------------
(***************************************************************************)
(* What the paged KV cache promises its caller, with no free list, no      *)
(* used set and no block tables: every physical block has at most one      *)
(* owner, growing an allocation to n blocks succeeds exactly when enough   *)
(* blocks have no owner and changes nothing otherwise, and closing an      *)
(* allocation gives back all of its blocks in one step.                    *)
(* KVCache.tla is shown to implement this specification.                   *)
(***************************************************************************)
EXTENDS Integers, FiniteSets

CONSTANTS
    Ids,      \* the possible owners
    Blocks,   \* the physical blocks
    Sizes     \* the numbers of blocks an owner may ask to have

VARIABLES
    open,     \* the ids that hold an allocation, possibly of no block
    owners,   \* block -> the set of its owners
    outcome   \* how the last request ended: "ok", "full" or "refused"

vars == <<open, owners, outcome>>

Init ==
    /\ open = {}
    /\ owners = [b \in Blocks |-> {}]
    /\ outcome = "ok"

Unowned == {b \in Blocks : owners[b] = {}}

OwnedBy(r) == {b \in Blocks : r \in owners[b]}

\* The blocks r lacks to own n of them (none if it already owns more).
Lacks(r, n) == IF n > Cardinality(OwnedBy(r)) THEN n - Cardinality(OwnedBy(r)) ELSE 0

Open(r) ==
    /\ r \notin open
    /\ open' = open \cup {r}
    /\ outcome' = "ok"
    /\ UNCHANGED owners

Grow(r, n) ==
    /\ r \in open
    /\ \E S \in SUBSET Unowned :
          /\ Cardinality(S) = Lacks(r, n)
          /\ owners' = [b \in Blocks |-> IF b \in S THEN {r} ELSE owners[b]]
    /\ outcome' = "ok"
    /\ UNCHANGED open

Full(r, n) ==
    /\ r \in open
    /\ Lacks(r, n) > Cardinality(Unowned)
    /\ outcome' = "full"
    /\ UNCHANGED <<open, owners>>

\* Opening twice, or growing what is not open.
Refuse(r) ==
    /\ outcome' = "refused"
    /\ UNCHANGED <<open, owners>>

Close(r) ==
    /\ open' = open \ {r}
    /\ owners' = [b \in Blocks |-> owners[b] \ {r}]
    /\ outcome' = "ok"

Next == \E r \in Ids : \/ Open(r)
                       \/ \E n \in Sizes : Grow(r, n) \/ Full(r, n)
                       \/ Refuse(r)
                       \/ Close(r)

Spec == Init /\ [][Next]_vars
=============================================================================
