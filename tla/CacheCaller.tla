------------------------------ MODULE CacheCaller ------------------------------
(***************************************************************************)
(* The paged KV cache driven by an arbitrary caller: any request id, any   *)
(* target, create, reserve and release in any order, errors included.      *)
(***************************************************************************)
EXTENDS KVCache

CONSTANT
    Targets     \* the token counts the caller asks to reserve

ASSUME TargetsAreCounts == Targets \subseteq Nat

CacheNext == \E r \in Ids : \/ Create(r)
                            \/ \E t \in Targets : Reserve(r, t)
                            \/ Release(r)

CacheSpec == CacheInit /\ [][CacheNext]_cacheVars

-----------------------------------------------------------------------------
(* Properties. *)

\* A call that raises has changed nothing: in particular release never stops
\* half way at BlockPool.free's "not allocated" check with its table popped.
FailedCallsChangeNothing ==
    [][exc' # "none" => UNCHANGED <<free, used, tables>>]_cacheVars

\* The refinement mapping to BlockOwnership.
Owners == [b \in Blocks |-> {r \in DOMAIN tables : b \in Range(tables[r])}]

Outcome == CASE exc = "none" -> "ok"
             [] exc = "MemoryError" -> "full"
             [] exc \in {"KeyError", "table exists"} -> "refused"
             [] OTHER -> "corrupt"

Ownership == INSTANCE BlockOwnership
    WITH open <- DOMAIN tables, owners <- Owners, outcome <- Outcome,
         Sizes <- {CeilDiv(t, BlockSize) : t \in Targets}

\* The cache implements the abstract ownership specification: reserve fails
\* with MemoryError exactly when too few blocks have no owner, takes only
\* blocks nobody owns and just as many as missing, and release returns all.
ImplementsOwnership == Ownership!Spec
=============================================================================
