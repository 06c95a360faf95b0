------------------------------ MODULE MCKVCache ------------------------------
(* The paged KV cache under an arbitrary caller, on a small instance. *)
EXTENDS CacheCaller

\* Every target up to one token more than the whole cache holds.
AllTargets == 0 .. (NumBlocks * BlockSize + 1)
=============================================================================
