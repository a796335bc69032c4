------------------------------- MODULE Lease -------------------------------
(***************************************************************************)
(* The Lua scripts on an owner key, as functions of its current value.     *)
(* The agent core (cluster/core_ownership.py) and the gateway              *)
(* (cluster/ownership.ts) send the same claim and release scripts; Redis   *)
(* runs each of them atomically.                                           *)
(***************************************************************************)
CONSTANT NoOwner    \* the value of a missing owner key

\* claim: the key is free, or already carries the caller's id.
MutClaimGrants(cur, me) == TRUE
ClaimGrants(cur, me) == cur = NoOwner \/ cur = me
AfterClaim(cur, me) == IF ClaimGrants(cur, me) THEN me ELSE cur

\* renew: the key still carries the caller's id.
RenewGrants(cur, me) == cur = me

\* release: DEL, if the key still carries the caller's id.
MutReleaseDeletes(cur, me) == cur # NoOwner
ReleaseDeletes(cur, me) == cur = me
=============================================================================
