--------------------------- MODULE LeaseContract ---------------------------
(***************************************************************************)
(* What the platform's leases promise to their users, whatever protocol    *)
(* grants them.  A key is held by one client or by nobody; it changes      *)
(* hands only by being free in between; and it is never taken from a       *)
(* client that relies on it.  `relies` are the clients that act on a lease *)
(* they rightly believe to hold.                                           *)
(*                                                                         *)
(* The session lock (session_lock.py), the agent leases                    *)
(* (core_ownership.py) and the bots' owner keys (ownership.ts) are three   *)
(* implementations: see ImplementsContract in SessionLock.tla,             *)
(* CoreOwnership.tla and GatewayBots.tla.                                  *)
(***************************************************************************)
CONSTANTS
    Clients,    \* who may hold a key
    Keys,
    Nobody      \* the holder of a free key

VARIABLES
    holder,     \* [Keys -> Clients \cup {Nobody}]
    relies      \* <<client, key>>: the client acts as the holder of the key

Claims == Clients \X Keys

Init ==
    /\ holder = [k \in Keys |-> Nobody]
    /\ relies = {}

Keeps(k)  == holder'[k] = holder[k]
Grants(k) == holder[k] = Nobody /\ holder'[k] \in Clients
Frees(k)  == holder'[k] = Nobody /\ \A c \in Clients : <<c, k>> \notin relies'

\* One step of an implementation may grant, free and keep several keys, and
\* change who relies on them.
Next ==
    /\ holder' \in [Keys -> Clients \cup {Nobody}]
    /\ \A k \in Keys : Keeps(k) \/ Grants(k) \/ Frees(k)
    /\ relies' \subseteq Claims
    /\ \A r \in relies' : holder'[r[2]] = r[1]

Spec == Init /\ [][Next]_<<holder, relies>>

\* No two clients ever rely on one key.
Exclusive == \A r, s \in relies : r[2] = s[2] => r[1] = s[1]
=============================================================================
