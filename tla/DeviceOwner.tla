----------------------------- MODULE DeviceOwner -----------------------------
(***************************************************************************)
(* What the mapping console promises about the joystick device: one        *)
(* session at a time reads it, and a session that gave it up never reads   *)
(* again.  Sessions implements this.                                       *)
(***************************************************************************)
CONSTANTS Ids, None

OwnerAssumption == None \notin Ids

VARIABLES
    owner, \* the session that reads the device, or None
    spent  \* the sessions that have had it

OwnerInit == owner = None /\ spent = {}

Acquire(s) ==
    /\ owner = None
    /\ s \notin spent
    /\ owner' = s
    /\ spent' = spent \cup {s}

GiveUp ==
    /\ owner # None
    /\ owner' = None
    /\ spent' = spent

OwnerNext == GiveUp \/ \E s \in Ids : Acquire(s)

OwnerSpec == OwnerInit /\ [][OwnerNext]_<<owner, spent>>
=============================================================================
