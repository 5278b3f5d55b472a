---------------------------- MODULE PowerContract ----------------------------
(***************************************************************************)
(* What the GCIP power manager promises its users, without locks, counters *)
(* or work items: who holds a reference decides when the block may be      *)
(* switched and when the system may suspend (include/gcip/gcip-pm.h).      *)
(***************************************************************************)
CONSTANT Holder

VARIABLES
    users,      \* "none", "plain" or "susp" for each holder
    power,      \* "on" or "off"
    forced      \* a shutdown was forced on users

vars == <<users, power, forced>>

Idle == \A h \in Holder : users[h] = "none"

Init == users = [h \in Holder |-> "none"] /\ power = "on" /\ forced = FALSE

\* A get succeeds: the first user finds the block on, a later one shares it.
Get(h, f) ==
    /\ users[h] = "none"
    /\ users' = [users EXCEPT ![h] = f]
    /\ power' = IF Idle THEN "on" ELSE power
    /\ UNCHANGED forced

\* A first get is refused, and its power up is undone or stays.
Refuse == Idle /\ power' \in {"on", "off"} /\ UNCHANGED <<users, forced>>

\* A put never switches the block by itself.
Put(h) ==
    /\ users[h] # "none"
    /\ users' = [users EXCEPT ![h] = "none"]
    /\ UNCHANGED <<power, forced>>

\* The block goes off only with no users.
PowerDown == Idle /\ power' = "off" /\ UNCHANGED <<users, forced>>

\* A forced shutdown may switch it off under its users, from then on.
Force == ~Idle /\ forced' = TRUE /\ UNCHANGED <<users, power>>
ForceOff == forced /\ power' = "off" /\ UNCHANGED <<users, forced>>

Next ==
    \/ \E h \in Holder : Put(h) \/ \E f \in {"plain", "susp"} : Get(h, f)
    \/ Refuse \/ PowerDown \/ Force \/ ForceOff

Spec == Init /\ [][Next]_vars
==============================================================================
