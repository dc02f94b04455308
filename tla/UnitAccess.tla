------------------------------- MODULE UnitAccess -------------------------------
(***************************************************************************)
(* What the coordinator promises about the unit, which serves one central  *)
(* at a time: one user after the other, none is let in while the polling   *)
(* switch is off or once unloading has begun, and the operator is only     *)
(* told that the unit is his, or that the entry is gone, when nobody is in.*)
(***************************************************************************)
CONSTANT Users

VARIABLES
  users,    \* who has a transaction open with the unit
  switch,   \* "on", "off", or "reserved": off, and the operator has been told
  life      \* of the entry: "up", "closing", "closed"

access == <<users, switch, life>>

Init == users = {} /\ switch \in {"on", "off"} /\ life = "up"

Enter(u) ==
  /\ users = {} /\ switch = "on" /\ life = "up"
  /\ users' = {u}
  /\ UNCHANGED <<switch, life>>

Leave == users' = {} /\ UNCHANGED <<switch, life>>

\* The switch may be turned while somebody is in; he then has to leave.
Turn == switch' \in {"on", "off"} /\ UNCHANGED <<users, life>>

Reserve == users = {} /\ switch' = "reserved" /\ UNCHANGED <<users, life>>

Close == life = "up" /\ life' = "closing" /\ UNCHANGED <<users, switch>>

Closed == life = "closing" /\ users = {} /\ life' = "closed" /\ UNCHANGED <<users, switch>>

Next == (\E u \in Users : Enter(u)) \/ Leave \/ Turn \/ Reserve \/ Close \/ Closed

Spec == Init /\ [][Next]_access
===============================================================================
