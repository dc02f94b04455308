--------------------------- MODULE TransportContract ---------------------------
(***************************************************************************)
(* What microair/client.py promises whoever uses it: one task after the    *)
(* other has the unit, over one link that comes up and goes down within    *)
(* its transaction; and a parameter write goes out at most once, not       *)
(* before it is on record, and is only confirmed when the unit took it.    *)
(***************************************************************************)
CONSTANTS Tasks, NoTask, Links

VARIABLES
  user,     \* the task in a transaction, or NoTask
  up,       \* the links that are up and not known to refuse closing
  fate,     \* of the last write's payload: "unsent", "sent", "accepted", "refused"
  report    \* what the client reports of it: "not_attempted", "attempted",
            \* "acknowledged"

transport == <<user, up, fate, report>>

Init == user = NoTask /\ up = {} /\ fate = "unsent" /\ report = "not_attempted"

Begin(t) ==
  /\ user = NoTask /\ up = {}
  /\ user' = t
  /\ UNCHANGED <<up, fate, report>>

End == user # NoTask /\ up = {} /\ user' = NoTask /\ UNCHANGED <<up, fate, report>>

Connect(g) ==
  /\ user # NoTask /\ up = {}
  /\ up' = {g}
  /\ UNCHANGED <<user, fate, report>>

\* Closed by the user, broken, or given up.
Disconnect == user # NoTask /\ up' = {} /\ UNCHANGED <<user, fate, report>>

\* A new write is asked for; the last one is forgotten.
Ask ==
  /\ user # NoTask
  /\ fate' = "unsent" /\ report' = "not_attempted"
  /\ UNCHANGED <<user, up>>

Record ==
  /\ user # NoTask /\ report = "not_attempted"
  /\ report' = "attempted"
  /\ UNCHANGED <<user, up, fate>>

Send ==
  /\ up # {} /\ report = "attempted" /\ fate = "unsent"
  /\ fate' = "sent"
  /\ UNCHANGED <<user, up, report>>

\* The unit's answer, which may come when nobody listens any more.
Answer ==
  /\ fate = "sent"
  /\ fate' \in {"accepted", "refused"}
  /\ UNCHANGED <<user, up, report>>

Confirm ==
  /\ user # NoTask /\ report = "attempted" /\ fate = "accepted"
  /\ report' = "acknowledged"
  /\ UNCHANGED <<user, up, fate>>

Next ==
  \/ \E t \in Tasks : Begin(t)
  \/ End
  \/ \E g \in Links : Connect(g)
  \/ Disconnect
  \/ Ask \/ Record \/ Send \/ Answer \/ Confirm

Spec == Init /\ [][Next]_transport
===============================================================================
