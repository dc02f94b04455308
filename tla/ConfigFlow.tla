------------------------------ MODULE ConfigFlow ------------------------------
(***************************************************************************)
(* How entries come about (config_flow.py), over the entries of            *)
(* EntryLifecycle.                                                         *)
(*                                                                         *)
(* A flow reads the unit it is given with a client of its own, outside any *)
(* coordinator's lock, and keeps address and name in itself.  Home         *)
(* Assistant lets several flows run at once and does not keep a flow from  *)
(* being submitted again, or closed, while a submission is handled.        *)
(***************************************************************************)
EXTENDS EntryLifecycle

CONSTANTS
  Units,         \* well-formed Bluetooth addresses
  Malformed,     \* stands for text that is not an address
  Flows,         \* flow ids
  Submissions    \* submissions handled at a time

ASSUME FlowAssumption == None \notin Units \cup Flows /\ Malformed \notin Units

VARIABLES
  bond,      \* what an entry was created with, and the unit whose image was read
  flow,      \* the flows in progress: step, _address, unique id
  reading    \* the read a submission awaits: its flow and the unit

flowVars == <<bond, flow, reading>>
vars == <<entryVars, flowVars>>

-------------------------------------------------------------------------------
NoFlow == [step |-> "none", address |-> None, uid |-> None, again |-> FALSE]
Flow(step, u) == [step |-> step, address |-> u, uid |-> u, again |-> FALSE]
Bond(f, image) ==
  [address |-> f.address, uid |-> f.uid, image |-> image, again |-> f.again]
NoBond == Bond(NoFlow, None)
NoRead == [flow |-> None, unit |-> None]

InProgress(f) == flow[f].step # "none"
Handled(f) == \E s \in Submissions : reading[s].flow = f

\* async_set_unique_id finds another flow for the unit.
Taken(f, u) == \E g \in Flows \ {f} : flow[g].uid = u

\* _abort_if_unique_id_configured
Configured(u) == u # None /\ \E e \in Entries : at[e] # "absent" /\ bond[e].uid = u

Put(f, r) == flow' = [flow EXCEPT ![f] = r]

Init ==
  /\ EntryInit
  /\ bond = [e \in Entries |-> NoBond]
  /\ flow = [f \in Flows |-> NoFlow]
  /\ reading = [s \in Submissions |-> NoRead]

-------------------------------------------------------------------------------
(* The config flow                                                          *)

\* A unit is discovered; a second flow for it, or one for a unit that is
\* configured, is aborted on the spot.
Discovered(f, u) ==
  /\ ~InProgress(f) /\ ~Handled(f)
  /\ ~Taken(f, u) /\ ~Configured(u)
  /\ Put(f, Flow("bluetooth_confirm", u))
  /\ UNCHANGED <<entryVars, bond, reading>>

UserStarts(f) ==
  /\ ~InProgress(f) /\ ~Handled(f)
  /\ Put(f, Flow("user", None))
  /\ UNCHANGED <<entryVars, bond, reading>>

\* A read of u begins on behalf of f.
Read(f, u) ==
  \E s \in Submissions :
    /\ reading[s] = NoRead
    /\ reading' = [reading EXCEPT ![s] = [flow |-> f, unit |-> u]]

\* f with the address of the form, noting a submission during another.
Addressed(f, a) == [flow[f] EXCEPT !.address = a, !.again = @ \/ Handled(f)]

\* Mutant: the text is taken for the unique id before it is checked.
SubmitMalformedId(f) ==
  /\ flow[f].step = "user"
  /\ Put(f, [Addressed(f, Malformed) EXCEPT !.uid = Malformed])
  /\ UNCHANGED <<entryVars, bond, reading>>

SubmitMalformed(f) ==
  /\ flow[f].step = "user"
  /\ Put(f, Addressed(f, Malformed))
  /\ UNCHANGED <<entryVars, bond, reading>>

\* Already in progress or already configured.
SubmitAborts(f, u) ==
  /\ flow[f].step = "user"
  /\ Taken(f, u) \/ Configured(u)
  /\ Put(f, NoFlow)
  /\ UNCHANGED <<entryVars, bond, reading>>

\* Mutant: the flow does not take the unit's unique id.
SubmitAnonymous(f, u) ==
  /\ flow[f].step = "user"
  /\ Put(f, Addressed(f, u))
  /\ Read(f, u)
  /\ UNCHANGED <<entryVars, bond>>

\* Mutant: the unique id is only set at the first submission.
SubmitFirstId(f, u) ==
  /\ flow[f].step = "user"
  /\ ~Taken(f, u) /\ ~Configured(u)
  /\ Put(f, [Addressed(f, u) EXCEPT !.uid = IF @ = None THEN u ELSE @])
  /\ Read(f, u)
  /\ UNCHANGED <<entryVars, bond>>

\* Mutant: a flow in progress for the same unit is ignored.
SubmitRegardless(f, u) ==
  /\ flow[f].step = "user"
  /\ ~Configured(u)
  /\ Put(f, [Addressed(f, u) EXCEPT !.uid = u])
  /\ Read(f, u)
  /\ UNCHANGED <<entryVars, bond>>

Submit(f, u) ==
  /\ flow[f].step = "user"
  /\ ~Taken(f, u) /\ ~Configured(u)
  /\ Put(f, [Addressed(f, u) EXCEPT !.uid = u])
  /\ Read(f, u)
  /\ UNCHANGED <<entryVars, bond>>

Confirm(f) ==
  /\ flow[f].step = "bluetooth_confirm"
  /\ Put(f, Addressed(f, flow[f].address))
  /\ Read(f, flow[f].address)
  /\ UNCHANGED <<entryVars, bond>>

\* The dialog is closed; a read under way is not cancelled.
Close(f) ==
  /\ InProgress(f)
  /\ Put(f, NoFlow)
  /\ UNCHANGED <<entryVars, bond, reading>>

ReadOver(s) == reading' = [reading EXCEPT ![s] = NoRead]

\* No route, or no image: the form is shown again.  So ends, whatever it reads,
\* a submission whose flow is no longer in progress.
ReadFails(s) ==
  /\ reading[s] # NoRead
  /\ ReadOver(s)
  /\ UNCHANGED <<entryVars, bond, flow>>

\* Not a CONTROL_MODELS unit, or its unique id has been configured meanwhile.
ReadAborts(s) ==
  /\ reading[s] # NoRead
  /\ InProgress(reading[s].flow)
  /\ ReadOver(s)
  /\ Put(reading[s].flow, NoFlow)
  /\ UNCHANGED <<entryVars, bond>>

\* async_create_entry, from _address and _name as they are now and the image that
\* was read; every flow in progress for that unique id ends.
CreateEntry(s, e) ==
  LET f == reading[s].flow
  IN  /\ reading[s] # NoRead
      /\ InProgress(f)
      /\ ~Configured(flow[f].uid)
      /\ at[e] = "absent"
      /\ Move(e, "not loaded")
      /\ bond' = [bond EXCEPT ![e] = Bond(flow[f], reading[s].unit)]
      /\ flow' = [g \in Flows |->
                    IF g = f \/ (flow[f].uid # None /\ flow[g].uid = flow[f].uid)
                      THEN NoFlow ELSE flow[g]]
      /\ ReadOver(s)
      /\ UNCHANGED <<coords, service, call>>

DeleteEntry(e) ==
  /\ Delete(e)
  /\ bond' = [bond EXCEPT ![e] = NoBond]
  /\ UNCHANGED <<flow, reading>>

-------------------------------------------------------------------------------
FlowNext ==
  \/ \E f \in Flows :
       \/ UserStarts(f) \/ SubmitMalformed(f) \/ Confirm(f) \/ Close(f)
       \/ \E u \in Units : Discovered(f, u) \/ SubmitAborts(f, u) \/ Submit(f, u)
  \/ \E s \in Submissions :
       ReadFails(s) \/ ReadAborts(s) \/ \E e \in Entries : CreateEntry(s, e)

Next ==
  \/ EntryNext /\ UNCHANGED flowVars
  \/ FlowNext
  \/ \E e \in Entries : DeleteEntry(e)

Spec == Init /\ [][Next]_vars

-------------------------------------------------------------------------------
TypeOK ==
  /\ EntryTypeOK
  /\ \A e \in Entries :
       at[e] # "absent" => bond[e].image \in Units
  /\ \A f \in Flows :
       /\ flow[f].step \in {"none", "user", "bluetooth_confirm"}
       /\ flow[f].address \in Units \cup {Malformed, None}
       /\ flow[f].uid \in Units \cup {None}
  /\ \A s \in Submissions :
       reading[s] = NoRead \/ reading[s] \in [flow : Flows, unit : Units]

Present == {e \in Entries : at[e] # "absent"}

\* No two entries are for one unit: neither by unique id nor, unless their flow was
\* submitted again during a read, by address.
OneEntryPerUnit ==
  \A d, e \in Present :
    d # e => /\ bond[d].uid # bond[e].uid
             /\ ~bond[d].again /\ ~bond[e].again => bond[d].address # bond[e].address

\* "Verify the EEPROM before allowing monitoring or control": an entry's address,
\* its unique id and the unit whose image was read are one, in any order of
\* retries, unless its flow was submitted again while a submission was handled.
EntryVerified ==
  \A e \in Present :
    ~bond[e].again => bond[e].address = bond[e].uid /\ bond[e].image = bond[e].uid

\* A unit accepts one central.  Of the reads of flows in progress and the
\* coordinators at most one can be using it; exempt are a flow that was submitted
\* again and coordinators Home Assistant gave up on.
Readers(u) ==
  {s \in Submissions : /\ reading[s] # NoRead /\ reading[s].unit = u
                       /\ InProgress(reading[s].flow)
                       /\ ~flow[reading[s].flow].again}
Runners(u) ==
  {c \in Coordinators \ abandoned :
     /\ phase[c] # "down"
     /\ bond[owner[c]].address = u /\ ~bond[owner[c]].again}
UnitOwner ==
  \A u \in Units : Cardinality(Readers(u)) + Cardinality(Runners(u)) <= 1
===============================================================================
