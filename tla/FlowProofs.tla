------------------------------- MODULE FlowProofs -------------------------------
(***************************************************************************)
(* Proofs about ConfigFlow: which entries the flows create, for any number *)
(* of entries, flows, submissions and units.                               *)
(***************************************************************************)
EXTENDS EntryProofs, FiniteSetTheorems

FlowRecords == [step : {"none", "user", "bluetooth_confirm"},
                address : Units \cup {Malformed, None},
                uid : Units \cup {None}, again : BOOLEAN]
FlowTypes ==
  /\ flow \in [Flows -> FlowRecords]
  /\ bond \in [Entries -> [address : Units \cup {Malformed, None},
                           uid : Units \cup {None},
                           image : Units \cup {None}, again : BOOLEAN]]
  /\ reading \in [Submissions -> [flow : Flows \cup {None}, unit : Units \cup {None}]]

\* Flows in progress have distinct unique ids; one for a unit that was discovered
\* never changes its address.
FlowIds ==
  \A f \in Flows :
    /\ ~InProgress(f) => flow[f].uid = None
    /\ flow[f].step = "bluetooth_confirm" => flow[f].uid \in Units /\ flow[f].address = flow[f].uid
    /\ \A g \in Flows : flow[g].uid = flow[f].uid => g = f \/ flow[f].uid = None

\* What a submission reads for, while its flow is in progress.
ReadsOwn ==
  \A s \in Submissions :
    /\ reading[s].flow = None => reading[s] = NoRead
    /\ reading[s].flow # None =>
         LET f == reading[s].flow
         IN  /\ reading[s].unit \in Units
             /\ InProgress(f) =>
                  /\ flow[f].uid \in Units
                  /\ ~flow[f].again =>
                       flow[f].address = flow[f].uid /\ reading[s].unit = flow[f].uid

\* What an entry was created with.
BondsOwn ==
  \A e \in Present :
    /\ bond[e].uid \in Units
    /\ bond[e].image \in Units
    /\ ~bond[e].again => bond[e].address = bond[e].uid /\ bond[e].image = bond[e].uid
    /\ \A d \in Present : bond[d].uid = bond[e].uid => d = e

FInv == FlowTypes /\ FlowIds /\ ReadsOwn /\ BondsOwn

LEMMA InitFlow == Init => FInv
<1> SUFFICES ASSUME Init PROVE FInv
  OBVIOUS
<1> USE FlowAssumption DEF Init, NoFlow, NoBond, Bond, NoRead, FlowRecords
<1>1. FlowTypes
  BY DEF FlowTypes
<1>2. FlowIds /\ ReadsOwn
  BY DEF FlowIds, ReadsOwn, InProgress
<1>3. BondsOwn
  BY DEF BondsOwn, Present, EntryInit
<1> QED
  BY <1>1, <1>2, <1>3 DEF FInv

\* The steps of the entries neither create nor delete one.
LEMMA PresentKept ==
  ASSUME at \in [Entries -> States], EntryNext
  PROVE  Present' = Present
<1>1. ASSUME NEW e \in Entries, SetupEntry(e) \/ UnloadEntry(e)
      PROVE  \E place \in States \ {"absent"} : at[e] # "absent" /\ Move(e, place)
  BY <1>1 DEF SetupEntry, UnloadEntry, SetupBegins, Started, SetupBreaks, SetupFails, SetupEnds,
     UnloadBegins, UnloadRefused, PlatformsUnloaded, Unloaded, Loaded, States, Setup, Unload, Resting
<1>2. ASSUME NEW e \in Entries, NEW place \in States \ {"absent"}, at[e] # "absent", Move(e, place)
      PROVE  Present' = Present
  BY <1>2 DEF Present, Move
<1>3. ASSUME NEW c \in Coordinators, ShutdownEnds(c)
      PROVE  at' = at
  BY <1>3 DEF ShutdownEnds
<1>4. ASSUME NEW k \in Calls, ServiceCall(k)
      PROVE  at' = at
  BY <1>4 DEF ServiceCall, Request, WriteBegins, WriteRejected, WriteEnds
<1> QED
  BY <1>1, <1>2, <1>3, <1>4 DEF EntryNext, Present

-------------------------------------------------------------------------------
\* One flow changes, no entry does.
LEMMA PutStep ==
  ASSUME FInv, NEW f \in Flows, NEW r \in FlowRecords, Put(f, r), UNCHANGED <<at, bond>>,
         r.step = "none" => r.uid = None,
         r.step = "bluetooth_confirm" => r.uid \in Units /\ r.address = r.uid,
         r.uid # None => \A g \in Flows \ {f} : flow[g].uid # r.uid,
         reading' \in [Submissions -> [flow : Flows \cup {None}, unit : Units \cup {None}]],
         ReadsOwn'
  PROVE  FInv'
<1>1. flow'[f] = r /\ \A g \in Flows \ {f} : flow'[g] = flow[g]
  BY DEF FInv, FlowTypes, Put
<1>2. FlowTypes'
  BY DEF FInv, FlowTypes, Put
<1>3. FlowIds'
  BY <1>1 DEF FInv, FlowIds, InProgress
<1>4. BondsOwn'
  BY DEF FInv, BondsOwn, Present
<1> QED
  BY <1>2, <1>3, <1>4 DEF FInv

\* A flow ends; a read for it may be over.
LEMMA FlowEnds ==
  ASSUME FInv, NEW f \in Flows, Put(f, NoFlow), UNCHANGED <<at, bond>>,
         reading' \in [Submissions -> [flow : Flows \cup {None}, unit : Units \cup {None}]],
         \A s \in Submissions : reading'[s] \in {reading[s], NoRead}
  PROVE  FInv'
<1>1. NoFlow \in FlowRecords /\ NoFlow.step = "none" /\ NoFlow.uid = None
  BY DEF NoFlow, FlowRecords
<1>2. flow'[f] = NoFlow /\ \A g \in Flows \ {f} : flow'[g] = flow[g]
  BY DEF FInv, FlowTypes, Put
<1>3. ReadsOwn'
  BY <1>1, <1>2, FlowAssumption DEF FInv, FlowTypes, ReadsOwn, NoRead, InProgress
<1> QED
  BY <1>1, <1>3, PutStep

\* A submission with the address u of a flow whose unique id is now u.
LEMMA SubmitStep ==
  ASSUME FInv, NEW f \in Flows, NEW u \in Units, NEW r \in FlowRecords, Put(f, r),
         r.step # "none" /\ r.address = u /\ r.uid = u /\ (Handled(f) => r.again),
         Read(f, u), ~Taken(f, u), UNCHANGED <<at, bond>>
  PROVE  FInv'
<1>3. \A g \in Flows \ {f} : flow[g].uid # u
  BY DEF Taken
<1>4. PICK s \in Submissions : reading' = [reading EXCEPT ![s] = [flow |-> f, unit |-> u]]
  BY DEF Read
<1>5. reading' \in [Submissions -> [flow : Flows \cup {None}, unit : Units \cup {None}]]
  BY <1>4 DEF FInv, FlowTypes
<1>6. flow'[f] = r /\ \A g \in Flows \ {f} : flow'[g] = flow[g]
  BY DEF FInv, FlowTypes, Put
<1>7. ReadsOwn'
  <2>0. \A t \in Submissions : reading'[t].flow = None => reading'[t] = NoRead
    BY <1>4, FlowAssumption DEF FInv, FlowTypes, ReadsOwn
  <2> SUFFICES ASSUME NEW t \in Submissions, reading'[t].flow # None
               PROVE  /\ reading'[t].unit \in Units
                      /\ flow'[reading'[t].flow].step # "none" =>
                           /\ flow'[reading'[t].flow].uid \in Units
                           /\ ~flow'[reading'[t].flow].again =>
                                /\ flow'[reading'[t].flow].address = flow'[reading'[t].flow].uid
                                /\ reading'[t].unit = flow'[reading'[t].flow].uid
    BY <2>0 DEF ReadsOwn, InProgress
  <2>1. CASE t = s
    BY <2>1, <1>4, <1>6 DEF FInv, FlowTypes
  <2>2. CASE t # s
    <3>1. reading'[t] = reading[t]
      BY <2>2, <1>4 DEF FInv, FlowTypes
    <3>2. CASE reading[t].flow = f
      <4>1. r.again
        BY <3>2 DEF Handled
      <4> QED
        BY <3>1, <3>2, <4>1, <1>6 DEF FInv, ReadsOwn
    <3>3. CASE reading[t].flow # f
      BY <3>1, <3>3, <1>6 DEF FInv, FlowTypes, ReadsOwn, InProgress
    <3> QED
      BY <3>2, <3>3
  <2> QED
    BY <2>1, <2>2
<1> QED
  BY <1>3, <1>5, <1>7, PutStep, FlowAssumption

LEMMA FlowStep ==
  ASSUME FInv, NEW f \in Flows,
         \/ UserStarts(f) \/ SubmitMalformed(f) \/ Confirm(f) \/ Close(f)
         \/ \E u \in Units : Discovered(f, u) \/ SubmitAborts(f, u) \/ Submit(f, u)
  PROVE  FInv'
<1> USE FlowAssumption
<1>0. /\ reading \in [Submissions -> [flow : Flows \cup {None}, unit : Units \cup {None}]]
      /\ flow[f] \in FlowRecords
  BY DEF FInv, FlowTypes
<1>1. ASSUME UserStarts(f) PROVE FInv'
  <2> DEFINE r == Flow("user", None)
  <2>1. r \in FlowRecords /\ r.step = "user" /\ r.uid = None
    BY DEF Flow, FlowRecords
  <2>2. Put(f, r) /\ UNCHANGED <<at, bond, reading>> /\ ~Handled(f)
    BY <1>1 DEF UserStarts, entryVars
  <2> HIDE DEF r
  <2>3. ReadsOwn'
    BY <2>2 DEF FInv, FlowTypes, ReadsOwn, InProgress, Handled, Put
  <2> QED
    BY <1>0, <2>1, <2>2, <2>3, PutStep
<1>2. ASSUME SubmitMalformed(f) PROVE FInv'
  <2> DEFINE r == Addressed(f, Malformed)
  <2>1. /\ r \in FlowRecords
        /\ r.step = "user" /\ r.uid = flow[f].uid /\ (Handled(f) => r.again)
    BY <1>0, <1>2 DEF SubmitMalformed, Addressed, FlowRecords, Handled
  <2>2. Put(f, r) /\ UNCHANGED <<at, bond, reading>> /\ flow[f].step = "user"
    BY <1>2 DEF SubmitMalformed, entryVars
  <2> HIDE DEF r
  <2>3. flow'[f] = r /\ \A g \in Flows \ {f} : flow'[g] = flow[g]
    BY <2>2 DEF FInv, FlowTypes, Put
  <2>4. ReadsOwn'
    BY <2>1, <2>2, <2>3 DEF FInv, FlowTypes, ReadsOwn, InProgress, Handled
  <2>5. r.uid # None => \A g \in Flows \ {f} : flow[g].uid # r.uid
    BY <2>1 DEF FInv, FlowIds
  <2> QED
    BY <1>0, <2>1, <2>2, <2>4, <2>5, PutStep
<1>3. ASSUME Confirm(f) PROVE FInv'
  <2> DEFINE u == flow[f].address
  <2>1. u \in Units /\ flow[f].uid = u /\ flow[f].step = "bluetooth_confirm"
    BY <1>3 DEF Confirm, FInv, FlowIds
  <2> DEFINE r == Addressed(f, u)
  <2>2. /\ r \in FlowRecords /\ (Handled(f) => r.again)
        /\ r.step # "none" /\ r.address = u /\ r.uid = u
    BY <1>0, <2>1 DEF Addressed, FlowRecords, Handled
  <2>3. Put(f, r) /\ Read(f, u) /\ UNCHANGED <<at, bond>>
    BY <1>3 DEF Confirm, entryVars
  <2>4. ~Taken(f, u)
    BY <2>1 DEF Taken, FInv, FlowIds
  <2> HIDE DEF r, u
  <2> QED
    BY <2>1, <2>2, <2>3, <2>4, SubmitStep
<1>4. ASSUME NEW u \in Units, Discovered(f, u) PROVE FInv'
  <2> DEFINE r == Flow("bluetooth_confirm", u)
  <2>1. r \in FlowRecords /\ r.step = "bluetooth_confirm" /\ r.uid = u /\ r.address = u
    BY DEF Flow, FlowRecords
  <2>2. /\ Put(f, r) /\ UNCHANGED <<at, bond, reading>> /\ ~Handled(f)
        /\ \A g \in Flows \ {f} : flow[g].uid # u
    BY <1>4 DEF Discovered, entryVars, Taken
  <2> HIDE DEF r
  <2>3. ReadsOwn'
    BY <2>2 DEF FInv, FlowTypes, ReadsOwn, InProgress, Handled, Put
  <2> QED
    BY <1>0, <2>1, <2>2, <2>3, PutStep
<1>5. ASSUME NEW u \in Units, Submit(f, u) PROVE FInv'
  <2> DEFINE r == [Addressed(f, u) EXCEPT !.uid = u]
  <2>1. /\ r \in FlowRecords /\ (Handled(f) => r.again)
        /\ r.step # "none" /\ r.address = u /\ r.uid = u
    BY <1>0, <1>5 DEF Submit, Addressed, FlowRecords, Handled
  <2>2. Put(f, r) /\ Read(f, u) /\ ~Taken(f, u) /\ UNCHANGED <<at, bond>>
    BY <1>5 DEF Submit, entryVars
  <2> HIDE DEF r
  <2> QED
    BY <2>1, <2>2, SubmitStep
<1>6. ASSUME Close(f) \/ \E u \in Units : SubmitAborts(f, u) PROVE FInv'
  <2>1. Put(f, NoFlow) /\ UNCHANGED <<at, bond, reading>>
    BY <1>6 DEF Close, SubmitAborts, entryVars
  <2> QED
    BY <1>0, <2>1, FlowEnds
<1> QED
  BY <1>1, <1>2, <1>3, <1>4, <1>5, <1>6

LEMMA ReadStep ==
  ASSUME FInv, NEW s \in Submissions, ReadFails(s) \/ ReadAborts(s)
  PROVE  FInv'
<1>1. /\ UNCHANGED <<at, bond>> /\ reading[s] # NoRead
      /\ reading' = [reading EXCEPT ![s] = NoRead]
  BY DEF ReadFails, ReadAborts, ReadOver, entryVars
<1>2. reading' \in [Submissions -> [flow : Flows \cup {None}, unit : Units \cup {None}]]
  BY <1>1 DEF FInv, FlowTypes, NoRead
<1>3. \A t \in Submissions : reading'[t] \in {reading[t], NoRead}
  BY <1>1 DEF FInv, FlowTypes
<1>4. CASE ReadFails(s)
  <2>1. UNCHANGED flow
    BY <1>4 DEF ReadFails
  <2>2. FlowTypes' /\ FlowIds' /\ BondsOwn'
    BY <1>1, <1>2, <2>1 DEF FInv, FlowTypes, FlowIds, BondsOwn, Present, InProgress
  <2>3. ReadsOwn'
    BY <1>3, <2>1 DEF FInv, ReadsOwn, NoRead, InProgress
  <2> QED
    BY <2>2, <2>3 DEF FInv
<1>5. CASE ReadAborts(s)
  <2>1. reading[s].flow \in Flows
    <3>1. reading[s].flow # None
      BY <1>1 DEF FInv, ReadsOwn
    <3> QED
      BY <3>1 DEF FInv, FlowTypes
  <2>2. Put(reading[s].flow, NoFlow)
    BY <1>5 DEF ReadAborts
  <2> QED
    BY <1>1, <1>2, <1>3, <2>1, <2>2, FlowEnds
<1> QED
  BY <1>4, <1>5

LEMMA CreateEntryStep ==
  ASSUME FInv, EntryTypeOK, NEW s \in Submissions, NEW e \in Entries, CreateEntry(s, e)
  PROVE  FInv'
<1> DEFINE f == reading[s].flow
           Ends(g) == g = f \/ (flow[f].uid # None /\ flow[g].uid = flow[f].uid)
<1>1. /\ reading[s] # NoRead /\ InProgress(f) /\ ~Configured(flow[f].uid)
      /\ at[e] = "absent" /\ at' = [at EXCEPT ![e] = "not loaded"]
      /\ bond' = [bond EXCEPT ![e] = Bond(flow[f], reading[s].unit)]
      /\ flow' = [g \in Flows |-> IF Ends(g) THEN NoFlow ELSE flow[g]]
      /\ reading' = [reading EXCEPT ![s] = NoRead]
  BY DEF CreateEntry, Move, ReadOver
<1>2. f \in Flows /\ reading[s].unit \in Units /\ flow[f] \in FlowRecords /\ flow[f].uid \in Units
  <2>1. reading[s].flow # None
    BY <1>1 DEF FInv, ReadsOwn
  <2> QED
    BY <1>1, <2>1 DEF FInv, FlowTypes, ReadsOwn
<1>3. ~flow[f].again => flow[f].address = flow[f].uid /\ reading[s].unit = flow[f].uid
  BY <1>1, <1>2, FlowAssumption DEF FInv, ReadsOwn
<1>4. \A g \in Flows : flow'[g] = NoFlow \/ flow'[g] = flow[g]
  BY <1>1
<1>5. NoFlow \in FlowRecords /\ NoFlow.step = "none" /\ NoFlow.uid = None
  BY DEF NoFlow, FlowRecords
<1> DEFINE b == Bond(flow[f], reading[s].unit)
<1>6. /\ b \in [address : Units \cup {Malformed, None}, uid : Units \cup {None},
                image : Units \cup {None}, again : BOOLEAN]
      /\ b.uid = flow[f].uid /\ b.address = flow[f].address
      /\ b.image = reading[s].unit /\ b.again = flow[f].again
  BY <1>2 DEF Bond, FlowRecords
<1>7. \A d \in Present : bond[d].uid # flow[f].uid
  BY <1>1, <1>2, FlowAssumption DEF Configured, Present
<1>8. /\ bond'[e] = b /\ e \notin Present /\ Present' = Present \cup {e}
      /\ \A d \in Present : bond'[d] = bond[d]
  BY <1>1 DEF FInv, FlowTypes, EntryTypeOK, Present
<1> HIDE DEF b
<1>9. FlowTypes'
  <2>1. flow' \in [Flows -> FlowRecords]
    BY <1>1, <1>5 DEF FInv, FlowTypes
  <2>2. bond' \in [Entries -> [address : Units \cup {Malformed, None}, uid : Units \cup {None},
                               image : Units \cup {None}, again : BOOLEAN]]
    BY <1>1, <1>6 DEF FInv, FlowTypes, b
  <2>3. reading' \in [Submissions -> [flow : Flows \cup {None}, unit : Units \cup {None}]]
    BY <1>1 DEF FInv, FlowTypes, NoRead
  <2> QED
    BY <2>1, <2>2, <2>3 DEF FlowTypes
<1>10. FlowIds'
  BY <1>4, <1>5 DEF FInv, FlowIds, InProgress
<1>11. ReadsOwn'
  <2>1. \A t \in Submissions : reading'[t] \in {reading[t], NoRead}
    BY <1>1 DEF FInv, FlowTypes
  <2>2. \A t \in Submissions : reading[t].flow # None => reading[t].flow \in Flows
    BY DEF FInv, FlowTypes
  <2> HIDE DEF f, Ends
  <2> QED
    BY <1>4, <1>5, <2>1, <2>2 DEF FInv, ReadsOwn, NoRead, InProgress
<1>12. BondsOwn'
  BY <1>2, <1>3, <1>6, <1>7, <1>8 DEF FInv, BondsOwn
<1> QED
  BY <1>9, <1>10, <1>11, <1>12 DEF FInv

LEMMA DeleteEntryStep ==
  ASSUME FInv, EntryTypeOK, NEW e \in Entries, DeleteEntry(e)
  PROVE  FInv'
<1>1. /\ at' = [at EXCEPT ![e] = "absent"] /\ bond' = [bond EXCEPT ![e] = NoBond]
      /\ UNCHANGED <<flow, reading>>
  BY DEF DeleteEntry, Delete, Move
<1>2. Present' = Present \ {e} /\ \A d \in Present \ {e} : bond'[d] = bond[d]
  BY <1>1 DEF FInv, FlowTypes, EntryTypeOK, Present
<1>3. FlowTypes'
  BY <1>1 DEF FInv, FlowTypes, NoBond, Bond, NoFlow
<1>4. FlowIds' /\ ReadsOwn'
  BY <1>1 DEF FInv, FlowIds, ReadsOwn, InProgress
<1>5. BondsOwn'
  BY <1>2 DEF FInv, BondsOwn
<1> QED
  BY <1>3, <1>4, <1>5 DEF FInv

-------------------------------------------------------------------------------
LEMMA FInvInductive ==
  ASSUME SInv, FInv, [Next]_vars
  PROVE  FInv'
<1>1. EntryTypeOK
  BY DEF SInv, EInv
<1>2. ASSUME UNCHANGED flowVars, Present' = Present
      PROVE  FInv'
  BY <1>2 DEF flowVars, FInv, FlowTypes, FlowIds, ReadsOwn, BondsOwn, InProgress
<1>3. CASE UNCHANGED vars
  BY <1>2, <1>3 DEF vars, entryVars, Present
<1>4. CASE EntryNext /\ UNCHANGED flowVars
  BY <1>1, <1>2, <1>4, PresentKept DEF EntryTypeOK
<1>5. CASE FlowNext
  BY <1>1, <1>5, FlowStep, ReadStep, CreateEntryStep DEF FlowNext
<1>6. CASE \E e \in Entries : DeleteEntry(e)
  BY <1>1, <1>6, DeleteEntryStep
<1> QED
  BY <1>3, <1>4, <1>5, <1>6 DEF Next

\* FInv holds in every reachable state.
THEOREM FlowInvariance == Spec => []FInv
<1>1. Init => FInv
  BY InitFlow
<1>2. SInv /\ FInv /\ [Next]_vars => FInv'
  BY FInvInductive
<1> QED
  BY <1>1, <1>2, EntryInvariance, PTL DEF Spec

\* Entries, flows and reads keep their types; in particular every entry, and every
\* read a submission awaits, is of a well-formed address.
THEOREM FlowTypesKept == Spec => []TypeOK
<1>1. SInv /\ FInv => TypeOK
  <2> SUFFICES ASSUME SInv, FInv PROVE TypeOK
    OBVIOUS
  <2>1. EntryTypeOK
    BY DEF SInv, EInv
  <2>2. \A e \in Entries : at[e] # "absent" => bond[e].image \in Units
    BY DEF FInv, BondsOwn, Present
  <2>3. \A f \in Flows :
          /\ flow[f].step \in {"none", "user", "bluetooth_confirm"}
          /\ flow[f].address \in Units \cup {Malformed, None}
          /\ flow[f].uid \in Units \cup {None}
    BY DEF FInv, FlowTypes, FlowRecords
  <2>4. ASSUME NEW s \in Submissions, reading[s] # NoRead
        PROVE  reading[s] \in [flow : Flows, unit : Units]
    <3>1. reading[s] \in [flow : Flows \cup {None}, unit : Units \cup {None}]
      BY DEF FInv, FlowTypes
    <3>2. reading[s].flow # None /\ reading[s].unit \in Units
      BY <2>4 DEF FInv, ReadsOwn
    <3> QED
      BY <3>1, <3>2
  <2> QED
    BY <2>1, <2>2, <2>3, <2>4 DEF TypeOK
<1> QED
  BY <1>1, EntryInvariance, FlowInvariance, PTL

\* However the flows, their retries and the deletions interleave, no two entries
\* are for one unit (async_set_unique_id, _abort_if_unique_id_configured).
THEOREM EntriesAreDistinct == Spec => []OneEntryPerUnit
<1>1. FInv => OneEntryPerUnit
  BY DEF FInv, BondsOwn, OneEntryPerUnit
<1> QED
  BY <1>1, FlowInvariance, PTL

\* An entry controls the unit whose image its flow has verified (_async_bind),
\* except one whose flow was submitted again during a read.
THEOREM EntriesAreVerified == Spec => []EntryVerified
<1>1. FInv => EntryVerified
  BY DEF FInv, BondsOwn, EntryVerified
<1> QED
  BY <1>1, FlowInvariance, PTL

-------------------------------------------------------------------------------
(* One user of a unit                                                       *)

FreeIds == \A f \in Flows : ~Configured(flow[f].uid)

ReadsOnce ==
  \A s, t \in Submissions :
    reading[s].flow # None /\ reading[s].flow = reading[t].flow =>
      s = t \/ ~InProgress(reading[s].flow) \/ flow[reading[s].flow].again

UInv == FreeIds /\ ReadsOnce

\* One flow changes, and no read begins or it is noted that another is under way.
LEMMA FlowStaysFree ==
  ASSUME FInv, UInv, NEW f \in Flows, NEW r \in FlowRecords, Put(f, r),
         UNCHANGED <<at, bond>>, ~Configured(r.uid),
         \/ \A s \in Submissions : reading'[s] \in {reading[s], NoRead}
         \/ \E u \in Units : Read(f, u),
         Handled(f) => r.again \/ r.step = "none"
  PROVE  UInv'
<1>1. flow'[f] = r /\ \A g \in Flows \ {f} : flow'[g] = flow[g]
  BY DEF FInv, FlowTypes, Put
<1>2. FreeIds'
  BY <1>1 DEF UInv, FreeIds, Configured
<1>3. ASSUME NEW s \in Submissions, NEW t \in Submissions, s # t,
             reading'[s].flow # None, reading'[s].flow = reading'[t].flow
      PROVE  flow'[reading'[s].flow].step = "none" \/ flow'[reading'[s].flow].again
  <2>1. ASSUME \A o \in Submissions : reading'[o] \in {reading[o], NoRead}
        PROVE  flow'[reading'[s].flow].step = "none" \/ flow'[reading'[s].flow].again
    <3>1. reading'[s] = reading[s] /\ reading'[t] = reading[t]
      BY <1>3, <2>1 DEF NoRead
    <3>2. reading[s].flow \in Flows
      BY <1>3, <3>1 DEF FInv, FlowTypes
    <3> QED
      BY <1>1, <1>3, <3>1, <3>2 DEF UInv, ReadsOnce, Handled, InProgress
  <2>2. ASSUME NEW u \in Units, Read(f, u)
        PROVE  flow'[reading'[s].flow].step = "none" \/ flow'[reading'[s].flow].again
    <3>1. PICK o \in Submissions : reading' = [reading EXCEPT ![o] = [flow |-> f, unit |-> u]]
      BY <2>2 DEF Read
    <3>2. reading'[o].flow = f /\ \A q \in Submissions \ {o} : reading'[q] = reading[q]
      BY <3>1 DEF FInv, FlowTypes
    <3>3. \A q \in Submissions : reading[q].flow # None => reading[q].flow \in Flows
      BY DEF FInv, FlowTypes
    <3>4. CASE o \in {s, t}
      <4>1. Handled(f) /\ reading'[s].flow = f
        BY <1>3, <3>2, <3>4 DEF Handled
      <4> QED
        BY <1>1, <4>1
    <3>5. CASE o \notin {s, t}
      BY <1>1, <1>3, <3>2, <3>3, <3>5 DEF UInv, ReadsOnce, Handled, InProgress
    <3> QED
      BY <3>4, <3>5
  <2> QED
    BY <2>1, <2>2
<1>4. ReadsOnce'
  BY <1>3 DEF ReadsOnce, InProgress
<1> QED
  BY <1>2, <1>4 DEF UInv

LEMMA FlowStaysFreeStep ==
  ASSUME FInv, UInv, NEW f \in Flows,
         \/ UserStarts(f) \/ SubmitMalformed(f) \/ Confirm(f) \/ Close(f)
         \/ \E u \in Units : Discovered(f, u) \/ SubmitAborts(f, u) \/ Submit(f, u)
  PROVE  UInv'
<1>0. flow[f] \in FlowRecords
  BY DEF FInv, FlowTypes
<1>1. ASSUME NEW u \in Units \cup {None}, NEW step \in {"user", "bluetooth_confirm"},
             Put(f, Flow(step, u)), UNCHANGED <<at, bond, reading>>, ~Handled(f), ~Configured(u)
      PROVE  UInv'
  <2> DEFINE r == Flow(step, u)
  <2>1. r \in FlowRecords /\ r.uid = u
    BY DEF Flow, FlowRecords
  <2> HIDE DEF r
  <2> QED
    BY <1>1, <2>1, FlowStaysFree DEF r
<1>2. CASE UserStarts(f)
  BY <1>1, <1>2 DEF UserStarts, entryVars, Configured
<1>3. CASE \E u \in Units : Discovered(f, u)
  BY <1>1, <1>3 DEF Discovered, entryVars
<1>4. CASE Close(f) \/ \E u \in Units : SubmitAborts(f, u)
  <2>1. Put(f, NoFlow) /\ UNCHANGED <<at, bond, reading>>
    BY <1>4 DEF Close, SubmitAborts, entryVars
  <2>2. NoFlow \in FlowRecords /\ NoFlow.step = "none" /\ ~Configured(NoFlow.uid)
    BY DEF NoFlow, FlowRecords, Configured
  <2> QED
    BY <2>1, <2>2, FlowStaysFree
<1>5. CASE SubmitMalformed(f)
  <2> DEFINE r == Addressed(f, Malformed)
  <2>1. r \in FlowRecords /\ r.uid = flow[f].uid /\ (Handled(f) => r.again)
    BY <1>0, <1>5 DEF SubmitMalformed, Addressed, FlowRecords, Handled
  <2>2. Put(f, r) /\ UNCHANGED <<at, bond, reading>>
    BY <1>5 DEF SubmitMalformed, entryVars
  <2> HIDE DEF r
  <2>3. ~Configured(r.uid)
    BY <2>1 DEF UInv, FreeIds
  <2> QED
    BY <2>1, <2>2, <2>3, FlowStaysFree
<1>6. CASE Confirm(f)
  <2> DEFINE u == flow[f].address
             r == Addressed(f, u)
  <2>1. u \in Units
    BY <1>6 DEF Confirm, FInv, FlowIds
  <2>2. r \in FlowRecords /\ r.uid = flow[f].uid /\ (Handled(f) => r.again)
    BY <1>0, <2>1 DEF Addressed, FlowRecords, Handled
  <2>3. Put(f, r) /\ Read(f, u) /\ UNCHANGED <<at, bond>>
    BY <1>6 DEF Confirm, entryVars
  <2> HIDE DEF r, u
  <2>4. ~Configured(r.uid)
    BY <2>2 DEF UInv, FreeIds
  <2> QED
    BY <2>1, <2>2, <2>3, <2>4, FlowStaysFree
<1>7. ASSUME NEW u \in Units, Submit(f, u)
      PROVE  UInv'
  <2> DEFINE r == [Addressed(f, u) EXCEPT !.uid = u]
  <2>1. r \in FlowRecords /\ r.uid = u /\ (Handled(f) => r.again)
    BY <1>0, <1>7 DEF Submit, Addressed, FlowRecords, Handled
  <2>2. Put(f, r) /\ Read(f, u) /\ UNCHANGED <<at, bond>> /\ ~Configured(u)
    BY <1>7 DEF Submit, entryVars
  <2> HIDE DEF r
  <2> QED
    BY <2>1, <2>2, FlowStaysFree
<1> QED
  BY <1>2, <1>3, <1>4, <1>5, <1>6, <1>7

\* Flows only end, reads only end, and what is configured does not change.
LEMMA OnlyEnding ==
  ASSUME FInv, UInv,
         \A g \in Flows : flow'[g] \in {flow[g], NoFlow},
         \A s \in Submissions : reading'[s] \in {reading[s], NoRead},
         \A g \in Flows : flow'[g] # NoFlow => ~Configured(flow[g].uid)'
  PROVE  UInv'
<1>1. NoFlow.step = "none" /\ NoFlow.uid = None /\ NoRead.flow = None
  BY DEF NoFlow, NoRead
<1>2. FreeIds'
  BY <1>1 DEF UInv, FreeIds, Configured
<1>3. ReadsOnce'
  <2>1. \A s \in Submissions : reading[s].flow # None => reading[s].flow \in Flows
    BY DEF FInv, FlowTypes
  <2> QED
    BY <1>1, <2>1 DEF UInv, ReadsOnce, InProgress
<1> QED
  BY <1>2, <1>3 DEF UInv

LEMMA UInvInductive ==
  ASSUME SInv, FInv, UInv, [Next]_vars
  PROVE  UInv'
<1>1. EntryTypeOK
  BY DEF SInv, EInv
<1>2. ASSUME UNCHANGED flowVars, Present' = Present
      PROVE  UInv'
  BY <1>2 DEF flowVars, UInv, FreeIds, ReadsOnce, InProgress, Configured, Present
<1>3. CASE UNCHANGED vars
  BY <1>2, <1>3 DEF vars, entryVars, Present
<1>4. CASE EntryNext /\ UNCHANGED flowVars
  BY <1>1, <1>2, <1>4, PresentKept DEF EntryTypeOK
<1>5. ASSUME NEW s \in Submissions, ReadFails(s) \/ ReadAborts(s)
      PROVE  UInv'
  <2>1. /\ UNCHANGED <<at, bond>>
        /\ \A g \in Flows : flow'[g] \in {flow[g], NoFlow}
        /\ \A t \in Submissions : reading'[t] \in {reading[t], NoRead}
    BY <1>5 DEF FInv, FlowTypes, ReadFails, ReadAborts, ReadOver, Put, entryVars
  <2>2. \A g \in Flows : ~Configured(flow[g].uid)'
    <3>1. \A g \in Flows : flow'[g].uid = flow[g].uid \/ flow'[g].uid = None
      BY <2>1 DEF NoFlow
    <3> QED
      BY <2>1, <3>1 DEF UInv, FreeIds, Configured
  <2> QED
    BY <2>1, <2>2, OnlyEnding
<1>6. ASSUME NEW s \in Submissions, NEW e \in Entries, CreateEntry(s, e)
      PROVE  UInv'
  <2> DEFINE f == reading[s].flow
  <2>1. /\ at' = [at EXCEPT ![e] = "not loaded"] /\ at[e] = "absent"
        /\ bond' = [bond EXCEPT ![e] = Bond(flow[f], reading[s].unit)]
        /\ flow' = [g \in Flows |->
                      IF g = f \/ (flow[f].uid # None /\ flow[g].uid = flow[f].uid)
                        THEN NoFlow ELSE flow[g]]
        /\ reading' = [reading EXCEPT ![s] = NoRead]
    BY <1>6 DEF CreateEntry, Move, ReadOver
  <2>2. /\ \A g \in Flows : flow'[g] \in {flow[g], NoFlow}
        /\ \A t \in Submissions : reading'[t] \in {reading[t], NoRead}
    BY <2>1 DEF FInv, FlowTypes
  <2>3. bond'[e].uid = flow[f].uid /\ \A d \in Present : bond'[d] = bond[d]
    BY <2>1 DEF FInv, FlowTypes, Bond, Present
  <2>4. Present' = Present \cup {e}
    BY <1>1, <2>1 DEF EntryTypeOK, Present
  <2>5. \A g \in Flows : flow'[g] # NoFlow =>
          flow'[g] = flow[g] /\ (flow[g].uid # None => flow[g].uid # flow[f].uid)
    BY <2>1 DEF FInv, FlowTypes
  <2> HIDE DEF f
  <2>6. \A g \in Flows : flow'[g] # NoFlow => ~Configured(flow[g].uid)'
    BY <2>3, <2>4, <2>5 DEF UInv, FreeIds, Configured, Present
  <2> QED
    BY <2>2, <2>6, OnlyEnding
<1>7. CASE FlowNext
  BY <1>5, <1>6, <1>7, FlowStaysFreeStep DEF FlowNext
<1>8. ASSUME NEW e \in Entries, DeleteEntry(e)
      PROVE  UInv'
  <2>1. /\ at' = [at EXCEPT ![e] = "absent"] /\ bond' = [bond EXCEPT ![e] = NoBond]
        /\ UNCHANGED <<flow, reading>>
    BY <1>8 DEF DeleteEntry, Delete, Move
  <2>2. Present' = Present \ {e} /\ \A d \in Present \ {e} : bond'[d] = bond[d]
    BY <1>1, <2>1 DEF FInv, FlowTypes, EntryTypeOK, Present
  <2>3. FreeIds'
    BY <2>1, <2>2 DEF UInv, FreeIds, Configured, Present
  <2>4. ReadsOnce'
    BY <2>1 DEF UInv, ReadsOnce, InProgress
  <2> QED
    BY <2>3, <2>4 DEF UInv
<1> QED
  BY <1>3, <1>4, <1>7, <1>8 DEF Next

\* A unit accepts one central: of the flows' reads and the entries' coordinators
\* at most one is using it (_async_bind reads outside any coordinator's lock).
LEMMA OneUser ==
  ASSUME SInv, FInv, UInv, NEW u \in Units
  PROVE  Cardinality(Readers(u)) + Cardinality(Runners(u)) <= 1
<1>1. ASSUME NEW s \in Readers(u)
      PROVE  /\ reading[s].flow \in Flows /\ flow[reading[s].flow].uid = u
             /\ InProgress(reading[s].flow) /\ ~flow[reading[s].flow].again
  <2>1. s \in Submissions /\ reading[s] # NoRead /\ reading[s].unit = u
        /\ InProgress(reading[s].flow) /\ ~flow[reading[s].flow].again
    BY DEF Readers
  <2>2. reading[s].flow \in Flows
    BY <2>1 DEF FInv, FlowTypes, ReadsOwn
  <2> QED
    BY <2>1, <2>2, FlowAssumption DEF FInv, ReadsOwn
<1>2. ASSUME NEW c \in Runners(u)
      PROVE  owner[c] \in Present /\ runtime[owner[c]] = c /\ bond[owner[c]].uid = u
  <2>1. /\ c \in Coordinators /\ c \notin abandoned /\ phase[c] # "down"
        /\ bond[owner[c]].address = u /\ ~bond[owner[c]].again
    BY DEF Runners
  <2>2. owner[c] \in Entries /\ runtime[owner[c]] = c
    BY <2>1 DEF SInv, EInv, OwnerInv
  <2>3. at[owner[c]] \notin Off
    BY <2>1, <2>2, NoneAssumption DEF SInv, EInv, RuntimeInv
  <2>4. owner[c] \in Present
    BY <2>2, <2>3 DEF Present, Off
  <2> QED
    BY <2>1, <2>2, <2>4 DEF FInv, BondsOwn
<1>3. \A s, t \in Readers(u) : s = t
  <2> SUFFICES ASSUME NEW s \in Readers(u), NEW t \in Readers(u) PROVE s = t
    OBVIOUS
  <2>1. reading[s].flow = reading[t].flow
    BY <1>1, FlowAssumption DEF FInv, FlowIds
  <2> QED
    BY <1>1, <2>1, FlowAssumption DEF UInv, ReadsOnce, Readers
<1>4. \A c, d \in Runners(u) : c = d
  BY <1>2 DEF FInv, BondsOwn
<1>5. Readers(u) = {} \/ Runners(u) = {}
  BY <1>1, <1>2, FlowAssumption DEF UInv, FreeIds, Configured, Present
<1>6. Readers(u) = {} \/ \E s : Readers(u) = {s}
  BY <1>3
<1>7. Runners(u) = {} \/ \E c : Runners(u) = {c}
  BY <1>4
<1>8. Cardinality({}) = 0 /\ \A x : Cardinality({x}) = 1
  BY FS_EmptySet, FS_Singleton
<1>9. /\ Cardinality(Readers(u)) \in {0, 1} /\ Cardinality(Runners(u)) \in {0, 1}
      /\ Cardinality(Readers(u)) = 0 \/ Cardinality(Runners(u)) = 0
  BY <1>5, <1>6, <1>7, <1>8, Zenon
<1> QED
  BY <1>9

\* No unit ever has two users, whatever is submitted, closed, set up, unloaded or
\* deleted in between (config_flow.py, __init__.py).
THEOREM UnitHasOneUser == Spec => []UnitOwner
<1>1. Init => UInv
  BY DEF Init, EntryInit, NoFlow, NoRead, UInv, FreeIds, ReadsOnce, Configured
<1>2. SInv /\ FInv /\ UInv /\ [Next]_vars => UInv'
  BY UInvInductive
<1>3. SInv /\ FInv /\ UInv => UnitOwner
  BY OneUser DEF UnitOwner
<1> QED
  BY <1>1, <1>2, <1>3, EntryInvariance, FlowInvariance, PTL DEF Spec
===============================================================================
