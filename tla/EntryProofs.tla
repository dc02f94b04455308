------------------------------ MODULE EntryProofs ------------------------------
(***************************************************************************)
(* Proofs about EntryLifecycle, under the flows of ConfigFlow that create  *)
(* and delete its entries, for any number of entries, coordinators, calls, *)
(* flows and submissions.                                                  *)
(***************************************************************************)
EXTENDS ConfigFlow, TLAPS

Running == {"starting", "forwarding", "loaded", "unloading", "failed unload"}
Ending == {"cleaning up", "shutting down"}
Off == Resting \cup {"absent"}

\* Which coordinator an entry has, in every state of the entry.
RuntimeInv ==
  \A e \in Entries :
    /\ at[e] \in Running =>
         runtime[e] # None /\ phase[runtime[e]] = "up" /\ owner[runtime[e]] = e
    /\ at[e] \in Ending => runtime[e] # None /\ phase[runtime[e]] # "up"
    /\ at[e] \in Off => runtime[e] = None \/ phase[runtime[e]] = "down"
    /\ \A d \in Entries : runtime[d] = runtime[e] => d = e \/ runtime[e] = None

\* A coordinator that is not down belongs to an entry, or was abandoned.
OwnerInv ==
  \A c \in Coordinators :
    /\ c \in abandoned => phase[c] # "down" /\ \A e \in Entries : runtime[e] # c
    /\ phase[c] # "down" /\ c \notin abandoned =>
         owner[c] \in Entries /\ runtime[owner[c]] = c

CallInv ==
  \A k \in Calls :
    call[k].at # "idle" =>
      /\ call[k].coord # None
      /\ call[k].at = "writing" => phase[call[k].coord] # "down"

EInv == EntryTypeOK /\ RuntimeInv /\ OwnerInv /\ CallInv
SInv == EInv /\ ServiceServes

LEMMA StateNames ==
  /\ States = Running \cup Ending \cup Off
  /\ "loaded" \in Running /\ "unloading" \in Running /\ "failed unload" \in Running
  /\ Running \cap Ending = {} /\ Running \cap Off = {} /\ Ending \cap Off = {}
BY DEF States, Setup, Unload, Resting, Running, Ending, Off

LEMMA InitEntry == EntryInit => SInv
<1> SUFFICES ASSUME EntryInit PROVE SInv
  OBVIOUS
<1>1. \A e \in Entries : at[e] \in Off /\ at[e] \notin Running \cup Ending /\ ~Loaded(e)
                         /\ runtime[e] = None
  BY DEF EntryInit, Loaded, Resting, Running, Ending, Off
<1>2. EntryTypeOK
  BY DEF EntryInit, EntryTypeOK, Idle, States
<1>3. RuntimeInv
  BY <1>1 DEF RuntimeInv
<1>4. OwnerInv
  BY DEF EntryInit, OwnerInv
<1>5. CallInv
  BY DEF EntryInit, CallInv, Idle
<1>6. ServiceServes
  BY <1>1 DEF EntryInit, ServiceServes
<1> QED
  BY <1>2, <1>3, <1>4, <1>5, <1>6 DEF SInv, EInv

\* An entry moves, whatever becomes of its coordinator.
LEMMA TypeStep ==
  ASSUME EntryTypeOK, NEW e \in Entries, NEW place \in States, Move(e, place),
         runtime' \in [Entries -> Coordinators \cup {None}],
         phase' \in [Coordinators -> {"up", "stopping", "down"}],
         owner' \in [Coordinators -> Entries \cup {None}],
         abandoned' \subseteq Coordinators, service' \in BOOLEAN, UNCHANGED call
  PROVE  EntryTypeOK'
<1>1. at' \in [Entries -> States]
  BY DEF EntryTypeOK, Move
<1> QED
  BY <1>1 DEF EntryTypeOK

-------------------------------------------------------------------------------
LEMMA SetupBeginsStep ==
  ASSUME SInv, NEW e \in Entries, SetupBegins(e)
  PROVE  SInv'
<1> USE NoneAssumption DEF SInv, EInv
<1> PICK c \in Coordinators :
      /\ phase[c] = "down"
      /\ \A o \in Entries \ {e} : runtime[o] # c
      /\ \A k \in Calls : call[k].coord # c
      /\ runtime' = [runtime EXCEPT ![e] = c]
      /\ phase' = [phase EXCEPT ![c] = "up"]
      /\ owner' = [owner EXCEPT ![c] = e]
  BY DEF SetupBegins
<1>0. at[e] \in Off /\ at' = [at EXCEPT ![e] = "starting"] /\ UNCHANGED <<abandoned, service, call>>
  BY DEF SetupBegins, Move, Off
<1>1. EntryTypeOK'
  BY <1>0 DEF EntryTypeOK, States, Setup
<1>2. RuntimeInv'
  <2>1. \A d \in Entries \ {e} : at'[d] = at[d] /\ runtime'[d] = runtime[d] /\ runtime[d] # c
    BY <1>0 DEF EntryTypeOK
  <2>2. at'[e] = "starting" /\ at'[e] \in Running /\ at'[e] \notin Ending \cup Off
    BY <1>0 DEF EntryTypeOK, Running, Ending, Off, Resting
  <2>3. runtime'[e] = c /\ phase'[c] = "up" /\ owner'[c] = e
    BY DEF EntryTypeOK
  <2>4. \A d \in Entries \ {e} :
          \/ runtime[d] = None
          \/ phase'[runtime[d]] = phase[runtime[d]] /\ owner'[runtime[d]] = owner[runtime[d]]
    BY <2>1 DEF EntryTypeOK
  <2> QED
    BY <2>1, <2>2, <2>3, <2>4 DEF RuntimeInv
<1>3. OwnerInv'
  BY <1>0 DEF EntryTypeOK, RuntimeInv, OwnerInv
<1>4. CallInv'
  BY <1>0 DEF EntryTypeOK, CallInv
<1>5. ServiceServes'
  BY <1>0 DEF EntryTypeOK, ServiceServes, Loaded, Off, Resting
<1> QED
  BY <1>1, <1>2, <1>3, <1>4, <1>5

\* The coordinator of an entry that runs begins to stop.
LEMMA Stopping ==
  ASSUME EInv, NEW e \in Entries, at[e] \in Running, NEW place \in Ending,
         StopCoordinator(e), Move(e, place), service' \in BOOLEAN,
         UNCHANGED <<runtime, owner, abandoned, call>>
  PROVE  EInv'
<1> USE NoneAssumption DEF EInv
<1> DEFINE c == runtime[e]
<1>1. c \in Coordinators /\ phase[c] = "up" /\ owner[c] = e
  BY DEF EntryTypeOK, RuntimeInv
<1>2. /\ phase' = [phase EXCEPT ![c] = "stopping"]
      /\ at' = [at EXCEPT ![e] = place]
      /\ UNCHANGED <<runtime, owner, abandoned, call>>
  BY DEF StopCoordinator, Move
<1>3. \A d \in Entries \ {e} : at'[d] = at[d] /\ runtime[d] # c
  BY <1>1, <1>2 DEF EntryTypeOK, RuntimeInv
<1>4. at'[e] = place /\ place \notin Running /\ place \notin Off
  BY <1>2, StateNames DEF EntryTypeOK
<1>5. phase'[c] = "stopping" /\ \A d \in Coordinators \ {c} : phase'[d] = phase[d]
  BY <1>1, <1>2 DEF EntryTypeOK
<1> HIDE DEF c
<1>6. EntryTypeOK'
  <2>1. place \in States
    BY StateNames
  <2>2. phase' \in [Coordinators -> {"up", "stopping", "down"}]
    BY <1>1, <1>2 DEF EntryTypeOK
  <2> QED
    BY <1>2, <2>1, <2>2, TypeStep DEF EntryTypeOK
<1>7. RuntimeInv'
  <2> SUFFICES ASSUME NEW d \in Entries
               PROVE  /\ at'[d] \in Running =>
                           runtime[d] # None /\ phase'[runtime[d]] = "up" /\ owner[runtime[d]] = d
                      /\ at'[d] \in Ending => runtime[d] # None /\ phase'[runtime[d]] # "up"
                      /\ at'[d] \in Off => runtime[d] = None \/ phase'[runtime[d]] = "down"
                      /\ \A o \in Entries : runtime[o] = runtime[d] => o = d \/ runtime[d] = None
    BY <1>2 DEF RuntimeInv
  <2>1. CASE d = e
    BY <2>1, <1>1, <1>4, <1>5 DEF RuntimeInv, c
  <2>2. CASE d # e
    <3>1. runtime[d] = None \/ (runtime[d] \in Coordinators /\ phase'[runtime[d]] = phase[runtime[d]])
      BY <2>2, <1>3, <1>5 DEF EntryTypeOK
    <3> QED
      BY <2>2, <3>1, <1>3 DEF RuntimeInv
  <2> QED
    BY <2>1, <2>2
<1>8. OwnerInv'
  BY <1>1, <1>2, <1>5 DEF OwnerInv, c
<1>9. CallInv'
  BY <1>2, <1>5 DEF EntryTypeOK, CallInv
<1> QED
  BY <1>6, <1>7, <1>8, <1>9

\* An entry moves on and keeps its coordinator.
LEMMA Moving ==
  ASSUME EInv, NEW e \in Entries, NEW place \in States,
         \/ at[e] \in Running /\ place \in Running
         \/ at[e] \in Ending /\ place \in Off /\ phase[runtime[e]] = "down"
         \/ at[e] \in Off /\ place \in Off,
         Move(e, place), service' \in BOOLEAN, UNCHANGED <<coords, call>>
  PROVE  EInv'
<1> USE DEF EInv, coords
<1>1. at'[e] = place /\ \A d \in Entries \ {e} : at'[d] = at[d]
  BY DEF EntryTypeOK, Move
<1>2. EntryTypeOK'
  BY TypeStep DEF EntryTypeOK
<1>3. RuntimeInv'
  <2>1. \/ at[e] \in Running /\ at'[e] \in Running /\ at'[e] \notin Ending \cup Off
        \/ at'[e] \in Off /\ at'[e] \notin Running \cup Ending
           /\ (runtime[e] = None \/ phase[runtime[e]] = "down")
    BY <1>1, StateNames DEF RuntimeInv
  <2> QED
    BY <1>1, <2>1 DEF RuntimeInv
<1>4. OwnerInv' /\ CallInv'
  BY DEF OwnerInv, CallInv
<1> QED
  BY <1>2, <1>3, <1>4

\* An entry is rid of its coordinator, which is down or abandoned.
LEMMA LettingGo ==
  ASSUME EInv, NEW e \in Entries, NEW place \in Off, Move(e, place),
         runtime' = [runtime EXCEPT ![e] = None], service' \in BOOLEAN,
         UNCHANGED <<phase, owner, call>>,
         \/ abandoned' = abandoned /\ (runtime[e] = None \/ phase[runtime[e]] = "down")
         \/ /\ abandoned' = abandoned \cup {runtime[e]}
            /\ runtime[e] \in Coordinators /\ phase[runtime[e]] # "down"
  PROVE  EInv'
<1> USE NoneAssumption DEF EInv
<1>1. /\ at'[e] = place /\ runtime'[e] = None /\ place \in States
      /\ place \notin Running \cup Ending
      /\ \A d \in Entries \ {e} : at'[d] = at[d] /\ runtime'[d] = runtime[d]
  BY StateNames DEF EntryTypeOK, Move
<1>2. EntryTypeOK'
  <2>1. runtime' \in [Entries -> Coordinators \cup {None}] /\ abandoned' \subseteq Coordinators
    BY DEF EntryTypeOK
  <2> QED
    BY <1>1, <2>1, TypeStep DEF EntryTypeOK
<1>3. RuntimeInv'
  BY <1>1 DEF RuntimeInv
<1>4. OwnerInv'
  <2>1. \A c \in abandoned' : phase[c] # "down" /\ \A d \in Entries : runtime'[d] # c
    <3> TAKE c \in abandoned'
    <3>1. c \in Coordinators /\ phase[c] # "down"
      BY DEF EntryTypeOK, OwnerInv
    <3>2. c \notin abandoned => c = runtime[e]
      OBVIOUS
    <3>3. \A d \in Entries \ {e} : runtime[d] # c
      BY <3>1, <3>2 DEF RuntimeInv, OwnerInv
    <3> QED
      BY <3>1, <3>3, <1>1
  <2>2. ASSUME NEW c \in Coordinators, phase[c] # "down", c \notin abandoned'
        PROVE  owner[c] \in Entries /\ runtime'[owner[c]] = c
    BY <2>2, <1>1 DEF OwnerInv
  <2> QED
    BY <2>1, <2>2 DEF OwnerInv
<1>5. CallInv'
  BY DEF CallInv
<1> QED
  BY <1>2, <1>3, <1>4, <1>5

LEMMA ShutdownEndsStep ==
  ASSUME SInv, NEW c \in Coordinators, ShutdownEnds(c)
  PROVE  SInv'
<1> USE NoneAssumption DEF SInv, EInv, ShutdownEnds
<1>1. phase'[c] = "down" /\ \A d \in Coordinators \ {c} : phase'[d] = phase[d] /\ owner'[d] = owner[d]
  BY DEF EntryTypeOK
<1>2. EntryTypeOK'
  BY DEF EntryTypeOK
<1>3. RuntimeInv'
  <2>1. \A e \in Entries : runtime[e] = None \/ runtime[e] \in Coordinators
    BY DEF EntryTypeOK
  <2> QED
    BY <1>1, <2>1 DEF RuntimeInv
<1>4. OwnerInv'
  BY <1>1 DEF EntryTypeOK, OwnerInv
<1>5. CallInv'
  <2>1. \A k \in Calls : call[k].at = "writing" => call[k].coord # c
    BY DEF EntryTypeOK, Writing
  <2>2. \A k \in Calls : call[k].coord \in Coordinators \cup {None}
    BY DEF EntryTypeOK
  <2> QED
    BY <1>1, <2>1, <2>2 DEF CallInv
<1>6. ServiceServes'
  BY <1>1 DEF EntryTypeOK, ServiceServes, Loaded
<1> QED
  BY <1>2, <1>3, <1>4, <1>5, <1>6

LEMMA ServiceCallStep ==
  ASSUME SInv, NEW k \in Calls, ServiceCall(k)
  PROVE  SInv'
<1> USE NoneAssumption DEF SInv, EInv, coords
<1>1. ASSUME NEW e \in Entries, Request(k, e)
      PROVE  EntryTypeOK' /\ CallInv' /\ UNCHANGED <<at, coords, service>>
  <2>1. runtime[e] \in Coordinators /\ phase[runtime[e]] = "up"
    <3>1. at[e] \in Running
      BY <1>1, StateNames DEF Request, Loaded
    <3> QED
      BY <3>1 DEF EntryTypeOK, RuntimeInv
  <2>2. /\ call' = [call EXCEPT ![k] = [at |-> "queued", coord |-> runtime[e]]]
        /\ UNCHANGED <<at, coords, service>>
    BY <1>1 DEF Request
  <2>3. EntryTypeOK'
    BY <2>1, <2>2 DEF EntryTypeOK
  <2>4. CallInv'
    BY <2>1, <2>2 DEF EntryTypeOK, CallInv
  <2> QED
    BY <2>2, <2>3, <2>4
<1>2. ASSUME WriteBegins(k)
      PROVE  EntryTypeOK' /\ CallInv' /\ UNCHANGED <<at, coords, service>>
  BY <1>2 DEF WriteBegins, Turn, EntryTypeOK, CallInv
<1>3. ASSUME WriteRejected(k) \/ WriteEnds(k)
      PROVE  EntryTypeOK' /\ CallInv' /\ UNCHANGED <<at, coords, service>>
  BY <1>3 DEF WriteRejected, WriteEnds, Idle, EntryTypeOK, CallInv
<1>4. EntryTypeOK' /\ CallInv' /\ UNCHANGED <<at, coords, service>>
  BY <1>1, <1>2, <1>3 DEF ServiceCall
<1>5. RuntimeInv' /\ OwnerInv' /\ ServiceServes'
  BY <1>4 DEF RuntimeInv, OwnerInv, ServiceServes, Loaded
<1> QED
  BY <1>4, <1>5

-------------------------------------------------------------------------------
\* A step neither from nor to a state that ServiceServes tells apart.
Plain == States \ {"loaded", "unloading", "failed unload"}

LEMMA ServiceStep ==
  ASSUME SInv, NEW e \in Entries, NEW place \in Plain, at[e] \in Plain,
         Move(e, place), UNCHANGED service,
         \A c \in abandoned : phase[c] = "up" => c \in abandoned' /\ phase'[c] = "up"
  PROVE  ServiceServes'
<1>1. /\ at'[e] = place /\ \A d \in Entries \ {e} : at'[d] = at[d]
  BY DEF SInv, EInv, EntryTypeOK, Move
<1> QED
  BY <1>1 DEF SInv, ServiceServes, Loaded, Plain

LEMMA SetupStep ==
  ASSUME SInv, NEW e \in Entries, SetupEntry(e)
  PROVE  SInv'
<1> USE DEF SInv
<1>0. service \in BOOLEAN
  BY DEF EInv, EntryTypeOK
<1>1. CASE SetupBegins(e)
  BY <1>1, SetupBeginsStep
<1>2. CASE Started(e)
  <2>1. /\ at[e] \in Running /\ at[e] \in Plain /\ "forwarding" \in Running \cap Plain
        /\ "forwarding" \in States
    BY <1>2 DEF Started, Running, Plain, States, Setup
  <2>2. Move(e, "forwarding") /\ UNCHANGED <<coords, service, call>>
    BY <1>2 DEF Started
  <2>3. EInv'
    BY <1>0, <2>1, <2>2, Moving
  <2>4. ServiceServes'
    BY <2>1, <2>2, ServiceStep DEF coords
  <2> QED
    BY <2>3, <2>4
<1>3. CASE SetupBreaks(e)
  <2>1. /\ at[e] \in Running /\ at[e] \in Plain /\ "cleaning up" \in Ending \cap Plain
    BY <1>3 DEF SetupBreaks, Running, Ending, Plain, States, Setup
  <2>2. /\ StopCoordinator(e) /\ Move(e, "cleaning up")
        /\ UNCHANGED <<runtime, owner, abandoned, service, call>>
    BY <1>3 DEF SetupBreaks
  <2>3. EInv'
    BY <1>0, <2>1, <2>2, Stopping
  <2>4. \A c \in abandoned : phase[c] = "up" => phase'[c] = "up"
    BY <2>2 DEF EInv, EntryTypeOK, OwnerInv, StopCoordinator
  <2>5. ServiceServes'
    BY <2>1, <2>2, <2>4, ServiceStep
  <2> QED
    BY <2>3, <2>5
<1>4. CASE SetupFails(e)
  <2>1. /\ at[e] \in Ending /\ at[e] \in Plain /\ "setup error" \in Off \cap Plain
        /\ phase[runtime[e]] = "down" /\ "setup error" \in States
    BY <1>4 DEF SetupFails, Ending, Off, Resting, Plain, States, Setup
  <2>2. Move(e, "setup error") /\ UNCHANGED <<coords, service, call>>
    BY <1>4 DEF SetupFails
  <2>3. EInv'
    BY <1>0, <2>1, <2>2, Moving
  <2>4. ServiceServes'
    BY <2>1, <2>2, ServiceStep DEF coords
  <2> QED
    BY <2>3, <2>4
<1>5. CASE SetupEnds(e)
  <2>1. /\ at[e] \in Running /\ "loaded" \in Running /\ "loaded" \in States
    BY <1>5 DEF SetupEnds, Running, States
  <2>2. Move(e, "loaded") /\ service' = TRUE /\ UNCHANGED <<coords, call>>
    BY <1>5 DEF SetupEnds
  <2>3. EInv'
    BY <2>1, <2>2, Moving
  <2>4. ServiceServes'
    BY <2>2 DEF EInv, EntryTypeOK, ServiceServes, Loaded, Move
  <2> QED
    BY <2>3, <2>4
<1> QED
  BY <1>1, <1>2, <1>3, <1>4, <1>5 DEF SetupEntry

LEMMA UnloadStep ==
  ASSUME SInv, NEW e \in Entries, UnloadEntry(e)
  PROVE  SInv'
<1> USE DEF SInv
<1>0. service \in BOOLEAN
  BY DEF EInv, EntryTypeOK
<1>1. CASE UnloadBegins(e)
  <2>1. /\ at[e] \in Running /\ "unloading" \in Running /\ "unloading" \in States
    BY <1>1 DEF UnloadBegins, Loaded, Running, States, Unload
  <2>2. Move(e, "unloading") /\ UNCHANGED <<coords, service, call>> /\ Loaded(e)
    BY <1>1 DEF UnloadBegins
  <2>3. EInv'
    BY <1>0, <2>1, <2>2, Moving
  <2>4. ServiceServes'
    BY <2>2 DEF EInv, EntryTypeOK, ServiceServes, Loaded, Move
  <2> QED
    BY <2>3, <2>4
<1>2. CASE UnloadRefused(e)
  <2>1. /\ at[e] \in Running /\ "failed unload" \in Running /\ "failed unload" \in States
    BY <1>2 DEF UnloadRefused, Running, States
  <2>2. /\ Move(e, "failed unload") /\ UNCHANGED <<coords, service, call>>
        /\ at[e] = "unloading"
    BY <1>2 DEF UnloadRefused
  <2>3. EInv'
    BY <1>0, <2>1, <2>2, Moving
  <2>4. ServiceServes'
    BY <2>2 DEF EInv, EntryTypeOK, ServiceServes, Loaded, Move
  <2> QED
    BY <2>3, <2>4
<1>3. CASE PlatformsUnloaded(e)
  <2>1. at[e] \in Running /\ at[e] = "unloading" /\ "shutting down" \in Ending
    BY <1>3 DEF PlatformsUnloaded, Running, Ending
  <2>2. /\ StopCoordinator(e) /\ Move(e, "shutting down")
        /\ UNCHANGED <<runtime, owner, abandoned, call>>
        /\ service' = (service /\ AnotherLoaded(e))
    BY <1>3 DEF PlatformsUnloaded
  <2>3. EInv'
    BY <1>0, <2>1, <2>2, Stopping
  <2>4. at'[e] = "shutting down" /\ \A d \in Entries \ {e} : at'[d] = at[d]
    BY <2>2 DEF EInv, EntryTypeOK, Move
  <2>5. ServiceServes'
    BY <2>2, <2>4 DEF ServiceServes, AnotherLoaded, Loaded
  <2> QED
    BY <2>3, <2>5
<1>4. CASE Unloaded(e)
  <2>1. /\ at[e] \in Ending /\ at[e] \in Plain /\ "not loaded" \in Off \cap Plain
    BY <1>4 DEF Unloaded, Ending, Off, Resting, Plain, States, Unload
  <2>2. /\ Move(e, "not loaded") /\ UNCHANGED <<phase, owner, service, call>>
        /\ runtime' = [runtime EXCEPT ![e] = None]
        /\ abandoned' = IF phase[runtime[e]] = "down" THEN abandoned
                                                      ELSE abandoned \cup {runtime[e]}
    BY <1>4 DEF Unloaded
  <2>3. runtime[e] \in Coordinators
    <3>1. runtime \in [Entries -> Coordinators \cup {None}]
      BY DEF EInv, EntryTypeOK
    <3>2. runtime[e] # None
      BY <2>1 DEF EInv, RuntimeInv
    <3> QED
      BY <3>1, <3>2
  <2>4. EInv'
    BY <1>0, <2>1, <2>2, <2>3, LettingGo
  <2>5. ServiceServes'
    BY <2>1, <2>2, ServiceStep
  <2> QED
    BY <2>4, <2>5
<1> QED
  BY <1>1, <1>2, <1>3, <1>4 DEF UnloadEntry

LEMMA DeleteStep ==
  ASSUME SInv, NEW e \in Entries, Delete(e)
  PROVE  SInv'
<1> USE DEF SInv
<1>1. /\ Move(e, "absent") /\ UNCHANGED <<phase, owner, service, call>>
      /\ runtime' = [runtime EXCEPT ![e] = None]
      /\ abandoned' = IF at[e] = "failed unload" THEN abandoned \cup {runtime[e]}
                                                 ELSE abandoned
      /\ at[e] \in Resting \cup {"failed unload"}
  BY DEF Delete
<1>2. service \in BOOLEAN /\ "absent" \in Off \cap Plain
  BY DEF EInv, EntryTypeOK, Off, Plain, States
<1>3. CASE at[e] = "failed unload"
  <2>1. runtime[e] \in Coordinators /\ phase[runtime[e]] = "up"
    <3>1. at[e] \in Running
      BY <1>3, StateNames
    <3> QED
      BY <3>1 DEF EInv, EntryTypeOK, RuntimeInv
  <2>2. EInv'
    BY <1>1, <1>2, <1>3, <2>1, LettingGo
  <2>3. ServiceServes'
    BY <1>1, <1>3, <2>1 DEF EInv, EntryTypeOK, ServiceServes, Loaded, Move
  <2> QED
    BY <2>2, <2>3
<1>4. CASE at[e] # "failed unload"
  <2>1. at[e] \in Off /\ at[e] \in Plain
    BY <1>1, <1>4 DEF Resting, Off, Plain, States
  <2>2. runtime[e] = None \/ phase[runtime[e]] = "down"
    BY <2>1 DEF EInv, RuntimeInv
  <2>3. EInv'
    BY <1>1, <1>2, <1>4, <2>2, LettingGo
  <2>4. ServiceServes'
    BY <1>1, <1>2, <1>4, <2>1, ServiceStep
  <2> QED
    BY <2>3, <2>4
<1> QED
  BY <1>3, <1>4

LEMMA CreateStep ==
  ASSUME SInv, NEW s \in Submissions, NEW e \in Entries, CreateEntry(s, e)
  PROVE  SInv'
<1>1. /\ at[e] = "absent" /\ Move(e, "not loaded") /\ UNCHANGED <<coords, service, call>>
  BY DEF CreateEntry
<1>2. /\ at[e] \in Off /\ at[e] \in Plain /\ "not loaded" \in Off \cap Plain
      /\ "not loaded" \in States
  BY <1>1 DEF Off, Resting, Plain, States
<1>3. EInv'
  BY <1>1, <1>2, Moving DEF SInv, EInv, EntryTypeOK
<1>4. ServiceServes'
  BY <1>1, <1>2, ServiceStep DEF coords
<1> QED
  BY <1>3, <1>4 DEF SInv

-------------------------------------------------------------------------------
LEMMA SInvInductive ==
  ASSUME SInv, [Next]_vars
  PROVE  SInv'
<1>1. ASSUME UNCHANGED entryVars
      PROVE  SInv'
  BY <1>1 DEF entryVars, coords, SInv, EInv, EntryTypeOK, RuntimeInv, OwnerInv, CallInv,
     ServiceServes, Loaded
<1>2. ASSUME FlowNext
      PROVE  SInv'
  <2>1. CASE \E s \in Submissions, e \in Entries : CreateEntry(s, e)
    BY <2>1, CreateStep
  <2>2. ASSUME NEW f \in Flows,
               \/ UserStarts(f) \/ SubmitMalformed(f) \/ Confirm(f) \/ Close(f)
               \/ \E u \in Units : Discovered(f, u) \/ SubmitAborts(f, u) \/ Submit(f, u)
        PROVE  UNCHANGED entryVars
    BY <2>2 DEF Discovered, UserStarts, SubmitMalformed, SubmitAborts, Submit, Confirm, Close
  <2>3. ASSUME NEW s \in Submissions, ReadFails(s) \/ ReadAborts(s)
        PROVE  UNCHANGED entryVars
    BY <2>3 DEF ReadFails, ReadAborts
  <2> QED
    BY <1>1, <1>2, <2>1, <2>2, <2>3 DEF FlowNext
<1>3. ASSUME EntryNext
      PROVE  SInv'
  BY <1>3, SetupStep, UnloadStep, ShutdownEndsStep, ServiceCallStep DEF EntryNext
<1>4. ASSUME NEW e \in Entries, DeleteEntry(e)
      PROVE  SInv'
  BY <1>4, DeleteStep DEF DeleteEntry
<1> QED
  BY <1>1, <1>2, <1>3, <1>4 DEF Next, vars

\* SInv holds in every reachable state.
THEOREM EntryInvariance == Spec => []SInv
<1>1. Init => SInv
  BY InitEntry DEF Init
<1>2. SInv /\ [Next]_vars => SInv'
  BY SInvInductive
<1> QED
  BY <1>1, <1>2, PTL DEF Spec

\* The service lives exactly as long as a loaded entry needs it, however setups
\* and unloads overlap (async_setup_entry, async_unload_entry).
THEOREM ServiceIsServed == Spec => []ServiceServes
<1>1. SInv => ServiceServes
  BY DEF SInv
<1> QED
  BY <1>1, EntryInvariance, PTL

\* A setup that failed and an unload leave no coordinator running, and no call
\* that was waiting writes after them (__init__.py, services.py).
THEOREM UnloadedIsQuiet == Spec => []UnloadedQuiet
<1>1. SInv => UnloadedQuiet
  <2> SUFFICES ASSUME SInv, NEW c \in Coordinators
               PROVE  /\ phase[c] = "down" => ~Writing(c)
                      /\ phase[c] # "down" /\ c \notin abandoned =>
                           at[owner[c]] \notin Resting \cup {"absent"}
    BY DEF UnloadedQuiet
  <2>1. phase[c] = "down" => ~Writing(c)
    BY DEF SInv, EInv, CallInv, Writing
  <2>2. phase[c] # "down" /\ c \notin abandoned => at[owner[c]] \notin Off
    BY NoneAssumption DEF SInv, EInv, OwnerInv, RuntimeInv
  <2> QED
    BY <2>1, <2>2 DEF Off
<1> QED
  BY <1>1, EntryInvariance, PTL
===============================================================================
