----------------------------- MODULE EntryLifecycle -----------------------------
(***************************************************************************)
(* Setting entries up and unloading them (__init__.py), and the one        *)
(* service they share (services.py), between the awaits of Home            *)
(* Assistant's entry manager, which handles one entry at a time but        *)
(* several entries at once.                                                *)
(*                                                                         *)
(* Every setup makes a coordinator of its own.  What a coordinator does    *)
(* with its unit is the module Coordinator; here it is up, stopping or     *)
(* down, and being down is what StoppedQuiet says of it.                   *)
(***************************************************************************)
EXTENDS Naturals, FiniteSets

CONSTANTS
  Entries,        \* entry ids
  Coordinators,   \* coordinator objects, the bound on how many are in use
  Calls,          \* concurrent calls of set_startup_mode
  None

ASSUME NoneAssumption == None \notin Coordinators \cup Entries

\* Who is suspended where: Home Assistant's states of an entry, with the await
\* of async_setup_entry or of an unload.
Setup == {"starting", "forwarding", "cleaning up"}     \* SETUP_IN_PROGRESS
Unload == {"unloading", "shutting down"}               \* UNLOAD_IN_PROGRESS
Resting == {"not loaded", "setup error"}
States == Setup \cup Unload \cup Resting \cup {"absent", "loaded", "failed unload"}

VARIABLES
  at,          \* where each entry is
  runtime,     \* its runtime_data
  phase,       \* of a coordinator
  owner,       \* the entry a coordinator that is not down was made for
  abandoned,   \* coordinators Home Assistant has stopped waiting for
  service,     \* set_startup_mode is registered
  call         \* a call: where it is, and with which coordinator

coords == <<runtime, phase, owner, abandoned>>
entryVars == <<at, coords, service, call>>

-------------------------------------------------------------------------------
Loaded(e) == at[e] = "loaded"
Move(e, place) == at' = [at EXCEPT ![e] = place]

Idle == [at |-> "idle", coord |-> None]
Writing(c) == \E k \in Calls : call[k] = [at |-> "writing", coord |-> c]

EntryInit ==
  /\ at = [e \in Entries |-> "absent"]
  /\ runtime = [e \in Entries |-> None]
  /\ phase = [c \in Coordinators |-> "down"]
  /\ owner = [c \in Coordinators |-> None]
  /\ abandoned = {}
  /\ service = FALSE
  /\ call = [k \in Calls |-> Idle]

-------------------------------------------------------------------------------
(* async_setup_entry                                                        *)

\* A new coordinator, which nobody else refers to, up to the await of async_start.
SetupBegins(e) ==
  /\ at[e] \in Resting
  /\ \E c \in Coordinators :
       /\ phase[c] = "down"
       /\ \A o \in Entries \ {e} : runtime[o] # c
       /\ \A k \in Calls : call[k].coord # c
       /\ runtime' = [runtime EXCEPT ![e] = c]
       /\ phase' = [phase EXCEPT ![c] = "up"]
       /\ owner' = [owner EXCEPT ![c] = e]
  /\ Move(e, "starting")
  /\ UNCHANGED <<abandoned, service, call>>

Started(e) ==
  /\ at[e] = "starting"
  /\ Move(e, "forwarding")
  /\ UNCHANGED <<coords, service, call>>

\* The coordinator of e begins to stop (async_shutdown up to its first await).
StopCoordinator(e) == phase' = [phase EXCEPT ![runtime[e]] = "stopping"]

\* Mutant: a cancelled setup does not shut the coordinator down.
SetupBreaksUncaught(e) ==
  /\ at[e] \in {"starting", "forwarding"}
  /\ Move(e, "setup error")
  /\ UNCHANGED <<coords, service, call>>

\* Either await raises, or is cancelled.
SetupBreaks(e) ==
  /\ at[e] \in {"starting", "forwarding"}
  /\ StopCoordinator(e)
  /\ Move(e, "cleaning up")
  /\ UNCHANGED <<runtime, owner, abandoned, service, call>>

SetupFails(e) ==
  /\ at[e] = "cleaning up"
  /\ phase[runtime[e]] = "down"
  /\ Move(e, "setup error")
  /\ UNCHANGED <<coords, service, call>>

\* Nothing is awaited between the last platform and LOADED.
SetupEnds(e) ==
  /\ at[e] = "forwarding"
  /\ service' = TRUE
  /\ Move(e, "loaded")
  /\ UNCHANGED <<coords, call>>

-------------------------------------------------------------------------------
(* async_unload_entry, and what Home Assistant does after it                *)

UnloadBegins(e) ==
  /\ Loaded(e)
  /\ Move(e, "unloading")
  /\ UNCHANGED <<coords, service, call>>

\* A platform cannot be unloaded: the coordinator goes on.
UnloadRefused(e) ==
  /\ at[e] = "unloading"
  /\ Move(e, "failed unload")
  /\ UNCHANGED <<coords, service, call>>

\* Mutant: an entry that is being unloaded counts as well.
AnotherInUse(e) == \E o \in Entries \ {e} : at[o] \in {"loaded"} \cup Unload

AnotherLoaded(e) == \E o \in Entries \ {e} : Loaded(o)

\* The platforms are gone; the callbacks registered with the entry stop the
\* coordinator.
PlatformsUnloaded(e) ==
  /\ at[e] = "unloading"
  /\ service' = (service /\ AnotherLoaded(e))
  /\ StopCoordinator(e)
  /\ Move(e, "shutting down")
  /\ UNCHANGED <<runtime, owner, abandoned, call>>

\* async_shutdown returns: it has drained the lock.
ShutdownEnds(c) ==
  /\ phase[c] = "stopping"
  /\ ~Writing(c)
  /\ phase' = [phase EXCEPT ![c] = "down"]
  /\ owner' = [owner EXCEPT ![c] = None]
  /\ abandoned' = abandoned \ {c}
  /\ UNCHANGED <<at, runtime, service, call>>

\* Home Assistant has waited for the shutdown, or has waited for ten seconds.
Unloaded(e) ==
  /\ at[e] = "shutting down"
  /\ abandoned' = IF phase[runtime[e]] = "down" THEN abandoned
                                                ELSE abandoned \cup {runtime[e]}
  /\ runtime' = [runtime EXCEPT ![e] = None]
  /\ Move(e, "not loaded")
  /\ UNCHANGED <<phase, owner, service, call>>

\* The user deletes an entry that is not loaded.  One that could not be unloaded
\* leaves its coordinator behind; Home Assistant asks for a restart.
Delete(e) ==
  /\ at[e] \in Resting \cup {"failed unload"}
  /\ abandoned' = IF at[e] = "failed unload" THEN abandoned \cup {runtime[e]}
                                             ELSE abandoned
  /\ runtime' = [runtime EXCEPT ![e] = None]
  /\ Move(e, "absent")
  /\ UNCHANGED <<phase, owner, service, call>>

-------------------------------------------------------------------------------
(* set_startup_mode                                                         *)

\* The service exists, and the entry it names, or the only entry of the device
\* it names, is loaded.  async_write then waits for the coordinator's lock.
Request(k, e) ==
  /\ service
  /\ call[k] = Idle
  /\ Loaded(e)
  /\ call' = [call EXCEPT ![k] = [at |-> "queued", coord |-> runtime[e]]]
  /\ UNCHANGED <<at, coords, service>>

Turn(k) == call[k].at = "queued" /\ ~Writing(call[k].coord)

\* Mutant: what was resolved when the call came is not looked at again.
WriteBeginsAnyway(k) ==
  /\ Turn(k)
  /\ call' = [call EXCEPT ![k].at = "writing"]
  /\ UNCHANGED <<at, coords, service>>

WriteBegins(k) ==
  /\ Turn(k)
  /\ phase[call[k].coord] = "up"
  /\ call' = [call EXCEPT ![k].at = "writing"]
  /\ UNCHANGED <<at, coords, service>>

\* Stopping, or rejected for another reason.
WriteRejected(k) ==
  /\ Turn(k)
  /\ call' = [call EXCEPT ![k] = Idle]
  /\ UNCHANGED <<at, coords, service>>

WriteEnds(k) ==
  /\ call[k].at = "writing"
  /\ call' = [call EXCEPT ![k] = Idle]
  /\ UNCHANGED <<at, coords, service>>

-------------------------------------------------------------------------------
SetupEntry(e) ==
  SetupBegins(e) \/ Started(e) \/ SetupBreaks(e) \/ SetupFails(e) \/ SetupEnds(e)

UnloadEntry(e) ==
  UnloadBegins(e) \/ UnloadRefused(e) \/ PlatformsUnloaded(e) \/ Unloaded(e)

ServiceCall(k) ==
  \/ \E e \in Entries : Request(k, e)
  \/ WriteBegins(k) \/ WriteRejected(k) \/ WriteEnds(k)

\* Everything but the appearance and the deletion of entries.
EntryNext ==
  \/ \E e \in Entries : SetupEntry(e) \/ UnloadEntry(e)
  \/ \E c \in Coordinators : ShutdownEnds(c)
  \/ \E k \in Calls : ServiceCall(k)

-------------------------------------------------------------------------------
EntryTypeOK ==
  /\ at \in [Entries -> States]
  /\ runtime \in [Entries -> Coordinators \cup {None}]
  /\ phase \in [Coordinators -> {"up", "stopping", "down"}]
  /\ owner \in [Coordinators -> Entries \cup {None}]
  /\ abandoned \subseteq Coordinators
  /\ service \in BOOLEAN
  /\ call \in [Calls -> [at : {"idle", "queued", "writing"},
                         coord : Coordinators \cup {None}]]

\* A loaded entry has its service; and when no entry is loaded, the service is
\* gone, unless an unload is still to remove it or has failed and left the entry's
\* coordinator running: however setups and unloads of several entries overlap.
ServiceServes ==
  /\ (\E e \in Entries : Loaded(e)) => service
  /\ service /\ (\A e \in Entries : ~Loaded(e)) =>
       \/ \E e \in Entries : at[e] \in {"unloading", "failed unload"}
       \/ \E c \in abandoned : phase[c] = "up"

\* An entry that is not loaded, being loaded or unloaded has no coordinator that
\* runs, not after a setup that failed either, unless Home Assistant gave up on it;
\* and nothing is written for a coordinator that is down, whenever the call came.
UnloadedQuiet ==
  \A c \in Coordinators :
    /\ phase[c] = "down" => ~Writing(c)
    /\ phase[c] # "down" /\ c \notin abandoned =>
         at[owner[c]] \notin Resting \cup {"absent"}
===============================================================================
