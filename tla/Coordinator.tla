------------------------------ MODULE Coordinator ------------------------------
(***************************************************************************)
(* Who may use the unit's single BLE link, and when: coordinator.py with   *)
(* the lock, presence and option checks of writes.py and the refresh timer *)
(* of Home Assistant's DataUpdateCoordinator.                              *)
(*                                                                         *)
(* Six coroutines share one FIFO lock: the background poll ("poll"), a     *)
(* refresh started by the HA timer ("timer"), the live loop ("live"), a    *)
(* call of async_set_polling ("gate"), a parameter write ("write") and     *)
(* async_shutdown ("stop").  Each is represented once: a second concurrent *)
(* call of the same kind is not modelled.  What happens between two awaits *)
(* is one action.                                                          *)
(*                                                                         *)
(* Time is abstract: the poll gate opens, a timer fires and a sleep ends,  *)
(* interrupted or not, at some moment (PollSchedule has the lengths and    *)
(* what _wake does to them).  A GATT transaction is open from the moment   *)
(* its owner has passed the checks under the lock until it is over; how it *)
(* works inside is MicroAirClient.                                         *)
(***************************************************************************)
EXTENDS Naturals, Sequences, FiniteSets

CONSTANTS
  OptionsToggle,   \* the user may switch live mode
  Maintenance,     \* the user may switch polling
  Writes,          \* the user may request parameter writes
  Unloads          \* the entry may be unloaded

ASSUME SwitchAssumption ==
  {OptionsToggle, Maintenance, Writes, Unloads} \subseteq BOOLEAN

Refreshers == {"poll", "timer"}
Procs == Refreshers \cup {"live", "gate", "write", "stop"}
None == "none"

\* Where a coroutine is suspended while its transaction is open, and elsewhere.
LinkedAt == {"reading", "retry", "image", "check", "live read", "holding",
             "closing", "writing"}
Places == LinkedAt \cup {"idle", "begin", "queued", "top", "asleep", "gather", "done"}

VARIABLES
  live_mode,        \* options
  polling_enabled,
  stopping,
  present,          \* async_address_present: Home Assistant hears the unit
  powered,          \* the coordinator's copy of it
  gated,            \* monotonic() < _next_poll
  interval,         \* update_interval is not None
  timer,            \* the HA refresh timer is armed
  image,            \* _eeprom is not None
  data,             \* "none", "live" (no image yet) or "full"
  success,          \* last_update_success
  holder,           \* who holds lock
  queue,            \* who waits for it, first come first served
  linked,           \* coroutines whose GATT transaction is open
  pc,               \* where each coroutine is suspended
  notify,           \* the options update listener is due
  quiet             \* async_set_polling(False) has returned since the last call

options == <<live_mode, polling_enabled>>
radio   == <<present, powered>>
clock   == <<gated, interval, timer>>
view    == <<image, data, success>>
mutex   == <<holder, queue, linked>>
calls   == <<stopping, notify, quiet>>
vars    == <<options, radio, clock, view, mutex, pc, calls>>

-------------------------------------------------------------------------------
(* Shared steps                                                             *)

Goto(p, l) == pc' = [pc EXCEPT ![p] = l]

\* lock.acquire() has to wait, behind everyone who waits already.
Busy == holder # None \/ queue # <<>>

Wait(p) ==
  /\ Busy
  /\ queue' = Append(queue, p)
  /\ Goto(p, "queued")
  /\ UNCHANGED <<holder, linked>>

\* lock.acquire() succeeds: at once if p, ready to ask for it, finds it free
\* and nobody in line (nothing is awaited then), else in p's turn.
Acquires(p, ready) ==
  /\ holder = None
  /\ IF pc[p] = "queued" THEN queue # <<>> /\ Head(queue) = p
                          ELSE ready /\ queue = <<>>

Rest == IF queue = <<>> THEN queue ELSE Tail(queue)

\* p gets the lock and gives it back without awaiting anything in between.
PassThrough == queue' = Rest /\ UNCHANGED <<holder, linked>>

\* p gets the lock and opens a transaction.
Link(p) ==
  /\ queue' = Rest
  /\ holder' = p
  /\ linked' = linked \cup {p}

\* p's transaction is over, and p leaves the lock.
Unlink(p) ==
  /\ holder' = None
  /\ linked' = linked \ {p}
  /\ UNCHANGED queue

\* pcs with the live task running, if it may (_start_live_task).
WithLive(pcs) ==
  IF pcs["live"] = "idle" /\ ~stopping THEN [pcs EXCEPT !["live"] = "top"] ELSE pcs

\* Mutant: a poll is scheduled although the last one is not done.
WithAnotherPoll(pcs, enabled, heard, closed) ==
  IF /\ ~stopping /\ ~live_mode
     /\ enabled /\ heard /\ ~closed
     /\ holder = None
    THEN [pcs EXCEPT !["poll"] = "begin"] ELSE pcs

\* pcs with the poll task running, if nothing is against it
\* (_async_schedule_poll, called with the given option, presence and gate).
WithPoll(pcs, enabled, heard, closed) ==
  IF /\ ~stopping /\ ~live_mode
     /\ enabled /\ heard /\ ~closed
     /\ holder = None
     /\ pcs["poll"] = "idle"
    THEN [pcs EXCEPT !["poll"] = "begin"] ELSE pcs

\* async_set_updated_data(d): success, and the timer starts over if it may.
Publish(d) ==
  /\ data' = d
  /\ success' = TRUE
  /\ timer' = interval

-------------------------------------------------------------------------------
\* async_start of a fresh entry.  The refresh it awaits in connect-per-poll mode
\* is, like one of the HA timer, not a task that async_shutdown knows.
Init ==
  /\ live_mode \in BOOLEAN
  /\ polling_enabled \in BOOLEAN
  /\ stopping = FALSE
  /\ present \in BOOLEAN
  /\ powered = FALSE
  /\ gated = FALSE
  /\ interval = FALSE
  /\ timer = FALSE
  /\ image = FALSE
  /\ data = "none"
  /\ success = TRUE
  /\ holder = None
  /\ queue = <<>>
  /\ linked = {}
  /\ pc = [p \in Procs |-> CASE p = "live" /\ live_mode   -> "top"
                             [] p = "timer" /\ ~live_mode -> "begin"
                             [] OTHER                     -> "idle"]
  /\ notify = FALSE
  /\ quiet = FALSE

-------------------------------------------------------------------------------
(* Connect-per-poll: async_refresh over _async_update_data                  *)

TimerFires ==
  /\ timer
  /\ pc["timer"] = "idle"
  /\ timer' = FALSE
  /\ Goto("timer", "begin")
  /\ UNCHANGED <<options, radio, gated, interval, view, mutex, calls>>

\* In live mode a refresh reads nothing and returns what there is.
RefreshInLiveMode(p) ==
  /\ pc[p] = "begin"
  /\ live_mode
  /\ interval' = FALSE
  /\ timer' = FALSE
  /\ success' = (data # "none")
  /\ Goto(p, "idle")
  /\ UNCHANGED <<options, radio, gated, image, data, mutex, calls>>

RefreshQueues(p) ==
  /\ pc[p] = "begin"
  /\ ~live_mode
  /\ timer' = FALSE
  /\ Wait(p)
  /\ UNCHANGED <<options, radio, gated, interval, view, calls>>

RefreshAcquires(p) == Acquires(p, pc[p] = "begin" /\ ~live_mode)

\* Under the lock: paused, unloading or not heard.  Without an interval the timer
\* stays as it is: stopped when the refresh began, unless a live read armed it since.
RefreshDeclines(p) ==
  /\ RefreshAcquires(p)
  /\ stopping \/ ~polling_enabled \/ ~present
  /\ powered' = present
  /\ interval' = FALSE
  /\ timer' = (timer /\ pc[p] = "queued")
  /\ success' = FALSE
  /\ PassThrough
  /\ Goto(p, "idle")
  /\ UNCHANGED <<options, present, gated, image, data, calls>>

\* Mutant: a refresh inside the backoff returns the cached data.
RefreshCachedWhileEarly(p) ==
  /\ RefreshAcquires(p)
  /\ ~stopping /\ polling_enabled /\ present
  /\ gated
  /\ powered' = TRUE
  /\ interval' = TRUE
  /\ timer' = TRUE
  /\ success' = TRUE
  /\ PassThrough
  /\ Goto(p, "idle")
  /\ UNCHANGED <<options, present, gated, image, data, calls>>

\* Under the lock: too early, or backing off; a failed state stays failed.
RefreshTooEarly(p) ==
  /\ RefreshAcquires(p)
  /\ ~stopping /\ polling_enabled /\ present
  /\ gated
  /\ powered' = TRUE
  /\ interval' = TRUE
  /\ timer' = TRUE
  /\ PassThrough
  /\ Goto(p, "idle")
  /\ UNCHANGED <<options, present, gated, view, calls>>

RefreshReads(p) ==
  /\ RefreshAcquires(p)
  /\ ~stopping /\ polling_enabled /\ present
  /\ ~gated
  /\ powered' = TRUE
  /\ timer' = (timer /\ pc[p] = "queued")
  /\ Link(p)
  /\ Goto(p, "reading")
  /\ UNCHANGED <<options, present, gated, interval, view, calls>>

\* _async_update_data returns: the next poll is due after the interval.
FinishRead(p, d) ==
  /\ data' = d
  /\ success' = TRUE
  /\ gated' = TRUE
  /\ interval' = TRUE
  /\ timer' = TRUE
  /\ Unlink(p)
  /\ Goto(p, "idle")
  /\ UNCHANGED <<options, radio, calls>>

\* Live status was read; the image is not due, or it is read as well, or its
\* refresh fails and the cached one stays.
ReadSucceeds(p) ==
  /\ pc[p] = "reading"
  /\ image' = TRUE
  /\ FinishRead(p, "full")

\* Mutant: the retry runs after the lock was released.
ReadBootstrapsUnlocked(p) ==
  /\ pc[p] = "reading"
  /\ ~image
  /\ Goto(p, "retry")
  /\ holder' = None
  /\ UNCHANGED <<options, radio, clock, view, queue, linked, calls>>

\* Live status was read, no image is cached and reading it failed: one retry
\* on a connection of its own.
ReadBootstraps(p) ==
  /\ pc[p] = "reading"
  /\ ~image
  /\ Goto(p, "retry")
  /\ UNCHANGED <<options, radio, clock, view, mutex, calls>>

RetryEnds(p) ==
  /\ pc[p] = "retry"
  /\ image' \in BOOLEAN
  /\ FinishRead(p, IF image' THEN "full" ELSE "live")

\* Mutant: the error path does not release the lock.
ReadFailsLocked(p) ==
  /\ pc[p] = "reading"
  /\ success' = FALSE
  /\ gated' = TRUE
  /\ interval' = TRUE
  /\ timer' = TRUE
  /\ linked' = linked \ {p}
  /\ Goto(p, "idle")
  /\ UNCHANGED <<options, radio, image, data, holder, queue, calls>>

\* Mutant: the error path sets no interval, so that the timer is not armed.
ReadFailsUntimed(p) ==
  /\ pc[p] = "reading"
  /\ success' = FALSE
  /\ gated' = TRUE
  /\ interval' = FALSE
  /\ timer' = FALSE
  /\ Unlink(p)
  /\ Goto(p, "idle")
  /\ UNCHANGED <<options, radio, image, data, calls>>

\* No route, or the link or the live read failed: back off.  Closing the link may be
\* what fails, with an image read and cached before.
ReadFails(p) ==
  /\ pc[p] = "reading"
  /\ image' \in {image, TRUE}
  /\ success' = FALSE
  /\ gated' = TRUE
  /\ interval' = TRUE
  /\ timer' = TRUE
  /\ Unlink(p)
  /\ Goto(p, "idle")
  /\ UNCHANGED <<options, radio, data, calls>>

-------------------------------------------------------------------------------
(* Live mode: _async_live_loop and _async_live_session                      *)

LiveExits ==
  /\ pc["live"] = "top"
  /\ stopping \/ ~live_mode
  /\ Goto("live", "idle")
  /\ UNCHANGED <<options, radio, clock, view, mutex, calls>>

\* Paused or not heard.
LiveNaps ==
  /\ pc["live"] = "top"
  /\ ~stopping /\ live_mode
  /\ ~(polling_enabled /\ present)
  /\ powered' = present
  /\ Goto("live", "asleep")
  /\ UNCHANGED <<options, present, clock, view, mutex, calls>>

LiveReady ==
  /\ pc["live"] = "top"
  /\ ~stopping /\ live_mode
  /\ polling_enabled /\ present

LiveQueues ==
  /\ LiveReady
  /\ powered' = present
  /\ Wait("live")
  /\ UNCHANGED <<options, present, clock, view, calls>>

\* Under the lock the gates are checked again.
LiveDeclines ==
  /\ Acquires("live", FALSE)
  /\ ~(live_mode /\ polling_enabled /\ powered /\ ~stopping)
  /\ PassThrough
  /\ Goto("live", "top")
  /\ UNCHANGED <<options, radio, clock, view, calls>>

\* Mutant: the gates are not checked again under the lock.
LiveConnectsUnchecked ==
  /\ Acquires("live", LiveReady)
  /\ powered' = present
  /\ Link("live")
  /\ \E l \in {"image", "check"} : Goto("live", l)
  /\ UNCHANGED <<options, present, clock, view, calls>>

\* A missing image is read first, unless its last attempt was too recent; so
\* is one that is due.
LiveConnects ==
  /\ Acquires("live", LiveReady)
  /\ powered' = IF pc["live"] = "top" THEN present ELSE powered
  /\ live_mode /\ polling_enabled /\ powered' /\ ~stopping
  /\ Link("live")
  /\ \E l \in {"image", "check"} : Goto("live", l)
  /\ UNCHANGED <<options, present, clock, view, calls>>

LiveImageRead ==
  /\ pc["live"] = "image"
  /\ image' = TRUE
  /\ Goto("live", "check")
  /\ UNCHANGED <<options, radio, clock, data, success, mutex, calls>>

\* _LiveReconnect: a lost frame costs the link but no backoff.
LiveImageFails ==
  /\ pc["live"] = "image"
  /\ Unlink("live")
  /\ Goto("live", "top")
  /\ UNCHANGED <<options, radio, clock, view, calls>>

\* Mutant: the session does not look at the polling switch.
LiveContinuesPaused ==
  /\ pc["live"] = "check"
  /\ ~stopping /\ live_mode
  /\ Goto("live", "live read")
  /\ UNCHANGED <<options, radio, clock, view, mutex, calls>>

\* The head of the session's loop.
LiveContinues ==
  /\ pc["live"] = "check"
  /\ ~stopping /\ live_mode /\ polling_enabled
  /\ Goto("live", "live read")
  /\ UNCHANGED <<options, radio, clock, view, mutex, calls>>

LiveEnds ==
  /\ pc["live"] = "check"
  /\ stopping \/ ~live_mode \/ ~polling_enabled
  /\ Unlink("live")
  /\ Goto("live", "top")
  /\ UNCHANGED <<options, radio, clock, view, calls>>

LiveReads ==
  /\ pc["live"] = "live read"
  /\ Publish(IF image THEN "full" ELSE "live")
  /\ Goto("live", "holding")
  /\ UNCHANGED <<options, radio, gated, interval, image, mutex, calls>>

\* The sleep between two reads times out or is interrupted.
LiveHeld ==
  /\ pc["live"] = "holding"
  /\ Goto("live", "check")
  /\ UNCHANGED <<options, radio, clock, view, mutex, calls>>

\* Mutant: an error ends the loop.
LiveFailsForGood ==
  /\ pc["live"] \in {"image", "check", "live read"}
  /\ powered' = present
  /\ success' = FALSE
  /\ Unlink("live")
  /\ Goto("live", "idle")
  /\ UNCHANGED <<options, present, clock, image, data, calls>>

\* Connecting, reading or disconnecting failed: give the link up, report it
\* and sleep.
LiveFails ==
  /\ pc["live"] \in {"image", "check", "live read"}
  /\ powered' = present
  /\ success' = FALSE
  /\ Unlink("live")
  /\ Goto("live", "asleep")
  /\ UNCHANGED <<options, present, clock, image, data, calls>>

LiveWakes ==
  /\ pc["live"] = "asleep"
  /\ Goto("live", "top")
  /\ UNCHANGED <<options, radio, clock, view, mutex, calls>>

-------------------------------------------------------------------------------
(* Options, maintenance and shutdown                                        *)

\* The options flow stores a change; HA runs the update listener soon.
SaveOptions(live) ==
  /\ live = live_mode \/ OptionsToggle
  /\ live_mode' = live
  /\ notify' = TRUE
  /\ UNCHANGED <<polling_enabled, radio, clock, view, mutex, pc, stopping,
                 quiet>>

\* Mutant: the listener does not start the live task.
OptionsUpdatedIdly ==
  /\ notify
  /\ notify' = FALSE
  /\ interval' = (live_mode /\ interval)
  /\ pc' = IF live_mode THEN pc ELSE WithPoll(pc, polling_enabled, powered, gated)
  /\ UNCHANGED <<options, radio, gated, timer, view, mutex, stopping, quiet>>

\* async_options_updated
OptionsUpdated ==
  /\ notify
  /\ notify' = FALSE
  /\ interval' = (live_mode /\ interval)
  /\ pc' = IF live_mode THEN WithLive(pc) ELSE WithPoll(pc, polling_enabled, powered, gated)
  /\ UNCHANGED <<options, radio, gated, timer, view, mutex, stopping, quiet>>

\* Mutant: the lock is not drained.
SetPollingUndrained(enabled) ==
  /\ Maintenance
  /\ pc["gate"] = "idle"
  /\ polling_enabled' = enabled
  /\ notify' = (notify \/ enabled # polling_enabled)
  /\ interval' = (enabled /\ interval)
  /\ quiet' = ~enabled
  /\ gated' = FALSE
  /\ pc' = IF enabled THEN WithPoll(pc, TRUE, powered, FALSE) ELSE pc
  /\ UNCHANGED <<live_mode, radio, timer, view, mutex, stopping>>

\* async_set_polling(enabled) up to the lock.  The listener that the stored option
\* calls, and a poll that it starts, may be ahead of the call at the lock.
SetPolling(enabled) ==
  /\ Maintenance
  /\ pc["gate"] = "idle"
  /\ polling_enabled' = enabled
  /\ notify' = (notify \/ enabled # polling_enabled)
  /\ interval' = (enabled /\ interval)
  /\ quiet' = FALSE
  /\ Goto("gate", "begin")
  /\ UNCHANGED <<live_mode, radio, gated, timer, view, mutex, stopping>>

SetPollingQueues ==
  /\ pc["gate"] = "begin"
  /\ Wait("gate")
  /\ UNCHANGED <<options, radio, clock, view, calls>>

\* The lock is drained: the poll gate opens.  (There is one call at a time, so
\* polling_enabled still is its argument.)
SetPollingReturns ==
  /\ Acquires("gate", pc["gate"] = "begin")
  /\ gated' = FALSE
  /\ quiet' = ~polling_enabled
  /\ PassThrough
  /\ LET pcs == [pc EXCEPT !["gate"] = "idle"]
     IN  pc' = IF polling_enabled THEN WithPoll(pcs, TRUE, powered, FALSE) ELSE pcs
  /\ UNCHANGED <<options, radio, interval, timer, view, stopping, notify>>

\* The queue s once p, who is in it once at most, has left it.
Without(p, s) ==
  IF p \in {s[i] : i \in DOMAIN s}
    THEN LET k == CHOOSE i \in DOMAIN s : s[i] = p
         IN  SubSeq(s, 1, k - 1) \o SubSeq(s, k + 1, Len(s))
    ELSE s

\* pc of a cancelled task: a transaction still has to disconnect.
AfterCancel(p) ==
  IF p \in linked THEN "closing" ELSE "idle"

\* Home Assistant's refresh arms the timer again, even when it is cancelled.
Rearmed == timer \/ interval

\* async_shutdown: cancel the poll and live tasks; one that waits for the lock
\* leaves the queue.
StopBegins ==
  /\ Unloads
  /\ ~stopping
  /\ stopping' = TRUE
  /\ queue' = Without("live", Without("poll", queue))
  /\ pc' = [pc EXCEPT !["poll"] = AfterCancel("poll"),
                      !["live"] = AfterCancel("live"),
                      !["stop"] = "gather"]
  /\ timer' = IF pc["poll"] = "queued" THEN Rearmed ELSE timer
  /\ UNCHANGED <<options, radio, gated, interval, view, holder, linked, notify, quiet>>

\* The cancelled transaction has disconnected (it is shielded while it does).
CancelledCloses(p) ==
  /\ pc[p] = "closing"
  /\ timer' = IF p \in Refreshers THEN Rearmed ELSE timer
  /\ Unlink(p)
  /\ Goto(p, "idle")
  /\ UNCHANGED <<options, radio, gated, interval, view, calls>>

\* gather() has returned: wait for whoever else uses the lock.
Gathered ==
  /\ pc["stop"] = "gather"
  /\ pc["poll"] = "idle"
  /\ pc["live"] = "idle"

StopQueues ==
  /\ Gathered
  /\ Wait("stop")
  /\ UNCHANGED <<options, radio, clock, view, calls>>

\* ... and DataUpdateCoordinator.async_shutdown stops the timer.
StopEnds ==
  /\ Acquires("stop", Gathered)
  /\ PassThrough
  /\ timer' = FALSE
  /\ Goto("stop", "done")
  /\ UNCHANGED <<options, radio, gated, interval, view, calls>>

-------------------------------------------------------------------------------
(* Parameter writes: async_write                                            *)

\* Past the early rejection of live mode.
WriteReady == Writes /\ ~live_mode /\ pc["write"] = "idle"

WriteQueues ==
  /\ WriteReady
  /\ Wait("write")
  /\ UNCHANGED <<options, radio, clock, view, calls>>

WriteDeclines ==
  /\ Acquires("write", WriteReady)
  /\ stopping \/ ~polling_enabled \/ ~present
  /\ PassThrough
  /\ Goto("write", "idle")
  /\ UNCHANGED <<options, radio, clock, view, calls>>

\* Mutant: a write that waited does not look at stopping.
WriteConnectsWhileStopping ==
  /\ Acquires("write", WriteReady)
  /\ polling_enabled /\ present
  /\ Link("write")
  /\ Goto("write", "writing")
  /\ UNCHANGED <<options, radio, clock, view, calls>>

WriteConnects ==
  /\ Acquires("write", WriteReady)
  /\ ~stopping /\ polling_enabled /\ present
  /\ Link("write")
  /\ Goto("write", "writing")
  /\ UNCHANGED <<options, radio, clock, view, calls>>

\* STORED: the image read back is cached and published.
WriteStored ==
  /\ pc["write"] = "writing"
  /\ image' = TRUE
  /\ Publish("full")
  /\ Unlink("write")
  /\ Goto("write", "idle")
  /\ UNCHANGED <<options, radio, gated, interval, calls>>

\* REJECTED leaves everything, any other outcome marks the data as failed.
WriteEnds ==
  /\ pc["write"] = "writing"
  /\ success' \in {success, FALSE}
  /\ Unlink("write")
  /\ Goto("write", "idle")
  /\ UNCHANGED <<options, radio, clock, image, data, calls>>

-------------------------------------------------------------------------------
(* Home Assistant's Bluetooth manager and the clock                         *)

\* Mutant: an advertisement is noted but schedules nothing.
AdvertisementNoted ==
  /\ present' = TRUE
  /\ powered' = (powered \/ ~stopping)
  /\ UNCHANGED <<options, clock, view, mutex, pc, calls>>

\* An advertisement is reported: the first after an absence, or one whose
\* content changed.  One heard while a link is set up may still arrive.
Advertisement ==
  /\ present' = TRUE
  /\ IF stopping
       THEN UNCHANGED <<powered, pc>>
       ELSE /\ powered' = TRUE
            /\ pc' = IF live_mode THEN WithLive(pc) ELSE WithPoll(pc, polling_enabled, TRUE, gated)
  /\ UNCHANGED <<options, clock, view, mutex, calls>>

\* The unit has not been heard for long: it is unpowered, or connected.
Unavailable ==
  /\ present
  /\ present' = FALSE
  /\ IF stopping
       THEN UNCHANGED <<powered, gated, interval, success>>
       ELSE /\ powered' = FALSE
            /\ gated' = FALSE
            /\ interval' = FALSE
            /\ success' = FALSE
  /\ UNCHANGED <<options, timer, image, data, mutex, pc, calls>>

GateOpens ==
  /\ gated
  /\ gated' = FALSE
  /\ UNCHANGED <<options, radio, interval, timer, view, mutex, pc, calls>>

-------------------------------------------------------------------------------
Refresh(p) ==
  \/ RefreshInLiveMode(p) \/ RefreshQueues(p)
  \/ RefreshDeclines(p) \/ RefreshTooEarly(p) \/ RefreshReads(p)
  \/ ReadSucceeds(p) \/ ReadBootstraps(p) \/ RetryEnds(p) \/ ReadFails(p)
  \/ CancelledCloses(p)

Live ==
  \/ LiveExits \/ LiveNaps \/ LiveQueues \/ LiveDeclines \/ LiveConnects
  \/ LiveImageRead \/ LiveImageFails \/ LiveContinues \/ LiveEnds
  \/ LiveReads \/ LiveHeld \/ LiveFails \/ LiveWakes \/ CancelledCloses("live")

Write == WriteQueues \/ WriteDeclines \/ WriteConnects \/ WriteStored \/ WriteEnds

Stop == StopQueues \/ StopEnds

Gate == SetPollingQueues \/ SetPollingReturns

User ==
  \/ \E live \in BOOLEAN : SaveOptions(live)
  \/ \E enabled \in BOOLEAN : SetPolling(enabled)
  \/ StopBegins

Next ==
  \/ \E p \in Refreshers : Refresh(p)
  \/ Live \/ Write \/ Stop \/ Gate \/ OptionsUpdated
  \/ User
  \/ TimerFires \/ GateOpens \/ Advertisement \/ Unavailable

Spec == Init /\ [][Next]_vars

\* Every coroutine that is not blocked is run, and every GATT transaction and
\* sleep ends (they all have timeouts).  Nothing is assumed of the user or of
\* the Bluetooth manager.
Fairness ==
  /\ \A p \in Refreshers : WF_vars(Refresh(p))
  /\ WF_vars(Live)
  /\ WF_vars(pc["write"] # "idle" /\ Write)
  /\ WF_vars(Stop)
  /\ WF_vars(Gate)
  /\ WF_vars(OptionsUpdated)
  /\ WF_vars(TimerFires)
  /\ WF_vars(GateOpens)

FairSpec == Spec /\ Fairness

-------------------------------------------------------------------------------
(* What must hold                                                           *)

\* Every variable of the coordinator keeps its type; nobody waits twice for the
\* lock.
TypeOK ==
  /\ {live_mode, polling_enabled, stopping, present, powered, gated, interval,
      timer, image, success, notify, quiet} \subseteq BOOLEAN
  /\ data \in {"none", "live", "full"}
  /\ holder \in Procs \cup {None}
  /\ queue \in Seq(Procs)
  /\ \A i, j \in DOMAIN queue : queue[i] = queue[j] => i = j
  /\ linked \subseteq Procs
  /\ pc \in [Procs -> Places]

\* At most one coroutine has a transaction open with the unit, which accepts a
\* single central, and that coroutine holds the lock.
ExclusiveLink == linked = {} \/ linked = {holder}

\* Once async_set_polling(False) has returned, no coroutine talks to the unit
\* until polling is switched again: the operator has the unit to himself.
MaintenanceQuiet == quiet => linked = {}

\* When async_shutdown has returned, no transaction is open or will be opened, no
\* timer is armed, and neither the poll nor the live task exists.
StoppedQuiet ==
  pc["stop"] = "done" =>
    /\ linked = {}
    /\ ~timer
    /\ pc["poll"] = "idle" /\ pc["live"] = "idle"

\* Once the entry is set up (its options listener is registered then) there is a live
\* task in live mode, whatever the order of toggles and exits of an earlier one,
\* unless the listener is still due.
LiveLoopRuns == live_mode /\ ~stopping /\ ~notify => pc["live"] # "idle"

\* The unit as the coordinator's users see it.
Access == INSTANCE UnitAccess WITH
  Users  <- Procs,
  users  <- linked,
  switch <- IF polling_enabled THEN "on" ELSE IF quiet THEN "reserved" ELSE "off",
  life   <- IF ~stopping THEN "up" ELSE IF pc["stop"] = "done" THEN "closed" ELSE "closing"

\* The coordinator keeps what UnitAccess promises: its lock, its flags and the checks
\* that each coroutine makes under the lock together let one in at a time, none with
\* the switch off or an unload begun, however they wait and interleave.
KeepsAccess == Access!Spec

\* What connect-per-poll mode leaves behind when live mode is switched on.
Leftover == timer \/ interval \/ \E p \in Refreshers : pc[p] # "idle"

\* A failed state turns into success only by a transaction that succeeded ("no stale
\* success"), or by a refresh that connect-per-poll mode has left behind, which in live
\* mode returns the last data whatever became of the link.  Nothing brings one back:
\* once those left have run out, live mode has none.
FreshSuccess ==
  [][/\ ~success /\ success' =>
          \/ \E p \in linked : pc'[p] # pc[p]
          \/ live_mode /\ \E p \in Refreshers : pc[p] = "begin" /\ pc'[p] = "idle"
     /\ live_mode /\ live_mode' /\ ~Leftover => ~Leftover']_vars

\* async_shutdown returns.
StopTerminates == stopping ~> pc["stop"] = "done"

\* A call that pauses polling returns, live session or not.
PauseReturns == (pc["gate"] # "idle" /\ ~polling_enabled) ~> pc["gate"] = "idle"

\* A write that waits for the lock is answered, unless live mode has come on meanwhile
\* and its session then holds the unit for good.
WriteAnswered ==
  pc["write"] = "queued" ~> pc["write"] = "idle" \/ [](holder = "live")

\* While live mode, presence and polling last, the live task keeps connecting: no
\* error, absence, write or poll before, nor a quick off and on, leaves it stuck.
LiveRecovers ==
  <>[](live_mode /\ polling_enabled /\ present /\ ~stopping)
    => []<>(holder = "live")

Polled == \E p \in Refreshers : pc[p] = "reading"

\* A unit that is never lost is polled again and again while connect-per-poll
\* mode and polling last and nothing is written: the refresh timer is enough, no
\* advertisement has to be reported anew.
PollingContinues ==
  /\ [](present /\ pc["write"] = "idle")
  /\ <>[](~live_mode /\ polling_enabled /\ ~stopping)
  => []<>Polled

\* Polling also comes back after outages, pauses, writes and live mode, if
\* advertisements go on being reported (the unit's change now and then).
PollingResumes ==
  /\ WF_vars(Advertisement)
  /\ <>[](/\ ~live_mode /\ polling_enabled /\ present /\ ~stopping
          /\ pc["write"] = "idle")
  => []<>Polled

-------------------------------------------------------------------------------
(* What documentation and comments say, and the code does not do            *)

\* Turning live mode off resumes connect-per-poll and lets the session exit: if
\* mode, presence and options then stay as they are, the unit is polled.
LiveOffResumes ==
  [](/\ pc["live"] = "holding"
     /\ [](~live_mode /\ polling_enabled /\ present /\ ~stopping)
     => <>Polled)
===============================================================================
