------------------------------ MODULE PollSchedule ------------------------------
(***************************************************************************)
(* When the unit is read: the numbers of coordinator.py that Coordinator   *)
(* leaves open.  Polls, their backoff, Home Assistant's refresh timer, the *)
(* live loop with its sleeps and image reads, and the options that set     *)
(* their intervals (the options flow of config_flow.py).                   *)
(*                                                                         *)
(* A deadline is kept as the number of ticks left until it, an age as the  *)
(* number of ticks since, so that no clock has to be bounded; MaxAge is    *)
(* where ages stop counting.  A tick lasts at least a second, by which     *)
(* Home Assistant's timer may be early, so a timer may fire during its     *)
(* last tick.  Reading the unit takes up to MaxIO ticks a step.            *)
(*                                                                         *)
(* Writes, shutdown and the order of several callers at the lock are in    *)
(* Coordinator and left out here.                                          *)
(***************************************************************************)
EXTENDS Integers

CONSTANTS
  Intervals,      \* poll intervals the user enters
  MinInterval,    \* MIN_POLL_INTERVAL
  LiveIntervals,  \* live intervals the form accepts
  MaxBackoff,     \* MAX_BACKOFF
  FailureCap,     \* 8 in the code
  ImageAge,       \* EEPROM_REFRESH_INTERVAL
  ImageRetry,     \* LIVE_EEPROM_RETRY
  MaxIO,          \* the longest step of a transaction
  MaxAge,         \* where ages stop counting
  None

ASSUME ScheduleAssumption ==
  /\ {MinInterval, MaxBackoff, FailureCap, MaxIO} \subseteq Nat \ {0}
  /\ Intervals \subseteq Nat /\ LiveIntervals \subseteq Nat \ {0}
  /\ MinInterval <= MaxBackoff
  /\ {ImageAge, ImageRetry, MaxAge} \subseteq Nat
  /\ ImageAge < MaxAge /\ MinInterval <= MaxAge
  /\ 2 * MaxIO < ImageRetry
  /\ None \notin Int
  /\ \A n \in 0..FailureCap : 2^n \in Nat \ {0}   \* arithmetic the provers lack

VARIABLES
  live_mode, polling_enabled, poll_interval, live_interval,   \* options
  form,       \* polling_enabled when the options form was shown
  present,    \* Home Assistant hears the unit
  gate,       \* ticks until _next_poll
  interval,   \* update_interval
  timer,      \* ticks until the refresh timer is due
  failures,   \* _failures
  age,        \* of the cached image
  retry,      \* ticks until _eeprom_next_try
  poll,       \* the refresh: idle, waiting for the lock, reading
  live,       \* the live loop
  sleep,      \* ticks its sleep has left
  spent,      \* ticks the current step of a transaction has taken
  drain,      \* async_set_polling waits for the lock
  rested,     \* history: ticks since a poll ended, or its gate was reset
  slack,      \* history: ticks left until a poll would be late
  streak,     \* history: connections in a row, without a wait or a read
  patience    \* history: ticks by which a call that pauses polling has the lock

options  == <<live_mode, polling_enabled, poll_interval, live_interval, form>>
schedule == <<gate, interval, timer>>
images   == <<age, retry>>
liveVars == <<live, sleep, streak>>
history  == <<rested, slack, patience>>
vars == <<options, present, schedule, failures, images, poll, liveVars, spent,
          drain, history>>

-------------------------------------------------------------------------------
Least(a, b) == IF a < b THEN a ELSE b
Most(a, b) == IF a > b THEN a ELSE b
Down(n) == IF n \in {None, 0} THEN n ELSE n - 1
Up(n) == IF n = None THEN n ELSE Least(n + 1, MaxAge)

\* Mutant: MAX_BACKOFF is forgotten.
BackoffUncapped(i) == i * 2^failures'

Backoff(i) == Least(MaxBackoff, i * 2^failures')
Failed == failures' = Least(failures + 1, FailureCap)

Linked == live \in {"connecting", "image", "read", "holding"}
LockFree == poll # "reading" /\ ~Linked
InTransaction == poll = "reading" \/ live \in {"connecting", "image", "read"}

\* _eeprom_due, _live_eeprom_due
Due == age = None \/ age >= ImageAge
LiveDue == retry = 0 /\ Due

\* _wake interrupts a sleep; set at any other time it is cleared before the next.
Woken == sleep' = 0

\* How long the lock can still be held by one who goes no further than the step he
\* is in: a connection may lead to an image, and a live read to the sleep after it,
\* which clears _wake before it waits; a sleep that has begun is interrupted.
StepLeft ==
  (IF InTransaction THEN MaxIO - spent ELSE 0)
  + (CASE live = "connecting" -> MaxIO
       [] live = "read"       -> live_interval
       [] OTHER               -> 0)

Init ==
  /\ live_mode \in BOOLEAN
  /\ polling_enabled \in BOOLEAN
  /\ poll_interval \in {i \in Intervals : i >= MinInterval}
  /\ live_interval \in LiveIntervals
  /\ form = None
  /\ present \in BOOLEAN
  /\ gate = 0 /\ interval = None /\ timer = None
  /\ failures = 0
  /\ age = None /\ retry = 0
  /\ poll = IF live_mode THEN "idle" ELSE "queued"
  /\ live = IF live_mode THEN "top" ELSE "off"
  /\ sleep = 0 /\ spent = 0
  /\ drain = FALSE
  /\ rested = MaxAge /\ slack = None /\ streak = 0 /\ patience = None

-------------------------------------------------------------------------------
(* Polls                                                                    *)

\* A read begins; the timer is cancelled.
BeginRead ==
  /\ poll' = "reading"
  /\ timer' = None
  /\ spent' = 0
  /\ slack' = None

\* Whether _async_schedule_poll starts a poll, given the gate and the option.
Schedules(enabled, ticks) ==
  ~live_mode' /\ enabled /\ present' /\ LockFree /\ ticks = 0 /\ poll = "idle"

\* _async_schedule_poll: the poll task takes the free lock at once.
SchedulePoll(enabled, ticks) ==
  IF Schedules(enabled, ticks) THEN BeginRead
                               ELSE UNCHANGED <<poll, timer, spent, slack>>

\* A timer that is due, or a little early, starts a refresh.
TimerFires ==
  /\ timer \in {0, 1}
  /\ ~live_mode /\ poll = "idle"
  /\ timer' = None
  /\ poll' = "queued"
  /\ UNCHANGED <<options, present, gate, interval, failures, images, liveVars, spent,
                 drain, history>>

\* In live mode it does not ask for the lock.
RefreshInLiveMode ==
  /\ timer \in {0, 1}
  /\ live_mode
  /\ interval' = None
  /\ timer' = None
  /\ UNCHANGED <<options, present, gate, failures, images, poll, liveVars, spent, drain,
                 history>>

\* _async_update_data returns without a read, with the interval d.  Without one Home
\* Assistant arms no timer, and leaves one that a live read has armed meanwhile.
Refreshed(d) ==
  /\ poll' = "idle"
  /\ interval' = d
  /\ timer' = IF d = None THEN timer ELSE d
  /\ UNCHANGED <<options, present, gate, failures, images, liveVars, spent, drain,
                 history>>

\* Paused, or not heard.
RefreshDeclines ==
  /\ poll = "queued" /\ LockFree
  /\ ~(polling_enabled /\ present)
  /\ Refreshed(None)

\* Live mode is not looked at again under the lock.
MayRead == poll = "queued" /\ LockFree /\ polling_enabled /\ present

\* Mutant: the interval stays as it is.
RefreshTooEarlyAgain ==
  /\ MayRead
  /\ gate > 0
  /\ Refreshed(poll_interval)

RefreshTooEarly ==
  /\ MayRead
  /\ gate > 0
  /\ Refreshed(Most(1, gate))

\* Mutant: the gate is not looked at.
RefreshReadsEarly ==
  /\ MayRead
  /\ BeginRead
  /\ UNCHANGED <<options, present, gate, interval, failures, images, liveVars, drain,
                 rested, patience>>

RefreshReads ==
  /\ MayRead
  /\ gate = 0
  /\ BeginRead
  /\ UNCHANGED <<options, present, gate, interval, failures, images, liveVars, drain,
                 rested, patience>>

\* A read is over and the next is due in d ticks.
NextPoll(d) ==
  /\ poll' = "idle"
  /\ gate' = d
  /\ interval' = d
  /\ timer' = d
  /\ rested' = 0
  /\ slack' = IF polling_enabled /\ present /\ ~live_mode /\ ~drain THEN d + 1 ELSE None
  /\ spent' = 0
  /\ UNCHANGED <<options, present, retry, liveVars, drain, patience>>

\* An image that is due is read as well, or fails and stays as it is.
MayRefreshImage == age' \in IF Due THEN {0, age} ELSE {age}

ReadSucceeds ==
  /\ poll = "reading"
  /\ failures' = 0
  /\ MayRefreshImage
  /\ NextPoll(poll_interval)

\* Closing the link may be what fails.
ReadFails ==
  /\ poll = "reading"
  /\ Failed
  /\ MayRefreshImage
  /\ NextPoll(Backoff(poll_interval))

-------------------------------------------------------------------------------
(* The live loop                                                            *)

Asleep(d) ==
  /\ live' = "asleep"
  /\ sleep' = d
  /\ streak' = 0

LiveMoves(place) == live' = place /\ spent' = 0 /\ UNCHANGED sleep

LiveTop == live = "top" /\ UNCHANGED <<options, present, schedule, failures, images,
                                       poll, drain, history>>

LiveExits ==
  /\ LiveTop
  /\ ~live_mode
  /\ live' = "off"
  /\ UNCHANGED <<sleep, streak, spent>>

LiveNaps ==
  /\ LiveTop
  /\ live_mode /\ ~(polling_enabled /\ present)
  /\ Asleep(live_interval)
  /\ UNCHANGED spent

\* The lock is free and nobody waits for it.
LiveConnects ==
  /\ LiveTop
  /\ live_mode /\ polling_enabled /\ present
  /\ LockFree /\ poll # "queued" /\ ~drain
  /\ LiveMoves("connecting")
  /\ streak' = streak + 1

\* The head of the session's loop: it reads, or a gate has dropped.
HeadOfLoop ==
  /\ LiveMoves(IF live_mode /\ polling_enabled THEN "read" ELSE "top")
  /\ streak' = 0

\* Mutant: the next attempt is only put off once an image has been read.
LiveConnectedUnlimited ==
  /\ live = "connecting"
  /\ IF LiveDue THEN LiveMoves("image") /\ UNCHANGED streak
                ELSE HeadOfLoop
  /\ UNCHANGED <<options, present, schedule, failures, images, poll, drain, history>>

LiveConnected ==
  /\ live = "connecting"
  /\ IF LiveDue
       THEN retry' = ImageRetry /\ LiveMoves("image") /\ UNCHANGED streak
       ELSE HeadOfLoop /\ UNCHANGED retry
  /\ UNCHANGED <<options, present, schedule, failures, age, poll, drain, history>>

LiveImageRead ==
  /\ live = "image"
  /\ age' = 0
  /\ HeadOfLoop
  /\ UNCHANGED <<options, present, schedule, failures, retry, poll, drain, history>>

\* _LiveReconnect
LiveImageFails ==
  /\ live = "image"
  /\ LiveMoves("top")
  /\ UNCHANGED <<options, present, schedule, failures, images, poll, streak, drain,
                 history>>

\* Publishing the data arms the timer anew, if there is an interval.
LiveReads ==
  /\ live = "read"
  /\ failures' = 0
  /\ timer' = interval
  /\ live' = "holding"
  /\ sleep' = live_interval
  /\ spent' = 0
  /\ UNCHANGED <<options, present, gate, interval, images, poll, streak, drain, history>>

LiveHeld ==
  /\ live = "holding"
  /\ sleep = 0
  /\ HeadOfLoop
  /\ UNCHANGED <<options, present, schedule, failures, images, poll, drain, history>>

\* A step fails, or the link cannot be closed once the session ends.
LiveFails ==
  /\ \/ live \in {"connecting", "image", "read"}
     \/ live = "holding" /\ sleep = 0 /\ ~(live_mode /\ polling_enabled)
  /\ Failed
  /\ age' \in IF live = "image" THEN {0, age} ELSE {age}
  /\ Asleep(Backoff(live_interval))
  /\ spent' = 0
  /\ UNCHANGED <<options, present, schedule, retry, poll, drain, history>>

LiveWakes ==
  /\ live = "asleep"
  /\ sleep = 0
  /\ live' = "top"
  /\ UNCHANGED <<options, present, schedule, failures, images, poll, sleep, streak,
                 spent, drain, history>>

\* _start_live_task
StartLive == live' = IF live = "off" THEN "top" ELSE live

-------------------------------------------------------------------------------
(* Options                                                                  *)

ShowForm ==
  /\ form' = polling_enabled
  /\ UNCHANGED <<live_mode, polling_enabled, poll_interval, live_interval, present,
                 schedule, failures, images, poll, liveVars, spent, drain, history>>

\* async_options_updated, which runs as soon as the options are stored.
OptionsUpdated ==
  /\ Woken
  /\ IF live_mode'
       THEN StartLive /\ slack' = None /\ UNCHANGED <<interval, poll, timer, spent>>
       ELSE /\ interval' = None
            /\ UNCHANGED live
            /\ SchedulePoll(polling_enabled', gate)

\* Mutant: the form is merged over the options it was shown with.
SubmitFormOverShown(i, j, l) ==
  /\ form # None
  /\ i >= MinInterval
  /\ form' = None
  /\ poll_interval' = i
  /\ live_interval' = j
  /\ live_mode' = l
  /\ polling_enabled' = form
  /\ UNCHANGED present
  /\ OptionsUpdated
  /\ patience' = IF j = live_interval THEN patience ELSE None
  /\ UNCHANGED <<gate, failures, images, streak, drain, rested>>

\* A legal form is merged over the options as they are now.
SubmitForm(i, j, l) ==
  /\ form # None
  /\ i >= MinInterval
  /\ form' = None
  /\ poll_interval' = i
  /\ live_interval' = j
  /\ live_mode' = l
  /\ UNCHANGED polling_enabled
  /\ UNCHANGED present
  /\ OptionsUpdated
  /\ patience' = IF j = live_interval THEN patience ELSE None
  /\ UNCHANGED <<gate, failures, images, streak, drain, rested>>

\* Mutant: the live task is not woken.
SetPollingUnwoken(enabled) ==
  /\ ~drain
  /\ drain' = TRUE
  /\ polling_enabled' = enabled
  /\ patience' = IF enabled THEN None ELSE StepLeft
  /\ UNCHANGED <<live_mode, poll_interval, live_interval, form, present, gate, failures,
                 images, streak, rested>>
  /\ UNCHANGED sleep
  /\ IF enabled /\ ~polling_enabled
       THEN IF live_mode
              THEN StartLive /\ UNCHANGED <<interval, poll, timer, spent, slack>>
              ELSE interval' = None /\ UNCHANGED live /\ SchedulePoll(TRUE, gate)
       ELSE /\ interval' = IF enabled THEN interval ELSE None
            /\ slack' = IF enabled THEN slack ELSE None
            /\ IF enabled \/ ~live_mode THEN UNCHANGED live ELSE StartLive
            /\ UNCHANGED <<poll, timer, spent>>

\* async_set_polling up to the lock: the option is stored, and the listener runs
\* if it changed.
SetPolling(enabled) ==
  /\ ~drain
  /\ drain' = TRUE
  /\ polling_enabled' = enabled
  /\ patience' = IF enabled THEN None ELSE StepLeft
  /\ UNCHANGED <<live_mode, poll_interval, live_interval, form, present, gate, failures,
                 images, streak, rested>>
  /\ Woken
  /\ IF enabled /\ ~polling_enabled
       THEN IF live_mode
              THEN StartLive /\ UNCHANGED <<interval, poll, timer, spent, slack>>
              ELSE interval' = None /\ UNCHANGED live /\ SchedulePoll(TRUE, gate)
       ELSE /\ interval' = IF enabled THEN interval ELSE None
            /\ slack' = IF enabled THEN slack ELSE None
            /\ IF enabled \/ ~live_mode THEN UNCHANGED live ELSE StartLive
            /\ UNCHANGED <<poll, timer, spent>>

\* ... and once it has the lock: the gate opens.
Drained ==
  /\ drain /\ LockFree
  /\ drain' = FALSE
  /\ gate' = 0
  /\ rested' = MaxAge
  /\ patience' = None
  /\ UNCHANGED <<options, present, interval, failures, images, liveVars>>
  /\ SchedulePoll(polling_enabled, 0)

-------------------------------------------------------------------------------
(* Home Assistant and time                                                  *)

Advertisement ==
  /\ present' = TRUE
  /\ UNCHANGED <<options, gate, interval, failures, images, streak, drain, rested,
                 patience>>
  /\ IF live_mode THEN StartLive /\ Woken /\ UNCHANGED <<poll, timer, spent, slack>>
                  ELSE SchedulePoll(polling_enabled, gate) /\ UNCHANGED <<live, sleep>>

Unavailable ==
  /\ present
  /\ present' = FALSE
  /\ gate' = 0
  /\ interval' = None
  /\ sleep' = IF live_mode THEN 0 ELSE sleep
  /\ rested' = MaxAge
  /\ slack' = None
  /\ UNCHANGED <<options, timer, failures, images, poll, live, streak, spent, drain,
                 patience>>

\* Something is to be done before time goes on.
Urgent ==
  \/ timer = 0 /\ (live_mode \/ poll = "idle")
  \/ poll = "queued" /\ LockFree
  \/ live = "top" /\ (live_mode /\ polling_enabled /\ present => LockFree)
  \/ live \in {"asleep", "holding"} /\ sleep = 0
  \/ drain /\ LockFree
  \/ InTransaction /\ spent = MaxIO

Tick ==
  /\ ~Urgent
  /\ gate' = Down(gate)
  /\ timer' = Down(timer)
  /\ retry' = Down(retry)
  /\ sleep' = Down(sleep)
  /\ age' = Up(age)
  /\ rested' = Up(rested)
  /\ slack' = IF slack = None THEN None ELSE slack - 1
  /\ patience' = IF patience = None THEN None ELSE patience - 1
  /\ spent' = IF InTransaction THEN spent + 1 ELSE spent
  /\ streak' = IF live \in {"off", "top"} THEN 0 ELSE streak
  /\ UNCHANGED <<options, present, interval, failures, poll, live, drain>>

-------------------------------------------------------------------------------
Refresh ==
  \/ TimerFires \/ RefreshInLiveMode
  \/ RefreshDeclines \/ RefreshTooEarly \/ RefreshReads
  \/ ReadSucceeds \/ ReadFails

Live ==
  \/ LiveExits \/ LiveNaps \/ LiveConnects \/ LiveConnected \/ LiveImageRead
  \/ LiveImageFails \/ LiveReads \/ LiveHeld \/ LiveFails \/ LiveWakes

User ==
  \/ ShowForm
  \/ \E i \in Intervals, j \in LiveIntervals, l \in BOOLEAN : SubmitForm(i, j, l)
  \/ \E enabled \in BOOLEAN : SetPolling(enabled)

Next == Refresh \/ Live \/ User \/ Drained \/ Advertisement \/ Unavailable \/ Tick

Spec == Init /\ [][Next]_vars

-------------------------------------------------------------------------------
\* A wait no longer than one of the intervals, or the longest backoff.
Wait(intervals) ==
  {n \in Nat : n <= MaxBackoff \/ \E i \in intervals : n <= i}

\* Every variable keeps its type, and no wait is longer than an interval or a
\* backoff the code may set: the user's intervals may be longer than MAX_BACKOFF.
TypeOK ==
  /\ {live_mode, polling_enabled, present, drain} \subseteq BOOLEAN
  /\ poll_interval \in Intervals /\ live_interval \in LiveIntervals
  /\ form \in BOOLEAN \cup {None}
  /\ gate \in Wait(Intervals)
  /\ {interval, timer} \subseteq Wait(Intervals) \cup {None}
  /\ age \in Nat \cup {None}
  /\ failures \in 0..FailureCap
  /\ retry \in 0..ImageRetry
  /\ poll \in {"idle", "queued", "reading"}
  /\ live \in {"off", "top", "asleep", "connecting", "image", "read", "holding"}
  /\ sleep \in Wait(LiveIntervals)
  /\ spent \in 0..MaxIO

\* While polling goes on undisturbed, the next read begins when the last one said,
\* within a tick, after a success as after a failure: a timer that fires early,
\* an edited option, an advertisement in between never cost a poll.
PolledOnTime == slack # None => slack >= 0

\* Two polls are never closer than the least interval, however options, modes and
\* timers change in between, unless the unit was lost or the polling switch used.
NeverHurried ==
  [][poll # "reading" /\ poll' = "reading" => rested' >= MinInterval]_vars

\* The live loop never connects a third time in a row, with no wait and no read between,
\* because of a lost image: a link that cannot carry it is used for live reads, or
\* given a rest, and not stormed.
NoConnectStorm == streak <= 2

\* The maintenance switch only changes by itself: no options form, opened before and
\* submitted whenever, takes the unit out of a pause or puts it into one.
PollingBySwitchOnly ==
  [][polling_enabled' # polling_enabled => ~drain /\ drain' /\ form' = form]_vars

\* A call that pauses polling has the lock once the step in progress is over.  Two
\* things may come on top: the image, if a live session was connecting, and one live
\* interval, if it was reading, as the wake-up is lost to the sleep after the read.
\* (Unless that interval is edited while the call waits.)
PausePrompt == patience # None => patience >= 0

\* "Live mode refreshes the EEPROM image hourly": while it reads, the image is
\* hardly older than that.
LiveImageFresh ==
  live = "holding" /\ age # None => age <= ImageAge + live_interval + MaxIO
===============================================================================
