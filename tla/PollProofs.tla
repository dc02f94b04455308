------------------------------- MODULE PollProofs -------------------------------
(***************************************************************************)
(* Proofs about PollSchedule, for all intervals, caps and ages that        *)
(* ScheduleAssumption admits.                                              *)
(***************************************************************************)
EXTENDS PollSchedule, TLAPS

TypeInv ==
  /\ TypeOK
  /\ gate \in Nat /\ rested \in Nat /\ streak \in Nat
  /\ {slack, patience} \subseteq Int \cup {None}
  /\ poll_interval >= MinInterval

\* The part of TypeOK about the schedule.
Clocks ==
  /\ gate \in Wait(Intervals)
  /\ {interval, timer} \subseteq Wait(Intervals) \cup {None}
  /\ age \in Nat \cup {None}

\* One transaction at a time, and what a row of connections has cost so far: the
\* image is not tried again while the second connection lasts.
StormInv ==
  /\ ~(poll = "reading" /\ Linked)
  /\ live \in {"asleep", "read", "holding"} => streak = 0
  /\ live \in {"off", "top"} => streak = 0 \/ (streak = 1 /\ retry >= ImageRetry - MaxIO)
  /\ live = "connecting" =>
       streak = 1 \/ (streak = 2 /\ retry + spent >= ImageRetry - MaxIO)
  /\ live = "image" => streak = 1 /\ retry + spent >= ImageRetry

\* The gate is open no earlier than a poll's interval after the last one.
RestInv == rested >= MinInterval \/ rested + gate >= MinInterval

\* While a poll is due nobody else has the unit, and gate and timer are on time.
SlackInv ==
  slack # None =>
    /\ slack >= 0
    /\ polling_enabled /\ present /\ ~live_mode /\ ~Linked /\ poll # "reading"
    /\ gate = 0 \/ gate < slack
    /\ poll = "idle" => timer # None /\ timer <= slack

PInv == TypeInv /\ StormInv /\ RestInv /\ SlackInv

\* A step that ends a wait, or sets one to an interval or a backoff.
LEMMA WaitBounds ==
  ASSUME NEW I \in SUBSET Nat
  PROVE  /\ Wait(I) \subseteq Nat
         /\ I \subseteq Wait(I) /\ 0..MaxBackoff \subseteq Wait(I)
         /\ {0, 1} \subseteq Wait(I)
         /\ \A n \in Wait(I) : Down(n) \in Wait(I) /\ Most(1, n) \in Wait(I)
<1>1. \A n \in Nat : n \in Wait(I) <=> n <= MaxBackoff \/ \E i \in I : n <= i
  BY DEF Wait
<1>2. Wait(I) \subseteq Nat
  BY DEF Wait
<1>3. I \subseteq Wait(I) /\ 0..MaxBackoff \subseteq Wait(I) /\ {0, 1} \subseteq Wait(I)
  BY <1>1, ScheduleAssumption
<1>4. ASSUME NEW n \in Wait(I) PROVE Down(n) \in Wait(I) /\ Most(1, n) \in Wait(I)
  <2>1. Down(n) \in Nat /\ Down(n) <= n
    BY <1>2, ScheduleAssumption DEF Down
  <2>2. Most(1, n) \in {1, n}
    BY DEF Most
  <2> QED
    BY <1>1, <1>2, <1>3, <2>1, <2>2, ScheduleAssumption
<1> QED
  BY <1>2, <1>3, <1>4

\* The waits of the schedule.
LEMMA Waits ==
  /\ Wait(Intervals) \subseteq Nat /\ Wait(LiveIntervals) \subseteq Nat
  /\ Intervals \subseteq Wait(Intervals) /\ LiveIntervals \subseteq Wait(LiveIntervals)
  /\ 0..MaxBackoff \subseteq Wait(Intervals) /\ 0..MaxBackoff \subseteq Wait(LiveIntervals)
  /\ 0 \in Wait(Intervals) /\ 0 \in Wait(LiveIntervals)
  /\ \A n \in Wait(Intervals) : Down(n) \in Wait(Intervals) /\ Most(1, n) \in Wait(Intervals)
  /\ \A n \in Wait(LiveIntervals) : Down(n) \in Wait(LiveIntervals)
BY WaitBounds, ScheduleAssumption

LEMMA StepLeftType ==
  ASSUME TypeInv
  PROVE  StepLeft \in Nat
BY ScheduleAssumption DEF TypeInv, TypeOK, StepLeft

LEMMA BackoffBounds ==
  ASSUME failures \in 0..FailureCap, Failed, NEW i \in Nat
  PROVE  /\ failures' \in 0..FailureCap
         /\ Backoff(i) \in 0..MaxBackoff
         /\ Backoff(i) >= i \/ Backoff(i) = MaxBackoff
<1>1. failures' \in 0..FailureCap
  BY ScheduleAssumption DEF Failed, Least
<1>2. 2^failures' \in Nat \ {0}
  BY <1>1, ScheduleAssumption
<1> DEFINE p == 2^failures'
<1> HIDE DEF p
<1>3. \A j \in Nat : j * p >= i \/ j < i
  BY <1>2 DEF p
<1>4. i * p \in Nat /\ i * p >= i
  BY <1>2, <1>3 DEF p
<1>5. Backoff(i) = Least(MaxBackoff, i * p)
  BY DEF Backoff, p
<1> QED
  BY <1>1, <1>4, <1>5, ScheduleAssumption DEF Least

LEMMA InitPoll == Init => PInv
<1> SUFFICES ASSUME Init PROVE PInv
  OBVIOUS
<1> USE ScheduleAssumption DEF Init
<1>1. TypeOK
  <2>1. {live_mode, polling_enabled, present, drain} \subseteq BOOLEAN /\ form = None
    OBVIOUS
  <2>2. /\ gate \in Wait(Intervals) /\ sleep \in Wait(LiveIntervals)
        /\ {interval, timer} \subseteq Wait(Intervals) \cup {None} /\ age \in Nat \cup {None}
    BY Waits
  <2>3. /\ poll_interval \in Intervals /\ failures \in 0..FailureCap /\ retry \in 0..ImageRetry
        /\ spent \in 0..MaxIO /\ live_interval \in LiveIntervals
    OBVIOUS
  <2>4. poll \in {"idle", "queued"} /\ live \in {"top", "off"}
    OBVIOUS
  <2> QED
    BY <2>1, <2>2, <2>3, <2>4 DEF TypeOK
<1>2. TypeInv
  BY <1>1 DEF TypeInv
<1>3. StormInv
  BY DEF StormInv, Linked
<1>4. RestInv /\ SlackInv
  BY DEF RestInv, SlackInv
<1> QED
  BY <1>2, <1>3, <1>4 DEF PInv

-------------------------------------------------------------------------------
\* A step of the refresh that begins or ends no read.
LEMMA DeclineStep ==
  ASSUME PInv, TimerFires \/ RefreshInLiveMode \/ RefreshDeclines \/ RefreshTooEarly
  PROVE  PInv'
<1> USE ScheduleAssumption DEF PInv, options, images, liveVars, history
<1>1. CASE TimerFires
  BY <1>1 DEF TimerFires, TypeInv, TypeOK, StormInv, RestInv, SlackInv, Linked
<1>2. CASE RefreshDeclines
  BY <1>2 DEF RefreshDeclines, Refreshed, LockFree, TypeInv, TypeOK, StormInv, RestInv, SlackInv, Linked
<1>3. CASE RefreshTooEarly
  BY <1>3, Waits DEF RefreshTooEarly, Refreshed, MayRead, Most, TypeInv, TypeOK, StormInv, RestInv, SlackInv, Linked
<1>4. CASE RefreshInLiveMode
  BY <1>4 DEF RefreshInLiveMode, TypeInv, TypeOK, StormInv, RestInv, SlackInv, Linked
<1> QED
  BY <1>1, <1>2, <1>3, <1>4

LEMMA ReadStep ==
  ASSUME PInv, RefreshReads \/ ReadSucceeds \/ ReadFails
  PROVE  PInv'
<1> USE ScheduleAssumption DEF PInv, options, images, liveVars, history
<1>1. CASE RefreshReads
  BY <1>1 DEF RefreshReads, MayRead, BeginRead, LockFree, TypeInv, TypeOK, StormInv, RestInv, SlackInv, Linked
<1>2. ASSUME NEW d \in Wait(Intervals), d >= MinInterval, NextPoll(d), poll = "reading",
             failures' \in 0..FailureCap, MayRefreshImage
      PROVE  PInv'
  <2>1. TypeInv'
    BY <1>2, Waits DEF NextPoll, MayRefreshImage, Due, TypeInv, TypeOK
  <2>2. StormInv'
    BY <1>2, Waits DEF NextPoll, TypeInv, TypeOK, StormInv, Linked
  <2>3. RestInv' /\ SlackInv'
    BY <1>2, Waits DEF NextPoll, TypeInv, TypeOK, StormInv, RestInv, SlackInv, Linked
  <2> QED
    BY <2>1, <2>2, <2>3
<1>3. poll_interval \in Nat /\ poll_interval \in Wait(Intervals) /\ poll_interval >= MinInterval
  BY Waits DEF TypeInv, TypeOK, Clocks
<1>4. CASE ReadSucceeds
  BY <1>2, <1>3, <1>4 DEF ReadSucceeds
<1>5. CASE ReadFails
  <2>1. /\ failures' \in 0..FailureCap
        /\ Backoff(poll_interval) \in Wait(Intervals) /\ Backoff(poll_interval) >= MinInterval
    BY <1>3, <1>5, BackoffBounds, Waits DEF ReadFails, TypeInv, TypeOK
  <2> QED
    BY <1>2, <1>5, <2>1 DEF ReadFails
<1> QED
  BY <1>1, <1>4, <1>5

-------------------------------------------------------------------------------
(* The live loop                                                            *)

LEMMA LiveWaitStep ==
  ASSUME PInv, LiveExits \/ LiveNaps \/ LiveWakes
  PROVE  PInv'
<1> USE ScheduleAssumption DEF PInv, options, schedule, images, liveVars, history
<1>1. CASE LiveExits
  BY <1>1 DEF LiveExits, LiveTop, TypeInv, TypeOK, StormInv, RestInv, SlackInv, Linked
<1>2. CASE LiveNaps
  BY <1>2, Waits DEF LiveNaps, LiveTop, Asleep, TypeInv, TypeOK, StormInv, RestInv, SlackInv, Linked
<1>3. CASE LiveWakes
  BY <1>3 DEF LiveWakes, TypeInv, TypeOK, StormInv, RestInv, SlackInv, Linked
<1> QED
  BY <1>1, <1>2, <1>3

LEMMA LiveSessionStep ==
  ASSUME PInv,
         LiveConnects \/ LiveConnected \/ LiveImageRead \/ LiveImageFails \/ LiveReads \/ LiveHeld
  PROVE  PInv'
<1> USE ScheduleAssumption DEF PInv, options, schedule, images, liveVars, history
<1>1. CASE LiveConnects
  BY <1>1 DEF LiveConnects, LiveTop, LiveMoves, LockFree, TypeInv, TypeOK, StormInv, RestInv, SlackInv, Linked
<1>2. CASE LiveConnected
  BY <1>2 DEF LiveConnected, LiveMoves, HeadOfLoop, LiveDue, TypeInv, TypeOK, StormInv, RestInv, SlackInv, Linked
<1>3. CASE LiveImageRead
  BY <1>3 DEF LiveImageRead, LiveMoves, HeadOfLoop, TypeInv, TypeOK, StormInv, RestInv, SlackInv, Linked
<1>4. CASE LiveImageFails
  BY <1>4 DEF LiveImageFails, LiveMoves, TypeInv, TypeOK, StormInv, RestInv, SlackInv, Linked
<1>5. CASE LiveReads
  BY <1>5, Waits DEF LiveReads, TypeInv, TypeOK, StormInv, RestInv, SlackInv, Linked
<1>6. CASE LiveHeld
  BY <1>6 DEF LiveHeld, LiveMoves, HeadOfLoop, TypeInv, TypeOK, StormInv, RestInv, SlackInv, Linked
<1> QED
  BY <1>1, <1>2, <1>3, <1>4, <1>5, <1>6

LEMMA LiveFailsStep ==
  ASSUME PInv, LiveFails
  PROVE  PInv'
<1> USE ScheduleAssumption DEF PInv, options, schedule, images, liveVars, history
<1>1. failures' \in 0..FailureCap /\ Backoff(live_interval) \in Wait(LiveIntervals)
  BY BackoffBounds, Waits DEF LiveFails, TypeInv, TypeOK
<1>2. /\ live' = "asleep" /\ sleep' = Backoff(live_interval) /\ streak' = 0 /\ spent' = 0
      /\ age' \in {0, age}
      /\ UNCHANGED <<options, present, schedule, retry, poll, drain, history>>
  BY DEF LiveFails, Asleep
<1>3. TypeInv'
  BY <1>1, <1>2 DEF TypeInv, TypeOK, Clocks
<1>4. StormInv' /\ RestInv' /\ SlackInv'
  BY <1>2 DEF StormInv, RestInv, SlackInv, Linked
<1> QED
  BY <1>3, <1>4

-------------------------------------------------------------------------------
(* Options, presence and time                                               *)

\* A poll begins, or none does.
MayBegin ==
  \/ BeginRead /\ LockFree /\ poll = "idle" /\ gate' = 0
  \/ UNCHANGED <<poll, timer, spent>> /\ slack' \in {slack, None}

\* What a change of options or presence may do to the refresh and the live loop:
\* let a poll begin whose gate is open, or start the live task.
Stir ==
  /\ live' \in {live, IF live = "off" THEN "top" ELSE live}
  /\ UNCHANGED <<retry, streak, age, failures>>
  /\ gate' \in Nat /\ rested' \in Nat
  /\ \/ UNCHANGED <<gate, rested>>
     \/ gate' = 0 /\ rested' >= MinInterval
  /\ MayBegin

\* A poll is only scheduled when the gate is open and the lock free.
LEMMA SchedulePollStep ==
  ASSUME NEW enabled, SchedulePoll(enabled, gate')
  PROVE  MayBegin
BY DEF SchedulePoll, Schedules, MayBegin

LEMMA StirStep ==
  ASSUME PInv, Stir
  PROVE  /\ StormInv' /\ RestInv'
         /\ slack' = None \/ (slack' = slack /\ UNCHANGED <<poll, timer>>)
         /\ gate' \in Wait(Intervals) /\ gate' \in Nat /\ rested' \in Nat /\ streak' \in Nat
         /\ timer' \in Wait(Intervals) \cup {None} /\ age' \in Nat \cup {None} /\ failures' \in 0..FailureCap
         /\ retry' \in 0..ImageRetry /\ spent' \in 0..MaxIO
         /\ poll' \in {"idle", "queued", "reading"}
         /\ live' \in {"off", "top", "asleep", "connecting", "image", "read", "holding"}
<1> USE ScheduleAssumption DEF PInv, Stir, MayBegin
<1>1. StormInv'
  BY DEF BeginRead, LockFree, TypeInv, TypeOK, StormInv, Linked
<1>2. RestInv'
  BY DEF TypeInv, RestInv
<1>3. slack' = None \/ (slack' = slack /\ UNCHANGED <<poll, timer>>)
  BY DEF BeginRead
<1>4. timer' \in Wait(Intervals) \cup {None} /\ age' \in Nat \cup {None}
  BY DEF BeginRead, TypeInv, TypeOK
<1>5. /\ failures' \in 0..FailureCap /\ retry' \in 0..ImageRetry /\ spent' \in 0..MaxIO
      /\ gate' \in Wait(Intervals) /\ gate' \in Nat /\ rested' \in Nat /\ streak' \in Nat
  BY Waits DEF BeginRead, TypeInv, TypeOK
<1>6. /\ poll' \in {"idle", "queued", "reading"}
      /\ live' \in {"off", "top", "asleep", "connecting", "image", "read", "holding"}
  BY DEF BeginRead, TypeInv, TypeOK
<1> QED
  BY <1>1, <1>2, <1>3, <1>4, <1>5, <1>6

LEMMA FormStep ==
  ASSUME PInv, ShowForm \/ \E i \in Intervals, j \in LiveIntervals, l \in BOOLEAN : SubmitForm(i, j, l)
  PROVE  PInv'
<1> USE ScheduleAssumption DEF PInv
<1>1. CASE ShowForm
  BY <1>1 DEF ShowForm, schedule, images, liveVars, history, TypeInv, TypeOK, StormInv,
     RestInv, SlackInv, Linked
<1>2. ASSUME NEW i \in Intervals, NEW j \in LiveIntervals, NEW l \in BOOLEAN,
             SubmitForm(i, j, l)
      PROVE  PInv'
  <2>1. /\ i >= MinInterval /\ form' = None /\ poll_interval' = i /\ live_interval' = j
        /\ live_mode' = l /\ patience' \in {patience, None}
        /\ UNCHANGED <<polling_enabled, present, gate, failures, images, streak, drain, rested>>
        /\ sleep' = 0
    BY <1>2 DEF SubmitForm, OptionsUpdated, Woken
  <2>2. /\ live_mode' => live' = (IF live = "off" THEN "top" ELSE live) /\ slack' = None
                         /\ UNCHANGED <<interval, poll, timer, spent>>
        /\ ~live_mode' => interval' = None /\ UNCHANGED live /\ SchedulePoll(polling_enabled', gate)
    BY <1>2, <2>1 DEF SubmitForm, OptionsUpdated, StartLive
  <2>3. Stir
    <3>1. MayBegin
      <4>1. CASE live_mode'
        BY <2>2, <4>1 DEF MayBegin
      <4>2. CASE ~live_mode'
        BY <2>1, <2>2, <4>2, SchedulePollStep
      <4> QED
        BY <4>1, <4>2
    <3>2. gate \in Nat /\ rested \in Nat
      BY DEF TypeInv
    <3>3. live' \in {live, IF live = "off" THEN "top" ELSE live}
      BY <2>2
    <3> QED
      BY <2>1, <3>1, <3>2, <3>3 DEF Stir, images
  <2>4. interval' \in Wait(Intervals) \cup {None}
    BY <2>2 DEF TypeInv, TypeOK, Clocks
  <2>5. TypeInv'
    <3>1. {live_mode, polling_enabled, present, drain}' \subseteq BOOLEAN /\ form' \in BOOLEAN \cup {None}
      BY <2>1 DEF TypeInv, TypeOK, Clocks
    <3>2. /\ poll_interval' \in Intervals /\ live_interval' \in LiveIntervals /\ poll_interval' >= MinInterval
          /\ {slack, patience}' \subseteq Int \cup {None} /\ sleep' \in Wait(LiveIntervals)
      BY <2>1, <2>3, StirStep, Waits DEF TypeInv, TypeOK, Clocks
    <3>3. Clocks'
      BY <2>3, <2>4, StirStep, Waits DEF Clocks
    <3> QED
      BY <2>3, <3>1, <3>2, <3>3, StirStep DEF TypeInv, TypeOK, Clocks
  <2>6. SlackInv'
    <3> SUFFICES ASSUME slack' # None PROVE SlackInv'
      BY DEF SlackInv
    <3>1. ~live_mode' /\ UNCHANGED live
      BY <2>2
    <3>2. slack' = slack /\ UNCHANGED <<poll, timer, gate, polling_enabled, present>>
      BY <2>1, <2>3, StirStep
    <3> QED
      BY <3>1, <3>2 DEF SlackInv, Linked
  <2> QED
    BY <2>3, <2>5, <2>6, StirStep
<1> QED
  BY <1>1, <1>2

LEMMA SetPollingStep ==
  ASSUME PInv, NEW enabled \in BOOLEAN, SetPolling(enabled)
  PROVE  PInv'
<1> USE ScheduleAssumption DEF PInv
<1>1. /\ drain' = TRUE /\ polling_enabled' = enabled /\ sleep' = 0
      /\ patience' = (IF enabled THEN None ELSE StepLeft)
      /\ UNCHANGED <<live_mode, poll_interval, live_interval, form, present, gate, failures, age,
                     retry, streak, rested>>
  BY DEF SetPolling, Woken, images
<1>2. \/ /\ enabled /\ ~polling_enabled /\ live_mode
         /\ StartLive /\ UNCHANGED <<interval, poll, timer, spent, slack>>
      \/ /\ enabled /\ ~polling_enabled /\ ~live_mode
         /\ interval' = None /\ UNCHANGED live /\ SchedulePoll(TRUE, gate)
      \/ /\ enabled /\ polling_enabled
         /\ UNCHANGED <<interval, slack, live, poll, timer, spent>>
      \/ /\ ~enabled /\ interval' = None /\ slack' = None
         /\ (UNCHANGED live \/ StartLive) /\ UNCHANGED <<poll, timer, spent>>
  BY DEF SetPolling
<1>3. Stir
  <2>1. MayBegin
    BY <1>1, <1>2, SchedulePollStep DEF MayBegin
  <2>2. gate \in Nat /\ rested \in Nat
    BY DEF TypeInv
  <2>3. live' \in {live, IF live = "off" THEN "top" ELSE live}
    BY <1>2 DEF StartLive
  <2> QED
    BY <1>1, <2>1, <2>2, <2>3 DEF Stir
<1>4. TypeInv'
  <2>1. {live_mode, polling_enabled, present, drain}' \subseteq BOOLEAN /\ form' \in BOOLEAN \cup {None}
    BY <1>1 DEF TypeInv, TypeOK, Clocks
  <2>2. interval' \in Wait(Intervals) \cup {None}
    BY <1>2 DEF TypeInv, TypeOK, Clocks
  <2>3. Clocks'
    BY <1>3, <2>2, StirStep, Waits DEF Clocks
  <2>4. /\ poll_interval' \in Intervals /\ live_interval' \in LiveIntervals /\ poll_interval' >= MinInterval
        /\ {slack, patience}' \subseteq Int \cup {None} /\ sleep' \in Wait(LiveIntervals)
    BY <1>1, <1>3, StirStep, StepLeftType, Waits DEF TypeInv, TypeOK
  <2> QED
    BY <1>3, <2>1, <2>3, <2>4, StirStep DEF TypeInv, TypeOK, Clocks
<1>5. SlackInv'
  <2> SUFFICES ASSUME slack' # None PROVE SlackInv'
    BY DEF SlackInv
  <2>1. slack' = slack /\ UNCHANGED <<poll, timer, gate, live_mode, present>>
    BY <1>1, <1>3, StirStep
  <2>2. polling_enabled
    BY <2>1 DEF SlackInv
  <2>3. enabled /\ UNCHANGED live
    BY <1>2, <2>2
  <2> QED
    BY <1>1, <2>1, <2>3 DEF SlackInv, Linked
<1> QED
  BY <1>3, <1>4, <1>5, StirStep

LEMMA DrainedStep ==
  ASSUME PInv, Drained
  PROVE  PInv'
<1> USE ScheduleAssumption DEF PInv
<1>1. /\ LockFree /\ drain' = FALSE /\ gate' = 0 /\ rested' = MaxAge /\ patience' = None
      /\ UNCHANGED <<options, present, interval, failures, images, liveVars>>
      /\ SchedulePoll(polling_enabled, 0)
  BY DEF Drained
<1>3. Stir
  <2>1. MayBegin
    BY <1>1, SchedulePollStep
  <2> QED
    BY <1>1, <2>1 DEF Stir, images, liveVars
<1>4. TypeInv'
  <2>1. {live_mode, polling_enabled, present, drain}' \subseteq BOOLEAN /\ form' \in BOOLEAN \cup {None}
    BY <1>1 DEF options, TypeInv, TypeOK
  <2>2. Clocks'
    BY <1>1, <1>3, StirStep, Waits DEF TypeInv, TypeOK, Clocks
  <2>3. /\ poll_interval' \in Intervals /\ live_interval' \in LiveIntervals /\ poll_interval' >= MinInterval
        /\ {slack, patience}' \subseteq Int \cup {None} /\ sleep' \in Wait(LiveIntervals)
    BY <1>1, <1>3, StirStep, Waits DEF options, liveVars, TypeInv, TypeOK
  <2> QED
    BY <1>3, <2>1, <2>2, <2>3, StirStep DEF TypeInv, TypeOK, Clocks
<1>5. SlackInv'
  <2>1. slack' = None \/ (slack' = slack /\ UNCHANGED <<poll, timer>>)
    BY <1>3, StirStep
  <2> QED
    BY <1>1, <2>1 DEF SlackInv, Linked, options, liveVars
<1> QED
  BY <1>3, <1>4, <1>5, StirStep

LEMMA PresenceStep ==
  ASSUME PInv, Advertisement \/ Unavailable
  PROVE  PInv'
<1> USE ScheduleAssumption DEF PInv
<1>1. ASSUME Advertisement PROVE PInv'
  <2>1. /\ present' = TRUE
        /\ UNCHANGED <<options, gate, interval, failures, images, streak, drain, rested, patience>>
    BY <1>1 DEF Advertisement
  <2>2. /\ live_mode => StartLive /\ sleep' = 0 /\ UNCHANGED <<poll, timer, spent, slack>>
        /\ ~live_mode => SchedulePoll(polling_enabled, gate) /\ UNCHANGED <<live, sleep>>
    BY <1>1 DEF Advertisement, Woken
  <2>4. Stir
    <3>1. MayBegin
      <4>1. CASE live_mode
        BY <2>2, <4>1 DEF MayBegin
      <4>2. CASE ~live_mode
        BY <2>1, <2>2, <4>2, SchedulePollStep
      <4> QED
        BY <4>1, <4>2
    <3>2. gate \in Nat /\ rested \in Nat
      BY DEF TypeInv
    <3>3. live' \in {live, IF live = "off" THEN "top" ELSE live}
      BY <2>2 DEF StartLive
    <3> QED
      BY <2>1, <3>1, <3>2, <3>3 DEF Stir, images
  <2>5. TypeInv'
    <3>1. {live_mode, polling_enabled, present, drain}' \subseteq BOOLEAN /\ form' \in BOOLEAN \cup {None}
      BY <2>1 DEF options, TypeInv, TypeOK
    <3>2. Clocks'
      BY <2>1, <2>4, StirStep, Waits DEF TypeInv, TypeOK, Clocks
    <3>3. /\ poll_interval' \in Intervals /\ live_interval' \in LiveIntervals /\ poll_interval' >= MinInterval
          /\ {slack, patience}' \subseteq Int \cup {None} /\ sleep' \in Wait(LiveIntervals)
      BY <2>1, <2>2, <2>4, StirStep, Waits DEF options, TypeInv, TypeOK
    <3> QED
      BY <2>4, <3>1, <3>2, <3>3, StirStep DEF TypeInv, TypeOK, Clocks
  <2>6. SlackInv'
    <3> SUFFICES ASSUME slack' # None PROVE SlackInv'
      BY DEF SlackInv
    <3>1. slack' = slack /\ UNCHANGED <<poll, timer>>
      BY <2>4, StirStep
    <3>2. ~live_mode /\ UNCHANGED live
      BY <2>2, <3>1 DEF SlackInv
    <3> QED
      BY <2>1, <3>1, <3>2 DEF SlackInv, Linked, options
  <2> QED
    BY <2>4, <2>5, <2>6, StirStep
<1>2. ASSUME Unavailable PROVE PInv'
  <2>1. /\ present' = FALSE /\ gate' = 0 /\ interval' = None /\ slack' = None
        /\ sleep' \in {0, sleep} /\ rested' = MaxAge
        /\ UNCHANGED <<options, timer, failures, images, poll, live, streak, spent, drain, patience>>
    BY <1>2 DEF Unavailable
  <2>2. TypeInv'
    <3>1. {live_mode, polling_enabled, present, drain}' \subseteq BOOLEAN /\ form' \in BOOLEAN \cup {None}
      BY <2>1 DEF options, TypeInv, TypeOK
    <3>2. Clocks'
      BY <2>1, Waits DEF images, TypeInv, TypeOK, Clocks
    <3> QED
      BY <2>1, <3>1, <3>2, Waits DEF options, images, TypeInv, TypeOK, Clocks
  <2>3. StormInv' /\ RestInv' /\ SlackInv'
    BY <2>1 DEF images, StormInv, RestInv, SlackInv, Linked
  <2> QED
    BY <2>2, <2>3
<1> QED
  BY <1>1, <1>2

LEMMA TickStep ==
  ASSUME PInv, Tick
  PROVE  PInv'
<1> USE ScheduleAssumption DEF PInv
<1>1. /\ gate' = Down(gate) /\ timer' = Down(timer) /\ retry' = Down(retry) /\ sleep' = Down(sleep)
      /\ age' = Up(age) /\ rested' = Up(rested)
      /\ slack' = (IF slack = None THEN None ELSE slack - 1)
      /\ patience' = (IF patience = None THEN None ELSE patience - 1)
      /\ spent' = (IF InTransaction THEN spent + 1 ELSE spent)
      /\ streak' = (IF live \in {"off", "top"} THEN 0 ELSE streak)
      /\ UNCHANGED <<options, present, interval, failures, poll, live, drain>>
  BY DEF Tick
<1>2. /\ ~(timer = 0 /\ (live_mode \/ poll = "idle")) /\ ~(poll = "queued" /\ LockFree)
      /\ ~(InTransaction /\ spent = MaxIO)
  BY DEF Tick, Urgent
<1>3. Clocks'
  BY <1>1, Waits DEF Down, Up, Least, TypeInv, TypeOK, Clocks
<1>4. TypeInv'
  <2>1. /\ sleep' \in Wait(LiveIntervals) /\ retry' \in 0..ImageRetry
        /\ gate' \in Nat /\ rested' \in Nat /\ streak' \in Nat
    BY <1>1, Waits DEF Down, Up, Least, TypeInv, TypeOK
  <2>2. {slack, patience}' \subseteq Int \cup {None} /\ spent' \in 0..MaxIO
    BY <1>1, <1>2 DEF TypeInv, TypeOK
  <2> QED
    BY <1>1, <1>3, <2>1, <2>2 DEF options, TypeInv, TypeOK, Clocks
<1>5. StormInv'
  BY <1>1, <1>2 DEF Down, InTransaction, TypeInv, TypeOK, StormInv, Linked
<1>6. RestInv'
  BY <1>1 DEF Down, Up, Least, TypeInv, RestInv
<1>7. SlackInv'
  BY <1>1, <1>2, Waits DEF Down, LockFree, options, TypeInv, TypeOK, SlackInv, Linked
<1> QED
  BY <1>4, <1>5, <1>6, <1>7

-------------------------------------------------------------------------------
LEMMA PInvInductive ==
  ASSUME PInv, [Next]_vars
  PROVE  PInv'
<1>1. CASE Refresh
  BY <1>1, DeclineStep, ReadStep DEF Refresh
<1>2. CASE Live
  BY <1>2, LiveWaitStep, LiveSessionStep, LiveFailsStep DEF Live
<1>3. CASE User
  BY <1>3, FormStep, SetPollingStep DEF User
<1>4. CASE Drained \/ Advertisement \/ Unavailable \/ Tick
  BY <1>4, DrainedStep, PresenceStep, TickStep
<1>5. CASE UNCHANGED vars
  BY <1>5 DEF vars, options, schedule, images, liveVars, history, PInv, TypeInv, TypeOK, StormInv,
     RestInv, SlackInv, Linked
<1> QED
  BY <1>1, <1>2, <1>3, <1>4, <1>5 DEF Next

-------------------------------------------------------------------------------
(* How long a pause may wait                                                *)

\* While a pausing call waits, whoever has the lock is on his way to giving it back,
\* and the patience of the call covers what that still takes.
PatienceInv ==
  patience # None =>
    /\ drain /\ ~polling_enabled
    /\ patience >= StepLeft + (IF live = "holding" THEN sleep ELSE 0)

LEMMA PatienceInductive ==
  ASSUME TypeInv, StormInv, PatienceInv, [Next]_vars
  PROVE  PatienceInv'
<1> SUFFICES ASSUME patience' # None PROVE PatienceInv'
  BY DEF PatienceInv
<1> USE ScheduleAssumption DEF PatienceInv, StepLeft, InTransaction
<1>1. CASE Refresh
  <2>1. UNCHANGED <<options, live, sleep, drain, patience>>
    BY <1>1 DEF Refresh, TimerFires, RefreshInLiveMode, RefreshDeclines, RefreshTooEarly, Refreshed,
       RefreshReads, ReadSucceeds, ReadFails, NextPoll, liveVars, history
  <2>2. \/ poll = "reading" /\ poll' = "idle" /\ spent' = 0
        \/ poll # "reading" /\ poll' # "reading" /\ spent' = spent
        \/ UNCHANGED <<poll, spent>>
    BY <1>1, <2>1 DEF Refresh, TimerFires, RefreshInLiveMode, RefreshDeclines, RefreshTooEarly,
       Refreshed, RefreshReads, MayRead, ReadSucceeds, ReadFails, NextPoll
  <2> QED
    BY <2>1, <2>2, Waits DEF options, TypeInv, TypeOK, StormInv, Linked
<1>2. CASE Live
  <2>1. UNCHANGED <<options, poll, drain, patience>>
    BY <1>2 DEF Live, LiveTop, LiveExits, LiveNaps, LiveConnects, LiveConnected, LiveImageRead,
       LiveImageFails, LiveReads, LiveHeld, LiveFails, LiveWakes, history
  <2>2. drain /\ ~polling_enabled
    BY <2>1
  <2>3. \/ live' \in {"off", "top", "asleep"}
        \/ live = "connecting" /\ live' = "image" /\ spent' = 0
        \/ live = "read" /\ live' = "holding" /\ sleep' = live_interval /\ spent' = 0
    BY <1>2, <2>2 DEF Live, LiveTop, LiveExits, LiveNaps, LiveConnects, LiveConnected, LiveImageRead,
       LiveImageFails, LiveReads, LiveHeld, LiveFails, LiveWakes, Asleep, LiveMoves, HeadOfLoop
  <2>4. Linked \/ spent' = spent
    BY <1>2, <2>2 DEF Live, LiveTop, LiveExits, LiveNaps, LiveConnects, LiveConnected, LiveImageRead,
       LiveImageFails, LiveReads, LiveHeld, LiveFails, LiveWakes, LockFree, Linked
  <2>5. Linked => poll # "reading"
    BY DEF StormInv
  <2> QED
    BY <2>1, <2>3, <2>4, <2>5, Waits DEF options, TypeInv, TypeOK
<1>3. CASE ShowForm
  BY <1>3 DEF ShowForm, liveVars, history
<1>4. ASSUME NEW i \in Intervals, NEW j \in LiveIntervals, NEW l \in BOOLEAN, SubmitForm(i, j, l)
      PROVE  PatienceInv'
  <2>1. /\ patience' = patience /\ live_interval' = live_interval
        /\ UNCHANGED <<polling_enabled, drain>> /\ sleep' = 0
    BY <1>4 DEF SubmitForm, OptionsUpdated, Woken
  <2>2. ~polling_enabled
    BY <2>1
  <2>3. UNCHANGED <<poll, spent>> /\ (live' = live \/ (live = "off" /\ live' = "top"))
    BY <1>4, <2>1, <2>2 DEF SubmitForm, OptionsUpdated, StartLive, SchedulePoll, Schedules
  <2> QED
    BY <2>1, <2>3, Waits DEF TypeInv, TypeOK
<1>5. ASSUME NEW enabled \in BOOLEAN, SetPolling(enabled)
      PROVE  PatienceInv'
  <2>1. /\ ~enabled /\ patience' = StepLeft /\ drain' /\ ~polling_enabled' /\ sleep' = 0
        /\ UNCHANGED live_interval
    BY <1>5 DEF SetPolling, Woken
  <2>2. UNCHANGED <<poll, spent>> /\ (live' = live \/ (live = "off" /\ live' = "top"))
    BY <1>5, <2>1 DEF SetPolling, StartLive
  <2> QED
    BY <2>1, <2>2 DEF TypeInv, TypeOK
<1>7. CASE Drained
  BY <1>7 DEF Drained
<1>8. CASE Advertisement
  <2>1. UNCHANGED <<options, drain, patience>>
    BY <1>8 DEF Advertisement
  <2>2. ~polling_enabled
    BY <2>1
  <2>3. /\ UNCHANGED <<poll, spent>> /\ sleep' \in {0, sleep}
        /\ live' = live \/ (live = "off" /\ live' = "top")
    BY <1>8, <2>2 DEF Advertisement, StartLive, Woken, SchedulePoll, Schedules
  <2> QED
    BY <2>1, <2>3, Waits DEF options, TypeInv, TypeOK
<1>9. CASE Unavailable
  <2>1. UNCHANGED <<options, drain, patience, poll, live, spent>> /\ sleep' \in {0, sleep}
    BY <1>9 DEF Unavailable
  <2> QED
    BY <2>1, Waits DEF options, TypeInv, TypeOK
<1>10. CASE Tick
  <2>1. /\ patience # None /\ patience' = patience - 1 /\ sleep' = Down(sleep)
        /\ spent' = (IF InTransaction THEN spent + 1 ELSE spent)
        /\ UNCHANGED <<options, poll, live, drain>>
    BY <1>10 DEF Tick
  <2>2. ~(drain /\ LockFree) /\ ~(live = "holding" /\ sleep = 0)
    BY <1>10 DEF Tick, Urgent
  <2>3. InTransaction \/ live = "holding"
    BY <2>1, <2>2 DEF LockFree, Linked
  <2>4. ~(InTransaction /\ live = "holding")
    BY DEF StormInv, Linked
  <2> QED
    BY <2>1, <2>2, <2>3, <2>4, Waits DEF Down, options, TypeInv, TypeOK
<1>6. CASE UNCHANGED vars
  BY <1>6 DEF vars, options, liveVars, history
<1> QED
  BY <1>1, <1>2, <1>3, <1>4, <1>5, <1>6, <1>7, <1>8, <1>9, <1>10 DEF Next, User

\* PInv holds in every reachable state.
THEOREM PollInvariance == Spec => []PInv
<1>1. Init => PInv
  BY InitPoll
<1>2. PInv /\ [Next]_vars => PInv'
  BY PInvInductive
<1> QED
  BY <1>1, <1>2, PTL DEF Spec

\* No undisturbed poll is late, for any interval and backoff (_async_update_data).
THEOREM PollsAreOnTime == Spec => []PolledOnTime
<1>1. PInv => PolledOnTime
  BY DEF PInv, SlackInv, PolledOnTime
<1> QED
  BY <1>1, PollInvariance, PTL

\* Lost images never make the live loop connect a third time in a row
\* (_async_live_session).
THEOREM NoStorm == Spec => []NoConnectStorm
<1>1. PInv => NoConnectStorm
  BY DEF PInv, TypeInv, TypeOK, StormInv, NoConnectStorm
<1> QED
  BY <1>1, PollInvariance, PTL

\* Every variable keeps its type, and every wait its bound.
THEOREM PollTypes == Spec => []TypeOK
<1>1. PInv => TypeOK
  BY DEF PInv, TypeInv
<1> QED
  BY <1>1, PollInvariance, PTL

\* A call that pauses polling has the lock after the step in progress, and what a live
\* session that connects or reads adds to it (async_set_polling, _sleep).
THEOREM PausesArePrompt == Spec => []PausePrompt
<1>1. Init => PatienceInv
  BY DEF Init, PatienceInv
<1>2. PInv /\ PatienceInv /\ [Next]_vars => PatienceInv'
  BY PatienceInductive DEF PInv
<1>3. PInv /\ PatienceInv => PausePrompt
  BY StepLeftType, Waits DEF PInv, TypeInv, TypeOK, PatienceInv, PausePrompt
<1> QED
  BY <1>1, <1>2, <1>3, PollInvariance, PTL DEF Spec

LEMMA BeginsWithGateOpen ==
  ASSUME [Next]_vars, poll # "reading", poll' = "reading"
  PROVE  gate' = 0
<1>1. CASE Refresh
  BY <1>1 DEF Refresh, TimerFires, RefreshInLiveMode, RefreshDeclines, RefreshTooEarly, Refreshed, RefreshReads, MayRead,
     ReadSucceeds, ReadFails
<1>2. CASE Live
  BY <1>2 DEF Live, LiveTop, LiveExits, LiveNaps, LiveConnects, LiveConnected, LiveImageRead,
     LiveImageFails, LiveReads, LiveHeld, LiveFails, LiveWakes
<1>3. CASE User
  <2>1. CASE ShowForm
    BY <2>1 DEF ShowForm
  <2>2. CASE \E i \in Intervals, j \in LiveIntervals, l \in BOOLEAN : SubmitForm(i, j, l)
    BY <2>2 DEF SubmitForm, OptionsUpdated, SchedulePoll, Schedules
  <2>3. CASE \E enabled \in BOOLEAN : SetPolling(enabled)
    BY <2>3 DEF SetPolling, SchedulePoll, Schedules
  <2> QED
    BY <1>3, <2>1, <2>2, <2>3 DEF User
<1>4. CASE Drained
  BY <1>4 DEF Drained
<1>5. CASE Advertisement
  BY <1>5 DEF Advertisement, SchedulePoll, Schedules
<1>6. CASE Unavailable \/ Tick \/ UNCHANGED vars
  BY <1>6 DEF Unavailable, Tick, vars
<1> QED
  BY <1>1, <1>2, <1>3, <1>4, <1>5, <1>6 DEF Next

\* Two polls keep the least interval, whatever options, modes, timers and
\* advertisements do in between (_async_schedule_poll, _async_update_data).
THEOREM PollsAreNotHurried == Spec => NeverHurried
<1>1. PInv /\ PInv' /\ [Next]_vars =>
        [poll # "reading" /\ poll' = "reading" => rested' >= MinInterval]_vars
  <2> SUFFICES ASSUME PInv', [Next]_vars, poll # "reading", poll' = "reading"
               PROVE  rested' >= MinInterval
    OBVIOUS
  <2>1. gate' = 0
    BY BeginsWithGateOpen
  <2> QED
    BY <2>1, ScheduleAssumption DEF PInv, TypeInv, RestInv
<1> QED
  BY <1>1, PollInvariance, PTL DEF Spec, NeverHurried

\* Neither an options form nor anything else moves the maintenance switch
\* (config_flow.py's MicroAirOptionsFlow).
THEOREM SwitchMovesItself == Spec => PollingBySwitchOnly
<1>1. [Next]_vars =>
        [polling_enabled' # polling_enabled => ~drain /\ drain' /\ form' = form]_vars
  <2> SUFFICES ASSUME [Next]_vars, polling_enabled' # polling_enabled
               PROVE  ~drain /\ drain' /\ form' = form
    OBVIOUS
  <2>1. CASE Refresh
    BY <2>1 DEF Refresh, TimerFires, RefreshInLiveMode, RefreshDeclines, RefreshTooEarly, Refreshed, RefreshReads,
       ReadSucceeds, ReadFails, NextPoll, options
  <2>2. CASE Live
    BY <2>2 DEF Live, LiveTop, LiveExits, LiveNaps, LiveConnects, LiveConnected, LiveImageRead,
       LiveImageFails, LiveReads, LiveHeld, LiveFails, LiveWakes, options
  <2>3. CASE User
    BY <2>3 DEF User, ShowForm, SubmitForm, SetPolling
  <2>4. CASE Drained \/ Advertisement \/ Unavailable \/ Tick \/ UNCHANGED vars
    BY <2>4 DEF Drained, Advertisement, Unavailable, Tick, vars, options
  <2> QED
    BY <2>1, <2>2, <2>3, <2>4 DEF Next
<1> QED
  BY <1>1, PTL DEF Spec, PollingBySwitchOnly
===============================================================================
