--------------------------- MODULE CoordinatorProofs ---------------------------
(***************************************************************************)
(* Proofs about Coordinator: who holds the link, and when nobody does;     *)
(* types, success, and that it implements UnitAccess.                      *)
(*                                                                         *)
(* Almost every step moves one coroutine p to one place l.  LockKept,      *)
(* LockTaken and LockLeft say when such a move preserves LockInv, and      *)
(* MoveKeeps when it preserves the rest of the inductive invariant; a step *)
(* is then checked against their hypotheses.                               *)
(***************************************************************************)
EXTENDS Coordinator, SequenceTheorems, TLAPS

\* The lock and the open transaction are one thing: whoever holds the lock
\* across a step has the only transaction open, and stands where it is used.
LockInv ==
  /\ pc \in [Procs -> Places]
  /\ holder \in Procs \cup {None}
  /\ linked = IF holder = None THEN {} ELSE {holder}
  /\ \A p \in Procs : p \in linked <=> pc[p] \in LinkedAt

\* async_set_polling(False) has returned, and polling is off since.
PauseInv == quiet => ~polling_enabled /\ linked = {}

\* Where async_shutdown stands, and what it has ended by then.
StopInv ==
  /\ stopping \in BOOLEAN
  /\ stopping <=> pc["stop"] # "idle"
  /\ pc["stop"] \in {"queued", "done"} => pc["poll"] = "idle" /\ pc["live"] = "idle"
  /\ pc["stop"] = "done" => linked = {} /\ ~timer

\* Only async_shutdown cancels a task, and the live loop is never missing.
LoopInv ==
  /\ LiveLoopRuns
  /\ \A p \in Procs : pc[p] = "closing" => stopping

RestInv == PauseInv /\ StopInv /\ LoopInv
IInv == LockInv /\ RestInv

LEMMA InitInv == Init => IInv
BY DEF Init, IInv, RestInv, LockInv, PauseInv, StopInv, LoopInv, LiveLoopRuns,
       Procs, Refreshers, Places, LinkedAt, None

LEMMA ProcNames ==
  /\ None \notin Procs
  /\ {"poll", "timer", "live", "gate", "write", "stop"} = Procs
BY DEF Procs, Refreshers, None

-------------------------------------------------------------------------------
(* When the move of one coroutine preserves the invariant                   *)

LEMMA LockKept ==
  ASSUME LockInv, NEW p \in Procs, NEW l \in Places, Goto(p, l),
         UNCHANGED <<holder, linked>>, pc[p] \in LinkedAt <=> l \in LinkedAt
  PROVE  LockInv'
BY DEF LockInv, Goto

LEMMA LockTaken ==
  ASSUME LockInv, NEW p \in Procs, NEW l \in LinkedAt, Goto(p, l),
         holder = None, Link(p)
  PROVE  LockInv'
BY ProcNames DEF LockInv, Goto, Link, Places

LEMMA LockLeft ==
  ASSUME LockInv, NEW p \in Procs, NEW l \in Places \ LinkedAt, Goto(p, l),
         pc[p] \in LinkedAt, Unlink(p)
  PROVE  LockInv'
<1>1. p \in linked /\ holder = p /\ linked = {p}
  BY DEF LockInv
<1>2. linked' = {} /\ holder' = None
  BY <1>1 DEF Unlink
<1>3. pc' \in [Procs -> Places]
  BY DEF LockInv, Goto
<1>4. \A q \in Procs : pc'[q] \notin LinkedAt
  BY <1>1 DEF LockInv, Goto
<1> QED
  BY <1>2, <1>3, <1>4 DEF LockInv

\* What a step that is none of the user's changes beside the lock.
Harmless ==
  /\ UNCHANGED <<live_mode, polling_enabled, stopping, notify, quiet>>
  /\ timer' => timer \/ ~stopping \/ linked # {}
  /\ linked' \subseteq linked \/ (polling_enabled /\ ~stopping)

LEMMA MoveKeeps ==
  ASSUME LockInv, RestInv, Harmless,
         NEW p \in Procs, NEW l \in Places \ {"closing"}, Goto(p, l), p # "stop",
         p \in {"poll", "live"} => pc[p] # "idle" \/ ~stopping,
         p = "live" /\ l = "idle" => stopping \/ ~live_mode
  PROVE  RestInv'
<1>0. pc \in [Procs -> Places] /\ pc' = [pc EXCEPT ![p] = l]
  BY DEF LockInv, Goto
<1>1. PauseInv'
  BY DEF RestInv, PauseInv, Harmless
<1>2. pc'["stop"] = pc["stop"]
  BY <1>0, ProcNames
<1>3. pc["stop"] \in {"queued", "done"} => pc'["poll"] = "idle" /\ pc'["live"] = "idle"
  BY <1>0, ProcNames DEF RestInv, StopInv
<1>4. pc["stop"] = "done" => linked' = {} /\ ~timer'
  BY DEF RestInv, StopInv, Harmless
<1>5. StopInv'
  BY <1>2, <1>3, <1>4 DEF RestInv, StopInv, Harmless
<1>6. LiveLoopRuns'
  BY <1>0, ProcNames DEF RestInv, LoopInv, LiveLoopRuns, Harmless
<1>7. \A q \in Procs : pc'[q] = "closing" => stopping'
  BY <1>0 DEF RestInv, LoopInv, Harmless
<1> QED
  BY <1>1, <1>5, <1>6, <1>7 DEF RestInv, LoopInv

-------------------------------------------------------------------------------
(* The coroutines' own steps                                                *)

LEMMA PlaceNames ==
  /\ LinkedAt \subseteq Places
  /\ {"idle", "begin", "queued", "top", "asleep", "gather", "done"}
       \subseteq Places \ LinkedAt
  /\ "closing" \in LinkedAt
  /\ {"reading", "retry", "image", "check", "live read", "holding", "writing"}
       \subseteq LinkedAt \ {"closing"}
BY DEF Places, LinkedAt

\* Whoever stands at a place of an open transaction is in linked.
LEMMA InTransaction ==
  ASSUME LockInv, NEW p \in Procs, pc[p] \in LinkedAt
  PROVE  linked # {}
BY DEF LockInv

LEMMA RefreshStep ==
  ASSUME IInv, NEW p \in Refreshers, Refresh(p)
  PROVE  IInv'
<1> USE DEF IInv
<1>p. p \in Procs /\ p # "stop" /\ p # "live"
  BY DEF Procs, Refreshers
<1> USE DEF options, radio, clock, view, mutex, calls
<1>1. CASE RefreshInLiveMode(p)
  <2>1. Goto(p, "idle") /\ pc[p] = "begin" /\ UNCHANGED <<holder, linked>> /\ Harmless
    BY <1>1 DEF RefreshInLiveMode, Harmless
  <2> QED
    BY <1>p, <2>1, LockKept, MoveKeeps, PlaceNames
<1>2. CASE RefreshQueues(p)
  <2>1. Goto(p, "queued") /\ pc[p] = "begin" /\ UNCHANGED <<holder, linked>> /\ Harmless
    BY <1>2 DEF RefreshQueues, Wait, Harmless
  <2> QED
    BY <1>p, <2>1, LockKept, MoveKeeps, PlaceNames
<1>3. CASE RefreshDeclines(p)
  <2>1. /\ Goto(p, "idle") /\ pc[p] \in {"begin", "queued"}
        /\ UNCHANGED <<holder, linked>> /\ Harmless
    BY <1>3 DEF RefreshDeclines, RefreshAcquires, Acquires, PassThrough, Harmless
  <2> QED
    BY <1>p, <2>1, LockKept, MoveKeeps, PlaceNames
<1>4. CASE RefreshTooEarly(p)
  <2>1. /\ Goto(p, "idle") /\ pc[p] \in {"begin", "queued"}
        /\ UNCHANGED <<holder, linked>> /\ Harmless
    BY <1>4 DEF RefreshTooEarly, RefreshAcquires, Acquires, PassThrough, Harmless
  <2> QED
    BY <1>p, <2>1, LockKept, MoveKeeps, PlaceNames
<1>5. CASE RefreshReads(p)
  <2>1. /\ Goto(p, "reading") /\ pc[p] \in {"begin", "queued"}
        /\ holder = None /\ Link(p) /\ Harmless
    BY <1>5 DEF RefreshReads, RefreshAcquires, Acquires, Harmless
  <2> QED
    BY <1>p, <2>1, LockTaken, MoveKeeps, PlaceNames
<1>6. CASE ReadSucceeds(p) \/ RetryEnds(p) \/ ReadFails(p)
  <2>1. Goto(p, "idle") /\ Unlink(p) /\ pc[p] \in {"reading", "retry"}
    BY <1>6 DEF ReadSucceeds, RetryEnds, ReadFails, FinishRead
  <2>2. linked # {}
    BY <1>p, <2>1, InTransaction, PlaceNames
  <2>3. Harmless
    BY <1>6, <2>2 DEF ReadSucceeds, RetryEnds, ReadFails, FinishRead, Unlink, Harmless
  <2> QED
    BY <1>p, <2>1, <2>3, LockLeft, MoveKeeps, PlaceNames
<1>7. CASE ReadBootstraps(p)
  <2>1. Goto(p, "retry") /\ pc[p] = "reading" /\ UNCHANGED <<holder, linked>> /\ Harmless
    BY <1>7 DEF ReadBootstraps, Harmless
  <2> QED
    BY <1>p, <2>1, LockKept, MoveKeeps, PlaceNames
<1>8. CASE CancelledCloses(p)
  <2>1. Goto(p, "idle") /\ Unlink(p) /\ pc[p] = "closing"
    BY <1>8 DEF CancelledCloses
  <2>2. linked # {}
    BY <1>p, <2>1, InTransaction, PlaceNames
  <2>3. Harmless
    BY <1>8, <2>2 DEF CancelledCloses, Unlink, Harmless
  <2> QED
    BY <1>p, <2>1, <2>3, LockLeft, MoveKeeps, PlaceNames
<1> QED
  BY <1>1, <1>2, <1>3, <1>4, <1>5, <1>6, <1>7, <1>8 DEF Refresh

LEMMA LiveStep ==
  ASSUME IInv, Live
  PROVE  IInv'
<1> USE DEF IInv
<1>p. "live" \in Procs
  BY ProcNames
<1> USE DEF options, radio, clock, view, mutex, calls
<1>1. CASE LiveExits
  <2>1. /\ Goto("live", "idle") /\ pc["live"] = "top" /\ UNCHANGED <<holder, linked>>
        /\ Harmless /\ (stopping \/ ~live_mode)
    BY <1>1 DEF LiveExits, Harmless
  <2> QED
    BY <1>p, <2>1, LockKept, MoveKeeps, PlaceNames
<1>2. CASE LiveNaps \/ LiveWakes
  <2>1. \E l \in {"asleep", "top"} :
          /\ Goto("live", l) /\ pc["live"] \in {"top", "asleep"}
          /\ UNCHANGED <<holder, linked>> /\ Harmless
    BY <1>2 DEF LiveNaps, LiveWakes, Harmless
  <2> QED
    BY <1>p, <2>1, LockKept, MoveKeeps, PlaceNames
<1>3. CASE LiveQueues \/ LiveDeclines
  <2>1. \E l \in {"queued", "top"} :
          /\ Goto("live", l) /\ pc["live"] \in {"top", "queued"}
          /\ UNCHANGED <<holder, linked>> /\ Harmless
    BY <1>3 DEF LiveQueues, LiveReady, LiveDeclines, Acquires, Wait, PassThrough, Harmless
  <2> QED
    BY <1>p, <2>1, LockKept, MoveKeeps, PlaceNames
<1>4. CASE LiveConnects
  <2>1. PICK l \in {"image", "check"} : Goto("live", l)
    BY <1>4 DEF LiveConnects
  <2>2. pc["live"] \in {"top", "queued"} /\ holder = None /\ Link("live") /\ Harmless
    BY <1>4 DEF LiveConnects, LiveReady, Acquires, Harmless
  <2> QED
    BY <1>p, <2>1, <2>2, LockTaken, MoveKeeps, PlaceNames
<1>5. CASE LiveImageRead \/ LiveHeld
  <2>1. /\ Goto("live", "check") /\ pc["live"] \in {"image", "holding"}
        /\ UNCHANGED <<holder, linked>> /\ Harmless
    BY <1>5 DEF LiveImageRead, LiveHeld, Harmless
  <2> QED
    BY <1>p, <2>1, LockKept, MoveKeeps, PlaceNames
<1>9. CASE LiveContinues
  <2>1. /\ Goto("live", "live read") /\ pc["live"] = "check"
        /\ UNCHANGED <<holder, linked>> /\ Harmless
    BY <1>9 DEF LiveContinues, Harmless
  <2> QED
    BY <1>p, <2>1, LockKept, MoveKeeps, PlaceNames
<1>6. CASE LiveReads
  <2>1. Goto("live", "holding") /\ pc["live"] = "live read" /\ UNCHANGED <<holder, linked>>
    BY <1>6 DEF LiveReads
  <2>2. linked # {}
    BY <1>p, <2>1, InTransaction, PlaceNames
  <2>3. Harmless
    BY <1>6, <2>2 DEF LiveReads, Publish, Harmless
  <2> QED
    BY <1>p, <2>1, <2>3, LockKept, MoveKeeps, PlaceNames
<1>7. CASE LiveImageFails \/ LiveEnds
  <2>1. /\ Goto("live", "top") /\ pc["live"] \in {"image", "check"}
        /\ Unlink("live") /\ Harmless
    BY <1>7 DEF LiveImageFails, LiveEnds, Unlink, Harmless
  <2> QED
    BY <1>p, <2>1, LockLeft, MoveKeeps, PlaceNames
<1>10. CASE LiveFails
  <2>1. /\ Goto("live", "asleep") /\ pc["live"] \in {"image", "check", "live read"}
        /\ Unlink("live") /\ Harmless
    BY <1>10 DEF LiveFails, Unlink, Harmless
  <2> QED
    BY <1>p, <2>1, LockLeft, MoveKeeps, PlaceNames
<1>8. CASE CancelledCloses("live")
  <2>1. Goto("live", "idle") /\ Unlink("live") /\ pc["live"] = "closing" /\ Harmless
    BY <1>8 DEF CancelledCloses, Unlink, Harmless, Refreshers
  <2>2. stopping
    BY <1>p, <2>1 DEF RestInv, LoopInv
  <2> QED
    BY <1>p, <2>1, <2>2, LockLeft, MoveKeeps, PlaceNames
<1> QED
  BY <1>1, <1>2, <1>3, <1>4, <1>5, <1>6, <1>7, <1>8, <1>9, <1>10 DEF Live

LEMMA WriteStep ==
  ASSUME IInv, Write
  PROVE  IInv'
<1> USE DEF IInv
<1>p. "write" \in Procs
  BY ProcNames
<1> USE DEF options, radio, clock, view, mutex, calls
<1>1. CASE WriteQueues \/ WriteDeclines
  <2>1. \E l \in {"queued", "idle"} :
          /\ Goto("write", l) /\ pc["write"] \in {"idle", "queued"}
          /\ UNCHANGED <<holder, linked>> /\ Harmless
    BY <1>1 DEF WriteQueues, WriteReady, WriteDeclines, Acquires, Wait, PassThrough, Harmless
  <2> QED
    BY <1>p, <2>1, LockKept, MoveKeeps, PlaceNames
<1>2. CASE WriteConnects
  <2>1. Goto("write", "writing") /\ holder = None /\ Link("write") /\ Harmless
    BY <1>2 DEF WriteConnects, Acquires, Harmless
  <2> QED
    BY <1>p, <2>1, LockTaken, MoveKeeps, PlaceNames
<1>3. CASE WriteStored \/ WriteEnds
  <2>1. Goto("write", "idle") /\ pc["write"] = "writing" /\ Unlink("write")
    BY <1>3 DEF WriteStored, WriteEnds
  <2>2. linked # {}
    BY <1>p, <2>1, InTransaction, PlaceNames
  <2>3. Harmless
    BY <1>3, <2>2 DEF WriteStored, WriteEnds, Publish, Unlink, Harmless
  <2> QED
    BY <1>p, <2>1, <2>3, LockLeft, MoveKeeps, PlaceNames
<1> QED
  BY <1>1, <1>2, <1>3 DEF Write

-------------------------------------------------------------------------------
(* Calls, callbacks and the clock                                           *)

LEMMA StayKeeps ==
  ASSUME IInv, Harmless, UNCHANGED <<holder, linked, pc>>
  PROVE  IInv'
<1>1. LockInv'
  BY DEF IInv, LockInv
<1>2. PauseInv'
  BY DEF IInv, RestInv, PauseInv, Harmless
<1>3. StopInv'
  BY DEF IInv, RestInv, StopInv, Harmless
<1>4. LoopInv'
  BY DEF IInv, RestInv, LoopInv, LiveLoopRuns, Harmless
<1> QED
  BY <1>1, <1>2, <1>3, <1>4 DEF IInv, RestInv

\* Scheduling a poll changes nothing, or moves the idle poll task; and so does
\* starting the live task.
LEMMA PollStarts ==
  ASSUME NEW pcs, NEW enabled, NEW heard, NEW closed
  PROVE  \/ WithPoll(pcs, enabled, heard, closed) = pcs
         \/ /\ ~stopping /\ pcs["poll"] = "idle"
            /\ WithPoll(pcs, enabled, heard, closed) = [pcs EXCEPT !["poll"] = "begin"]
BY DEF WithPoll

LEMMA LiveStarts ==
  ASSUME NEW pcs
  PROVE  \/ WithLive(pcs) = pcs /\ (stopping \/ pcs["live"] # "idle")
         \/ /\ ~stopping /\ pcs["live"] = "idle"
            /\ WithLive(pcs) = [pcs EXCEPT !["live"] = "top"]
BY DEF WithLive

LEMMA AdvertisementStep ==
  ASSUME IInv, Advertisement
  PROVE  IInv'
<1> USE DEF IInv, options, clock, view, mutex, calls
<1>1. Harmless /\ UNCHANGED <<holder, linked>>
  BY DEF Advertisement, Harmless
<1>2. \/ UNCHANGED pc
      \/ Goto("live", "top") /\ pc["live"] = "idle" /\ ~stopping
      \/ Goto("poll", "begin") /\ pc["poll"] = "idle" /\ ~stopping
  <2>1. CASE stopping
    BY <2>1 DEF Advertisement
  <2>2. CASE ~stopping /\ live_mode
    <3>1. pc' = WithLive(pc)
      BY <2>2 DEF Advertisement
    <3> QED
      BY <2>2, <3>1, LiveStarts DEF Goto
  <2>3. CASE ~stopping /\ ~live_mode
    <3>1. pc' = WithPoll(pc, polling_enabled, TRUE, gated)
      BY <2>3 DEF Advertisement
    <3>2. \/ pc' = pc
          \/ ~stopping /\ pc["poll"] = "idle" /\ pc' = [pc EXCEPT !["poll"] = "begin"]
      BY <3>1 DEF WithPoll
    <3> QED
      BY <3>2 DEF Goto
  <2> QED
    BY <2>1, <2>2, <2>3
<1>3. CASE UNCHANGED pc
  BY <1>1, <1>3, StayKeeps
<1>4. CASE Goto("live", "top") /\ pc["live"] = "idle" /\ ~stopping
  BY <1>1, <1>4, LockKept, MoveKeeps, PlaceNames, ProcNames
<1>5. CASE Goto("poll", "begin") /\ pc["poll"] = "idle" /\ ~stopping
  BY <1>1, <1>5, LockKept, MoveKeeps, PlaceNames, ProcNames
<1> QED
  BY <1>2, <1>3, <1>4, <1>5

LEMMA ClockStep ==
  ASSUME IInv, TimerFires \/ GateOpens \/ Unavailable
  PROVE  IInv'
<1> USE DEF IInv, options, clock, radio, view, mutex, calls
<1>1. CASE TimerFires
  <2>1. /\ Goto("timer", "begin") /\ pc["timer"] = "idle"
        /\ UNCHANGED <<holder, linked>> /\ Harmless
    BY <1>1 DEF TimerFires, Harmless
  <2> QED
    BY <2>1, LockKept, MoveKeeps, PlaceNames, ProcNames
<1>2. CASE GateOpens \/ Unavailable
  <2>1. Harmless /\ UNCHANGED <<holder, linked, pc>>
    BY <1>2 DEF GateOpens, Unavailable, Harmless
  <2> QED
    BY <2>1, StayKeeps
<1> QED
  BY <1>1, <1>2

\* A change of the options takes effect in the listener; until it has run the
\* live loop may be missing.
LEMMA OptionsStep ==
  ASSUME IInv, OptionsUpdated \/ \E live \in BOOLEAN : SaveOptions(live)
  PROVE  IInv'
<1> USE DEF IInv, RestInv, options, clock, radio, view, mutex, calls
<1>1. CASE \E live \in BOOLEAN : SaveOptions(live)
  <2>1. /\ notify' /\ UNCHANGED <<holder, linked, pc, stopping, timer, quiet, polling_enabled>>
    BY <1>1 DEF SaveOptions
  <2>2. LockInv' /\ PauseInv'
    BY <2>1 DEF LockInv, PauseInv
  <2>3. StopInv' /\ LoopInv'
    BY <2>1 DEF StopInv, LoopInv, LiveLoopRuns
  <2> QED
    BY <2>2, <2>3
<1>2. CASE OptionsUpdated
  <2>1. UNCHANGED <<holder, linked, live_mode, polling_enabled, stopping, timer, quiet>>
    BY <1>2 DEF OptionsUpdated
  <2>2. pc \in [Procs -> Places]
    BY DEF LockInv
  <2>3. \/ UNCHANGED pc /\ (live_mode => stopping \/ pc["live"] # "idle")
        \/ Goto("live", "top") /\ pc["live"] = "idle" /\ ~stopping /\ live_mode
        \/ Goto("poll", "begin") /\ pc["poll"] = "idle" /\ ~stopping /\ ~live_mode
    <3>1. CASE live_mode
      <4>1. pc' = WithLive(pc)
        BY <1>2, <3>1 DEF OptionsUpdated
      <4> QED
        BY <3>1, <4>1, LiveStarts DEF Goto
    <3>2. CASE ~live_mode
      <4>1. pc' = WithPoll(pc, polling_enabled, powered, gated)
        BY <1>2, <3>2 DEF OptionsUpdated
      <4> QED
        BY <3>2, <4>1, PollStarts DEF Goto
    <3> QED
      BY <3>1, <3>2
  <2>4. LockInv'
    <3>1. CASE UNCHANGED pc
      BY <2>1, <3>1 DEF LockInv
    <3> QED
      BY <2>1, <2>3, <3>1, LockKept, PlaceNames, ProcNames
  <2>5. PauseInv'
    BY <2>1 DEF PauseInv
  <2>6. StopInv'
    BY <2>1, <2>2, <2>3, ProcNames DEF StopInv, Goto
  <2>7. LiveLoopRuns'
    BY <2>1, <2>2, <2>3, ProcNames DEF LiveLoopRuns, Goto
  <2>8. \A q \in Procs : pc'[q] = "closing" => stopping'
    BY <2>1, <2>2, <2>3, ProcNames DEF LoopInv, Goto
  <2> QED
    BY <2>4, <2>5, <2>6, <2>7, <2>8 DEF LoopInv
<1> QED
  BY <1>1, <1>2

\* A call of async_set_polling stores the option and asks for the lock.
LEMMA SetPollingStep ==
  ASSUME IInv, NEW enabled \in BOOLEAN, SetPolling(enabled)
  PROVE  IInv'
<1> USE DEF IInv, RestInv, radio, view, mutex
<1>1. /\ Goto("gate", "begin") /\ pc["gate"] = "idle" /\ pc \in [Procs -> Places]
      /\ UNCHANGED <<holder, linked, live_mode, stopping, timer>>
      /\ ~quiet'
      /\ notify' = (notify \/ enabled # polling_enabled)
  BY DEF SetPolling, LockInv
<1>2. /\ pc' \in [Procs -> Places] /\ pc'["gate"] = "begin"
      /\ \A q \in Procs \ {"gate"} : pc'[q] = pc[q]
  BY <1>1, PlaceNames, ProcNames DEF Goto
<1>3. LockInv'
  BY <1>1, LockKept, PlaceNames, ProcNames
<1>4. PauseInv'
  BY <1>1 DEF PauseInv
<1>5. StopInv'
  BY <1>1, <1>2, ProcNames DEF StopInv
<1>6. LoopInv'
  BY <1>1, <1>2, ProcNames DEF LoopInv, LiveLoopRuns
<1> QED
  BY <1>3, <1>4, <1>5, <1>6

LEMMA SetPollingQueuesStep ==
  ASSUME IInv, SetPollingQueues
  PROVE  IInv'
<1>1. /\ Goto("gate", "queued") /\ pc["gate"] = "begin"
      /\ UNCHANGED <<holder, linked>> /\ Harmless
  BY DEF SetPollingQueues, Wait, Harmless, options, clock, calls
<1> QED
  BY <1>1, LockKept, MoveKeeps, PlaceNames, ProcNames DEF IInv

\* The gate coroutine is granted the lock: nobody is linked then.
LEMMA SetPollingReturnsStep ==
  ASSUME IInv, SetPollingReturns
  PROVE  IInv'
<1> USE DEF IInv, RestInv, radio, view, options
<1>1. /\ holder = None /\ pc["gate"] \in {"begin", "queued"} /\ pc \in [Procs -> Places]
      /\ UNCHANGED <<holder, linked, live_mode, polling_enabled, stopping, timer, notify>>
      /\ quiet' = ~polling_enabled
  BY DEF SetPollingReturns, Acquires, PassThrough, LockInv
<1> DEFINE pcs == [pc EXCEPT !["gate"] = "idle"]
<1>2. pcs \in [Procs -> Places] /\ \A q \in Procs : q # "gate" => pcs[q] = pc[q]
  BY <1>1, PlaceNames
<1>3. \/ pc' = pcs
      \/ ~stopping /\ pcs["poll"] = "idle" /\ pc' = [pcs EXCEPT !["poll"] = "begin"]
  BY DEF SetPollingReturns, WithPoll
<1>4. /\ pc' \in [Procs -> Places]
      /\ \A q \in Procs : q \notin {"gate", "poll"} => pc'[q] = pc[q]
      /\ pc'["gate"] = "idle"
      /\ \/ pc'["poll"] = pc["poll"]
         \/ ~stopping /\ pc["poll"] = "idle" /\ pc'["poll"] = "begin"
  <2>1. pcs["gate"] = "idle" /\ pcs["poll"] = pc["poll"]
    BY <1>1, <1>2, ProcNames
  <2> HIDE DEF pcs
  <2>2. CASE pc' = pcs
    BY <1>2, <2>1, <2>2
  <2>3. CASE ~stopping /\ pcs["poll"] = "idle" /\ pc' = [pcs EXCEPT !["poll"] = "begin"]
    BY <1>2, <2>1, <2>3, ProcNames, PlaceNames
  <2> QED
    BY <1>3, <2>2, <2>3
<1>5. LockInv'
  <2>1. \A q \in Procs : pc'[q] \in LinkedAt <=> pc[q] \in LinkedAt
    BY <1>1, <1>4, PlaceNames
  <2> QED
    BY <1>1, <1>4, <2>1 DEF LockInv
<1>6. PauseInv'
  BY <1>1 DEF PauseInv, LockInv
<1>7. StopInv'
  BY <1>1, <1>4, ProcNames DEF StopInv
<1>8. LoopInv'
  BY <1>1, <1>4, ProcNames DEF LoopInv, LiveLoopRuns
<1> QED
  BY <1>5, <1>6, <1>7, <1>8

LEMMA StopBeginsStep ==
  ASSUME IInv, StopBegins
  PROVE  IInv'
<1> USE DEF IInv, RestInv, options, radio, view
<1>1. /\ pc \in [Procs -> Places] /\ ~stopping /\ stopping'
      /\ stopping' \in BOOLEAN
      /\ UNCHANGED <<holder, linked, live_mode, polling_enabled, notify, quiet>>
  BY DEF StopBegins, LockInv
<1>2. pc["stop"] = "idle"
  BY <1>1 DEF StopInv
<1>3. /\ pc' \in [Procs -> Places] /\ pc'["stop"] = "gather"
      /\ \A q \in {"timer", "gate", "write"} : pc'[q] = pc[q]
      /\ \A q \in {"poll", "live"} : pc'[q] = AfterCancel(q)
  BY <1>1, ProcNames, PlaceNames DEF StopBegins, AfterCancel
<1>4. LockInv'
  <2>1. \A q \in {"poll", "live"} : q \in linked <=> AfterCancel(q) \in LinkedAt
    BY PlaceNames DEF AfterCancel
  <2>2. \A q \in {"timer", "gate", "write"} : q \in linked <=> pc'[q] \in LinkedAt
    BY <1>3, ProcNames DEF LockInv
  <2>3. "stop" \notin linked /\ pc'["stop"] \notin LinkedAt
    BY <1>2, <1>3, ProcNames, PlaceNames DEF LockInv
  <2>4. \A q \in Procs : q \in linked <=> pc'[q] \in LinkedAt
    BY <1>3, <2>1, <2>2, <2>3, ProcNames
  <2> QED
    BY <1>1, <1>3, <2>4 DEF LockInv
<1>5. PauseInv'
  BY <1>1 DEF PauseInv
<1>6. StopInv'
  BY <1>1, <1>3 DEF StopInv
<1>7. LoopInv'
  BY <1>1 DEF LoopInv, LiveLoopRuns
<1> QED
  BY <1>4, <1>5, <1>6, <1>7

\* The poll and live tasks are gone when async_shutdown asks for the lock, and no
\* transaction is open when it gets it.
LEMMA StopStep ==
  ASSUME IInv, Stop
  PROVE  IInv'
<1> USE DEF IInv, RestInv, options, radio, clock, view, calls
<1>1. PICK l \in {"queued", "done"} : Goto("stop", l)
  BY DEF Stop, StopQueues, StopEnds, Wait
<1>2. /\ pc \in [Procs -> Places]
      /\ pc["stop"] \in {"gather", "queued"}
      /\ UNCHANGED <<holder, linked, live_mode, polling_enabled, stopping, notify, quiet>>
  BY DEF Stop, StopQueues, StopEnds, Gathered, Acquires, Wait, PassThrough, LockInv
<1>3. pc["poll"] = "idle" /\ pc["live"] = "idle"
  BY DEF Stop, StopQueues, StopEnds, Gathered, Acquires, StopInv
<1>4. l = "done" => linked = {} /\ ~timer'
  <2>1. CASE StopQueues
    <3>1. Goto("stop", "queued")
      BY <2>1 DEF StopQueues, Wait
    <3> QED
      BY <1>1, <1>2, <3>1, ProcNames DEF Goto
  <2>2. CASE StopEnds
    BY <2>2 DEF StopEnds, Acquires, LockInv
  <2> QED
    BY <2>1, <2>2 DEF Stop
<1>5. /\ pc' \in [Procs -> Places] /\ pc'["stop"] = l
      /\ \A q \in Procs \ {"stop"} : pc'[q] = pc[q]
  BY <1>1, <1>2, ProcNames, PlaceNames DEF Goto
<1>6. LockInv'
  BY <1>1, <1>2, LockKept, PlaceNames, ProcNames
<1>7. PauseInv'
  BY <1>2 DEF PauseInv
<1>8. StopInv'
  BY <1>1, <1>2, <1>3, <1>4, <1>5, ProcNames DEF StopInv
<1>9. LoopInv'
  BY <1>1, <1>2, <1>5, ProcNames DEF LoopInv, LiveLoopRuns
<1> QED
  BY <1>6, <1>7, <1>8, <1>9

-------------------------------------------------------------------------------
(* The theorems                                                             *)

LEMMA StepInv == IInv /\ [Next]_vars => IInv'
<1> SUFFICES ASSUME IInv, [Next]_vars PROVE IInv'
  OBVIOUS
<1>1. CASE \E p \in Refreshers : Refresh(p)
  BY <1>1, RefreshStep
<1>2. CASE Live \/ Write \/ Stop
  BY <1>2, LiveStep, WriteStep, StopStep
<1>8. CASE Gate
  BY <1>8, SetPollingQueuesStep, SetPollingReturnsStep DEF Gate
<1>3. CASE OptionsUpdated \/ \E live \in BOOLEAN : SaveOptions(live)
  BY <1>3, OptionsStep
<1>4. CASE \E enabled \in BOOLEAN : SetPolling(enabled)
  BY <1>4, SetPollingStep
<1>5. CASE StopBegins
  BY <1>5, StopBeginsStep
<1>6. CASE TimerFires \/ GateOpens \/ Advertisement \/ Unavailable
  BY <1>6, ClockStep, AdvertisementStep
<1>7. CASE UNCHANGED vars
  <2>1. Harmless /\ UNCHANGED <<holder, linked, pc>>
    BY <1>7 DEF vars, options, clock, mutex, calls, Harmless
  <2> QED
    BY <2>1, StayKeeps
<1> QED
  BY <1>1, <1>2, <1>3, <1>4, <1>5, <1>6, <1>7, <1>8 DEF Next, User

LEMMA Inductive == Spec => []IInv
BY InitInv, StepInv, PTL DEF Spec

\* However the six coroutines interleave, the unit never has two transactions
\* open, and the one that is open belongs to the holder of the lock.
THEOREM OneLink == Spec => []ExclusiveLink
<1>1. IInv => ExclusiveLink
  BY DEF IInv, LockInv, ExclusiveLink
<1> QED
  BY <1>1, Inductive, PTL

\* async_set_polling(False) does what it promises: between its return and the
\* next call no coroutine uses the unit, whatever was in flight or waiting.
THEOREM PausedMeansQuiet == Spec => []MaintenanceQuiet
<1>1. IInv => MaintenanceQuiet
  BY DEF IInv, RestInv, PauseInv, MaintenanceQuiet
<1> QED
  BY <1>1, Inductive, PTL

\* async_shutdown leaves nothing behind: no transaction, no timer, no task.
THEOREM StoppedMeansQuiet == Spec => []StoppedQuiet
<1>1. IInv => StoppedQuiet
  BY DEF IInv, RestInv, StopInv, StoppedQuiet
<1> QED
  BY <1>1, Inductive, PTL

\* The live loop is never missing in live mode, however toggles and exits cross.
THEOREM LiveLoopStays == Spec => []LiveLoopRuns
<1>1. IInv => LiveLoopRuns
  BY DEF IInv, RestInv, LoopInv
<1> QED
  BY <1>1, Inductive, PTL

-------------------------------------------------------------------------------
(* The queue of the lock                                                    *)

\* Who waits stands at "queued", and waits once.
QueueInv ==
  /\ queue \in Seq(Procs)
  /\ \A i \in 1..Len(queue) : pc[queue[i]] = "queued"
  /\ \A i, j \in 1..Len(queue) : queue[i] = queue[j] => i = j

\* What one coroutine p may do to it: nothing, unless it waits; join; or be served.
QueueMove(p) ==
  /\ \A q \in Procs \ {p} : pc[q] = "queued" => pc'[q] = "queued"
  /\ \/ queue' = queue /\ pc[p] # "queued"
     \/ queue' = Append(queue, p) /\ pc[p] # "queued" /\ pc'[p] = "queued"
     \/ /\ queue' = Rest
        /\ IF pc[p] = "queued" THEN queue # <<>> /\ Head(queue) = p ELSE queue = <<>>

LEMMA QueueMoves ==
  ASSUME QueueInv, NEW p \in Procs, QueueMove(p)
  PROVE  QueueInv'
<1>1. /\ Len(queue) \in Nat /\ \A i \in 1..Len(queue) : queue[i] \in Procs
  BY LenProperties, ElementOfSeq DEF QueueInv
<1>2. CASE queue' = queue /\ pc[p] # "queued"
  BY <1>1, <1>2 DEF QueueInv, QueueMove
<1>3. CASE queue' = Append(queue, p) /\ pc[p] # "queued" /\ pc'[p] = "queued"
  <2>1. /\ queue' \in Seq(Procs) /\ Len(queue') = Len(queue) + 1
        /\ \A i \in 1..Len(queue) : queue'[i] = queue[i]
        /\ queue'[Len(queue) + 1] = p
    BY <1>3, AppendProperties DEF QueueInv
  <2>2. \A i \in 1..Len(queue') : i \in 1..Len(queue) \/ i = Len(queue) + 1
    BY <1>1, <2>1
  <2>3. \A i \in 1..Len(queue) : queue[i] # p
    BY <1>3 DEF QueueInv
  <2> QED
    BY <1>1, <1>3, <2>1, <2>2, <2>3 DEF QueueInv, QueueMove
<1>4. CASE queue' = Rest /\ pc[p] = "queued" /\ queue # <<>> /\ Head(queue) = p
  <2>1. /\ queue' \in Seq(Procs) /\ Len(queue') = Len(queue) - 1
        /\ \A i \in 1..Len(queue') : queue'[i] = queue[i + 1]
        /\ queue[1] = p /\ Len(queue) >= 1
    BY <1>1, <1>4, HeadTailProperties, EmptySeq DEF QueueInv, Rest
  <2>2. \A i \in 1..Len(queue') : i + 1 \in 1..Len(queue) /\ queue[i + 1] # p
    BY <1>1, <2>1 DEF QueueInv
  <2>3. \A i \in 1..Len(queue') : pc'[queue'[i]] = "queued"
    BY <1>1, <2>1, <2>2 DEF QueueInv, QueueMove
  <2>4. \A i, j \in 1..Len(queue') : queue'[i] = queue'[j] => i = j
    BY <1>1, <2>1, <2>2 DEF QueueInv
  <2> QED
    BY <2>1, <2>3, <2>4 DEF QueueInv
<1>5. CASE queue' = Rest /\ queue = <<>>
  <2>1. queue' = <<>> /\ Len(queue') = 0
    BY <1>5 DEF Rest
  <2> QED
    BY <1>5, <2>1 DEF QueueInv
<1> QED
  BY <1>2, <1>3, <1>4, <1>5 DEF QueueMove

\* Whoever leaves the queue without being served is in it no more; the others keep
\* their order.
LEMMA WithoutOne ==
  ASSUME NEW s \in Seq(Procs), NEW p,
         \A i, j \in 1..Len(s) : s[i] = s[j] => i = j
  PROVE  /\ Without(p, s) \in Seq(Procs)
         /\ \A i \in 1..Len(Without(p, s)) :
              Without(p, s)[i] # p /\ \E k \in 1..Len(s) : Without(p, s)[i] = s[k]
         /\ \A i, j \in 1..Len(Without(p, s)) : Without(p, s)[i] = Without(p, s)[j] => i = j
<1>1. DOMAIN s = 1..Len(s) /\ Len(s) \in Nat
  BY LenProperties
<1>2. CASE p \notin {s[i] : i \in DOMAIN s}
  BY <1>1, <1>2 DEF Without
<1>3. CASE p \in {s[i] : i \in DOMAIN s}
  <2> DEFINE k == CHOOSE i \in DOMAIN s : s[i] = p
             a == SubSeq(s, 1, k - 1)
             b == SubSeq(s, k + 1, Len(s))
             t == a \o b
  <2>1. k \in 1..Len(s) /\ s[k] = p
    BY <1>1, <1>3
  <2>2. Without(p, s) = t
    BY <1>3 DEF Without
  <2> HIDE DEF k
  <2>3. /\ a \in Seq(Procs) /\ Len(a) = k - 1
        /\ \A i \in 1..k - 1 : a[i] = s[i]
    <3>1. 1 \in 1..Len(s) + 1 /\ k - 1 \in 0..Len(s)
      BY <1>1, <2>1
    <3> QED
      BY <1>1, <2>1, <3>1, SubSeqProperties
  <2>4. /\ b \in Seq(Procs) /\ Len(b) = Len(s) - k
        /\ \A i \in 1..Len(s) - k : b[i] = s[k + i]
    <3>1. /\ k + 1 \in Int /\ Len(s) \in Int
          /\ \A i \in k + 1..Len(s) : s[i] \in Procs
      BY <1>1, <2>1
    <3>2. /\ b \in Seq(Procs)
          /\ Len(b) = IF k + 1 <= Len(s) THEN Len(s) - (k + 1) + 1 ELSE 0
          /\ \A i \in 1..Len(s) - (k + 1) + 1 : b[i] = s[(k + 1) + i - 1]
      BY <3>1, SubSeqProperties
    <3> HIDE DEF b
    <3>3. \A i \in 1..Len(s) - k : i \in 1..Len(s) - (k + 1) + 1 /\ (k + 1) + i - 1 = k + i
      BY <1>1, <2>1
    <3>4. Len(b) = Len(s) - k
      <4>1. Len(b) = IF k + 1 <= Len(s) THEN Len(s) - (k + 1) + 1 ELSE 0
        BY <3>2
      <4>2. k \in Int /\ Len(s) \in Int /\ k <= Len(s)
        BY <1>1, <2>1
      <4>3. CASE k + 1 <= Len(s)
        BY <4>1, <4>2, <4>3
      <4>4. CASE ~(k + 1 <= Len(s))
        BY <4>1, <4>2, <4>4
      <4> QED
        BY <4>3, <4>4
    <3>5. ASSUME NEW i \in 1..Len(s) - k PROVE b[i] = s[k + i]
      <4>1. b[i] = s[(k + 1) + i - 1]
        BY <3>2, <3>3
      <4> QED
        BY <3>3, <4>1
    <3> QED
      BY <3>2, <3>4, <3>5
  <2> HIDE DEF a, b
  <2>5. /\ t \in Seq(Procs) /\ Len(t) = Len(s) - 1
        /\ \A i \in 1..Len(s) - 1 : t[i] = IF i < k THEN s[i] ELSE s[i + 1]
    <3>1. /\ t \in Seq(Procs) /\ Len(t) = Len(a) + Len(b)
          /\ \A i \in 1..Len(a) + Len(b) :
               t[i] = IF i <= Len(a) THEN a[i] ELSE b[i - Len(a)]
      BY <2>3, <2>4, ConcatProperties
    <3> HIDE DEF t
    <3>2. Len(t) = Len(s) - 1
      BY <1>1, <2>1, <2>3, <2>4, <3>1
    <3>3. ASSUME NEW i \in 1..Len(s) - 1, i < k PROVE t[i] = s[i]
      <4>1. i \in 1..Len(a) + Len(b) /\ i <= Len(a) /\ i \in 1..k - 1
        BY <1>1, <2>1, <2>3, <2>4, <3>3
      <4>2. t[i] = a[i]
        BY <3>1, <4>1
      <4> QED
        BY <2>3, <4>1, <4>2
    <3>4. ASSUME NEW i \in 1..Len(s) - 1, ~(i < k) PROVE t[i] = s[i + 1]
      <4>1. /\ i \in 1..Len(a) + Len(b) /\ ~(i <= Len(a))
            /\ i - Len(a) \in 1..Len(s) - k /\ k + (i - Len(a)) = i + 1
        BY <1>1, <2>1, <2>3, <2>4, <3>4
      <4>2. t[i] = b[i - Len(a)]
        BY <3>1, <4>1
      <4>3. b[i - Len(a)] = s[k + (i - Len(a))]
        BY <2>4, <4>1
      <4> QED
        BY <4>1, <4>2, <4>3
    <3> QED
      BY <3>1, <3>2, <3>3, <3>4
  <2> HIDE DEF t
  <2>6. \A i \in 1..Len(t) :
          \E m \in 1..Len(s) \ {k} : t[i] = s[m] /\ m = IF i < k THEN i ELSE i + 1
    BY <1>1, <2>1, <2>5
  <2>7. \A i \in 1..Len(t) : t[i] # p /\ \E m \in 1..Len(s) : t[i] = s[m]
    BY <2>1, <2>6
  <2>8. \A i, j \in 1..Len(t) : t[i] = t[j] => i = j
    BY <1>1, <2>1, <2>5, <2>6
  <2> QED
    BY <2>2, <2>5, <2>7, <2>8
<1> QED
  BY <1>2, <1>3

\* async_shutdown starts: the poll and live tasks leave the queue, the rest stays.
LEMMA QueueAtStop ==
  ASSUME IInv, QueueInv, StopBegins
  PROVE  QueueInv'
<1> DEFINE s == Without("poll", queue)
           t == Without("live", s)
<1>1. /\ s \in Seq(Procs)
      /\ \A i \in 1..Len(s) : s[i] # "poll" /\ \E k \in 1..Len(queue) : s[i] = queue[k]
      /\ \A i, j \in 1..Len(s) : s[i] = s[j] => i = j
  BY WithoutOne DEF QueueInv
<1> HIDE DEF s
<1>2. /\ t \in Seq(Procs)
      /\ \A i \in 1..Len(t) : t[i] # "live" /\ \E k \in 1..Len(s) : t[i] = s[k]
      /\ \A i, j \in 1..Len(t) : t[i] = t[j] => i = j
  BY <1>1, WithoutOne
<1>3. queue' = t
  BY DEF StopBegins, s
<1> HIDE DEF t
<1>4. /\ \A q \in Procs \ {"poll", "live", "stop"} : pc'[q] = pc[q]
      /\ pc["stop"] = "idle"
  BY ProcNames DEF IInv, RestInv, LockInv, StopInv, StopBegins
<1>5. ASSUME NEW i \in 1..Len(t) PROVE pc'[t[i]] = "queued"
  <2>1. PICK k \in 1..Len(queue) : t[i] = queue[k] /\ t[i] \notin {"poll", "live"}
    BY <1>1, <1>2
  <2>2. pc[t[i]] = "queued" /\ t[i] \in Procs
    BY <1>2, <2>1, ElementOfSeq DEF QueueInv
  <2> QED
    BY <1>4, <2>1, <2>2
<1> QED
  BY <1>2, <1>3, <1>5 DEF QueueInv

\* A step that moves p to l and the queue with it.
LEMMA GotoMove ==
  ASSUME LockInv, QueueInv, NEW p \in Procs, NEW l, Goto(p, l),
         \/ queue' = queue /\ pc[p] # "queued"
         \/ queue' = Append(queue, p) /\ pc[p] # "queued" /\ l = "queued"
         \/ /\ queue' = Rest
            /\ IF pc[p] = "queued" THEN queue # <<>> /\ Head(queue) = p ELSE queue = <<>>
  PROVE  QueueInv'
<1>1. \A q \in Procs \ {p} : pc[q] = "queued" => pc'[q] = "queued"
  BY DEF LockInv, Goto
<1>2. pc'[p] = l
  BY DEF LockInv, Goto
<1>3. QueueMove(p)
  BY <1>1, <1>2 DEF QueueMove
<1> QED
  BY <1>3, QueueMoves

\* A step that leaves the queue alone and starts a task that was idle, if any.
LEMMA QueueStays ==
  ASSUME LockInv, QueueInv, queue' = queue,
         \A q \in Procs : pc[q] = "queued" => pc'[q] = "queued"
  PROVE  QueueInv'
BY ElementOfSeq DEF QueueInv

LEMMA QueueStep == IInv /\ QueueInv /\ [Next]_vars => QueueInv'
<1> SUFFICES ASSUME IInv, QueueInv, [Next]_vars PROVE QueueInv'
  OBVIOUS
<1> USE DEF IInv, view, mutex, calls
<1>0. pc \in [Procs -> Places]
  BY DEF LockInv
<1>1. ASSUME NEW p \in Refreshers, Refresh(p) PROVE QueueInv'
  <2>p. p \in Procs
    BY DEF Procs
  <2>1. CASE RefreshInLiveMode(p) \/ ReadSucceeds(p) \/ RetryEnds(p) \/ ReadFails(p)
             \/ CancelledCloses(p)
    <3>1. Goto(p, "idle") /\ pc[p] # "queued" /\ queue' = queue
      BY <2>1 DEF RefreshInLiveMode, ReadSucceeds, RetryEnds, ReadFails, FinishRead,
         CancelledCloses, Unlink
    <3> QED
      BY <2>p, <3>1, GotoMove
  <2>2. CASE ReadBootstraps(p)
    BY <2>p, <2>2, GotoMove DEF ReadBootstraps
  <2>3. CASE RefreshQueues(p)
    BY <2>p, <2>3, GotoMove DEF RefreshQueues, Wait
  <2>4. CASE RefreshDeclines(p) \/ RefreshTooEarly(p) \/ RefreshReads(p)
    <3>1. PICK l \in {"idle", "reading"} : Goto(p, l)
      BY <2>4 DEF RefreshDeclines, RefreshTooEarly, RefreshReads
    <3>2. queue' = Rest /\ Acquires(p, pc[p] = "begin" /\ ~live_mode)
      BY <2>4 DEF RefreshDeclines, RefreshTooEarly, RefreshReads, RefreshAcquires,
         PassThrough, Link
    <3> QED
      BY <2>p, <3>1, <3>2, GotoMove DEF Acquires
  <2> QED
    BY <1>1, <2>1, <2>2, <2>3, <2>4 DEF Refresh
<1>2. CASE Live
  <2>p. "live" \in Procs
    BY ProcNames
  <2>1. CASE LiveExits \/ LiveNaps \/ LiveImageRead \/ LiveImageFails \/ LiveContinues
             \/ LiveEnds \/ LiveReads \/ LiveHeld \/ LiveFails \/ LiveWakes
             \/ CancelledCloses("live")
    <3>1. /\ queue' = queue /\ pc["live"] # "queued"
          /\ \E l \in Places : Goto("live", l)
      BY <2>1, PlaceNames DEF LiveExits, LiveNaps, LiveImageRead, LiveImageFails, LiveContinues,
         LiveEnds, LiveReads, LiveHeld, LiveFails, LiveWakes, CancelledCloses, Unlink
    <3> QED
      BY <2>p, <3>1, GotoMove
  <2>2. CASE LiveQueues
    BY <2>p, <2>2, GotoMove DEF LiveQueues, LiveReady, Wait
  <2>3. CASE LiveDeclines \/ LiveConnects
    <3>1. /\ queue' = Rest /\ (Acquires("live", FALSE) \/ Acquires("live", LiveReady))
          /\ \E l \in Places : Goto("live", l)
      BY <2>3, PlaceNames DEF LiveDeclines, LiveConnects, PassThrough, Link
    <3> QED
      BY <2>p, <3>1, GotoMove DEF Acquires
  <2> QED
    BY <1>2, <2>1, <2>2, <2>3 DEF Live
<1>3. CASE Write
  <2>p. "write" \in Procs
    BY ProcNames
  <2>1. CASE WriteQueues
    BY <2>p, <2>1, GotoMove DEF WriteQueues, WriteReady, Wait
  <2>2. CASE WriteDeclines \/ WriteConnects
    <3>1. /\ queue' = Rest /\ Acquires("write", WriteReady)
          /\ \E l \in Places : Goto("write", l)
      BY <2>2, PlaceNames DEF WriteDeclines, WriteConnects, PassThrough, Link
    <3> QED
      BY <2>p, <3>1, GotoMove DEF Acquires
  <2>3. CASE WriteStored \/ WriteEnds
    <3>1. queue' = queue /\ pc["write"] # "queued" /\ Goto("write", "idle")
      BY <2>3 DEF WriteStored, WriteEnds, Unlink
    <3> QED
      BY <2>p, <3>1, GotoMove
  <2> QED
    BY <1>3, <2>1, <2>2, <2>3 DEF Write
<1>4. CASE Stop
  <2>p. "stop" \in Procs
    BY ProcNames
  <2>1. CASE StopQueues
    BY <2>p, <2>1, GotoMove DEF StopQueues, Gathered, Wait
  <2>2. CASE StopEnds
    BY <2>p, <2>2, GotoMove DEF StopEnds, PassThrough, Acquires
  <2> QED
    BY <1>4, <2>1, <2>2 DEF Stop
<1>5. CASE SetPollingReturns
  <2> DEFINE pcs == [pc EXCEPT !["gate"] = "idle"]
  <2>1. /\ queue' = Rest
        /\ IF pc["gate"] = "queued" THEN queue # <<>> /\ Head(queue) = "gate"
                                    ELSE queue = <<>>
        /\ pc' = IF polling_enabled THEN WithPoll(pcs, TRUE, powered, FALSE) ELSE pcs
    BY <1>5 DEF SetPollingReturns, PassThrough, Acquires
  <2>2. pcs \in [Procs -> Places] /\ \A q \in Procs \ {"gate"} : pcs[q] = pc[q]
    BY <1>0, PlaceNames
  <2> HIDE DEF pcs
  <2>3. \A q \in Procs \ {"gate"} : pc[q] = "queued" => pc'[q] = "queued"
    BY <2>1, <2>2 DEF WithPoll
  <2>4. QueueMove("gate")
    BY <2>1, <2>3 DEF QueueMove
  <2> QED
    BY <2>4, QueueMoves, ProcNames
<1>6. CASE OptionsUpdated
  <2>1. queue' = queue /\ \A q \in Procs : pc[q] = "queued" => pc'[q] = "queued"
    BY <1>0, <1>6 DEF OptionsUpdated, WithPoll, WithLive
  <2> QED
    BY <2>1, QueueStays
<1>7. ASSUME NEW enabled \in BOOLEAN, SetPolling(enabled) PROVE QueueInv'
  BY <1>7, GotoMove, ProcNames DEF SetPolling
<1>11. CASE SetPollingQueues
  BY <1>11, GotoMove, ProcNames DEF SetPollingQueues, Wait
<1>8. CASE StopBegins
  BY <1>8, QueueAtStop
<1>9. CASE TimerFires \/ Advertisement
  <2>1. CASE TimerFires
    BY <2>1, GotoMove, ProcNames DEF TimerFires
  <2>2. CASE Advertisement
    <3>1. queue' = queue /\ \A q \in Procs : pc[q] = "queued" => pc'[q] = "queued"
      BY <1>0, <2>2 DEF Advertisement, WithPoll, WithLive
    <3> QED
      BY <3>1, QueueStays
  <2> QED
    BY <1>9, <2>1, <2>2
<1>10. CASE UNCHANGED vars \/ GateOpens \/ Unavailable
            \/ \E live \in BOOLEAN : SaveOptions(live)
  <2>1. queue' = queue /\ pc' = pc
    BY <1>10 DEF vars, GateOpens, Unavailable, SaveOptions
  <2> QED
    BY <2>1, QueueStays
<1> QED
  BY <1>1, <1>2, <1>3, <1>4, <1>5, <1>6, <1>7, <1>8, <1>9, <1>10, <1>11
     DEF Next, User, Gate

-------------------------------------------------------------------------------
(* Types                                                                    *)

\* A set of its own, lest the provers split every flag that a step leaves alone.
Flag == BOOLEAN

LEMMA FlagValues == TRUE \in Flag /\ FALSE \in Flag
BY DEF Flag

FlagInv ==
  /\ live_mode \in Flag /\ polling_enabled \in Flag /\ stopping \in Flag
  /\ present \in Flag /\ powered \in Flag /\ gated \in Flag
  /\ interval \in Flag /\ timer \in Flag
  /\ image \in Flag /\ success \in Flag /\ notify \in Flag
  /\ quiet \in Flag /\ data \in {"none", "live", "full"}

LEMMA FlagStep == FlagInv /\ [Next]_vars => FlagInv'
<1> SUFFICES ASSUME FlagInv, [Next]_vars PROVE FlagInv'
  OBVIOUS
<1> USE DEF FlagInv, options, radio, clock, view, calls
<1>1. ASSUME NEW p \in Refreshers, Refresh(p) PROVE FlagInv'
  <2>1. CASE RefreshInLiveMode(p)
    <3>1. success' \in Flag
      BY <2>1, Zenon DEF RefreshInLiveMode, Flag
    <3> QED
      BY <2>1, <3>1, FlagValues, Zenon DEF RefreshInLiveMode
  <2>2. CASE RefreshQueues(p)
    BY <2>2, FlagValues, Zenon DEF RefreshQueues
  <2>3. CASE RefreshDeclines(p)
    <3>1. timer' \in Flag
      BY <2>3, Zenon DEF RefreshDeclines, Flag
    <3> QED
      BY <2>3, <3>1, FlagValues, Zenon DEF RefreshDeclines
  <2>4. CASE RefreshTooEarly(p)
    BY <2>4, FlagValues, Zenon DEF RefreshTooEarly
  <2>5. CASE RefreshReads(p)
    <3>1. timer' \in Flag
      BY <2>5, Zenon DEF RefreshReads, Flag
    <3> QED
      BY <2>5, <3>1, FlagValues, Zenon DEF RefreshReads
  <2>6. CASE ReadSucceeds(p)
    BY <2>6, FlagValues, Zenon DEF ReadSucceeds, FinishRead
  <2>7. CASE ReadBootstraps(p)
    BY <2>7, FlagValues, Zenon DEF ReadBootstraps
  <2>8. CASE RetryEnds(p)
    <3>1. image' \in Flag
      BY <2>8, Zenon DEF RetryEnds, Flag
    <3> QED
      BY <2>8, <3>1, FlagValues, Zenon DEF RetryEnds, FinishRead
  <2>9. CASE ReadFails(p)
    <3>1. image' \in Flag
      BY <2>9, FlagValues DEF ReadFails
    <3> QED
      BY <2>9, <3>1, FlagValues, Zenon DEF ReadFails
  <2>10. CASE CancelledCloses(p)
    <3>1. timer' \in Flag
      BY <2>10, Zenon DEF CancelledCloses, Rearmed, Flag
    <3> QED
      BY <2>10, <3>1, FlagValues, Zenon DEF CancelledCloses
  <2> QED
    BY <1>1, <2>1, <2>2, <2>3, <2>4, <2>5, <2>6, <2>7, <2>8, <2>9, <2>10 DEF Refresh
<1>2. CASE Live
  <2>1. CASE LiveExits
    BY <2>1, FlagValues, Zenon DEF LiveExits
  <2>2. CASE LiveNaps
    BY <2>2, FlagValues, Zenon DEF LiveNaps
  <2>3. CASE LiveQueues
    BY <2>3, FlagValues, Zenon DEF LiveQueues
  <2>4. CASE LiveDeclines
    BY <2>4, FlagValues, Zenon DEF LiveDeclines
  <2>5. CASE LiveConnects
    <3>1. powered' \in Flag
      BY <2>5, Zenon DEF LiveConnects, Flag
    <3> QED
      BY <2>5, <3>1, FlagValues, Zenon DEF LiveConnects
  <2>6. CASE LiveImageRead
    BY <2>6, FlagValues, Zenon DEF LiveImageRead
  <2>7. CASE LiveImageFails
    BY <2>7, FlagValues, Zenon DEF LiveImageFails
  <2>8. CASE LiveContinues
    BY <2>8, FlagValues, Zenon DEF LiveContinues
  <2>9. CASE LiveEnds
    BY <2>9, FlagValues, Zenon DEF LiveEnds
  <2>10. CASE LiveReads
    BY <2>10, FlagValues, Zenon DEF LiveReads, Publish
  <2>11. CASE LiveHeld
    BY <2>11, FlagValues, Zenon DEF LiveHeld
  <2>12. CASE LiveFails
    BY <2>12, FlagValues, Zenon DEF LiveFails
  <2>13. CASE LiveWakes
    BY <2>13, FlagValues, Zenon DEF LiveWakes
  <2>14. CASE CancelledCloses("live")
    <3>1. timer' \in Flag
      BY <2>14, Zenon DEF CancelledCloses, Rearmed, Flag
    <3> QED
      BY <2>14, <3>1, FlagValues, Zenon DEF CancelledCloses
  <2> QED
    BY <1>2, <2>1, <2>2, <2>3, <2>4, <2>5, <2>6, <2>7, <2>8, <2>9, <2>10, <2>11, <2>12,
       <2>13, <2>14 DEF Live
<1>3. CASE Write \/ Stop
  <2>1. CASE WriteQueues
    BY <2>1, FlagValues, Zenon DEF WriteQueues
  <2>2. CASE WriteDeclines
    BY <2>2, FlagValues, Zenon DEF WriteDeclines
  <2>3. CASE WriteConnects
    BY <2>3, FlagValues, Zenon DEF WriteConnects
  <2>4. CASE WriteStored
    BY <2>4, FlagValues, Zenon DEF WriteStored, Publish
  <2>5. CASE WriteEnds
    <3>1. success' \in Flag
      BY <2>5, Zenon DEF WriteEnds, Flag
    <3> QED
      BY <2>5, <3>1, FlagValues, Zenon DEF WriteEnds
  <2>6. CASE StopQueues
    BY <2>6, FlagValues, Zenon DEF StopQueues
  <2>7. CASE StopEnds
    BY <2>7, FlagValues, Zenon DEF StopEnds
  <2> QED
    BY <1>3, <2>1, <2>2, <2>3, <2>4, <2>5, <2>6, <2>7 DEF Write, Stop
<1>4. CASE Gate \/ OptionsUpdated \/ User
  <2>1. CASE \E live \in BOOLEAN : SaveOptions(live)
    <3>1. live_mode' \in Flag
      BY <2>1, Zenon DEF SaveOptions, Flag
    <3> QED
      BY <2>1, <3>1, FlagValues, Zenon DEF SaveOptions
  <2>2. CASE \E enabled \in BOOLEAN : SetPolling(enabled)
    <3>1. polling_enabled' \in Flag /\ notify' \in Flag /\ interval' \in Flag
      BY <2>2, Zenon DEF SetPolling, Flag
    <3> QED
      BY <2>2, <3>1, FlagValues, Zenon DEF SetPolling
  <2>3. CASE StopBegins
    <3>1. timer' \in Flag
      BY <2>3, Zenon DEF StopBegins, Rearmed, Flag
    <3> QED
      BY <2>3, <3>1, FlagValues, Zenon DEF StopBegins
  <2>4. CASE SetPollingReturns
    <3>1. quiet' \in Flag
      BY <2>4, Zenon DEF SetPollingReturns, Flag
    <3> QED
      BY <2>4, <3>1, FlagValues, Zenon DEF SetPollingReturns
  <2>6. CASE SetPollingQueues
    BY <2>6, FlagValues, Zenon DEF SetPollingQueues
  <2>5. CASE OptionsUpdated
    <3>1. interval' \in Flag
      BY <2>5, Zenon DEF OptionsUpdated, Flag
    <3> QED
      BY <2>5, <3>1, FlagValues, Zenon DEF OptionsUpdated
  <2> QED
    BY <1>4, <2>1, <2>2, <2>3, <2>4, <2>5, <2>6 DEF User, Gate
<1>5. CASE TimerFires \/ GateOpens \/ Advertisement \/ Unavailable \/ UNCHANGED vars
  <2>1. CASE TimerFires
    BY <2>1, FlagValues, Zenon DEF TimerFires
  <2>2. CASE GateOpens
    BY <2>2, FlagValues, Zenon DEF GateOpens
  <2>3. CASE Advertisement
    BY <2>3, FlagValues, Zenon DEF Advertisement
  <2>4. CASE Unavailable
    BY <2>4, FlagValues, Zenon DEF Unavailable
  <2>5. CASE UNCHANGED vars
    BY <2>5, FlagValues, Zenon DEF vars
  <2> QED
    BY <1>5, <2>1, <2>2, <2>3, <2>4, <2>5 DEF vars
<1> QED
  BY <1>1, <1>2, <1>3, <1>4, <1>5 DEF Next

\* Every variable keeps its type, and nobody waits twice for the lock: a task that is
\* scheduled again while it waits, or asks for a lock it waits for, would.
THEOREM CoordinatorTypes == Spec => []TypeOK
<1>1. Init => FlagInv /\ QueueInv
  <2>1. Init => FlagInv
    BY FlagValues, Zenon DEF Init, FlagInv, Flag
  <2>2. Init => QueueInv
    BY DEF Init, QueueInv
  <2> QED
    BY <2>1, <2>2
<1>2. IInv /\ FlagInv /\ QueueInv => TypeOK
  <2> SUFFICES ASSUME LockInv, FlagInv, QueueInv PROVE TypeOK
    BY DEF IInv
  <2>1. linked \subseteq Procs
    BY DEF LockInv
  <2>2. DOMAIN queue = 1..Len(queue)
    BY LenProperties DEF QueueInv
  <2>3. {live_mode, polling_enabled, stopping, present, powered, gated, interval,
         timer, image, success, notify, quiet} \subseteq Flag
    BY Zenon DEF FlagInv
  <2> QED
    BY <2>1, <2>2, <2>3 DEF TypeOK, LockInv, FlagInv, QueueInv, Flag
<1> QED
  BY <1>1, <1>2, Inductive, FlagStep, QueueStep, PTL DEF Spec

-------------------------------------------------------------------------------
(* Fresh success                                                            *)

\* What connect-per-poll mode leaves behind runs out: in live mode nothing arms the
\* timer, sets the interval or schedules a poll anew.
LEMMA LeftoverStep ==
  ASSUME IInv, live_mode, ~Leftover, [Next]_vars, live_mode'
  PROVE  ~Leftover'
<1> DEFINE Still == ~interval' /\ ~timer' /\ pc'["poll"] = "idle" /\ pc'["timer"] = "idle"
<1> SUFFICES Still
  BY DEF Leftover, Refreshers
<1>0. /\ ~interval /\ ~timer /\ pc["poll"] = "idle" /\ pc["timer"] = "idle"
      /\ pc \in [Procs -> Places]
  BY DEF Leftover, Refreshers, IInv, LockInv
<1>g. ASSUME NEW p \in Procs \ Refreshers, NEW l, Goto(p, l)
      PROVE  pc'["poll"] = "idle" /\ pc'["timer"] = "idle"
  BY <1>0, <1>g, ProcNames DEF Goto, Refreshers
<1>p. {"live", "write", "gate", "stop"} = Procs \ Refreshers
  BY DEF Procs, Refreshers
<1> USE DEF clock, view
<1>1. CASE Live
  <2>1. \E l \in Places : Goto("live", l)
    BY <1>1, PlaceNames DEF Live, LiveExits, LiveNaps, LiveQueues, Wait, LiveDeclines, LiveConnects,
       LiveImageRead, LiveImageFails, LiveContinues, LiveEnds, LiveReads, LiveHeld, LiveFails,
       LiveWakes, CancelledCloses
  <2>2. interval' = interval /\ timer' \in {timer, interval}
    BY <1>1 DEF Live, LiveExits, LiveNaps, LiveQueues, LiveDeclines, LiveConnects,
       LiveImageRead, LiveImageFails, LiveContinues, LiveEnds, LiveReads, LiveHeld, LiveFails,
       LiveWakes, CancelledCloses, Publish, Refreshers
  <2>3. ~interval' /\ ~timer'
    BY <1>0, <2>2
  <2> QED
    BY <1>g, <1>p, <2>1, <2>3
<1>2. CASE Write \/ Stop
  <2>1. \E p \in {"write", "stop"} : \E l \in Places : Goto(p, l)
    BY <1>2, PlaceNames DEF Write, WriteQueues, WriteDeclines, WriteConnects, WriteStored, WriteEnds,
       Stop, StopQueues, StopEnds, Wait
  <2>2. interval' = interval /\ (timer' = timer \/ timer' = interval \/ ~timer')
    BY <1>2 DEF Write, WriteQueues, WriteDeclines, WriteConnects, WriteStored, WriteEnds,
       Publish, Stop, StopQueues, StopEnds
  <2>3. ~interval' /\ ~timer'
    BY <1>0, <2>2
  <2> QED
    BY <1>g, <1>p, <2>1, <2>3
<1>3. CASE SetPollingReturns
  <2>1. pc' = [pc EXCEPT !["gate"] = "idle"]
    BY <1>3 DEF SetPollingReturns, WithPoll
  <2> QED
    BY <1>0, <1>3, <2>1, <1>g, <1>p DEF SetPollingReturns, Goto
<1>4. CASE OptionsUpdated
  <2>1. pc' = pc \/ Goto("live", "top")
    BY <1>4, LiveStarts DEF OptionsUpdated, Goto
  <2>2. ~interval' /\ ~timer'
    BY <1>0, <1>4 DEF OptionsUpdated
  <2> QED
    BY <1>0, <1>g, <1>p, <2>1, <2>2
<1>9. CASE SetPollingQueues
  <2>1. Goto("gate", "queued")
    BY <1>9 DEF SetPollingQueues, Wait
  <2> QED
    BY <1>0, <1>9, <1>g, <1>p, <2>1 DEF SetPollingQueues
<1>10. ASSUME NEW p \in Refreshers PROVE ~Refresh(p)
  <2>1. pc[p] = "idle"
    BY <1>0 DEF Refreshers
  <2>2. ~(RefreshDeclines(p) \/ RefreshTooEarly(p) \/ RefreshReads(p))
    BY <2>1 DEF RefreshDeclines, RefreshTooEarly, RefreshReads, RefreshAcquires, Acquires
  <2> QED
    BY <2>1, <2>2 DEF Refresh, RefreshInLiveMode, RefreshQueues, ReadSucceeds, ReadBootstraps,
       RetryEnds, ReadFails, CancelledCloses
<1>5. ASSUME NEW enabled \in BOOLEAN, SetPolling(enabled) PROVE Still
  <2>1. Goto("gate", "begin")
    BY <1>5 DEF SetPolling
  <2>2. ~interval' /\ ~timer'
    BY <1>0, <1>5 DEF SetPolling
  <2> QED
    BY <1>0, <1>g, <1>p, <2>1, <2>2
<1>6. CASE StopBegins
  <2>1. AfterCancel("poll") = "idle"
    BY <1>0, ProcNames, PlaceNames DEF AfterCancel, IInv, LockInv
  <2>2. pc'["poll"] = "idle" /\ pc'["timer"] = "idle"
    BY <1>0, <1>6, <2>1, ProcNames DEF StopBegins
  <2> QED
    BY <1>0, <1>6, <2>2 DEF StopBegins, Rearmed
<1>7. CASE Advertisement
  <2>1. pc' = pc \/ Goto("live", "top")
    BY <1>7, LiveStarts DEF Advertisement, Goto
  <2>2. ~interval' /\ ~timer'
    BY <1>0, <1>7 DEF Advertisement
  <2> QED
    BY <1>0, <1>g, <1>p, <2>1, <2>2
<1>8. CASE GateOpens \/ Unavailable \/ TimerFires \/ UNCHANGED vars
             \/ \E live \in BOOLEAN : SaveOptions(live)
  <2>1. pc' = pc /\ timer' = timer /\ (interval' = interval \/ ~interval')
    BY <1>0, <1>8 DEF GateOpens, Unavailable, TimerFires, vars, SaveOptions
  <2> QED
    BY <1>0, <2>1
<1> QED
  BY <1>1, <1>2, <1>3, <1>4, <1>5, <1>6, <1>7, <1>8, <1>9, <1>10
     DEF Next, User, Gate

\* Whoever turns failure into success ends a read or a write on a link of its own, or
\* is a refresh that finds live mode on.
LEMMA FreshStep ==
  ASSUME IInv, [Next]_vars, ~success, success'
  PROVE  \/ \E p \in linked : pc'[p] # pc[p]
         \/ live_mode /\ \E p \in Refreshers : pc[p] = "begin" /\ pc'[p] = "idle"
<1> DEFINE Earned == \E p \in linked : pc'[p] # pc[p]
           Left == live_mode /\ \E p \in Refreshers : pc[p] = "begin" /\ pc'[p] = "idle"
<1>0. pc \in [Procs -> Places]
  BY DEF IInv, LockInv
<1>1. ASSUME NEW p \in Procs, pc[p] \in LinkedAt, NEW l, l # pc[p], Goto(p, l)
      PROVE  Earned
  <2>1. p \in linked
    BY <1>1 DEF IInv, LockInv
  <2>2. pc'[p] = l
    BY <1>0, <1>1 DEF Goto
  <2> QED
    BY <1>1, <2>1, <2>2
<1> USE DEF view
<1>2. ASSUME NEW p \in Refreshers, Refresh(p) PROVE Earned \/ Left
  <2>p. p \in Procs
    BY DEF Procs
  <2>1. CASE RefreshInLiveMode(p)
    BY <1>0, <2>p, <2>1 DEF RefreshInLiveMode, Goto
  <2>2. CASE ReadSucceeds(p) \/ RetryEnds(p)
    <3>1. pc[p] \in {"reading", "retry"} /\ Goto(p, "idle")
      BY <2>2 DEF ReadSucceeds, RetryEnds, FinishRead
    <3> QED
      BY <1>1, <2>p, <3>1, PlaceNames
  <2> QED
    BY <1>2, <2>1, <2>2 DEF Refresh, RefreshQueues, RefreshDeclines, RefreshTooEarly,
       RefreshReads, ReadBootstraps, ReadFails, CancelledCloses
<1>3. CASE Live
  <2>1. LiveReads
    BY <1>3 DEF Live, LiveExits, LiveNaps, LiveQueues, LiveDeclines, LiveConnects, LiveImageRead,
       LiveImageFails, LiveContinues, LiveEnds, LiveHeld, LiveFails, LiveWakes,
       CancelledCloses
  <2>2. pc["live"] = "live read" /\ Goto("live", "holding")
    BY <2>1 DEF LiveReads
  <2> QED
    BY <1>1, <2>2, PlaceNames, ProcNames
<1>4. CASE Write \/ Stop
  <2>1. WriteStored
    BY <1>4 DEF Write, WriteQueues, WriteDeclines, WriteConnects, WriteEnds,
       Stop, StopQueues, StopEnds
  <2>2. pc["write"] = "writing" /\ Goto("write", "idle")
    BY <2>1 DEF WriteStored
  <2> QED
    BY <1>1, <2>2, PlaceNames, ProcNames
<1>5. ~(Gate \/ OptionsUpdated \/ User \/ TimerFires \/ GateOpens
          \/ Advertisement \/ Unavailable \/ UNCHANGED vars)
  BY DEF Gate, SetPollingQueues, SetPollingReturns, OptionsUpdated, User, SaveOptions,
     SetPolling, StopBegins, TimerFires, GateOpens, Advertisement, Unavailable, vars
<1> QED
  BY <1>2, <1>3, <1>4, <1>5 DEF Next

\* No stale success: whatever the user switches, last_update_success comes back only
\* with a transaction that succeeded, or by a refresh that connect-per-poll mode has
\* left behind in live mode, and none of those comes back once they have run out.
THEOREM SuccessIsFresh == Spec => FreshSuccess
<1> DEFINE Fresh ==
      /\ ~success /\ success' =>
           \/ \E p \in linked : pc'[p] # pc[p]
           \/ live_mode /\ \E p \in Refreshers : pc[p] = "begin" /\ pc'[p] = "idle"
      /\ live_mode /\ live_mode' /\ ~Leftover => ~Leftover'
<1>1. IInv /\ [Next]_vars => [Fresh]_vars
  BY FreshStep, LeftoverStep
<1> QED
  BY <1>1, Inductive, PTL DEF Spec, FreshSuccess

-------------------------------------------------------------------------------
(* Coordinator implements UnitAccess: with the inductive invariant every step  *)
(* is one of the abstract specification, or changes nothing of what that sees. *)

Mapped == [Access!Next]_Access!access

\* What a step of a coroutine other than async_shutdown and async_set_polling leaves
\* alone.
Calm ==
  /\ UNCHANGED <<polling_enabled, quiet, stopping>>
  /\ pc'["stop"] = pc["stop"]

LEMMA Stays ==
  ASSUME Calm, UNCHANGED linked
  PROVE  Mapped
BY DEF Calm, Mapped, Access!access

LEMMA Leaves ==
  ASSUME Calm, linked' = {}
  PROVE  Mapped
BY DEF Calm, Mapped, Access!Next, Access!Leave

LEMMA Enters ==
  ASSUME Calm, NEW p \in Procs, linked = {}, linked' = {p}, polling_enabled, ~stopping
  PROVE  Mapped
<1>1. Access!Enter(p)
  BY DEF Calm, Access!Enter
<1> QED
  BY <1>1 DEF Mapped, Access!Next

\* A coroutine that moves keeps the unit to itself, gives it up, or takes it with the
\* switch on.
LEMMA MoveMaps ==
  ASSUME LockInv, NEW p \in Procs \ {"stop"}, NEW l, Goto(p, l),
         UNCHANGED <<polling_enabled, quiet, stopping>>,
         \/ UNCHANGED linked
         \/ Unlink(p)
         \/ Link(p) /\ holder = None /\ polling_enabled /\ ~stopping
  PROVE  Mapped
<1>1. Calm
  BY ProcNames DEF Calm, Goto, LockInv
<1>2. CASE UNCHANGED linked
  BY <1>1, <1>2, Stays
<1>3. CASE Unlink(p)
  <2>1. linked' = {} \/ UNCHANGED linked
    BY <1>3 DEF LockInv, Unlink
  <2> QED
    BY <1>1, <2>1, Stays, Leaves
<1>4. CASE Link(p) /\ holder = None /\ polling_enabled /\ ~stopping
  <2>1. linked = {} /\ linked' = {p}
    BY <1>4 DEF LockInv, Link
  <2> QED
    BY <1>1, <1>4, <2>1, Enters
<1> QED
  BY <1>2, <1>3, <1>4

-------------------------------------------------------------------------------
LEMMA RefreshMaps ==
  ASSUME IInv, NEW p \in Refreshers, Refresh(p)
  PROVE  Mapped
<1> USE DEF IInv, options, radio, clock, view, mutex, calls
<1>1. p \in Procs \ {"stop"}
  BY DEF Procs, Refreshers
<1>2. UNCHANGED <<polling_enabled, quiet, stopping>>
  BY DEF Refresh, RefreshInLiveMode, RefreshQueues, RefreshDeclines, RefreshTooEarly,
         RefreshReads, ReadSucceeds, ReadBootstraps, RetryEnds, ReadFails, FinishRead,
         CancelledCloses
<1>3. CASE RefreshReads(p)
  <2>1. Goto(p, "reading") /\ Link(p) /\ holder = None /\ polling_enabled /\ ~stopping
    BY <1>3 DEF RefreshReads, RefreshAcquires, Acquires
  <2> QED
    BY <1>1, <1>2, <2>1, MoveMaps
<1>4. CASE RefreshInLiveMode(p) \/ RefreshQueues(p) \/ RefreshDeclines(p)
             \/ RefreshTooEarly(p) \/ ReadBootstraps(p)
  <2>1. (\E l \in {"idle", "queued", "retry"} : Goto(p, l)) /\ UNCHANGED linked
    BY <1>4 DEF RefreshInLiveMode, RefreshQueues, RefreshDeclines, RefreshTooEarly,
                ReadBootstraps, Wait, PassThrough
  <2> QED
    BY <1>1, <1>2, <2>1, MoveMaps
<1>5. CASE ReadSucceeds(p) \/ RetryEnds(p) \/ ReadFails(p) \/ CancelledCloses(p)
  <2>1. Goto(p, "idle") /\ Unlink(p)
    BY <1>5 DEF ReadSucceeds, RetryEnds, ReadFails, FinishRead, CancelledCloses
  <2> QED
    BY <1>1, <1>2, <2>1, MoveMaps
<1> QED
  BY <1>3, <1>4, <1>5 DEF Refresh

LEMMA LiveMaps ==
  ASSUME IInv, Live
  PROVE  Mapped
<1> USE DEF IInv, options, radio, clock, view, mutex, calls
<1>1. "live" \in Procs \ {"stop"}
  BY ProcNames
<1>2. UNCHANGED <<polling_enabled, quiet, stopping>>
  BY DEF Live, LiveExits, LiveNaps, LiveQueues, LiveDeclines, LiveConnects, LiveImageRead,
         LiveImageFails, LiveContinues, LiveEnds, LiveReads, LiveHeld, LiveFails,
         LiveWakes, CancelledCloses
<1>3. CASE LiveConnects
  <2>1. PICK l \in {"image", "check"} : Goto("live", l)
    BY <1>3 DEF LiveConnects
  <2>2. Link("live") /\ holder = None /\ polling_enabled /\ ~stopping
    BY <1>3 DEF LiveConnects, Acquires
  <2> QED
    BY <1>1, <1>2, <2>1, <2>2, MoveMaps
<1>4. CASE LiveExits \/ LiveNaps \/ LiveQueues \/ LiveDeclines \/ LiveImageRead
             \/ LiveContinues \/ LiveReads \/ LiveHeld \/ LiveWakes
  <2>1. /\ \E l \in {"idle", "asleep", "queued", "top", "check", "live read", "holding"} :
             Goto("live", l)
        /\ UNCHANGED linked
    BY <1>4 DEF LiveExits, LiveNaps, LiveQueues, LiveDeclines, LiveImageRead,
                LiveContinues, LiveReads, LiveHeld, LiveWakes, Wait, PassThrough
  <2> QED
    BY <1>1, <1>2, <2>1, MoveMaps
<1>5. CASE LiveImageFails \/ LiveEnds \/ LiveFails \/ CancelledCloses("live")
  <2>1. (\E l \in {"top", "asleep", "idle"} : Goto("live", l)) /\ Unlink("live")
    BY <1>5 DEF LiveImageFails, LiveEnds, LiveFails, CancelledCloses
  <2> QED
    BY <1>1, <1>2, <2>1, MoveMaps
<1> QED
  BY <1>3, <1>4, <1>5 DEF Live

LEMMA WriteMaps ==
  ASSUME IInv, Write
  PROVE  Mapped
<1> USE DEF IInv, options, radio, clock, view, mutex, calls
<1>1. "write" \in Procs \ {"stop"}
  BY ProcNames
<1>2. UNCHANGED <<polling_enabled, quiet, stopping>>
  BY DEF Write, WriteQueues, WriteDeclines, WriteConnects, WriteStored, WriteEnds
<1>3. CASE WriteQueues \/ WriteDeclines
  <2>1. (\E l \in {"queued", "idle"} : Goto("write", l)) /\ UNCHANGED linked
    BY <1>3 DEF WriteQueues, WriteDeclines, Wait, PassThrough
  <2> QED
    BY <1>1, <1>2, <2>1, MoveMaps
<1>4. CASE WriteConnects
  <2>1. /\ Goto("write", "writing") /\ Link("write") /\ holder = None
        /\ polling_enabled /\ ~stopping
    BY <1>4 DEF WriteConnects, Acquires
  <2> QED
    BY <1>1, <1>2, <2>1, MoveMaps
<1>5. CASE WriteStored \/ WriteEnds
  <2>1. Goto("write", "idle") /\ Unlink("write")
    BY <1>5 DEF WriteStored, WriteEnds
  <2> QED
    BY <1>1, <1>2, <2>1, MoveMaps
<1> QED
  BY <1>3, <1>4, <1>5 DEF Write

\* Callbacks move at most the poll and the live task.
LEMMA CallbackMaps ==
  ASSUME IInv,
         \/ TimerFires \/ GateOpens \/ Advertisement \/ Unavailable \/ OptionsUpdated
         \/ \E live \in BOOLEAN : SaveOptions(live)
  PROVE  Mapped
<1> USE DEF IInv, options, radio, clock, view, mutex, calls
<1>1. UNCHANGED <<polling_enabled, quiet, stopping, linked>>
  BY DEF TimerFires, GateOpens, Advertisement, Unavailable, OptionsUpdated, SaveOptions
<1>2. pc'["stop"] = pc["stop"]
  BY ProcNames DEF TimerFires, GateOpens, Advertisement, Unavailable, OptionsUpdated,
                   SaveOptions, Goto, LockInv, WithLive, WithPoll
<1> QED
  BY <1>1, <1>2, Stays DEF Calm

LEMMA SwitchMaps ==
  ASSUME IInv, Gate \/ \E enabled \in BOOLEAN : SetPolling(enabled)
  PROVE  Mapped
<1> USE DEF IInv, options, radio, clock, view, mutex, calls
<1>1. UNCHANGED <<stopping, linked>>
  BY DEF SetPolling, Gate, SetPollingQueues, SetPollingReturns, Wait, PassThrough
<1>2. pc'["stop"] = pc["stop"]
  BY ProcNames DEF SetPolling, Gate, SetPollingQueues, SetPollingReturns, Wait, Goto,
     WithPoll, LockInv
<1>3. CASE SetPollingQueues
  BY <1>1, <1>2, <1>3, Stays DEF SetPollingQueues, Calm
<1>4. CASE \E enabled \in BOOLEAN : SetPolling(enabled)
  <2>1. ~quiet'
    BY <1>4 DEF SetPolling
  <2> QED
    BY <1>1, <1>2, <2>1 DEF Mapped, Access!Next, Access!Turn
<1>5. CASE SetPollingReturns
  <2>1. UNCHANGED polling_enabled /\ quiet' = ~polling_enabled /\ linked = {}
    BY <1>5 DEF SetPollingReturns, Acquires, LockInv
  <2>2. CASE polling_enabled
    BY <1>1, <1>2, <2>1, <2>2 DEF Mapped, Access!access
  <2>3. CASE ~polling_enabled
    BY <1>1, <1>2, <2>1, <2>3 DEF Mapped, Access!Next, Access!Reserve
  <2> QED
    BY <2>2, <2>3
<1> QED
  BY <1>3, <1>4, <1>5 DEF Gate

LEMMA StopMaps ==
  ASSUME IInv, StopBegins \/ Stop
  PROVE  Mapped
<1> USE DEF IInv, RestInv, options, radio, clock, view, mutex, calls
<1>1. CASE StopBegins
  <2>1. /\ ~stopping /\ stopping' /\ pc'["stop"] = "gather"
        /\ UNCHANGED <<polling_enabled, quiet, linked>>
    BY <1>1, ProcNames DEF StopBegins, LockInv
  <2> QED
    BY <2>1 DEF Mapped, Access!Next, Access!Close
<1>2. CASE StopQueues
  <2>1. /\ UNCHANGED <<polling_enabled, quiet, linked, stopping>>
        /\ pc["stop"] = "gather" /\ pc'["stop"] = "queued"
    BY <1>2, ProcNames DEF StopQueues, Gathered, Wait, Goto, LockInv
  <2> QED
    BY <2>1 DEF Mapped, Access!access
<1>3. CASE StopEnds
  <2>1. /\ UNCHANGED <<polling_enabled, quiet, linked, stopping>>
        /\ pc["stop"] \in {"gather", "queued"} /\ pc'["stop"] = "done" /\ linked = {}
    BY <1>3, ProcNames DEF StopEnds, Gathered, Acquires, PassThrough, Goto, LockInv
  <2>2. stopping
    BY <2>1 DEF StopInv
  <2> QED
    BY <2>1, <2>2 DEF Mapped, Access!Next, Access!Closed
<1> QED
  BY <1>1, <1>2, <1>3 DEF Stop

-------------------------------------------------------------------------------
LEMMA InitMaps == Init => Access!Init
BY ProcNames DEF Init, Access!Init, Procs

LEMMA StepMaps == IInv /\ [Next]_vars => Mapped
<1> SUFFICES ASSUME IInv, [Next]_vars PROVE Mapped
  OBVIOUS
<1>1. CASE \E p \in Refreshers : Refresh(p)
  BY <1>1, RefreshMaps
<1>2. CASE Live \/ Write
  BY <1>2, LiveMaps, WriteMaps
<1>3. CASE Gate \/ \E enabled \in BOOLEAN : SetPolling(enabled)
  BY <1>3, SwitchMaps
<1>4. CASE Stop \/ StopBegins
  BY <1>4, StopMaps
<1>5. CASE \/ TimerFires \/ GateOpens \/ Advertisement \/ Unavailable \/ OptionsUpdated
           \/ \E live \in BOOLEAN : SaveOptions(live)
  BY <1>5, CallbackMaps
<1>6. CASE UNCHANGED vars
  BY <1>6, Stays DEF vars, options, mutex, calls, Calm
<1> QED
  BY <1>1, <1>2, <1>3, <1>4, <1>5, <1>6 DEF Next, User

\* The coordinator's six coroutines, lock, flags and checks implement a unit that lets
\* in one user at a time, nobody while the switch is off or the entry unloads, and
\* is handed to the operator only when nobody is in.
THEOREM CoordinatorKeepsAccess == Spec => KeepsAccess
BY InitMaps, StepMaps, Inductive, PTL DEF Spec, KeepsAccess, Access!Spec, Mapped
===============================================================================
