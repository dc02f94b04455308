# microair-bt: TLA+ models, model checking and proofs

microair-bt is a Home Assistant integration for MicroAir EasyStart soft
starters. One unit accepts one Bluetooth central; the integration reads
telemetry and a settings image ("EEPROM") from it, either by connecting for
each poll or by holding one link open (live mode), and writes three settings
through a guarded, verified path. The code is small, asynchronous and
cancellable at every `await`, and the unit drops notifications: what can go
wrong is ordering. These modules model the code under
`src/custom_components/microair_bt/` (paths below are relative to it) and state
what must hold of it.

## 1. Inventory

| Component | State | Operations | Status |
|---|---|---|---|
| Transport client, `microair/client.py` | owner and lock, generation, poisoned flag, link handle, command in flight, reply buffer, write phase | `transaction`, `_connect`, `_disconnect`, `_run`, `_notification`, disconnected callback, `_write_parameter`, `_finish_cleanup` | modelled |
| Protocol, `microair/protocol.py` | none | `build`, mask arithmetic, parsers, completion envelopes | modelled; field decoding left out |
| Guarded writes, `writes.py` | one open request, its phase and outcome | `async_write`, the four kinds of request | modelled |
| Coordinator, `coordinator.py` | lock, poll and live tasks, presence, poll gate, refresh timer, wake event, cached image, options | polls, live loop, options listener, `async_set_polling`, `async_shutdown`, advertisement callbacks | modelled, order and time in two modules |
| Entities, `entity.py`, `sensor.py`, ... | none of their own | availability, values, control requests | settings shown and requests offered |
| Service, `services.py` | one registration for all entries | `set_startup_mode` | modelled |
| Entry, `__init__.py` | entry state, `runtime_data` | setup, unload, listener | modelled |
| Flows, `config_flow.py` | per-flow address and name | discovery, user, confirm, options | modelled |
| Probe, `scripts/probe.py` | none | one read-only transaction | not modelled (section 6) |
| Home Assistant, bleak, the unit | | | environment |

How they interact:

- The coordinator creates a fresh client for each transaction and uses it only
  while it holds `coordinator.lock`. `writes.py` takes the same lock.
- The BLE stack calls the client back (`disconnected`, notifications), possibly
  late, for a link that is no longer the current one.
- Home Assistant calls the coordinator back: advertisements (it filters
  unchanged ones), unavailability, the refresh timer, the options listener
  (scheduled, not immediate), service calls, unload.
- A config flow reads its unit with a client of its own, under no lock. What
  keeps it from meeting a coordinator at the unit is the unique id of flows and
  entries, which Home Assistant keeps.
- All loaded entries share one service, which resolves a call to a coordinator
  and then waits for that coordinator's lock.
- Entities read `data`, `last_update_success`, `powered` and the options of the
  coordinator, which are set by different callbacks at different times.

What is hard, and which properties answer to it: links, callbacks and replies
that outlive their transaction; lost notifications; deadlines that race a late
answer; cancellation at every await; one lock under six coroutines; pausing and
unloading with work in flight; a write whose outcome is unknown; timers, gates
and wake-ups that have to leave something behind that polls again, neither late
nor too soon; setups, unloads, flows and service calls of several entries that
overlap.
`PROJECT.json` lists every hazard at its line with its properties.

## 2. Modules

| Module | Models | Notes |
|---|---|---|
| `MicroAirClient` | `microair/client.py` over a radio and a unit | tasks sharing a client, one action between two awaits; implements `TransportContract` |
| `MicroAirClientProofs` | | type correctness, link ownership |
| `ClientReplyProofs` | | whole replies, the truthful write phase, a clean link before each command; the refinement |
| `TransportContract` | what the client promises whoever uses it | abstract specification |
| `EasyStartProtocol` | commands, masks, ranges, whitelist of `protocol.py`, `client.py` | masks are sets of bit numbers; operators only |
| `ByteArithmetic` | the mask functions as byte arithmetic | checks that sets of bits and bytes agree, and the whitelist |
| `ByteProofs` | | the same two for every byte; each set of bits is one byte; a mode reads back |
| `WriteContract` | what a write promises | abstract specification |
| `GuardedWrite` | `async_write` with `write_*` and the unit's reactions | implements `WriteContract` |
| `GuardedWriteProofs` | | the contract, the whitelist, what is offered and what is shown |
| `EntityViews` | what `select.py`, `switch.py`, `number.py` and the mask attributes of `sensor.py` show and offer | operators only, used by `GuardedWrite` |
| `UnitAccess` | what the coordinator promises about the unit | abstract specification |
| `Coordinator` | `coordinator.py` with the lock side of `writes.py` | the client is one open transaction; implements `UnitAccess` |
| `CoordinatorProofs` | | types, link exclusion, quiet pause, quiet stop, live loop, fresh success; the refinement |
| `PollSchedule` | the intervals, gates, backoffs, timers and image ages of `coordinator.py`, the options flow | time in ticks |
| `PollProofs` | | punctual, unhurried polls, prompt pauses, no connection storm |
| `EntryLifecycle` | `__init__.py`, `services.py` | several entries, coordinators, service calls |
| `ConfigFlow` | `config_flow.py` over `EntryLifecycle` | flows that end in entries, and entries that end |
| `EntryProofs`, `FlowProofs` | | shared service, quiet unload; distinct, verified entries, one user a unit |
| `MCMicroAirClient`, `MCGuardedWrite`, `MCConfigFlow` | | instances for TLC |

The state machines are layers. `ConfigFlow` with `EntryLifecycle` says which
coordinators exist; `Coordinator` shows which of a coordinator's coroutines may
open a transaction, `PollSchedule` when; `MicroAirClient` shows what a
transaction does with the link and what its owner may rely on (whole replies or
none, a truthful write phase, nothing left over after a failure); `GuardedWrite`
assumes exactly that and follows one write with its values to what the entities
show. Each layer takes the one below by what that module shows of it: a
coordinator that is "down" in `EntryLifecycle` is one of which `StoppedQuiet` holds.

### MicroAirClient

`owner`, `generation`, `poisoned`, `handle`, `command`, `pending`, `buffer` and
`write_state` are the fields of the class; `stage` is the await at which the owner is
suspended. `links`, `leaked`, `uplink`, `air` and `lost` are the world: physical
links, payloads and notifications in flight, callbacks not yet delivered. A
link carries the generation of its transaction, so that a late callback is
told from a current one as the code tells it. A data frame knows its place in
the reply, which makes a lost frame visible; a reply is accepted as
`parse_live` and `validate_eeprom` accept it, by size and length prefix. `gwrite`
is the write task of `_run`, which starts, hands the payload over and ends in
its own time.

`Transport` maps it to `TransportContract`: the user is `owner`, the links that are up
are `links \ leaked`, the fate of a write's payload is the model's `parameter`, the
report is `write_state`. `KeepsTransport` is that refinement. Its steps are few: tasks
begin and end with no link up, a link comes up when none is, and a write is
asked for, put on record, handed over at most once, answered by the unit and
confirmed, in that order and only if it was accepted. Cancellation, deadlines,
lost notes and late callbacks must each be one of these or a stutter. The unit
may answer when nobody listens: a payload left on a link that `disconnect()` did
not close may still be carried out after the client has been released, and the report is then
"attempted", never "not_attempted".

### GuardedWrite and WriteContract

Settings are records; a unit stores what a payload spells, or ignores it, or
refuses. `Contract` is an instance of `WriteContract` with the variables of the
same names; a request counts as open once its link is up. `KeepsContract` is
`Contract!Spec`: at most one change per request, exactly the one asked for
(every other bit and setting as before), only on a unit that may be written to,
and no verdict that denies a change or claims one that is not there.

### EntityViews

Operators over an image, one for each property of the entities: the select's
`options` and `current_option`, the switches' `is_on`, the meaning of the number's
value, the attributes of the two mask sensors. `Offered` is what the entities let
a user ask for. `GuardedWrite` relates them to a write: `OfferedIsAccepted`, a
request offered by the image shown passes the client's checks of a request when
the unit has not changed; `StoredIsShown`, after the verdict STORED the entities
show the request, agree with each other, and show nothing else changed. A unit
with an old firmware whose mask has the SuperLearn combination is shown as
`unknown`: its current option is not among its options (`select.py:38-50`).

### Coordinator

Each coroutine has a place in `pc` and is represented once. `holder` and
`queue` are the asyncio lock, first come first served; acquiring a free lock
awaits nothing, so it is one action with what follows. A cancelled waiter takes
itself out of the queue (`Without`). `timer` is the refresh
timer of Home Assistant's `DataUpdateCoordinator`, `interval` whether
`update_interval` is set, `gated` whether `monotonic() < _next_poll`. `linked`
holds the coroutines with a transaction open. `notify` is the options listener
that Home Assistant has scheduled. Home Assistant's side (when a listener
runs, when a timer fires, which advertisement is reported) is left as free as
it may be: a listener may run late, a timer and the gate at any moment. A sleep ends
whenever it likes, so `_wake` has no place here; what becomes of it is a question of
`PollSchedule`. `async_set_polling` asks for the lock in a step of its own
(`"begin"`), because the listener its option change calls, and a poll that starts, may
be there first.

`Access` maps it to `UnitAccess`: the users are the coroutines with a transaction
open, the switch is `polling_enabled`, or "reserved" once `async_set_polling(False)`
has returned, and an entry's life ends with `async_shutdown`. `KeepsAccess` is that
refinement. It says more than the invariants: it is about steps, so that nobody
enters while somebody else is in, while the switch is off or while the entry
unloads, and the operator is told only when nobody is in.

### PollSchedule

The numbers that `Coordinator` leaves free: `gate` is `_next_poll`, `interval` and
`timer` Home Assistant's, `failures` the counter polls and live loop share, `age`
that of the cached image, `retry` the time to `_eeprom_next_try`, `sleep` what a
`_sleep` has left. All are ticks to go or ticks gone, and `Tick` moves them
together; it waits for whatever is due (`Urgent`), and for a step of a
transaction at most `MaxIO` ticks. The refresh timer may be a tick early, as
Home Assistant's may be a second early, which is what the branch at
`coordinator.py:246-253` is for. `form` is an options form that is open;
`SubmitForm` merges it over the options of the moment, and the listener's reaction
is part of the step. `live_interval` is an option like the others, of any length:
the form sets it no upper bound, so a sleep may be longer than `MAX_BACKOFF`. The
wake-up event is the step that cuts `sleep` short (`Woken`); one that comes at any
other time is lost, as the code clears the event before it waits. `rested`, `slack`,
`streak` and `patience` are history for the properties. Simplified: closing a link takes no ticks, and a live loop that waits
for the lock stays where it was (`"top"`); writes, shutdown and the order at the
lock are in `Coordinator` only.

### EntryLifecycle and ConfigFlow

`at` is Home Assistant's state of an entry together with the await it is suspended
at; an action of setup or unload is the code from one await to the next.
`runtime` is `entry.runtime_data`, `phase` and `owner` are a coordinator's, `service`
is whether `set_startup_mode` is registered, and a `call` is resolved to a
coordinator first and waits for its lock then. Home Assistant waits ten seconds
for what it stops; a coordinator it no longer waits for, or one that a failed
unload leaves behind when the entry is deleted, is `abandoned`, and the
properties about running coordinators except it: nothing here could stop it.

`flow` holds a config flow's step, `_address` and unique id, `reading` the reads that
submissions await. Home Assistant allows a flow to be submitted again while a
submission is handled, and closed; the read then goes on and finds the flow
changed or gone. `again` marks a flow submitted again during a submission, which
`EntryVerified` and `UnitOwner` except, and for addresses `OneEntryPerUnit`: such a
flow can read one unit and store the address of another, since `_address` is
overwritten before the text is checked (`config_flow.py:82`). `Taken` is Home
Assistant's check for a flow in progress with the same unique id, which is what
keeps two flows from reading one unit.

## 3. Runs

Each run answers one question. All bounds are in the `.cfg` files.

| Run | Shows |
|---|---|
| `client_safety` | Two tasks on one client, two full transactions: replies are whole and of the current command, the write phase never denies a payload that left, each link has an owner who will close it, a transaction about to run a command has a link with nothing of an earlier one on it, or has lost its link; every step is one of `TransportContract` |
| `client_liveness` | Every command ends, and a cancelled task gives the client up |
| `masks` | Over all 256 bytes, modes and flags: sets of bits and bytes agree, builder and whitelist accept the same payloads |
| `guarded_write` | The write path implements `WriteContract`, the assertion at the write site never fires, what the entities offer is accepted, and what they show after STORED is what was asked for |
| `coordinator_safety` | Everything switched on: one transaction at a time, quiet while paused, quiet after shutdown, the live loop is never missing, a failed state ends only by a successful transaction or a refresh left over from connect-per-poll mode; every step is one of `UnitAccess` |
| `coordinator_liveness` | Live mode switched at will, writes and shutdown: a write that waits is answered unless a live session then holds the unit for good, the live loop always recovers, polling resumes if advertisements go on being reported |
| `coordinator_calls` | In either mode, polls, pauses, writes and shutdown in any order: `async_shutdown` returns, a pause returns although a live session holds the lock, polling continues by its timer alone |
| `entries` | Two entries, coordinators, units, flows and submissions and a service call: the service is there exactly while it is needed, nothing runs for an entry at rest, entries are distinct and verified, reads of flows and coordinators do not meet at a unit |
| `poll_schedule` | A poll is due when the last one said, within a tick, and never closer than the least interval; a link that cannot carry the image is not stormed; a pause waits for the step in progress and at most one live interval; the options form does not move the polling switch |

Three runs check one statement each that a comment, a docstring or the wiki
makes and that the code does not keep; TLC shows how. They are findings in
`PROJECT.json`:

| Run | What happens |
|---|---|
| `cached_after_uncertain_write` | after a write of unknown outcome, the next live-only poll shows the image from before it as current |
| `live_off_stalls` | live mode is switched off while a session holds the lock; nothing schedules a poll when it ends |
| `live_image_stale` | a live session that holds never reads the image again, however old it gets |

Smaller disagreements between text and code, which no run is spent on:

- Enabling polling again while a live session streams waits for the session's
  lock (`coordinator.py:424`), for as long as the session holds.
- A write that waited for the lock starts although live mode has been switched on
  meanwhile (`writes.py:139` is before the lock; the docstring at
  `coordinator.py:308` says that writes are rejected while live mode is active).
- Controls are available while live mode holds the link (`entity.py:40-45`, other
  than the repository's `README.md:173-174`); a write is then rejected.
- With a poll interval above `MAX_BACKOFF` a failed poll is retried earlier than a
  successful one is repeated (`coordinator.py:258`). `Intervals` has such a value.

The preconditions of some passing properties point at more of the same, seen in
counterexamples while the properties were being stated:

- `PollingContinues` excludes writes: an options edit while a write holds the lock
  clears `update_interval` and schedules nothing (`coordinator.py:179`, `206`), and
  the write's `async_set_updated_data` (`writes.py:201`) then cancels the timer
  without arming another, so a unit whose advertisements do not change is not
  polled any more.
- `WriteAnswered` excepts a session that holds the lock for good: live mode switched
  off and on again before the session notices keeps a write that was accepted in
  between waiting (`writes.py:137-138` means to reject rather than hang). It is
  about that alone; a write that is refused at the door never waits.
- `FreshSuccess` excepts a refresh that finds live mode on: a timer left over from
  connect-per-poll mode makes it return the old data as a success, whatever became
  of the link (`coordinator.py:229-233`). The second half of the property bounds the
  harm: what is left over runs out, and live mode makes no more of it.
- A wake-up that arrives during a live read is cleared before the sleep
  (`coordinator.py:342`), so the loop may sleep its full interval with its gates
  dropped, while a call that pauses polling waits for the lock. `PausePrompt` allows
  for exactly that interval and fails if the call does not wake the loop. It counts
  the step in progress, not writes ahead of the call at the lock, which
  `PollSchedule` has not got, and lets go of a call during which the form changes
  the interval.
- A unit that stops advertising while connected becomes unavailable although live
  mode goes on reading it (`entity.py:29`).

### Bounds, and why they are enough

- `MaxGen = 6`. A transaction spends a generation when it connects and one when
  it disconnects, a failed command one more, so six allow two full
  transactions: a callback, payload or reply of one can meet the next. The
  code compares generations for equality only.
- `EepSizes = {2, 3, 4}` frames with `EepMin = 2`, `EepCap = 3`: an image of the
  least and of the largest accepted size, and one above the cap; two frames
  suffice for a hole at either end. Sizes matter only relative to the limits.
- Two tasks, symmetric: one owns, one waits. In the liveness run one task,
  without symmetry.
- `MCUnits` and `MCRequests`: units that differ in one field from a plain one,
  at the corners of each field (unsupported bits, last protection left,
  SuperLearn label, firmware 28 and 29, minutes 0, 1, 250, 251). The mask
  arithmetic itself is checked over every byte in `masks`.
- `LiveIntervals = {1, 4}`: a sleep shorter and one longer than any backoff.
- `Intervals = {1, 2, 5}` around `MinInterval = 2` and `MaxBackoff = 3`: an entry the
  form refuses, one whose backoff grows to the cap, one above the cap.
  `FailureCap = 2` lets the backoff double, reach the cap and stay. `ImageAge`,
  `ImageRetry` and `MaxIO` keep the order of the code's values, an hour, a cooldown
  and the longest step, and satisfy the assumption that two steps fit into a
  cooldown (the timeouts in `client.py` and of the connector do). `MaxAge` is
  where ages stop counting; nothing distinguishes higher ones.
- Two of each identity in `entries` but one call: a second entry decides about the
  service, a second unit is what a submission can be changed to, a second flow
  competes for a unit, a second submission overlaps. More calls only queue.
- `Coordinator` has no counter to bound. Its constants switch the user's
  actions on and off. `coordinator_safety` has all of them. Toggles of live mode and
  pauses together make the graph of a liveness run too large, so each of the two
  has one of them: pauses where a pause is the question or polling goes on by its
  timer (which toggles may stop, as `live_off_stalls` shows), toggles where a mode
  has to recover from the other or a write to get past it. `LiveLoopRuns` is checked
  with both. A second concurrent call of the same kind is not represented.

Deadlock is not checked where the model may rest: a client nobody uses after its last
generation, units nobody sets up. A coordinator never rests, as advertisements go
on, so its runs and those of `PollSchedule` check it.

### Fairness

`MicroAirClient` assumes that a connect, a disconnect and a GATT write that is
awaited ends (bleak and the retry connector have timeouts), that a deadline
that is armed expires, and that a task that can run is run. Nothing is assumed
of the unit: it may never answer.
`Coordinator` assumes the same of its coroutines, that each transaction and
sleep ends, and that a timer fires; nothing of the user, nothing of the
Bluetooth manager. Only `PollingResumes` takes as a premise that advertisements
go on being reported, which holds of a unit whose advertisements change now and
then; `PollingContinues` does without, and `live_off_stalls` shows what depends on
it. All fairness is weak.

## 4. Proofs

`tlapm` checks the theorems for every value of the constants, under the `ASSUME`s
next to the constants, which TLC evaluates in every run.

`MicroAirClientProofs`
- `TypeCorrect`: `Spec => []TypeOK`, for any tasks, any `MaxGen`, any sizes.
- `LinksOwned`: `Spec => []LinkOwnership`. Ownership is not inductive: that a
  link belongs to its owner is kept by the next step only if the owner's handle
  names it. `LinkInv` adds `Budget`, which relates the owner's stage to which of
  `handle` and `closing` may name a link and to how many generations are left,
  and that every link that is not leaked is among those the owner holds
  (`Held`).

`ClientReplyProofs` goes on from `LinkInv`. That a reply is whole depends on what is
still on its way: a frame or envelope left over from an earlier command would be
taken for part of the next reply, and frames do not say which command they
answer. `ReplyInv` therefore says what the link of the current generation carries
at each moment of a command (`Exchange`): nothing before the write task has
handed the payload over; then the payload alone (`Waiting`), or a refusal
(`Refusing`), or the rest of one reply (`Replying`), or nothing; and nothing once
the command has its answer. While a reply arrives, `Collected` bounds the buffer
by the frames that have left the air: as many frames as were sent means exactly
those frames, so a lost one shows in the length, which is what the parsers test.
`Numbered` keeps links, payloads and notes of other generations apart, `Running`
ties the fields of `_run` to the stage, `Honest` the poisoned flag to the link,
`Outcome` the write phase to the parameter's fate at the unit and to the answer
that is on the air.
- `RepliesWhole`: `Spec => []ReplyIntegrity`.
- `WriteStateTrue`: `Spec => []WriteStateTruthful`.
- `ReadyClean`: `Spec => []ReadyIsClean`; the handle names the current generation by
  `Numbered`, whose link `Exchange` shows to be quiet, and a poisoned transaction has
  no link by `Honest`.
- `TransportKept`: `Spec => KeepsTransport`, by mapping each action under `ReplyInv` and
  two more invariants. `WriteOnce`: the payload of the last write is on its way at
  most once, and nothing has become of it while the write task has it or it is on
  its way; without it the unit could be thought to answer a payload twice, or the
  task to hand over one that is answered. `GivenUp`: links that refused to close are
  of earlier generations, so that a link that comes up is not among them. That
  none is up already is `OneUp` of `MicroAirClientProofs`.

`ByteProofs`: the other modules and their proofs take a mask byte for the set of its
bits. A byte is put together from its bits and taken apart into them again
(`ByteOfBits`, `BitsOfByte`), so `&` is intersection and `|` union (`AndBits`, `OrBits`), a
literal is its bits, and a test `mask & literal` asks for one of them (`Tested`); the
lemmas up to `Accepted` go through the functions and tokens one by one.
- `MasksAreBytes`: each set of bits is the bits of exactly one byte.
- `SetsAreBytes`, `WhitelistIsExact`: `Spec => []SetsAgree`, `[]WhitelistExact`. `&` and `|`
  are defined bit by bit, since theorems cannot reach the recursive ones of the
  library.
- `ModesReadBack`: a mode written over any mask reads back as that mode and leaves
  every other setting of the mask alone.

`GuardedWriteProofs`: lemmas about `mode_mask`, `flag_mask`, the ranges, the pattern and
the entities' views come first, over arbitrary sets of bits. `WriteInv` adds to the
types how phase, write phase and flight go together (`Phased`), that a payload in
flight spells the value computed from the preflight image (`InFlight`), and that
the unit may be written to and is as it was at the preflight until it stores the
request, and then as the request asked (`Carried`). The last part is why a
readback may be compared with a value computed before the write: no other central
can write while the link is up.
- `TypeCorrect`, `WhitelistHolds`, `OffersHonoured`: `Spec => []TypeOK`,
  `[]PayloadWhitelisted`, `[]OfferedIsAccepted`.
- `ContractKept`: `Spec => KeepsContract`, one step for each action. The ones that
  are not stutters are the request, the unit storing it, the verdicts and changes
  made elsewhere; a verdict is allowed by the contract because `Phased` tells what
  can have happened to the unit in each phase.
- `StoredShows`: `Spec => StoredIsShown`. `Contract!Effect` says which bits may have
  changed; the views are shown to depend on no others.

`CoordinatorProofs`: the inductive invariant `IInv` has four parts. `LockInv`
says that lock, open transaction and place of the coroutine are one fact;
`PauseInv`, `StopInv` and `LoopInv` say how pause, shutdown and live loop stand to
it. `StoppedQuiet` is not inductive without knowing that the two tasks are idle
from the moment shutdown asks for the lock, and that a cancelled task exists
only while stopping. Since nearly every step moves one coroutine to one place,
the lemmas `LockKept`, `LockTaken`, `LockLeft` and `MoveKeeps` say once when such
a move is harmless.
- `OneLink`: `Spec => []ExclusiveLink`.
- `PausedMeansQuiet`: `Spec => []MaintenanceQuiet`.
- `StoppedMeansQuiet`: `Spec => []StoppedQuiet`.
- `LiveLoopStays`: `Spec => []LiveLoopRuns`.

These four use neither the order nor the contents of `queue`, so they do not depend
on the lock being fair.
- `CoordinatorTypes`: `Spec => []TypeOK`, with `QueueInv`: who waits for the lock
  stands at its place for waiting, and waits once. `WithoutOne` shows that a
  cancelled waiter leaves the rest of the queue as it was.
- `SuccessIsFresh`: `Spec => FreshSuccess`, with everything switched on. `FreshStep`:
  a step that brings success back ends a read or a write, and whoever does that is
  in `linked` by `LockInv`, or is the refresh that finds live mode on. `LeftoverStep`:
  in live mode nothing arms a timer, sets an interval or schedules a poll unless
  one of the three was there before.
- `CoordinatorKeepsAccess`: `Spec => KeepsAccess`, by mapping each action under
  `IInv`. A step that opens a transaction holds the lock, hence nobody else is in,
  and its checks under the lock give the switch and the entry's life; the step
  that reports a pause or a shutdown holds the lock itself.

`EntryProofs`: `EInv` says that an entry in use has a running coordinator of its
own, that a coordinator's owner names it back unless it is abandoned, and that a
call that writes has a coordinator that is not down. `SInv` adds the service.
- `ServiceIsServed`: `Spec => []ServiceServes`. The step that matters is an unload
  that removes the service while another entry unloads, fails to, or loads: what
  remains must be accounted for by an unload still to come or an abandoned
  coordinator.
- `UnloadedIsQuiet`: `Spec => []UnloadedQuiet`.

`FlowProofs` goes on from there. `FInv`: a flow that was never submitted during a
submission has one value for address and unique id, and its reads are of that
unit; entries have distinct unique ids.
- `FlowTypesKept`: `Spec => []TypeOK`.
- `EntriesAreDistinct`: `Spec => []OneEntryPerUnit`.
- `EntriesAreVerified`: `Spec => []EntryVerified`.
- `UnitHasOneUser`: `Spec => []UnitOwner`, from `UInv`: the unique ids of flows in
  progress are pairwise different and none is configured, and a flow that was
  not submitted again has one read. Two users would be a flow and a flow, a flow
  and an entry, or an entry and an entry with one unique id.

`PollProofs`: `PInv` relates the history to the schedule. `RestInv`: while the gate is
closed, gate and time rested add up to at least the least interval, so a poll,
which needs an open gate, has rested. `SlackInv`: while nothing disturbs, a timer
is armed that is due before the slack is used up, or a refresh waits for a lock
that is free. `StormInv`: a second connection in a row means that the cooldown
started in the first is still on. `PatienceInv`: while a pause waits, the patience it has
left covers what the holder of the lock may still take (`StepLeft`), a live interval
included where a sleep has yet to begin, and every step of the holder pays for
itself.
- `PollTypes`: `Spec => []TypeOK`, which bounds every wait: a gate, a timer or a refresh
  interval by the longest poll interval or `MAX_BACKOFF`, a sleep by the longest live
  interval or `MAX_BACKOFF` (`Wait`). Nothing is assumed of the live interval but
  that it is positive.
- `PollsAreOnTime`, `NoStorm`, `PausesArePrompt`: `Spec => []PolledOnTime`,
  `[]NoConnectStorm`, `[]PausePrompt`, for all intervals and caps. The provers have no facts about
  exponentiation, so that `2^n` is a positive number for each count of failures
  is part of the assumption, which TLC evaluates.
- `PollsAreNotHurried`, `SwitchMovesItself`: the two action properties.

Only model-checked: liveness and everything about `ENABLED`, which the prover does
not reach (`CommandTerminates`, `CancelReleases`, `PauseReturns`, `LiveRecovers`,
`PollingResumes`, `StopTerminates`, `WriteAnswered`, `PollingContinues`), and that the
statements of the findings are violated. Every invariant, action property and
refinement that a passing run checks is also a theorem.

## 5. Abstractions

- Time: in all modules but `PollSchedule` a deadline, a sleep, the poll gate and a
  backoff end at some moment. `PollSchedule` has the numbers, and none of the
  failures and callers the other modules have.
- Bytes of a reply: complete, short, with a hole, too long. Values decoded from
  it appear only where a property is about them (the settings in
  `GuardedWrite`).
- The probe's notification observer, logging, texts and telemetry values are left
  out.
- In `Coordinator` a transaction is one open interval; its inside is
  `MicroAirClient`. In `GuardedWrite` a transport failure is one action, whose
  effects are those `MicroAirClient` allows.
- The unit answers ReadLive with one frame, as the wiki documents. The code caps that
  reply at 64 bytes (`microair/client.py:267`) and `parse_live` has no length prefix to
  compare with, so of a unit that sent more frames it would accept a reply with a
  hole; `ReplyIntegrity` says nothing about such a unit.
- A write of the OEM app can happen only while no link is up, since the unit
  accepts one central.
- A payload left on a link that refused to close may be carried out after the
  verdict. `MicroAirClient` has it (`leaked`, `uplink`), and the verdict is then an
  uncertain one; in `GuardedWrite` it is among the changes of `Elsewhere`, which
  come from `Units` at any moment no link is up.
- Of two units' addresses only that they differ, of a malformed one that it is
  refused; names and titles are left out.
- Options that change nothing but a value shown or a permission (`nominal_voltage`,
  `power_factor`) are left out; `allow_running` is either value when a write of
  `GuardedWrite` asks for it.

## 6. Not modelled, and what is left

Not modelled:
- `scripts/probe.py`: a script that runs one transaction of `MicroAirClient` with
  nothing beside it, and prints. Its logic is argument handling.
- `const.py`, `strings.json`: names, defaults and texts; the numbers are constants
  of the modules.
- Telemetry entities: `LiveData` fields that are passed on as they are, the power
  estimate (a product), the rounding of `number.py`, and the decoding of the
  fields in `protocol.py`. They have no state and no branch a property could be
  about.
- An options edit between `async_start` and the registration of the listener
  (`__init__.py:30`), which nobody is told about; and the ten seconds Home
  Assistant gives a shutdown, after which an old and a new coordinator may
  overlap. The models note both (`notify` starts with the entry set up,
  `abandoned`), no property holds of them.

Left to prove: liveness, which would need another prover. A smaller fact that no run
states either is that an open flow always has a step. That `GuardedWrite` uses the
transport only as `TransportContract` lets it is argued in section 2 and in the
module's header, not stated as a refinement.
