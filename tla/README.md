# rustmaniax-sdk in TLA+

A verification development for rustmaniax-sdk, the Rust SDK that talks to one or
two StepManiaX dance pads over USB HID. It holds TLA+ models translated from the
source, small instances that TLC checks exhaustively, and theorems that TLAPS
checks for every value of the constants. Source paths below are relative to the
crate (`src/manager.rs` and so on).

## The system

| Part | State | Operations | What makes it correct |
|---|---|---|---|
| **Command channel** `connection.rs` | queue of commands, the one in flight, read buffers, shared flags (`write_in_flight`, read and write errors), report-6 buffer | `send_command`, `_priority`, `_lights`, `drop_queued_lights`, `update`, `close`, drop; writer loop; `PollHandle::poll` | each callback runs once; commands are written in order; an answer completes its own command; a failure ends the connection |
| **Discovery and slots** `manager.rs` | two devices, failed paths, player assignment, poll threads, pad indices | `attempt_connections`, the pass of `main_thread_loop`, `correct_device_order`, `set_player_assignment` | devices, threads and indices stay aligned; pads are where jumper or assignment say; events tell the application so; a plugged-in pad gets connected |
| **Lights staging** `manager.rs` | `pending_lights`, `delay_lights_until`, panel test mode | `set_lights_for_pads`, `send_pending_lights`, `reenable_auto_lights_for_pad`, `update_panel_test_mode`, `set_platform_lights` | the newest frame wins and is shown whole; bounded backlog; a released pad stays released |
| **Device** `device.rs` | connection, configuration (current, wanted), sensor test state | `update`, `set_config`, `set_sensor_test_mode`, `close` | the last configuration set reaches the right pad; a wrong cached one never stays; readings keep coming; sensor requests starve nothing |
| **Protocol** `protocol.rs` | reassembler's partial packet, report-6 buffer | splitting, reassembly, report-6 parsing | the device gets whole answers only, however reads cut them |
| **Animations** `lights.rs` | frames and positions per pad | load, `build_frame`, `prepare_upload` | frame sequencing; what was uploaded is what the pad shows |
| **Lifecycle** `manager.rs` | shutdown flag, reference counts, animation thread | start, drop, `set_animation_auto` | every thread is joined, none waits for good |
| **Conversions** `device.rs`, `config.rs` | the last old configuration as raw bytes | old configuration formats, sensor test bits | a change of one setting leaves the others and unknown bytes alone; readings are exact |
| Recorder, profiling, structures, errors, test doubles, command line tools | | | left out: I/O, diagnostics and plain data |

How they interact. The *main thread* loops over: enumerate pads, open new ones,
then under the `state` lock update both devices (each runs its connection's
`update`), close those with errors and join their poll threads, order the slots,
send test mode and lights; then it waits on a condition variable with a timeout.
A *poll thread* per pad reads the device off the lock, hands answer packets over
through the report-6 buffer and calls the application for input. A *writer
thread* per pad puts the packets of one command on the wire. *API calls* take
the `state` lock. Shared between threads without the lock: the atomics of a
connection, the report-6 buffer, the job channel, the pad index.

What is hard. Answers name no command and can come after the two-second timeout
has queued the command again; the writer's store of `write_in_flight` races with
the main thread's; reads and writes fail at any moment and close a connection
whose callbacks must still run; slots are swapped under running threads; opens
fail; frames are set faster than pads take them, for either pad or both, with a
legacy pad's frames split in time. `PROJECT.json` lists these hazards at their
lines with the properties that cover them.

## Modules

| Module | What it is |
|---|---|
| `Queue` | operators on command queues (`Members`, `Retain`) |
| `CommandService` | abstract specification: commands are issued, outstanding, and resolved once |
| `Connection` | one pad connection with its main, writer and poll threads and the pad |
| `Slots` | the two slots, discovery, ordering, poll threads, connection events |
| `Lights` | staging of lights, release, panel test mode, over two connections whose slots may be swapped |
| `Device` | one slot's configuration cache and sensor test polling, with the pads that take turns in it |
| `Animation` | playback of the frames of one panel's animations |
| `Lifecycle` | the threads of a manager, who holds its state, automatic animation, drop; extends `Animation` |
| `Protocol` | reports, splitting of commands, reassembly of answers |
| `Configuration` | the layouts of a configuration and the conversions between them; extends `Protocol` |
| `SensorTest` | decoding of a sensor test answer |
| `Upload` | the packets of an animation's upload; extends `Protocol` |
| `Wire` | one slot and the pads that take turns in it, with the content of commands and answers; extends the three above |
| `MCConnection`, `MCSlots`, `MCLights`, `MCDevice`, `MCLifecycle`, `MCWire` | small instances |
| `QueueProofs` | lemmas on queues |
| `ConnectionProofs` | theorems about `Connection`; it implements `CommandService`; what holds of it when no answer is late |
| `SlotsProofs`, `LightsProofs`, `DeviceProofs`, `LifecycleProofs` | theorems about the module each is named after; `LifecycleProofs` also about `Animation` |
| `ProtocolProofs` | splitting and reassembly; the packets of an upload; folds, and functions defined by recursion on a number |
| `WireProofs` | theorems about `Wire`, with `Configuration` and `SensorTest`, and what the panels show |

`Slots`, `Lights`, `Device`, `Lifecycle` and `Wire` keep of a connection only
what they depend on: `Slots` that identity and configuration have come and that
there was an error; `Lights` and `Device` the queue, the command in flight and
its answer; `Wire` also the bytes; `Lifecycle` its threads and their errors. What
they leave out of it is what `Connection` shows about it.

### Connection

One action is one access to state that threads share, so that the other threads
run in between. The main thread's `update()` is the chain `EnterUpdate`,
`CheckReads`, `HandleInfo`/`HandleFragment`/`PacketsDone`, then `Promote` or
`BeginHandOff` and `HandOff`, then `Drain` (the device's `handle_packets`); an
error leads to `Close`, `Abandon`, `JoinWriter`. `Submit` is the three `send_*`
calls, `DropQueuedLights` and `CheckActive` are what their names say. The writer
thread is `WriterRecv`, `WritePacket`, `WriteFail`, `WriterClear`,
`WriterReturn`, `WriterStop`; the poll thread `PollRead`, `PollDeliver`,
`PollFail`. The pad (external) answers a command it has received whole, or not.

Commands are tickets in the order they are queued; a payload is the ticket it
answers. `Packets` gives the packets per kind of command. An answer is one
packet. `MaxLate` bounds how many packets and answers may be in transit when a
response times out: 0 says that the timeout is longer than any answer takes.

### Slots

A pad is its path and serial; a connection is named by its pad. `CheckSlots`,
`Enumerate`, `BeginOpen`, `OpenSkip`, `ReadOpenFails`, `WriteOpenFails`,
`OpenPad`, `OpenDone` are `attempt_connections`; `BeginPass`, `UpdateDevice`,
`CloseDevice`, `ReapThread`, `OrderSlots` the pass over the devices. `Locked`
says where the main thread holds the `state` lock; `SetPlayerAssignment` happens
only elsewhere. `view` is what an application that follows the events believes.

### Lights

A frame is the number of the `set_lights` call; a frame of a pad is three
commands ("inner", "top", "bottom" for `'4'`, `'2'`, `'3'`). `SetLights` stages
(`Stage`) or overwrites the last three entries (`Restage`); `Pass` is one pass
of the main thread under the lock: hand-over of the next command (`AfterUpdate`),
`update_panel_test_mode` (`AfterTest`), `send_pending_lights` (`AfterLights`).
Time is counted in ticks of the legacy delay, due times as what is left of them.
Colours, and the 16 or 25 LED layout, are left out. Staged commands belong to a
slot, connections to a pad: `At` says which is where, and `Swap` exchanges them
with frames staged, as `correct_device_order` does. `SetPlatformLights` and
`SetSerialNumbers` queue one plain command each, ahead of the next frame.

### Device

`Update` is one `SmxDevice::update`, which runs under the `state` lock:
`check_active` (`AfterActive`), `send_config_if_needed` (`AfterConfig`),
`update_sensor_test_mode` (`AfterSensors`), the connection's `update` (`ToSend`
and the choice of the command in flight) and `handle_packets`. A configuration
is the number of the `set_config` call that made it, 0 the factory's. Time is
what the code compares it with: `limited` says that the write rate limit runs,
`elapsed` whether the last sensor request is younger than the polling interval,
than its timeout, or older. `Close` and `Connect` change the pad under the
`SmxDevice` that stays; only the pad in the slot is kept, and another one that
takes its place has the factory's settings. `due` and `own` are history: the last
configuration asked for on this connection, and those that were meant for the pad
now in the slot. Lost answers are retried here; answers that come after the
timeout are `Connection`'s.

### Animation and Lifecycle

`Animation` has the state of `AnimationState`, and its two operations `Load` and
`BuildFrame`, for one panel; panels and pads are independent of each other there.
Durations are whole passes of 1/30 s; what the code carries over from a frame
that ends within a pass is left out.
What is drawn is left out, only which frame is drawn is kept. `Lifecycle`
extends it with the threads of one manager: callers
(`set_animation_auto`, `set_lights`, `load_animation`), players
(`animation_thread_loop`, one action for each lock it takes or flag it reads),
the main, poll and writer threads of one pad, and `drop`, one action for each
join. `holders` are the strong references to `ManagerShared`; when the last one
goes the connection goes with it. Locks appear where they are held across a
wait: the state lock while the main thread joins the threads of a pad that
failed (`StateFree`), and the lock of `anim_thread` while a caller joins a player
(`HandleFree`). The condition variable only shortens a wait and is left out.

### Wire, Protocol, Configuration, SensorTest, Upload

`Wire` has the bytes that the other modules leave out, between one `SmxDevice` and
the pads that are plugged into its slot one after the other. `Protocol` builds the
reports of a command (`BuildCommandPackets`), keeps of a report what the buffer
gets (`Kept`), cuts the buffer up again (`SplitBuffer`) and puts fragments together
(`Completed`, `UnderWay`). `Configuration` converts between `SmxConfig` and the layout
of firmware before 5 (`ConvertToNew`, `ConvertToOld`, `AsBytes`, `CopyToNew`); one
element stands for a field whatever its bytes, and `"panel_3"` for the two
thresholds that are always converted together. `SensorTest` takes the bits of each
panel out of the words. `Upload` goes from pictures to packets and pauses:
extraction of a panel's LEDs, palette, packed graphics, timing.

`Update` is `SmxDevice::update` with what it calls, from the buffer to the cache
and the sensor readings: `Receive` is `handle_packet`, `HandlePackets` the
device's. The rate limits of configurations and sensor requests are choices
(`put`, `due`), `Device` has them. The pads are external: they answer as their
firmware version says, keep their memory, are busy for as long as they write what
they were sent, and miss packets; `Stall` is an answer that breaks off, and a
connection may be opened while an old answer is still coming (`LeftOver`), of which
the device takes the end for an answer. In one behaviour the application does one thing (`use`).

Nothing in the crate sends an upload; the only code that does is
`tests/hardware.rs`, and `UploadPacket` and `UploadPause` are its loop: each packet
joins the queue of the connection, each pause is slept through, and neither looks
whether the packets before have been acknowledged. Time passes for the panels in
two ways only: by the pauses, and by the timeout of a command, after which no panel
is busy any more. Packets that wait in the queue therefore reach the pad back to
back. A pause that ends while the packets before it are not acknowledged is counted
(`count.late`). It can be that an answer is lost, since the pauses are shorter than
the timeout, and with `Slow` for any reason. `UploadWhole` is about
uploads of which no pause was late; `UploadReliable` is the same without the
condition. The packets of an upload do not differ in their kind, so the application
is taken to begin when nothing is queued, and an upload to be over with the
acknowledgement of its last packet.

## Runs

| Run | Instance | Question |
|---|---|---|
| `connection_threads` | 3 API commands and the identity request, loss, faults, fair threads | every callback once, write order, own answers, one job at the writer, refinement of `CommandService`, every command resolved, errors end the connection |
| `connection_reply` | 4 commands, late answers | **violated**: a callback gets another command's answer |
| `slots_order` | 2 pads with different jumpers, a full and a single-sided assignment, faults, input | alignment, pair order, placing of a lone pad |
| `slots_live` | 2 pads, jumpers only, fair threads | pads get connected, errors are reaped, events match the slots |
| `lights_frames` | a legacy and a version 4 pad, 3 frames for any set of slots, replug, a swap of the slots | staged frames whole, backlog, newest frame not lost, no older frame later |
| `lights_live` | the same pads, 1 frame, releases with it staged, queued or in flight, 1 change of test mode or other command, fair | the frame is shown, the test mode arrives, a release holds and takes nothing from the other pad |
| `device_config` | 2 configurations, 2 sensor test modes, pads that take turns, losses, resets, one overdue sensor request, fair | the cache is corrected, the last configuration is not lost and arrives, sensor readings keep coming |
| `device_starved` | 1 pad, nothing lost, one overdue sensor request, fair | **violated**: sensor requests starve a configuration |
| `device_pad` | pads that take turns, 2 configurations | **violated**: a configuration is written to the next pad |
| `lifecycle_threads` | 1 caller, 1 pad that fails and comes back, 2 animations of one type, drop, fair threads | playback stays in its animation, off means off, lights win over animation, nothing is left after drop, calls and drop return |
| `lifecycle_writer` | the same without animations | **violated**: the writer thread holds the last reference to the manager |
| `wire_exchange` | 4 pads of firmware 1, 2, 3 and 5, three of them with the old layout and two of these short; answers that break off, lost packets, a late pause, replug | packets are put together right, a setting changed leaves the others, spare bytes kept, readings exact, uploads whole if no pause was late |

The violated runs are disagreements between the code and what its documentation,
comments or tests say; `PROJECT.json` quotes both under `findings`. Nine more
were met, and no run is spent on them; TLC refutes the property if it is put in
the configuration named:

- `SentIsOnWire` (`Connection_Reply.cfg`): the writer's store of
  `write_in_flight = false` for one command may land after the main thread's
  `true` for the next, which is then taken to be on the wire
  (`connection.rs:216`, against the comment at 633). The response timeout starts
  early; nothing else follows.
- `InputUnderOwnSlot` (`Slots_Order.cfg`): a poll thread loads its pad index, the
  slots are swapped, and the input is reported under the number of what is by
  then the other pad (`manager.rs:789`, against `docs/ARCHITECTURE.md:117`).
- `ListenerInStep` (`Slots_Order.cfg`; `slots_live` shows it without
  assignments): after `set_player_assignment` has moved a lone pad, nothing
  reports that the slot it left is empty (`manager.rs:310`, against the comment
  at 302).
- `LoneFollowsAssignment` (`Slots_Order.cfg`): when a pad disconnects the one that
  stays is not moved to the slot a single-sided assignment names
  (`manager.rs:612`, against `README.md:51`).
- `LoneByJumper` (`Slots_Order.cfg`): a single connected pad that an assignment names
  is put in the slot it names, whatever its jumper says (`manager.rs:919`, against
  the doc of `set_player_assignment` at 298, "otherwise (no override, a single pad,
  or an unrecognized serial) ordering falls back to the jumper", and the comment on
  the field at 102). `README.md:51`, the comment on `override_should_swap` and the
  tests from `manager.rs:1295` say what the code does; that it does it whatever
  comes in between is `LonePlacedOnConnect`, in `slots_order`.
- `OnePlayer` (`Lifecycle_Threads.cfg` with two members of `Callers` and
  `Switchers`): two threads that switch automatic animation on at the same time
  each start a player, so that it does not play at 30 FPS (`manager.rs:403`); the
  handle of the first is lost. With three players `SwitchReturns` is refuted too:
  a caller that switches off may take, and wait for, the player that the other
  caller has just started, under the lock of `anim_thread`.
- `OwnSettings` (`Wire.cfg` with a pad whose configuration has version 255): its
  version and the thresholds of five panels are not read, so that what is written
  back is what the SDK has there, zeros or another pad's (`device.rs:638`, against
  "all firmware versions supported" in `docs/DESIGN_DIFFERENCES.md:124`).
- `UploadReliable` (`Wire.cfg` with `Slow = FALSE`, `MaxLosses = 0`, `MaxLate = 4`):
  `send_command` only queues the packets of an upload, and its pauses are slept
  through whether or not the packets before have gone out (`tests/hardware.rs:365`,
  against "Send panel data twice for reliability" at `lights.rs:428` and "Delay in
  milliseconds before next packet" at 304). When the acknowledgement of the first
  packet is lost, it is sent again after two seconds (`connection.rs:537`). By then
  four pauses are over, those of the first pass and the first of the second (153,
  598, 816 and 153 ms, for packets of 45, 176, 240 and 45 bytes). The packets that
  have waited go out one right after the other: each panel takes the first and is
  busy when the others arrive, and those of 176 bytes come with their repetition.
  That a panel takes no packet while it writes is an assumption about the firmware,
  and the reason for the pauses.
- `BlockedInTest` (`Lights_Live.cfg`): a frame staged before
  `set_panel_test_mode` is sent after it (`manager.rs:1144`).

`device_starved` in words: a sensor request that is not answered in two seconds
is sent again. The first answer ends the wait, the second request is still in
flight, and because nothing counts it the next one becomes due after 1/30 s and
goes to the front of the queue before the second is answered. The pattern goes
on as long as an answer takes more than 1/30 s. `ConfigReachesPad`, in
`device_config`, says that this is the only way to starve: as long as every
request outstanding is awaited, configurations arrive.

`device_pad` in words: a configuration is written, and a second one set within a
second, which the rate limit holds back. The connection breaks. The update that
finds out first runs `check_active`, `send_config_if_needed` and
`update_sensor_test_mode`, so that what may be sent is taken for sent and lost with
the queue (`Noted` in `Close`); what the limit holds back stays to be sent, through
`close()` and the next connection. The next pad is sent it once its own
configuration has been read.

**Bounds.** Connection: four tickets allow a command in flight, one behind it of
another kind, and a retried one overtaken by neither; two-packet lights commands
let the poll and main threads run between packets. Slots: two slots and two pads
are all the pads that can be connected; a third pad would only wait. Lights: three
frames are the leftover half of one, a staged one, and its replacement; queues of
one other command are enough to keep a connection busy for longer than a frame
interval. `lights_frames` has none (`MaxQueue = 0`), and with them no releases;
those are in `lights_live`, where the bound is on what a release leaves in the
queue and not on what it finds there, so that it meets frames in the staging list,
in the queue behind another command, and in flight; with one frame, none may be
sent after it. The delays 1 and 2 are the real ratio; the refresh of panel test
mode is shortened from 60 ticks to 3, above the frame interval. One swap, with
frames staged and at least two more to come, lets a frame be split over the pads,
and then replaced. Device: two configurations are one sent and one held back by
the rate limit; `MaxQueue` bounds only the resets and recalibrations that may be
queued at a time, and `MaxOverdue` the sensor requests that run into their
timeout, one of which is enough for a second request to be outstanding. Two sensor
test modes let an answer in the mode before come while the next is awaited.
Lifecycle: one pad is enough for who waits for whom, since the threads of two pads
share nothing but the manager; one type of animation, the one that stops and
starts again, stands for both (the other one plays in the same way and never
stops); one caller, and players that are bounded only by their names, of which it
never uses a second. Wire: a report carries 12 bytes, so that configurations take
several, as with the real 61; two panels of two sensors, with a word's byte of one
bit, so that panel 2 is in the high byte as panel 9 is; four-LED outer squares,
two graphics, two colours, packets of four bytes, so that each part of an upload
takes more than one; one of each thing that may go wrong, since what a retry has
to repair is gone after it; one late pause, after which `UploadWhole` says nothing
more. Each field of a pad has a value of its own, so that no exchange of two goes
unnoticed.

**Fairness.** `Connection`: the main thread keeps calling `update` (its loop waits
with a timeout), the writer and poll threads run; an overdue answer is noticed
(strong: the timer is looked at on each update); a pad that keeps receiving
commands keeps answering some (strong). `Slots`: main and poll threads run, the
enumeration interval passes, a pad answers its first requests, an unplugged
pad's reads fail (weak); opens of a pad do not fail for ever (strong). One more
assumption is needed and stated as a constant: `SlowReplug`, that a pad is not
plugged in again before an enumeration has missed it. Without it a pad whose
open failed, or that was unplugged and back between two enumerations, stays in
`failed_paths` for good. `ReadFaulty = FALSE` in the same run: one failed open of
a pad that stays plugged in is never tried again. And poll threads report no
input in that run: `poll()` reads on while the pad has something to say, and a
pad that always has keeps its thread from seeing its stop flag. `Lights`: passes,
time and pads go on (weak). `Device`: updates and time go on (weak); a pad that is
asked again and again answers again and again (strong), since single answers may
be lost. `Lifecycle`: every thread that can go on does (weak); a player or a caller
gets the state lock in the end also if the main thread takes it again and again
(strong), because that waits without the lock after each pass; reads return within
their timeout.

## Proofs

`ConnectionProofs` proves, for any number of commands and packets, any delay of
answers and any failure (assuming only `ConnectionAssumption`, the types of the
constants):

- `TypeCorrect`: `TypeOK` and what the program points say of the state;
- `ConnectionInvariant`: the inductive invariant `ConnectionInv`;
- `CallbacksOnce`: `CallbackOnce`, no callback is lost or run twice;
- `WrittenInOrder`: `WireInOrder`, the action property on the write order.

`CallbackOnce` is not inductive as it stands: it speaks of the line, the command
in flight followed by the queue, and says nothing that would keep a command that
is in flight from being in the queue too. `OnceInLine` states it over the queue
and the command in flight separately. `LineInOrder` says that commands queued at
the back stand in the order of their tickets; only commands queued at the front
(`priority`) break that order. Every action that touches the line is one of six
changes (push at the back, push at the front, completion, requeue, dropping of
lights, closing), each with a lemma of its own; `LineStep` has one step per
action. `WireInOrder` then follows from the invariant and from the line only
ever losing members (`LineShrinks`), by the action that hands over
(`HandsOverOldest`). `QueueProofs` has the facts on sequences: what `Retain`
keeps and in which order, proved by induction over a set of naturals
(`SetInduction`) because induction theorems that take an operator cannot be used
with the provers at hand.

It also proves `Refinement`, `Spec => ImplementsService`: the connection with
its threads implements `CommandService`, with the same assumptions. Commands, their
callbacks and what is outstanding are mapped as `ConnectionService`
says; `ServiceStep` has one step per action, and each maps to the issue of a
command, its being taken, its end, the cancelling of queued lights, or nothing.

`DeviceProofs` proves of `Device`, for any number of configurations, sensor modes and
overdue requests, with losses and changes of pad (from `DeviceAssumption`, the types
of the constants):

- `TypeCorrect`: `TypeOK`;
- `CacheIsCorrected`: `CacheCorrected`, no wrong configuration stays in the cache;
- `ConfigNotLost`: `ConfigOnItsWay`, the last configuration set is not lost.

Neither is inductive: they say that a command is outstanding, not what stands
behind it. `DeviceInv` adds the order. `WritesVerified`: each command that changes
the pad's configuration, a factory reset too, has a read behind it, and one that is
in flight has a read in the queue. `AnswerCurrent`: the pad does not change between
its answer and the pass that takes it. `LastOneWins`: behind the last configuration,
wherever it is, stands nothing that writes another. `AppendKeeps`, `PushKeeps`,
`WriteAndRead` and `TakeNext` say what each change of a queue does to these, and
`StepUpdate` puts them together along a pass.

The last part of `ConnectionProofs` proves, for `MaxLate = 0`, that is, when a pad never answers a
command after its response timeout: `RepliesAreOwn` (`ReplyIsOwn`) and `OneJob`
(`OneJobAtWriter`). With late answers both fail: the code cannot tell whose answer
it has (run `connection_reply`). `ReplyIsOwn` says nothing of what is on its way;
`OneInTransit` does: packets at the writer, at the pad, received and in `check_reads`
are together at most one command's, that in flight.

`SlotsProofs` proves of `Slots`, for any set of pads, jumpers, assignments, failing
opens, reads and writes (from the types of the constants):

- `TypeCorrect`, `Aligned` (`SlotsAligned`), `Ordered` (`PairOrdered`) and the action
  property `LonePlaced` (`LonePlacedOnConnect`), all from `SlotsInv`: in a pass the
  pads that were connected when it began still are or their slots are free
  (`WasKept`), so two pads are in order until the pass that connects one of them
  (`PairStays`), which orders them before it ends;
- `ListenerKnows` (`ListenerInStep`) for pads of which each has a jumper of its own
  (`OneOfEach`) and an application that assigns no pads (`OnlyJumpers`). Elsewhere
  the property is not true: an assignment that moves a lone pad announces it in its
  new slot and says nothing of the one it leaves; and a pad that connects and swaps
  with one that was there (of two of the same jumper, the one left in the other
  one's slot) is announced alone. The run has the same hypotheses.

`LightsProofs` proves of `Lights`, for any versions of the pads, any number of frames,
swaps and other calls, with pads that come and go (from `LightsAssumption`):

- `Whole` (`StagedWhole`), from `Shape`. What is staged is inductive only with
  `DueTogether`: a frame's first two entries are due together, so that a pass takes
  both or none and never leaves two of three for `set_lights` to overwrite;
- `NotBack` (`NeverOlder`), from `InOrder`: of two commands for the same part of a
  pad, the one that is nearer to it is never the newer, over what is lit, in flight,
  queued and staged (for either slot, since a swap may make it the other's);
- `StaysReleased` (`ReleasedStays`), from `AfterRelease`: what a pad has staged, queued
  or in flight is newer than its last release, or the release is still queued;
- `NewestStays` (`NewestOnItsWay`), from `NewestInv`: behind a command of the newest
  frame stands nothing that turns the pad off (`LastPairs`), nothing in the queue does
  so once a part of it has come, and an answered command is what the pad shows. That a
  newer frame's part does not replace the newest one's needs `InOrder`;
- `Bounded` (`BacklogBounded`): entries are handed on only when no queue holds lights,
  and no more than four are ever staged.

The lemmas on sequences (`Concat`, `TailSorted`, `RetainSorted`, ...) say what each
change of a queue does to its members and to any relation between an earlier and a
later one; `PassFlight`, `PassWay` and `PassEntries` put them together for a pass,
once for all three invariants.

`LifecycleProofs` proves of `Lifecycle` and `Animation`, for any number of callers and
players and any animations (from `LifecycleAssumption` and `AnimationAssumption`, of
which the former keeps the names of players apart from those of other threads):

- `TypeCorrect` (`TypeOK`, with who holds `ManagerShared`), `WithinAnimation`
  (`FrameExists`) and the action property `PlaysIntroOnce` (`IntroOnce`), from
  `ThreadsInv`. The holders are inductive only because a closed pad has no writer
  thread left when the next is opened (`WriterGone`);
- for at most one thread that switches automatic animation (`OneSwitcher`): `OneAtATime`
  (`OnePlayer`), `OffIsOff` (`OffMeansOff`), `QuietDrop` (`QuietAfterDrop`) and `LightsKept`
  (`DirectLightsKept`), from `Switching`: a player that runs is the one in `anim_thread`
  or in the hands of the caller that starts or joins it, which finds `anim_thread`
  empty. Without `OneSwitcher` two players may run and one of them be left behind,
  as `PROJECT.json` says of `manager.rs:404`.

`ProtocolProofs` and `WireProofs` prove of `Wire`, for any pads, firmware versions,
configurations, readings and animations, any sizes of reports, words, levels and
uploads, and any number of calls, replugs, broken-off answers and losses (from
`WireAssumption` and the assumptions of the modules it extends):

- `SplitWhole`: `SplitBuffer` finds in a buffer exactly the packets it is made of;
  `CommandArrives`: what `BuildCommandPackets` cuts up arrives as it was;
- `WholePacketsHolds` (`WholePackets`), from `WireInv`. That no packet has been put
  together wrongly says nothing of the next one: `Streaming` says of what is in the
  buffer and on its way, cut up as it will be, that it continues what the
  reassembler has under way (`Fed`), from wherever in it the device may start to
  listen when the identity arrives in its middle. There is one lemma for each way the
  stream changes: `FedAnswered`, `FedIdentity`, `FedStall`, `FedPoll`, `FedLeft`, and
  for an update `FedReading` and `FedWaiting`;
- `FirmwareKnown`: `FirmwareInv`, the version in use is that of the pad in the slot, as
  is each that is on its way, and any other answer there ends the command it is for
  (`Named`). Both conversions and every parse depend on it;
- `OwnSettingsHolds` (`OwnSettings`) and `SpareBytesKeptHolds` (`SpareBytesKept`), from
  `OwnInv`: every byte of a setting in a pad's memory, in an answer, in the cache, in
  what is wanted, and in each command queued or in flight, is that pad's own. It holds
  of a cache only while `have_config` does, and of `raw_old_config` only for the bytes
  without a use, which the conversion takes from there (`OwnConverted`);
- `ReadingExactHolds` (`ReadingExact`), from `SenseInv`: an answer with readings is one
  the pad has made. `AnswerParsed` is the lemma behind it: parsing what a pad has
  packed gives the details of each panel back. It rests on binary numbers
  (`SumBit`: a bit of a word is what the panel of that number has put there;
  `NumberOfBits`; `SignedBack`) and on where each part of the details is
  (`DetailsPlaced`).

The last three have hypotheses, which the instance of `wire_exchange` satisfies
(`MCVersioned` and `MCNoLetters` of `MCWire`):

- `Versioned`, for settings: a pad of old firmware has a `config_version` below 255,
  and the application leaves it as it is. Otherwise `convert_to_new_config` does not
  read what the pad has (see the last but one of the disagreements above);
- `NoLookalikes`: the end of an answer that was under way when the connection was
  opened does not begin with the letter of a configuration (`g`, `G`), respectively of
  a reading (`y`). The reassembler takes a packet without a start for one, and
  `handle_packets` looks at its first byte only: if it is 71, 103 or 121 the rest of a
  configuration is taken for an answer, until the next read corrects the cache.

`UploadWholeHolds` proves `UploadWhole`, whose condition is that no pause ended before
the packets it follows were acknowledged, for at most 255 panels (`Master` is the
number 255), graphics whose numbers are below `NoFrame` (`2 * Slots <= 255`; 9 and 64
in the code), at most one packet that a panel misses (`MaxLosses <= 1`: each packet
goes twice, so that a second loss may hit the repetition of the first) and
`NoLookalikes` for the letters of a configuration. Its two ends are lemmas of their own:

- `UploadPrepared`: what `prepare_upload` makes of an animation is `Prepared`. Each
  cell of a panel's memory is sent by two packets with its value in `Drawing`, so that
  one of them may be lost; between two packets for a panel there is a pause as long as
  the first is written (`Paced`); the timing's packets bring `Schedule`, and the last
  puts it into force. `RoundsCover` and `PacedRounds` follow the packets through the
  rounds in which the panels take turns;
- `ShownIsPicture`: a pad with `Drawing` in its memory and `Schedule` in force shows the
  animation as it was drawn. `PaletteFacts` and `PackedIndex` find a colour again in
  the packed graphics, `LoopFound` the marked frame, `LedPlacesFound` the place of each
  LED on the picture.

Between them are two invariants, each with one lemma for every kind of step:

- `TalkInv` says that what the device takes for the answer to an upload packet is that
  answer: the end of an older answer would let the next packet go out too early. What is
queued and in flight are packets of the upload (`AllOfUpload`). In
  `Opening`, before the configuration has been read, nothing that can still arrive
  makes `have_config` true except the last report of the pad's own answer, after which
  nothing is on its way; this is where `NoLookalikes` is needed. In `Opened`, after
  it, the only thing that can arrive is the acknowledgement of the packet in flight,
  which the pad then has;
- `UploadInv` says how far the upload has come, as long as no pause was late.
  `Underway`: the application has gone through the first k commands, and those the pad
  has not taken are in line, in their order, with no pause among them (`InLine`: a
  pause that is not late finds the line empty); `Arrived`:
  the panels have stored all of their packets but the lost one, the staged timing has
  all of its own, a panel that still writes has been sent something since the last
  pause that was long enough, and after the last packet the staged timing is in force.
  `Paused` and `PanelReady` are why a panel is never written to while it is busy: a
  packet that is repeated after its acknowledgement was lost goes out after the
  timeout, when nothing is busy. `Finished`: what an upload has left in the memories
  is all of `Drawing` and `Schedule` (`AllArrived`), and the upload of the other type
  does not touch it.

What a fold, or a function defined by recursion, gives is proved without induction
theorems that take an operator: a set of naturals without a least member is empty
(`SetInduction`), and the function is shown to exist as the limit of those on shorter
intervals (`FoldTable`, `HandleFold`, `WordFold`).

Every invariant that the passing runs check is a theorem. Only model-checked: all
liveness (liveness under fairness and ENABLED are out of the prover's reach), and
the properties that the disagreements refute.

## Not modelled

- `recorder.rs`, `profile.rs`, `bin/`, `test_helpers.rs`: I/O, diagnostics, tools
  and test doubles; nothing depends on their state.
- `error.rs`, `lib.rs` and the rest of `config.rs`: texts and plain data.
- The bytes of a frame of lights, for the 16 and the 25 LED layout, and the 14x15
  GIF layout, which cannot be uploaded.
- hidapi, USB and the pad's firmware are external: the pad answers, or does not;
  reads, writes and opens fail at any moment.
- GIF decoding in `lights.rs` belongs to a library.

## Plan

1. `Connection`, `Slots`, `Lights`, `Device` (done), in the order in which later
   parts depend on them.
2. `Lights` with a swap of the slots, `Protocol`, `Configuration`, `SensorTest`,
   `Upload` and their composition `Wire` (done).
3. `Lifecycle` (done for one caller that switches): a second one.
4. Sensor requests and lights in one queue; a pad that answers none of its sensor
   requests, without the bound on how many are queued.
5. Proofs: all safety properties of `Connection`, its refinement, `Device`, `Slots`,
   `Lights`, `Lifecycle`, `Animation` and `Wire` (done).
