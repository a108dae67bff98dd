------------------------------- MODULE Lights -------------------------------
(***************************************************************************)
(* Panel lights (src/manager.rs): the staging list that set_lights fills   *)
(* and the main thread empties into the two connections, releasing a pad   *)
(* to its automatic lighting, and panel test mode.                         *)
(*                                                                         *)
(* A frame is its number: set_lights calls are counted, and every lights   *)
(* command carries the number of the call it was built for.  A frame is    *)
(* three commands per pad, for the inner LEDs ('4', from master version 4  *)
(* on), the top half ('2') and the bottom half ('3').                      *)
(*                                                                         *)
(* Of a connection (module Connection) its command queue and the command   *)
(* in flight are kept; of the slots (module Slots) whether they are open   *)
(* and configured, and which pad is in which.  Frames are staged by slot;  *)
(* the connections here are by pad, and follow their pad when the slots    *)
(* are swapped.  A pass of the main thread holds the state lock, so API    *)
(* calls come between passes.                                              *)
(*                                                                         *)
(* Time is in ticks of LIGHTS_LEGACY_COMMAND_DELAY; the frame interval is  *)
(* two of them.  Due times are counted down to 0, which is "now".          *)
(***************************************************************************)
EXTENDS Integers, Sequences, FiniteSets, Queue

CONSTANTS
  Version,       \* the master version of each pad
  MaxFrames,     \* bound: calls of set_lights
  TestModes,     \* the panel test modes that are set
  MaxTests,      \* bound: calls that queue other commands
  RefreshTicks,  \* PANEL_TEST_REFRESH_SECONDS
  MaxQueue,      \* bound: length of a queue an API call or a refresh may add to
  MaxSwaps,      \* bound: swaps, two frames or more before the last
  Replug         \* whether pads may be unplugged

Slot == {0, 1}
Pad  == {0, 1}
FrameInterval == 2
LegacyDelay == 1

ASSUME LightsAssumption ==
  /\ Version \in [Pad -> {3, 4}]
  /\ MaxFrames \in Nat /\ MaxTests \in Nat /\ MaxSwaps \in Nat
  /\ RefreshTicks \in Nat \ {0} /\ MaxQueue \in Nat
  /\ "off" \in TestModes
  /\ Replug \in BOOLEAN

Parts  == <<"inner", "top", "bottom">>
Frames == 0..MaxFrames

\* Commands are tuples: <<part, frame>>, <<"auto">> ("S 1"), <<"dark">> (the
\* legacy 'l' command, all zero), <<"test", mode>>, and those that change
\* nothing here: <<"strip">> (the platform's LEDs) and <<"serial">>.
None == <<>>
LightsCommands == {Parts[k] : k \in 1..3} \X (1..MaxFrames)
IsLights(c) == c \in LightsCommands
VARIABLES
  pending,    \* pending_lights: [due, cmd], cmd[slot] = None for length zero
  delay,      \* delay_lights_until
  test, last, \* panel_test_mode, last_sent_panel_test_mode
  refresh,    \* until last_panel_test_sent_at is PANEL_TEST_REFRESH_SECONDS ago
  swaps,      \* swaps of the slots so far
  link,       \* by pad: its device: "closed", "open" or "ready" (configured)
  queue,      \* pending_commands of its connection
  flight,     \* current_command
  answered,   \* its answer has come
  lit,        \* external: the frame each part of a pad shows
  auto, mode, \* external: its automatic lighting is on; its test mode
  frames,     \* calls of set_lights
  tests,      \* calls of set_panel_test_mode, set_platform_lights and
              \* set_serial_numbers
  newest,     \* history: the frame that each pad should show, 0 for none
  released    \* history: frames at the last release of each pad

staging == <<pending, delay>>
testing == <<test, last, refresh>>
links   == <<swaps, link, queue, flight, answered>>
pads    == <<lit, auto, mode>>
history == <<frames, tests, newest, released>>
vars    == <<staging, testing, links, pads, history>>

Dark == [k \in 1..3 |-> 0]

Init ==
  /\ pending = <<>> /\ delay = 0
  /\ test = "off" /\ last = "off" /\ refresh = 0
  /\ swaps = 0
  /\ link = [i \in Pad |-> "closed"]
  /\ queue = [i \in Pad |-> <<>>]
  /\ flight = [i \in Pad |-> None] /\ answered = [i \in Pad |-> FALSE]
  /\ lit = [i \in Pad |-> Dark]
  /\ auto = [i \in Pad |-> TRUE] /\ mode = [i \in Pad |-> "off"]
  /\ frames = 0 /\ tests = 0 /\ newest = [i \in Pad |-> 0]
  /\ released = [i \in Pad |-> 0]

Configured == {i \in Pad : link[i] = "ready"}
Open       == {i \in Pad : link[i] # "closed"}

\* The pad in slot s, and the slot of pad s.
At(s) == IF swaps % 2 = 0 THEN s ELSE 1 - s

\* The bound on API calls.
Room == \A i \in Pad : Len(queue[i]) < MaxQueue

-----------------------------------------------------------------------------
(* set_lights *)

\* What slot s gets as its kth command of frame f when the slots in S are
\* selected.
Share(s, k, f, S) ==
  IF s \in S /\ (k = 1 => Version[At(s)] >= 4) THEN <<Parts[k], f>> ELSE None

\* (The mutant counts the leftover of a legacy frame as a frame.)
HasRoomWide == Len(pending) < 4
HasRoom == Len(pending) < 3

\* A new frame at the end, not before its turn.
Stage(f, S) ==
  LET late == IF \E i \in Configured : Version[i] >= 4 THEN 0 ELSE LegacyDelay
  IN  pending' = pending \o
        [k \in 1..3 |->
           [due |-> delay + (IF k = 3 THEN late ELSE 0),
            cmd |-> [s \in Slot |-> IF At(s) \in Configured
                                    THEN Share(s, k, f, S) ELSE None]]]

\* The last three entries get the new frame, for the pads that are configured.
\* (The mutant takes the first three.)
Overwrite(f, S, base) ==
  [n \in DOMAIN pending |->
     IF n - base \notin 1..3 THEN pending[n]
     ELSE [pending[n] EXCEPT !.cmd = [s \in Slot |->
             IF At(s) \in Configured THEN Share(s, n - base, f, S) ELSE @[s]]]]
RestageFirst(f, S) == pending' = Overwrite(f, S, 0)
Restage(f, S) == pending' = Overwrite(f, S, Len(pending) - 3)

SetLights(S) ==
  /\ test = "off"
  /\ frames < MaxFrames
  /\ frames' = frames + 1
  /\ IF HasRoom
     THEN Configured # {} /\ Stage(frames', S) /\ delay' = delay + FrameInterval
     ELSE Restage(frames', S) /\ UNCHANGED delay
  /\ newest' = [i \in Pad |->
                  IF i \notin Configured THEN newest[i]
                  ELSE IF At(i) \in S THEN frames' ELSE 0]
  /\ UNCHANGED <<testing, links, pads, tests, released>>

-----------------------------------------------------------------------------
(* The other calls of the API *)

Unstage(i) == [n \in DOMAIN pending |-> [pending[n] EXCEPT !.cmd[At(i)] = None]]

\* drop_queued_lights, and the release behind what is left.  (The mutant drops
\* nothing.)
WithoutLights(q) == Retain(q, Members(q) \ LightsCommands)
ReleasedUndropped(q) == Append(q, <<"auto">>)
Released(q) == Append(WithoutLights(q), <<"auto">>)

\* Called only when set_lights was called since the last time: a second release
\* in a row finds nothing to do.  The bound is on what is left in the queue, so
\* that releases meet frames that wait there.
ReenableAutoLightsForPad(i) ==
  /\ Len(WithoutLights(queue[i])) < MaxQueue
  /\ released[i] < frames
  /\ pending' = Unstage(i)
  /\ queue' = IF i \in Open THEN [queue EXCEPT ![i] = Released(@)] ELSE queue
  /\ released' = [released EXCEPT ![i] = frames]
  /\ newest' = [newest EXCEPT ![i] = 0]
  /\ UNCHANGED <<delay, testing, swaps, link, flight, answered, pads, frames,
                 tests>>

SetPanelTestMode(m) ==
  /\ m # test
  /\ tests < MaxTests
  /\ tests' = tests + 1
  /\ test' = m
  /\ newest' = [i \in Pad |-> 0]
  /\ UNCHANGED <<staging, last, refresh, links, pads, frames, released>>

\* A call that queues one plain command for all pads that take it.
Enqueue(c, takers) ==
  /\ Room /\ tests < MaxTests
  /\ tests' = tests + 1
  /\ queue' = [i \in Pad |->
                 IF i \in takers THEN Append(queue[i], <<c>>) ELSE queue[i]]
  /\ UNCHANGED <<staging, testing, swaps, link, flight, answered, pads, frames,
                 newest, released>>

SetPlatformLights == Enqueue("strip", {i \in Configured : Version[i] >= 4})
SetSerialNumbers  == Enqueue("serial", Open)

\* correct_device_order, when set_player_assignment or a pad that connects makes
\* it swap the slots.  Staged commands stay with their slot: what was staged for
\* a pad is now the other's, and the history that says what a pad should show
\* ends.  (With nothing staged a swap only exchanges the names of the slots.)
Swap ==
  /\ pending # <<>>
  /\ swaps < MaxSwaps /\ frames + 1 < MaxFrames
  /\ swaps' = swaps + 1
  /\ newest' = [i \in Pad |-> 0]
  /\ released' = [i \in Pad |-> 0]
  /\ UNCHANGED <<staging, testing, link, queue, flight, answered, pads, frames,
                 tests>>

-----------------------------------------------------------------------------
(* A pass of the main thread: what each step makes of the queues q *)

\* update(): an answered command is complete, and the next one goes out.
\* (The mutant does not take the answer.)
IdleFirst == {i \in Open : flight[i] = None}
Idle == {i \in Open : flight[i] = None \/ answered[i]}
Goes == {i \in Idle : queue[i] # <<>>}
AfterUpdate == [i \in Pad |-> IF i \in Goes THEN Tail(queue[i]) ELSE queue[i]]

\* (The mutant has no refresh.)
TestModeDueOnce == test # last
TestModeDue == test # last \/ (test # "off" /\ refresh = 0)

\* update_panel_test_mode
AfterTest(q) ==
  LET off == IF last = "off" /\ test # "off" THEN <<<<"dark">>>> ELSE <<>>
  IN  [i \in Pad |-> IF TestModeDue /\ i \in Open
                      THEN q[i] \o off \o <<<<"test", test>>>> ELSE q[i]]

\* has_unsent_lights of some connection.  (The mutant looks at slot 0 only.)
LightsUnsentFirst(q) == \E n \in DOMAIN q[0] : IsLights(q[0][n])
LightsUnsent(q) == \E i \in Pad : \E n \in DOMAIN q[i] : IsLights(q[i][n])

\* How many staged entries send_pending_lights consumes.
Count(q) ==
  LET later == {n \in DOMAIN pending : pending[n].due > 0}
  IN  IF LightsUnsent(q) THEN 0
      ELSE IF later = {} THEN Len(pending)
      ELSE (CHOOSE n \in later : \A m \in later : n <= m) - 1

\* send_command_lights, for several commands.  (The mutant is
\* send_command_priority.)
EnqueueFirst(q, cmds) ==
  [n \in DOMAIN cmds |-> cmds[Len(cmds) + 1 - n]] \o q
EnqueueLights(q, cmds) == q \o cmds

\* What the first n staged entries hold for pad i.
Handed(i, n) ==
  Retain([m \in 1..n |-> pending[m].cmd[At(i)]], LightsCommands)

AfterLights(q) ==
  [i \in Pad |-> IF i \in Open THEN EnqueueLights(q[i], Handed(i, Count(q)))
                  ELSE q[i]]

Pass ==
  LET q == AfterTest(AfterUpdate)
  IN  /\ queue' = AfterLights(q)
      /\ flight' = [i \in Pad |-> IF i \in Goes THEN Head(queue[i])
                                   ELSE IF i \in Idle THEN None ELSE flight[i]]
      /\ answered' = [i \in Pad |-> answered[i] /\ i \notin Idle]
      /\ IF TestModeDue THEN last' = test /\ refresh' = RefreshTicks
         ELSE UNCHANGED <<last, refresh>>
      /\ pending' = SubSeq(pending, Count(q) + 1, Len(pending))
      /\ UNCHANGED <<delay, test, swaps, link, pads, history>>

-----------------------------------------------------------------------------
(* Slots, pads and time *)

OpenPad(i) ==
  /\ link[i] = "closed"
  /\ link' = [link EXCEPT ![i] = "open"]
  /\ UNCHANGED <<staging, testing, swaps, queue, flight, answered, pads,
                 history>>

Ready(i) ==
  /\ link[i] = "open"
  /\ link' = [link EXCEPT ![i] = "ready"]
  /\ UNCHANGED <<staging, testing, swaps, queue, flight, answered, pads,
                 history>>

\* The pad is gone, and with it the connection; the next one is like new.
ClosePad(i) ==
  /\ Replug
  /\ i \in Open
  /\ link' = [link EXCEPT ![i] = "closed"]
  /\ queue' = [queue EXCEPT ![i] = <<>>]
  /\ flight' = [flight EXCEPT ![i] = None]
  /\ answered' = [answered EXCEPT ![i] = FALSE]
  /\ lit' = [lit EXCEPT ![i] = Dark]
  /\ auto' = [auto EXCEPT ![i] = TRUE] /\ mode' = [mode EXCEPT ![i] = "off"]
  /\ newest' = [newest EXCEPT ![i] = 0]
  /\ UNCHANGED <<staging, testing, swaps, frames, tests, released>>

\* Whether a command turns off what a frame has lit.
Takes(c) == c \in {<<"auto">>, <<"dark">>}

\* The pad executes the command in flight and answers.
Execute(i) ==
  /\ flight[i] # None /\ ~answered[i]
  /\ answered' = [answered EXCEPT ![i] = TRUE]
  /\ LET c == flight[i]
     IN  /\ lit' = [lit EXCEPT ![i] =
                      IF IsLights(c)
                      THEN [k \in 1..3 |->
                              IF Parts[k] = c[1] THEN c[2] ELSE @[k]]
                      ELSE IF Takes(c) THEN Dark ELSE @]
         /\ auto' = [auto EXCEPT ![i] =
                       IF Takes(c) \/ IsLights(c) THEN c = <<"auto">> ELSE @]
         /\ mode' = [mode EXCEPT ![i] = IF c[1] = "test" THEN c[2] ELSE @]
  /\ UNCHANGED <<staging, testing, swaps, link, queue, flight, history>>

Before(n) == IF n = 0 THEN 0 ELSE n - 1

Tick ==
  /\ pending' = [n \in DOMAIN pending |-> [pending[n] EXCEPT !.due = Before(@)]]
  /\ delay' = Before(delay)
  /\ refresh' = IF Room THEN Before(refresh) ELSE refresh
  /\ <<staging, refresh>> # <<staging, refresh>>'
  /\ UNCHANGED <<test, last, links, pads, history>>

-----------------------------------------------------------------------------

Api ==
  \/ \E S \in SUBSET Slot : SetLights(S)
  \/ \E i \in Pad : ReenableAutoLightsForPad(i)
  \/ \E m \in TestModes : SetPanelTestMode(m)
  \/ SetPlatformLights
  \/ SetSerialNumbers
  \/ Swap

Outside ==
  \/ Tick
  \/ \E i \in Pad : OpenPad(i) \/ Ready(i) \/ ClosePad(i) \/ Execute(i)

Next == Api \/ Pass \/ Outside

Spec == Init /\ [][Next]_vars

\* The main thread keeps passing, time goes on, and pads answer.
FairSpec ==
  /\ Spec
  /\ WF_vars(Pass) /\ WF_vars(Tick)
  /\ \A i \in Pad : WF_vars(Execute(i))

-----------------------------------------------------------------------------
(* Properties *)

\* The last three staged entries are one frame's, in the order of its parts, so
\* that set_lights may overwrite them; before them at most the bottom half of a
\* legacy frame is left.  Due times never decrease, so that the first entry that
\* is not due ends a pass, and the next frame is not due before them.
StagedWhole ==
  /\ Len(pending) \in {0, 1, 3, 4}
  /\ \A n \in DOMAIN pending : \A i \in Pad :
       pending[n].cmd[i] # None =>
         LET k == n + 3 - Len(pending)
         IN  pending[n].cmd[i][1] = IF k \in 1..3 /\ Len(pending) >= 3
                                    THEN Parts[k] ELSE "bottom"
  /\ \A n \in DOMAIN pending :
       /\ \A m \in 1..n : pending[m].due <= pending[n].due
       /\ pending[n].due <= delay

\* README: light frames are "bounded to one un-sent frame at a time": in a
\* connection never more wait than a frame's commands and the half that a
\* legacy frame has left, though both are handed on as soon as neither pad has
\* one waiting.
BacklogBounded ==
  \A i \in Pad :
    Cardinality({n \in DOMAIN queue[i] : IsLights(queue[i][n])}) <= 4

\* No part of a pad ever goes back to an older frame: last writer wins, through
\* staging, replacement, splitting and the other commands of the queue.
NeverOlder ==
  [][\A i \in Pad : \A k \in 1..3 :
       lit'[i][k] # 0 => lit[i][k] <= lit'[i][k]]_vars

\* reenable_auto_lights_for_pad: "Drops pad's share of every queued lights frame
\* first": from then on no frame that was staged or queued before is sent to the
\* pad, and none, not even the one in flight, turns its automatic lighting off
\* again once the release has been executed.
ReleasedStays ==
  [][\A i \in Pad :
       LET sent == flight'[i] # flight[i] /\ IsLights(flight'[i])
           shown == IsLights(flight[i]) /\ <<"auto">> \notin Members(queue[i])
       IN  /\ sent => released[i] < flight'[i][2]
           /\ auto[i] /\ ~auto'[i] /\ shown => released[i] < flight[i][2]]_vars

\* The newest frame set for a pad is never lost in part: each of its commands
\* has reached the pad or is still staged, queued or in flight.
NewestOnItsWay ==
  \A i \in Pad : newest[i] # 0 =>
    \A k \in 1..3 : (k = 1 => Version[i] >= 4) =>
      LET c == <<Parts[k], newest[i]>>
      IN  \/ lit[i][k] = newest[i]
          \/ flight[i] = c
          \/ c \in Members(queue[i])
          \/ \E n \in DOMAIN pending : pending[n].cmd[At(i)] = c

Shows(i, f) == \A k \in 1..3 : lit[i][k] = f \/ (k = 1 /\ Version[i] < 4)

\* The newest frame set for a pad is shown whole, unless a newer call, a release
\* or test mode supersedes it or the pad goes.
FrameReachesPad ==
  \A i \in Pad : \A f \in 1..MaxFrames :
    newest[i] = f ~> Shows(i, f) \/ newest[i] # f

\* The panel test mode reaches every pad, also one that connects later.
TestModeReachesPad ==
  \A i \in Pad : \A m \in TestModes :
    test = m /\ link[i] = "ready" ~>
      mode[i] = m \/ test # m \/ link[i] # "ready"

\* tests/integration.rs: "Lights should be blocked during panel test mode": no
\* lights command reaches a pad that is in a test mode the manager still wants.
BlockedInTest ==
  [][\A i \in Pad :
       mode[i] # "off" /\ test = mode[i] /\ answered'[i] /\ ~answered[i]
         => ~IsLights(flight[i])]_vars

=============================================================================
