------------------------------- MODULE Slots --------------------------------
(***************************************************************************)
(* The manager's two player slots (src/manager.rs): discovery of pads, the *)
(* opening and closing of connections, the ordering of the two slots by    *)
(* jumper or by the user's assignment, the poll thread that goes with each *)
(* connection, and what the application's event callback is told.          *)
(*                                                                         *)
(* The main thread's loop is                                               *)
(*                                                                         *)
(*   check -> [enumerate -> found -> open] -> pass -> update ... -> order  *)
(*                                                                         *)
(* It holds the state lock in open, update, reap and order, and in no      *)
(* other: in check, enumerate, found and pass an API call may come in      *)
(* between.  Poll threads never take the lock.                             *)
(*                                                                         *)
(* A pad is its USB path and its serial number, so pads have distinct      *)
(* serials.  A connection is named by its pad.  Inside a connection only   *)
(* what the slots depend on is kept: that identity and configuration have  *)
(* come (module Connection), and read and write errors.                    *)
(***************************************************************************)
EXTENDS Integers, FiniteSets

CONSTANTS
  Pads,         \* the pads that may be plugged in
  NoPad,        \* None
  Player2,      \* the pads whose jumper says player 2
  Assignments,  \* the player assignments the application may set
  SlowReplug,   \* whether a pad stays unplugged until an enumeration misses it
  Faulty,       \* whether a plugged-in pad's writes, and the open of its write
                \* handle, may fail
  ReadFaulty,   \* whether the open of a plugged-in pad's read handle may fail
  Inputs        \* the pads whose poll threads report input

Slot == {0, 1}
Other(i) == 1 - i
NoSlot == 2     \* a poll thread that is not about to report

ASSUME SlotsAssumption ==
  /\ NoPad \notin Pads
  /\ Player2 \subseteq Pads
  /\ Assignments \subseteq [Slot -> Pads \cup {NoPad}]
  /\ SlowReplug \in BOOLEAN /\ Faulty \in BOOLEAN
  /\ ReadFaulty \in BOOLEAN /\ Inputs \subseteq Pads

VARIABLES
  \* ManagerState
  device,       \* devices[i].connection, by the pad it is open to
  ready,        \* the pads for which is_connected() holds
  failed,       \* failed_paths
  assignment,   \* player_assignment
  rested,       \* the enumeration interval has passed
  \* ManagerShared::poll_threads and the threads
  thread,       \* poll_threads[i], by the pad whose read handle it owns
  polling,      \* the threads that still run
  stopping,     \* the threads whose stop flag is set
  index,        \* the pad_index that p's input callback reads
  loaded,       \* what it has read, until it has reported
  \* each connection
  readError, writeError,
  answered,     \* identity and configuration wait to be processed
  \* main thread
  main, at,     \* where it is, and which slot it updates
  was,          \* was_connected
  seen, todo,   \* the last enumeration, and what of it is left to look at
  \* USB, external
  plugged, dead,   \* dead: connections whose pad was unplugged since
  \* the application, external
  view          \* the pad it believes to be in each slot

slots    == <<device, ready, failed, assignment>>
threads  == <<thread, polling, stopping, index, loaded>>
links    == <<readError, writeError, answered>>
progress == <<main, at, was, seen, todo, rested>>
usb      == <<plugged, dead>>
vars     == <<slots, threads, links, progress, usb, view>>

Locked == main \in {"open", "update", "reap", "order"}

Connections == {device[i] : i \in Slot} \ {NoPad}
ReadySlots  == {i \in Slot : device[i] \in ready}

Init ==
  /\ device = [i \in Slot |-> NoPad] /\ thread = device /\ view = device
  /\ ready = {} /\ failed = {} /\ rested = TRUE
  /\ assignment = [i \in Slot |-> NoPad]
  /\ polling = {} /\ stopping = {}
  /\ index = [p \in Pads |-> 0] /\ loaded = [p \in Pads |-> NoSlot]
  /\ readError = {} /\ writeError = {} /\ answered = {}
  /\ main = "check" /\ at = 0 /\ was = {} /\ seen = {} /\ todo = {}
  /\ plugged = {} /\ dead = {}

-----------------------------------------------------------------------------
(* Ordering *)

\* override_should_swap: an assignment orders the slots if it gives every pad
\* that is connected a slot, its own (keep) or the other one's (swap).
\* (The mutant lets one pad of two decide.)
OverrideKeepsAny(a) == \E i \in ReadySlots : a[i] = device[i]
OverrideKeeps(a) ==
  ReadySlots # {} /\ \A i \in ReadySlots : a[i] = device[i]
OverrideSwaps(a) ==
  ReadySlots # {} /\ \A i \in ReadySlots : a[Other(i)] = device[i]

\* Jumper ordering, where there is no override.  (The mutant orders pairs only.)
JumperSwapsPair ==
  ReadySlots = Slot /\ device[0] \in Player2 /\ device[1] \notin Player2
JumperSwaps ==
  /\ ReadySlots = Slot =>
       ~(device[0] \in Player2 <=> device[1] \in Player2)
  /\ \/ 0 \in ReadySlots /\ device[0] \in Player2
     \/ 1 \in ReadySlots /\ device[1] \notin Player2

ShouldSwap(a) ==
  /\ ~OverrideKeeps(a)
  /\ OverrideSwaps(a) \/ JumperSwaps

Swapped(f) == [i \in Slot |-> f[Other(i)]]

\* correct_device_order's swap: devices, poll threads and pad indices move
\* together.  (The mutant leaves poll_threads as it was.)
SwapSlotsOnly ==
  /\ device' = Swapped(device)
  /\ index' = [p \in Pads |-> IF p \in Connections THEN Other(index[p])
                              ELSE index[p]]
  /\ UNCHANGED thread
SwapSlots ==
  /\ device' = Swapped(device)
  /\ thread' = Swapped(thread)
  /\ index' = [p \in Pads |-> IF p \in Connections THEN Other(index[p])
                              ELSE index[p]]

\* What the application believes after Connected events for the slots in S.
Announce(S) == view' = [i \in Slot |-> IF i \in S THEN device'[i] ELSE view[i]]

-----------------------------------------------------------------------------
(* The main thread: attempt_connections *)

CheckSlots ==
  /\ main = "check"
  /\ main' = IF rested /\ NoPad \in {device[i] : i \in Slot}
             THEN "enumerate" ELSE "pass"
  /\ UNCHANGED <<slots, threads, links, at, was, seen, todo, rested, usb, view>>

Enumerate ==
  /\ main = "enumerate"
  /\ seen' = plugged
  /\ main' = "found"
  /\ UNCHANGED <<slots, threads, links, at, was, todo, rested, usb, view>>

\* The lock is taken again; a failed path that has disappeared is forgotten.
\* (The mutant never forgets one.)
StillFailedAll == failed
StillFailed == failed \cap seen

BeginOpen ==
  /\ main = "found"
  /\ rested' = FALSE
  /\ failed' = StillFailed
  /\ todo' = seen
  /\ main' = "open"
  /\ UNCHANGED <<device, ready, assignment, threads, links, at, was, seen, usb,
                 view>>

OpenSkip(p) ==
  /\ main = "open" /\ p \in todo
  /\ p \in failed \/ p \in Connections
  /\ todo' = todo \ {p}
  /\ UNCHANGED <<slots, threads, links, main, at, was, seen, rested, usb, view>>

\* A path that is to be opened, and slot i is the first free one.
Opens(p, i) ==
  /\ main = "open" /\ p \in todo \ (failed \cup Connections)
  /\ device[i] = NoPad
  /\ i = 1 => device[0] # NoPad
  /\ todo' = todo \ {p}

ReadOpenFails(p) ==
  /\ ReadFaulty \/ p \notin plugged
  /\ \E i \in Slot : Opens(p, i)
  /\ failed' = failed \cup {p}
  /\ UNCHANGED <<device, ready, assignment, threads, links, main, at, was, seen,
                 rested, usb, view>>

WriteOpenFails(p) ==
  /\ Faulty \/ p \notin plugged
  /\ \E i \in Slot : Opens(p, i)
  /\ UNCHANGED <<slots, threads, links, main, at, was, seen, rested, usb, view>>

\* Both opens succeed: the slot gets a connection and its poll thread.  (No
\* stale thread is left in the slot to reap: SlotsAligned.)
OpenPad(p) ==
  /\ p \in plugged
  /\ \E i \in Slot :
       /\ Opens(p, i)
       /\ device' = [device EXCEPT ![i] = p]
       /\ thread' = [thread EXCEPT ![i] = p]
       /\ index' = [index EXCEPT ![p] = i]
  /\ polling' = polling \cup {p}
  /\ UNCHANGED <<ready, failed, assignment, stopping, loaded, links, main, at,
                 was, seen, rested, usb, view>>

\* The list is at its end, or a path has no slot and the loop breaks.
OpenDone ==
  /\ main = "open"
  /\ \/ todo = {}
     \/ /\ NoPad \notin {device[i] : i \in Slot}
        /\ todo \ (failed \cup Connections) # {}
  /\ todo' = {}
  /\ main' = "pass"
  /\ UNCHANGED <<slots, threads, links, at, was, seen, rested, usb, view>>

-----------------------------------------------------------------------------
(* The main thread: the pass over the two devices, under the state lock *)

BeginPass ==
  /\ main = "pass"
  /\ was' = ReadySlots
  /\ main' = "update"
  /\ UNCHANGED <<slots, threads, links, at, seen, todo, rested, usb, view>>

\* (The mutant runs past the second device.)
NextDeviceBeyond ==
  /\ at' = at + 1
  /\ main' = IF at < 2 THEN "update" ELSE "order"
NextDevice ==
  /\ at' = 1
  /\ main' = IF at = 0 THEN "update" ELSE "order"

\* SmxDevice::update with no error; a pad whose identity and configuration
\* have come is connected from here on.
UpdateDevice ==
  /\ main = "update"
  /\ device[at] \notin readError \cup writeError
  /\ ready' = ready \cup ({device[at]} \cap answered)
  /\ NextDevice
  /\ UNCHANGED <<device, failed, assignment, threads, links, was, seen, todo,
                 rested, usb, view>>

\* (The mutant drops the PollThread without stopping it.)
ToStopNone == {}
ToStop == {thread[at]}

\* update() failed: close() reports Disconnected under the device's own pad
\* index, and its poll thread is stopped.
CloseDevice ==
  /\ main = "update"
  /\ device[at] \in readError \cup writeError
  /\ device' = [device EXCEPT ![at] = NoPad]
  /\ ready' = ready \ {device[at]}
  /\ answered' = answered \ {device[at]}
  /\ view' = [view EXCEPT ![index[device[at]]] = NoPad]
  /\ stopping' = stopping \cup ToStop
  /\ main' = "reap"
  /\ UNCHANGED <<failed, assignment, thread, polling, index, loaded, readError,
                 writeError, at, was, seen, todo, rested, usb>>

\* The join, with the state lock held; with the thread goes what is left of
\* the connection.
ReapThread ==
  /\ main = "reap"
  /\ thread[at] \notin polling
  /\ LET gone == {thread[at]}
     IN  /\ stopping' = stopping \ gone
         /\ readError' = readError \ gone
         /\ writeError' = writeError \ gone
         /\ dead' = dead \ gone
  /\ thread' = [thread EXCEPT ![at] = NoPad]
  /\ NextDevice
  /\ UNCHANGED <<slots, polling, index, loaded, answered, was, seen, todo,
                 rested, plugged, view>>

\* The slots to announce: those connected by this pass, wherever they are now.
\* (The mutant announces the slots they were in before the swap.)
JustConnectedBeforeSwap(swap) ==
  {i \in Slot : device[i] \in ready /\ i \notin was}
JustConnected(swap) ==
  {i \in Slot : /\ device'[i] \in ready
                /\ (IF swap THEN Other(i) ELSE i) \notin was}

OrderSlots ==
  /\ main = "order"
  /\ LET swap == ~(ReadySlots \subseteq was) /\ ShouldSwap(assignment)
     IN  /\ IF swap THEN SwapSlots ELSE UNCHANGED <<device, thread, index>>
         /\ Announce(JustConnected(swap))
  /\ main' = "check" /\ was' = {} /\ at' = 0
  /\ UNCHANGED <<ready, failed, assignment, polling, stopping, loaded, links,
                 seen, todo, rested, usb>>

-----------------------------------------------------------------------------
(* The API, the poll threads, and the outside *)

SetPlayerAssignment(a) ==
  /\ ~Locked
  /\ assignment' = a
  /\ IF ShouldSwap(a)
     THEN SwapSlots /\ Announce({i \in Slot : device'[i] \in ready})
     ELSE UNCHANGED <<device, thread, index, view>>
  /\ UNCHANGED <<ready, failed, polling, stopping, loaded, links, progress, usb>>

\* A poll thread has read an input report: it loads its pad index ...
LoadIndex(p) ==
  /\ p \in Inputs
  /\ p \in polling \ readError /\ loaded[p] = NoSlot
  /\ loaded' = [loaded EXCEPT ![p] = index[p]]
  /\ UNCHANGED <<slots, thread, polling, stopping, index, links, progress, usb,
                 view>>

\* ... and calls back with InputState for that pad.
ReportInput(p) ==
  /\ loaded[p] # NoSlot
  /\ loaded' = [loaded EXCEPT ![p] = NoSlot]
  /\ UNCHANGED <<slots, thread, polling, stopping, index, links, progress, usb,
                 view>>

ReadFails(p) ==
  /\ p \in polling \ readError /\ p \in dead
  /\ loaded[p] = NoSlot
  /\ readError' = readError \cup {p}
  /\ UNCHANGED <<slots, threads, writeError, answered, progress, usb, view>>

ThreadExits(p) ==
  /\ p \in polling /\ loaded[p] = NoSlot
  /\ p \in stopping \cup readError
  /\ polling' = polling \ {p}
  /\ UNCHANGED <<slots, thread, stopping, index, loaded, links, progress, usb,
                 view>>

WriteFails(p) ==
  /\ p \in Connections \ writeError
  /\ Faulty \/ p \in dead
  /\ writeError' = writeError \cup {p}
  /\ UNCHANGED <<slots, threads, readError, answered, progress, usb, view>>

PadAnswers(p) ==
  /\ p \in Connections \ (ready \cup answered \cup dead)
  /\ answered' = answered \cup {p}
  /\ UNCHANGED <<slots, threads, readError, writeError, progress, usb, view>>

EnumerationDue ==
  /\ ~rested
  /\ rested' = TRUE
  /\ UNCHANGED <<slots, threads, links, main, at, was, seen, todo, usb, view>>

Plug(p) ==
  /\ p \notin plugged
  /\ SlowReplug => p \notin seen
  /\ plugged' = plugged \cup {p}
  /\ UNCHANGED <<slots, threads, links, progress, dead, view>>

Unplug(p) ==
  /\ p \in plugged
  /\ plugged' = plugged \ {p}
  /\ dead' = dead \cup ({p} \cap Connections)
  /\ UNCHANGED <<slots, threads, links, progress, view>>

-----------------------------------------------------------------------------

Main ==
  \/ CheckSlots \/ Enumerate \/ BeginOpen \/ OpenDone
  \/ \E p \in Pads : OpenSkip(p) \/ ReadOpenFails(p) \/ WriteOpenFails(p)
                     \/ OpenPad(p)
  \/ BeginPass \/ UpdateDevice \/ CloseDevice \/ ReapThread \/ OrderSlots

PollThread(p) ==
  LoadIndex(p) \/ ReportInput(p) \/ ReadFails(p) \/ ThreadExits(p)

Outside ==
  \/ EnumerationDue
  \/ \E p \in Pads : WriteFails(p) \/ PadAnswers(p) \/ Plug(p) \/ Unplug(p)

Next ==
  \/ Main
  \/ Outside
  \/ \E p \in Pads : PollThread(p)
  \/ \E a \in Assignments : SetPlayerAssignment(a)

Spec == Init /\ [][Next]_vars

\* The threads run on, a broken pad's read fails, a connected pad answers, the
\* enumeration interval passes, and opens do not fail for ever.  (With Inputs
\* this is not enough: poll() returns once the pad has nothing more to read,
\* and a pad that always has keeps its thread from looking at the stop flag.)
Fairness ==
  /\ WF_vars(Main)
  /\ WF_vars(EnumerationDue)
  /\ \A p \in Pads :
       /\ WF_vars(ReportInput(p))
       /\ WF_vars(ReadFails(p))
       /\ WF_vars(ThreadExits(p))
       /\ WF_vars(PadAnswers(p))
       /\ SF_vars(OpenPad(p))

FairSpec == Spec /\ Fairness

-----------------------------------------------------------------------------
(* Properties *)

TypeOK ==
  /\ device \in [Slot -> Pads \cup {NoPad}]
  /\ thread \in [Slot -> Pads \cup {NoPad}]
  /\ view \in [Slot -> Pads \cup {NoPad}]
  /\ assignment \in [Slot -> Pads \cup {NoPad}]
  /\ ready \subseteq Pads /\ failed \subseteq Pads
  /\ polling \subseteq Pads /\ stopping \subseteq Pads
  /\ readError \subseteq Pads /\ writeError \subseteq Pads
  /\ answered \subseteq Pads
  /\ index \in [Pads -> Slot] /\ loaded \in [Pads -> Slot \cup {NoSlot}]
  /\ main \in {"check", "enumerate", "found", "open", "pass", "update", "reap",
               "order"}
  /\ at \in Slot /\ was \subseteq Slot
  /\ seen \subseteq Pads /\ todo \subseteq Pads
  /\ plugged \subseteq Pads /\ dead \subseteq Pads
  /\ rested \in BOOLEAN

\* No pad is open in both slots; poll_threads stays index-aligned with devices,
\* except for the thread being reaped; a running thread is one of them, so that
\* it can be stopped; and a connection's input callback reads its own slot's
\* index.  Through every interleaving of opens, errors, swaps and API calls.
SlotsAligned ==
  /\ device[0] = device[1] => device[0] = NoPad
  /\ \A i \in Slot :
       IF main = "reap" /\ i = at THEN device[i] = NoPad
       ELSE thread[i] = device[i]
  /\ polling \cup readError \cup writeError \cup stopping \cup dead
       \subseteq {thread[i] : i \in Slot}
  /\ ready \subseteq Connections
  /\ \A i \in Slot : device[i] # NoPad => index[device[i]] = i

\* Between passes two connected pads sit as set_player_assignment documents:
\* where the assignment puts them if it names the two of them, otherwise the
\* player 1 jumper in slot 0 if the jumpers differ.
PairOrdered ==
  ReadySlots = Slot /\ main \notin {"update", "reap", "order"} =>
    IF {assignment[0], assignment[1]} = {device[0], device[1]}
    THEN device = assignment
    ELSE device[1] \notin Player2 => device[0] \notin Player2

\* Where a pad that is connected alone belongs: the slot it is pinned to, or
\* its jumper's.
LonePlace(p) ==
  IF \E i \in Slot : assignment[i] = p
  THEN {i \in Slot : assignment[i] = p}
  ELSE {IF p \in Player2 THEN 1 ELSE 0}

AlonePlaced ==
  \A i \in Slot : ReadySlots = {i} => i \in LonePlace(device[i])

\* The two moments at which a pad is placed.
Connects == main = "order" /\ main' = "check" /\ ~(ReadySlots \subseteq was)
Places   == assignment' # assignment \/ Connects

\* README.md, "Player Assignment", and the comment on override_should_swap: "A
\* single connected pad follows a single-sided assignment", whatever its jumper
\* says.  A pad that connects while the other slot has none connected, and a
\* connected one when an assignment is set, is put where it belongs: through
\* opens, errors and assignments that come between its connection and its
\* ordering.  (The doc of set_player_assignment says otherwise: LoneByJumper.)
LonePlacedOnConnect == [][Places => AlonePlaced']_vars

\* The doc of set_player_assignment: with "a single pad" "ordering falls back to
\* the jumper".
LoneByJumper ==
  [][Places => \A i \in Slot :
                 ReadySlots' = {i} => (i = 1 <=> device'[i] \in Player2)]_vars

\* README, "Player Assignment": a single connected pad follows a single-sided
\* assignment - at all times, also when the other pad has just gone.
LoneFollowsAssignment ==
  main = "check" =>
    \A i \in Slot :
      ReadySlots = {i} /\ assignment[Other(i)] = device[i] =>
        assignment[i] = device[i]

\* What the application can tell from the events: between passes, a slot it
\* believes to hold a pad holds that pad, and a slot with a connected pad is
\* known to it.
ListenerInStep ==
  ~Locked => \A i \in Slot :
    view[i] = IF i \in ReadySlots THEN device[i] ELSE NoPad

\* ARCHITECTURE.md: "events still report the right pad because the input
\* callback reads the shared pad-index atomic": no pad's input is reported under
\* the number of another connected pad.
InputUnderOwnSlot ==
  [][\A p \in Connections :
       loaded[p] # NoSlot /\ loaded'[p] = NoSlot =>
         device[loaded[p]] \notin ready \ {p}]_vars

\* A pad that is plugged in for good, its writes not failing, is connected in
\* the end, whatever opens failed and whatever was unplugged before.
PluggedIsConnected ==
  \A p \in Pads :
    <>[](p \in plugged \ writeError) => <>[](p \in ready)

\* A connection with an error is closed and its poll thread joined: the main
\* thread, which joins it under the state lock, never waits for good.
ErrorIsReaped ==
  \A p \in Pads :
    p \in Connections /\ p \in readError \cup writeError
      ~> p \notin polling /\ main # "reap"

=============================================================================
