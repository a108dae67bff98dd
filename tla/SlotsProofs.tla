---------------------------- MODULE SlotsProofs -----------------------------
(***************************************************************************)
(* What holds of the two player slots for any number of pads, any jumpers, *)
(* any assignments and any failing opens, reads and writes: a slot, its    *)
(* poll thread and its pad's index never come apart, and connected pads    *)
(* sit where the assignment or their jumpers put them.                     *)
(***************************************************************************)
EXTENDS Slots, TLAPS

-----------------------------------------------------------------------------
(* The inductive invariant *)

\* The main thread is in a pass over the devices.
Passing == main \in {"update", "reap", "order"}

\* The connected pads that OrderSlots has seen: in a pass, not those that the
\* pass itself has connected.
Announced == {i \in ReadySlots : Passing => i \in was}

\* The pads d are ordered as a asks, or by their jumpers.
InOrder(d, a) ==
  IF {a[0], a[1]} = {d[0], d[1]} THEN d = a
  ELSE d[1] \notin Player2 => d[0] \notin Player2

\* A pass only connects pads and closes connections: a pad that was connected
\* when it began still is, or its slot is free.
WasKept ==
  Passing => \A i \in was : i \in ReadySlots \/ device[i] = NoPad

\* Two pads are in order until the pass that connects one of them.
PairStays == Announced = Slot => InOrder(device, assignment)

SlotsInv ==
  /\ TypeOK
  /\ SlotsAligned
  /\ WasKept
  /\ PairStays

-----------------------------------------------------------------------------
(* Swapping and ordering *)

\* A swap moves what belongs to a slot together.
LEMMA SwapMoves ==
  ASSUME TypeOK, SlotsAligned, main # "reap", SwapSlots
  PROVE  /\ device' \in [Slot -> Pads \cup {NoPad}]
         /\ thread' \in [Slot -> Pads \cup {NoPad}]
         /\ index' \in [Pads -> Slot]
         /\ device'[0] = device[1] /\ device'[1] = device[0]
         /\ thread' = device'
         /\ {thread'[i] : i \in Slot} = {thread[i] : i \in Slot}
         /\ {device'[i] : i \in Slot} = {device[i] : i \in Slot}
         /\ \A i \in Slot : device'[i] # NoPad => index'[device'[i]] = i
<1> USE DEF TypeOK, SlotsAligned, SwapSlots, Swapped, Slot, Other
<1>1. /\ device' = [i \in Slot |-> device[1 - i]]
      /\ thread' = [i \in Slot |-> thread[1 - i]]
      /\ 1 - 0 = 1 /\ 1 - 1 = 0
  OBVIOUS
<1>2. /\ device' \in [Slot -> Pads \cup {NoPad}]
      /\ thread' \in [Slot -> Pads \cup {NoPad}]
      /\ device'[0] = device[1] /\ device'[1] = device[0]
      /\ thread'[0] = thread[1] /\ thread'[1] = thread[0]
  BY <1>1
<1>3. thread[0] = device[0] /\ thread[1] = device[1]
  OBVIOUS
<1>4. thread' = device'
  BY <1>2, <1>3
<1>5. index' \in [Pads -> Slot]
  OBVIOUS
<1>6. ASSUME NEW i \in Slot, device'[i] # NoPad
      PROVE  index'[device'[i]] = i
  <2>1. device'[i] = device[1 - i] /\ 1 - i \in Slot /\ 1 - (1 - i) = i
    BY <1>1
  <2>2. device'[i] \in Pads /\ device'[i] \in Connections
    BY <1>6, <2>1 DEF Connections
  <2>3. index[device'[i]] = 1 - i
    BY <1>6, <2>1
  <2> QED
    BY <2>1, <2>2, <2>3
<1> QED
  BY <1>2, <1>3, <1>4, <1>5, <1>6

\* Two connected pads end up in order.
LEMMA OrdersPair ==
  ASSUME TypeOK, SlotsAligned, ReadySlots = Slot,
         NEW a \in [Slot -> Pads \cup {NoPad}],
         NEW d \in [Slot -> Pads \cup {NoPad}],
         IF ShouldSwap(a) THEN d[0] = device[1] /\ d[1] = device[0]
                          ELSE d = device
  PROVE  InOrder(d, a)
<1>1. /\ 0 \in Slot /\ 1 \in Slot /\ \A i \in Slot : i = 0 \/ i = 1
      /\ Other(0) = 1 /\ Other(1) = 0
  BY DEF Slot, Other
<1>2. device[0] # device[1]
  <2>1. device[0] \in Pads
    BY <1>1 DEF ReadySlots, TypeOK
  <2> QED
    BY <2>1, SlotsAssumption DEF SlotsAligned
<1>3. OverrideKeeps(a) <=> a[0] = device[0] /\ a[1] = device[1]
  BY <1>1 DEF OverrideKeeps
<1>4. OverrideSwaps(a) <=> a[1] = device[0] /\ a[0] = device[1]
  BY <1>1 DEF OverrideSwaps
<1>5. JumperSwaps <=> device[0] \in Player2 /\ device[1] \notin Player2
  BY <1>1 DEF JumperSwaps
<1>6. {a[0], a[1]} = {d[0], d[1]} =>
        OverrideKeeps(a) \/ OverrideSwaps(a)
  BY <1>2, <1>3, <1>4
<1>7. CASE OverrideKeeps(a)
  <2>1. d = device /\ a = d
    BY <1>1, <1>3, <1>7 DEF ShouldSwap, TypeOK
  <2> QED
    BY <2>1 DEF InOrder
<1>8. CASE ~OverrideKeeps(a) /\ OverrideSwaps(a)
  <2>1. a = d
    BY <1>1, <1>4, <1>8 DEF ShouldSwap
  <2> QED
    BY <2>1 DEF InOrder
<1>9. CASE ~OverrideKeeps(a) /\ ~OverrideSwaps(a)
  <2>1. d[1] \notin Player2 => d[0] \notin Player2
    BY <1>5, <1>9 DEF ShouldSwap
  <2> QED
    BY <1>6, <1>9, <2>1 DEF InOrder
<1> QED
  BY <1>7, <1>8, <1>9

-----------------------------------------------------------------------------
(* Steps *)

LEMMA InitInv == Init => SlotsInv
<1> SUFFICES ASSUME Init PROVE SlotsInv
  OBVIOUS
<1> USE DEF Init
<1>1. TypeOK
  BY DEF TypeOK, Slot, NoSlot
<1>2. SlotsAligned
  BY DEF SlotsAligned, Slot, Connections
<1>3. ReadySlots = {} /\ WasKept /\ PairStays
  BY DEF WasKept, PairStays, ReadySlots, Announced, Slot, Passing
<1> QED
  BY <1>1, <1>2, <1>3 DEF SlotsInv

\* What looks for pads but opens none.
LEMMA StepLook ==
  ASSUME SlotsInv,
         \/ CheckSlots \/ Enumerate \/ BeginOpen \/ OpenDone
         \/ \E p \in Pads : OpenSkip(p) \/ ReadOpenFails(p) \/ WriteOpenFails(p)
  PROVE  SlotsInv'
<1> USE DEF SlotsInv, slots, threads, links, usb
<1> DEFINE Kept ==
        /\ UNCHANGED <<device, ready, assignment, threads, links, at, was, usb,
                       view>>
        /\ ~Passing /\ ~Passing'
        /\ main' \in {"enumerate", "found", "open", "pass"}
        /\ failed' \subseteq Pads
        /\ seen' \subseteq Pads /\ todo' \subseteq Pads
        /\ rested' \in BOOLEAN
<1>1. Kept
  <2>1. CASE CheckSlots
    BY <2>1 DEF CheckSlots, TypeOK, Passing
  <2>2. CASE Enumerate
    BY <2>2 DEF Enumerate, TypeOK, Passing
  <2>3. CASE BeginOpen
    BY <2>3 DEF BeginOpen, StillFailed, TypeOK, Passing
  <2>4. CASE OpenDone
    BY <2>4 DEF OpenDone, TypeOK, Passing
  <2>5. ASSUME NEW p \in Pads,
               OpenSkip(p) \/ ReadOpenFails(p) \/ WriteOpenFails(p)
        PROVE  Kept
    BY <2>5 DEF OpenSkip, ReadOpenFails, WriteOpenFails, Opens, TypeOK, Passing
  <2> QED
    BY <2>1, <2>2, <2>3, <2>4, <2>5
<1>2. TypeOK'
  BY <1>1 DEF TypeOK
<1>3. SlotsAligned'
  BY <1>1 DEF SlotsAligned, Connections, Passing
<1>4. WasKept' /\ PairStays'
  BY <1>1 DEF WasKept, PairStays, Announced, ReadySlots
<1> QED
  BY <1>2, <1>3, <1>4

LEMMA StepOpenPad ==
  ASSUME SlotsInv, NEW p \in Pads, OpenPad(p)
  PROVE  SlotsInv'
<1> USE DEF SlotsInv
<1>1. PICK i \in Slot :
        /\ Opens(p, i)
        /\ device' = [device EXCEPT ![i] = p]
        /\ thread' = [thread EXCEPT ![i] = p]
        /\ index' = [index EXCEPT ![p] = i]
  BY DEF OpenPad
<1>2. /\ p # NoPad /\ p \notin Connections /\ device[i] = NoPad
      /\ main = "open" /\ main' = "open" /\ ~Passing /\ ~Passing'
  BY <1>1, SlotsAssumption DEF Opens, OpenPad, Passing
<1>3. \A j \in Slot : device[j] # p /\ thread[j] = device[j]
  BY <1>2 DEF Connections, SlotsAligned
<1>4. TypeOK'
  BY <1>1, <1>2 DEF TypeOK, OpenPad, Opens, links, usb
<1>5. SlotsAligned'
  <2>1. device'[0] = device'[1] => device'[0] = NoPad
    BY <1>1, <1>3 DEF SlotsAligned, TypeOK, Slot
  <2>2. \A j \in Slot : thread'[j] = device'[j]
    BY <1>1, <1>3 DEF TypeOK
  <2>3. (polling \cup readError \cup writeError \cup stopping \cup dead)'
          \subseteq {thread'[j] : j \in Slot}
    <3>1. NoPad \notin polling \cup readError \cup writeError \cup stopping
                         \cup dead
      BY SlotsAssumption DEF TypeOK
    <3>2. \A j \in Slot : j # i => thread'[j] = thread[j]
      BY <1>1 DEF TypeOK
    <3>3. thread'[i] = p /\ thread[i] = NoPad
      BY <1>1, <1>2, <1>3 DEF TypeOK
    <3>4. UNCHANGED <<readError, writeError, stopping, dead>>
          /\ polling' = polling \cup {p}
      BY DEF OpenPad, links, usb
    <3>5. \A q \in polling \cup readError \cup writeError \cup stopping
                     \cup dead : \E j \in Slot : q = thread[j]
      BY DEF SlotsAligned
    <3> QED
      BY <3>1, <3>2, <3>3, <3>4, <3>5
  <2>4. (ready \subseteq Connections)'
    <3>1. \A j \in Slot : device[j] # NoPad => device'[j] = device[j]
      BY <1>1, <1>2 DEF TypeOK
    <3>2. Connections \subseteq Connections'
      BY <3>1 DEF Connections
    <3> QED
      BY <3>2 DEF OpenPad, SlotsAligned
  <2>5. \A j \in Slot : device'[j] # NoPad => index'[device'[j]] = j
    BY <1>1, <1>3 DEF SlotsAligned, TypeOK
  <2> QED
    BY <1>2, <2>1, <2>2, <2>3, <2>4, <2>5 DEF SlotsAligned
<1>6. p \notin ready
  BY <1>2 DEF SlotsAligned
<1>7. WasKept' /\ PairStays'
  <2>1. i \notin Announced'
    BY <1>1, <1>6 DEF Announced, ReadySlots, TypeOK, OpenPad
  <2> QED
    BY <1>2, <2>1 DEF WasKept, PairStays
<1> QED
  BY <1>4, <1>5, <1>7

LEMMA StepBeginPass ==
  ASSUME SlotsInv, BeginPass
  PROVE  SlotsInv'
<1> USE DEF SlotsInv, BeginPass, slots, threads, links, usb
<1>1. ReadySlots \subseteq Slot /\ ReadySlots' = ReadySlots
  BY DEF ReadySlots
<1>2. TypeOK'
  BY <1>1 DEF TypeOK
<1>3. SlotsAligned'
  BY DEF SlotsAligned, Connections
<1>4. WasKept' /\ PairStays'
  BY <1>1 DEF WasKept, PairStays, Announced, Passing
<1> QED
  BY <1>2, <1>3, <1>4

LEMMA StepUpdateDevice ==
  ASSUME SlotsInv, UpdateDevice
  PROVE  SlotsInv'
<1> USE DEF SlotsInv, UpdateDevice, NextDevice, threads, links, usb
<1>1. /\ at \in Slot /\ 1 \in Slot /\ main = "update" /\ Passing
      /\ main' \in {"update", "order"} /\ Passing'
  BY DEF TypeOK, Slot, Passing
<1>2. TypeOK'
  BY <1>1 DEF TypeOK
<1>3. ready \subseteq ready' /\ ReadySlots \subseteq ReadySlots'
  BY DEF ReadySlots
<1>4. SlotsAligned'
  <2>1. Connections' = Connections
    BY DEF Connections
  <2>2. ready' \subseteq Connections
    <3>1. \A q \in {device[at]} \cap answered : q \in Connections
      BY <1>1, SlotsAssumption DEF TypeOK, Connections
    <3> QED
      BY <3>1 DEF SlotsAligned
  <2> QED
    BY <1>1, <2>1, <2>2 DEF SlotsAligned
<1>5. WasKept'
  BY <1>1, <1>3 DEF WasKept
<1>6. PairStays'
  <2>1. ASSUME Announced' = Slot
        PROVE  Announced = Slot
    <3>1. was = Slot /\ ReadySlots' = Slot
      BY <1>1, <2>1 DEF Announced, TypeOK, ReadySlots
    <3>2. \A i \in Slot : device[i] # NoPad
      BY <1>2, <3>1, SlotsAssumption DEF ReadySlots, TypeOK
    <3> QED
      BY <1>1, <3>1, <3>2 DEF WasKept, Announced, ReadySlots
  <2> QED
    BY <2>1 DEF PairStays
<1> QED
  BY <1>2, <1>4, <1>5, <1>6

LEMMA StepCloseDevice ==
  ASSUME SlotsInv, CloseDevice
  PROVE  SlotsInv'
<1> USE DEF SlotsInv, CloseDevice, usb
<1> DEFINE p == device[at]
<1>1. /\ at \in Slot /\ main = "update" /\ main' = "reap" /\ at' = at
      /\ p \in Pads /\ p # NoPad /\ thread[at] = p /\ Passing /\ Passing'
  BY SlotsAssumption DEF TypeOK, SlotsAligned, Passing
<1>2. /\ device' \in [Slot -> Pads \cup {NoPad}]
      /\ device'[at] = NoPad
      /\ \A i \in Slot : i # at => device'[i] = device[i]
  BY <1>1 DEF TypeOK
<1>3. TypeOK'
  <2>1. view' \in [Slot -> Pads \cup {NoPad}] /\ stopping' \subseteq Pads
    BY <1>1 DEF TypeOK, ToStop
  <2> QED
    BY <1>1, <1>2, <2>1 DEF TypeOK
<1>4. SlotsAligned'
  <2>1. device'[0] = device'[1] => device'[0] = NoPad
    BY <1>2 DEF SlotsAligned, Slot
  <2>2. \A i \in Slot :
          IF i = at THEN device'[i] = NoPad ELSE thread'[i] = device'[i]
    BY <1>1, <1>2 DEF SlotsAligned
  <2>3. (polling \cup readError \cup writeError \cup stopping \cup dead)'
          \subseteq {thread'[i] : i \in Slot}
    BY <1>1 DEF SlotsAligned, ToStop
  <2>4. ready' \subseteq Connections'
    <3>1. ASSUME NEW q \in ready'
          PROVE  q \in Connections'
      <4>1. q # p /\ q \in Connections
        BY <3>1 DEF SlotsAligned
      <4>2. PICK i \in Slot : device[i] = q /\ q # NoPad
        BY <4>1 DEF Connections
      <4>3. device'[i] = q
        BY <1>2, <4>1, <4>2
      <4> QED
        BY <4>2, <4>3 DEF Connections
    <3> QED
      BY <3>1
  <2>5. \A i \in Slot : device'[i] # NoPad => index'[device'[i]] = i
    BY <1>2 DEF SlotsAligned
  <2> QED
    BY <1>1, <2>1, <2>2, <2>3, <2>4, <2>5 DEF SlotsAligned
<1>5. \A i \in Slot : i # at /\ i \in ReadySlots => i \in ReadySlots'
  <2>1. ASSUME NEW i \in Slot, i # at, i \in ReadySlots
        PROVE  i \in ReadySlots'
    <3>1. device[i] # p
      BY <1>1, <2>1 DEF SlotsAligned, Slot
    <3> QED
      BY <1>2, <2>1, <3>1 DEF ReadySlots
  <2> QED
    BY <2>1
<1>6. WasKept'
  BY <1>1, <1>2, <1>5 DEF WasKept, TypeOK
<1>7. PairStays'
  <2>1. at \notin ReadySlots'
    BY <1>2, <1>3, SlotsAssumption DEF ReadySlots, TypeOK
  <2> QED
    BY <1>1, <2>1 DEF PairStays, Announced
<1> QED
  BY <1>3, <1>4, <1>6, <1>7

LEMMA StepReapThread ==
  ASSUME SlotsInv, ReapThread
  PROVE  SlotsInv'
<1> USE DEF SlotsInv, ReapThread, NextDevice, slots
<1>1. /\ at \in Slot /\ 1 \in Slot /\ main = "reap" /\ Passing
      /\ main' \in {"update", "order"} /\ Passing'
  BY DEF TypeOK, Slot, Passing
<1>2. /\ thread' \in [Slot -> Pads \cup {NoPad}]
      /\ thread'[at] = NoPad
      /\ \A i \in Slot : i # at => thread'[i] = thread[i]
  BY <1>1 DEF TypeOK
<1>3. TypeOK'
  BY <1>1, <1>2 DEF TypeOK
<1>4. SlotsAligned'
  <2>1. \A i \in Slot : thread'[i] = device'[i]
    BY <1>1, <1>2 DEF SlotsAligned
  <2>2. (polling \cup readError \cup writeError \cup stopping \cup dead)'
          \subseteq {thread'[i] : i \in Slot}
    <3>1. ASSUME NEW q \in (polling \cup readError \cup writeError \cup stopping
                                    \cup dead)'
          PROVE  q \in {thread'[i] : i \in Slot}
      <4>1. q # thread[at] /\ \E i \in Slot : q = thread[i]
        BY <3>1 DEF SlotsAligned
      <4> QED
        BY <1>2, <4>1
    <3> QED
      BY <3>1
  <2>3. Connections' = Connections
    BY DEF Connections
  <2> QED
    BY <1>1, <2>1, <2>2, <2>3 DEF SlotsAligned
<1>5. WasKept' /\ PairStays'
  BY <1>1 DEF WasKept, PairStays, Announced, ReadySlots
<1> QED
  BY <1>3, <1>4, <1>5

LEMMA StepOrderSlots ==
  ASSUME SlotsInv, OrderSlots
  PROVE  SlotsInv'
<1> USE DEF SlotsInv
<1> DEFINE swap == ~(ReadySlots \subseteq was) /\ ShouldSwap(assignment)
<1>1. /\ IF swap THEN SwapSlots ELSE UNCHANGED <<device, thread, index>>
      /\ Announce(JustConnected(swap))
      /\ main = "order" /\ main' = "check" /\ was' = {} /\ at' = 0
      /\ UNCHANGED <<ready, failed, assignment, polling, stopping, loaded,
                     links, seen, todo, rested, usb>>
  BY DEF OrderSlots
<1>2. Passing /\ ~Passing' /\ 0 \in Slot /\ 1 \in Slot
  BY <1>1 DEF Passing, Slot
<1> HIDE DEF swap
<1>3. /\ device' \in [Slot -> Pads \cup {NoPad}]
      /\ thread' \in [Slot -> Pads \cup {NoPad}]
      /\ index' \in [Pads -> Slot]
      /\ thread' = device'
      /\ {thread'[i] : i \in Slot} = {thread[i] : i \in Slot}
      /\ {device'[i] : i \in Slot} = {device[i] : i \in Slot}
      /\ \A i \in Slot : device'[i] # NoPad => index'[device'[i]] = i
      /\ IF swap THEN device'[0] = device[1] /\ device'[1] = device[0]
                 ELSE device' = device
  <2>1. CASE swap
    BY <1>1, <2>1, SwapMoves
  <2>2. CASE ~swap
    <3>1. thread = device
      BY <1>1 DEF TypeOK, SlotsAligned
    <3> QED
      BY <1>1, <2>2, <3>1 DEF TypeOK, SlotsAligned
  <2> QED
    BY <2>1, <2>2
<1>4. TypeOK'
  <2>1. view' \in [Slot -> Pads \cup {NoPad}]
    BY <1>1, <1>3 DEF Announce, TypeOK
  <2> QED
    BY <1>1, <1>2, <1>3, <2>1 DEF TypeOK, links, usb
<1>5. SlotsAligned'
  <2>1. device'[0] = device'[1] => device'[0] = NoPad
    BY <1>3 DEF SlotsAligned
  <2>2. Connections' = Connections
    BY <1>3 DEF Connections
  <2> QED
    BY <1>1, <1>3, <2>1, <2>2 DEF SlotsAligned, links, usb
<1>6. WasKept'
  BY <1>2 DEF WasKept
<1>7. PairStays'
  <2> SUFFICES ASSUME Announced' = Slot
               PROVE  InOrder(device', assignment)
    BY <1>1 DEF PairStays
  <2>1. ReadySlots = Slot
    <3>1. device'[0] \in ready /\ device'[1] \in ready
      BY <1>1, <1>2 DEF Announced, ReadySlots
    <3> QED
      BY <1>3, <3>1 DEF ReadySlots, Slot
  <2>2. assignment \in [Slot -> Pads \cup {NoPad}]
    BY DEF TypeOK
  <2>3. CASE ReadySlots \subseteq was
    <3>1. ~swap
      BY <2>3 DEF swap
    <3>2. Announced = Slot
      BY <1>2, <2>1, <2>3 DEF Announced
    <3> QED
      BY <1>3, <3>1, <3>2 DEF PairStays
  <2>4. CASE ~(ReadySlots \subseteq was)
    <3>1. swap <=> ShouldSwap(assignment)
      BY <2>4 DEF swap
    <3> QED
      BY <1>3, <2>1, <2>2, <3>1, OrdersPair
  <2> QED
    BY <2>3, <2>4
<1> QED
  BY <1>4, <1>5, <1>6, <1>7

\* What an assignment changes.
LEMMA AssignmentMoves ==
  ASSUME SlotsInv, NEW a \in Assignments, SetPlayerAssignment(a)
  PROVE  /\ a \in [Slot -> Pads \cup {NoPad}]
         /\ device' \in [Slot -> Pads \cup {NoPad}]
         /\ thread' \in [Slot -> Pads \cup {NoPad}]
         /\ index' \in [Pads -> Slot]
         /\ thread' = device'
         /\ {thread'[i] : i \in Slot} = {thread[i] : i \in Slot}
         /\ {device'[i] : i \in Slot} = {device[i] : i \in Slot}
         /\ \A i \in Slot : device'[i] # NoPad => index'[device'[i]] = i
         /\ IF ShouldSwap(a)
            THEN device'[0] = device[1] /\ device'[1] = device[0]
            ELSE device' = device
<1> USE DEF SlotsInv
<1>1. main # "reap" /\ a \in [Slot -> Pads \cup {NoPad}]
  BY SlotsAssumption DEF SetPlayerAssignment, Locked
<1>2. CASE ShouldSwap(a)
  <2>1. SwapSlots
    BY <1>2 DEF SetPlayerAssignment
  <2> QED
    BY <1>1, <1>2, <2>1, SwapMoves
<1>3. CASE ~ShouldSwap(a)
  <2>1. UNCHANGED <<device, thread, index>>
    BY <1>3 DEF SetPlayerAssignment
  <2>2. thread = device
    BY <1>1 DEF TypeOK, SlotsAligned
  <2> QED
    BY <1>1, <1>3, <2>1, <2>2 DEF TypeOK, SlotsAligned
<1> QED
  BY <1>2, <1>3

LEMMA StepAssignment ==
  ASSUME SlotsInv, NEW a \in Assignments, SetPlayerAssignment(a)
  PROVE  SlotsInv'
<1> USE DEF SlotsInv
<1>1. /\ ~Passing /\ ~Passing' /\ main # "reap" /\ main' # "reap"
      /\ assignment' = a
      /\ UNCHANGED <<ready, failed, polling, stopping, loaded, links, progress,
                     usb>>
  BY DEF SetPlayerAssignment, Locked, Passing, progress
<1>2. /\ a \in [Slot -> Pads \cup {NoPad}]
      /\ device' \in [Slot -> Pads \cup {NoPad}]
      /\ thread' \in [Slot -> Pads \cup {NoPad}]
      /\ index' \in [Pads -> Slot]
      /\ thread' = device'
      /\ {thread'[i] : i \in Slot} = {thread[i] : i \in Slot}
      /\ {device'[i] : i \in Slot} = {device[i] : i \in Slot}
      /\ \A i \in Slot : device'[i] # NoPad => index'[device'[i]] = i
      /\ IF ShouldSwap(a) THEN device'[0] = device[1] /\ device'[1] = device[0]
                          ELSE device' = device
  BY AssignmentMoves
<1>3. TypeOK'
  <2>1. view' \in [Slot -> Pads \cup {NoPad}]
    BY <1>2 DEF SetPlayerAssignment, Announce, TypeOK
  <2> QED
    BY <1>1, <1>2, <2>1 DEF TypeOK, links, usb, progress
<1>4. SlotsAligned'
  <2>1. device'[0] = device'[1] => device'[0] = NoPad
    BY <1>2 DEF SlotsAligned
  <2>2. Connections' = Connections
    BY <1>2 DEF Connections
  <2> QED
    BY <1>1, <1>2, <2>1, <2>2 DEF SlotsAligned, links, usb
<1>5. WasKept'
  BY <1>1 DEF WasKept
<1>6. PairStays'
  <2> SUFFICES ASSUME Announced' = Slot
               PROVE  InOrder(device', a)
    BY <1>1 DEF PairStays
  <2>1. ReadySlots = Slot
    <3>1. device'[0] \in ready /\ device'[1] \in ready
      BY <1>1 DEF Announced, ReadySlots, Slot
    <3> QED
      BY <1>2, <3>1 DEF ReadySlots, Slot
  <2> QED
    BY <1>2, <2>1, OrdersPair
<1> QED
  BY <1>3, <1>4, <1>5, <1>6

\* Errors, answers, pads that come and go, and poll threads: none of them moves
\* or connects a pad.
LEMMA StepOther ==
  ASSUME SlotsInv,
         \/ Outside
         \/ \E p \in Pads : PollThread(p)
         \/ UNCHANGED vars
  PROVE  SlotsInv'
<1> USE DEF SlotsInv
<1> DEFINE Kept ==
        /\ UNCHANGED <<device, ready, failed, assignment, thread, index,
                       stopping, main, at, was, seen, todo, view>>
        /\ polling' \subseteq polling
        /\ readError' \subseteq readError \cup polling
        /\ writeError' \subseteq writeError \cup Connections
        /\ dead' \subseteq dead \cup Connections
        /\ answered' \subseteq Pads /\ plugged' \subseteq Pads
        /\ rested' \in BOOLEAN
        /\ loaded' \in [Pads -> Slot \cup {NoSlot}]
<1>1. Kept
  <2> USE DEF slots, threads, links, progress, usb
  <2>1. CASE EnumerationDue \/ UNCHANGED vars
    BY <2>1 DEF EnumerationDue, TypeOK, vars
  <2>2. ASSUME NEW p \in Pads, WriteFails(p) \/ PadAnswers(p)
        PROVE  Kept
    BY <2>2 DEF WriteFails, PadAnswers, TypeOK
  <2>3. ASSUME NEW p \in Pads, Plug(p) \/ Unplug(p)
        PROVE  Kept
    BY <2>3 DEF Plug, Unplug, TypeOK
  <2>4. ASSUME NEW p \in Pads, LoadIndex(p) \/ ReportInput(p)
        PROVE  Kept
    BY <2>4 DEF LoadIndex, ReportInput, TypeOK
  <2>5. ASSUME NEW p \in Pads, ReadFails(p) \/ ThreadExits(p)
        PROVE  Kept
    BY <2>5 DEF ReadFails, ThreadExits, TypeOK
  <2> QED
    BY <2>1, <2>2, <2>3, <2>4, <2>5 DEF Outside, PollThread
<1>2. /\ Connections \subseteq {thread[i] : i \in Slot}
      /\ Connections \subseteq Pads
  <2>1. ASSUME NEW p \in Connections
        PROVE  p \in Pads /\ \E i \in Slot : p = thread[i]
    <3>1. PICK i \in Slot : device[i] = p /\ p # NoPad
      BY <2>1 DEF Connections
    <3> QED
      BY <3>1 DEF SlotsAligned, TypeOK
  <2> QED
    BY <2>1
<1>3. TypeOK'
  BY <1>1, <1>2 DEF TypeOK
<1>4. SlotsAligned'
  <2>1. (polling \cup readError \cup writeError \cup stopping \cup dead)'
          \subseteq {thread[i] : i \in Slot}
    BY <1>1, <1>2 DEF SlotsAligned
  <2>2. Connections' = Connections
    BY <1>1 DEF Connections
  <2> QED
    BY <1>1, <2>1, <2>2 DEF SlotsAligned
<1>5. WasKept' /\ PairStays'
  BY <1>1 DEF WasKept, PairStays, Announced, ReadySlots, Passing
<1> QED
  BY <1>3, <1>4, <1>5

LEMMA StepInv == SlotsInv /\ [Next]_vars => SlotsInv'
<1> SUFFICES ASSUME SlotsInv, [Next]_vars PROVE SlotsInv'
  OBVIOUS
<1>1. CASE Main
  BY <1>1, StepLook, StepOpenPad, StepBeginPass, StepUpdateDevice,
     StepCloseDevice, StepReapThread, StepOrderSlots DEF Main
<1>2. CASE Outside \/ (\E p \in Pads : PollThread(p)) \/ UNCHANGED vars
  BY <1>2, StepOther
<1>3. CASE \E a \in Assignments : SetPlayerAssignment(a)
  BY <1>3, StepAssignment
<1> QED
  BY <1>1, <1>2, <1>3 DEF Next

\* The inductive invariant holds, whatever the pads, jumpers and assignments.
THEOREM SlotsInvariant == Spec => []SlotsInv
<1>1. Init => SlotsInv
  BY InitInv
<1>2. SlotsInv /\ [Next]_vars => SlotsInv'
  BY StepInv
<1> QED
  BY <1>1, <1>2, PTL DEF Spec

\* Every variable keeps its type.
THEOREM TypeCorrect == Spec => []TypeOK
<1>1. SlotsInv => TypeOK
  BY DEF SlotsInv
<1> QED
  BY <1>1, SlotsInvariant, PTL

\* A slot's connection, its poll thread in poll_threads and the pad index its
\* callback reads stay together through opens, errors, swaps and API calls.
THEOREM Aligned == Spec => []SlotsAligned
<1>1. SlotsInv => SlotsAligned
  BY DEF SlotsInv
<1> QED
  BY <1>1, SlotsInvariant, PTL

\* Two connected pads sit as set_player_assignment documents.
THEOREM Ordered == Spec => []PairOrdered
<1>1. SlotsInv => PairOrdered
  <2> SUFFICES ASSUME SlotsInv, ReadySlots = Slot, ~Passing
               PROVE  InOrder(device, assignment)
    BY DEF PairOrdered, InOrder, Passing
  <2>1. Announced = Slot
    BY DEF Announced
  <2> QED
    BY <2>1 DEF SlotsInv, PairStays
<1> QED
  BY <1>1, SlotsInvariant, PTL

-----------------------------------------------------------------------------
(* A pad that is connected alone *)

\* A pad that is connected alone ends up where it belongs.
LEMMA OrdersLone ==
  ASSUME TypeOK, SlotsAligned,
         NEW a \in [Slot -> Pads \cup {NoPad}], assignment' = a,
         device' \in [Slot -> Pads \cup {NoPad}], ready' = ready,
         IF ShouldSwap(a) THEN device'[0] = device[1] /\ device'[1] = device[0]
                          ELSE device' = device
  PROVE  AlonePlaced'
<1>1. /\ 0 \in Slot /\ 1 \in Slot /\ \A i \in Slot : i = 0 \/ i = 1
      /\ Other(0) = 1 /\ Other(1) = 0 /\ Slot # {0} /\ Slot # {1}
  BY DEF Slot, Other
<1> SUFFICES ASSUME NEW j \in Slot, ReadySlots' = {j}
             PROVE  j \in LonePlace(device[j])'
  BY DEF AlonePlaced
<1>2. PICK i \in Slot :
        /\ i = IF ShouldSwap(a) THEN Other(j) ELSE j
        /\ j = IF ShouldSwap(a) THEN Other(i) ELSE i
  BY <1>1
<1>3. device'[j] = device[i] /\ ReadySlots = {i}
  <2>1. device'[0] \in ready <=> j = 0
    BY <1>1 DEF ReadySlots
  <2>2. device'[1] \in ready <=> j = 1
    BY <1>1 DEF ReadySlots
  <2> QED
    BY <1>1, <1>2, <2>1, <2>2 DEF ReadySlots
<1>4. OverrideKeeps(a) <=> a[i] = device[i]
  BY <1>3 DEF OverrideKeeps
<1>5. OverrideSwaps(a) <=> a[Other(i)] = device[i]
  BY <1>3 DEF OverrideSwaps
<1>6. CASE \E k \in Slot : a[k] = device[i]
  <2>1. a[j] = device[i]
    BY <1>1, <1>2, <1>4, <1>5, <1>6 DEF ShouldSwap
  <2> QED
    BY <1>3, <2>1 DEF LonePlace
<1>7. CASE ~\E k \in Slot : a[k] = device[i]
  <2>1. ShouldSwap(a) <=> JumperSwaps
    BY <1>1, <1>4, <1>5, <1>7 DEF ShouldSwap
  <2>2. JumperSwaps <=> i = (IF device[i] \in Player2 THEN 0 ELSE 1)
    <3>1. ReadySlots # Slot
      BY <1>1, <1>3
    <3>2. CASE i = 0
      BY <1>3, <3>1, <3>2 DEF JumperSwaps
    <3>3. CASE i = 1
      BY <1>3, <3>1, <3>3 DEF JumperSwaps
    <3> QED
      BY <1>1, <3>2, <3>3
  <2>3. j = IF device[i] \in Player2 THEN 1 ELSE 0
    BY <1>1, <1>2, <2>1, <2>2
  <2> QED
    BY <1>3, <1>7, <2>3 DEF LonePlace
<1> QED
  BY <1>6, <1>7

LEMMA PlacesLone == SlotsInv /\ [Next]_vars /\ Places => AlonePlaced'
<1> SUFFICES ASSUME SlotsInv, [Next]_vars, Places PROVE AlonePlaced'
  OBVIOUS
<1> USE DEF SlotsInv
<1>1. CASE assignment' # assignment
  <2>1. PICK a \in Assignments : SetPlayerAssignment(a)
    <3>1. ~UNCHANGED vars
      BY <1>1 DEF vars, slots
    <3>2. ~Main
      BY <1>1 DEF Main, CheckSlots, Enumerate, BeginOpen, OpenDone, OpenSkip,
                  ReadOpenFails, WriteOpenFails, OpenPad, BeginPass,
                  UpdateDevice, CloseDevice, ReapThread, OrderSlots, slots
    <3>3. ~Outside
      BY <1>1 DEF Outside, EnumerationDue, WriteFails, PadAnswers, Plug, Unplug,
                  slots
    <3>4. \A p \in Pads : ~PollThread(p)
      BY <1>1 DEF PollThread, LoadIndex, ReportInput, ReadFails, ThreadExits,
                  slots
    <3> QED
      BY <3>1, <3>2, <3>3, <3>4 DEF Next
  <2>2. assignment' = a /\ ready' = ready
    BY <2>1 DEF SetPlayerAssignment
  <2> QED
    BY <2>1, <2>2, AssignmentMoves, OrdersLone
<1>2. CASE Connects
  <2>1. OrderSlots
    <3>1. main = "order" /\ main' = "check"
      BY <1>2 DEF Connects
    <3>2. ~UNCHANGED vars
      BY <3>1 DEF vars, progress
    <3>3. Main => OrderSlots
      BY <3>1 DEF Main, CheckSlots, Enumerate, BeginOpen, OpenDone, OpenSkip,
                  ReadOpenFails, WriteOpenFails, OpenPad, Opens, BeginPass,
                  UpdateDevice, CloseDevice, ReapThread
    <3>4. ~Outside
      BY <3>1 DEF Outside, EnumerationDue, WriteFails, PadAnswers, Plug, Unplug,
                  progress
    <3>5. \A p \in Pads : ~PollThread(p)
      BY <3>1 DEF PollThread, LoadIndex, ReportInput, ReadFails, ThreadExits,
                  progress
    <3>6. \A a \in Assignments : ~SetPlayerAssignment(a)
      BY <3>1 DEF SetPlayerAssignment, progress
    <3> QED
      BY <3>2, <3>3, <3>4, <3>5, <3>6 DEF Next
  <2>2. ~(ReadySlots \subseteq was)
    BY <1>2 DEF Connects
  <2>3. IF ShouldSwap(assignment) THEN SwapSlots
        ELSE UNCHANGED <<device, thread, index>>
    BY <2>1, <2>2 DEF OrderSlots
  <2>4. ready' = ready /\ assignment' = assignment /\ main # "reap"
    BY <2>1 DEF OrderSlots
  <2>5. /\ device' \in [Slot -> Pads \cup {NoPad}]
        /\ IF ShouldSwap(assignment)
           THEN device'[0] = device[1] /\ device'[1] = device[0]
           ELSE device' = device
    BY <2>3, <2>4, SwapMoves DEF TypeOK
  <2>6. assignment \in [Slot -> Pads \cup {NoPad}]
    BY DEF TypeOK
  <2> QED
    BY <2>4, <2>5, <2>6, OrdersLone
<1> QED
  BY <1>1, <1>2 DEF Places

\* A pad that connects while the other slot has none connected, and a connected
\* one when an assignment is set, is put where README.md says it belongs.
THEOREM LonePlaced == Spec => LonePlacedOnConnect
<1>1. SlotsInv /\ [Next]_vars => [Places => AlonePlaced']_vars
  BY PlacesLone
<1> QED
  BY <1>1, SlotsInvariant, PTL DEF Spec, LonePlacedOnConnect

-----------------------------------------------------------------------------
(* What the application is told *)

NoAssignment == [i \in Slot |-> NoPad]

\* The application has seen the pads that OrderSlots has seen, and no other.
AnnouncedKnown ==
  \A i \in Slot : view[i] = IF i \in Announced THEN device[i] ELSE NoPad

\* ... and each of them is where its jumper says.
AnnouncedPlaced == \A i \in Announced : device[i] \in Player2 <=> i = 1

ListenerInv ==
  /\ SlotsInv
  /\ assignment = NoAssignment
  /\ AnnouncedKnown
  /\ AnnouncedPlaced

\* The pads are set up as pads are meant to be: one jumpered player 1 and one
\* player 2, and no assignment overrides the jumpers.
OneOfEach == \A p, q \in Pads : p # q => ~(p \in Player2 <=> q \in Player2)
OnlyJumpers == Assignments \subseteq {NoAssignment}

\* Without an assignment, the jumpers decide.
LEMMA JumpersDecide ==
  ASSUME TypeOK
  PROVE  ShouldSwap(NoAssignment) <=> JumperSwaps
<1>1. \A i \in Slot : NoAssignment[i] = NoPad /\ Other(i) \in Slot
  BY DEF NoAssignment, Slot, Other
<1>2. \A i \in ReadySlots : device[i] # NoPad /\ i \in Slot
  BY SlotsAssumption DEF ReadySlots, TypeOK
<1>3. ~OverrideKeeps(NoAssignment) /\ ~OverrideSwaps(NoAssignment)
  BY <1>1, <1>2 DEF OverrideKeeps, OverrideSwaps
<1> QED
  BY <1>3 DEF ShouldSwap

LEMMA ListenerOpenPad ==
  ASSUME ListenerInv, NEW p \in Pads, OpenPad(p)
  PROVE  AnnouncedKnown' /\ AnnouncedPlaced'
<1> USE DEF ListenerInv, SlotsInv
<1>1. PICK i \in Slot : Opens(p, i) /\ device' = [device EXCEPT ![i] = p]
  BY DEF OpenPad
<1>2. /\ p \notin Connections /\ device[i] = NoPad /\ ~Passing /\ ~Passing'
      /\ UNCHANGED <<ready, view>>
  BY <1>1 DEF Opens, OpenPad, Passing
<1>3. p \notin ready /\ NoPad \notin ready
  BY <1>2, SlotsAssumption DEF SlotsAligned, TypeOK
<1>4. \A j \in Slot : j # i => device'[j] = device[j]
  BY <1>1 DEF TypeOK
<1>5. device'[i] = p
  BY <1>1 DEF TypeOK
<1>6. Announced' = Announced /\ i \notin Announced
  BY <1>2, <1>3, <1>4, <1>5 DEF Announced, ReadySlots
<1>7. \A j \in Announced : device'[j] = device[j]
  BY <1>4, <1>6 DEF Announced, ReadySlots
<1> QED
  BY <1>2, <1>6, <1>7 DEF AnnouncedKnown, AnnouncedPlaced

LEMMA ListenerUpdateDevice ==
  ASSUME ListenerInv, UpdateDevice
  PROVE  AnnouncedKnown' /\ AnnouncedPlaced'
<1> USE DEF ListenerInv, SlotsInv
<1>1. /\ Passing /\ Passing' /\ UNCHANGED <<device, was, view>>
      /\ ready \subseteq ready' /\ ready' \subseteq Pads
  BY StepUpdateDevice DEF UpdateDevice, NextDevice, Passing, TypeOK
<1>2. Announced' = Announced
  <2>1. ASSUME NEW i \in Slot, i \in was, device[i] \in ready'
        PROVE  device[i] \in ready
    BY <1>1, <2>1, SlotsAssumption DEF WasKept, ReadySlots
  <2> QED
    BY <1>1, <2>1 DEF Announced, ReadySlots
<1> QED
  BY <1>1, <1>2 DEF AnnouncedKnown, AnnouncedPlaced

LEMMA ListenerCloseDevice ==
  ASSUME ListenerInv, CloseDevice
  PROVE  AnnouncedKnown' /\ AnnouncedPlaced'
<1> USE DEF ListenerInv, SlotsInv
<1>1. /\ Passing /\ Passing' /\ was' = was /\ at \in Slot
      /\ device' = [device EXCEPT ![at] = NoPad]
      /\ ready' = ready \ {device[at]}
      /\ device[at] # NoPad
  BY SlotsAssumption DEF CloseDevice, Passing, TypeOK
<1>2. view' = [view EXCEPT ![at] = NoPad]
  BY <1>1 DEF CloseDevice, SlotsAligned
<1>3. \A i \in Slot : i # at => device'[i] = device[i] /\ device[i] # device[at]
  BY <1>1 DEF TypeOK, SlotsAligned, Slot
<1>4. device'[at] = NoPad /\ NoPad \notin ready'
  BY <1>1, SlotsAssumption DEF TypeOK
<1>5. Announced' = Announced \ {at} /\ Announced \subseteq Slot
  BY <1>1, <1>3, <1>4 DEF Announced, ReadySlots
<1>6. AnnouncedKnown'
  <2>1. ASSUME NEW i \in Slot
        PROVE  view'[i] = IF i \in Announced' THEN device'[i] ELSE NoPad
    <3>1. view'[i] = IF i = at THEN NoPad ELSE view[i]
      BY <1>2 DEF TypeOK
    <3> QED
      BY <1>3, <1>5, <3>1 DEF AnnouncedKnown
  <2> QED
    BY <2>1 DEF AnnouncedKnown
<1>7. AnnouncedPlaced'
  BY <1>3, <1>5 DEF AnnouncedPlaced
<1> QED
  BY <1>6, <1>7

LEMMA ListenerOrderSlots ==
  ASSUME ListenerInv, OrderSlots, OneOfEach
  PROVE  AnnouncedKnown' /\ AnnouncedPlaced'
<1> USE DEF ListenerInv, SlotsInv
<1> DEFINE swap == ~(ReadySlots \subseteq was) /\ ShouldSwap(assignment)
<1>1. /\ IF swap THEN SwapSlots ELSE UNCHANGED <<device, thread, index>>
      /\ Announce(JustConnected(swap))
      /\ main = "order" /\ main # "reap" /\ Passing /\ ~Passing'
      /\ ready' = ready /\ assignment' = assignment
  BY DEF OrderSlots, Passing
<1>2. swap <=> ~(ReadySlots \subseteq was) /\ JumperSwaps
  BY JumpersDecide
<1>3. /\ 0 \in Slot /\ 1 \in Slot /\ \A i \in Slot : i = 0 \/ i = 1
      /\ Other(0) = 1 /\ Other(1) = 0
  BY DEF Slot, Other
<1> HIDE DEF swap
<1>4. /\ device' \in [Slot -> Pads \cup {NoPad}]
      /\ swap => device'[0] = device[1] /\ device'[1] = device[0]
      /\ ~swap => device' = device
  BY <1>1, SwapMoves DEF TypeOK
<1>5. Announced' = {i \in Slot : device'[i] \in ready}
  BY <1>1 DEF Announced, ReadySlots
<1>6. \A i \in Slot : view'[i] = IF i \in JustConnected(swap) THEN device'[i]
                                ELSE view[i]
  BY <1>1 DEF Announce
<1>7. NoPad \notin ready
  BY SlotsAssumption DEF TypeOK
<1>8. CASE ~swap
  <2>1. \A i \in Slot : i \in JustConnected(swap) <=>
                          device[i] \in ready /\ i \notin was
    BY <1>1, <1>4, <1>8 DEF JustConnected
  <2>2. Announced = {i \in Slot : device[i] \in ready /\ i \in was}
    BY <1>1 DEF Announced, ReadySlots
  <2>3. AnnouncedKnown'
    BY <1>4, <1>5, <1>6, <1>8, <2>1, <2>2 DEF AnnouncedKnown
  <2>4. CASE ReadySlots \subseteq was
    <3>1. Announced' = Announced
      BY <1>4, <1>5, <1>8, <2>2, <2>4 DEF ReadySlots
    <3> QED
      BY <1>4, <1>8, <2>3, <3>1 DEF AnnouncedPlaced
  <2>5. CASE ~(ReadySlots \subseteq was)
    <3>1. ~JumperSwaps
      BY <1>2, <1>8, <2>5
    <3>2. ASSUME ReadySlots # Slot
          PROVE  \A i \in ReadySlots : device[i] \in Player2 <=> i = 1
      <4>1. (0 \in ReadySlots => device[0] \notin Player2)
            /\ (1 \in ReadySlots => device[1] \in Player2)
        BY <3>1, <3>2 DEF JumperSwaps
      <4> QED
        BY <1>3, <4>1 DEF ReadySlots
    <3>3. ASSUME ReadySlots = Slot
          PROVE  \A i \in ReadySlots : device[i] \in Player2 <=> i = 1
      <4>1. device[0] \in Pads /\ device[1] \in Pads /\ device[0] # device[1]
        BY <1>3, <1>7, <3>3 DEF ReadySlots, TypeOK, SlotsAligned
      <4>2. ~(device[0] \in Player2 <=> device[1] \in Player2)
        BY <4>1 DEF OneOfEach
      <4> QED
        BY <1>3, <3>1, <3>3, <4>2 DEF JumperSwaps
    <3>4. Announced' = ReadySlots
      BY <1>4, <1>5, <1>8 DEF ReadySlots
    <3> QED
      BY <1>4, <1>8, <2>3, <3>2, <3>3, <3>4 DEF AnnouncedPlaced
  <2> QED
    BY <2>3, <2>4, <2>5
<1>9. CASE swap
  <2>1. PICK m \in ReadySlots : m \notin was
    BY <1>2, <1>9
  <2>2. ASSUME NEW k \in Announced
        PROVE  FALSE
    <3>1. k \in ReadySlots /\ k \in was /\ k # m
      BY <1>1, <2>1, <2>2 DEF Announced
    <3>2. ReadySlots = Slot
      BY <1>3, <2>1, <3>1 DEF ReadySlots
    <3>3. device[0] \in Player2 /\ device[1] \notin Player2
      BY <1>2, <1>9, <3>2 DEF JumperSwaps
    <3>4. device[k] \in Player2 <=> k = 1
      BY <2>2 DEF AnnouncedPlaced
    <3> QED
      BY <1>3, <3>1, <3>2, <3>3, <3>4
  <2>3. \A i \in Slot : view[i] = NoPad
    BY <2>2 DEF AnnouncedKnown
  <2>4. \A i \in Slot : device[i] \in ready => i \notin was
    BY <1>1, <2>2 DEF Announced, ReadySlots
  <2>5. \A i \in Slot : i \in JustConnected(swap) <=>
                          device'[i] \in ready /\ Other(i) \notin was
    BY <1>1, <1>9 DEF JustConnected
  <2>6. \A i \in Slot : device'[i] = device[Other(i)] /\ Other(i) \in Slot
    BY <1>3, <1>4, <1>9
  <2>7. AnnouncedKnown'
    BY <1>5, <1>6, <2>3, <2>4, <2>5, <2>6 DEF AnnouncedKnown
  <2>8. \A i \in Slot : device'[i] \in ready =>
                          (device'[i] \in Player2 <=> i = 1)
    <3>1. JumperSwaps
      BY <1>2, <1>9
    <3>2. CASE ReadySlots = Slot
      BY <1>3, <1>4, <1>9, <3>1, <3>2 DEF JumperSwaps
    <3>3. CASE ReadySlots # Slot
      <4>1. \/ device[0] \in ready /\ device[0] \in Player2
               /\ device[1] \notin ready
            \/ device[1] \in ready /\ device[1] \notin Player2
               /\ device[0] \notin ready
        BY <1>3, <3>1, <3>3 DEF JumperSwaps, ReadySlots
      <4> QED
        BY <1>3, <1>4, <1>9, <4>1
    <3> QED
      BY <3>2, <3>3
  <2>9. AnnouncedPlaced'
    BY <1>5, <2>8 DEF AnnouncedPlaced
  <2> QED
    BY <2>7, <2>9
<1> QED
  BY <1>8, <1>9

LEMMA ListenerAssignment ==
  ASSUME ListenerInv, OneOfEach, SetPlayerAssignment(NoAssignment)
  PROVE  AnnouncedKnown' /\ AnnouncedPlaced' /\ assignment' = NoAssignment
<1> USE DEF ListenerInv, SlotsInv
<1>1. ~Passing /\ ~Passing' /\ ready' = ready /\ assignment' = NoAssignment
  BY DEF SetPlayerAssignment, Locked, Passing, progress
<1>2. Announced = ReadySlots
  BY <1>1 DEF Announced, ReadySlots
<1>3. ~JumperSwaps
  <2>1. /\ 0 \in ReadySlots => device[0] \notin Player2
        /\ 1 \in ReadySlots => device[1] \in Player2
    BY <1>2 DEF AnnouncedPlaced
  <2> QED
    BY <2>1 DEF JumperSwaps
<1>4. UNCHANGED <<device, view>>
  BY <1>3, JumpersDecide DEF SetPlayerAssignment
<1>5. Announced' = Announced
  BY <1>1, <1>4 DEF Announced, ReadySlots
<1> QED
  BY <1>1, <1>4, <1>5 DEF AnnouncedKnown, AnnouncedPlaced

LEMMA ListenerStep ==
  ASSUME OneOfEach, OnlyJumpers
  PROVE  ListenerInv /\ [Next]_vars => ListenerInv'
<1> SUFFICES ASSUME ListenerInv, [Next]_vars
             PROVE  AnnouncedKnown' /\ AnnouncedPlaced'
                    /\ assignment' = NoAssignment
  BY StepInv DEF ListenerInv
<1> USE DEF ListenerInv
<1>1. CASE \/ CheckSlots \/ Enumerate \/ BeginOpen \/ OpenDone
           \/ \E p \in Pads :
                OpenSkip(p) \/ ReadOpenFails(p) \/ WriteOpenFails(p)
  <2>1. /\ UNCHANGED <<device, ready, assignment, view>>
        /\ ~Passing /\ ~Passing'
    BY <1>1 DEF CheckSlots, Enumerate, BeginOpen, OpenDone, OpenSkip,
                ReadOpenFails, WriteOpenFails, Opens, Passing, slots
  <2> QED
    BY <2>1 DEF AnnouncedKnown, AnnouncedPlaced, Announced, ReadySlots
<1>2. CASE BeginPass
  <2>1. /\ UNCHANGED <<device, ready, assignment, view>>
        /\ ~Passing /\ was' = ReadySlots
    BY <1>2 DEF BeginPass, slots, Passing
  <2>2. Announced' = Announced
    BY <2>1 DEF Announced, ReadySlots
  <2> QED
    BY <2>1, <2>2 DEF AnnouncedKnown, AnnouncedPlaced
<1>3. CASE \E p \in Pads : OpenPad(p)
  BY <1>3, ListenerOpenPad DEF OpenPad
<1>4. CASE UpdateDevice
  BY <1>4, ListenerUpdateDevice DEF UpdateDevice
<1>5. CASE CloseDevice
  BY <1>5, ListenerCloseDevice DEF CloseDevice
<1>6. CASE ReapThread
  <2>1. /\ UNCHANGED <<device, ready, assignment, view, was>>
        /\ Passing /\ Passing'
    BY <1>6 DEF ReapThread, NextDevice, Passing, slots
  <2> QED
    BY <2>1 DEF AnnouncedKnown, AnnouncedPlaced, Announced, ReadySlots
<1>7. CASE OrderSlots
  BY <1>7, ListenerOrderSlots DEF OrderSlots
<1>8. CASE Outside \/ (\E p \in Pads : PollThread(p)) \/ UNCHANGED vars
  <2>1. UNCHANGED <<device, ready, assignment, view, main, was>>
    BY <1>8 DEF Outside, EnumerationDue, WriteFails, PadAnswers, Plug, Unplug,
                PollThread, LoadIndex, ReportInput, ReadFails, ThreadExits,
                vars, slots, progress
  <2> QED
    BY <2>1 DEF AnnouncedKnown, AnnouncedPlaced, Announced, ReadySlots, Passing
<1>9. CASE \E a \in Assignments : SetPlayerAssignment(a)
  BY <1>9, ListenerAssignment DEF OnlyJumpers
<1> QED
  BY <1>1, <1>2, <1>3, <1>4, <1>5, <1>6, <1>7, <1>8, <1>9 DEF Next, Main

\* With one pad of each jumper and no assignment, the application knows between
\* passes, from the events it was sent, which pad is in which slot.
THEOREM ListenerKnows ==
  ASSUME OneOfEach, OnlyJumpers
  PROVE  Spec => []ListenerInStep
<1>1. Init => ListenerInv
  <2> SUFFICES ASSUME Init PROVE ListenerInv
    OBVIOUS
  <2>1. SlotsInv
    BY InitInv
  <2>2. Announced = {}
    BY DEF Init, Announced, ReadySlots
  <2> QED
    BY <2>1, <2>2 DEF Init, ListenerInv, NoAssignment, AnnouncedKnown,
                      AnnouncedPlaced
<1>2. ListenerInv /\ [Next]_vars => ListenerInv'
  BY ListenerStep
<1>3. ListenerInv => ListenerInStep
  <2> SUFFICES ASSUME ListenerInv, ~Locked PROVE ListenerInStep
    BY DEF ListenerInStep
  <2>1. Announced = ReadySlots
    BY DEF Locked, Passing, Announced, ReadySlots
  <2> QED
    BY <2>1 DEF ListenerInv, AnnouncedKnown, ListenerInStep
<1> QED
  BY <1>1, <1>2, <1>3, PTL DEF Spec
=============================================================================
