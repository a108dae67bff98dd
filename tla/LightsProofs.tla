---------------------------- MODULE LightsProofs ----------------------------
(***************************************************************************)
(* What is always true of the lights, whatever the pads' versions, the     *)
(* number of frames and the order of the API's calls, the passes of the    *)
(* main thread, the swaps and the pads' coming and going.                  *)
(***************************************************************************)
EXTENDS Lights, QueueProofs, FunctionTheorems, SequenceTheorems,
        FiniteSetTheorems, TLAPS

-----------------------------------------------------------------------------
(* Commands *)

Plain == {<<"auto">>, <<"dark">>, <<"strip">>, <<"serial">>}
           \cup {<<"test", m>> : m \in TestModes}
Command  == LightsCommands \cup Plain
Sharable == LightsCommands \cup {None}

LEMMA PartsFacts ==
  /\ Parts[1] = "inner" /\ Parts[2] = "top" /\ Parts[3] = "bottom"
  /\ \A j, k \in 1..3 : Parts[j] = Parts[k] => j = k
  /\ \A k \in 1..3 : Parts[k] \in {"inner", "top", "bottom"}
<1>1. Parts[1] = "inner" /\ Parts[2] = "top" /\ Parts[3] = "bottom"
  BY DEF Parts
<1>2. \A k \in 1..3 : k = 1 \/ k = 2 \/ k = 3
  OBVIOUS
<1> QED
  BY <1>1, <1>2

LEMMA LightsFacts ==
  ASSUME NEW c \in LightsCommands
  PROVE  /\ c = <<c[1], c[2]>> /\ c[2] \in 1..MaxFrames /\ c[2] \in Nat
         /\ \E k \in 1..3 : c[1] = Parts[k]
<1>1. PICK p \in {Parts[k] : k \in 1..3}, f \in 1..MaxFrames : c = <<p, f>>
  BY DEF LightsCommands
<1>2. c[1] = p /\ c[2] = f
  BY <1>1
<1> QED
  BY <1>1, <1>2, LightsAssumption DEF LightsAssumption

LEMMA PartIsLights ==
  ASSUME NEW k \in 1..3, NEW f \in 1..MaxFrames
  PROVE  <<Parts[k], f>> \in LightsCommands
BY DEF LightsCommands

LEMMA PlainFacts ==
  /\ None \notin LightsCommands /\ None \notin Command
  /\ \A c \in Plain : c \notin LightsCommands
  /\ <<"auto">> \in Plain /\ <<"strip">> \in Plain /\ <<"serial">> \in Plain
  /\ <<"dark">> \in Plain /\ \A m \in TestModes : <<"test", m>> \in Plain
<1>1. \A c \in LightsCommands : Len(c) = 2
  <2>1. ASSUME NEW c \in LightsCommands PROVE Len(c) = 2
    <3>1. c = <<c[1], c[2]>>
      BY LightsFacts
    <3>2. Len(<<c[1], c[2]>>) = 2
      OBVIOUS
    <3> QED
      BY <3>1, <3>2, Zenon
  <2> QED
    BY <2>1
<1>2. ASSUME NEW c \in Plain PROVE c \notin LightsCommands
  <2>1. CASE \E m \in TestModes : c = <<"test", m>>
    <3>1. c[1] = "test"
      BY <2>1
    <3>2. "test" \notin {"inner", "top", "bottom"}
      OBVIOUS
    <3> QED
      BY <3>1, <3>2, LightsFacts, PartsFacts
  <2>2. CASE ~(\E m \in TestModes : c = <<"test", m>>)
    <3>1. c \in {<<"auto">>, <<"dark">>, <<"strip">>, <<"serial">>}
      BY <2>2 DEF Plain
    <3>2. Len(c) = 1
      BY <3>1
    <3> QED
      BY <3>2, <1>1
  <2> QED
    BY <2>1, <2>2
<1>3. None \notin LightsCommands
  <2>1. Len(None) = 0
    BY DEF None
  <2> QED
    BY <2>1, <1>1
<1>4. None \notin Plain
  <2>1. None # <<"auto">> /\ None # <<"dark">> /\ None # <<"strip">>
          /\ None # <<"serial">>
    BY DEF None
  <2>2. \A m \in TestModes : None # <<"test", m>>
    BY DEF None
  <2> QED
    BY <2>1, <2>2 DEF Plain
<1> QED
  BY <1>2, <1>3, <1>4 DEF Plain, Command

\* The release and the darkness are no lights, and the others are neither.
LEMMA TakesFacts ==
  /\ \A c : Takes(c) => c \in Plain
  /\ ~Takes(<<"strip">>) /\ ~Takes(<<"serial">>) /\ ~Takes(None)
  /\ \A m \in TestModes : ~Takes(<<"test", m>>)
  /\ \A c \in LightsCommands : ~Takes(c)
<1>1. \A c : Takes(c) => c \in Plain
  BY DEF Takes, Plain
<1>2. ~Takes(<<"strip">>) /\ ~Takes(<<"serial">>) /\ ~Takes(None)
  BY DEF Takes, None
<1>3. \A m \in TestModes : ~Takes(<<"test", m>>)
  BY DEF Takes
<1> QED
  BY <1>1, <1>2, <1>3, PlainFacts

-----------------------------------------------------------------------------
(* Sequences of commands *)

\* R holds of every two values of q, the earlier first.
Sorted(q, R) == \A a, b \in DOMAIN q : a < b => <<q[a], q[b]>> \in R

LEMMA ConcatAt ==
  ASSUME NEW V, NEW q \in Seq(V), NEW r \in Seq(V)
  PROVE  /\ q \o r \in Seq(V) /\ Len(q \o r) = Len(q) + Len(r)
         /\ DOMAIN (q \o r) = 1..(Len(q) + Len(r))
         /\ \A n \in 1..Len(q) : (q \o r)[n] = q[n]
         /\ \A n \in 1..Len(r) : (q \o r)[Len(q) + n] = r[n]
OBVIOUS

LEMMA Concat ==
  ASSUME NEW V, NEW q \in Seq(V), NEW r \in Seq(V)
  PROVE  /\ q \o r \in Seq(V)
         /\ Len(q \o r) = Len(q) + Len(r)
         /\ Members(q \o r) = Members(q) \cup Members(r)
         /\ \A R : Sorted(q, R) /\ Sorted(r, R)
                     /\ Members(q) \X Members(r) \subseteq R
                   => Sorted(q \o r, R)
<1> DEFINE s == q \o r
<1>1. /\ s \in Seq(V) /\ Len(s) = Len(q) + Len(r) /\ DOMAIN s = 1..Len(s)
      /\ Len(q) \in Nat /\ Len(r) \in Nat
      /\ DOMAIN q = 1..Len(q) /\ DOMAIN r = 1..Len(r)
      /\ \A n \in 1..Len(q) : s[n] = q[n]
      /\ \A n \in 1..Len(r) : s[Len(q) + n] = r[n]
  OBVIOUS
<1> HIDE DEF s
<1>2. ASSUME NEW n \in DOMAIN s
      PROVE  \/ n \in DOMAIN q /\ s[n] = q[n]
             \/ n - Len(q) \in DOMAIN r /\ s[n] = r[n - Len(q)] /\ n > Len(q)
  <2>1. n \in 1..Len(q) \/ (n - Len(q) \in 1..Len(r) /\ n > Len(q))
    BY <1>1
  <2>2. n \in Int /\ Len(q) + (n - Len(q)) = n
    BY <1>1
  <2> QED
    BY <1>1, <2>1, <2>2
<1>3. Members(s) = Members(q) \cup Members(r)
  <2>1. ASSUME NEW x \in Members(s) PROVE x \in Members(q) \cup Members(r)
    BY <1>2 DEF Members
  <2>2. ASSUME NEW x \in Members(q) PROVE x \in Members(s)
    <3>1. PICK n \in 1..Len(q) : x = q[n]
      BY <1>1 DEF Members
    <3>2. n \in DOMAIN s /\ x = s[n]
      BY <1>1, <3>1
    <3> QED
      BY <3>2 DEF Members
  <2>3. ASSUME NEW x \in Members(r) PROVE x \in Members(s)
    <3>1. PICK n \in 1..Len(r) : x = r[n]
      BY <1>1 DEF Members
    <3>2. Len(q) + n \in DOMAIN s /\ x = s[Len(q) + n]
      BY <1>1, <3>1
    <3> QED
      BY <3>2 DEF Members
  <2> QED
    BY <2>1, <2>2, <2>3
<1>4. ASSUME NEW R, Sorted(q, R), Sorted(r, R),
             Members(q) \X Members(r) \subseteq R
      PROVE  Sorted(s, R)
  <2>1. ASSUME NEW a \in DOMAIN s, NEW b \in DOMAIN s, a < b
        PROVE  <<s[a], s[b]>> \in R
    <3>1. a \in Int /\ b \in Int /\ Len(q) \in Int
      BY <1>1
    <3>2. CASE b \in DOMAIN q /\ s[b] = q[b]
      <4>1. a \in DOMAIN q /\ s[a] = q[a]
        BY <1>1, <1>2, <2>1, <3>1, <3>2
      <4> QED
        BY <1>4, <2>1, <3>2, <4>1 DEF Sorted
    <3>3. CASE b - Len(q) \in DOMAIN r /\ s[b] = r[b - Len(q)]
      <4>1. CASE a \in DOMAIN q /\ s[a] = q[a]
        <5>1. s[a] \in Members(q) /\ s[b] \in Members(r)
          BY <3>3, <4>1 DEF Members
        <5> QED
          BY <5>1, <1>4
      <4>2. CASE a - Len(q) \in DOMAIN r /\ s[a] = r[a - Len(q)]
        <5>1. a - Len(q) < b - Len(q)
          BY <2>1, <3>1
        <5> QED
          BY <1>4, <3>3, <4>2, <5>1 DEF Sorted
      <4> QED
        BY <1>2, <4>1, <4>2
    <3> QED
      BY <1>2, <3>2, <3>3
  <2> QED
    BY <2>1 DEF Sorted
<1> QED
  BY <1>1, <1>3, <1>4 DEF s

\* push_back of a value that every value of the queue may precede.
LEMMA AppendSorted ==
  ASSUME NEW V, NEW q \in Seq(V), NEW v \in V, NEW R, Sorted(q, R),
         \A x \in Members(q) : <<x, v>> \in R
  PROVE  Sorted(Append(q, v), R)
<1>1. Append(q, v) = q \o <<v>> /\ <<v>> \in Seq(V)
  OBVIOUS
<1>2. Members(<<v>>) = {v}
  BY DEF Members
<1>3. Sorted(<<v>>, R)
  BY DEF Sorted
<1>4. Members(q) \X Members(<<v>>) \subseteq R
  BY <1>2
<1>5. Sorted(q \o <<v>>, R)
  BY <1>1, <1>3, <1>4, Concat
<1> QED
  BY <1>1, <1>5

\* pop_front.
LEMMA TailSorted ==
  ASSUME NEW V, NEW q \in Seq(V), q # <<>>, NEW R, Sorted(q, R)
  PROVE  /\ Sorted(Tail(q), R)
         /\ \A x \in Members(Tail(q)) : <<Head(q), x>> \in R
<1>1. /\ Tail(q) \in Seq(V) /\ Head(q) = q[1] /\ Len(q) \in Nat \ {0}
      /\ Len(Tail(q)) = Len(q) - 1
      /\ \A k \in 1..Len(Tail(q)) : Tail(q)[k] = q[k + 1]
  BY HeadTail
<1>2. DOMAIN q = 1..Len(q) /\ DOMAIN Tail(q) = 1..(Len(q) - 1)
  BY <1>1
<1>3. ASSUME NEW a \in DOMAIN Tail(q), NEW b \in DOMAIN Tail(q), a < b
      PROVE  <<Tail(q)[a], Tail(q)[b]>> \in R
  <2>1. a + 1 \in DOMAIN q /\ b + 1 \in DOMAIN q /\ a + 1 < b + 1
    BY <1>1, <1>2, <1>3
  <2>2. Tail(q)[a] = q[a + 1] /\ Tail(q)[b] = q[b + 1]
    BY <1>1, <1>2
  <2> QED
    BY <2>1, <2>2 DEF Sorted
<1>4. ASSUME NEW x \in Members(Tail(q)) PROVE <<Head(q), x>> \in R
  <2>1. PICK k \in DOMAIN Tail(q) : x = Tail(q)[k]
    BY DEF Members
  <2>2. k + 1 \in DOMAIN q /\ 1 \in DOMAIN q /\ 1 < k + 1 /\ x = q[k + 1]
    BY <1>1, <1>2, <2>1
  <2> QED
    BY <1>1, <2>2 DEF Sorted
<1> QED
  BY <1>3, <1>4 DEF Sorted

\* retain.
LEMMA RetainSorted ==
  ASSUME NEW V, NEW q \in Seq(V), NEW keep, NEW R, Sorted(q, R)
  PROVE  Sorted(Retain(q, keep), R)
<1>1. Embedded(Retain(q, keep), q, Len(q)) /\ DOMAIN q = 1..Len(q)
  BY RetainProperties
<1> QED
  BY <1>1 DEF Sorted, Embedded

-----------------------------------------------------------------------------
(* The invariant *)

Entry == [due : Nat, cmd : [Slot -> Sharable]]

TypeOK ==
  /\ pending \in Seq(Entry) /\ delay \in Nat
  /\ test \in TestModes /\ swaps \in Nat
  /\ link \in [Pad -> {"closed", "open", "ready"}]
  /\ queue \in [Pad -> Seq(Command)]
  /\ flight \in [Pad -> Command \cup {None}]
  /\ answered \in [Pad -> BOOLEAN]
  /\ lit \in [Pad -> [1..3 -> Nat]]
  /\ frames \in 0..MaxFrames
  /\ newest \in [Pad -> Nat] /\ released \in [Pad -> Nat]

\* The parts of StagedWhole: the commands, and the due times.  The first two
\* parts of the last frame are due together, so that a pass never leaves two
\* entries.
PartAt(n, len) == IF n + 3 - len \in 1..3 /\ len >= 3
                  THEN Parts[n + 3 - len] ELSE "bottom"

WholeFrames ==
  /\ Len(pending) \in {0, 1, 3, 4}
  /\ \A n \in DOMAIN pending : \A s \in Slot :
       pending[n].cmd[s] # None =>
         pending[n].cmd[s][1] = PartAt(n, Len(pending))

InTurn ==
  \A n \in DOMAIN pending :
    /\ \A m \in 1..n : pending[m].due <= pending[n].due
    /\ pending[n].due <= delay

DueTogether ==
  Len(pending) >= 3 =>
    pending[Len(pending) - 2].due = pending[Len(pending) - 1].due

StagedInv == WholeFrames /\ InTurn /\ DueTogether

\* A pad that is not open has nothing queued or in flight.
ClosedEmpty ==
  \A i \in Pad : link[i] = "closed" => queue[i] = <<>> /\ flight[i] = None

LEMMA StagedParts == StagedWhole <=> WholeFrames /\ InTurn
BY DEF StagedWhole, WholeFrames, InTurn, PartAt, Slot, Pad

LEMMA AtFacts ==
  ASSUME swaps \in Nat
  PROVE  \A s \in Slot : /\ At(s) \in Pad /\ At(At(s)) = s
                         /\ \A t \in Slot : At(s) = At(t) => s = t
BY DEF At, Slot, Pad

LEMMA InitType == Init => TypeOK
<1> SUFFICES ASSUME Init PROVE TypeOK
  OBVIOUS
<1>1. <<>> \in Seq(Entry) /\ <<>> \in Seq(Command)
  OBVIOUS
<1>2. Dark \in [1..3 -> Nat]
  BY DEF Dark
<1>3. 0 \in Nat /\ 0 \in 0..MaxFrames /\ "off" \in TestModes
  BY LightsAssumption DEF LightsAssumption
<1>4. /\ pending \in Seq(Entry) /\ delay \in Nat
      /\ test \in TestModes /\ swaps \in Nat /\ frames \in 0..MaxFrames
  BY <1>1, <1>3, Zenon DEF Init
<1>5. /\ link \in [Pad -> {"closed", "open", "ready"}]
      /\ queue \in [Pad -> Seq(Command)]
      /\ flight \in [Pad -> Command \cup {None}]
      /\ answered \in [Pad -> BOOLEAN]
  BY <1>1, Zenon DEF Init
<1>6. /\ lit \in [Pad -> [1..3 -> Nat]]
      /\ newest \in [Pad -> Nat] /\ released \in [Pad -> Nat]
  BY <1>2, <1>3, Zenon DEF Init
<1> QED
  BY <1>4, <1>5, <1>6 DEF TypeOK

LEMMA InitStaged == Init => StagedInv
BY DEF Init, StagedInv, WholeFrames, InTurn, DueTogether

-----------------------------------------------------------------------------
(* set_lights *)

\* The last three entries, behind the b that stay as they are, hold frame f.
NewFrame(b, f, S) ==
  /\ pending' \in Seq(Entry) /\ Len(pending') = b + 3
  /\ b = Len(pending) \/ b + 3 = Len(pending)
  /\ \A n \in 1..b : pending'[n] = pending[n]
  /\ \A k \in 1..3 : \A s \in Slot :
       \/ At(s) \in Configured /\ pending'[b + k].cmd[s] = Share(s, k, f, S)
       \/ At(s) \notin Configured /\ pending'[b + k].cmd[s] = None
       \/ /\ At(s) \notin Configured /\ b + 3 = Len(pending)
          /\ pending'[b + k].cmd[s] = pending[b + k].cmd[s]

LEMMA ShareFacts ==
  ASSUME NEW s, NEW k \in 1..3, NEW f \in 1..MaxFrames, NEW S
  PROVE  /\ Share(s, k, f, S) \in Sharable
         /\ Share(s, k, f, S) # None =>
              /\ Share(s, k, f, S) = <<Parts[k], f>>
              /\ Share(s, k, f, S)[1] = Parts[k] /\ Share(s, k, f, S)[2] = f
<1>1. Share(s, k, f, S) = <<Parts[k], f>> \/ Share(s, k, f, S) = None
  BY DEF Share
<1>2. <<Parts[k], f>>[1] = Parts[k] /\ <<Parts[k], f>>[2] = f
  OBVIOUS
<1>3. <<Parts[k], f>> \in Sharable /\ None \in Sharable
  BY PartIsLights DEF Sharable
<1> HIDE DEF Share
<1> QED
  BY <1>1, <1>2, <1>3

LEMMA StageShape ==
  ASSUME TypeOK, StagedInv, HasRoom, NEW f \in 1..MaxFrames, NEW S, Stage(f, S),
         delay' = delay + FrameInterval
  PROVE  /\ Len(pending) \in {0, 1} /\ NewFrame(Len(pending), f, S)
         /\ InTurn' /\ DueTogether'
<1> DEFINE L == Len(pending)
           late == IF \E i \in Configured : Version[i] >= 4 THEN 0
                   ELSE LegacyDelay
           new(k) == [due |-> delay + (IF k = 3 THEN late ELSE 0),
                      cmd |-> [s \in Slot |-> IF At(s) \in Configured
                                              THEN Share(s, k, f, S) ELSE None]]
           added == [k \in 1..3 |-> new(k)]
<1>1. L \in {0, 1}
  BY DEF StagedInv, WholeFrames, HasRoom
<1>2. /\ pending \in Seq(Entry) /\ DOMAIN pending = 1..L /\ L \in Nat
      /\ delay \in Nat
  BY DEF TypeOK
<1>3. \A k \in 1..3 : \A s \in Slot : Share(s, k, f, S) \in Sharable
  BY ShareFacts
<1>4. late \in 0..1
  BY DEF LegacyDelay
<1>5. ASSUME NEW k \in 1..3
      PROVE  /\ new(k) \in Entry
             /\ new(k).due = delay + (IF k = 3 THEN late ELSE 0)
  <2> HIDE DEF late
  <2>1. delay + (IF k = 3 THEN late ELSE 0) \in Nat
    BY <1>2, <1>4
  <2>2. [s \in Slot |-> IF At(s) \in Configured
                         THEN Share(s, k, f, S) ELSE None]
          \in [Slot -> Sharable]
    BY <1>3 DEF Sharable
  <2> QED
    BY <2>1, <2>2 DEF Entry
<1>6. \A k \in 1..3 : \A s \in Slot :
        new(k).cmd[s] = IF At(s) \in Configured THEN Share(s, k, f, S) ELSE None
  OBVIOUS
<1>7. pending' = pending \o added
  BY DEF Stage
<1> HIDE DEF new, late
<1>8. /\ added \in Seq(Entry) /\ Len(added) = 3
      /\ \A k \in 1..3 : added[k] = new(k)
  BY <1>5
<1> HIDE DEF added
<1>9. /\ pending' \in Seq(Entry) /\ Len(pending') = L + 3
      /\ DOMAIN pending' = 1..(L + 3)
      /\ \A n \in 1..L : pending'[n] = pending[n]
      /\ \A k \in 1..3 : pending'[L + k] = new(k)
  <2> DEFINE s == pending \o added
  <2>1. /\ s \in Seq(Entry) /\ Len(s) = Len(pending) + Len(added)
        /\ DOMAIN s = 1..(Len(pending) + Len(added))
        /\ \A n \in 1..Len(pending) : s[n] = pending[n]
        /\ \A n \in 1..Len(added) : s[Len(pending) + n] = added[n]
    <3>1. pending \in Seq(Entry) /\ added \in Seq(Entry)
      BY <1>2, <1>8
    <3> QED
      BY <3>1, ConcatAt
  <2>2. pending' = s
    BY <1>7
  <2> HIDE DEF s
  <2> QED
    BY <1>8, <2>1, <2>2
<1>10. NewFrame(L, f, S)
  BY <1>6, <1>9 DEF NewFrame
<1>11. \A n \in 1..L : pending[n].due \in Nat /\ pending[n].due <= delay
  <2>1. ASSUME NEW n \in 1..L
        PROVE  pending[n].due \in Nat /\ pending[n].due <= delay
    <3>1. pending[n] \in Entry
      BY <1>2, ElementOfSeq
    <3> QED
      BY <1>2, <3>1 DEF StagedInv, InTurn, Entry
  <2> QED
    BY <2>1
<1>12. /\ pending'[L + 1].due = delay /\ pending'[L + 2].due = delay
       /\ pending'[L + 3].due = delay + late
  BY <1>2, <1>5, <1>9
<1>13. DueTogether'
  <2>1. Len(pending') - 2 = L + 1 /\ Len(pending') - 1 = L + 2
    BY <1>2, <1>9
  <2> QED
    BY <2>1, <1>12 DEF DueTogether
<1>14. InTurn'
  <2>1. ASSUME NEW n \in 1..(L + 3)
        PROVE  \/ n \in 1..L /\ pending'[n].due = pending[n].due
               \/ n \in {L + 1, L + 2} /\ pending'[n].due = delay
               \/ n = L + 3 /\ pending'[n].due = delay + late
    <3>1. n \in 1..L \/ n = L + 1 \/ n = L + 2 \/ n = L + 3
      BY <1>2
    <3> QED
      BY <3>1, <1>9, <1>12
  <2>2. ASSUME NEW n \in 1..(L + 3), NEW m \in 1..n
        PROVE  pending'[m].due <= pending'[n].due
    <3>1. m \in 1..(L + 3) /\ m <= n
      BY <1>2
    <3>2. CASE n \in 1..L
      <4>1. m \in 1..L /\ pending[m].due <= pending[n].due
        BY <1>2, <3>1, <3>2 DEF StagedInv, InTurn
      <4> QED
        BY <1>9, <3>2, <4>1
    <3>3. CASE n \notin 1..L
      BY <1>2, <1>4, <1>11, <2>1, <3>1, <3>3
    <3> QED
      BY <3>2, <3>3
  <2>3. ASSUME NEW n \in 1..(L + 3) PROVE pending'[n].due <= delay + 2
    BY <1>2, <1>4, <1>11, <2>1
  <2> QED
    BY <1>9, <2>2, <2>3 DEF InTurn, FrameInterval
<1> QED
  BY <1>1, <1>10, <1>13, <1>14

LEMMA RestageShape ==
  ASSUME TypeOK, StagedInv, ~HasRoom, NEW f \in 1..MaxFrames, NEW S,
         Restage(f, S), delay' = delay
  PROVE  /\ Len(pending) \in {3, 4} /\ NewFrame(Len(pending) - 3, f, S)
         /\ InTurn' /\ DueTogether'
<1> DEFINE L == Len(pending)
           b == Len(pending) - 3
           new(n) == [s \in Slot |-> IF At(s) \in Configured
                                     THEN Share(s, n - b, f, S)
                                     ELSE pending[n].cmd[s]]
<1>1. L \in {3, 4} /\ b \in Nat /\ b + 3 = L
  <2>1. L \in {3, 4}
    <3>1. ASSUME NEW l \in {0, 1, 3, 4}, ~(l < 3) PROVE l \in {3, 4}
      BY <3>1
    <3>2. Len(pending) \in {0, 1, 3, 4} /\ ~(Len(pending) < 3)
      BY DEF StagedInv, WholeFrames, HasRoom
    <3> QED
      BY <3>1, <3>2
  <2> QED
    BY <2>1
<1>2. pending \in Seq(Entry) /\ DOMAIN pending = 1..L
  BY DEF TypeOK
<1>3. ASSUME NEW n \in 1..L
      PROVE  pending[n] \in Entry /\ pending[n].cmd \in [Slot -> Sharable]
  <2>1. pending[n] \in Entry
    BY <1>2, ElementOfSeq
  <2> QED
    BY <2>1 DEF Entry
<1>4. ASSUME NEW n \in 1..L, n - b \in 1..3 PROVE new(n) \in [Slot -> Sharable]
  <2>1. \A s \in Slot : Share(s, n - b, f, S) \in Sharable
    BY <1>4, ShareFacts
  <2> QED
    BY <1>3, <2>1
<1>5. pending' = [n \in DOMAIN pending |->
                    IF n - b \notin 1..3 THEN pending[n]
                    ELSE [pending[n] EXCEPT !.cmd = new(n)]]
  BY DEF Restage, Overwrite
<1> HIDE DEF new
<1>6. DOMAIN pending' = 1..L
  BY <1>2, <1>5
<1>7. ASSUME NEW n \in 1..L
      PROVE  /\ pending'[n] \in Entry /\ pending'[n].due = pending[n].due
             /\ n - b \notin 1..3 => pending'[n] = pending[n]
             /\ n - b \in 1..3 => pending'[n].cmd = new(n)
  <2>1. CASE n - b \notin 1..3
    BY <1>2, <1>3, <1>5, <2>1
  <2>2. CASE n - b \in 1..3
    <3>1. pending'[n] = [pending[n] EXCEPT !.cmd = new(n)]
      BY <1>2, <1>5, <2>2
    <3>2. pending[n] = [due |-> pending[n].due, cmd |-> pending[n].cmd]
            /\ pending[n].due \in Nat
      BY <1>3 DEF Entry
    <3>3. pending'[n] = [due |-> pending[n].due, cmd |-> new(n)]
      BY <3>1, <3>2
    <3>4. new(n) \in [Slot -> Sharable]
      BY <1>4, <2>2
    <3> QED
      BY <2>2, <3>2, <3>3, <3>4 DEF Entry
  <2> QED
    BY <2>1, <2>2
<1>8. pending' \in Seq(Entry) /\ Len(pending') = L
  <2>1. pending' = [n \in 1..L |-> pending'[n]]
    BY <1>2, <1>5
  <2>2. L \in Nat
    BY <1>1
  <2> QED
    BY <1>6, <1>7, <2>1, <2>2, SeqDef, LenProperties
<1>9. NewFrame(b, f, S)
  <2>1. \A n \in 1..b : n - b \notin 1..3 /\ n \in 1..L
    BY <1>1
  <2>2. ASSUME NEW k \in 1..3, NEW s \in Slot
        PROVE  \/ /\ At(s) \in Configured
                  /\ pending'[b + k].cmd[s] = Share(s, k, f, S)
               \/ /\ At(s) \notin Configured /\ b + 3 = Len(pending)
                  /\ pending'[b + k].cmd[s] = pending[b + k].cmd[s]
    <3>1. b + k \in 1..L /\ (b + k) - b = k
      BY <1>1
    <3>2. pending'[b + k].cmd = new(b + k)
      BY <1>7, <3>1
    <3>3. pending'[b + k].cmd[s] = IF At(s) \in Configured
                                   THEN Share(s, (b + k) - b, f, S)
                                   ELSE pending[b + k].cmd[s]
      BY <3>2 DEF new
    <3> QED
      BY <1>1, <3>1, <3>3
  <2> HIDE DEF b
  <2> QED
    BY <1>1, <1>7, <1>8, <2>1, <2>2 DEF NewFrame
<1>10. InTurn'
  <2>1. ASSUME NEW n \in 1..L, NEW m \in 1..n
        PROVE  pending'[m].due <= pending'[n].due /\ pending'[n].due <= delay'
    <3>1. m \in 1..L
      BY <1>1
    <3>2. pending[m].due <= pending[n].due /\ pending[n].due <= delay
      BY <1>2 DEF StagedInv, InTurn
    <3> QED
      BY <1>7, <3>1, <3>2
  <2>2. ASSUME NEW n \in 1..L PROVE n \in 1..n
    BY <1>1
  <2> QED
    BY <1>6, <2>1, <2>2 DEF InTurn
<1>11. DueTogether'
  <2>1. L - 2 \in 1..L /\ L - 1 \in 1..L
    BY <1>1
  <2>2. pending[L - 2].due = pending[L - 1].due
    BY <1>1 DEF StagedInv, DueTogether
  <2> QED
    BY <1>7, <1>8, <2>1, <2>2 DEF DueTogether
<1> QED
  BY <1>1, <1>9, <1>10, <1>11

LEMMA NewFrameWhole ==
  ASSUME TypeOK, StagedInv, NEW b \in {0, 1}, NEW f \in 1..MaxFrames, NEW S,
         NewFrame(b, f, S)
  PROVE  WholeFrames'
<1> DEFINE L == Len(pending)
<1>1. /\ Len(pending') = b + 3 /\ DOMAIN pending' = 1..(b + 3)
      /\ DOMAIN pending = 1..L /\ L \in Nat
  BY DEF NewFrame, TypeOK
<1>2. ASSUME NEW n \in 1..(b + 3), NEW s \in Slot, pending'[n].cmd[s] # None
      PROVE  pending'[n].cmd[s][1] = PartAt(n, b + 3)
  <2>1. CASE n \in 1..b
    <3>1. n = 1 /\ b = 1 /\ L \in {1, 4} /\ pending'[n] = pending[n]
      <4>1. n = 1 /\ b = 1
        BY <2>1
      <4>2. (b = L \/ b + 3 = L) /\ pending'[n] = pending[n]
        BY <2>1 DEF NewFrame
      <4> QED
        BY <4>1, <4>2
    <3>2. pending[n].cmd[s][1] = PartAt(1, L)
      BY <1>1, <1>2, <3>1 DEF StagedInv, WholeFrames
    <3>3. PartAt(1, 1) = "bottom" /\ PartAt(1, 4) = "bottom"
      BY DEF PartAt
    <3>4. b + 3 = 4
      BY <3>1
    <3> QED
      BY <3>1, <3>2, <3>3, <3>4
  <2>2. CASE n \notin 1..b
    <3> DEFINE k == n - b
    <3>1. k \in 1..3 /\ b + k = n /\ n + 3 - (b + 3) = k /\ b + 3 >= 3
      BY <2>2
    <3>2. PartAt(n, b + 3) = Parts[k]
      BY <3>1 DEF PartAt
    <3> HIDE DEF k
    <3>3. \/ At(s) \in Configured /\ pending'[b + k].cmd[s] = Share(s, k, f, S)
          \/ At(s) \notin Configured /\ pending'[b + k].cmd[s] = None
          \/ /\ At(s) \notin Configured /\ b + 3 = Len(pending)
             /\ pending'[b + k].cmd[s] = pending[b + k].cmd[s]
      BY <3>1 DEF NewFrame
    <3>4. CASE pending'[b + k].cmd[s] = Share(s, k, f, S)
      BY <1>2, <3>1, <3>2, <3>4, ShareFacts
    <3>5. CASE b + 3 = L /\ pending'[n].cmd[s] = pending[n].cmd[s]
      <4>1. pending[n].cmd[s][1] = PartAt(n, L)
        BY <1>1, <1>2, <3>5 DEF StagedInv, WholeFrames
      <4> QED
        BY <3>5, <4>1
    <3> QED
      BY <1>2, <3>1, <3>3, <3>4, <3>5
  <2> QED
    BY <2>1, <2>2
<1> QED
  BY <1>1, <1>2 DEF WholeFrames

LEMMA SetLightsStaged ==
  ASSUME TypeOK, StagedInv, NEW S, SetLights(S)
  PROVE  /\ frames' \in 1..MaxFrames /\ frames' = frames + 1
         /\ StagedInv'
         /\ \E b \in {0, 1} : NewFrame(b, frames', S)
<1>1. frames' \in 1..MaxFrames /\ frames' = frames + 1
  BY LightsAssumption DEF SetLights, TypeOK, LightsAssumption
<1>2. \E b \in {0, 1} : NewFrame(b, frames', S) /\ InTurn' /\ DueTogether'
  <2>1. CASE HasRoom
    <3>1. Stage(frames', S) /\ delay' = delay + FrameInterval
      BY <2>1 DEF SetLights
    <3> QED
      BY <1>1, <2>1, <3>1, StageShape
  <2>2. CASE ~HasRoom
    <3>1. Restage(frames', S) /\ delay' = delay
      BY <2>2 DEF SetLights
    <3>2. /\ Len(pending) \in {3, 4} /\ NewFrame(Len(pending) - 3, frames', S)
          /\ InTurn' /\ DueTogether'
      BY <1>1, <2>2, <3>1, RestageShape
    <3>3. Len(pending) - 3 \in {0, 1}
      BY <3>2
    <3> QED
      BY <3>2, <3>3
  <2> QED
    BY <2>1, <2>2
<1>3. WholeFrames'
  BY <1>1, <1>2, NewFrameWhole
<1> QED
  BY <1>1, <1>2, <1>3 DEF StagedInv

-----------------------------------------------------------------------------
(* What else changes the staged entries *)

\* Entries that only lose commands or come closer stay whole.
LEMMA StaysWhole ==
  ASSUME TypeOK, WholeFrames, pending' \in Seq(Entry),
         Len(pending') = Len(pending),
         \A n \in 1..Len(pending) : \A s \in Slot :
           pending'[n].cmd[s] # None =>
             pending'[n].cmd[s] = pending[n].cmd[s]
  PROVE  WholeFrames'
<1>1. DOMAIN pending = 1..Len(pending) /\ DOMAIN pending' = 1..Len(pending)
  BY DEF TypeOK
<1>2. ASSUME NEW n \in 1..Len(pending), NEW s \in Slot,
             pending'[n].cmd[s] # None
      PROVE  pending'[n].cmd[s][1] = PartAt(n, Len(pending))
  BY <1>1, <1>2 DEF WholeFrames
<1> QED
  BY <1>1, <1>2 DEF WholeFrames

\* A pad's share of the staged frames is dropped.
LEMMA UnstageStaged ==
  ASSUME TypeOK, StagedInv, NEW i \in Pad, pending' = Unstage(i), delay' = delay
  PROVE  /\ pending' \in Seq(Entry) /\ Len(pending') = Len(pending)
         /\ \A n \in 1..Len(pending) : \A s \in Slot :
              pending'[n].cmd[s] = IF s = At(i) THEN None
                                   ELSE pending[n].cmd[s]
         /\ StagedInv'
<1> DEFINE L == Len(pending)
<1>1. pending \in Seq(Entry) /\ DOMAIN pending = 1..L /\ L \in Nat
  BY DEF TypeOK
<1>2. ASSUME NEW n \in 1..L
      PROVE  /\ pending'[n] \in Entry
             /\ pending'[n].due = pending[n].due
             /\ \A s \in Slot : pending'[n].cmd[s] =
                  IF s = At(i) THEN None ELSE pending[n].cmd[s]
  <2>1. pending[n] \in Entry
    BY <1>1, ElementOfSeq
  <2>2. /\ pending[n] = [due |-> pending[n].due, cmd |-> pending[n].cmd]
        /\ pending[n].due \in Nat /\ pending[n].cmd \in [Slot -> Sharable]
    BY <2>1 DEF Entry
  <2>3. pending'[n] = [pending[n] EXCEPT !.cmd[At(i)] = None]
    BY <1>1 DEF Unstage
  <2>4. pending'[n] = [due |-> pending[n].due,
                       cmd |-> [pending[n].cmd EXCEPT ![At(i)] = None]]
    BY <2>2, <2>3
  <2>5. [pending[n].cmd EXCEPT ![At(i)] = None] \in [Slot -> Sharable]
    BY <2>2 DEF Sharable
  <2> QED
    BY <2>2, <2>4, <2>5 DEF Entry
<1>3. pending' = [n \in 1..L |-> pending'[n]]
  BY <1>1 DEF Unstage
<1>4. pending' \in Seq(Entry) /\ Len(pending') = L /\ DOMAIN pending' = 1..L
  BY <1>1, <1>2, <1>3, SeqDef, LenProperties
<1>5. WholeFrames'
  BY <1>1, <1>2, <1>4, StaysWhole DEF StagedInv
<1>6. InTurn'
  <2>1. ASSUME NEW n \in 1..L, NEW m \in 1..n
        PROVE  pending'[m].due <= pending'[n].due
    <3>1. m \in 1..L
      BY <1>1
    <3> QED
      BY <1>1, <1>2, <3>1 DEF StagedInv, InTurn
  <2>2. ASSUME NEW n \in 1..L PROVE pending'[n].due <= delay
    BY <1>1, <1>2 DEF StagedInv, InTurn
  <2> QED
    BY <1>4, <2>1, <2>2 DEF InTurn
<1>7. DueTogether'
  <2>1. CASE L >= 3
    <3>1. L - 2 \in 1..L /\ L - 1 \in 1..L
      BY <1>1, <2>1
    <3> QED
      BY <1>2, <1>4, <2>1, <3>1 DEF StagedInv, DueTogether
  <2>2. CASE ~(L >= 3)
    BY <1>4, <2>2 DEF DueTogether
  <2> QED
    BY <2>1, <2>2
<1> QED
  BY <1>2, <1>4, <1>5, <1>6, <1>7 DEF StagedInv

\* Time passes.
LEMMA TickStaged ==
  ASSUME TypeOK, StagedInv, Tick
  PROVE  /\ pending' \in Seq(Entry) /\ Len(pending') = Len(pending)
         /\ \A n \in 1..Len(pending) : pending'[n].cmd = pending[n].cmd
         /\ delay' \in Nat
         /\ StagedInv'
<1> DEFINE L == Len(pending)
<1>1. /\ pending \in Seq(Entry) /\ DOMAIN pending = 1..L /\ L \in Nat
      /\ delay \in Nat
  BY DEF TypeOK
<1>2. \A m, n \in Nat : /\ Before(n) \in Nat
                        /\ m <= n => Before(m) <= Before(n)
  BY DEF Before
<1>3. ASSUME NEW n \in 1..L
      PROVE  /\ pending'[n] \in Entry /\ pending[n].due \in Nat
             /\ pending'[n].due = Before(pending[n].due)
             /\ pending'[n].cmd = pending[n].cmd
  <2>1. pending[n] \in Entry
    BY <1>1, ElementOfSeq
  <2>2. /\ pending[n] = [due |-> pending[n].due, cmd |-> pending[n].cmd]
        /\ pending[n].due \in Nat /\ pending[n].cmd \in [Slot -> Sharable]
    BY <2>1 DEF Entry
  <2>3. pending'[n] = [pending[n] EXCEPT !.due = Before(@)]
    BY <1>1 DEF Tick
  <2>4. pending'[n] = [due |-> Before(pending[n].due), cmd |-> pending[n].cmd]
    BY <2>2, <2>3
  <2>5. Before(pending[n].due) \in Nat
    BY <1>2, <2>2
  <2> QED
    BY <2>2, <2>4, <2>5 DEF Entry
<1>4. pending' = [n \in 1..L |-> pending'[n]]
  BY <1>1 DEF Tick
<1>5. pending' \in Seq(Entry) /\ Len(pending') = L /\ DOMAIN pending' = 1..L
  BY <1>1, <1>3, <1>4, SeqDef, LenProperties
<1>6. delay' = Before(delay)
  BY DEF Tick
<1>7. WholeFrames'
  BY <1>1, <1>3, <1>5, StaysWhole DEF StagedInv
<1>8. InTurn'
  <2>1. ASSUME NEW n \in 1..L, NEW m \in 1..n
        PROVE  pending'[m].due <= pending'[n].due
    <3>1. m \in 1..L /\ pending[m].due <= pending[n].due
      BY <1>1 DEF StagedInv, InTurn
    <3> QED
      BY <1>2, <1>3, <3>1
  <2>2. ASSUME NEW n \in 1..L PROVE pending'[n].due <= delay'
    <3>1. pending[n].due <= delay
      BY <1>1 DEF StagedInv, InTurn
    <3> QED
      BY <1>1, <1>2, <1>3, <1>6, <3>1
  <2> QED
    BY <1>5, <2>1, <2>2 DEF InTurn
<1>9. DueTogether'
  <2>1. CASE L >= 3
    <3>1. L - 2 \in 1..L /\ L - 1 \in 1..L
      BY <1>1, <2>1
    <3> QED
      BY <1>3, <1>5, <2>1, <3>1 DEF StagedInv, DueTogether
  <2>2. CASE ~(L >= 3)
    BY <1>5, <2>2 DEF DueTogether
  <2> QED
    BY <2>1, <2>2
<1> QED
  BY <1>1, <1>2, <1>3, <1>5, <1>6, <1>7, <1>8, <1>9 DEF StagedInv

\* A pass takes the entries before the first that is not due, or none.
LEMMA CountFacts ==
  ASSUME TypeOK, StagedInv, NEW q
  PROVE  /\ Count(q) \in 0..Len(pending)
         /\ Count(q) # 0 => ~LightsUnsent(q)
         /\ Count(q) = 0 \/ Count(q) # Len(pending) - 2
<1> DEFINE L == Len(pending)
           c == Count(q)
           later == {n \in DOMAIN pending : pending[n].due > 0}
           first == CHOOSE n \in later : \A m \in later : n <= m
<1>0. L \in Nat
  BY DEF TypeOK
<1>1. /\ DOMAIN pending = 1..L /\ L \in Nat
      /\ c = IF LightsUnsent(q) THEN 0 ELSE IF later = {} THEN L ELSE first - 1
  BY DEF TypeOK, Count
<1>2. later \subseteq Nat /\ later \subseteq 1..L
  BY <1>1
<1> HIDE DEF c
<1>3. CASE LightsUnsent(q)
  BY <1>1, <1>3 DEF c
<1>4. CASE ~LightsUnsent(q) /\ later = {}
  BY <1>1, <1>4 DEF c
<1>5. CASE ~LightsUnsent(q) /\ later # {}
  <2>1. PICK x \in later : \A y \in later : ~(y < x)
    BY <1>2, <1>5, LeastElement
  <2>2. \A m \in later : x <= m
    <3> HIDE DEF later
    <3> QED
      BY <1>2, <2>1
  <2>3. first \in later /\ \A m \in later : first <= m
    <3> HIDE DEF later
    <3> QED
      BY <2>1, <2>2
  <2>4. c = first - 1
    BY <1>1, <1>5
  <2>5. first \in 1..L /\ pending[first].due > 0
    BY <1>1, <2>3
  <2>6. ASSUME NEW n \in 1..L, n < first PROVE ~(pending[n].due > 0)
    <3>1. n \notin later
      <4> HIDE DEF later, first
      <4>1. n \in Int /\ first \in Int /\ ~(first <= n)
        BY <1>0, <2>5, <2>6
      <4> QED
        BY <2>3, <4>1
    <3> QED
      BY <1>1, <3>1
  <2> HIDE DEF first, later
  <2>7. c \in 0..L
    <3>1. first \in 1..L
      BY <2>5
    <3> HIDE DEF L
    <3> QED
      BY <1>0, <2>4, <3>1
  <2>8. ASSUME c # 0, c = L - 2 PROVE FALSE
    <3>1. L >= 3 /\ first = L - 1 /\ L - 2 \in 1..L /\ L - 2 < first
      <4>1. L \in Int /\ first \in Int /\ first - 1 = L - 2
        BY <1>0, <2>4, <2>5, <2>8
      <4>2. L - 2 \in 0..L /\ L - 2 # 0
        BY <2>7, <2>8
      <4> QED
        BY <4>1, <4>2
    <3>2. pending[L - 2].due = pending[L - 1].due
      BY <3>1 DEF StagedInv, DueTogether
    <3>3. ~(pending[L - 2].due > 0)
      BY <2>6, <3>1
    <3> QED
      BY <2>5, <3>1, <3>2, <3>3
  <2> QED
    BY <1>5, <2>7, <2>8 DEF c
<1> QED
  BY <1>3, <1>4, <1>5

\* The entries that stay move up.
LEMMA PassStaged ==
  ASSUME TypeOK, StagedInv, delay' = delay, NEW c \in 0..Len(pending),
         c = 0 \/ c # Len(pending) - 2,
         pending' = SubSeq(pending, c + 1, Len(pending))
  PROVE  /\ pending' \in Seq(Entry) /\ Len(pending') = Len(pending) - c
         /\ \A n \in 1..(Len(pending) - c) : pending'[n] = pending[c + n]
         /\ StagedInv'
<1> DEFINE L == Len(pending)
<1>0. L \in Nat /\ L \in {0, 1, 3, 4} /\ c \in Nat /\ c <= L
  BY DEF TypeOK, StagedInv, WholeFrames
<1>1. pending \in Seq(Entry) /\ DOMAIN pending = 1..L
  BY DEF TypeOK
<1>2. /\ pending' \in Seq(Entry) /\ Len(pending') = L - c
      /\ \A n \in 1..(L - c) : pending'[n] = pending[c + n]
  <2>1. c + 1 \in Int /\ L \in Int
    BY <1>0
  <2>2. \A n \in (c + 1)..L : pending[n] \in Entry
    <3>1. \A n \in (c + 1)..L : n \in 1..L
      BY <1>0
    <3> QED
      BY <1>1, <3>1, ElementOfSeq
  <2>3. /\ pending' \in Seq(Entry)
        /\ Len(pending') = IF c + 1 <= L THEN L - (c + 1) + 1 ELSE 0
        /\ \A n \in 1..(L - (c + 1) + 1) : pending'[n] = pending[c + 1 + n - 1]
    BY <2>1, <2>2, SubSeqProperties
  <2>4. L - (c + 1) + 1 = L - c /\ \A n \in 1..(L - c) : c + 1 + n - 1 = c + n
    BY <1>0
  <2>5. (IF c + 1 <= L THEN L - (c + 1) + 1 ELSE 0) = L - c
    BY <1>0
  <2> HIDE DEF L
  <2> QED
    BY <2>3, <2>4, <2>5
<1>3. DOMAIN pending' = 1..(L - c)
  BY <1>2
<1>4. \A n \in 1..(L - c) : c + n \in 1..L
  BY <1>0
<1> HIDE DEF L
<1>5. WholeFrames'
  <2>1. L - c \in {0, 1, 3, 4}
    <3>1. c = 0 \/ c # L - 2
      BY DEF L
    <3>2. c \in {0, 1, 2, 3, 4} /\ (L = 0 \/ L = 1 \/ L = 3 \/ L = 4)
      BY <1>0
    <3> QED
      BY <1>0, <3>1, <3>2
  <2>2. ASSUME NEW n \in 1..(L - c), NEW s \in Slot, pending'[n].cmd[s] # None
        PROVE  pending'[n].cmd[s][1] = PartAt(n, L - c)
    <3>1. pending[c + n].cmd[s][1] = PartAt(c + n, L)
      BY <1>1, <1>2, <1>4, <2>2 DEF StagedInv, WholeFrames, L
    <3>2. PartAt(c + n, L) = PartAt(n, L - c)
      <4>1. c + n + 3 - L = n + 3 - (L - c)
        BY <1>0
      <4>2. CASE L - c >= 3
        <5>1. L >= 3
          BY <1>0, <4>2
        <5> QED
          BY <4>1, <4>2, <5>1 DEF PartAt
      <4>3. CASE ~(L - c >= 3)
        <5>1. L - c = 1 /\ n = 1
          BY <2>1, <4>3
        <5>2. PartAt(n, L - c) = "bottom"
          BY <5>1 DEF PartAt
        <5>3. c + n = L
          BY <1>0, <5>1
        <5>4. L + 3 - L = 3
          BY <1>0
        <5>5. PartAt(L, L) = "bottom"
          BY <5>4, PartsFacts DEF PartAt
        <5> QED
          BY <5>2, <5>3, <5>5
      <4> QED
        BY <4>2, <4>3
    <3> QED
      BY <1>2, <3>1, <3>2
  <2> QED
    BY <1>2, <1>3, <2>1, <2>2 DEF WholeFrames
<1>6. InTurn'
  <2>1. ASSUME NEW n \in 1..(L - c), NEW m \in 1..n
        PROVE  pending'[m].due <= pending'[n].due /\ pending'[n].due <= delay
    <3>1. /\ m \in 1..(L - c) /\ c + m \in 1..(c + n)
          /\ c + n \in 1..L /\ c + m \in 1..L
      BY <1>0
    <3>2. /\ pending[c + m].due <= pending[c + n].due
          /\ pending[c + n].due <= delay
      BY <1>1, <3>1 DEF StagedInv, InTurn
    <3> QED
      BY <1>2, <3>1, <3>2
  <2>2. \A n \in 1..(L - c) : n \in 1..n
    BY <1>0
  <2> QED
    BY <1>3, <2>1, <2>2 DEF InTurn
<1>7. DueTogether'
  <2>1. CASE L - c >= 3
    <3>1. /\ (L - c) - 2 \in 1..(L - c) /\ (L - c) - 1 \in 1..(L - c)
          /\ c + ((L - c) - 2) = L - 2 /\ c + ((L - c) - 1) = L - 1 /\ L >= 3
      BY <1>0, <2>1
    <3>2. pending[L - 2].due = pending[L - 1].due
      BY <3>1 DEF StagedInv, DueTogether, L
    <3>3. pending'[(L - c) - 2].due = pending'[(L - c) - 1].due
      BY <1>2, <3>1, <3>2
    <3> QED
      BY <1>2, <3>3 DEF DueTogether
  <2>2. CASE ~(L - c >= 3)
    BY <1>2, <2>2 DEF DueTogether
  <2> QED
    BY <2>1, <2>2
<1> QED
  BY <1>2, <1>5, <1>6, <1>7 DEF StagedInv, L

-----------------------------------------------------------------------------
(* What a pass makes of a pad's queue *)

\* update() takes the first command of a pad that is idle, or finds none.
LEMMA UpdateFacts ==
  ASSUME TypeOK, NEW i \in Pad
  PROVE  /\ queue[i] \in Seq(Command) /\ AfterUpdate[i] \in Seq(Command)
         /\ i \in Goes => /\ queue[i] # <<>> /\ AfterUpdate[i] = Tail(queue[i])
                          /\ i \in Open
         /\ i \notin Goes => AfterUpdate[i] = queue[i]
         /\ Members(AfterUpdate[i]) \subseteq Members(queue[i])
<1>1. queue[i] \in Seq(Command)
  BY DEF TypeOK
<1>2. AfterUpdate[i] = IF i \in Goes THEN Tail(queue[i]) ELSE queue[i]
  BY DEF AfterUpdate
<1>3. CASE i \in Goes
  <2>1. queue[i] # <<>> /\ i \in Open
    BY <1>3 DEF Goes, Idle
  <2> QED
    BY <1>1, <1>2, <1>3, <2>1, HeadTail
<1>4. CASE i \notin Goes
  BY <1>1, <1>2, <1>4
<1> QED
  BY <1>1, <1>3, <1>4

\* Behind the queue come the commands of the test mode, which are no lights.
LEMMA TestFacts ==
  ASSUME TypeOK, NEW q, NEW i \in Pad, q[i] \in Seq(Command)
  PROVE  \E t \in Seq(Plain) :
           /\ AfterTest(q)[i] = q[i] \o t
           /\ \A c \in Members(t) : Takes(c) => test # "off"
           /\ i \notin Open => t = <<>>
<1> DEFINE off == IF last = "off" /\ test # "off" THEN <<<<"dark">>>> ELSE <<>>
<1>1. AfterTest(q)[i] = IF TestModeDue /\ i \in Open
                        THEN q[i] \o off \o <<<<"test", test>>>> ELSE q[i]
  BY DEF AfterTest
<1>2. <<"dark">> \in Plain /\ <<"test", test>> \in Plain
  BY PlainFacts DEF TypeOK
<1>3. CASE TestModeDue /\ i \in Open
  <2> DEFINE t == off \o <<<<"test", test>>>>
  <2>1. off \in Seq(Plain) /\ \A c \in Members(off) : test # "off"
    <3>1. CASE off = <<>>
      BY <3>1 DEF Members
    <3>2. CASE off = <<<<"dark">>>> /\ test # "off"
      BY <1>2, <3>2
    <3> QED
      BY <3>1, <3>2
  <2>2. AfterTest(q)[i] = (q[i] \o off) \o <<<<"test", test>>>>
    BY <1>1, <1>3
  <2> HIDE DEF off
  <2>3. <<<<"test", test>>>> \in Seq(Plain)
    BY <1>2
  <2>4. /\ t \in Seq(Plain)
        /\ Members(t) = Members(off) \cup Members(<<<<"test", test>>>>)
    BY <2>1, <2>3, Concat
  <2>5. Members(<<<<"test", test>>>>) = {<<"test", test>>}
    BY DEF Members
  <2>6. Plain \subseteq Command
    BY DEF Command
  <2>7. off \in Seq(Command) /\ <<<<"test", test>>>> \in Seq(Command)
    BY <2>1, <2>3, <2>6, SeqMonotonic
  <2>8. AfterTest(q)[i] = q[i] \o t
    <3>1. (q[i] \o off) \o <<<<"test", test>>>> = q[i] \o t
      <4>1. \A a, b, c \in Seq(Command) : (a \o b) \o c = a \o (b \o c)
        BY ConcatAssociative
      <4> QED
        BY <2>7, <4>1, Zenon
    <3> QED
      BY <2>2, <3>1
  <2>9. ASSUME NEW c \in Members(t), Takes(c) PROVE test # "off"
    <3>1. ~Takes(<<"test", test>>)
      BY TakesFacts DEF TypeOK
    <3> HIDE DEF t
    <3> QED
      BY <2>1, <2>4, <2>5, <2>9, <3>1
  <2> HIDE DEF t
  <2> QED
    BY <1>3, <2>4, <2>8, <2>9
<1>4. CASE ~(TestModeDue /\ i \in Open)
  <2>1. AfterTest(q)[i] = q[i] \o <<>>
    BY <1>1, <1>4, ConcatEmptySeq
  <2>2. <<>> \in Seq(Plain) /\ Members(<<>>) = {}
    BY DEF Members
  <2> QED
    BY <2>1, <2>2
<1> QED
  BY <1>3, <1>4

\* Behind that come the shares of the staged frames, in their order.
LEMMA HandedFacts ==
  ASSUME TypeOK, NEW i \in Pad, NEW n \in 0..Len(pending)
  PROVE  /\ Handed(i, n) \in Seq(LightsCommands) /\ Len(Handed(i, n)) <= n
         /\ Members(Handed(i, n)) =
              {pending[m].cmd[At(i)] : m \in 1..n} \cap LightsCommands
         /\ \A R :
              (\A a, b \in 1..n : a < b =>
                 <<pending[a].cmd[At(i)], pending[b].cmd[At(i)]>> \in R)
              => Sorted(Handed(i, n), R)
<1> DEFINE s == [m \in 1..n |-> pending[m].cmd[At(i)]]
           h == Retain(s, LightsCommands)
<1>1. At(i) \in Slot
  BY AtFacts DEF TypeOK, Slot, Pad
<1>2. /\ pending \in Seq(Entry) /\ Len(pending) \in Nat
      /\ n \in Nat /\ n <= Len(pending)
  BY DEF TypeOK
<1>3. ASSUME NEW m \in 1..n PROVE pending[m].cmd[At(i)] \in Sharable
  <2>1. m \in 1..Len(pending)
    BY <1>2
  <2>2. pending[m] \in Entry
    BY <1>2, <2>1, ElementOfSeq
  <2> QED
    BY <1>1, <2>2 DEF Entry
<1>4. /\ s \in Seq(Sharable) /\ Len(s) = n /\ DOMAIN s = 1..n
      /\ \A m \in 1..n : s[m] = pending[m].cmd[At(i)]
  BY <1>2, <1>3
<1> HIDE DEF s
<1>5. /\ h \in Seq(Sharable) /\ Len(h) <= Len(s)
      /\ Members(h) = Members(s) \cap LightsCommands
  BY <1>4, RetainProperties
<1>6. Members(s) = {pending[m].cmd[At(i)] : m \in 1..n}
  BY <1>4 DEF Members
<1>7. h = Handed(i, n)
  BY DEF Handed, s
<1>8. \A R : Sorted(s, R) => Sorted(h, R)
  BY <1>4, RetainSorted
<1> HIDE DEF h
<1>9. h \in Seq(LightsCommands)
  <2>1. \A k \in 1..Len(h) : h[k] \in LightsCommands
    <3>1. DOMAIN h = 1..Len(h)
      BY <1>5
    <3>2. \A k \in 1..Len(h) : h[k] \in Members(h)
      BY <3>1 DEF Members
    <3> QED
      BY <1>5, <3>2
  <2> QED
    BY <1>5, <2>1
<1>10. ASSUME NEW R,
              \A a, b \in 1..n : a < b =>
                <<pending[a].cmd[At(i)], pending[b].cmd[At(i)]>> \in R
       PROVE  Sorted(h, R)
  <2>1. Sorted(s, R)
    BY <1>4, <1>10 DEF Sorted
  <2> QED
    BY <1>8, <2>1
<1> QED
  BY <1>4, <1>5, <1>6, <1>7, <1>9, <1>10

\* The three together.
LEMMA PassQueue ==
  ASSUME TypeOK, StagedInv, Pass, NEW i \in Pad
  PROVE  LET n == Count(AfterTest(AfterUpdate))
             h == IF i \in Open THEN Handed(i, n) ELSE <<>>
         IN  \E t \in Seq(Plain) :
               /\ queue'[i] = (AfterUpdate[i] \o t) \o h
               /\ AfterTest(AfterUpdate)[i] = AfterUpdate[i] \o t
               /\ \A c \in Members(t) : Takes(c) => test # "off"
               /\ i \notin Open => t = <<>>
<1> DEFINE q == AfterTest(AfterUpdate)
           n == Count(q)
           h == IF i \in Open THEN Handed(i, n) ELSE <<>>
<1>1. PICK t \in Seq(Plain) : /\ q[i] = AfterUpdate[i] \o t
                              /\ \A c \in Members(t) : Takes(c) => test # "off"
                              /\ i \notin Open => t = <<>>
  BY TestFacts, UpdateFacts
<1>2. queue'[i] = IF i \in Open THEN q[i] \o Handed(i, n) ELSE q[i]
  BY DEF Pass, AfterLights, EnqueueLights
<1>3. q[i] \in Seq(Command)
  <2>1. t \in Seq(Command) /\ AfterUpdate[i] \in Seq(Command)
    BY UpdateFacts, SeqMonotonic DEF Command
  <2> QED
    BY <1>1, <2>1, Concat
<1>4. queue'[i] = q[i] \o h
  BY <1>2, <1>3, ConcatEmptySeq
<1> QED
  BY <1>1, <1>4

-----------------------------------------------------------------------------
(* Types, the shape of the staging list, and pads that are not open *)

Shape == TypeOK /\ StagedInv /\ ClosedEmpty

\* The queue of a pad that is released.
LEMMA ReleasedFacts ==
  ASSUME NEW q \in Seq(Command)
  PROVE  /\ Released(q) \in Seq(Command)
         /\ Members(Released(q)) =
              (Members(q) \ LightsCommands) \cup {<<"auto">>}
         /\ \A R : Sorted(q, R)
                   /\ (\A x \in Members(q) : x \notin LightsCommands =>
                         <<x, <<"auto">>>> \in R)
                   => Sorted(Released(q), R)
<1> DEFINE r == Retain(q, Members(q) \ LightsCommands)
<1>1. /\ r \in Seq(Command)
      /\ Members(r) = Members(q) \cap (Members(q) \ LightsCommands)
  BY RetainProperties
<1>2. \A R : Sorted(q, R) => Sorted(r, R)
  BY RetainSorted
<1>3. Released(q) = Append(r, <<"auto">>)
  BY DEF Released, WithoutLights
<1> HIDE DEF r
<1>4. <<"auto">> \in Command
  BY PlainFacts DEF Command
<1>5. Members(Append(r, <<"auto">>)) = Members(r) \cup {<<"auto">>}
  BY <1>1, MembersAppend
<1>6. Append(r, <<"auto">>) \in Seq(Command)
  BY <1>1, <1>4
<1>7. ASSUME NEW R, Sorted(q, R),
             \A x \in Members(q) : x \notin LightsCommands =>
               <<x, <<"auto">>>> \in R
      PROVE  Sorted(Append(r, <<"auto">>), R)
  <2>1. Sorted(r, R) /\ \A x \in Members(r) : <<x, <<"auto">>>> \in R
    BY <1>1, <1>2, <1>7
  <2> QED
    BY <1>1, <1>4, <2>1, AppendSorted
<1> QED
  BY <1>1, <1>3, <1>5, <1>6, <1>7

LEMMA SetLightsShape ==
  ASSUME Shape, NEW S, SetLights(S)
  PROVE  Shape'
<1>1. /\ frames' \in 1..MaxFrames /\ frames' \in 0..MaxFrames /\ frames' \in Nat
      /\ StagedInv' /\ pending' \in Seq(Entry)
  BY SetLightsStaged, LightsAssumption DEF Shape, NewFrame, LightsAssumption
<1>2. delay' \in Nat
  BY DEF SetLights, Shape, TypeOK, FrameInterval
<1>3. newest' \in [Pad -> Nat]
  <2>1. newest' = [i \in Pad |-> IF i \notin Configured THEN newest[i]
                                 ELSE IF At(i) \in S THEN frames' ELSE 0]
    BY DEF SetLights
  <2>2. \A i \in Pad : newest[i] \in Nat
    BY DEF Shape, TypeOK
  <2> QED
    BY <1>1, <2>1, <2>2
<1>4. UNCHANGED <<test, swaps, link, queue, flight, answered, lit, released>>
  BY DEF SetLights, testing, links, pads
<1>5. TypeOK'
  BY <1>1, <1>2, <1>3, <1>4 DEF Shape, TypeOK
<1>6. ClosedEmpty'
  BY <1>4 DEF Shape, ClosedEmpty
<1> QED
  BY <1>1, <1>5, <1>6 DEF Shape

LEMMA ReenableShape ==
  ASSUME Shape, NEW i \in Pad, ReenableAutoLightsForPad(i)
  PROVE  Shape'
<1>1. pending' = Unstage(i) /\ delay' = delay
  BY DEF ReenableAutoLightsForPad
<1>2. StagedInv' /\ pending' \in Seq(Entry)
  BY <1>1, UnstageStaged DEF Shape
<1>3. queue' \in [Pad -> Seq(Command)]
  <2>1. queue \in [Pad -> Seq(Command)] /\ Released(queue[i]) \in Seq(Command)
    BY ReleasedFacts DEF Shape, TypeOK
  <2> QED
    BY <2>1 DEF ReenableAutoLightsForPad
<1>4. newest' \in [Pad -> Nat] /\ released' \in [Pad -> Nat]
  BY LightsAssumption
  DEF ReenableAutoLightsForPad, Shape, TypeOK, LightsAssumption
<1>5. UNCHANGED <<delay, test, swaps, link, flight, answered, lit, frames>>
  BY DEF ReenableAutoLightsForPad, testing, pads
<1>6. TypeOK'
  BY <1>2, <1>3, <1>4, <1>5 DEF Shape, TypeOK
<1>7. ASSUME NEW j \in Pad, link'[j] = "closed"
      PROVE  queue'[j] = <<>> /\ flight'[j] = None
  <2>1. queue[j] = <<>> /\ flight[j] = None /\ j \notin Open
    BY <1>5, <1>7 DEF Shape, ClosedEmpty, Open
  <2>2. queue'[j] = queue[j]
    BY <2>1 DEF ReenableAutoLightsForPad, Shape, TypeOK
  <2> QED
    BY <1>5, <2>1, <2>2
<1> QED
  BY <1>2, <1>6, <1>7 DEF Shape, ClosedEmpty

\* A call that queues one command for the open pads in takers.
LEMMA EnqueueShape ==
  ASSUME Shape, NEW c, <<c>> \in Plain, NEW takers \in SUBSET Open,
         Enqueue(c, takers)
  PROVE  /\ Shape'
         /\ \A i \in Pad :
              queue'[i] = IF i \in takers THEN Append(queue[i], <<c>>)
                          ELSE queue[i]
<1>1. UNCHANGED <<pending, delay, test, swaps, link, flight, answered, lit,
                  frames, newest, released>>
  BY DEF Enqueue, staging, testing, pads
<1>2. queue' = [i \in Pad |->
                  IF i \in takers THEN Append(queue[i], <<c>>) ELSE queue[i]]
  BY DEF Enqueue
<1>3. \A i \in Pad : queue[i] \in Seq(Command)
  BY DEF Shape, TypeOK
<1>4. <<c>> \in Command
  BY DEF Command
<1>5. \A i \in Pad : Append(queue[i], <<c>>) \in Seq(Command)
  BY <1>3, <1>4
<1>6. queue' \in [Pad -> Seq(Command)]
  BY <1>2, <1>3, <1>5
<1>7. TypeOK'
  BY <1>1, <1>6 DEF Shape, TypeOK
<1>8. StagedInv'
  BY <1>1 DEF Shape, StagedInv, WholeFrames, InTurn, DueTogether
<1>9. ClosedEmpty'
  BY <1>1, <1>2 DEF Shape, ClosedEmpty, Open
<1> QED
  BY <1>2, <1>7, <1>8, <1>9 DEF Shape

LEMMA PassShape ==
  ASSUME Shape, Pass
  PROVE  Shape'
<1> DEFINE n == Count(AfterTest(AfterUpdate))
<1>1. UNCHANGED <<delay, test, swaps, link, lit, frames, newest, released>>
  BY DEF Pass, pads, history
<1>2. n \in 0..Len(pending) /\ (n = 0 \/ n # Len(pending) - 2)
  BY CountFacts DEF Shape
<1>3. pending' = SubSeq(pending, n + 1, Len(pending))
  BY DEF Pass
<1>4. StagedInv' /\ pending' \in Seq(Entry)
  BY <1>1, <1>2, <1>3, PassStaged DEF Shape
<1>5. ASSUME NEW i \in Pad
      PROVE  queue'[i] \in Seq(Command)
  <2> DEFINE h == IF i \in Open THEN Handed(i, n) ELSE <<>>
  <2>1. PICK t \in Seq(Plain) : queue'[i] = (AfterUpdate[i] \o t) \o h
    BY PassQueue DEF Shape
  <2>2. h \in Seq(LightsCommands)
    BY <1>2, HandedFacts DEF Shape
  <2> HIDE DEF h
  <2>3. /\ AfterUpdate[i] \in Seq(Command) /\ t \in Seq(Command)
        /\ h \in Seq(Command)
    BY <2>2, UpdateFacts, SeqMonotonic DEF Shape, Command
  <2>4. AfterUpdate[i] \o t \in Seq(Command)
    BY <2>3, Concat
  <2> QED
    BY <2>1, <2>3, <2>4, Concat
<1>6. queue' = [i \in Pad |-> queue'[i]]
  BY DEF Pass, AfterLights
<1>7. queue' \in [Pad -> Seq(Command)]
  BY <1>5, <1>6
<1>8. flight' \in [Pad -> Command \cup {None}]
  <2>1. flight' = [i \in Pad |-> IF i \in Goes THEN Head(queue[i])
                                 ELSE IF i \in Idle THEN None ELSE flight[i]]
    BY DEF Pass
  <2>2. ASSUME NEW i \in Pad, i \in Goes PROVE Head(queue[i]) \in Command
    BY <2>2, UpdateFacts, HeadTail DEF Shape
  <2>3. \A i \in Pad : flight[i] \in Command \cup {None}
    BY DEF Shape, TypeOK
  <2> QED
    BY <2>1, <2>2, <2>3
<1>9. answered' \in [Pad -> BOOLEAN]
  BY DEF Pass
<1>10. TypeOK'
  BY <1>1, <1>4, <1>7, <1>8, <1>9 DEF Shape, TypeOK
<1>11. ASSUME NEW i \in Pad, link'[i] = "closed"
       PROVE  queue'[i] = <<>> /\ flight'[i] = None
  <2>1. queue[i] = <<>> /\ flight[i] = None /\ i \notin Open /\ i \notin Goes
    BY <1>1, <1>11 DEF Shape, ClosedEmpty, Open, Goes
  <2>2. PICK t \in Seq(Plain) : /\ queue'[i] = (AfterUpdate[i] \o t) \o <<>>
                                /\ t = <<>>
    BY <2>1, PassQueue DEF Shape
  <2>3. AfterUpdate[i] = <<>>
    BY <2>1, UpdateFacts DEF Shape
  <2>4. queue'[i] = <<>>
    BY <2>2, <2>3
  <2>5. flight'[i] = None
    BY <2>1 DEF Pass
  <2> QED
    BY <2>4, <2>5
<1> QED
  BY <1>4, <1>10, <1>11 DEF Shape, ClosedEmpty

\* The pad goes, and with it what was queued and in flight.
LEMMA ClosePadShape ==
  ASSUME Shape, NEW i \in Pad, ClosePad(i)
  PROVE  Shape'
<1>1. UNCHANGED <<pending, delay, test, swaps, frames, released>>
  BY DEF ClosePad, staging, testing
<1>2. Dark \in [1..3 -> Nat] /\ <<>> \in Seq(Command)
  BY DEF Dark
<1>3. /\ link' \in [Pad -> {"closed", "open", "ready"}]
      /\ queue' \in [Pad -> Seq(Command)]
      /\ flight' \in [Pad -> Command \cup {None}]
  BY <1>2 DEF ClosePad, Shape, TypeOK
<1>4. answered' \in [Pad -> BOOLEAN]
  BY DEF ClosePad, Shape, TypeOK
<1>5. lit' \in [Pad -> [1..3 -> Nat]] /\ newest' \in [Pad -> Nat]
  BY <1>2 DEF ClosePad, Shape, TypeOK
<1>6. TypeOK'
  BY <1>1, <1>3, <1>4, <1>5 DEF Shape, TypeOK
<1>7. StagedInv'
  BY <1>1 DEF Shape, StagedInv, WholeFrames, InTurn, DueTogether
<1>8. ClosedEmpty'
  BY DEF ClosePad, Shape, TypeOK, ClosedEmpty
<1> QED
  BY <1>6, <1>7, <1>8 DEF Shape

LEMMA ExecuteShape ==
  ASSUME Shape, NEW i \in Pad, Execute(i)
  PROVE  Shape'
<1>1. UNCHANGED <<pending, delay, test, swaps, link, queue, flight, frames,
                  newest, released>>
  BY DEF Execute, staging, testing, history
<1>2. answered' \in [Pad -> BOOLEAN]
  BY DEF Execute, Shape, TypeOK
<1>3. lit' \in [Pad -> [1..3 -> Nat]]
  <2> DEFINE c == flight[i]
             new == IF IsLights(c)
                    THEN [k \in 1..3 |->
                            IF Parts[k] = c[1] THEN c[2] ELSE lit[i][k]]
                    ELSE IF Takes(c) THEN Dark ELSE lit[i]
  <2>1. lit \in [Pad -> [1..3 -> Nat]] /\ lit[i] \in [1..3 -> Nat]
    BY DEF Shape, TypeOK
  <2>2. new \in [1..3 -> Nat]
    <3>1. CASE IsLights(c)
      <4>1. c[2] \in Nat
        BY <3>1, LightsFacts DEF IsLights
      <4> QED
        BY <2>1, <3>1, <4>1
    <3>2. CASE ~IsLights(c)
      BY <2>1, <3>2 DEF Dark
    <3> QED
      BY <3>1, <3>2
  <2>3. lit' = [lit EXCEPT ![i] = new]
    BY DEF Execute
  <2> HIDE DEF new
  <2> QED
    BY <2>1, <2>2, <2>3
<1>4. TypeOK'
  BY <1>1, <1>2, <1>3 DEF Shape, TypeOK
<1>5. StagedInv'
  BY <1>1 DEF Shape, StagedInv, WholeFrames, InTurn, DueTogether
<1>6. ClosedEmpty'
  BY <1>1 DEF Shape, ClosedEmpty
<1> QED
  BY <1>4, <1>5, <1>6 DEF Shape

LEMMA EnqueueCalls ==
  ASSUME TypeOK
  PROVE  /\ SetPlatformLights => \E takers \in SUBSET Open :
                                   Enqueue("strip", takers)
         /\ SetSerialNumbers => Enqueue("serial", Open)
<1>1. Configured \subseteq Open
  BY DEF Configured, Open
<1>2. {i \in Configured : Version[i] >= 4} \in SUBSET Open
  BY <1>1
<1> QED
  BY <1>2 DEF SetPlatformLights, SetSerialNumbers

LEMMA OtherShape ==
  ASSUME Shape,
         \/ \E m \in TestModes : SetPanelTestMode(m)
         \/ Swap
         \/ \E i \in Pad : OpenPad(i) \/ Ready(i)
         \/ UNCHANGED vars
  PROVE  Shape'
<1>1. UNCHANGED <<pending, delay, queue, flight, answered, lit, frames>>
  BY DEF SetPanelTestMode, Swap, OpenPad, Ready, vars, staging, links, pads,
         history
<1>2. CASE \E m \in TestModes : SetPanelTestMode(m)
  <2>1. test' \in TestModes /\ newest' \in [Pad -> Nat]
    BY <1>2 DEF SetPanelTestMode
  <2>2. UNCHANGED <<swaps, link, released>>
    BY <1>2 DEF SetPanelTestMode, links
  <2> QED
    BY <1>1, <2>1, <2>2 DEF Shape, TypeOK, StagedInv, WholeFrames, InTurn,
       DueTogether, ClosedEmpty
<1>3. CASE Swap
  <2>1. /\ swaps' \in Nat /\ newest' \in [Pad -> Nat]
        /\ released' \in [Pad -> Nat] /\ UNCHANGED <<test, link>>
    BY <1>3 DEF Swap, Shape, TypeOK, testing
  <2> QED
    BY <1>1, <2>1 DEF Shape, TypeOK, StagedInv, WholeFrames, InTurn,
       DueTogether, ClosedEmpty
<1>4. CASE \E i \in Pad : OpenPad(i) \/ Ready(i)
  <2>1. UNCHANGED <<test, swaps, newest, released>>
    BY <1>4 DEF OpenPad, Ready, testing, history
  <2>2. PICK i \in Pad : \/ link' = [link EXCEPT ![i] = "open"]
                         \/ link' = [link EXCEPT ![i] = "ready"]
    BY <1>4 DEF OpenPad, Ready
  <2>3. link' \in [Pad -> {"closed", "open", "ready"}]
    BY <2>2 DEF Shape, TypeOK
  <2>4. \A j \in Pad : link'[j] = "closed" => link[j] = "closed"
    BY <2>2 DEF Shape, TypeOK
  <2> QED
    BY <1>1, <2>1, <2>3, <2>4 DEF Shape, TypeOK, StagedInv, WholeFrames, InTurn,
       DueTogether, ClosedEmpty
<1>5. CASE UNCHANGED vars
  <2>1. UNCHANGED <<test, swaps, link, newest, released>>
    BY <1>5 DEF vars, testing, links, history
  <2> QED
    BY <1>1, <2>1 DEF Shape, TypeOK, StagedInv, WholeFrames, InTurn,
       DueTogether, ClosedEmpty
<1> QED
  BY <1>2, <1>3, <1>4, <1>5

LEMMA TickShape ==
  ASSUME Shape, Tick
  PROVE  Shape'
<1>1. pending' \in Seq(Entry) /\ delay' \in Nat /\ StagedInv'
  BY TickStaged DEF Shape
<1>2. UNCHANGED <<test, swaps, link, queue, flight, answered, lit, frames,
                  newest, released>>
  BY DEF Tick, links, pads, history
<1> QED
  BY <1>1, <1>2 DEF Shape, TypeOK, ClosedEmpty

LEMMA NextShape ==
  ASSUME Shape, [Next]_vars
  PROVE  Shape'
<1>1. ASSUME NEW S \in SUBSET Slot, SetLights(S) PROVE Shape'
  BY <1>1, SetLightsShape
<1>2. ASSUME NEW i \in Pad, ReenableAutoLightsForPad(i) PROVE Shape'
  BY <1>2, ReenableShape
<1>3. CASE SetPlatformLights \/ SetSerialNumbers
  BY <1>3, EnqueueCalls, EnqueueShape, PlainFacts DEF Shape
<1>4. CASE Pass
  BY <1>4, PassShape
<1>5. CASE Tick
  BY <1>5, TickShape
<1>6. ASSUME NEW i \in Pad, ClosePad(i) PROVE Shape'
  BY <1>6, ClosePadShape
<1>7. ASSUME NEW i \in Pad, Execute(i) PROVE Shape'
  BY <1>7, ExecuteShape
<1> QED
  BY <1>1, <1>2, <1>3, <1>4, <1>5, <1>6, <1>7, OtherShape
  DEF Next, Api, Outside

\* The types, and that a pad without a connection has nothing on its way.
THEOREM ShapeInvariant == Spec => []Shape
<1>1. Init => Shape
  BY InitType, InitStaged DEF Init, Shape, ClosedEmpty
<1> QED
  BY <1>1, NextShape, PTL DEF Spec

\* The staging list of set_lights holds whole frames in the order of their parts
\* and of their due times, and at most one bottom half before them, whatever
\* the passes take and the calls replace: the three entries that set_lights
\* overwrites when there are more than two are those of the last frame.
THEOREM Whole == Spec => []StagedWhole
<1>1. Shape => StagedWhole
  BY StagedParts DEF Shape, StagedInv
<1> QED
  BY <1>1, ShapeInvariant, PTL

-----------------------------------------------------------------------------
(* Where a command comes from *)

\* A staged command was staged for that slot before, or is set_lights's.
LEMMA StagedAfter ==
  ASSUME Shape, [Next]_vars, NEW n \in DOMAIN pending', NEW s \in Slot,
         IsLights(pending'[n].cmd[s])
  PROVE  \/ \E m \in DOMAIN pending : pending[m].cmd[s] = pending'[n].cmd[s]
         \/ pending'[n].cmd[s][2] = frames + 1 /\ frames' = frames + 1
<1>0. /\ DOMAIN pending = 1..Len(pending) /\ Len(pending) \in Nat
      /\ pending'[n].cmd[s] # None
  BY PlainFacts DEF Shape, TypeOK, IsLights
<1>1. ASSUME NEW S \in SUBSET Slot, SetLights(S)
      PROVE  \/ \E m \in DOMAIN pending :
                  pending[m].cmd[s] = pending'[n].cmd[s]
             \/ pending'[n].cmd[s][2] = frames + 1 /\ frames' = frames + 1
  <2>1. frames' = frames + 1 /\ frames' \in 1..MaxFrames
    BY <1>1, SetLightsStaged DEF Shape
  <2>2. PICK b \in {0, 1} : NewFrame(b, frames', S)
    BY <1>1, SetLightsStaged DEF Shape
  <2>3. /\ DOMAIN pending' = 1..(b + 3)
        /\ b = Len(pending) \/ b + 3 = Len(pending)
        /\ \A k \in 1..b : pending'[k] = pending[k]
    BY <2>2 DEF NewFrame
  <2>4. CASE n \in 1..b
    <3>1. n \in DOMAIN pending
      BY <1>0, <2>3, <2>4
    <3> QED
      BY <2>3, <2>4, <3>1
  <2>5. CASE n \notin 1..b
    <3> DEFINE k == n - b
    <3>1. k \in 1..3 /\ b + k = n
      BY <2>3, <2>5
    <3> HIDE DEF k
    <3>2. \/ pending'[b + k].cmd[s] = Share(s, k, frames', S)
          \/ pending'[b + k].cmd[s] = None
          \/ /\ b + 3 = Len(pending)
             /\ pending'[b + k].cmd[s] = pending[b + k].cmd[s]
      BY <2>2, <3>1 DEF NewFrame
    <3>3. CASE pending'[n].cmd[s] = Share(s, k, frames', S)
      <4>1. Share(s, k, frames', S) # None
        BY <1>0, <3>3
      <4>2. Share(s, k, frames', S)[2] = frames'
        BY <2>1, <3>1, <4>1, ShareFacts
      <4> QED
        BY <2>1, <3>3, <4>2
    <3>4. CASE b + 3 = Len(pending) /\ pending'[n].cmd[s] = pending[n].cmd[s]
      <4>1. n \in DOMAIN pending
        BY <1>0, <2>3, <3>4
      <4> QED
        BY <3>4, <4>1
    <3> QED
      BY <1>0, <3>1, <3>2, <3>3, <3>4
  <2> QED
    BY <2>4, <2>5
<1>2. ASSUME NEW i \in Pad, ReenableAutoLightsForPad(i)
      PROVE  \E m \in DOMAIN pending : pending[m].cmd[s] = pending'[n].cmd[s]
  <2>1. pending' = Unstage(i) /\ delay' = delay
    BY <1>2 DEF ReenableAutoLightsForPad
  <2>2. /\ DOMAIN pending' = 1..Len(pending)
        /\ \A m \in 1..Len(pending) : pending'[m].cmd[s] =
             IF s = At(i) THEN None ELSE pending[m].cmd[s]
    BY <2>1, UnstageStaged DEF Shape
  <2> QED
    BY <1>0, <2>2
<1>3. CASE Pass
  <2> DEFINE c == Count(AfterTest(AfterUpdate))
  <2>1. /\ c \in 0..Len(pending) /\ (c = 0 \/ c # Len(pending) - 2)
        /\ pending' = SubSeq(pending, c + 1, Len(pending)) /\ delay' = delay
    BY <1>3, CountFacts DEF Shape, Pass
  <2> HIDE DEF c
  <2>2. /\ DOMAIN pending' = 1..(Len(pending) - c)
        /\ \A m \in 1..(Len(pending) - c) : pending'[m] = pending[c + m]
    BY <2>1, PassStaged DEF Shape
  <2>3. n \in 1..(Len(pending) - c) /\ c \in 0..Len(pending)
    BY <2>1, <2>2
  <2>4. c + n \in 1..Len(pending)
    BY <1>0, <2>3
  <2> QED
    BY <1>0, <2>2, <2>3, <2>4
<1>4. CASE Tick
  <2>1. /\ DOMAIN pending' = 1..Len(pending)
        /\ \A m \in 1..Len(pending) : pending'[m].cmd = pending[m].cmd
    BY <1>4, TickStaged DEF Shape
  <2>2. n \in DOMAIN pending /\ pending'[n].cmd = pending[n].cmd
    BY <1>0, <2>1
  <2> QED
    BY <2>2
<1>5. CASE UNCHANGED pending
  BY <1>5
<1>6. CASE \/ \E m \in TestModes : SetPanelTestMode(m)
           \/ SetPlatformLights \/ SetSerialNumbers \/ Swap
           \/ \E i \in Pad : OpenPad(i) \/ Ready(i) \/ ClosePad(i) \/ Execute(i)
           \/ UNCHANGED vars
  BY <1>5, <1>6 DEF SetPanelTestMode, SetPlatformLights, SetSerialNumbers,
     Enqueue, Swap, OpenPad, Ready, ClosePad, Execute, staging, vars
<1> QED
  BY <1>1, <1>2, <1>3, <1>4, <1>6 DEF Next, Api, Outside

\* Which command a pass puts in flight.
LEMMA PassFlight ==
  ASSUME Shape, Pass, NEW i \in Pad
  PROVE  \/ /\ flight'[i] \in Members(queue[i]) /\ ~answered'[i]
            /\ Members(queue[i]) = Members(AfterUpdate[i]) \cup {flight'[i]}
            /\ \A R : Sorted(queue[i], R) =>
                 /\ Sorted(AfterUpdate[i], R)
                 /\ \A x \in Members(AfterUpdate[i]) : <<flight'[i], x>> \in R
            /\ flight[i] = None \/ answered[i]
         \/ /\ AfterUpdate[i] = queue[i] /\ flight'[i] = None
            /\ flight[i] = None \/ answered[i]
         \/ /\ AfterUpdate[i] = queue[i] /\ flight'[i] = flight[i]
            /\ ~answered[i] /\ ~answered'[i]
<1>1. /\ flight'[i] = IF i \in Goes THEN Head(queue[i])
                      ELSE IF i \in Idle THEN None ELSE flight[i]
      /\ answered'[i] <=> answered[i] /\ i \notin Idle
  BY DEF Pass
<1>2. i \in Idle <=> i \in Open /\ (flight[i] = None \/ answered[i])
  BY DEF Idle
<1>3. CASE i \in Goes
  <2>1. /\ queue[i] \in Seq(Command) /\ queue[i] # <<>>
        /\ AfterUpdate[i] = Tail(queue[i])
    BY <1>3, UpdateFacts DEF Shape
  <2>2. i \in Idle
    BY <1>3 DEF Goes
  <2>3. flight'[i] = Head(queue[i])
    BY <1>1, <1>3
  <2> QED
    BY <1>1, <1>2, <2>1, <2>2, <2>3, HeadTail, TailSorted
<1>4. CASE i \notin Goes
  <2>1. AfterUpdate[i] = queue[i]
    BY <1>4, UpdateFacts DEF Shape
  <2>2. CASE i \in Idle
    BY <1>1, <1>2, <1>4, <2>1, <2>2
  <2>3. CASE i \notin Idle /\ i \notin Open
    <3>1. flight[i] = None
      BY <2>3 DEF Open, Shape, ClosedEmpty
    <3> QED
      BY <1>1, <1>2, <1>4, <2>1, <2>3, <3>1
  <2>4. CASE i \notin Idle /\ i \in Open
    BY <1>1, <1>2, <1>4, <2>1, <2>4
  <2> QED
    BY <2>2, <2>3, <2>4
<1> QED
  BY <1>3, <1>4

\* What a pass queues: what is left, commands that are no lights, and what the
\* first staged entries hold for the pad.
LEMMA PassWay ==
  ASSUME Shape, Pass, NEW i \in Pad
  PROVE  LET n == Count(AfterTest(AfterUpdate))
             u == AfterUpdate[i]
             q == queue'[i]
             T == {c \in Plain : Takes(c) => test # "off"}
             H == {c \in LightsCommands :
                     \E m \in 1..n : c = pending[m].cmd[At(i)]}
         IN  /\ Members(u) \subseteq Members(q)
             /\ Members(q) \subseteq Members(u) \cup T \cup H
             /\ i \in Open => H \subseteq Members(q)
             /\ \A R :
                  /\ Sorted(u, R)
                  /\ (Members(u) \cup T) \X (T \cup H) \subseteq R
                  /\ \A a, b \in 1..n : a < b =>
                       <<pending[a].cmd[At(i)], pending[b].cmd[At(i)]>> \in R
                  => Sorted(q, R)
<1> DEFINE n == Count(AfterTest(AfterUpdate))
           u == AfterUpdate[i]
           q == queue'[i]
           T == {c \in Plain : Takes(c) => test # "off"}
           H == {c \in LightsCommands :
                   \E m \in 1..n : c = pending[m].cmd[At(i)]}
           h == IF i \in Open THEN Handed(i, n) ELSE <<>>
<1>1. PICK t \in Seq(Plain) : /\ q = (u \o t) \o h
                              /\ \A c \in Members(t) : Takes(c) => test # "off"
                              /\ i \notin Open => t = <<>>
  BY PassQueue DEF Shape
<1>2. n \in 0..Len(pending)
  BY CountFacts DEF Shape
<1>3. /\ h \in Seq(LightsCommands) /\ Members(h) \subseteq H
      /\ i \in Open => Members(h) = H
      /\ \A R :
           (\A a, b \in 1..n : a < b =>
              <<pending[a].cmd[At(i)], pending[b].cmd[At(i)]>> \in R)
           => Sorted(h, R)
  <2>1. CASE i \in Open
    <3>1. /\ Handed(i, n) \in Seq(LightsCommands)
          /\ Members(Handed(i, n)) =
               {pending[m].cmd[At(i)] : m \in 1..n} \cap LightsCommands
          /\ \A R :
               (\A a, b \in 1..n : a < b =>
                  <<pending[a].cmd[At(i)], pending[b].cmd[At(i)]>> \in R)
               => Sorted(Handed(i, n), R)
      BY <1>2, HandedFacts DEF Shape
    <3>2. {pending[m].cmd[At(i)] : m \in 1..n} \cap LightsCommands = H
      OBVIOUS
    <3>3. h = Handed(i, n)
      BY <2>1
    <3> HIDE DEF h, H, n
    <3> QED
      BY <3>1, <3>2, <3>3
  <2>2. CASE i \notin Open
    <3>1. h = <<>>
      BY <2>2
    <3>2. Members(<<>>) = {} /\ \A R : Sorted(<<>>, R)
      BY DEF Members, Sorted
    <3> HIDE DEF h, H, n
    <3> QED
      BY <2>2, <3>1, <3>2
  <2> QED
    BY <2>1, <2>2
<1>4. T \subseteq Plain
  OBVIOUS
<1>5. Members(t) \subseteq T
  <2>1. Members(t) \subseteq Plain
    BY DEF Members
  <2> QED
    BY <1>1, <2>1
<1> HIDE DEF n, h, H, T, u, q
<1>6. u \in Seq(Command) /\ t \in Seq(Command) /\ h \in Seq(Command)
  BY <1>3, UpdateFacts, SeqMonotonic DEF Shape, Command, u
<1>7. /\ u \o t \in Seq(Command) /\ Members(u \o t) = Members(u) \cup Members(t)
      /\ \A R : Sorted(u, R) /\ Sorted(t, R)
                /\ Members(u) \X Members(t) \subseteq R => Sorted(u \o t, R)
  BY <1>6, Concat
<1>8. /\ Members(q) = Members(u) \cup Members(t) \cup Members(h)
      /\ \A R : Sorted(u \o t, R) /\ Sorted(h, R)
                /\ Members(u \o t) \X Members(h) \subseteq R => Sorted(q, R)
  <2>1. /\ Members((u \o t) \o h) = Members(u \o t) \cup Members(h)
        /\ \A R : Sorted(u \o t, R) /\ Sorted(h, R)
                  /\ Members(u \o t) \X Members(h) \subseteq R
                  => Sorted((u \o t) \o h, R)
    <3> DEFINE v == u \o t
    <3>1. v \in Seq(Command) /\ h \in Seq(Command)
      BY <1>6, <1>7
    <3> HIDE DEF v
    <3>2. /\ Members(v \o h) = Members(v) \cup Members(h)
          /\ \A R : Sorted(v, R) /\ Sorted(h, R)
                    /\ Members(v) \X Members(h) \subseteq R
                    => Sorted(v \o h, R)
      BY <3>1, Concat
    <3> QED
      BY <3>2 DEF v
  <2> QED
    BY <1>1, <1>7, <2>1
<1>9. ASSUME NEW R, Sorted(u, R), (Members(u) \cup T) \X (T \cup H) \subseteq R,
             \A a, b \in 1..n : a < b =>
               <<pending[a].cmd[At(i)], pending[b].cmd[At(i)]>> \in R
      PROVE  Sorted(q, R)
  <2>1. Sorted(t, R)
    <3>1. \A a \in DOMAIN t : t[a] \in T
      BY <1>5 DEF Members
    <3> QED
      BY <1>9, <3>1 DEF Sorted
  <2>2. Sorted(u \o t, R)
    <3>1. Members(u) \X Members(t) \subseteq R
      BY <1>5, <1>9
    <3> QED
      BY <1>7, <1>9, <2>1, <3>1
  <2>3. Members(u \o t) \X Members(h) \subseteq R
    BY <1>3, <1>5, <1>7, <1>9
  <2>4. Sorted(h, R)
    BY <1>3, <1>9
  <2> QED
    BY <1>8, <2>2, <2>3, <2>4
<1>10. Members(u) \subseteq Members(q) /\ (i \in Open => H \subseteq Members(q))
  BY <1>3, <1>8
<1>11. Members(q) \subseteq Members(u) \cup T \cup H
  BY <1>3, <1>5, <1>8
<1> QED
  BY <1>9, <1>10, <1>11 DEF n, u, q, T, H

-----------------------------------------------------------------------------
(* A release is not undone *)

\* A pad's lights are newer than its last release, or the release is still to
\* come.
AfterRelease ==
  \A i \in Pad :
    /\ released[i] <= frames
    /\ \A n \in DOMAIN pending : LET c == pending[n].cmd[At(i)]
                                 IN  IsLights(c) => released[i] < c[2]
    /\ \A c \in Members(queue[i]) : IsLights(c) => released[i] < c[2]
    /\ IsLights(flight[i]) /\ <<"auto">> \notin Members(queue[i])
         => released[i] < flight[i][2]

LEMMA InitRelease == Init => AfterRelease
<1> SUFFICES ASSUME Init PROVE AfterRelease
  OBVIOUS
<1>1. ~IsLights(None)
  BY PlainFacts DEF IsLights
<1> QED
  BY <1>1 DEF Init, AfterRelease, Members

\* Where the slots, the releases and the queues stay, staging cannot break it.
LEMMA ReleaseStaged ==
  ASSUME Shape, AfterRelease, [Next]_vars, UNCHANGED <<swaps, released>>,
         NEW i \in Pad, NEW n \in DOMAIN pending',
         IsLights(pending'[n].cmd[At(i)'])
  PROVE  released'[i] < pending'[n].cmd[At(i)'][2]
<1>1. At(i)' = At(i) /\ At(i) \in Slot
  BY AtFacts DEF At, Shape, TypeOK, Slot, Pad
<1> DEFINE c == pending'[n].cmd[At(i)]
<1>2. CASE \E m \in DOMAIN pending : pending[m].cmd[At(i)] = c
  <2>1. PICK m \in DOMAIN pending : pending[m].cmd[At(i)] = c
    BY <1>2
  <2> HIDE DEF c
  <2>2. IsLights(c)
    BY <1>1 DEF c
  <2>3. released[i] < c[2]
    BY <2>1, <2>2 DEF AfterRelease
  <2> QED
    BY <1>1, <2>3 DEF c
<1>3. CASE c[2] = frames + 1
  <2>1. released[i] <= frames /\ released[i] \in Nat /\ frames \in Nat
    BY LightsAssumption DEF AfterRelease, Shape, TypeOK, LightsAssumption
  <2> HIDE DEF c
  <2>2. released'[i] < c[2]
    BY <1>3, <2>1
  <2> QED
    BY <1>1, <2>2 DEF c
<1> QED
  BY <1>1, <1>2, <1>3, StagedAfter

\* Steps that keep the queue and the flight of a pad, or only make them less.
LEMMA ReleaseKept ==
  ASSUME Shape, AfterRelease, [Next]_vars, UNCHANGED <<swaps, released>>,
         frames <= frames',
         \A i \in Pad :
           \/ flight'[i] = None /\ Members(queue'[i]) = {}
           \/ flight'[i] = flight[i] /\ Members(queue'[i]) = Members(queue[i])
  PROVE  AfterRelease'
<1>1. ASSUME NEW i \in Pad
      PROVE  /\ released'[i] <= frames'
             /\ \A c \in Members(queue'[i]) : IsLights(c) => released'[i] < c[2]
             /\ IsLights(flight'[i]) /\ <<"auto">> \notin Members(queue'[i])
                  => released'[i] < flight'[i][2]
  <2>1. released[i] <= frames /\ released[i] \in Nat /\ frames \in Nat
    BY LightsAssumption DEF AfterRelease, Shape, TypeOK, LightsAssumption
  <2>2. frames' \in Nat
    BY NextShape, LightsAssumption DEF Shape, TypeOK, LightsAssumption
  <2>3. released'[i] <= frames'
    BY <2>1, <2>2
  <2>4. ~IsLights(None)
    BY PlainFacts DEF IsLights
  <2>5. CASE flight'[i] = None /\ Members(queue'[i]) = {}
    BY <2>3, <2>4, <2>5
  <2>6. CASE flight'[i] = flight[i] /\ Members(queue'[i]) = Members(queue[i])
    BY <2>3, <2>6 DEF AfterRelease
  <2> QED
    BY <2>5, <2>6
<1> QED
  BY <1>1, ReleaseStaged DEF AfterRelease

LEMMA ReleaseByCall ==
  ASSUME Shape, AfterRelease, NEW i \in Pad, ReenableAutoLightsForPad(i)
  PROVE  AfterRelease'
<1>1. UNCHANGED <<swaps, flight, frames>>
  BY DEF ReenableAutoLightsForPad, pads
<1>2. released' = [released EXCEPT ![i] = frames] /\ released \in [Pad -> Nat]
  BY DEF ReenableAutoLightsForPad, Shape, TypeOK
<1>3. pending' = Unstage(i) /\ delay' = delay
  BY DEF ReenableAutoLightsForPad
<1>4. /\ DOMAIN pending' = DOMAIN pending
      /\ \A n \in DOMAIN pending : \A s \in Slot :
           pending'[n].cmd[s] = IF s = At(i) THEN None ELSE pending[n].cmd[s]
  <2>1. /\ pending' \in Seq(Entry) /\ Len(pending') = Len(pending)
        /\ \A n \in 1..Len(pending) : \A s \in Slot :
             pending'[n].cmd[s] = IF s = At(i) THEN None ELSE pending[n].cmd[s]
    BY <1>3, UnstageStaged DEF Shape
  <2>2. DOMAIN pending = 1..Len(pending) /\ DOMAIN pending' = 1..Len(pending')
    BY <2>1 DEF Shape, TypeOK
  <2> QED
    BY <2>1, <2>2
<1>5. \A j \in Pad : /\ At(j)' = At(j) /\ At(j) \in Slot
                     /\ At(j) = At(i) => j = i
  BY <1>1, AtFacts DEF At, Shape, TypeOK, Slot, Pad
<1>6. ~IsLights(None) /\ ~IsLights(<<"auto">>)
  BY PlainFacts DEF IsLights
<1>7. frames \in Nat
  BY LightsAssumption DEF Shape, TypeOK, LightsAssumption
<1>8. ASSUME NEW j \in Pad, j # i
      PROVE  /\ released'[j] <= frames'
             /\ \A n \in DOMAIN pending' :
                  IsLights(pending'[n].cmd[At(j)']) =>
                    released'[j] < pending'[n].cmd[At(j)'][2]
             /\ \A c \in Members(queue'[j]) : IsLights(c) => released'[j] < c[2]
             /\ IsLights(flight'[j]) /\ <<"auto">> \notin Members(queue'[j])
                  => released'[j] < flight'[j][2]
  <2>1. released'[j] = released[j]
    BY <1>2, <1>8
  <2>2. queue'[j] = queue[j]
    BY <1>8 DEF ReenableAutoLightsForPad, Shape, TypeOK
  <2>3. \A n \in DOMAIN pending' :
          pending'[n].cmd[At(j)'] = pending[n].cmd[At(j)]
    BY <1>4, <1>5, <1>8
  <2> QED
    BY <1>1, <1>4, <2>1, <2>2, <2>3 DEF AfterRelease
<1>9. /\ released'[i] <= frames'
      /\ \A n \in DOMAIN pending' : ~IsLights(pending'[n].cmd[At(i)'])
  BY <1>1, <1>2, <1>4, <1>5, <1>6, <1>7
<1>10. /\ \A c \in Members(queue'[i]) : ~IsLights(c)
       /\ ~IsLights(flight'[i]) \/ <<"auto">> \in Members(queue'[i])
  <2>1. queue[i] \in Seq(Command) /\ queue \in [Pad -> Seq(Command)]
    BY DEF Shape, TypeOK
  <2>2. CASE i \in Open
    <3>1. queue'[i] = Released(queue[i])
      BY <2>1, <2>2 DEF ReenableAutoLightsForPad
    <3>2. Members(queue'[i]) =
            (Members(queue[i]) \ LightsCommands) \cup {<<"auto">>}
      BY <2>1, <3>1, ReleasedFacts
    <3> QED
      BY <1>6, <3>2 DEF IsLights
  <2>3. CASE i \notin Open
    <3>1. queue'[i] = <<>> /\ flight'[i] = None
      BY <1>1, <2>3 DEF ReenableAutoLightsForPad, Open, Shape, ClosedEmpty
    <3> QED
      BY <1>6, <3>1 DEF Members
  <2> QED
    BY <2>2, <2>3
<1>11. ASSUME NEW j \in Pad
       PROVE  /\ released'[j] <= frames'
              /\ \A n \in DOMAIN pending' :
                   IsLights(pending'[n].cmd[At(j)']) =>
                     released'[j] < pending'[n].cmd[At(j)'][2]
              /\ \A c \in Members(queue'[j]) :
                   IsLights(c) => released'[j] < c[2]
              /\ IsLights(flight'[j]) /\ <<"auto">> \notin Members(queue'[j])
                   => released'[j] < flight'[j][2]
  <2>1. CASE j = i
    BY <1>9, <1>10, <2>1
  <2>2. CASE j # i
    BY <1>8, <2>2
  <2> QED
    BY <2>1, <2>2
<1> QED
  BY <1>11 DEF AfterRelease

LEMMA ReleaseSwap ==
  ASSUME Shape, AfterRelease, Swap
  PROVE  AfterRelease'
<1>1. UNCHANGED <<pending, queue, flight, frames>>
  BY DEF Swap, staging
<1>2. \A i \in Pad : released'[i] = 0
  BY DEF Swap
<1>3. \A c : IsLights(c) => 0 < c[2]
  BY LightsFacts DEF IsLights
<1>4. 0 <= frames
  BY DEF Shape, TypeOK
<1> QED
  BY <1>1, <1>2, <1>3, <1>4 DEF AfterRelease

\* A pass moves the lights on: what it hands on was staged, what it puts in
\* flight was queued.
LEMMA ReleasePass ==
  ASSUME Shape, AfterRelease, Pass
  PROVE  AfterRelease'
<1>0. [Next]_vars
  BY DEF Next
<1>1. UNCHANGED <<swaps, released, frames>>
  BY DEF Pass, history
<1> DEFINE n == Count(AfterTest(AfterUpdate))
<1>2. ASSUME NEW i \in Pad
      PROVE  /\ \A c \in Members(queue'[i]) : IsLights(c) => released[i] < c[2]
             /\ IsLights(flight'[i]) /\ <<"auto">> \notin Members(queue'[i])
                  => released[i] < flight'[i][2]
  <2>1. \A c \in Members(queue'[i]) :
          \/ c \in Members(AfterUpdate[i])
          \/ c \in Plain
          \/ \E m \in 1..n : c = pending[m].cmd[At(i)]
    BY PassWay
  <2>2. Members(AfterUpdate[i]) \subseteq Members(queue[i])
    BY UpdateFacts DEF Shape
  <2>3. 1..n \subseteq DOMAIN pending
    <3>1. n \in 0..Len(pending)
      BY CountFacts DEF Shape
    <3>2. DOMAIN pending = 1..Len(pending) /\ Len(pending) \in Nat
      BY DEF Shape, TypeOK
    <3> HIDE DEF n
    <3> QED
      BY <3>1, <3>2
  <2> HIDE DEF n
  <2>4. ASSUME NEW c \in Members(queue'[i]), IsLights(c)
        PROVE  released[i] < c[2]
    <3>1. c \notin Plain
      BY <2>4, PlainFacts DEF IsLights
    <3> QED
      BY <2>1, <2>2, <2>3, <2>4, <3>1 DEF AfterRelease
  <2>5. ASSUME IsLights(flight'[i]), <<"auto">> \notin Members(queue'[i])
        PROVE  released[i] < flight'[i][2]
    <3>1. CASE flight'[i] \in Members(queue[i])
      BY <2>5, <3>1 DEF AfterRelease
    <3>2. CASE flight'[i] = flight[i] /\ AfterUpdate[i] = queue[i]
      <4>1. <<"auto">> \notin Members(queue[i])
        BY <2>5, <3>2, PassWay
      <4> QED
        BY <2>5, <3>2, <4>1 DEF AfterRelease
    <3>3. CASE flight'[i] = None
      BY <2>5, <3>3, PlainFacts DEF IsLights
    <3> QED
      BY <3>1, <3>2, <3>3, PassFlight
  <2> QED
    BY <2>4, <2>5
<1>3. \A i \in Pad : released'[i] <= frames'
  BY <1>1 DEF AfterRelease
<1> QED
  BY <1>0, <1>1, <1>2, <1>3, ReleaseStaged DEF AfterRelease

LEMMA ReleaseEnqueue ==
  ASSUME Shape, AfterRelease, [Next]_vars, NEW c, <<c>> \in Plain,
         NEW takers \in SUBSET Open, Enqueue(c, takers)
  PROVE  AfterRelease'
<1>1. UNCHANGED <<swaps, released, frames, flight>>
  BY DEF Enqueue
<1>2. ASSUME NEW i \in Pad
      PROVE  /\ Members(queue[i]) \subseteq Members(queue'[i])
             /\ \A x \in Members(queue'[i]) : x \in Members(queue[i]) \cup Plain
  <2>1. \/ queue'[i] = queue[i]
        \/ queue'[i] = Append(queue[i], <<c>>)
    BY EnqueueShape
  <2>2. Members(Append(queue[i], <<c>>)) = Members(queue[i]) \cup {<<c>>}
    BY MembersAppend DEF Shape, TypeOK
  <2> QED
    BY <2>1, <2>2
<1>3. \A x \in Plain : ~IsLights(x)
  BY PlainFacts DEF IsLights
<1>4. ASSUME NEW i \in Pad
      PROVE  /\ \A x \in Members(queue'[i]) : IsLights(x) => released[i] < x[2]
             /\ IsLights(flight[i]) /\ <<"auto">> \notin Members(queue'[i])
                  => released[i] < flight[i][2]
  BY <1>2, <1>3 DEF AfterRelease
<1>5. \A i \in Pad : released[i] <= frames
  BY DEF AfterRelease
<1> QED
  BY <1>1, <1>4, <1>5, ReleaseStaged DEF AfterRelease

LEMMA NextRelease ==
  ASSUME Shape, AfterRelease, [Next]_vars
  PROVE  AfterRelease'
<1>1. ASSUME NEW S \in SUBSET Slot, SetLights(S) PROVE AfterRelease'
  <2>1. UNCHANGED <<swaps, released, queue, flight>> /\ frames' = frames + 1
    BY <1>1 DEF SetLights, links
  <2>2. frames <= frames'
    BY <2>1, LightsAssumption DEF Shape, TypeOK, LightsAssumption
  <2> QED
    BY <2>1, <2>2, ReleaseKept
<1>2. ASSUME NEW i \in Pad, ReenableAutoLightsForPad(i) PROVE AfterRelease'
  BY <1>2, ReleaseByCall
<1>3. CASE SetPlatformLights \/ SetSerialNumbers
  BY <1>3, EnqueueCalls, ReleaseEnqueue, PlainFacts DEF Shape
<1>4. CASE Pass
  BY <1>4, ReleasePass
<1>5. CASE Swap
  BY <1>5, ReleaseSwap
<1>6. frames <= frames
  BY LightsAssumption DEF Shape, TypeOK, LightsAssumption
<1>7. ASSUME NEW i \in Pad, ClosePad(i) PROVE AfterRelease'
  <2>1. UNCHANGED <<swaps, released, frames>>
    BY <1>7 DEF ClosePad
  <2>2. \A j \in Pad :
          \/ flight'[j] = None /\ queue'[j] = <<>>
          \/ flight'[j] = flight[j] /\ queue'[j] = queue[j]
    BY <1>7 DEF ClosePad, Shape, TypeOK
  <2>3. Members(<<>>) = {}
    BY DEF Members
  <2> QED
    BY <1>6, <2>1, <2>2, <2>3, ReleaseKept
<1>8. CASE \/ \E m \in TestModes : SetPanelTestMode(m)
           \/ Tick \/ UNCHANGED vars
           \/ \E i \in Pad : OpenPad(i) \/ Ready(i) \/ Execute(i)
  <2>1. UNCHANGED <<swaps, released, frames, queue, flight>>
    BY <1>8 DEF SetPanelTestMode, Tick, OpenPad, Ready, Execute, vars, links,
       history
  <2> QED
    BY <1>6, <2>1, ReleaseKept
<1> QED
  BY <1>1, <1>2, <1>3, <1>4, <1>5, <1>7, <1>8 DEF Next, Api, Outside

\* The lights sent to a pad are from its queue.
LEMMA SentFromQueue ==
  ASSUME Shape, AfterRelease, Next, NEW i \in Pad,
         flight'[i] # flight[i], IsLights(flight'[i])
  PROVE  released[i] < flight'[i][2]
<1>1. ASSUME Pass PROVE flight'[i] \in Members(queue[i])
  <2>1. flight'[i] # None
    BY PlainFacts DEF IsLights
  <2> QED
    BY <1>1, <2>1, PassFlight
<1>2. ASSUME NEW p \in Pad, ClosePad(p) PROVE FALSE
  <2>1. flight' = [flight EXCEPT ![p] = None] /\ flight \in [Pad -> Command \cup {None}]
    BY <1>2 DEF ClosePad, Shape, TypeOK
  <2>2. flight'[i] = None
    BY <2>1
  <2> QED
    BY <2>2, PlainFacts DEF IsLights
<1>3. ASSUME ~Pass, \A p \in Pad : ~ClosePad(p) PROVE flight' = flight
  <2>1. CASE Api
    BY <2>1 DEF Api, SetLights, ReenableAutoLightsForPad, SetPanelTestMode,
       SetPlatformLights, SetSerialNumbers, Enqueue, Swap, links
  <2>2. CASE Outside
    BY <1>3, <2>2 DEF Outside, Tick, OpenPad, Ready, Execute, links
  <2> QED
    BY <1>3, <2>1, <2>2 DEF Next
<1>4. flight'[i] \in Members(queue[i])
  BY <1>1, <1>2, <1>3
<1> QED
  BY <1>4 DEF AfterRelease

\* A pad released to its automatic lighting stays so until set_lights is called
\* again (reenable_auto_lights_for_pad): the share of the staged frames is
\* dropped, the queued ones are dropped, and the one that may be in flight is
\* executed before the release, which is behind it.
THEOREM StaysReleased == Spec => ReleasedStays
<1> DEFINE Stays ==
      \A i \in Pad :
        LET sent == flight'[i] # flight[i] /\ IsLights(flight'[i])
            shown == IsLights(flight[i]) /\ <<"auto">> \notin Members(queue[i])
        IN  /\ sent => released[i] < flight'[i][2]
            /\ auto[i] /\ ~auto'[i] /\ shown => released[i] < flight[i][2]
<1>1. Shape /\ AfterRelease /\ [Next]_vars => [Stays]_vars
  <2> SUFFICES ASSUME Shape, AfterRelease, Next PROVE Stays
    OBVIOUS
  <2>1. ASSUME NEW i \in Pad, flight'[i] # flight[i], IsLights(flight'[i])
        PROVE  released[i] < flight'[i][2]
    BY <2>1, SentFromQueue
  <2> QED
    BY <2>1 DEF AfterRelease
<1>2. Init => Shape /\ AfterRelease
  BY InitType, InitStaged, InitRelease DEF Init, Shape, ClosedEmpty
<1>3. Shape /\ AfterRelease /\ [Next]_vars => Shape' /\ AfterRelease'
  BY NextShape, NextRelease
<1>4. [][Stays]_vars => ReleasedStays
  BY DEF ReleasedStays
<1> HIDE DEF Stays
<1> QED
  BY <1>1, <1>2, <1>3, <1>4, PTL DEF Spec

-----------------------------------------------------------------------------
(* Frames stay in order: lit, in flight, queued, staged, not yet set *)

\* Of two commands for the same part of a pad, a is not the newer.
Older(a, b) == IsLights(a) /\ IsLights(b) /\ a[1] = b[1] => a[2] <= b[2]
Any         == Command \cup {None}
OlderPairs  == {p \in Any \X Any : Older(p[1], p[2])}

On(i)  == {flight[i]} \cup Members(queue[i])
Staged == {pending[n].cmd[s] : n \in DOMAIN pending, s \in Slot}

\* The command c is for a frame that was set, and not older than what i shows.
NotPast(i, c) ==
  IsLights(c) => /\ c[2] <= frames
                 /\ \A k \in 1..3 : c[1] = Parts[k] => lit[i][k] <= c[2]

PadInOrder(i) ==
  /\ \A k \in 1..3 : lit[i][k] <= frames
  /\ \A c \in On(i) \cup Staged : NotPast(i, c)
  /\ \A c \in Members(queue[i]) : Older(flight[i], c)
  /\ Sorted(queue[i], OlderPairs)

BeforeStaged(i) == \A d \in On(i) : \A c \in Staged : Older(d, c)

StagedInOrder ==
  \A m, n \in DOMAIN pending : \A s, t \in Slot :
    m < n => Older(pending[m].cmd[s], pending[n].cmd[t])

InOrder ==
  /\ \A i \in Pad : PadInOrder(i) /\ BeforeStaged(i)
  /\ StagedInOrder

LEMMA InitOrder == Init => InOrder
<1> SUFFICES ASSUME Init PROVE InOrder
  OBVIOUS
<1>1. ~IsLights(None)
  BY PlainFacts DEF IsLights
<1>2. Staged = {} /\ DOMAIN pending = {}
  BY DEF Init, Staged
<1>3. ASSUME NEW i \in Pad PROVE PadInOrder(i) /\ BeforeStaged(i)
  <2>1. queue[i] = <<>> /\ flight[i] = None /\ frames = 0
        /\ \A k \in 1..3 : lit[i][k] = 0
    BY DEF Init, Dark
  <2>2. Members(queue[i]) = {} /\ Sorted(queue[i], OlderPairs)
    BY <2>1 DEF Members, Sorted
  <2> QED
    BY <1>1, <1>2, <2>1, <2>2 DEF PadInOrder, BeforeStaged, On, NotPast
<1> QED
  BY <1>2, <1>3 DEF InOrder, StagedInOrder

\* Numbers: the frames of a pad and those of its commands.
LEMMA OrderTypes ==
  ASSUME Shape
  PROVE  /\ frames \in Nat
         /\ \A i \in Pad : \A k \in 1..3 : lit[i][k] \in Nat
         /\ \A c : IsLights(c) => c[2] \in Nat
BY LightsAssumption, LightsFacts DEF Shape, TypeOK, IsLights, LightsAssumption

\* What is staged after a step is what was staged, or the new frame.
LEMMA StagedNext ==
  ASSUME Shape, [Next]_vars, NEW c \in Staged', IsLights(c)
  PROVE  \/ c \in Staged
         \/ c[2] = frames + 1 /\ frames' = frames + 1
<1>1. PICK n \in DOMAIN pending', s \in Slot : c = pending'[n].cmd[s]
  BY DEF Staged
<1>2. CASE \E m \in DOMAIN pending : pending[m].cmd[s] = pending'[n].cmd[s]
  BY <1>1, <1>2 DEF Staged
<1>3. CASE pending'[n].cmd[s][2] = frames + 1 /\ frames' = frames + 1
  BY <1>1, <1>3
<1> QED
  BY <1>1, <1>2, <1>3, StagedAfter

\* A step that only moves a pad's lights along the way, or drops them.
LEMMA MovesAlong ==
  ASSUME Shape, InOrder, [Next]_vars, frames <= frames', NEW i \in Pad,
         \A k \in 1..3 : lit'[i][k] <= lit[i][k],
         \A c \in On(i)' : IsLights(c) => c \in On(i) \cup Staged,
         \A c \in Members(queue'[i]) : Older(flight'[i], c),
         Sorted(queue'[i], OlderPairs)
  PROVE  PadInOrder(i)'
<1>1. /\ frames \in Nat /\ frames' \in Nat
      /\ \A k \in 1..3 : lit[i][k] \in Nat /\ lit'[i][k] \in Nat
      /\ \A c : IsLights(c) => c[2] \in Nat
  <2>1. Shape'
    BY NextShape
  <2>2. frames' \in Nat /\ \A k \in 1..3 : lit'[i][k] \in Nat
    BY <2>1, LightsAssumption DEF Shape, TypeOK, LightsAssumption
  <2> QED
    BY <2>2, OrderTypes
<1>2. \A k \in 1..3 : lit[i][k] <= frames
  BY DEF InOrder, PadInOrder
<1>3. \A k \in 1..3 : lit'[i][k] <= frames'
  BY <1>1, <1>2
<1>4. ASSUME NEW c \in On(i)' \cup Staged', IsLights(c)
      PROVE  /\ c[2] <= frames'
             /\ \A k \in 1..3 : c[1] = Parts[k] => lit'[i][k] <= c[2]
  <2>1. CASE c \in On(i) \cup Staged
    <3>1. /\ c[2] <= frames
          /\ \A k \in 1..3 : c[1] = Parts[k] => lit[i][k] <= c[2]
      BY <1>4, <2>1 DEF InOrder, PadInOrder, NotPast
    <3>2. c[2] \in Nat
      BY <1>1, <1>4
    <3> QED
      BY <1>1, <3>1, <3>2
  <2>2. CASE c[2] = frames + 1 /\ frames' = frames + 1
    <3>1. \A k \in 1..3 : lit'[i][k] <= frames
      BY <1>1, <1>2
    <3> QED
      BY <1>1, <2>2, <3>1
  <2> QED
    BY <1>4, <2>1, <2>2, StagedNext
<1> QED
  BY <1>3, <1>4 DEF PadInOrder, NotPast

\* A step that gives a pad no new lights.
LEMMA StaysBefore ==
  ASSUME Shape, InOrder, [Next]_vars, NEW i \in Pad,
         \A c \in On(i)' : IsLights(c) => c \in On(i)
  PROVE  BeforeStaged(i)'
<1>1. ASSUME NEW d \in On(i)', NEW c \in Staged', IsLights(d), IsLights(c),
             d[1] = c[1]
      PROVE  d[2] <= c[2]
  <2>1. d \in On(i)
    BY <1>1
  <2>2. CASE c \in Staged
    BY <1>1, <2>1, <2>2 DEF InOrder, BeforeStaged, Older
  <2>3. CASE c[2] = frames + 1
    <3>1. d[2] <= frames /\ d[2] \in Nat /\ frames \in Nat
      BY <1>1, <2>1, OrderTypes DEF InOrder, PadInOrder, NotPast
    <3> QED
      BY <2>3, <3>1
  <2> QED
    BY <1>1, <2>2, <2>3, StagedNext
<1> QED
  BY <1>1 DEF BeforeStaged, Older

\* Nothing of the pad's changes.
LEMMA PadKept ==
  ASSUME Shape, InOrder, [Next]_vars, frames <= frames', NEW i \in Pad,
         lit'[i] = lit[i], flight'[i] = flight[i], queue'[i] = queue[i]
  PROVE  PadInOrder(i)' /\ BeforeStaged(i)'
<1>1. On(i)' = On(i)
  BY DEF On
<1>2. /\ \A c \in Members(queue'[i]) : Older(flight'[i], c)
      /\ Sorted(queue'[i], OlderPairs)
  BY DEF InOrder, PadInOrder
<1>3. \A k \in 1..3 : lit'[i][k] <= lit[i][k]
  BY OrderTypes
<1> QED
  BY <1>1, <1>2, <1>3, MovesAlong, StaysBefore

\* The pad goes.
LEMMA PadGone ==
  ASSUME Shape, InOrder, [Next]_vars, frames <= frames', NEW i \in Pad,
         lit'[i] = Dark, flight'[i] = None, queue'[i] = <<>>
  PROVE  PadInOrder(i)' /\ BeforeStaged(i)'
<1>1. ~IsLights(None)
  BY PlainFacts DEF IsLights
<1>2. Members(queue'[i]) = {} /\ Sorted(queue'[i], OlderPairs)
  BY DEF Members, Sorted
<1>3. On(i)' = {None}
  BY <1>2 DEF On
<1>4. \A k \in 1..3 : lit'[i][k] <= lit[i][k]
  BY OrderTypes DEF Dark
<1> QED
  BY <1>1, <1>2, <1>3, <1>4, MovesAlong, StaysBefore

\* The pad gets a command that is no light, or loses lights: what it has in its
\* queue that is lights was there before.
LEMMA PadQueue ==
  ASSUME Shape, InOrder, [Next]_vars, frames <= frames', NEW i \in Pad,
         lit'[i] = lit[i], flight'[i] = flight[i],
         \A c \in Members(queue'[i]) : IsLights(c) => c \in Members(queue[i]),
         Sorted(queue'[i], OlderPairs)
  PROVE  PadInOrder(i)' /\ BeforeStaged(i)'
<1>1. \A c \in On(i)' : IsLights(c) => c \in On(i)
  BY DEF On
<1>2. \A c \in Members(queue'[i]) : Older(flight'[i], c)
  BY DEF InOrder, PadInOrder, Older
<1>3. \A k \in 1..3 : lit'[i][k] <= lit[i][k]
  BY OrderTypes
<1> QED
  BY <1>1, <1>2, <1>3, MovesAlong, StaysBefore

\* The pad shows what was in flight.
LEMMA PadExecutes ==
  ASSUME Shape, InOrder, NEW i \in Pad, Execute(i)
  PROVE  PadInOrder(i)' /\ BeforeStaged(i)'
<1>1. UNCHANGED <<pending, queue, flight, frames>>
  BY DEF Execute, staging, history
<1>2. On(i)' = On(i) /\ Staged' = Staged
  BY <1>1 DEF On, Staged
<1>3. /\ \A k \in 1..3 :
           \/ lit'[i][k] = lit[i][k] \/ lit'[i][k] = 0
           \/ /\ IsLights(flight[i]) /\ flight[i][1] = Parts[k]
              /\ lit'[i][k] = flight[i][2]
  <2>1. lit \in [Pad -> [1..3 -> Nat]]
    BY DEF Shape, TypeOK
  <2>2. lit'[i] = IF IsLights(flight[i])
                  THEN [k \in 1..3 |-> IF Parts[k] = flight[i][1]
                                       THEN flight[i][2] ELSE lit[i][k]]
                  ELSE IF Takes(flight[i]) THEN Dark ELSE lit[i]
    BY <2>1 DEF Execute
  <2> QED
    BY <2>2 DEF Dark
<1>4. /\ frames \in Nat /\ \A k \in 1..3 : lit[i][k] \in Nat
      /\ \A c : IsLights(c) => c[2] \in Nat
  BY OrderTypes
<1>5. ASSUME NEW k \in 1..3 PROVE lit'[i][k] <= frames'
  <2>1. lit[i][k] <= frames /\ (IsLights(flight[i]) => flight[i][2] <= frames)
    BY DEF InOrder, PadInOrder, On, NotPast
  <2> QED
    BY <1>1, <1>3, <1>4, <2>1
<1>6. ASSUME NEW c \in On(i) \cup Staged, IsLights(c)
      PROVE  /\ c[2] <= frames
             /\ \A k \in 1..3 : c[1] = Parts[k] => lit'[i][k] <= c[2]
  <2>1. /\ c[2] <= frames
        /\ \A k \in 1..3 : c[1] = Parts[k] => lit[i][k] <= c[2]
    BY <1>6 DEF InOrder, PadInOrder, NotPast
  <2>2. c[2] \in Nat
    BY <1>4, <1>6
  <2>3. c = flight[i] \/ Older(flight[i], c)
    BY <1>6 DEF InOrder, PadInOrder, BeforeStaged, On
  <2>4. ASSUME NEW k \in 1..3, c[1] = Parts[k] PROVE lit'[i][k] <= c[2]
    <3>1. lit[i][k] <= c[2] /\ 0 <= c[2] /\ c[2] <= c[2]
      BY <2>1, <2>2, <2>4
    <3>2. IsLights(flight[i]) /\ flight[i][1] = Parts[k] => flight[i][2] <= c[2]
      BY <1>6, <2>3, <2>4, <3>1 DEF Older
    <3> QED
      BY <1>3, <3>1, <3>2
  <2> QED
    BY <2>1, <2>4
<1>7. PadInOrder(i)'
  <2>1. /\ \A c \in Members(queue'[i]) : Older(flight'[i], c)
        /\ Sorted(queue'[i], OlderPairs)
    BY <1>1 DEF InOrder, PadInOrder
  <2> QED
    BY <1>1, <1>2, <1>5, <1>6, <2>1 DEF PadInOrder, NotPast
<1>8. BeforeStaged(i)'
  BY <1>2 DEF InOrder, BeforeStaged
<1> QED
  BY <1>7, <1>8

\* A command that is no light may stand anywhere.
LEMMA PlainPairs ==
  ASSUME NEW x \in Any, NEW y \in Any, ~IsLights(x) \/ ~IsLights(y)
  PROVE  <<x, y>> \in OlderPairs
BY DEF OlderPairs, Older

LEMMA PadReleased ==
  ASSUME Shape, InOrder, [Next]_vars, NEW i \in Pad,
         ReenableAutoLightsForPad(i)
  PROVE  PadInOrder(i)' /\ BeforeStaged(i)'
<1>1. UNCHANGED <<lit, flight, frames>>
  BY DEF ReenableAutoLightsForPad, pads
<1>2. frames <= frames'
  BY <1>1, OrderTypes
<1>3. queue[i] \in Seq(Command) /\ queue \in [Pad -> Seq(Command)]
  BY DEF Shape, TypeOK
<1>4. CASE i \notin Open
  <2>1. queue'[i] = queue[i]
    BY <1>4 DEF ReenableAutoLightsForPad
  <2> QED
    BY <1>1, <1>2, <2>1, PadKept
<1>5. CASE i \in Open
  <2>1. queue'[i] = Released(queue[i])
    BY <1>3, <1>5 DEF ReenableAutoLightsForPad
  <2>2. /\ Members(queue'[i]) =
             (Members(queue[i]) \ LightsCommands) \cup {<<"auto">>}
        /\ \A R : Sorted(queue[i], R)
                  /\ (\A x \in Members(queue[i]) : x \notin LightsCommands =>
                        <<x, <<"auto">>>> \in R)
                  => Sorted(queue'[i], R)
    BY <1>3, <2>1, ReleasedFacts
  <2>3. <<"auto">> \in Any /\ ~IsLights(<<"auto">>)
    BY PlainFacts DEF Any, Command, IsLights
  <2>4. \A x \in Members(queue[i]) : x \in Any
    BY <1>3 DEF Members, Any
  <2>5. \A x \in Members(queue[i]) : <<x, <<"auto">>>> \in OlderPairs
    BY <2>3, <2>4, PlainPairs
  <2>6. Sorted(queue[i], OlderPairs)
    BY DEF InOrder, PadInOrder
  <2>7. Sorted(queue'[i], OlderPairs)
    BY <2>2, <2>5, <2>6
  <2>8. \A c \in Members(queue'[i]) : IsLights(c) => c \in Members(queue[i])
    BY <2>2, <2>3
  <2> QED
    BY <1>1, <1>2, <2>7, <2>8, PadQueue
<1> QED
  BY <1>4, <1>5

LEMMA PadEnqueues ==
  ASSUME Shape, InOrder, [Next]_vars, NEW c, <<c>> \in Plain,
         NEW takers \in SUBSET Open, Enqueue(c, takers), NEW i \in Pad
  PROVE  PadInOrder(i)' /\ BeforeStaged(i)'
<1>1. UNCHANGED <<lit, flight, frames>>
  BY DEF Enqueue, pads
<1>2. frames <= frames'
  BY <1>1, OrderTypes
<1>3. CASE queue'[i] = queue[i]
  BY <1>1, <1>2, <1>3, PadKept
<1>4. CASE queue'[i] = Append(queue[i], <<c>>)
  <2>1. queue[i] \in Seq(Command)
    BY DEF Shape, TypeOK
  <2>2. <<c>> \in Command /\ <<c>> \in Any /\ ~IsLights(<<c>>)
    BY PlainFacts DEF Any, Command, IsLights
  <2>3. Members(queue'[i]) = Members(queue[i]) \cup {<<c>>}
    BY <1>4, <2>1, MembersAppend
  <2>4. \A x \in Members(queue[i]) : x \in Any
    BY <2>1 DEF Members, Any
  <2>5. \A x \in Members(queue[i]) : <<x, <<c>>>> \in OlderPairs
    BY <2>2, <2>4, PlainPairs
  <2>6. Sorted(queue[i], OlderPairs)
    BY DEF InOrder, PadInOrder
  <2>7. Sorted(queue'[i], OlderPairs)
    BY <1>4, <2>1, <2>2, <2>5, <2>6, AppendSorted
  <2>8. \A x \in Members(queue'[i]) : IsLights(x) => x \in Members(queue[i])
    BY <2>2, <2>3
  <2> QED
    BY <1>1, <1>2, <2>7, <2>8, PadQueue
<1> QED
  BY <1>3, <1>4, EnqueueShape

\* The staged entries before and after a pass.
LEMMA PassEntries ==
  ASSUME Shape, Pass
  PROVE  LET n == Count(AfterTest(AfterUpdate))
         IN  /\ n \in 0..Len(pending) /\ 1..n \subseteq DOMAIN pending
             /\ \A m \in DOMAIN pending' :
                  /\ n + m \in DOMAIN pending /\ n + m \in Nat /\ m \in Nat
                  /\ \A l \in 1..n : l < n + m
                  /\ pending'[m] = pending[n + m]
<1> DEFINE n == Count(AfterTest(AfterUpdate))
<1>1. /\ n \in 0..Len(pending) /\ (n = 0 \/ n # Len(pending) - 2)
      /\ pending' = SubSeq(pending, n + 1, Len(pending)) /\ delay' = delay
  BY CountFacts DEF Shape, Pass
<1> HIDE DEF n
<1>2. /\ pending' \in Seq(Entry) /\ Len(pending') = Len(pending) - n
      /\ \A m \in 1..(Len(pending) - n) : pending'[m] = pending[n + m]
  BY <1>1, PassStaged DEF Shape
<1>3. /\ DOMAIN pending = 1..Len(pending) /\ Len(pending) \in Nat
      /\ DOMAIN pending' = 1..(Len(pending) - n)
  BY <1>2 DEF Shape, TypeOK
<1>4. n \in 0..Len(pending) /\ 1..n \subseteq DOMAIN pending
  <2>1. n \in 0..Len(pending)
    BY <1>1
  <2>2. 1..n \subseteq 1..Len(pending)
    BY <1>3, <2>1
  <2> QED
    BY <1>3, <2>1, <2>2
<1>5. ASSUME NEW m \in DOMAIN pending'
      PROVE  /\ n + m \in DOMAIN pending /\ n + m \in Nat /\ m \in Nat
             /\ \A l \in 1..n : l < n + m
             /\ pending'[m] = pending[n + m]
  <2>1. m \in 1..(Len(pending) - n) /\ n \in 0..Len(pending)
    BY <1>1, <1>3
  <2>2. /\ n + m \in 1..Len(pending) /\ n + m \in Nat /\ m \in Nat
        /\ \A l \in 1..n : l < n + m
    BY <1>3, <2>1
  <2> QED
    BY <1>2, <1>3, <2>1, <2>2
<1> QED
  BY <1>4, <1>5 DEF n

\* What a pass hands on is newer than what is left in the queue and older than
\* what stays staged.
LEMMA PadPass ==
  ASSUME Shape, InOrder, Pass, NEW i \in Pad
  PROVE  PadInOrder(i)' /\ BeforeStaged(i)'
<1>0. [Next]_vars
  BY DEF Next
<1> DEFINE n == Count(AfterTest(AfterUpdate))
           u == AfterUpdate[i]
           T == {c \in Plain : Takes(c) => test # "off"}
           H == {c \in LightsCommands :
                   \E m \in 1..n : c = pending[m].cmd[At(i)]}
           R == OlderPairs
<1>1. UNCHANGED <<lit, frames, swaps>>
  BY DEF Pass, pads, history
<1>2. /\ At(i) \in Slot
      /\ \A m \in DOMAIN pending : \A s \in Slot : pending[m].cmd[s] \in Any
  <2>1. At(i) \in Slot
    BY AtFacts DEF Shape, TypeOK, Slot, Pad
  <2>2. ASSUME NEW m \in DOMAIN pending, NEW s \in Slot
        PROVE  pending[m].cmd[s] \in Any
    <3>1. pending[m] \in Entry
      BY ElementOfSeq DEF Shape, TypeOK
    <3> QED
      BY <3>1 DEF Entry, Sharable, Any, Command
  <2> QED
    BY <2>1, <2>2
<1>3. /\ Members(queue'[i]) \subseteq Members(u) \cup T \cup H
      /\ Sorted(u, R) /\ (Members(u) \cup T) \X (T \cup H) \subseteq R
         /\ (\A a, b \in 1..n : a < b =>
               <<pending[a].cmd[At(i)], pending[b].cmd[At(i)]>> \in R)
         => Sorted(queue'[i], R)
  BY PassWay
<1>4. /\ \A m \in 1..n : m \in DOMAIN pending
      /\ \A m \in DOMAIN pending' :
           /\ n + m \in DOMAIN pending
           /\ \A l \in 1..n : l < n + m
           /\ pending'[m] = pending[n + m]
  BY PassEntries
<1> HIDE DEF n
<1>5. H \subseteq Staged /\ Staged' \subseteq Staged
  BY <1>2, <1>4 DEF Staged
<1>6. ASSUME NEW d \in H, NEW c \in Staged' PROVE Older(d, c)
  <2>1. PICK l \in 1..n : d = pending[l].cmd[At(i)]
    OBVIOUS
  <2>2. PICK m \in DOMAIN pending', s \in Slot : c = pending'[m].cmd[s]
    BY DEF Staged
  <2>3. l < n + m /\ l \in DOMAIN pending /\ n + m \in DOMAIN pending
    BY <1>4
  <2>4. c = pending[n + m].cmd[s]
    BY <1>4, <2>2
  <2> QED
    BY <1>2, <2>1, <2>3, <2>4 DEF InOrder, StagedInOrder
<1>7. \A c \in T : ~IsLights(c) /\ c \in Any
  BY PlainFacts DEF IsLights, Any, Command
<1>8. \A c \in H : c \in Any
  BY DEF Any, Command
<1>9. Members(u) \subseteq Members(queue[i]) /\ Members(queue[i]) \subseteq Any
  <2>1. queue[i] \in Seq(Command)
    BY DEF Shape, TypeOK
  <2>2. Members(queue[i]) \subseteq Any
    BY <2>1 DEF Members, Any
  <2> QED
    BY <2>2, UpdateFacts DEF Shape
<1> HIDE DEF T, H, u, R
<1>10. ASSUME NEW d \in On(i), NEW c \in H PROVE Older(d, c)
  BY <1>5 DEF InOrder, BeforeStaged
<1>11. Members(queue[i]) \subseteq On(i) /\ flight[i] \in On(i)
  BY DEF On
<1>12. ~IsLights(None)
  BY PlainFacts DEF IsLights
<1>13. /\ Sorted(u, R)
       /\ \A c \in Members(u) : Older(flight'[i], c)
       /\ flight'[i] \in On(i) \/ flight'[i] = None
  <2>1. Sorted(queue[i], R)
    BY DEF InOrder, PadInOrder, R
  <2>2. CASE /\ flight'[i] \in Members(queue[i])
             /\ Sorted(queue[i], R) =>
                  /\ Sorted(u, R)
                  /\ \A x \in Members(u) : <<flight'[i], x>> \in R
    <3>1. \A x \in Members(u) : <<flight'[i], x>> \in R
      BY <2>1, <2>2
    <3>2. \A x \in Members(u) : Older(flight'[i], x)
      BY <3>1 DEF R, OlderPairs
    <3> QED
      BY <1>11, <2>1, <2>2, <3>2
  <2>3. CASE u = queue[i] /\ flight'[i] = None
    BY <1>12, <2>1, <2>3 DEF Older
  <2>4. CASE u = queue[i] /\ flight'[i] = flight[i]
    BY <1>11, <2>1, <2>4 DEF InOrder, PadInOrder
  <2> QED
    BY <2>2, <2>3, <2>4, PassFlight DEF u
<1>14. Sorted(queue'[i], R)
  <2>1. ASSUME NEW d \in Members(u) \cup T, NEW c \in T \cup H
        PROVE  <<d, c>> \in R
    <3>1. d \in Any /\ c \in Any
      BY <1>7, <1>8, <1>9
    <3>2. CASE c \in T \/ d \in T
      BY <1>7, <3>1, <3>2, PlainPairs DEF R
    <3>3. CASE c \in H /\ d \in Members(u)
      BY <1>9, <1>10, <1>11, <3>1, <3>3 DEF R, OlderPairs
    <3> QED
      BY <3>2, <3>3
  <2>2. ASSUME NEW a \in 1..n, NEW b \in 1..n, a < b
        PROVE  <<pending[a].cmd[At(i)], pending[b].cmd[At(i)]>> \in R
    <3>1. a \in DOMAIN pending /\ b \in DOMAIN pending
      BY <1>4
    <3>2. Older(pending[a].cmd[At(i)], pending[b].cmd[At(i)])
      BY <1>2, <2>2, <3>1 DEF InOrder, StagedInOrder
    <3> QED
      BY <1>2, <3>1, <3>2 DEF R, OlderPairs
  <2> QED
    BY <1>3, <1>13, <2>1, <2>2
<1>15. \A c \in Members(queue'[i]) : Older(flight'[i], c)
  <2>1. ASSUME NEW c \in Members(queue'[i]) PROVE Older(flight'[i], c)
    <3>1. CASE c \in Members(u)
      BY <1>13, <3>1
    <3>2. CASE c \in T
      BY <1>7, <3>2 DEF Older
    <3>3. CASE c \in H
      BY <1>10, <1>12, <1>13, <3>3 DEF Older
    <3> QED
      BY <1>3, <3>1, <3>2, <3>3
  <2> QED
    BY <2>1
<1>16. \A c \in On(i)' : IsLights(c) => c \in On(i) \cup H
  BY <1>3, <1>7, <1>9, <1>11, <1>12, <1>13 DEF On
<1>17. PadInOrder(i)'
  <2>1. \A c \in On(i)' : IsLights(c) => c \in On(i) \cup Staged
    BY <1>5, <1>16
  <2>2. frames <= frames' /\ \A k \in 1..3 : lit'[i][k] <= lit[i][k]
    BY <1>1, OrderTypes
  <2> QED
    BY <1>0, <1>14, <1>15, <2>1, <2>2, MovesAlong DEF R
<1>18. BeforeStaged(i)'
  <2>1. ASSUME NEW d \in On(i)', NEW c \in Staged', IsLights(d)
        PROVE  Older(d, c)
    <3>1. CASE d \in On(i)
      BY <1>5, <3>1 DEF InOrder, BeforeStaged
    <3>2. CASE d \in H
      BY <1>6, <3>2
    <3> QED
      BY <1>16, <2>1, <3>1, <3>2
  <2> QED
    BY <2>1 DEF BeforeStaged, Older
<1> QED
  BY <1>17, <1>18

\* set_lights puts its frame behind what stays before it; the parts of the last
\* frame are three different ones.
LEMMA StagedOrderSet ==
  ASSUME Shape, InOrder, NEW S \in SUBSET Slot, SetLights(S)
  PROVE  StagedInOrder'
<1>1. /\ frames' = frames + 1 /\ frames' \in 1..MaxFrames
      /\ \E b \in {0, 1} : NewFrame(b, frames', S)
      /\ WholeFrames'
  BY SetLightsStaged DEF Shape, StagedInv
<1>2. PICK b \in {0, 1} : NewFrame(b, frames', S)
  BY <1>1
<1>3. /\ DOMAIN pending' = 1..(b + 3) /\ Len(pending') = b + 3
      /\ b = Len(pending) \/ b + 3 = Len(pending)
      /\ \A k \in 1..b : pending'[k] = pending[k]
  BY <1>2 DEF NewFrame
<1>4. DOMAIN pending = 1..Len(pending) /\ Len(pending) \in Nat
  BY DEF Shape, TypeOK
<1>5. ASSUME NEW m \in 1..(b + 3), NEW n \in 1..(b + 3), m < n,
             NEW s \in Slot, NEW t \in Slot,
             IsLights(pending'[m].cmd[s]), IsLights(pending'[n].cmd[t]),
             pending'[m].cmd[s][1] = pending'[n].cmd[t][1]
      PROVE  pending'[m].cmd[s][2] <= pending'[n].cmd[t][2]
  <2> DEFINE c == pending'[m].cmd[s]
             d == pending'[n].cmd[t]
  <2>1. c # None /\ d # None /\ c[2] \in Nat /\ d[2] \in Nat /\ frames \in Nat
    BY <1>5, PlainFacts, OrderTypes DEF IsLights
  <2>2. c[1] = PartAt(m, b + 3) /\ d[1] = PartAt(n, b + 3)
    BY <1>1, <1>3, <1>5, <2>1 DEF WholeFrames
  <2>3. n - b \in 1..3 /\ b + (n - b) = n /\ n \notin 1..b
    BY <1>5
  <2>4. PartAt(n, b + 3) = Parts[n - b]
    <3>1. n + 3 - (b + 3) = n - b /\ b + 3 >= 3
      BY <1>5
    <3> QED
      BY <2>3, <3>1 DEF PartAt
  <2>5. m \in 1..b
    <3>1. CASE m - b \in 1..3
      <4>1. m + 3 - (b + 3) = m - b /\ b + 3 >= 3
        BY <1>5
      <4>2. PartAt(m, b + 3) = Parts[m - b]
        BY <3>1, <4>1 DEF PartAt
      <4>3. m - b = n - b
        BY <1>5, <2>2, <2>3, <2>4, <3>1, <4>2, PartsFacts
      <4> QED
        BY <1>5, <4>3
    <3>2. CASE m - b \notin 1..3
      BY <1>5, <3>2
    <3> QED
      BY <3>1, <3>2
  <2>6. m \in DOMAIN pending /\ c = pending[m].cmd[s]
    <3>1. m \in 1..Len(pending)
      BY <1>3, <1>4, <2>5
    <3> QED
      BY <1>3, <1>4, <2>5, <3>1
  <2>7. c \in Staged
    BY <2>6 DEF Staged
  <2>8. c[2] <= frames
    <3>1. 0 \in Pad
      BY DEF Pad
    <3> QED
      BY <1>5, <2>7, <3>1 DEF InOrder, PadInOrder, NotPast
  <2>9. \/ d = Share(t, n - b, frames', S)
        \/ b + 3 = Len(pending) /\ d = pending[n].cmd[t]
    <3>1. \/ pending'[b + (n - b)].cmd[t] = Share(t, n - b, frames', S)
          \/ pending'[b + (n - b)].cmd[t] = None
          \/ /\ b + 3 = Len(pending)
             /\ pending'[b + (n - b)].cmd[t] = pending[b + (n - b)].cmd[t]
      BY <1>2, <2>3 DEF NewFrame
    <3> QED
      BY <2>1, <2>3, <3>1
  <2>10. CASE d = Share(t, n - b, frames', S)
    <3>1. d[2] = frames'
      BY <1>1, <2>1, <2>3, <2>10, ShareFacts
    <3>2. c[2] <= frames + 1
      BY <2>1, <2>8
    <3> QED
      BY <1>1, <3>1, <3>2
  <2>11. CASE b + 3 = Len(pending) /\ d = pending[n].cmd[t]
    <3>1. n \in DOMAIN pending
      BY <1>4, <1>5, <2>11
    <3>2. Older(pending[m].cmd[s], pending[n].cmd[t])
      BY <1>5, <2>6, <3>1 DEF InOrder, StagedInOrder
    <3> QED
      BY <1>5, <2>6, <2>11, <3>2 DEF Older
  <2> QED
    BY <2>9, <2>10, <2>11
<1> QED
  BY <1>3, <1>5 DEF StagedInOrder, Older

LEMMA StagedOrderNext ==
  ASSUME Shape, InOrder, [Next]_vars
  PROVE  StagedInOrder'
<1>0. DOMAIN pending = 1..Len(pending) /\ Len(pending) \in Nat
  BY DEF Shape, TypeOK
<1>1. ASSUME NEW S \in SUBSET Slot, SetLights(S) PROVE StagedInOrder'
  BY <1>1, StagedOrderSet
<1>2. ASSUME NEW i \in Pad, ReenableAutoLightsForPad(i) PROVE StagedInOrder'
  <2>1. pending' = Unstage(i) /\ delay' = delay
    BY <1>2 DEF ReenableAutoLightsForPad
  <2>2. /\ pending' \in Seq(Entry) /\ Len(pending') = Len(pending)
        /\ \A m \in 1..Len(pending) : \A s \in Slot : pending'[m].cmd[s] =
             IF s = At(i) THEN None ELSE pending[m].cmd[s]
    BY <2>1, UnstageStaged DEF Shape
  <2>3. DOMAIN pending' = DOMAIN pending
    BY <1>0, <2>2
  <2>4. ~IsLights(None)
    BY PlainFacts DEF IsLights
  <2>5. \A m \in DOMAIN pending : \A s \in Slot :
          \/ ~IsLights(pending'[m].cmd[s])
          \/ pending'[m].cmd[s] = pending[m].cmd[s]
    BY <1>0, <2>2, <2>4
  <2> QED
    BY <2>3, <2>5 DEF InOrder, StagedInOrder, Older
<1>3. CASE Pass
  <2> DEFINE c == Count(AfterTest(AfterUpdate))
  <2>1. \A m \in DOMAIN pending' :
           /\ c + m \in DOMAIN pending /\ c + m \in Nat /\ m \in Nat
           /\ pending'[m] = pending[c + m]
    BY <1>3, PassEntries
  <2>2. c \in Nat
    BY <1>0, CountFacts DEF Shape
  <2> HIDE DEF c
  <2>3. \A m, n \in DOMAIN pending' : m < n => c + m < c + n
    BY <2>1, <2>2
  <2> QED
    BY <2>1, <2>3 DEF InOrder, StagedInOrder
<1>4. CASE Tick
  <2>1. /\ DOMAIN pending' = 1..Len(pending)
        /\ \A m \in 1..Len(pending) : pending'[m].cmd = pending[m].cmd
    BY <1>4, TickStaged DEF Shape
  <2> QED
    BY <1>0, <2>1 DEF InOrder, StagedInOrder
<1>5. CASE UNCHANGED pending
  BY <1>5 DEF InOrder, StagedInOrder
<1>6. CASE \/ \E m \in TestModes : SetPanelTestMode(m)
           \/ SetPlatformLights \/ SetSerialNumbers \/ Swap
           \/ \E i \in Pad : OpenPad(i) \/ Ready(i) \/ ClosePad(i) \/ Execute(i)
           \/ UNCHANGED vars
  BY <1>5, <1>6 DEF SetPanelTestMode, SetPlatformLights, SetSerialNumbers,
     Enqueue, Swap, OpenPad, Ready, ClosePad, Execute, staging, vars
<1> QED
  BY <1>1, <1>2, <1>3, <1>4, <1>6 DEF Next, Api, Outside

LEMMA PadNext ==
  ASSUME Shape, InOrder, [Next]_vars, NEW i \in Pad
  PROVE  PadInOrder(i)' /\ BeforeStaged(i)'
<1>1. frames \in Nat /\ frames <= frames /\ frames <= frames + 1
  BY OrderTypes
<1>2. ASSUME NEW S \in SUBSET Slot, SetLights(S)
      PROVE  PadInOrder(i)' /\ BeforeStaged(i)'
  BY <1>1, <1>2, PadKept DEF SetLights, links, pads
<1>3. ASSUME NEW j \in Pad, ReenableAutoLightsForPad(j)
      PROVE  PadInOrder(i)' /\ BeforeStaged(i)'
  <2>1. CASE j = i
    BY <1>3, <2>1, PadReleased
  <2>2. CASE j # i
    <3>1. UNCHANGED <<lit, flight, frames>> /\ queue'[i] = queue[i]
      BY <1>3, <2>2 DEF ReenableAutoLightsForPad, pads, Shape, TypeOK
    <3> QED
      BY <1>1, <3>1, PadKept
  <2> QED
    BY <2>1, <2>2
<1>4. CASE SetPlatformLights \/ SetSerialNumbers
  BY <1>4, EnqueueCalls, PadEnqueues, PlainFacts DEF Shape
<1>5. CASE Pass
  BY <1>5, PadPass
<1>6. ASSUME NEW j \in Pad, ClosePad(j)
      PROVE  PadInOrder(i)' /\ BeforeStaged(i)'
  <2>1. UNCHANGED frames
    BY <1>6 DEF ClosePad
  <2>2. CASE j = i
    <3>1. lit'[i] = Dark /\ flight'[i] = None /\ queue'[i] = <<>>
      BY <1>6, <2>2 DEF ClosePad, Shape, TypeOK
    <3> QED
      BY <1>1, <2>1, <3>1, PadGone
  <2>3. CASE j # i
    <3>1. lit'[i] = lit[i] /\ flight'[i] = flight[i] /\ queue'[i] = queue[i]
      BY <1>6, <2>3 DEF ClosePad, Shape, TypeOK
    <3> QED
      BY <1>1, <2>1, <3>1, PadKept
  <2> QED
    BY <2>2, <2>3
<1>7. ASSUME NEW j \in Pad, Execute(j)
      PROVE  PadInOrder(i)' /\ BeforeStaged(i)'
  <2>1. CASE j = i
    BY <1>7, <2>1, PadExecutes
  <2>2. CASE j # i
    <3>1. lit'[i] = lit[i] /\ flight'[i] = flight[i] /\ queue'[i] = queue[i]
          /\ UNCHANGED frames
      BY <1>7, <2>2 DEF Execute, history, Shape, TypeOK
    <3> QED
      BY <1>1, <3>1, PadKept
  <2> QED
    BY <2>1, <2>2
<1>8. CASE \/ \E m \in TestModes : SetPanelTestMode(m)
           \/ Swap \/ Tick \/ UNCHANGED vars
           \/ \E j \in Pad : OpenPad(j) \/ Ready(j)
  <2>1. UNCHANGED <<lit, flight, queue, frames>>
    BY <1>8 DEF SetPanelTestMode, Swap, Tick, OpenPad, Ready, vars, links,
       pads, history
  <2> QED
    BY <1>1, <2>1, PadKept
<1> QED
  BY <1>2, <1>3, <1>4, <1>5, <1>6, <1>7, <1>8 DEF Next, Api, Outside

LEMMA NextOrder ==
  ASSUME Shape, InOrder, [Next]_vars
  PROVE  InOrder'
BY PadNext, StagedOrderNext DEF InOrder

\* The frames of a part of a pad are shown in the order of their calls, whatever
\* the staging list replaces, the connections queue and the swaps exchange.
THEOREM OrderInvariant == Spec => [](Shape /\ InOrder)
<1>1. Init => Shape /\ InOrder
  BY InitType, InitStaged, InitOrder DEF Init, Shape, ClosedEmpty
<1>2. Shape /\ InOrder /\ [Next]_vars => Shape' /\ InOrder'
  BY NextShape, NextOrder
<1> QED
  BY <1>1, <1>2, PTL DEF Spec

\* Last writer wins: no part of a pad goes back to an older frame.
THEOREM NotBack == Spec => NeverOlder
<1> DEFINE Onwards == \A i \in Pad : \A k \in 1..3 :
                        lit'[i][k] # 0 => lit[i][k] <= lit'[i][k]
<1>1. Shape /\ InOrder /\ [Next]_vars => [Onwards]_vars
  <2> SUFFICES ASSUME Shape, InOrder, [Next]_vars PROVE Onwards
    OBVIOUS
  <2>1. lit \in [Pad -> [1..3 -> Nat]]
    BY DEF Shape, TypeOK
  <2>2. CASE UNCHANGED lit
    BY <2>1, <2>2
  <2>3. ASSUME NEW j \in Pad, ClosePad(j) PROVE Onwards
    BY <2>1, <2>3 DEF ClosePad, Dark
  <2>4. ASSUME NEW j \in Pad, Execute(j) PROVE Onwards
    <3>1. lit' = [lit EXCEPT ![j] =
                    IF IsLights(flight[j])
                    THEN [k \in 1..3 |-> IF Parts[k] = flight[j][1]
                                         THEN flight[j][2] ELSE lit[j][k]]
                    ELSE IF Takes(flight[j]) THEN Dark ELSE lit[j]]
      BY <2>4 DEF Execute
    <3>2. \A k \in 1..3 : IsLights(flight[j]) /\ flight[j][1] = Parts[k] =>
            lit[j][k] <= flight[j][2]
      BY DEF InOrder, PadInOrder, On, NotPast
    <3> QED
      BY <2>1, <3>1, <3>2 DEF Dark
  <2>5. ASSUME ~ \E j \in Pad : ClosePad(j) \/ Execute(j) PROVE UNCHANGED lit
    BY <2>5 DEF Next, Api, Outside, SetLights, ReenableAutoLightsForPad,
       SetPanelTestMode, SetPlatformLights, SetSerialNumbers, Enqueue, Swap,
       Pass, Tick, OpenPad, Ready, vars, pads
  <2> QED
    BY <2>2, <2>3, <2>4, <2>5
<1>2. [][Onwards]_vars => NeverOlder
  BY DEF NeverOlder
<1> HIDE DEF Onwards
<1> QED
  BY <1>1, <1>2, OrderInvariant, PTL DEF Spec

-----------------------------------------------------------------------------
(* The newest frame is not lost *)

Newest(i, c)  == IsLights(c) /\ c[2] = newest[i]
StagedFor(i)  == {pending[n].cmd[At(i)] : n \in DOMAIN pending}

\* Nothing that turns a pad off behind a command of frame f.
LastPairs(f) ==
  {p \in Any \X Any : ~(IsLights(p[1]) /\ p[1][2] = f /\ Takes(p[2]))}

\* An answered lights command is what the pad shows.
AnswerShown(i) ==
  answered[i] /\ IsLights(flight[i]) =>
    \A k \in 1..3 : flight[i][1] = Parts[k] => lit[i][k] = flight[i][2]

\* The frame a pad should show is the last one that was set, the pad is there,
\* and a command that turns its lights off is still before each of the frame's.
NothingTakes(i) ==
  newest[i] # 0 =>
    /\ newest[i] = frames /\ link[i] = "ready" /\ test = "off"
    /\ \A c \in Members(queue[i]) : Takes(c) =>
         ~Newest(i, flight[i]) /\ \A k \in 1..3 : lit[i][k] # newest[i]
    /\ Takes(flight[i]) /\ ~answered[i] => \A k \in 1..3 : lit[i][k] # newest[i]
    /\ Sorted(queue[i], LastPairs(newest[i]))

OnItsWay(i) ==
  newest[i] # 0 =>
    \A k \in 1..3 : (k = 1 => Version[i] >= 4) =>
      LET c == <<Parts[k], newest[i]>>
      IN  lit[i][k] = newest[i] \/ c \in On(i) \/ c \in StagedFor(i)

NewestInv == \A i \in Pad : AnswerShown(i) /\ NothingTakes(i) /\ OnItsWay(i)

LEMMA OnItsWayParts == (\A i \in Pad : OnItsWay(i)) => NewestOnItsWay
<1> SUFFICES ASSUME \A i \in Pad : OnItsWay(i),
                    NEW i \in Pad, newest[i] # 0,
                    NEW k \in 1..3, k = 1 => Version[i] >= 4
             PROVE  LET c == <<Parts[k], newest[i]>>
                    IN  \/ lit[i][k] = newest[i]
                        \/ flight[i] = c
                        \/ c \in Members(queue[i])
                        \/ \E n \in DOMAIN pending : pending[n].cmd[At(i)] = c
  BY DEF NewestOnItsWay
<1> DEFINE c == <<Parts[k], newest[i]>>
<1>1. lit[i][k] = newest[i] \/ c \in On(i) \/ c \in StagedFor(i)
  BY DEF OnItsWay
<1> HIDE DEF c
<1>2. c \in On(i) => c = flight[i] \/ c \in Members(queue[i])
  BY DEF On
<1>3. c \in StagedFor(i) => \E n \in DOMAIN pending : pending[n].cmd[At(i)] = c
  BY DEF StagedFor
<1>4. \/ lit[i][k] = newest[i] \/ flight[i] = c \/ c \in Members(queue[i])
      \/ \E n \in DOMAIN pending : pending[n].cmd[At(i)] = c
  BY <1>1, <1>2, <1>3
<1> QED
  BY <1>4 DEF c

LEMMA InitNewest == Init => NewestInv
BY DEF Init, NewestInv, AnswerShown, NothingTakes, OnItsWay

LEMMA LastPairsPlain ==
  ASSUME NEW f, NEW x \in Any, NEW y \in Any, ~Takes(y)
  PROVE  <<x, y>> \in LastPairs(f)
BY DEF LastPairs

\* Superseded, or never set.
LEMMA NoneNewest ==
  ASSUME NEW i \in Pad, newest'[i] = 0
  PROVE  NothingTakes(i)' /\ OnItsWay(i)'
BY DEF NothingTakes, OnItsWay

\* A step that keeps what a pad shows and has in flight, and queues at most
\* something that turns nothing off.
LEMMA NewestKept ==
  ASSUME Shape, NewestInv, NEW i \in Pad,
         UNCHANGED <<frames, test>>, newest'[i] = newest[i],
         lit'[i] = lit[i], flight'[i] = flight[i], answered'[i] = answered[i],
         link[i] = "ready" => link'[i] = "ready",
         Members(queue[i]) \subseteq Members(queue'[i]),
         \A c \in Members(queue'[i]) : Takes(c) => c \in Members(queue[i]),
         \A f : Sorted(queue[i], LastPairs(f)) =>
                  Sorted(queue'[i], LastPairs(f)),
         \A c \in StagedFor(i) : IsLights(c) => c \in StagedFor(i)'
  PROVE  AnswerShown(i)' /\ NothingTakes(i)' /\ OnItsWay(i)'
<1>1. AnswerShown(i)'
  BY DEF NewestInv, AnswerShown
<1>2. NothingTakes(i)'
  BY DEF NewestInv, NothingTakes, Newest
<1>3. OnItsWay(i)'
  <2> SUFFICES ASSUME newest'[i] # 0, NEW k \in 1..3, k = 1 => Version[i] >= 4
               PROVE  LET c == <<Parts[k], newest'[i]>>
                      IN  \/ lit'[i][k] = newest'[i]
                          \/ c \in On(i)' \/ c \in StagedFor(i)'
    BY DEF OnItsWay
  <2> DEFINE c == <<Parts[k], newest[i]>>
  <2>1. lit[i][k] = newest[i] \/ c \in On(i) \/ c \in StagedFor(i)
    BY DEF NewestInv, OnItsWay
  <2>2. IsLights(c)
    <3>1. newest[i] = frames
      BY DEF NewestInv, NothingTakes
    <3>2. newest[i] \in 1..MaxFrames
      BY <3>1, LightsAssumption DEF Shape, TypeOK, LightsAssumption
    <3> QED
      BY <3>2, PartIsLights DEF IsLights
  <2>3. On(i) \subseteq On(i)'
    BY DEF On
  <2> HIDE DEF c
  <2>4. lit[i][k] = newest[i] \/ c \in On(i)' \/ c \in StagedFor(i)'
    BY <2>1, <2>2, <2>3
  <2> QED
    BY <2>4 DEF c
<1> QED
  BY <1>1, <1>2, <1>3

\* Nothing at all changes for the pad.
LEMMA NewestSame ==
  ASSUME Shape, NewestInv, NEW i \in Pad,
         UNCHANGED <<frames, test>>, newest'[i] = newest[i],
         lit'[i] = lit[i], flight'[i] = flight[i], answered'[i] = answered[i],
         link[i] = "ready" => link'[i] = "ready", queue'[i] = queue[i],
         \A c \in StagedFor(i) : IsLights(c) => c \in StagedFor(i)'
  PROVE  AnswerShown(i)' /\ NothingTakes(i)' /\ OnItsWay(i)'
<1>1. Members(queue'[i]) = Members(queue[i])
  OBVIOUS
<1> QED
  BY <1>1, NewestKept

\* set_lights: the whole frame is staged, and it is newer than all there is.
LEMMA NewestSet ==
  ASSUME Shape, InOrder, NewestInv, NEW S \in SUBSET Slot, SetLights(S),
         NEW i \in Pad
  PROVE  AnswerShown(i)' /\ NothingTakes(i)' /\ OnItsWay(i)'
<1>1. /\ UNCHANGED <<lit, flight, answered, queue, link, swaps, test>>
      /\ test = "off"
  BY DEF SetLights, links, pads, testing
<1>2. AnswerShown(i)'
  BY <1>1 DEF NewestInv, AnswerShown
<1>3. newest'[i] = IF i \notin Configured THEN newest[i]
                   ELSE IF At(i) \in S THEN frames' ELSE 0
  BY DEF SetLights
<1>4. CASE i \notin Configured
  <2>1. newest[i] = 0
    BY <1>4 DEF NewestInv, NothingTakes, Configured
  <2> QED
    BY <1>2, <1>3, <1>4, <2>1, NoneNewest
<1>5. CASE i \in Configured /\ At(i) \notin S
  BY <1>2, <1>3, <1>5, NoneNewest
<1>6. CASE i \in Configured /\ At(i) \in S
  <2>1. /\ frames' = frames + 1 /\ frames' \in 1..MaxFrames
        /\ newest'[i] = frames + 1 /\ frames \in Nat
    BY <1>3, <1>6, SetLightsStaged, OrderTypes DEF Shape
  <2>2. \A c \in On(i) : IsLights(c) => c[2] # frames + 1
    <3>1. \A c \in On(i) : IsLights(c) => c[2] <= frames /\ c[2] \in Nat
      BY OrderTypes DEF InOrder, PadInOrder, NotPast
    <3> QED
      BY <2>1, <3>1
  <2>3. \A k \in 1..3 : lit[i][k] # frames + 1
    <3>1. \A k \in 1..3 : lit[i][k] <= frames /\ lit[i][k] \in Nat
      BY OrderTypes DEF InOrder, PadInOrder
    <3> QED
      BY <2>1, <3>1
  <2>4. Sorted(queue[i], LastPairs(frames + 1))
    <3>1. queue[i] \in Seq(Command)
      BY DEF Shape, TypeOK
    <3>2. \A a \in DOMAIN queue[i] :
            queue[i][a] \in On(i) /\ queue[i][a] \in Any
      BY <3>1 DEF On, Members, Any
    <3> QED
      BY <2>2, <3>2 DEF Sorted, LastPairs
  <2>5. NothingTakes(i)'
    <3>1. link'[i] = "ready" /\ test' = "off" /\ newest'[i] = frames'
      BY <1>1, <1>6, <2>1 DEF Configured
    <3>2. ~Newest(i, flight[i])'
      BY <1>1, <2>1, <2>2 DEF Newest, On
    <3>3. \A k \in 1..3 : lit'[i][k] # newest'[i]
      BY <1>1, <2>1, <2>3
    <3>4. Sorted(queue'[i], LastPairs(newest'[i]))
      BY <1>1, <2>1, <2>4
    <3> QED
      BY <3>1, <3>2, <3>3, <3>4 DEF NothingTakes, Newest
  <2>6. ASSUME NEW k \in 1..3, k = 1 => Version[i] >= 4
        PROVE  <<Parts[k], newest'[i]>> \in StagedFor(i)'
    <3>1. PICK b \in {0, 1} : NewFrame(b, frames', S)
      BY SetLightsStaged DEF Shape
    <3>2. At(i) \in Slot /\ At(At(i)) = i /\ At(i)' = At(i)
      BY <1>1, AtFacts DEF At, Shape, TypeOK, Slot, Pad
    <3>3. pending'[b + k].cmd[At(i)] = Share(At(i), k, frames', S)
      BY <1>6, <3>1, <3>2 DEF NewFrame
    <3>4. Share(At(i), k, frames', S) = <<Parts[k], frames'>>
      BY <1>6, <2>6, <3>2 DEF Share
    <3>5. b + k \in DOMAIN pending'
      <4>1. DOMAIN pending' = 1..(b + 3)
        BY <3>1 DEF NewFrame
      <4> QED
        BY <4>1
    <3>6. newest'[i] = frames'
      BY <2>1
    <3>7. <<Parts[k], newest'[i]>> = pending'[b + k].cmd[At(i)']
      BY <3>2, <3>3, <3>4, <3>6
    <3> QED
      BY <3>5, <3>7 DEF StagedFor
  <2>7. OnItsWay(i)'
    BY <2>6 DEF OnItsWay
  <2> QED
    BY <1>2, <2>5, <2>7
<1> QED
  BY <1>4, <1>5, <1>6

\* Steps that leave what is staged for a pad where it is.
LEMMA StagedForKept ==
  ASSUME Shape, NEW i \in Pad, UNCHANGED swaps,
         Len(pending') = Len(pending), pending' \in Seq(Entry),
         \A n \in 1..Len(pending) :
           pending'[n].cmd[At(i)] = pending[n].cmd[At(i)]
  PROVE  StagedFor(i)' = StagedFor(i)
<1>1. At(i)' = At(i)
  BY DEF At
<1>2. DOMAIN pending' = 1..Len(pending) /\ DOMAIN pending = 1..Len(pending)
  BY DEF Shape, TypeOK
<1> QED
  BY <1>1, <1>2 DEF StagedFor

\* A release of the pad ends its frame; of the other pad, it takes nothing that
\* is staged for this one.
LEMMA NewestReleased ==
  ASSUME Shape, NewestInv, NEW i \in Pad, NEW j \in Pad,
         ReenableAutoLightsForPad(j)
  PROVE  AnswerShown(i)' /\ NothingTakes(i)' /\ OnItsWay(i)'
<1>1. /\ UNCHANGED <<lit, flight, answered, link, frames, test, swaps, delay>>
      /\ newest' = [newest EXCEPT ![j] = 0] /\ pending' = Unstage(j)
      /\ newest \in [Pad -> Nat] /\ queue \in [Pad -> Seq(Command)]
  BY DEF ReenableAutoLightsForPad, pads, testing, Shape, TypeOK
<1>2. CASE i = j
  <2>1. AnswerShown(i)'
    BY <1>1 DEF NewestInv, AnswerShown
  <2>2. newest'[i] = 0
    BY <1>1, <1>2
  <2> QED
    BY <2>1, <2>2, NoneNewest
<1>3. CASE i # j
  <2>1. queue'[i] = queue[i] /\ newest'[i] = newest[i]
    BY <1>1, <1>3 DEF ReenableAutoLightsForPad
  <2>2. At(i) \in Slot /\ At(j) \in Slot /\ At(i) # At(j)
    BY <1>3, AtFacts DEF Shape, TypeOK, Slot, Pad
  <2>3. /\ pending' \in Seq(Entry) /\ Len(pending') = Len(pending)
        /\ \A n \in 1..Len(pending) : \A s \in Slot :
             pending'[n].cmd[s] = IF s = At(j) THEN None
                                  ELSE pending[n].cmd[s]
    BY <1>1, UnstageStaged DEF Shape
  <2>4. StagedFor(i)' = StagedFor(i)
    BY <1>1, <2>2, <2>3, StagedForKept
  <2> QED
    BY <1>1, <2>1, <2>4, NewestSame
<1> QED
  BY <1>2, <1>3

LEMMA NewestEnqueues ==
  ASSUME Shape, NewestInv, NEW i \in Pad, NEW c, <<c>> \in Plain,
         ~Takes(<<c>>), NEW takers \in SUBSET Open, Enqueue(c, takers)
  PROVE  AnswerShown(i)' /\ NothingTakes(i)' /\ OnItsWay(i)'
<1>1. UNCHANGED <<lit, flight, answered, link, frames, test, swaps, pending,
                  newest>>
  BY DEF Enqueue, pads, testing, staging
<1>2. StagedFor(i)' = StagedFor(i)
  BY <1>1 DEF StagedFor, At
<1>3. CASE queue'[i] = queue[i]
  BY <1>1, <1>2, <1>3, NewestSame
<1>4. CASE queue'[i] = Append(queue[i], <<c>>)
  <2>1. queue[i] \in Seq(Command)
    BY DEF Shape, TypeOK
  <2>2. <<c>> \in Command /\ <<c>> \in Any
    BY DEF Any, Command
  <2>3. Members(queue'[i]) = Members(queue[i]) \cup {<<c>>}
    BY <1>4, <2>1, MembersAppend
  <2>4. \A x \in Members(queue[i]) : x \in Any
    BY <2>1 DEF Members, Any
  <2>5. ASSUME NEW f, Sorted(queue[i], LastPairs(f))
        PROVE  Sorted(queue'[i], LastPairs(f))
    <3>1. \A x \in Members(queue[i]) : <<x, <<c>>>> \in LastPairs(f)
      BY <2>2, <2>4, LastPairsPlain
    <3> QED
      BY <1>4, <2>1, <2>2, <2>5, <3>1, AppendSorted
  <2>6. \A x \in Members(queue'[i]) : Takes(x) => x \in Members(queue[i])
    BY <2>3
  <2> QED
    BY <1>1, <1>2, <2>3, <2>5, <2>6, NewestKept
<1> QED
  BY <1>3, <1>4, EnqueueShape

\* The pad executes: of the newest frame it takes one more part; it turns off
\* only when nothing of the frame has come yet.
LEMMA NewestExecutes ==
  ASSUME Shape, InOrder, NewestInv, NEW i \in Pad, Execute(i)
  PROVE  AnswerShown(i)' /\ NothingTakes(i)' /\ OnItsWay(i)'
<1> DEFINE c == flight[i]
<1>1. /\ UNCHANGED <<flight, queue, link, frames, test, swaps, pending, newest>>
      /\ answered'[i] /\ ~answered[i]
  BY DEF Execute, history, testing, staging, Shape, TypeOK
<1>2. lit'[i] = IF IsLights(c)
                THEN [k \in 1..3 |-> IF Parts[k] = c[1]
                                     THEN c[2] ELSE lit[i][k]]
                ELSE IF Takes(c) THEN Dark ELSE lit[i]
  BY DEF Execute, Shape, TypeOK
<1>3. /\ StagedFor(i)' = StagedFor(i) /\ On(i)' = On(i)
      /\ queue'[i] = queue[i] /\ flight'[i] = flight[i]
      /\ newest'[i] = newest[i] /\ link'[i] = link[i]
  BY <1>1 DEF StagedFor, At, On
<1> HIDE DEF c
<1>4. \A k \in 1..3 :
        \/ IsLights(c) /\ c[1] = Parts[k] /\ lit'[i][k] = c[2]
        \/ ~IsLights(c) /\ Takes(c) /\ lit'[i][k] = 0
        \/ lit'[i][k] = lit[i][k]
  BY <1>2 DEF Dark
<1>5. AnswerShown(i)'
  <2>1. ASSUME IsLights(c), NEW k \in 1..3, c[1] = Parts[k]
        PROVE  lit'[i][k] = c[2]
    BY <1>2, <2>1
  <2> QED
    BY <1>3, <2>1 DEF AnswerShown, c
<1> SUFFICES ASSUME newest[i] # 0 PROVE NothingTakes(i)' /\ OnItsWay(i)'
  BY <1>3, <1>5, NoneNewest
<1>6. /\ newest[i] = frames /\ link[i] = "ready" /\ test = "off"
      /\ \A d \in Members(queue[i]) : Takes(d) =>
           ~Newest(i, c) /\ \A k \in 1..3 : lit[i][k] # newest[i]
      /\ Takes(c) => \A k \in 1..3 : lit[i][k] # newest[i]
      /\ Sorted(queue[i], LastPairs(newest[i]))
  BY <1>1 DEF NewestInv, NothingTakes, c
<1>7. NothingTakes(i)'
  <2>1. ASSUME NEW d \in Members(queue[i]), Takes(d), NEW k \in 1..3
        PROVE  lit'[i][k] # newest[i]
    BY <1>4, <1>6, <2>1 DEF Newest
  <2>2. \A d \in Members(queue[i]) : Takes(d) => ~Newest(i, c)
    BY <1>6
  <2> QED
    BY <1>1, <1>3, <1>6, <2>1, <2>2 DEF NothingTakes, Newest, c
<1>8. ASSUME NEW k \in 1..3, lit[i][k] = newest[i]
      PROVE  lit'[i][k] = newest[i]
  <2>1. CASE IsLights(c) /\ c[1] = Parts[k] /\ lit'[i][k] = c[2]
    <3>1. lit[i][k] <= c[2] /\ c[2] <= frames
      BY <2>1 DEF InOrder, PadInOrder, On, NotPast, c
    <3>2. c[2] \in Nat /\ frames \in Nat
      BY <2>1, OrderTypes
    <3>3. c[2] = frames
      BY <1>6, <1>8, <3>1, <3>2
    <3> QED
      BY <1>6, <2>1, <3>3
  <2>2. CASE Takes(c)
    BY <1>6, <1>8, <2>2
  <2> QED
    BY <1>4, <1>8, <2>1, <2>2
<1>9. OnItsWay(i)'
  BY <1>3, <1>8 DEF NewestInv, OnItsWay
<1> QED
  BY <1>7, <1>9

\* A pass hands a staged entry on, or leaves it staged.
LEMMA PassRest ==
  ASSUME Shape, Pass, NEW m \in DOMAIN pending
  PROVE  \/ m \in 1..Count(AfterTest(AfterUpdate))
         \/ \E l \in DOMAIN pending' : pending'[l] = pending[m]
<1> DEFINE n == Count(AfterTest(AfterUpdate))
<1>1. /\ n \in 0..Len(pending) /\ (n = 0 \/ n # Len(pending) - 2)
      /\ pending' = SubSeq(pending, n + 1, Len(pending)) /\ delay' = delay
  BY CountFacts DEF Shape, Pass
<1> SUFFICES ASSUME m \notin 1..n
             PROVE  \E l \in DOMAIN pending' : pending'[l] = pending[m]
  OBVIOUS
<1> HIDE DEF n
<1>2. /\ pending' \in Seq(Entry) /\ Len(pending') = Len(pending) - n
      /\ \A l \in 1..(Len(pending) - n) : pending'[l] = pending[n + l]
  BY <1>1, PassStaged DEF Shape
<1>3. /\ DOMAIN pending = 1..Len(pending) /\ Len(pending) \in Nat
      /\ DOMAIN pending' = 1..(Len(pending) - n)
  BY <1>2 DEF Shape, TypeOK
<1>4. m - n \in 1..(Len(pending) - n) /\ n + (m - n) = m
  <2> DEFINE L == Len(pending)
  <2>1. L \in Nat /\ n \in 0..L /\ m \in 1..L
    BY <1>1, <1>3
  <2> HIDE DEF L
  <2>2. n \in Nat /\ m \in Nat /\ m <= L /\ m > n
    BY <2>1
  <2>3. m - n \in 1..(L - n) /\ n + (m - n) = m
    BY <2>1, <2>2
  <2> QED
    BY <2>3 DEF L
<1> QED
  BY <1>2, <1>3, <1>4

\* A pass takes the frame's commands along in their order, and queues nothing
\* that would turn them off.
LEMMA NewestPass ==
  ASSUME Shape, NewestInv, Pass, NEW i \in Pad
  PROVE  AnswerShown(i)' /\ NothingTakes(i)' /\ OnItsWay(i)'
<1> DEFINE n == Count(AfterTest(AfterUpdate))
           u == AfterUpdate[i]
           T == {c \in Plain : Takes(c) => test # "off"}
           H == {c \in LightsCommands :
                   \E m \in 1..n : c = pending[m].cmd[At(i)]}
           f == newest[i]
           R == LastPairs(f)
<1>1. UNCHANGED <<lit, frames, swaps, link, test, newest>>
  BY DEF Pass, pads, history
<1>2. ~IsLights(None) /\ ~Takes(None)
  BY PlainFacts, TakesFacts DEF IsLights
<1>3. \/ /\ flight'[i] \in Members(queue[i]) /\ ~answered'[i]
         /\ Members(queue[i]) = Members(u) \cup {flight'[i]}
         /\ Sorted(queue[i], R) =>
              /\ Sorted(u, R)
              /\ \A x \in Members(u) : <<flight'[i], x>> \in R
         /\ flight[i] = None \/ answered[i]
      \/ /\ u = queue[i] /\ flight'[i] = None
         /\ flight[i] = None \/ answered[i]
      \/ /\ u = queue[i] /\ flight'[i] = flight[i]
         /\ ~answered[i] /\ ~answered'[i]
  BY PassFlight
<1>4. AnswerShown(i)'
  BY <1>2, <1>3 DEF AnswerShown
<1> SUFFICES ASSUME f # 0 PROVE NothingTakes(i)' /\ OnItsWay(i)'
  BY <1>1, <1>4, NoneNewest
<1>5. /\ f = frames /\ link[i] = "ready" /\ test = "off"
      /\ \A c \in Members(queue[i]) : Takes(c) =>
           ~Newest(i, flight[i]) /\ \A k \in 1..3 : lit[i][k] # f
      /\ Takes(flight[i]) /\ ~answered[i] => \A k \in 1..3 : lit[i][k] # f
      /\ Sorted(queue[i], R)
  BY DEF NewestInv, NothingTakes
<1>6. /\ Members(u) \subseteq Members(queue'[i])
      /\ Members(queue'[i]) \subseteq Members(u) \cup T \cup H
      /\ i \in Open => H \subseteq Members(queue'[i])
      /\ Sorted(u, R) /\ (Members(u) \cup T) \X (T \cup H) \subseteq R
         /\ (\A a, b \in 1..n : a < b =>
               <<pending[a].cmd[At(i)], pending[b].cmd[At(i)]>> \in R)
         => Sorted(queue'[i], R)
  BY PassWay
<1>7. \A c \in T \cup H : ~Takes(c) /\ c \in Any
  BY <1>5, TakesFacts DEF Any, Command
<1>8. /\ At(i) \in Slot
      /\ \A m \in DOMAIN pending :
           pending[m].cmd[At(i)] \in Any /\ ~Takes(pending[m].cmd[At(i)])
  <2>1. At(i) \in Slot
    BY AtFacts DEF Shape, TypeOK, Slot, Pad
  <2>2. ASSUME NEW m \in DOMAIN pending
        PROVE  pending[m].cmd[At(i)] \in Sharable
    <3>1. pending[m] \in Entry
      BY ElementOfSeq DEF Shape, TypeOK
    <3> QED
      BY <2>1, <3>1 DEF Entry
  <2>3. \A c \in Sharable : c \in Any /\ ~Takes(c)
    BY TakesFacts DEF Sharable, Any, Command
  <2> QED
    BY <2>1, <2>2, <2>3
<1>9. 1..n \subseteq DOMAIN pending
  BY PassEntries
<1>10. Members(u) \subseteq Members(queue[i]) /\ Members(queue[i]) \subseteq Any
  <2>1. queue[i] \in Seq(Command)
    BY DEF Shape, TypeOK
  <2>2. Members(queue[i]) \subseteq Any
    BY <2>1 DEF Members, Any
  <2> QED
    BY <2>2, UpdateFacts DEF Shape
<1>11. \A m \in DOMAIN pending :
         m \in 1..n \/ \E l \in DOMAIN pending' : pending'[l] = pending[m]
  BY PassRest
<1> HIDE DEF n, u, T
<1>12. \A c \in Members(queue'[i]) : Takes(c) => c \in Members(u)
  BY <1>6, <1>7
<1>13. Sorted(u, R)
  BY <1>3, <1>5
<1>14. Sorted(queue'[i], R)
  <2> HIDE DEF H
  <2>1. (Members(u) \cup T) \X (T \cup H) \subseteq R
    <3>1. ASSUME NEW d \in Members(u) \cup T, NEW c \in T \cup H
          PROVE  <<d, c>> \in R
      <4>1. d \in Any /\ c \in Any /\ ~Takes(c)
        BY <1>7, <1>10
      <4> QED
        BY <4>1, LastPairsPlain
    <3> QED
      BY <3>1
  <2>2. ASSUME NEW a \in 1..n, NEW b \in 1..n, a < b
        PROVE  <<pending[a].cmd[At(i)], pending[b].cmd[At(i)]>> \in R
    BY <1>8, <1>9, LastPairsPlain
  <2> QED
    BY <1>6, <1>13, <2>1, <2>2
<1>15. ASSUME NEW d \in Members(queue'[i]), Takes(d)
       PROVE  ~Newest(i, flight'[i]) /\ \A k \in 1..3 : lit[i][k] # f
  <2>1. d \in Members(u) /\ d \in Members(queue[i])
    BY <1>10, <1>12, <1>15
  <2>2. \A k \in 1..3 : lit[i][k] # f
    BY <1>5, <1>15, <2>1
  <2>3. ~Newest(i, flight'[i])
    <3>1. CASE \A x \in Members(u) : <<flight'[i], x>> \in R
      <4>1. <<flight'[i], d>> \in LastPairs(f)
        BY <2>1, <3>1
      <4> QED
        BY <1>15, <4>1 DEF LastPairs, Newest
    <3>2. CASE flight'[i] = None
      BY <1>2, <3>2 DEF Newest
    <3>3. CASE flight'[i] = flight[i]
      BY <1>5, <1>15, <2>1, <3>3
    <3> QED
      BY <1>3, <1>5, <3>1, <3>2, <3>3
  <2> QED
    BY <2>2, <2>3
<1>16. Takes(flight'[i]) /\ ~answered'[i] => \A k \in 1..3 : lit[i][k] # f
  BY <1>2, <1>3, <1>5
<1>17. NothingTakes(i)'
  BY <1>1, <1>5, <1>14, <1>15, <1>16 DEF NothingTakes, Newest
<1>18. ASSUME NEW k \in 1..3, k = 1 => Version[i] >= 4
       PROVE  LET c == <<Parts[k], f>>
              IN  lit[i][k] = f \/ c \in On(i)' \/ c \in StagedFor(i)'
  <2> DEFINE c == <<Parts[k], f>>
  <2>1. lit[i][k] = f \/ c \in On(i) \/ c \in StagedFor(i)
    BY <1>18 DEF NewestInv, OnItsWay
  <2>2. IsLights(c) /\ c # None /\ c[1] = Parts[k] /\ c[2] = f
    <3>1. f \in 1..MaxFrames
      BY <1>5, LightsAssumption DEF Shape, TypeOK, LightsAssumption
    <3> QED
      BY <3>1, PartIsLights, PlainFacts DEF IsLights
  <2> SUFFICES lit[i][k] = f \/ c \in On(i)' \/ c \in StagedFor(i)'
    OBVIOUS
  <2> HIDE DEF c, f
  <2>3. CASE c = flight[i]
    <3>1. CASE answered[i]
      BY <2>2, <2>3, <3>1 DEF NewestInv, AnswerShown
    <3>2. CASE ~answered[i]
      <4>1. flight'[i] = flight[i]
        BY <1>3, <2>2, <2>3, <3>2
      <4> QED
        BY <2>3, <4>1 DEF On
    <3> QED
      BY <3>1, <3>2
  <2>4. CASE c \in Members(queue[i])
    <3>1. c \in Members(u) \/ c = flight'[i]
      BY <1>3, <2>4
    <3> QED
      BY <1>6, <3>1 DEF On
  <2>5. CASE c \in StagedFor(i)
    <3>1. PICK m \in DOMAIN pending : c = pending[m].cmd[At(i)]
      BY <2>5 DEF StagedFor
    <3>2. CASE m \in 1..n
      <4>1. c \in H
        BY <2>2, <3>1, <3>2 DEF IsLights
      <4>2. i \in Open
        BY <1>5 DEF Open
      <4> QED
        BY <1>6, <4>1, <4>2 DEF On
    <3>3. CASE m \notin 1..n
      <4>1. PICK l \in DOMAIN pending' : pending'[l] = pending[m]
        BY <1>11, <3>3
      <4>2. At(i)' = At(i)
        BY <1>1 DEF At
      <4>3. c = pending'[l].cmd[At(i)']
        BY <3>1, <4>1, <4>2
      <4> QED
        BY <4>1, <4>3 DEF StagedFor
    <3> QED
      BY <3>2, <3>3
  <2> QED
    BY <2>1, <2>3, <2>4, <2>5 DEF On
<1>19. OnItsWay(i)'
  BY <1>1, <1>18 DEF OnItsWay
<1> QED
  BY <1>17, <1>19

LEMMA NextNewest ==
  ASSUME Shape, InOrder, NewestInv, [Next]_vars
  PROVE  NewestInv'
<1> SUFFICES ASSUME NEW i \in Pad
             PROVE  AnswerShown(i)' /\ NothingTakes(i)' /\ OnItsWay(i)'
  BY DEF NewestInv
<1>1. ASSUME NEW S \in SUBSET Slot, SetLights(S)
      PROVE  AnswerShown(i)' /\ NothingTakes(i)' /\ OnItsWay(i)'
  BY <1>1, NewestSet
<1>2. ASSUME NEW j \in Pad, ReenableAutoLightsForPad(j)
      PROVE  AnswerShown(i)' /\ NothingTakes(i)' /\ OnItsWay(i)'
  BY <1>2, NewestReleased
<1>3. CASE Swap \/ \E m \in TestModes : SetPanelTestMode(m)
  <2>1. /\ UNCHANGED <<lit, flight, answered>> /\ newest'[i] = 0
    BY <1>3 DEF Swap, SetPanelTestMode, links, pads
  <2>2. AnswerShown(i)'
    BY <2>1 DEF NewestInv, AnswerShown
  <2> QED
    BY <2>1, <2>2, NoneNewest
<1>4. CASE SetPlatformLights \/ SetSerialNumbers
  BY <1>4, EnqueueCalls, NewestEnqueues, PlainFacts, TakesFacts DEF Shape
<1>5. CASE Pass
  BY <1>5, NewestPass
<1>6. CASE Tick
  <2>1. UNCHANGED <<lit, flight, answered, queue, link, frames, test, newest,
                    swaps>>
    BY <1>6 DEF Tick, links, pads, history
  <2>2. /\ pending' \in Seq(Entry) /\ Len(pending') = Len(pending)
        /\ \A n \in 1..Len(pending) :
             pending'[n].cmd[At(i)] = pending[n].cmd[At(i)]
    BY <1>6, TickStaged DEF Shape
  <2>3. StagedFor(i)' = StagedFor(i)
    BY <2>1, <2>2, StagedForKept
  <2> QED
    BY <2>1, <2>3, NewestSame
<1>7. ASSUME NEW j \in Pad, ClosePad(j)
      PROVE  AnswerShown(i)' /\ NothingTakes(i)' /\ OnItsWay(i)'
  <2>1. UNCHANGED <<frames, test, swaps, pending>>
    BY <1>7 DEF ClosePad, testing, staging
  <2>2. CASE i = j
    <3>1. newest'[i] = 0 /\ ~answered'[i]
      BY <1>7, <2>2 DEF ClosePad, Shape, TypeOK
    <3> QED
      BY <3>1, NoneNewest DEF AnswerShown
  <2>3. CASE i # j
    <3>1. /\ lit'[i] = lit[i] /\ flight'[i] = flight[i]
          /\ answered'[i] = answered[i] /\ link'[i] = link[i]
          /\ queue'[i] = queue[i] /\ newest'[i] = newest[i]
      BY <1>7, <2>3 DEF ClosePad, Shape, TypeOK
    <3>2. StagedFor(i)' = StagedFor(i)
      BY <2>1 DEF StagedFor, At
    <3> QED
      BY <2>1, <3>1, <3>2, NewestSame
  <2> QED
    BY <2>2, <2>3
<1>8. ASSUME NEW j \in Pad, Execute(j)
      PROVE  AnswerShown(i)' /\ NothingTakes(i)' /\ OnItsWay(i)'
  <2>1. CASE i = j
    BY <1>8, <2>1, NewestExecutes
  <2>2. CASE i # j
    <3>1. UNCHANGED <<frames, test, swaps, pending, newest, queue, flight,
                      link>>
      BY <1>8 DEF Execute, testing, staging, history
    <3>2. lit'[i] = lit[i] /\ answered'[i] = answered[i]
      BY <1>8, <2>2 DEF Execute, Shape, TypeOK
    <3>3. StagedFor(i)' = StagedFor(i)
      BY <3>1 DEF StagedFor, At
    <3> QED
      BY <3>1, <3>2, <3>3, NewestSame
  <2> QED
    BY <2>1, <2>2
<1>9. CASE UNCHANGED vars \/ \E j \in Pad : OpenPad(j) \/ Ready(j)
  <2>1. /\ UNCHANGED <<lit, flight, answered, queue, frames, test, newest,
                       swaps, pending>>
        /\ link[i] = "ready" => link'[i] = "ready"
    BY <1>9 DEF OpenPad, Ready, vars, links, pads, testing, staging, history,
       Shape, TypeOK
  <2>2. StagedFor(i)' = StagedFor(i)
    BY <2>1 DEF StagedFor, At
  <2> QED
    BY <2>1, <2>2, NewestSame
<1> QED
  BY <1>1, <1>2, <1>3, <1>4, <1>5, <1>6, <1>7, <1>8, <1>9
     DEF Next, Api, Outside

\* The newest frame set for a pad is never lost in part: while nothing
\* supersedes it, each of its commands has reached the pad, or is staged, queued
\* or in flight, whatever replaces, splits, hands on and answers meanwhile.
THEOREM NewestStays == Spec => []NewestOnItsWay
<1>1. Init => NewestInv
  BY InitNewest
<1>2. Shape /\ InOrder /\ NewestInv /\ [Next]_vars => NewestInv'
  BY NextNewest
<1>3. NewestInv => NewestOnItsWay
  BY OnItsWayParts DEF NewestInv
<1> QED
  BY <1>1, <1>2, <1>3, OrderInvariant, PTL DEF Spec

-----------------------------------------------------------------------------
(* The backlog *)

\* Where a queue holds lights.
LightsAt(q) == {n \in DOMAIN q : IsLights(q[n])}

LEMMA LightsAtFinite ==
  ASSUME NEW q \in Seq(Command)
  PROVE  IsFiniteSet(LightsAt(q)) /\ Cardinality(LightsAt(q)) \in Nat
<1>1. IsFiniteSet(1..Len(q))
  BY FS_Interval
<1>2. LightsAt(q) \subseteq 1..Len(q)
  BY DEF LightsAt
<1> QED
  BY <1>1, <1>2, FS_Subset, FS_CardinalityType

\* pop_front makes the backlog no longer.
LEMMA LightsTail ==
  ASSUME NEW q \in Seq(Command), q # <<>>
  PROVE  Cardinality(LightsAt(Tail(q))) <= Cardinality(LightsAt(q))
<1> DEFINE f == [n \in LightsAt(Tail(q)) |-> n + 1]
<1>1. /\ Tail(q) \in Seq(Command) /\ Len(q) \in Nat \ {0}
      /\ DOMAIN q = 1..Len(q) /\ DOMAIN Tail(q) = 1..(Len(q) - 1)
      /\ \A k \in 1..Len(Tail(q)) : Tail(q)[k] = q[k + 1]
      /\ Len(Tail(q)) = Len(q) - 1
  BY HeadTail
<1>2. ASSUME NEW n \in LightsAt(Tail(q)) PROVE n + 1 \in LightsAt(q)
  <2>1. n \in 1..(Len(q) - 1) /\ IsLights(Tail(q)[n])
    BY <1>1 DEF LightsAt
  <2>2. n + 1 \in DOMAIN q /\ q[n + 1] = Tail(q)[n]
    BY <1>1, <2>1
  <2> QED
    BY <2>1, <2>2 DEF LightsAt
<1>3. LightsAt(Tail(q)) \subseteq Int
  BY <1>1 DEF LightsAt
<1>4. f \in Injection(LightsAt(Tail(q)), LightsAt(q))
  <2>1. f \in [LightsAt(Tail(q)) -> LightsAt(q)]
    BY <1>2
  <2>2. \A a, b \in LightsAt(Tail(q)) : f[a] = f[b] => a = b
    BY <1>3
  <2> HIDE DEF f
  <2> QED
    BY <2>1, <2>2, Fun_IsInj
<1> HIDE DEF f
<1> QED
  BY <1>4, LightsAtFinite, FS_Injection

\* push_back of a command that is no light leaves the backlog as it is.
LEMMA LightsPlain ==
  ASSUME NEW q \in Seq(Command), NEW t \in Seq(Command),
         \A n \in DOMAIN t : ~IsLights(t[n])
  PROVE  LightsAt(q \o t) = LightsAt(q)
<1> DEFINE s == q \o t
<1>1. /\ DOMAIN s = 1..(Len(q) + Len(t)) /\ Len(q) \in Nat /\ Len(t) \in Nat
      /\ \A n \in 1..Len(q) : s[n] = q[n]
      /\ \A n \in 1..Len(t) : s[Len(q) + n] = t[n]
      /\ DOMAIN q = 1..Len(q) /\ DOMAIN t = 1..Len(t)
  BY ConcatAt
<1> HIDE DEF s
<1>2. ASSUME NEW n \in DOMAIN s, n \notin DOMAIN q PROVE ~IsLights(s[n])
  <2>1. n - Len(q) \in 1..Len(t) /\ Len(q) + (n - Len(q)) = n
    BY <1>1, <1>2
  <2> QED
    BY <1>1, <2>1
<1>3. \A n \in DOMAIN q : n \in DOMAIN s /\ s[n] = q[n]
  BY <1>1
<1>4. LightsAt(s) = LightsAt(q)
  BY <1>2, <1>3 DEF LightsAt
<1> QED
  BY <1>4 DEF s

\* Behind a queue without lights the backlog is what is appended.
LEMMA LightsBehind ==
  ASSUME NEW q \in Seq(Command), NEW h \in Seq(Command), LightsAt(q) = {}
  PROVE  Cardinality(LightsAt(q \o h)) <= Len(h)
<1> DEFINE s == q \o h
<1>1. /\ DOMAIN s = 1..(Len(q) + Len(h)) /\ Len(q) \in Nat /\ Len(h) \in Nat
      /\ \A n \in 1..Len(q) : s[n] = q[n]
      /\ DOMAIN q = 1..Len(q)
  BY ConcatAt
<1> HIDE DEF s
<1> DEFINE I == (Len(q) + 1)..(Len(q) + Len(h))
<1>2. LightsAt(s) \subseteq I
  <2>1. ASSUME NEW n \in LightsAt(s) PROVE n \in I
    <3>1. n \in 1..(Len(q) + Len(h)) /\ IsLights(s[n])
      BY <1>1 DEF LightsAt
    <3>2. n \notin 1..Len(q)
      BY <1>1, <3>1 DEF LightsAt
    <3> QED
      BY <1>1, <3>1, <3>2
  <2> QED
    BY <2>1
<1>3. IsFiniteSet(I) /\ Cardinality(I) = Len(h)
  <2> DEFINE a == Len(q) + 1
             b == Len(q) + Len(h)
  <2>1. a \in Int /\ b \in Int /\ (IF a > b THEN 0 ELSE b - a + 1) = Len(h)
    BY <1>1
  <2> HIDE DEF a, b
  <2>2. IsFiniteSet(a..b) /\ Cardinality(a..b) = Len(h)
    BY <2>1, FS_Interval
  <2> QED
    BY <2>2 DEF a, b
<1> HIDE DEF I
<1>4. Cardinality(LightsAt(s)) <= Len(h)
  BY <1>2, <1>3, FS_Subset
<1> QED
  BY <1>4 DEF s

LEMMA PlainLights ==
  ASSUME NEW t \in Seq(Plain)
  PROVE  t \in Seq(Command) /\ \A n \in DOMAIN t : ~IsLights(t[n])
<1>1. \A n \in DOMAIN t : t[n] \in Plain
  OBVIOUS
<1>2. Plain \subseteq Command
  BY DEF Command
<1> QED
  BY <1>1, <1>2, SeqMonotonic, PlainFacts DEF IsLights

\* A pass hands lights on only when no queue holds any, and never more than are
\* staged.
LEMMA BacklogPass ==
  ASSUME Shape, BacklogBounded, Pass, NEW i \in Pad
  PROVE  Cardinality(LightsAt(queue'[i])) <= 4
<1> DEFINE n == Count(AfterTest(AfterUpdate))
           h == IF i \in Open THEN Handed(i, n) ELSE <<>>
           u == AfterUpdate[i]
<1>1. PICK t \in Seq(Plain) :
        /\ queue'[i] = (u \o t) \o h
        /\ AfterTest(AfterUpdate)[i] = u \o t
  BY PassQueue DEF Shape
<1>2. /\ n \in 0..Len(pending)
      /\ n # 0 => ~LightsUnsent(AfterTest(AfterUpdate))
      /\ Len(pending) \in {0, 1, 3, 4}
  BY CountFacts DEF Shape, StagedInv, WholeFrames
<1>3. h \in Seq(LightsCommands) /\ Len(h) \in Nat /\ Len(h) <= n
  <2> HIDE DEF n
  <2>1. /\ Handed(i, n) \in Seq(LightsCommands)
        /\ Len(Handed(i, n)) <= n
    BY <1>2, HandedFacts DEF Shape
  <2> QED
    BY <1>2, <2>1
<1>4. h \in Seq(Command)
  BY <1>3, SeqMonotonic DEF Command
<1>5. /\ queue[i] \in Seq(Command) /\ u \in Seq(Command)
      /\ \/ queue[i] # <<>> /\ u = Tail(queue[i])
         \/ u = queue[i]
  BY UpdateFacts DEF Shape
<1>6. n # 0 => \A k \in DOMAIN (u \o t) : ~IsLights((u \o t)[k])
  BY <1>1, <1>2 DEF LightsUnsent
<1> HIDE DEF n, h, u
<1>7. u \o t \in Seq(Command) /\ LightsAt(u \o t) = LightsAt(u)
  BY <1>5, PlainLights, LightsPlain, Concat
<1>8. CASE n = 0
  <2>1. h = <<>>
    BY <1>3, <1>8
  <2>2. queue'[i] = u \o t
    BY <1>1, <1>7, <2>1
  <2>3. Cardinality(LightsAt(queue[i])) <= 4
    BY DEF BacklogBounded, LightsAt
  <2>4. Cardinality(LightsAt(u)) <= 4
    <3>1. CASE queue[i] # <<>> /\ u = Tail(queue[i])
      <4>1. Cardinality(LightsAt(u)) <= Cardinality(LightsAt(queue[i]))
        BY <1>5, <3>1, LightsTail
      <4>2. /\ Cardinality(LightsAt(u)) \in Nat
            /\ Cardinality(LightsAt(queue[i])) \in Nat
        BY <1>5, LightsAtFinite
      <4> QED
        BY <2>3, <4>1, <4>2
    <3> QED
      BY <1>5, <2>3, <3>1
  <2> QED
    BY <1>7, <2>2, <2>4
<1>9. CASE n # 0
  <2>1. LightsAt(u \o t) = {}
    BY <1>6, <1>9 DEF LightsAt
  <2>2. Cardinality(LightsAt(queue'[i])) <= Len(h)
    BY <1>1, <1>4, <1>7, <2>1, LightsBehind
  <2>3. queue'[i] \in Seq(Command)
    BY <1>1, <1>4, <1>7, Concat
  <2>4. Cardinality(LightsAt(queue'[i])) \in Nat
    BY <2>3, LightsAtFinite
  <2>5. Len(h) <= 4
    <3>1. n \in Nat /\ n <= 4
      <4>1. \A l \in {0, 1, 3, 4} : \A m \in 0..l : m \in Nat /\ m <= 4
        OBVIOUS
      <4> QED
        BY <1>2, <4>1
    <3> QED
      BY <1>3, <3>1
  <2> QED
    BY <1>3, <2>2, <2>4, <2>5
<1> QED
  BY <1>8, <1>9

LEMMA BacklogReleased ==
  ASSUME Shape, NEW i \in Pad
  PROVE  Cardinality(LightsAt(Released(queue[i]))) <= 4
<1> DEFINE q == Released(queue[i])
<1>1. Members(q) = (Members(queue[i]) \ LightsCommands) \cup {<<"auto">>}
  BY ReleasedFacts DEF Shape, TypeOK
<1>2. <<"auto">> \notin LightsCommands
  BY PlainFacts
<1> HIDE DEF q
<1>3. \A n \in DOMAIN q : q[n] \in Members(q)
  BY DEF Members
<1>4. LightsAt(q) = {}
  BY <1>1, <1>2, <1>3 DEF LightsAt, IsLights
<1>5. Cardinality(LightsAt(q)) <= 4
  BY <1>4, FS_EmptySet
<1> QED
  BY <1>5 DEF q

LEMMA NextBacklog ==
  ASSUME Shape, BacklogBounded, [Next]_vars
  PROVE  BacklogBounded'
<1> SUFFICES ASSUME NEW i \in Pad
             PROVE  Cardinality(LightsAt(queue'[i])) <= 4
  BY DEF BacklogBounded, LightsAt
<1>1. Cardinality(LightsAt(queue[i])) <= 4 /\ queue \in [Pad -> Seq(Command)]
  BY DEF BacklogBounded, LightsAt, Shape, TypeOK
<1>2. CASE queue'[i] = queue[i]
  BY <1>1, <1>2
<1>3. ASSUME NEW j \in Pad, ReenableAutoLightsForPad(j)
      PROVE  Cardinality(LightsAt(queue'[i])) <= 4
  <2>1. queue'[i] = queue[i] \/ queue'[i] = Released(queue[i])
    BY <1>1, <1>3 DEF ReenableAutoLightsForPad
  <2> QED
    BY <1>2, <2>1, BacklogReleased
<1>4. ASSUME NEW c, <<c>> \in Plain, NEW takers \in SUBSET Open,
             Enqueue(c, takers)
      PROVE  Cardinality(LightsAt(queue'[i])) <= 4
  <2>1. queue'[i] = queue[i] \/ queue'[i] = Append(queue[i], <<c>>)
    BY <1>4, EnqueueShape
  <2>2. CASE queue'[i] = Append(queue[i], <<c>>)
    <3>1. <<<<c>>>> \in Seq(Plain)
      BY <1>4
    <3>2. Append(queue[i], <<c>>) = queue[i] \o <<<<c>>>>
      BY <1>1
    <3>3. LightsAt(queue'[i]) = LightsAt(queue[i])
      BY <1>1, <2>2, <3>1, <3>2, PlainLights, LightsPlain
    <3> QED
      BY <1>1, <3>3
  <2> QED
    BY <1>2, <2>1, <2>2
<1>5. CASE SetPlatformLights \/ SetSerialNumbers
  BY <1>4, <1>5, EnqueueCalls, PlainFacts DEF Shape
<1>6. CASE Pass
  BY <1>6, BacklogPass
<1>7. ASSUME NEW j \in Pad, ClosePad(j)
      PROVE  Cardinality(LightsAt(queue'[i])) <= 4
  <2>1. queue'[i] = queue[i] \/ queue'[i] = <<>>
    BY <1>1, <1>7 DEF ClosePad
  <2>2. LightsAt(<<>>) = {}
    BY DEF LightsAt
  <2>3. Cardinality(LightsAt(<<>>)) <= 4
    BY <2>2, FS_EmptySet
  <2> QED
    BY <1>2, <2>1, <2>3
<1>8. CASE \/ \E S \in SUBSET Slot : SetLights(S)
           \/ \E m \in TestModes : SetPanelTestMode(m)
           \/ Swap \/ Tick \/ UNCHANGED vars
           \/ \E j \in Pad : OpenPad(j) \/ Ready(j) \/ Execute(j)
  <2>1. UNCHANGED queue
    BY <1>8 DEF SetLights, SetPanelTestMode, Swap, Tick, OpenPad, Ready,
       Execute, vars, links
  <2> QED
    BY <1>2, <2>1
<1> QED
  BY <1>3, <1>5, <1>6, <1>7, <1>8 DEF Next, Api, Outside

\* README, "light frames are bounded to one un-sent frame at a time": no
\* connection ever has more lights commands waiting than a frame's and the half
\* that a legacy frame has left.
THEOREM Bounded == Spec => []BacklogBounded
<1>1. Init => BacklogBounded
  <2>1. Cardinality({}) <= 4
    BY FS_EmptySet
  <2> SUFFICES ASSUME Init, NEW i \in Pad
               PROVE  Cardinality(LightsAt(queue[i])) <= 4
    BY DEF BacklogBounded, LightsAt
  <2>2. LightsAt(queue[i]) = {}
    BY DEF Init, LightsAt
  <2> QED
    BY <2>1, <2>2
<1>2. Shape /\ BacklogBounded /\ [Next]_vars => BacklogBounded'
  BY NextBacklog
<1> QED
  BY <1>1, <1>2, ShapeInvariant, PTL DEF Spec

=============================================================================
