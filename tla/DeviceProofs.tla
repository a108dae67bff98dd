---------------------------- MODULE DeviceProofs ----------------------------
(***************************************************************************)
(* What holds of one device slot for every number of configurations,       *)
(* resets, sensor modes, losses and changes of pad: a wrong configuration   *)
(* never stays in the cache, and the last one set is never lost.            *)
(***************************************************************************)
EXTENDS Device, SequenceTheorems, TLAPS

Writes(c) == c.op \in {"W", "f"}

\* No command of q changes the pad's configuration.
Harmless(q) == \A i \in DOMAIN q : ~Writes(q[i])

\* The last command of q that changes the pad's configuration writes n.
Ends(q, n) ==
  \E i \in DOMAIN q :
    q[i] = Put(n) /\ \A j \in DOMAIN q : j > i => ~Writes(q[j])

Reads(q) == \E i \in DOMAIN q : q[i] = Get

\* Every command of q that changes the pad's configuration is followed by a
\* command that reads it.
Verified(q) ==
  \A i \in DOMAIN q : Writes(q[i]) => \E j \in DOMAIN q : j > i /\ q[j] = Get

-----------------------------------------------------------------------------
(* The inductive invariant *)

\* Nothing is known about a pad that is not there.
ClosedClean ==
  ~open =>
    ~info /\ ~haveConfig /\ due = 0 /\ flight = Nothing /\ answer = NoAnswer

\* An answer is the one to the command in flight, and the pad has not changed
\* since it gave it.
AnswerCurrent ==
  /\ answer.type = "config" => answer.config = stored
  /\ answer # NoAnswer =>
       /\ flight = Get => answer.type = "config"
       /\ flight.op = "W" => stored = flight.config

\* Whatever is going to change the pad's configuration is read back.
WritesVerified ==
  /\ Verified(queue)
  /\ Writes(flight) => Reads(queue)

\* A configuration that is not the pad's is about to be read again.
CacheFollows ==
  haveConfig => config = stored \/ Reads(queue) \/ flight = Get

\* The last configuration set is still to be sent, or nothing that would change
\* it comes after it: in the queue, in flight, or at the pad.
LastOneWins ==
  due # 0 =>
    /\ wanted = due
    /\ \/ sendConfig
       \/ Ends(queue, due)
       \/ Harmless(queue) /\ flight = Put(due)
       \/ Harmless(queue) /\ ~Writes(flight) /\ stored = due

DeviceInv ==
  /\ TypeOK
  /\ ClosedClean
  /\ AnswerCurrent
  /\ WritesVerified
  /\ CacheFollows
  /\ LastOneWins

-----------------------------------------------------------------------------
(* Types *)

\* What the commands are.
LEMMA CommandTypes ==
  /\ {Identify, Get, Reset, Calibrate} \subseteq Command
  /\ \A n \in Config : Put(n) \in Command /\ Writes(Put(n)) /\ Put(n) # Get
  /\ \A m \in Modes : Sense(m) \in Command /\ ~Writes(Sense(m))
  /\ ~Writes(Identify) /\ ~Writes(Get) /\ ~Writes(Calibrate) /\ Writes(Reset)
  /\ ~Writes(Nothing) /\ Nothing # Get
BY DEF Command, Identify, Get, Reset, Calibrate, Put, Sense, Writes, Nothing

\* The shapes of the commands that the invariant tells apart.
LEMMA CommandShapes ==
  ASSUME NEW c \in Command \cup {Nothing}
  PROVE  /\ c.op = "W" => \E n \in Config : c = Put(n)
         /\ c.op = "G" <=> c = Get
         /\ c.op = "y" => \E m \in Modes : c = Sense(m)
         /\ c = Nothing => c.op = "none"
BY DEF Command, Identify, Get, Reset, Calibrate, Put, Sense, Nothing

-----------------------------------------------------------------------------
(* Queues *)

\* A command that changes nothing, put at the back.
LEMMA AppendKeeps ==
  ASSUME NEW q \in Seq(Command), NEW c \in Command, ~Writes(c), NEW n \in Config
  PROVE  /\ Append(q, c) \in Seq(Command)
         /\ Verified(q) => Verified(Append(q, c))
         /\ Reads(q) => Reads(Append(q, c))
         /\ Harmless(q) => Harmless(Append(q, c))
         /\ Ends(q, n) => Ends(Append(q, c), n)
BY DEF Verified, Reads, Harmless, Ends

\* A command that changes nothing, put at the front.
LEMMA PushKeeps ==
  ASSUME NEW q \in Seq(Command), NEW c \in Command, ~Writes(c), NEW n \in Config
  PROVE  /\ <<c>> \o q \in Seq(Command)
         /\ Verified(q) => Verified(<<c>> \o q)
         /\ Reads(q) => Reads(<<c>> \o q)
         /\ Harmless(q) => Harmless(<<c>> \o q)
         /\ Ends(q, n) => Ends(<<c>> \o q, n)
<1> DEFINE p == <<c>> \o q
<1>1. /\ p \in Seq(Command) /\ Len(p) = Len(q) + 1
      /\ p[1] = c
      /\ \A i \in DOMAIN q : i + 1 \in DOMAIN p /\ p[i + 1] = q[i]
      /\ \A i \in DOMAIN p : i > 1 => i - 1 \in DOMAIN q /\ p[i] = q[i - 1]
  OBVIOUS
<1>2. DOMAIN q = 1..Len(q) /\ DOMAIN p = 1..Len(p)
  BY <1>1
<1> HIDE DEF p
<1>3. Verified(q) => Verified(p)
  BY <1>1, <1>2 DEF Verified
<1>4. Reads(q) => Reads(p)
  BY <1>1 DEF Reads
<1>5. Harmless(q) => Harmless(p)
  BY <1>1, <1>2 DEF Harmless
<1>6. Ends(q, n) => Ends(p, n)
  BY <1>1, <1>2 DEF Ends
<1> QED
  BY <1>1, <1>3, <1>4, <1>5, <1>6 DEF p

\* A command that changes the configuration, and the one that reads it back.
LEMMA WriteAndRead ==
  ASSUME NEW q \in Seq(Command), NEW c \in Command
  PROVE  /\ q \o <<c, Get>> \in Seq(Command)
         /\ Verified(q) => Verified(q \o <<c, Get>>)
         /\ Reads(q \o <<c, Get>>)
         /\ \A n \in Config : c = Put(n) => Ends(q \o <<c, Get>>, n)
<1> DEFINE p == q \o <<c, Get>>
<1>1. Get \in Command /\ ~Writes(Get)
  BY CommandTypes
<1>2. /\ p \in Seq(Command) /\ Len(p) = Len(q) + 2
      /\ \A i \in DOMAIN q : i \in DOMAIN p /\ p[i] = q[i]
      /\ p[Len(q) + 1] = c /\ p[Len(q) + 2] = Get
  BY <1>1
<1>3. DOMAIN q = 1..Len(q) /\ DOMAIN p = 1..Len(p) /\ Len(q) \in Nat
  BY <1>2
<1> HIDE DEF p
<1>4. Verified(q) => Verified(p)
  BY <1>1, <1>2, <1>3 DEF Verified
<1>5. Reads(p)
  BY <1>2, <1>3 DEF Reads
<1>6. ASSUME NEW n \in Config, c = Put(n)
      PROVE  Ends(p, n)
  <2>1. Len(q) + 1 \in DOMAIN p /\ p[Len(q) + 1] = Put(n)
    BY <1>2, <1>3, <1>6
  <2>2. \A j \in DOMAIN p : j > Len(q) + 1 => ~Writes(p[j])
    BY <1>1, <1>2, <1>3
  <2> QED
    BY <2>1, <2>2 DEF Ends
<1> QED
  BY <1>2, <1>4, <1>5, <1>6 DEF p

\* The next command taken from the queue.
LEMMA TakeNext ==
  ASSUME NEW q \in Seq(Command), q # <<>>, NEW n \in Config
  PROVE  /\ Head(q) \in Command /\ Tail(q) \in Seq(Command)
         /\ Verified(q) =>
              Verified(Tail(q)) /\ (Writes(Head(q)) => Reads(Tail(q)))
         /\ Reads(q) => Head(q) = Get \/ Reads(Tail(q))
         /\ Harmless(q) => ~Writes(Head(q)) /\ Harmless(Tail(q))
         /\ Ends(q, n) =>
              Ends(Tail(q), n) \/ (Head(q) = Put(n) /\ Harmless(Tail(q)))
<1> DEFINE h == Head(q)
           t == Tail(q)
<1>1. /\ h \in Command /\ t \in Seq(Command) /\ Len(q) = Len(t) + 1
      /\ h = q[1]
      /\ \A i \in DOMAIN t : i + 1 \in DOMAIN q /\ t[i] = q[i + 1]
      /\ \A i \in DOMAIN q : i > 1 => i - 1 \in DOMAIN t /\ q[i] = t[i - 1]
  OBVIOUS
<1>2. DOMAIN q = 1..Len(q) /\ DOMAIN t = 1..Len(t) /\ Len(t) \in Nat
  BY <1>1
<1> HIDE DEF h, t
<1>3. ASSUME Verified(q)
      PROVE  Verified(t) /\ (Writes(h) => Reads(t))
  <2>1. ASSUME NEW i \in DOMAIN t, Writes(t[i])
        PROVE  \E j \in DOMAIN t : j > i /\ t[j] = Get
    <3>1. PICK j \in DOMAIN q : j > i + 1 /\ q[j] = Get
      BY <1>1, <1>3, <2>1 DEF Verified
    <3> QED
      BY <1>1, <1>2, <3>1
  <2>2. ASSUME Writes(h)
        PROVE  Reads(t)
    <3>1. PICK j \in DOMAIN q : j > 1 /\ q[j] = Get
      BY <1>1, <1>2, <1>3, <2>2 DEF Verified
    <3> QED
      BY <1>1, <1>2, <3>1 DEF Reads
  <2> QED
    BY <2>1, <2>2 DEF Verified
<1>4. Reads(q) => h = Get \/ Reads(t)
  BY <1>1, <1>2 DEF Reads
<1>5. Harmless(q) => ~Writes(h) /\ Harmless(t)
  BY <1>1, <1>2 DEF Harmless
<1>6. ASSUME Ends(q, n)
      PROVE  Ends(t, n) \/ (h = Put(n) /\ Harmless(t))
  <2>1. PICK i \in DOMAIN q :
          q[i] = Put(n) /\ \A j \in DOMAIN q : j > i => ~Writes(q[j])
    BY <1>6 DEF Ends
  <2>2. CASE i = 1
    BY <1>1, <1>2, <2>1, <2>2 DEF Harmless
  <2>3. CASE i > 1
    BY <1>1, <1>2, <2>1, <2>3 DEF Ends
  <2> QED
    BY <1>2, <2>2, <2>3
<1> QED
  BY <1>1, <1>3, <1>4, <1>5, <1>6 DEF h, t

-----------------------------------------------------------------------------
(* Initial states, and the steps outside SmxDevice::update *)

LEMMA Initial == Init => DeviceInv
<1> SUFFICES ASSUME Init PROVE DeviceInv
  OBVIOUS
<1> USE DeviceAssumption DEF Init
<1>1. TypeOK
  <2>1. queue \in Seq(Command)
    OBVIOUS
  <2>2. Factory \in Config /\ overdue \in 0..MaxOverdue /\ sets \in 0..MaxSets
    BY DeviceAssumption DEF Factory, Config
  <2>3. own \subseteq 1..sets /\ due \in 0..sets
    OBVIOUS
  <2> QED
    BY <2>1, <2>2, <2>3, Zenon DEF TypeOK
<1>2. ClosedClean /\ AnswerCurrent /\ CacheFollows /\ LastOneWins
  BY DEF ClosedClean, AnswerCurrent, CacheFollows, LastOneWins, NoAnswer
<1>3. WritesVerified
  BY DEF WritesVerified, Verified, Writes, Nothing
<1> QED
  BY <1>1, <1>2, <1>3 DEF DeviceInv

\* The calls of the application, and the pads that come and go.
LEMMA StepSetConfig == DeviceInv /\ SetConfig => DeviceInv'
<1> SUFFICES ASSUME DeviceInv, SetConfig PROVE DeviceInv'
  OBVIOUS
<1> USE DEF DeviceInv, SetConfig, link, sensors
<1>1. TypeOK'
  BY DeviceAssumption DEF TypeOK, Config
<1>2. ClosedClean' /\ AnswerCurrent' /\ CacheFollows' /\ LastOneWins'
  BY DEF ClosedClean, AnswerCurrent, CacheFollows, LastOneWins, Ready, Reads
<1>3. WritesVerified'
  BY DEF WritesVerified, Verified, Reads
<1> QED
  BY <1>1, <1>2, <1>3

LEMMA StepFactoryReset == DeviceInv /\ FactoryReset => DeviceInv'
<1> SUFFICES ASSUME DeviceInv, FactoryReset PROVE DeviceInv'
  OBVIOUS
<1> USE DEF DeviceInv, FactoryReset, cache, sensors
<1>1. /\ queue' \in Seq(Command) /\ Reads(queue)'
      /\ Verified(queue) => Verified(queue)'
  <2>1. queue \in Seq(Command) /\ Reset \in Command
    BY CommandTypes DEF TypeOK
  <2> QED
    BY <2>1, WriteAndRead DEF ResetCommands, Reads, Verified
<1>2. TypeOK'
  BY <1>1 DEF TypeOK
<1>3. ClosedClean' /\ AnswerCurrent' /\ CacheFollows' /\ LastOneWins'
  BY <1>1 DEF ClosedClean, AnswerCurrent, CacheFollows, LastOneWins
<1>4. WritesVerified'
  BY <1>1 DEF WritesVerified
<1> QED
  BY <1>2, <1>3, <1>4

LEMMA StepForceRecalibration ==
  DeviceInv /\ ForceRecalibration => DeviceInv'
<1> SUFFICES ASSUME DeviceInv, ForceRecalibration PROVE DeviceInv'
  OBVIOUS
<1> USE DEF DeviceInv, ForceRecalibration, cache, sensors, history
<1>1. /\ queue' \in Seq(Command)
      /\ Verified(queue) => Verified(queue)'
      /\ Reads(queue) => Reads(queue)'
      /\ Harmless(queue) => Harmless(queue)'
      /\ Ends(queue, due) => Ends(queue, due)'
  <2>1. queue \in Seq(Command) /\ due \in Config
    BY DeviceAssumption DEF TypeOK, Config
  <2>2. Calibrate \in Command /\ ~Writes(Calibrate)
    BY CommandTypes
  <2>3. queue' = Append(queue, Calibrate) /\ due' = due
    OBVIOUS
  <2> HIDE DEF ForceRecalibration
  <2> QED
    BY <2>1, <2>2, <2>3, AppendKeeps
<1>2. TypeOK'
  BY <1>1 DEF TypeOK
<1>3. ClosedClean' /\ AnswerCurrent' /\ CacheFollows' /\ LastOneWins'
  BY <1>1 DEF ClosedClean, AnswerCurrent, CacheFollows, LastOneWins
<1>4. WritesVerified'
  BY <1>1 DEF WritesVerified
<1> QED
  BY <1>2, <1>3, <1>4

LEMMA StepConnect == DeviceInv /\ Connect => DeviceInv'
<1> SUFFICES ASSUME DeviceInv, Connect PROVE DeviceInv'
  OBVIOUS
<1> USE DEF DeviceInv, Connect, cache, sensors
<1>1. /\ due = 0 /\ ~haveConfig /\ answer = NoAnswer /\ Factory \in Config
  BY DeviceAssumption DEF ClosedClean, Factory, Config
<1>2. queue' \in Seq(Command) /\ Verified(queue)' /\ Harmless(queue)'
  BY CommandTypes DEF Verified, Harmless
<1>3. TypeOK'
  <2>1. queue' \in Seq(Command) /\ stored' \in Config /\ own' \subseteq 1..sets
    BY <1>1, <1>2 DEF TypeOK
  <2> QED
    BY <2>1 DEF TypeOK
<1>4. ClosedClean' /\ AnswerCurrent' /\ CacheFollows' /\ LastOneWins'
  BY <1>1 DEF ClosedClean, AnswerCurrent, CacheFollows, LastOneWins, NoAnswer
<1>5. WritesVerified'
  BY <1>2, CommandTypes DEF WritesVerified, ClosedClean
<1> QED
  BY <1>3, <1>4, <1>5

\* What the passes of the device leave behind in any case.
NotedTypes ==
  /\ sendConfig \in BOOLEAN /\ limited \in BOOLEAN
  /\ elapsed \in {Recent, Paced, TimedOut}

LEMMA NotedKeepsTypes == TypeOK /\ Noted => NotedTypes'
<1> SUFFICES ASSUME TypeOK, Noted PROVE NotedTypes'
  OBVIOUS
<1>1. sendConfig' \in BOOLEAN /\ limited' \in BOOLEAN
  BY Zenon DEF Noted, TypeOK, StillToSend, PutDue, Ready
<1>2. elapsed' \in {Recent, Paced, TimedOut}
  BY DEF Noted, TypeOK
<1> QED
  BY <1>1, <1>2 DEF NotedTypes

LEMMA StepClose == DeviceInv /\ Close => DeviceInv'
<1> SUFFICES ASSUME DeviceInv, Close PROVE DeviceInv'
  OBVIOUS
<1> USE DEF DeviceInv, Close, sensors
<1>1. queue' \in Seq(Command) /\ due' \in 0..sets'
  BY DeviceAssumption DEF TypeOK
<1>2. /\ config' \in Config
      /\ waiting' \in Modes \cup {"off"} /\ reading' \in Modes \cup {"off"}
  BY DEF TypeOK, ConfigPut, Awaited
<1>3. NotedTypes'
  BY NotedKeepsTypes
<1>4. TypeOK'
  BY <1>1, <1>2, <1>3 DEF TypeOK, NotedTypes
<1>5. ClosedClean' /\ AnswerCurrent' /\ CacheFollows' /\ LastOneWins'
  BY DEF ClosedClean, AnswerCurrent, CacheFollows, LastOneWins, NoAnswer
<1>6. WritesVerified'
  BY CommandTypes DEF WritesVerified, Verified
<1> QED
  BY <1>4, <1>5, <1>6

\* The pad, and time.

\* What the pad's configuration is after the command in flight.
LEMMA StoresWhat ==
  ASSUME TypeOK
  PROVE  /\ Stores \in Config
         /\ ~Writes(flight) => Stores = stored
         /\ \A n \in Config : flight = Put(n) => Stores = n
         /\ flight.op = "W" => Stores = flight.config
<1>1. Factory \in Config /\ stored \in Config
  BY DeviceAssumption DEF TypeOK, Factory, Config
<1>2. flight \in Command \cup {Nothing}
  BY DEF TypeOK
<1>3. flight.op = "W" => flight.config \in Config
  BY <1>2, CommandShapes DEF Put
<1> QED
  BY <1>1, <1>3 DEF Stores, Writes, Put

LEMMA ReplyWhat ==
  ASSUME TypeOK, flight # Nothing
  PROVE  /\ Reply \in Answer
         /\ Reply.type = "config" <=> flight = Get
         /\ Reply.type = "config" => Reply.config = stored
<1>1. flight \in Command /\ stored \in Config
  BY DEF TypeOK
<1>2. flight.op = "y" => flight.mode \in Modes
  BY <1>1, CommandShapes DEF Sense
<1>3. flight.op = "G" <=> flight = Get
  BY <1>1, CommandShapes
<1> QED
  BY <1>1, <1>2, <1>3 DEF Reply, Answer

LEMMA StepExecute == DeviceInv /\ Execute => DeviceInv'
<1> SUFFICES ASSUME DeviceInv, Execute PROVE DeviceInv'
  OBVIOUS
<1> USE DEF DeviceInv, Execute, AtPad, cache, sensors, history
<1>1. TypeOK' /\ due \in Config
  BY StoresWhat, ReplyWhat, DeviceAssumption DEF TypeOK, Config
<1>2. ClosedClean'
  BY DEF ClosedClean
<1>3. AnswerCurrent'
  <2>1. answer'.type = "config" => answer'.config = stored'
    BY ReplyWhat, StoresWhat, CommandTypes
  <2> QED
    BY <2>1, ReplyWhat, StoresWhat DEF AnswerCurrent
<1>4. WritesVerified' /\ CacheFollows'
  BY StoresWhat DEF WritesVerified, CacheFollows
<1>5. LastOneWins'
  BY <1>1, StoresWhat DEF LastOneWins
<1> QED
  BY <1>1, <1>2, <1>3, <1>4, <1>5

LEMMA StepLose == DeviceInv /\ Lose => DeviceInv'
<1> SUFFICES ASSUME DeviceInv, Lose PROVE DeviceInv'
  OBVIOUS
<1> USE DEF DeviceInv, Lose, AtPad, cache, sensors, history
<1>1. TypeOK'
  BY StoresWhat DEF TypeOK
<1>2. ClosedClean' /\ AnswerCurrent'
  BY DEF ClosedClean, AnswerCurrent, NoAnswer
<1>3. WritesVerified' /\ CacheFollows' /\ LastOneWins'
  BY StoresWhat DEF WritesVerified, CacheFollows, LastOneWins
<1> QED
  BY <1>1, <1>2, <1>3

LEMMA StepOther ==
  DeviceInv /\ (\/ \E m \in Modes \cup {"off"} : SetSensorTestMode(m)
                \/ LimitOver \/ Tick \/ UNCHANGED vars)
    => DeviceInv'
<1> SUFFICES ASSUME DeviceInv,
                    \/ \E m \in Modes \cup {"off"} : SetSensorTestMode(m)
                    \/ LimitOver \/ Tick \/ UNCHANGED vars
             PROVE  DeviceInv'
  OBVIOUS
<1> USE DEF DeviceInv
<1>1. UNCHANGED <<open, config, wanted, haveConfig, sendConfig, link, stored,
                  history>>
  BY DEF SetSensorTestMode, LimitOver, Tick, vars, cache, sensors
<1>2. TypeOK'
  <2>1. CASE \E m \in Modes \cup {"off"} : SetSensorTestMode(m)
    BY <2>1 DEF SetSensorTestMode, TypeOK, cache, link, history
  <2>2. CASE LimitOver
    <3>1. limited' \in BOOLEAN /\ UNCHANGED <<sensors, overdue>>
      BY <2>2 DEF LimitOver
    <3> QED
      BY <1>1, <3>1 DEF TypeOK, sensors, link, history
  <2>3. CASE Tick
    <3>1. /\ elapsed' \in {Recent, Paced, TimedOut}
          /\ overdue' \in 0..MaxOverdue
      BY <2>3, DeviceAssumption DEF Tick, TypeOK, Recent, Paced, TimedOut
    <3> QED
      BY <2>3, <3>1 DEF Tick, TypeOK, cache, link, history
  <2>4. CASE UNCHANGED vars
    BY <2>4 DEF vars, TypeOK, cache, sensors, link, history
  <2> QED
    BY <2>1, <2>2, <2>3, <2>4
<1>3. /\ ClosedClean' /\ AnswerCurrent' /\ WritesVerified' /\ CacheFollows'
      /\ LastOneWins'
  BY <1>1 DEF link, history, ClosedClean, AnswerCurrent, WritesVerified,
              CacheFollows, LastOneWins
<1> QED
  BY <1>2, <1>3

-----------------------------------------------------------------------------
(* SmxDevice::update *)

\* What a pass puts into the queue.
LEMMA PassQueue ==
  ASSUME DeviceInv
  PROVE  /\ AfterSensors \in Seq(Command)
         /\ Verified(AfterSensors)
         /\ Reads(queue) \/ PutDue => Reads(AfterSensors)
         /\ PutDue => Ends(AfterSensors, wanted)
         /\ ~PutDue /\ Harmless(queue) => Harmless(AfterSensors)
         /\ ~PutDue /\ Ends(queue, due) => Ends(AfterSensors, due)
<1>1. /\ queue \in Seq(Command) /\ wanted \in Config /\ due \in Config
      /\ mode \in Modes \cup {"off"} /\ Verified(queue)
  BY DeviceAssumption DEF DeviceInv, TypeOK, WritesVerified, Config
<1> DEFINE q1 == AfterActive
           q2 == AfterConfig
<1>2. /\ q1 \in Seq(Command) /\ Verified(q1)
      /\ Reads(queue) => Reads(q1)
      /\ Harmless(queue) => Harmless(q1)
      /\ Ends(queue, due) => Ends(q1, due)
  BY <1>1, CommandTypes, AppendKeeps DEF AfterActive
<1>3. /\ q2 \in Seq(Command) /\ Verified(q2)
      /\ Reads(queue) \/ PutDue => Reads(q2)
      /\ PutDue => Ends(q2, wanted)
      /\ ~PutDue => q2 = q1
  <2>1. Put(wanted) \in Command
    BY <1>1, CommandTypes
  <2>2. CASE PutDue
    <3> HIDE DEF q1
    <3>1. q2 = q1 \o <<Put(wanted), Get>>
      BY <2>2 DEF AfterConfig, q1
    <3> QED
      BY <1>1, <1>2, <2>1, <2>2, <3>1, WriteAndRead
  <2>3. CASE ~PutDue
    BY <1>2, <2>3 DEF AfterConfig
  <2> QED
    BY <2>2, <2>3
<1> HIDE DEF q1, q2
<1>4. CASE RequestDue
  <2>1. Sense(mode) \in Command /\ ~Writes(Sense(mode))
    BY <1>1, <1>4, CommandTypes DEF RequestDue
  <2>2. AfterSensors = <<Sense(mode)>> \o q2
    BY <1>4 DEF AfterSensors, q2
  <2>3. /\ AfterSensors \in Seq(Command) /\ Verified(AfterSensors)
        /\ Reads(q2) => Reads(AfterSensors)
        /\ Harmless(q2) => Harmless(AfterSensors)
        /\ \A n \in Config : Ends(q2, n) => Ends(AfterSensors, n)
    BY <1>1, <1>3, <2>1, <2>2, PushKeeps
  <2> QED
    BY <1>1, <1>2, <1>3, <2>3
<1>5. CASE ~RequestDue
  <2>1. AfterSensors = q2
    BY <1>5 DEF AfterSensors, q2
  <2> QED
    BY <1>1, <1>2, <1>3, <2>1
<1> QED
  BY <1>4, <1>5

\* The connection's pass: the command in flight stays, to be sent again if it
\* has timed out, or it is done and the next one is taken.
LEMMA PassTakes ==
  ASSUME DeviceInv, NEW timedOut \in BOOLEAN, Update(timedOut)
  PROVE  \/ flight' = flight /\ queue' = AfterSensors
         \/ /\ flight = Nothing \/ answer # NoAnswer
            /\ \/ /\ AfterSensors # <<>>
                  /\ flight' = Head(AfterSensors)
                  /\ queue' = Tail(AfterSensors)
               \/ AfterSensors = <<>> /\ flight' = Nothing /\ queue' = <<>>
<1>1. AfterSensors \in Seq(Command) /\ flight \in Command \cup {Nothing}
  BY PassQueue DEF DeviceInv, TypeOK
<1>2. CASE timedOut
  <2> DEFINE line == <<flight>> \o AfterSensors
  <2>1. line # <<>> /\ Head(line) = flight /\ Tail(line) = AfterSensors
    BY <1>1
  <2> QED
    BY <1>2, <2>1 DEF Update, ToSend
<1>3. CASE ~timedOut
  BY <1>3 DEF Update, ToSend
<1> QED
  BY <1>2, <1>3

LEMMA UpdateTypes ==
  ASSUME DeviceInv, NEW timedOut \in BOOLEAN, Update(timedOut)
  PROVE  TypeOK'
<1>1. TypeOK
  BY DEF DeviceInv
<1>2. queue' \in Seq(Command) /\ flight' \in Command \cup {Nothing}
  <2>1. /\ AfterSensors \in Seq(Command)
        /\ AfterSensors # <<>> =>
             /\ Head(AfterSensors) \in Command
             /\ Tail(AfterSensors) \in Seq(Command)
    BY PassQueue, HeadTailProperties
  <2>2. \/ flight' = flight /\ queue' = AfterSensors
        \/ /\ AfterSensors # <<>>
           /\ flight' = Head(AfterSensors) /\ queue' = Tail(AfterSensors)
        \/ flight' = Nothing /\ queue' = <<>>
    BY PassTakes
  <2>3. flight \in Command \cup {Nothing} /\ <<>> \in Seq(Command)
    BY <1>1 DEF TypeOK
  <2> QED
    BY <2>1, <2>2, <2>3, Zenon
<1>3. config' \in Config
  <2>1. answer.type = "config" => answer.config \in Config
    BY <1>1 DEF TypeOK, Answer, NoAnswer
  <2> QED
    BY <1>1, <2>1 DEF Update, ConfigPut, TypeOK
<1>4. /\ waiting' \in Modes \cup {"off"} /\ reading' \in Modes \cup {"off"}
  BY <1>1 DEF Update, HandlePacket, Awaited, TypeOK
<1>5. NotedTypes'
  BY <1>1, NotedKeepsTypes DEF Update
<1>6. answer' \in Answer \cup {NoAnswer}
  BY <1>1 DEF Update, TypeOK
<1>7. /\ active' \in BOOLEAN /\ info' \in BOOLEAN
      /\ haveConfig' \in BOOLEAN /\ lost' \in BOOLEAN
  BY <1>1, Zenon DEF Update, TypeOK
<1>8. UNCHANGED <<open, wanted, mode, stored, overdue, history>>
  BY DEF Update
<1> QED
  BY <1>1, <1>2, <1>3, <1>4, <1>5, <1>6, <1>7, <1>8 DEF TypeOK, NotedTypes, history

LEMMA StepUpdate ==
  ASSUME DeviceInv, NEW timedOut \in BOOLEAN, Update(timedOut)
  PROVE  DeviceInv'
<1> DEFINE q == AfterSensors
<1>1. /\ flight \in Command \cup {Nothing} /\ stored \in Config
      /\ due \in Config
  BY DeviceAssumption DEF DeviceInv, TypeOK, Config
<1>2. /\ open' /\ answer' = NoAnswer /\ UNCHANGED <<stored, wanted, due>>
  BY DEF Update, history
<1>3. /\ q \in Seq(Command) /\ Verified(q)
      /\ Reads(queue) \/ PutDue => Reads(q)
      /\ PutDue => Ends(q, wanted)
      /\ ~PutDue /\ Harmless(queue) => Harmless(q)
      /\ ~PutDue /\ Ends(queue, due) => Ends(q, due)
  BY PassQueue
<1>4. q # <<>> =>
        /\ Writes(Head(q)) => Reads(Tail(q))
        /\ Verified(Tail(q))
        /\ Reads(q) => Head(q) = Get \/ Reads(Tail(q))
        /\ Harmless(q) => ~Writes(Head(q)) /\ Harmless(Tail(q))
        /\ Ends(q, due) =>
             Ends(Tail(q), due) \/ (Head(q) = Put(due) /\ Harmless(Tail(q)))
  BY <1>1, <1>3, TakeNext
<1>5. \/ flight' = flight /\ queue' = q
      \/ /\ flight = Nothing \/ answer # NoAnswer
         /\ \/ q # <<>> /\ flight' = Head(q) /\ queue' = Tail(q)
            \/ q = <<>> /\ flight' = Nothing /\ queue' = <<>>
  BY PassTakes
<1>6. Verified(<<>>) /\ Harmless(<<>>) /\ ~Reads(<<>>) /\ ~Ends(<<>>, due)
  BY DEF Verified, Harmless, Reads, Ends
<1> HIDE DEF q
<1>7. TypeOK'
  BY UpdateTypes
<1>8. ClosedClean' /\ AnswerCurrent'
  BY <1>2 DEF ClosedClean, AnswerCurrent, NoAnswer
<1>9. WritesVerified'
  <2>1. Verified(queue')
    BY <1>3, <1>4, <1>5, <1>6
  <2>2. Writes(flight') => Reads(queue')
    BY <1>3, <1>4, <1>5, CommandTypes DEF DeviceInv, WritesVerified
  <2> QED
    BY <2>1, <2>2 DEF WritesVerified
<1>10. CacheFollows'
  <2>1. CASE answer.type = "config"
    BY <1>2, <2>1 DEF Update, DeviceInv, AnswerCurrent, CacheFollows
  <2>2. CASE answer.type # "config"
    <3>1. CASE Reads(q)
      BY <1>4, <1>5, <1>6, <3>1 DEF CacheFollows
    <3>2. CASE ~Reads(q) /\ flight = Get
      BY <1>1, <1>5, <2>2, <3>2, CommandTypes
         DEF DeviceInv, AnswerCurrent, CacheFollows
    <3>3. CASE ~Reads(q) /\ flight # Get
      BY <1>2, <1>3, <2>2, <3>3 DEF Update, ConfigPut, DeviceInv, CacheFollows
    <3> QED
      BY <3>1, <3>2, <3>3
  <2> QED
    BY <2>1, <2>2
<1>11. LastOneWins'
  <2> SUFFICES ASSUME due # 0 PROVE LastOneWins'
    BY <1>2 DEF LastOneWins
  <2>1. wanted = due
    BY DEF DeviceInv, LastOneWins
  <2>2. CASE Ends(q, due)
    BY <1>2, <1>4, <1>5, <1>6, <2>1, <2>2 DEF LastOneWins
  <2>3. CASE ~PutDue /\ sendConfig
    BY <1>2, <2>1, <2>3 DEF Update, Noted, StillToSend, LastOneWins
  <2>4. CASE Harmless(q) /\ flight = Put(due)
    <3>1. flight.op = "W" /\ flight.config = due /\ flight # Nothing
      BY <2>4 DEF Put, Nothing
    <3>2. answer # NoAnswer => stored = due
      BY <3>1 DEF DeviceInv, AnswerCurrent
    <3> QED
      BY <1>2, <1>4, <1>5, <1>6, <2>1, <2>4, <3>1, <3>2, CommandTypes
         DEF LastOneWins
  <2>5. CASE Harmless(q) /\ ~Writes(flight) /\ stored = due
    BY <1>2, <1>4, <1>5, <1>6, <2>1, <2>5, CommandTypes DEF LastOneWins
  <2> QED
    BY <1>3, <2>1, <2>2, <2>3, <2>4, <2>5 DEF DeviceInv, LastOneWins
<1> QED
  BY <1>7, <1>8, <1>9, <1>10, <1>11 DEF DeviceInv

-----------------------------------------------------------------------------
(* Theorems *)

\* Types, what is known of a pad that is gone, and the line of commands that
\* change the pad's configuration or read it: the invariant of SmxDevice's
\* configuration cache.
THEOREM DeviceInvariant == Spec => []DeviceInv
<1>1. Init => DeviceInv
  BY Initial
<1>2. DeviceInv /\ [Next]_vars => DeviceInv'
  <2> SUFFICES ASSUME DeviceInv, [Next]_vars PROVE DeviceInv'
    OBVIOUS
  <2>1. CASE SetConfig
    BY <2>1, StepSetConfig
  <2>2. CASE FactoryReset
    BY <2>2, StepFactoryReset
  <2>3. CASE ForceRecalibration
    BY <2>3, StepForceRecalibration
  <2>4. CASE Connect
    BY <2>4, StepConnect
  <2>5. CASE Close
    BY <2>5, StepClose
  <2>6. CASE \E timedOut \in BOOLEAN : Update(timedOut)
    BY <2>6, StepUpdate
  <2>7. CASE Execute
    BY <2>7, StepExecute
  <2>8. CASE Lose
    BY <2>8, StepLose
  <2>9. CASE \/ \E m \in Modes \cup {"off"} : SetSensorTestMode(m)
             \/ LimitOver \/ Tick \/ UNCHANGED vars
    BY <2>9, StepOther
  <2> QED
    BY <2>1, <2>2, <2>3, <2>4, <2>5, <2>6, <2>7, <2>8, <2>9 DEF Next
<1> QED
  BY <1>1, <1>2, PTL DEF Spec

\* Types of one device slot.
THEOREM TypeCorrect == Spec => []TypeOK
BY DeviceInvariant, PTL DEF DeviceInv

\* A configuration that get_config returns and that is not the pad's is read
\* again: optimistic updates, resets, lost answers, retries and changes of pad
\* leave none behind.
THEOREM CacheIsCorrected == Spec => []CacheCorrected
<1>1. DeviceInv => CacheCorrected
  <2> SUFFICES ASSUME DeviceInv, Ready, config # stored
               PROVE  Get \in Outstanding
    BY DEF CacheCorrected
  <2>1. Reads(queue) \/ flight = Get
    BY DEF DeviceInv, CacheFollows, Ready
  <2> QED
    BY <2>1, CommandTypes DEF Reads, Outstanding
<1> QED
  BY <1>1, DeviceInvariant, PTL

\* The last configuration set is the pad's or on its way to it, in whatever
\* order sets, the rate limit, sensor requests, retries and losses come.
THEOREM ConfigNotLost == Spec => []ConfigOnItsWay
<1>1. DeviceInv => ConfigOnItsWay
  <2> SUFFICES ASSUME DeviceInv, due # 0
               PROVE  \/ sendConfig /\ wanted = due
                      \/ Put(due) \in Outstanding
                      \/ stored = due
    BY DEF ConfigOnItsWay
  <2>1. /\ wanted = due
        /\ sendConfig \/ Ends(queue, due) \/ flight = Put(due) \/ stored = due
    BY DEF DeviceInv, LastOneWins
  <2>2. Put(due) # Nothing
    BY DEF Put, Nothing
  <2> QED
    BY <2>1, <2>2 DEF Ends, Outstanding
<1> QED
  BY <1>1, DeviceInvariant, PTL

=============================================================================
