------------------------------- MODULE Device -------------------------------
(***************************************************************************)
(* One device slot (src/device.rs): SmxDevice's configuration cache and    *)
(* sensor test polling, above the command queue of the connection it       *)
(* holds.  Pads come and go in the slot; the SmxDevice stays.              *)
(*                                                                         *)
(* SmxDevice::update runs under the manager's state lock and is one action *)
(* here.  Of the connection only what the device can tell is kept: one     *)
(* command in flight, answers in order, a command whose answer is lost put *)
(* back at the front of the queue.  Module Connection has its threads, and *)
(* answers that come after the timeout.  A configuration is the number of  *)
(* the set_config call that made it.  Of the pads only the one in the slot *)
(* is kept; another one that takes its place has the factory's settings.   *)
(***************************************************************************)
EXTENDS Naturals, Sequences, TLC

CONSTANTS
  Modes,         \* the sensor test modes in use
  Replug,        \* whether the connection may be lost
  Lossy,         \* whether an answer may be lost
  MaxSets,       \* bound: calls of set_config
  MaxQueue,      \* bound: length of the queue when other commands join it
  MaxOverdue     \* bound: sensor requests that are not answered in 2 s

ASSUME DeviceAssumption ==
  /\ {"off", "never"} \cap Modes = {}
  /\ Replug \in BOOLEAN /\ Lossy \in BOOLEAN
  /\ MaxSets \in Nat /\ MaxQueue \in Nat /\ MaxOverdue \in Nat

VARIABLES
  \* SmxDevice
  open,                    \* whether it has a connection
  config, wanted,          \* config, wanted_config
  haveConfig, sendConfig,  \* have_config, send_config
  limited,                 \* delay_config_until is in the future
  mode, waiting,           \* sensor_test_mode, waiting_for_sensor_response
  elapsed,                 \* time since sensor_request_sent_at
  \* its CommandHandle
  info, active, queue, flight,
  \* USB and the pads, external
  answer,                  \* the packet that waits to be processed
  lost,                    \* the command in flight will have no answer
  stored,                  \* the pad's configuration
  overdue,                 \* sensor requests that were overdue so far
  \* history
  sets,                    \* calls of set_config so far
  own,                     \* those that were for the pad now in the slot
  due,                     \* the last one, while nothing has superseded it
  reading                  \* the mode of the reading the last update() brought

cache   == <<config, wanted, haveConfig, sendConfig, limited>>
sensors == <<mode, waiting, elapsed, reading>>
link    == <<info, active, queue, flight, answer, lost>>
history == <<sets, own, due>>
vars    == <<open, cache, sensors, link, stored, overdue, history>>

Factory == 0
Config  == 0..MaxSets

Identify == [op |-> "i"]
Get      == [op |-> "G"]
Put(n)   == [op |-> "W", config |-> n]
Reset    == [op |-> "f"]
Calibrate == [op |-> "C"]
Sense(m) == [op |-> "y", mode |-> m]
Nothing  == [op |-> "none"]

Command ==
  {Identify, Get, Reset, Calibrate} \cup {Put(n) : n \in Config}
    \cup {Sense(m) : m \in Modes}

Answer ==
  {[type |-> "info"], [type |-> "ack"]}
    \cup {[type |-> "config", config |-> n] : n \in Config}
    \cup {[type |-> "sensor", mode |-> m] : m \in Modes}

NoAnswer == [type |-> "none"]

\* Everything the connection has not had an answer to.
Outstanding == {queue[i] : i \in DOMAIN queue} \cup ({flight} \ {Nothing})

\* The sensor requests among them.
Requests ==
  Len(SelectSeq(Append(queue, flight), LAMBDA c : c.op = "y"))

\* How long ago the last sensor request was sent: less than the polling interval
\* (1/30 s), less than the timeout (2 s), or more (or there was none).
Recent   == 0
Paced    == 1
TimedOut == 2

Init ==
  /\ open = FALSE
  /\ config = Factory /\ wanted = Factory
  /\ haveConfig = FALSE /\ sendConfig = FALSE /\ limited = FALSE
  /\ mode = "off" /\ waiting = "off" /\ elapsed = TimedOut
  /\ info = FALSE /\ active = FALSE /\ queue = <<>> /\ flight = Nothing
  /\ answer = NoAnswer /\ lost = FALSE
  /\ stored = Factory
  /\ overdue = 0
  /\ sets = 0 /\ own = {} /\ due = 0 /\ reading = "off"

\* SmxDevice::is_connected
Ready == info /\ haveConfig

-----------------------------------------------------------------------------
(* The API *)

SetConfig ==
  /\ Ready /\ sets < MaxSets
  /\ wanted' = sets + 1
  /\ sendConfig' = TRUE
  /\ sets' = sets + 1 /\ own' = own \cup {sets + 1} /\ due' = sets + 1
  /\ UNCHANGED <<open, config, haveConfig, limited, sensors, link, stored,
                 overdue>>

SetSensorTestMode(m) ==
  /\ mode' = m
  /\ UNCHANGED <<open, cache, waiting, elapsed, reading, link, stored, overdue,
                 history>>

\* (The mutant does not read the configuration back.)
ResetOnly == <<Reset>>
ResetCommands == <<Reset, Get>>

FactoryReset ==
  /\ info /\ Len(queue) <= MaxQueue
  /\ queue' = queue \o ResetCommands
  /\ due' = 0
  /\ UNCHANGED <<open, cache, sensors, info, active, flight, answer, lost,
                 stored, overdue, sets, own>>

ForceRecalibration ==
  /\ open /\ Len(queue) <= MaxQueue
  /\ queue' = Append(queue, Calibrate)
  /\ UNCHANGED <<open, cache, sensors, info, active, flight, answer, lost,
                 stored, overdue, history>>

-----------------------------------------------------------------------------
(* A connection *)

\* open_connection and set_connection, for the same pad or another one.
Connect ==
  /\ ~open
  /\ open' = TRUE
  /\ queue' = <<Identify>>
  /\ \/ UNCHANGED <<stored, own>>
     \/ stored' = Factory /\ own' = {}
  /\ UNCHANGED <<cache, sensors, info, active, flight, answer, lost, overdue,
                 sets, due>>

-----------------------------------------------------------------------------
(* SmxDevice::update *)

\* check_active, once the identity is known.
AfterActive == IF info /\ ~active THEN Append(queue, Get) ELSE queue

\* send_config_if_needed: at most once a second, the configuration and a read to
\* verify it.  (The mutant takes the request for sent when it is too early.)
PutDue == Ready /\ sendConfig /\ ~limited
StillToSendForgets == sendConfig /\ ~Ready
StillToSend == sendConfig /\ ~PutDue

AfterConfig ==
  IF PutDue THEN AfterActive \o <<Put(wanted), Get>> ELSE AfterActive

\* update_sensor_test_mode: the next request is due when the last one has been
\* answered and the interval is over, or it has timed out.  (The mutant waits
\* for the answer for ever.)
RequestDueNoTimeout ==
  info /\ mode # "off" /\ waiting = "off" /\ elapsed # Recent
RequestDue ==
  /\ info /\ mode # "off"
  /\ elapsed \in IF waiting = "off" THEN {Paced, TimedOut} ELSE {TimedOut}

AfterSensors ==
  IF RequestDue THEN <<Sense(mode)>> \o AfterConfig ELSE AfterConfig

\* What both leave behind in the device, whatever becomes of the commands.
ConfigPut == IF PutDue THEN wanted ELSE config
Awaited   == IF RequestDue THEN mode ELSE waiting

Noted ==
  /\ sendConfig' = StillToSend
  /\ limited' = (limited \/ PutDue)
  /\ elapsed' = IF RequestDue THEN Recent ELSE elapsed

\* The queue check_writes takes the next command from: a command that has timed
\* out is at its front again.  (The mutant drops it.)
ToSendDropped(timedOut) == AfterSensors
ToSend(timedOut) ==
  IF timedOut THEN <<flight>> \o AfterSensors ELSE AfterSensors

\* handle_packets, with waiting_for_sensor_response as update_sensor_test_mode
\* has left it.
HandlePacket(awaited) ==
  LET read == /\ answer.type = "sensor" /\ awaited # "off"
              /\ answer.mode = awaited
  IN  /\ waiting' = IF read THEN "off" ELSE awaited
      /\ reading' = IF read /\ awaited = mode THEN mode ELSE "off"

Update(timedOut) ==
  /\ open
  /\ timedOut => lost
  /\ Noted
  /\ LET free == timedOut \/ flight = Nothing \/ answer # NoAnswer
         line == ToSend(timedOut)
     IN  IF free /\ line # <<>>
         THEN flight' = Head(line) /\ queue' = Tail(line)
         ELSE flight' = (IF free THEN Nothing ELSE flight) /\ queue' = line
  /\ active' = info
  /\ info' = (info \/ answer.type = "info")
  /\ config' = IF answer.type = "config" THEN answer.config ELSE ConfigPut
  /\ haveConfig' = (haveConfig \/ answer.type = "config")
  /\ HandlePacket(Awaited)
  /\ answer' = NoAnswer
  /\ lost' = (lost /\ ~timedOut)
  /\ UNCHANGED <<open, wanted, mode, stored, overdue, history>>

\* A USB error: the connection's update() fails before it reads or writes
\* anything, what the device has put in the queue is lost with it, and the manager
\* calls close().  What is still to be sent to the pad, and what the device is
\* waiting for, stay as they are.
Close ==
  /\ Replug /\ open
  /\ Noted
  /\ config' = ConfigPut /\ waiting' = Awaited /\ reading' = "off"
  /\ open' = FALSE
  /\ haveConfig' = FALSE
  /\ info' = FALSE /\ active' = FALSE /\ queue' = <<>> /\ flight' = Nothing
  /\ answer' = NoAnswer /\ lost' = FALSE
  /\ due' = 0
  /\ UNCHANGED <<wanted, mode, stored, overdue, sets, own>>

-----------------------------------------------------------------------------
(* The pads and time *)

Stores ==
  CASE flight.op = "W" -> flight.config
    [] flight.op = "f" -> Factory
    [] OTHER           -> stored

Reply ==
  CASE flight.op = "i" -> [type |-> "info"]
    [] flight.op = "G" -> [type |-> "config", config |-> stored]
    [] flight.op = "y" -> [type |-> "sensor", mode |-> flight.mode]
    [] OTHER           -> [type |-> "ack"]

AtPad == flight # Nothing /\ answer = NoAnswer /\ ~lost

\* The pad executes the command in flight and answers.
Execute ==
  /\ AtPad
  /\ stored' = Stores
  /\ answer' = Reply
  /\ UNCHANGED <<open, cache, sensors, info, active, queue, flight, lost,
                 overdue, history>>

\* The command, or the answer to it, is lost.
Lose ==
  /\ Lossy /\ AtPad
  /\ stored' \in {stored, Stores}
  /\ lost' = TRUE
  /\ UNCHANGED <<open, cache, sensors, info, active, queue, flight, answer,
                 overdue, history>>

\* CONFIG_WRITE_RATE_LIMIT_SECONDS have passed.
LimitOver ==
  /\ limited
  /\ limited' = FALSE
  /\ UNCHANGED <<open, config, wanted, haveConfig, sendConfig, sensors, link,
                 stored, overdue, history>>

\* The polling interval, or the timeout of the last sensor request, has passed.
Tick ==
  /\ elapsed # TimedOut
  /\ elapsed' = elapsed + 1
  /\ IF elapsed' = TimedOut /\ Requests > 0
     THEN overdue < MaxOverdue /\ overdue' = overdue + 1
     ELSE UNCHANGED overdue
  /\ UNCHANGED <<open, cache, mode, waiting, reading, link, stored, history>>

-----------------------------------------------------------------------------

Next ==
  \/ SetConfig
  \/ \E m \in Modes \cup {"off"} : SetSensorTestMode(m)
  \/ FactoryReset
  \/ ForceRecalibration
  \/ Connect
  \/ Close
  \/ \E timedOut \in BOOLEAN : Update(timedOut)
  \/ Execute
  \/ Lose
  \/ LimitOver
  \/ Tick

Spec == Init /\ [][Next]_vars

\* The main thread passes, time goes on, and a pad that is asked again and again
\* answers again and again.
Fairness ==
  /\ \A timedOut \in BOOLEAN : WF_vars(Update(timedOut))
  /\ WF_vars(LimitOver)
  /\ WF_vars(Tick)
  /\ SF_vars(Execute)

FairSpec == Spec /\ Fairness

-----------------------------------------------------------------------------
(* Properties *)

TypeOK ==
  /\ open \in BOOLEAN
  /\ config \in Config /\ wanted \in Config
  /\ haveConfig \in BOOLEAN /\ sendConfig \in BOOLEAN /\ limited \in BOOLEAN
  /\ mode \in Modes \cup {"off"} /\ waiting \in Modes \cup {"off"}
  /\ reading \in Modes \cup {"off"}
  /\ elapsed \in {Recent, Paced, TimedOut}
  /\ info \in BOOLEAN /\ active \in BOOLEAN /\ lost \in BOOLEAN
  /\ queue \in Seq(Command) /\ flight \in Command \cup {Nothing}
  /\ answer \in Answer \cup {NoAnswer}
  /\ stored \in Config
  /\ overdue \in 0..MaxOverdue
  /\ sets \in 0..MaxSets /\ own \subseteq 1..sets /\ due \in 0..sets

\* The configuration get_config returns for a connected pad is the pad's own,
\* or one that is to be sent to it, or the pad is still to be read: through
\* optimistic updates, answers to reads that were made before a write, resets,
\* retries and changes of pad, a wrong one never stays.
CacheCorrected ==
  Ready => config = stored \/ Get \in Outstanding

\* The last configuration set, unless a factory reset or the loss of the
\* connection came after it, is the pad's or is on its way to it: no rate limit,
\* timeout or other command makes set_config's request vanish or lets an older
\* one follow it.
ConfigOnItsWay ==
  due # 0 =>
    \/ sendConfig /\ wanted = due
    \/ Put(due) \in Outstanding
    \/ stored = due

\* The device waits for every sensor request that is outstanding.  It does not
\* if one was sent again for want of an answer: the answer to the first is
\* taken for the answer to the second.
AllAwaited == Requests > 0 => waiting # "off"

\* The pad has the last configuration that was set for it.
UpToDate == due # 0 => stored = due

\* The configuration reaches the pad in the end although sensor requests go to
\* the front of the queue, if from some time on all of them are awaited.
ConfigReachesPad == <>[]AllAwaited => []<>UpToDate

\* device.rs: pacing keeps the sensor test "from monopolizing the pipeline".
\* The configuration reaches the pad in the end also if a sensor request was
\* overdue once.
ConfigNotStarved ==
  \A m \in Modes : <>[](mode = m) => []<>UpToDate

\* In a sensor test mode readings of that mode keep coming, after lost answers,
\* another mode before, and a connection lost with a request outstanding.
SensorKeepsPolling ==
  \A m \in Modes :
    <>[](mode = m /\ open) => []<>(reading = m)

\* manager.rs, set_config: "Sets config for a pad."  A pad takes only
\* configurations that were set for it.
ConfigOnlyForItsPad == stored # Factory => stored \in own

=============================================================================
