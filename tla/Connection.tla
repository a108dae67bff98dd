----------------------------- MODULE Connection -----------------------------
(***************************************************************************)
(* One pad connection (src/connection.rs): the CommandHandle the manager's *)
(* main thread drives through SmxDevice::update, the writer thread that    *)
(* puts command packets on the wire, the USB poll thread that reads the    *)
(* answers, and the pad itself, an external actor that answers each        *)
(* command it receives whole, late or never.                               *)
(*                                                                         *)
(* One action is one access to state the threads share, so the main        *)
(* thread's update() is the chain of steps                                 *)
(*                                                                         *)
(*   idle -> reads -> packets ... packets -> writes -> [handoff] -> drain  *)
(*                                                                         *)
(* with the other threads running in between.  Code that runs under the    *)
(* manager's state lock (the operations of the public API) takes place     *)
(* while main is idle.                                                     *)
(*                                                                         *)
(* Commands are tickets 1, 2, 3, ... in the order they are queued, and     *)
(* kind[c] says how c was queued.  Payloads are the ticket they answer.    *)
(* Fragmentation of a command into packets matters only in that a command  *)
(* is on the wire when its last packet is: Packets[k] is the number of     *)
(* packets of a command of kind k.  A whole answer is one packet here,     *)
(* which carries HOST_CMD_FINISHED.                                        *)
(***************************************************************************)
EXTENDS Queue, FiniteSets, TLC

CONSTANTS
  Packets,      \* packets of a command of each kind
  MaxCommands,  \* bound: commands queued through the API
  MaxLate,      \* bound: packets and answers still in transit at a timeout
  Lossy,        \* whether the pad may leave a command unanswered
  Faulty        \* whether reads and writes may fail

Kind == {"info", "plain", "priority", "lights"}

ASSUME ConnectionAssumption ==
  /\ Packets \in [Kind -> Nat \ {0}]
  /\ MaxCommands \in Nat
  /\ MaxLate \in Nat
  /\ Lossy \in BOOLEAN
  /\ Faulty \in BOOLEAN

NoCmd == 0   \* current_command is None
Empty == 0   \* a callback called with an empty vector

VARIABLES
  \* CommandHandle, owned by the main thread
  main,           \* where the main thread is in update(), close() and drop()
  kind,           \* kind[c]: how command c was queued
  pending,        \* pending_commands
  current,        \* current_command
  sent,           \* current_command's `sent`
  gotInfo,        \* got_info
  active,         \* active
  readBuffers,    \* read_buffers
  data,           \* check_reads' swapped-out report 6 buffer
  replies,        \* replies[c]: what c's callback was called with, in order
  \* SharedState
  writeInFlight, hadReadError, hadWriteError, report6,
  \* writer thread
  jobs,           \* the channel to it
  writer,         \* where it is in writer_loop
  job,            \* the command it writes
  left,           \* packets of job still to write
  \* poll thread
  gathered,       \* report6_local
  \* the pad, external
  received,       \* commands received whole and not answered yet
  usbIn           \* report 6 packets on their way to the host

handle  == <<kind, pending, current, sent, gotInfo, active, readBuffers,
             data, replies>>
writing == <<jobs, writer, job, left>>
errors  == <<hadReadError, hadWriteError>>
pad     == <<received, usbIn>>
vars    == <<main, handle, writeInFlight, errors, report6, writing, gathered,
             pad>>

Ticket == 1..Len(kind)

Packet == [tag : Nat, type : {"info", "data", "ack"}]

-----------------------------------------------------------------------------
(* Initial state and helpers *)

\* open_connection: the writer thread is running and the identity request is
\* queued.
Init ==
  /\ main = "idle"
  /\ kind = <<"info">>
  /\ pending = <<1>>
  /\ current = NoCmd
  /\ sent = FALSE
  /\ gotInfo = FALSE
  /\ active = FALSE
  /\ readBuffers = <<>>
  /\ data = <<>>
  /\ replies = <<<<>>>>
  /\ writeInFlight = FALSE
  /\ hadReadError = FALSE
  /\ hadWriteError = FALSE
  /\ report6 = <<>>
  /\ jobs = <<>>
  /\ writer = "recv"
  /\ job = NoCmd
  /\ left = 0
  /\ gathered = <<>>
  /\ received = <<>>
  /\ usbIn = <<>>

\* Identity and lights commands are queued with no callback.
HasCallback(c) == kind[c] \in {"plain", "priority"}

\* The callback of each command in `called`, if it has one, is called with r.
Call(called, r) ==
  replies' = [c \in DOMAIN replies |->
                IF c \in called /\ HasCallback(c)
                THEN Append(replies[c], r)
                ELSE replies[c]]

\* handle_packet when HOST_CMD_FINISHED arrives: the command in flight, whichever
\* it is, is taken and called back with r.  (The mutant forgets the take().)
CompleteNoTake(r) == Call({current}, r) /\ UNCHANGED <<current, sent>>
Complete(r) ==
  /\ Call({current}, r)
  /\ current' = NoCmd
  /\ sent' = FALSE

\* Everything unresolved, in the order it will be written: the command in
\* flight, then the queue.
Line == (IF current = NoCmd THEN <<>> ELSE <<current>>) \o pending

\* Commands between the hand-off and their answer's arrival in check_reads.
InTransit ==
  Len(jobs) + (IF writer = "write" THEN 1 ELSE 0) + Len(received)
    + Len(usbIn) + Len(gathered) + Len(report6)

\* No packet of c waits at the writer thread.
OnWire(c) == c \notin Members(jobs) /\ ~(writer = "write" /\ job = c)

-----------------------------------------------------------------------------
(* The public API, on the main thread's side of the manager's state lock *)

NewCommand(k) ==
  /\ kind' = Append(kind, k)
  /\ replies' = Append(replies, <<>>)

\* The queue with a new command c of kind k: at the front for
\* send_command_priority, at the back for the others.  (The mutant treats
\* lights as urgent too.)
EnqueueLightsFirst(k, c) ==
  IF k = "plain" THEN Append(pending, c) ELSE <<c>> \o pending
Enqueue(k, c) ==
  IF k = "priority" THEN <<c>> \o pending ELSE Append(pending, c)

\* send_command, send_command_lights and send_command_priority.  The sensor
\* test, the one user of the last, asks only pads whose identity is known and
\* that are active.
Submit(k) ==
  /\ main = "idle"
  /\ Len(kind) < MaxCommands
  /\ k = "priority" => gotInfo /\ active
  /\ NewCommand(k)
  /\ pending' = Enqueue(k, Len(kind) + 1)
  /\ UNCHANGED <<main, current, sent, gotInfo, active, readBuffers, data,
                 writeInFlight, errors, report6, writing, gathered,
                 pad>>

DropQueuedLights ==
  /\ main = "idle"
  /\ pending' = Retain(pending, {c \in Ticket : kind[c] # "lights"})
  /\ UNCHANGED <<main, kind, current, sent, gotInfo, active, readBuffers,
                 data, replies, writeInFlight, errors, report6,
                 writing, gathered, pad>>

\* SmxDevice::check_active, the first thing update() does once the identity is
\* known: mark the pad active and ask for its configuration.
CheckActive ==
  /\ main = "idle"
  /\ gotInfo
  /\ ~active
  /\ active' = TRUE
  /\ NewCommand("plain")
  /\ pending' = Append(pending, Len(kind) + 1)
  /\ UNCHANGED <<main, current, sent, gotInfo, readBuffers, data,
                 writeInFlight, errors, report6, writing, gathered, pad>>

-----------------------------------------------------------------------------
(* The main thread: update() *)

\* (The mutant misses the writer thread's error.)
HadErrorRead == hadReadError
HadError == hadReadError \/ hadWriteError

EnterUpdate ==
  /\ main = "idle"
  /\ gotInfo => active
  /\ main' = IF HadError THEN "failed" ELSE "reads"
  /\ UNCHANGED <<handle, writeInFlight, errors, report6, writing, gathered,
                 pad>>

\* The queue with the command in flight put back at the front, to be retried
\* before anything queued since.  (The mutant puts it at the back.)
RequeueBack == Append(pending, current)
Requeue == <<current>> \o pending

\* check_reads, up to the swap of the report 6 buffer.  A command whose answer
\* is overdue goes back to the front of the queue, before the packets that may
\* hold that answer are looked at.
CheckReads(timedOut) ==
  /\ main = "reads"
  /\ timedOut => sent /\ InTransit <= MaxLate
  /\ IF timedOut
     THEN /\ pending' = Requeue
          /\ current' = NoCmd
          /\ sent' = FALSE
     ELSE UNCHANGED <<pending, current, sent>>
  /\ data' = report6
  /\ report6' = <<>>
  /\ main' = "packets"
  /\ UNCHANGED <<kind, gotInfo, active, readBuffers, replies, writeInFlight,
                 errors, writing, gathered, pad>>

\* handle_packet on an identity packet: it completes only an identity request.
HandleInfo ==
  /\ main = "packets"
  /\ data # <<>>
  /\ Head(data).type = "info"
  /\ data' = Tail(data)
  /\ IF current # NoCmd /\ kind[current] = "info"
     THEN /\ gotInfo' = TRUE
          /\ current' = NoCmd
          /\ sent' = FALSE
     ELSE UNCHANGED <<gotInfo, current, sent>>
  /\ UNCHANGED <<main, kind, pending, active, readBuffers, replies,
                 writeInFlight, errors, report6, writing, gathered, pad>>

\* handle_packet on any other packet: ignored until the pad is active; its
\* payload joins read_buffers, and it completes whatever command is in flight
\* with the newest payload in read_buffers.
HandleFragment ==
  /\ main = "packets"
  /\ data # <<>>
  /\ Head(data).type # "info"
  /\ data' = Tail(data)
  /\ IF active
     THEN LET buffers == IF Head(data).type = "data"
                         THEN Append(readBuffers, Head(data).tag)
                         ELSE readBuffers
          IN  /\ readBuffers' = buffers
              /\ Complete(IF buffers = <<>> THEN Empty
                          ELSE buffers[Len(buffers)])
     ELSE UNCHANGED <<readBuffers, replies, current, sent>>
  /\ UNCHANGED <<main, kind, pending, gotInfo, active, writeInFlight,
                 errors, report6, writing, gathered, pad>>

PacketsDone ==
  /\ main = "packets"
  /\ data = <<>>
  /\ main' = "writes"
  /\ UNCHANGED <<handle, writeInFlight, errors, report6, writing, gathered,
                 pad>>

\* check_writes with a command in flight: once write_in_flight is clear the
\* response timeout starts.
Promote ==
  /\ main = "writes"
  /\ current # NoCmd
  /\ sent' = (sent \/ ~writeInFlight)
  /\ main' = "drain"
  /\ UNCHANGED <<kind, pending, current, gotInfo, active, readBuffers, data,
                 replies, writeInFlight, errors, report6, writing,
                 gathered, pad>>

\* (The mutant of BeginHandOff does not wait for the command in flight.)
BeginHandOffPipelined ==
  /\ main = "writes"
  /\ IF pending = <<>>
     THEN main' = "drain" /\ UNCHANGED writeInFlight
     ELSE main' = "handoff" /\ writeInFlight' = TRUE
  /\ UNCHANGED <<handle, errors, report6, writing, gathered, pad>>

\* check_writes with nothing in flight: raise write_in_flight, then hand over
\* the head of the queue, if there is one.
BeginHandOff ==
  /\ main = "writes"
  /\ current = NoCmd
  /\ IF pending = <<>>
     THEN main' = "drain" /\ UNCHANGED writeInFlight
     ELSE main' = "handoff" /\ writeInFlight' = TRUE
  /\ UNCHANGED <<handle, errors, report6, writing, gathered, pad>>

\* The send on the channel, which fails once the writer thread has exited.
HandOff ==
  /\ main = "handoff"
  /\ pending' = Tail(pending)
  /\ IF writer # "exited"
     THEN /\ jobs' = Append(jobs, Head(pending))
          /\ current' = Head(pending)
          /\ main' = "drain"
          /\ UNCHANGED <<writeInFlight, replies>>
     ELSE /\ writeInFlight' = FALSE
          /\ Call({Head(pending)}, Empty)
          /\ main' = "failed"
          /\ UNCHANGED <<jobs, current>>
  /\ UNCHANGED <<kind, sent, gotInfo, active, readBuffers, data,
                 errors, report6, writer, job, left, gathered, pad>>

\* (The mutant of Drain returns before handle_packets.)
DrainNothing ==
  /\ main = "drain"
  /\ main' = "idle"
  /\ UNCHANGED <<handle, writeInFlight, errors, report6, writing, gathered,
                 pad>>

\* SmxDevice::handle_packets takes every packet of read_buffers; update()
\* returns.
Drain ==
  /\ main = "drain"
  /\ readBuffers' = <<>>
  /\ main' = "idle"
  /\ UNCHANGED <<kind, pending, current, sent, gotInfo, active, data, replies,
                 writeInFlight, errors, report6, writing, gathered,
                 pad>>

\* The commands close() calls back.  (The mutant forgets the one in flight.)
CancelledQueue == Members(pending)
Cancelled == Members(Line)

\* update() failed: the manager closes the device, which cancels every command
\* and drops the handle.
Close ==
  /\ main = "failed"
  /\ Call(Cancelled, Empty)
  /\ current' = NoCmd
  /\ sent' = FALSE
  /\ pending' = <<>>
  /\ readBuffers' = <<>>
  /\ active' = FALSE
  /\ gotInfo' = FALSE
  /\ main' = "dropping"
  /\ UNCHANGED <<kind, data, writeInFlight, errors, report6, writing,
                 gathered, pad>>

\* The SmxManager is dropped: the handle goes with it, and is not closed.
Abandon ==
  /\ main = "idle"
  /\ main' = "dropping"
  /\ UNCHANGED <<handle, writeInFlight, errors, report6, writing, gathered,
                 pad>>

\* CommandHandle::drop joins the writer thread.
JoinWriter ==
  /\ main = "dropping"
  /\ writer = "exited"
  /\ main' = "gone"
  /\ UNCHANGED <<handle, writeInFlight, errors, report6, writing, gathered,
                 pad>>

\* The handle is gone: nothing is left to do.
Gone ==
  /\ main = "gone"
  /\ UNCHANGED vars

-----------------------------------------------------------------------------
(* The writer thread: writer_loop *)

WriterRecv ==
  /\ writer = "recv"
  /\ jobs # <<>>
  /\ jobs' = Tail(jobs)
  /\ job' = Head(jobs)
  /\ left' = Packets[kind[Head(jobs)]]
  /\ writer' = "write"
  /\ UNCHANGED <<main, handle, writeInFlight, errors, report6, gathered, pad>>

WriterStop ==
  /\ writer = "recv"
  /\ jobs = <<>>
  /\ main = "dropping"
  /\ writer' = "exited"
  /\ UNCHANGED <<main, handle, writeInFlight, errors, report6, jobs, job,
                 left, gathered, pad>>

WritePacket ==
  /\ writer = "write"
  /\ left' = left - 1
  /\ IF left = 1
     THEN writer' = "clear" /\ received' = Append(received, job)
     ELSE UNCHANGED <<writer, received>>
  /\ UNCHANGED <<main, handle, writeInFlight, errors, report6, jobs, job,
                 gathered, usbIn>>

WriteFail ==
  /\ Faulty
  /\ writer = "write"
  /\ hadWriteError' = TRUE
  /\ writer' = "clear"
  /\ UNCHANGED <<main, handle, writeInFlight, hadReadError, report6, jobs,
                 job, left, gathered, pad>>

\* (The mutant leaves write_in_flight up.)
WriterClearForgets ==
  /\ writer = "clear"
  /\ writer' = IF hadWriteError THEN "returning" ELSE "recv"
  /\ job' = NoCmd
  /\ left' = 0
  /\ UNCHANGED <<main, handle, writeInFlight, errors, report6, jobs, gathered,
                 pad>>

\* The store of write_in_flight that follows the last packet's write: until it,
\* the flag is still up for a command the pad may already have answered.
WriterClear ==
  /\ writer = "clear"
  /\ writeInFlight' = FALSE
  /\ writer' = IF hadWriteError THEN "returning" ELSE "recv"
  /\ job' = NoCmd
  /\ left' = 0
  /\ UNCHANGED <<main, handle, errors, report6, jobs, gathered, pad>>

\* The thread returns; only now does the channel refuse jobs.
WriterReturn ==
  /\ writer = "returning"
  /\ writer' = "exited"
  /\ UNCHANGED <<main, handle, writeInFlight, errors, report6, jobs, job,
                 left, gathered, pad>>

-----------------------------------------------------------------------------
(* The poll thread: PollHandle::poll *)

PollRead ==
  /\ ~hadReadError
  /\ usbIn # <<>>
  /\ gathered' = Append(gathered, Head(usbIn))
  /\ usbIn' = Tail(usbIn)
  /\ UNCHANGED <<main, handle, writeInFlight, errors, report6, writing,
                 received>>

\* No more data: what was gathered goes to the shared buffer.
PollDeliver ==
  /\ gathered # <<>>
  /\ report6' = report6 \o gathered
  /\ gathered' = <<>>
  /\ UNCHANGED <<main, handle, writeInFlight, errors, writing, pad>>

\* A read error ends the poll, and what it had gathered is lost.
PollFail ==
  /\ Faulty
  /\ ~hadReadError
  /\ hadReadError' = TRUE
  /\ gathered' = <<>>
  /\ UNCHANGED <<main, handle, writeInFlight, hadWriteError, report6, writing,
                 pad>>

-----------------------------------------------------------------------------
(* The pad, external: it answers commands in the order it received them *)

AnswerTypes(c) ==
  CASE kind[c] = "info"     -> {"info"}
    [] kind[c] = "plain"    -> {"data", "ack"}
    [] kind[c] = "priority" -> {"data"}
    [] OTHER                -> {"ack"}

PadAnswer ==
  /\ received # <<>>
  /\ \E t \in AnswerTypes(Head(received)) :
       usbIn' = Append(usbIn, [tag |-> Head(received), type |-> t])
  /\ received' = Tail(received)
  /\ UNCHANGED <<main, handle, writeInFlight, errors, report6, writing,
                 gathered>>

PadSilent ==
  /\ received # <<>>
  /\ Lossy
  /\ received' = Tail(received)
  /\ UNCHANGED <<main, handle, writeInFlight, errors, report6, writing,
                 gathered, usbIn>>

-----------------------------------------------------------------------------

Api ==
  \/ \E k \in Kind \ {"info"} : Submit(k)
  \/ DropQueuedLights
  \/ Abandon

Update ==
  \/ CheckActive
  \/ EnterUpdate
  \/ \E timedOut \in BOOLEAN : CheckReads(timedOut)
  \/ HandleInfo
  \/ HandleFragment
  \/ PacketsDone
  \/ Promote
  \/ BeginHandOff
  \/ HandOff
  \/ Drain
  \/ Close
  \/ JoinWriter
  \/ Gone

Writer ==
  \/ WriterRecv
  \/ WriterStop
  \/ WritePacket
  \/ WriteFail
  \/ WriterClear
  \/ WriterReturn

Poll == PollRead \/ PollDeliver \/ PollFail

Pad == PadAnswer \/ PadSilent

Next == Api \/ Update \/ Writer \/ Poll \/ Pad

Spec == Init /\ [][Next]_vars

-----------------------------------------------------------------------------
(* Type invariant *)

TypeOK ==
  /\ main \in {"idle", "reads", "packets", "writes", "handoff", "drain",
               "failed", "dropping", "gone"}
  /\ kind \in Seq(Kind)
  /\ pending \in Seq(Ticket)
  /\ current \in Ticket \cup {NoCmd}
  /\ sent \in BOOLEAN /\ gotInfo \in BOOLEAN /\ active \in BOOLEAN
  /\ readBuffers \in Seq(Nat)
  /\ replies \in Seq(Seq(Nat))
  /\ Len(replies) = Len(kind)
  /\ writeInFlight \in BOOLEAN
  /\ hadReadError \in BOOLEAN /\ hadWriteError \in BOOLEAN
  /\ data \in Seq(Packet) /\ report6 \in Seq(Packet)
  /\ gathered \in Seq(Packet) /\ usbIn \in Seq(Packet)
  /\ jobs \in Seq(Ticket)
  /\ writer \in {"recv", "write", "clear", "returning", "exited"}
  /\ job \in Ticket \cup {NoCmd}
  /\ left \in Nat
  /\ received \in Seq(Ticket)

-----------------------------------------------------------------------------
(* Safety *)

PushedBack(c) == kind[c] # "priority"

\* A command is in the line once, and its callback has run exactly when it is
\* no longer there, and then once: through timeouts and requeues, stale
\* answers, a hand-off the channel refuses, and close(), no callback is lost
\* or run twice (PendingCommand::callback).
CallbackOnce ==
  /\ \A i, j \in DOMAIN Line : Line[i] = Line[j] => i = j
  /\ \A c \in Ticket :
       HasCallback(c) =>
         Len(replies[c]) = (IF c \in Members(Line) THEN 0 ELSE 1)

\* Commands queued at the back reach the writer thread in the order they were
\* queued, retries included: when one is handed over no older one is left in
\* the line, and a command that left the line does not come back.  So a lights
\* frame queued before the command that re-enables the pad's own lighting is
\* never written after it, timeouts or not.
WireInOrder ==
  [][/\ \A b \in Ticket :
          jobs' = Append(jobs, b) /\ PushedBack(b) =>
            \A c \in Members(Line) : PushedBack(c) => b <= c
     /\ \A c \in Ticket : c \in Members(Line)' => c \in Members(Line)]_vars

\* If no answer comes later than the response timeout, a callback is given the
\* answer to its own command, or nothing: completion by HOST_CMD_FINISHED,
\* which names no command, then never completes the wrong one, and a payload
\* left in read_buffers is never taken for an answer.
ReplyIsOwn ==
  \A c \in Ticket : \A i \in DOMAIN replies[c] : replies[c][i] \in {c, Empty}

\* The main thread hands over at most one command's packets at a time
\* (writer_loop's contract).
OneJobAtWriter == Len(jobs) + (IF writer = "write" THEN 1 ELSE 0) <= 1

\* A command is `sent` only once the writer thread has all its packets on the
\* wire (check_writes: "the response timeout starts from there").
SentIsOnWire == sent => OnWire(current)

-----------------------------------------------------------------------------
(* The inductive invariant the proofs use *)

\* What the program points say of the state.
AtProgramPoints ==
  /\ sent => current # NoCmd
  /\ main = "handoff" => current = NoCmd /\ pending # <<>>
  /\ writer = "write" => job # NoCmd /\ left # 0

\* CallbackOnce, in terms of the queue and the command in flight.
OnceInLine ==
  /\ \A i, j \in DOMAIN pending : pending[i] = pending[j] => i = j
  /\ current \notin Members(pending)
  /\ \A c \in Ticket :
       HasCallback(c) =>
         Len(replies[c]) = (IF c \in Members(pending) \/ c = current
                            THEN 0 ELSE 1)

\* The commands of the line that were queued at the back are in the order they
\* were queued.
LineInOrder ==
  /\ \A i, j \in DOMAIN pending :
       i < j /\ PushedBack(pending[i]) /\ PushedBack(pending[j]) =>
         pending[i] < pending[j]
  /\ current # NoCmd /\ PushedBack(current) =>
       \A c \in Members(pending) : PushedBack(c) => current < c

ConnectionInv == TypeOK /\ AtProgramPoints /\ OnceInLine /\ LineInOrder

-----------------------------------------------------------------------------
(* Liveness: the loops of the three threads run on, a pad that keeps       *)
(* receiving commands keeps answering some, and an overdue answer is       *)
(* noticed.                                                                *)

Fairness ==
  /\ WF_vars(Update)
  /\ SF_vars(CheckReads(TRUE))
  /\ WF_vars(WriterRecv \/ WriterStop \/ WritePacket \/ WriterClear
             \/ WriterReturn)
  /\ WF_vars(PollRead)
  /\ WF_vars(PollDeliver)
  /\ SF_vars(PadAnswer)

FairSpec == Spec /\ Fairness

\* Every command is eventually resolved, whatever the pad drops and whatever
\* fails, unless the whole manager goes away first.
EventuallyResolved ==
  \A c \in 1..(MaxCommands + 1) :
    (c \in Members(Line)) ~> (c \notin Members(Line) \/ main = "gone")

\* A read or a write error ends in a dropped handle, its writer thread joined.
ErrorEndsConnection ==
  (hadReadError \/ hadWriteError) ~> (main = "gone")

-----------------------------------------------------------------------------
(* The detailed connection implements the service. *)

ConnectionService ==
  INSTANCE CommandService WITH
    outstanding <- Members(Line),
    called <- [c \in Ticket |-> Len(replies[c])],
    open <- main \notin {"dropping", "gone"}

ImplementsService == ConnectionService!Service

=============================================================================
