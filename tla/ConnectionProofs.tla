-------------------------- MODULE ConnectionProofs --------------------------
(***************************************************************************)
(* Theorems about one pad connection, for every number of commands and     *)
(* packets, every delay of the answers and every failure.                  *)
(***************************************************************************)
EXTENDS Connection, QueueProofs

-----------------------------------------------------------------------------
(* Types and program points *)

\* A new command gets the next ticket, of a known kind.
LEMMA NewTicket ==
  ASSUME TypeOK, NEW k \in Kind, NewCommand(k)
  PROVE  /\ kind' \in Seq(Kind) /\ Len(kind') = Len(kind) + 1
         /\ \A c \in Ticket : c \in Ticket' /\ kind'[c] = kind[c]
         /\ Ticket' = Ticket \cup {Len(kind) + 1}
         /\ Len(kind) + 1 \notin Ticket
         /\ kind'[Len(kind) + 1] = k
         /\ replies' \in Seq(Seq(Nat)) /\ Len(replies') = Len(kind')
         /\ \A c \in Ticket : replies'[c] = replies[c]
         /\ replies'[Len(kind) + 1] = <<>>
<1>1. /\ kind \in Seq(Kind) /\ Len(kind) \in Nat
      /\ replies \in Seq(Seq(Nat)) /\ Len(replies) = Len(kind)
      /\ <<>> \in Seq(Nat)
  BY DEF TypeOK
<1>2. kind' = Append(kind, k) /\ replies' = Append(replies, <<>>)
  BY DEF NewCommand
<1>3. /\ kind' \in Seq(Kind) /\ Len(kind') = Len(kind) + 1
      /\ \A c \in 1..Len(kind) : kind'[c] = kind[c]
      /\ kind'[Len(kind) + 1] = k
  BY <1>1, <1>2
<1>4. /\ replies' \in Seq(Seq(Nat)) /\ Len(replies') = Len(replies) + 1
      /\ \A c \in 1..Len(replies) : replies'[c] = replies[c]
      /\ replies'[Len(replies) + 1] = <<>>
  BY <1>1, <1>2
<1> QED
  BY <1>1, <1>3, <1>4 DEF Ticket

\* Calling callbacks keeps the replies well typed, and adds one reply to those
\* called.
LEMMA CallReplies ==
  ASSUME TypeOK, NEW called, NEW r \in Nat, Call(called, r)
  PROVE  /\ replies' \in Seq(Seq(Nat)) /\ Len(replies') = Len(kind)
         /\ \A c \in Ticket :
              Len(replies'[c]) = IF c \in called /\ HasCallback(c)
                                 THEN Len(replies[c]) + 1 ELSE Len(replies[c])
<1>1. /\ replies \in Seq(Seq(Nat)) /\ Len(replies) = Len(kind)
      /\ DOMAIN replies = Ticket /\ Len(kind) \in Nat
      /\ \A c \in Ticket : replies[c] \in Seq(Nat)
  BY DEF TypeOK, Ticket
<1>2. replies' = [c \in Ticket |-> IF c \in called /\ HasCallback(c)
                                   THEN Append(replies[c], r) ELSE replies[c]]
  BY <1>1 DEF Call
<1>3. \A c \in Ticket : replies'[c] \in Seq(Nat)
  BY <1>1, <1>2
<1>4. replies' \in Seq(Seq(Nat)) /\ Len(replies') = Len(kind)
  BY <1>1, <1>2, <1>3 DEF Ticket
<1> QED
  BY <1>1, <1>2, <1>4

LEMMA TypeInit == Init => TypeOK /\ AtProgramPoints
<1> SUFFICES ASSUME Init PROVE TypeOK /\ AtProgramPoints
  OBVIOUS
<1>1. kind = <<"info">> /\ Len(kind) = 1 /\ "info" \in Kind /\ kind \in Seq(Kind)
  BY DEF Init, Kind
<1>2. Ticket = 1..1
  BY <1>1 DEF Ticket
<1>3. pending \in Seq(Ticket)
  BY <1>2 DEF Init
<1>4. replies \in Seq(Seq(Nat)) /\ Len(replies) = 1
  BY DEF Init
<1>5. \A V : <<>> \in Seq(V)
  OBVIOUS
<1>6. TypeOK
  BY <1>1, <1>2, <1>3, <1>4, <1>5 DEF Init, TypeOK
<1>7. AtProgramPoints
  BY DEF Init, AtProgramPoints
<1> QED
  BY <1>6, <1>7

LEMMA TypeStep ==
  TypeOK /\ AtProgramPoints /\ [Next]_vars => TypeOK' /\ AtProgramPoints'
<1> SUFFICES ASSUME TypeOK, AtProgramPoints, [Next]_vars
             PROVE  TypeOK' /\ AtProgramPoints'
  OBVIOUS
<1> USE ConnectionAssumption DEF AtProgramPoints
<1>1. CASE UNCHANGED vars
  BY <1>1 DEF vars, handle, writing, errors, pad, TypeOK, Ticket
<1>2. ASSUME NEW k \in Kind \ {"info"}, Submit(k)
      PROVE  TypeOK' /\ AtProgramPoints'
  <2>1. NewCommand(k)
    BY <1>2 DEF Submit, Enqueue
  <2>2. /\ kind' \in Seq(Kind) /\ Len(kind) + 1 \in Ticket'
        /\ Ticket \subseteq Ticket'
        /\ replies' \in Seq(Seq(Nat)) /\ Len(replies') = Len(kind')
    BY <2>1, NewTicket
  <2>3. /\ pending \in Seq(Ticket') /\ jobs \in Seq(Ticket')
        /\ received \in Seq(Ticket')
    BY <2>2 DEF TypeOK
  <2>4. pending' \in Seq(Ticket')
    BY <1>2, <2>2, <2>3 DEF Submit, Enqueue
  <2>5. current' \in Ticket' \cup {NoCmd} /\ job' \in Ticket' \cup {NoCmd}
    BY <1>2, <2>2 DEF Submit, Enqueue, TypeOK, writing
  <2>6. jobs' \in Seq(Ticket') /\ received' \in Seq(Ticket')
    BY <1>2, <2>3 DEF Submit, Enqueue, writing, pad
  <2> QED
    BY <1>2, <2>2, <2>4, <2>5, <2>6
       DEF Submit, Enqueue, TypeOK, writing, errors, pad
<1>3. CASE DropQueuedLights
  <2>1. pending' \in Seq(Ticket)
    BY <1>3, RetainProperties DEF DropQueuedLights, TypeOK
  <2> QED
    BY <1>3, <2>1 DEF DropQueuedLights, TypeOK, writing, errors, pad, Ticket
<1>4. CASE CheckActive
  <2>1. NewCommand("plain") /\ "plain" \in Kind
    BY <1>4 DEF CheckActive, Kind
  <2>2. /\ kind' \in Seq(Kind) /\ Len(kind) + 1 \in Ticket'
        /\ Ticket \subseteq Ticket'
        /\ replies' \in Seq(Seq(Nat)) /\ Len(replies') = Len(kind')
    BY <2>1, NewTicket
  <2>3. /\ pending \in Seq(Ticket') /\ jobs \in Seq(Ticket')
        /\ received \in Seq(Ticket')
    BY <2>2 DEF TypeOK
  <2>4. pending' \in Seq(Ticket')
    BY <1>4, <2>2, <2>3 DEF CheckActive
  <2>5. current' \in Ticket' \cup {NoCmd} /\ job' \in Ticket' \cup {NoCmd}
    BY <1>4, <2>2 DEF CheckActive, TypeOK, writing
  <2>6. jobs' \in Seq(Ticket') /\ received' \in Seq(Ticket')
    BY <1>4, <2>3 DEF CheckActive, writing, pad
  <2> QED
    BY <1>4, <2>2, <2>4, <2>5, <2>6
       DEF CheckActive, TypeOK, writing, errors, pad
<1>5. CASE Abandon \/ EnterUpdate \/ PacketsDone \/ JoinWriter
  <2>1. /\ UNCHANGED <<handle, writeInFlight, errors, report6, writing,
                       gathered, pad>>
        /\ main' \in {"failed", "reads", "writes", "dropping", "gone"}
    BY <1>5 DEF Abandon, EnterUpdate, PacketsDone, JoinWriter
  <2>2. TypeOK'
    BY <2>1 DEF TypeOK, handle, writing, errors, pad, Ticket
  <2>3. AtProgramPoints'
    BY <2>1 DEF handle, writing
  <2> QED
    BY <2>2, <2>3
<1>6. ASSUME NEW timedOut \in BOOLEAN, CheckReads(timedOut)
      PROVE  TypeOK' /\ AtProgramPoints'
  <2>1. pending' \in Seq(Ticket)
    <3>1. CASE timedOut
      <4>1. current \in Ticket /\ pending \in Seq(Ticket)
        BY <1>6, <3>1 DEF CheckReads, Requeue, TypeOK
      <4>2. pending' = <<current>> \o pending
        BY <1>6, <3>1 DEF CheckReads, Requeue
      <4>3. <<current>> \o pending \in Seq(Ticket)
        BY <4>1, Prepend
      <4> QED
        BY <4>2, <4>3
    <3>2. CASE ~timedOut
      BY <1>6, <3>2 DEF CheckReads, Requeue, TypeOK
    <3> QED
      BY <3>1, <3>2
  <2>2. UNCHANGED <<kind, gotInfo, active, readBuffers, replies, writeInFlight,
                    errors, writing, gathered, pad>>
    BY <1>6 DEF CheckReads
  <2>3. /\ current' \in Ticket \cup {NoCmd} /\ sent' \in BOOLEAN
        /\ sent' => current' # NoCmd
    <3>1. CASE timedOut
      BY <1>6, <3>1 DEF CheckReads
    <3>2. CASE ~timedOut
      BY <1>6, <3>2 DEF CheckReads, TypeOK
    <3> QED
      BY <3>1, <3>2
  <2>4. main' = "packets" /\ data' = report6 /\ report6' = <<>>
        /\ <<>> \in Seq(Packet)
    BY <1>6 DEF CheckReads
  <2>5. Ticket' = Ticket
    BY <2>2 DEF Ticket
  <2>6. TypeOK'
    <3>1. report6' \in Seq(Packet) /\ data' \in Seq(Packet)
      BY <2>4 DEF TypeOK
    <3> QED
      BY <2>1, <2>2, <2>3, <2>4, <2>5, <3>1 DEF TypeOK, writing, errors, pad
  <2>7. AtProgramPoints'
    BY <2>2, <2>3, <2>4 DEF writing
  <2> QED
    BY <2>6, <2>7
<1>7. CASE HandleInfo
  <2>1. data' \in Seq(Packet)
    BY <1>7 DEF HandleInfo, TypeOK
  <2>2. /\ gotInfo' \in BOOLEAN /\ sent' \in BOOLEAN
        /\ current' \in Ticket \cup {NoCmd}
        /\ sent' => current' # NoCmd
    BY <1>7 DEF HandleInfo, TypeOK
  <2>3. UNCHANGED <<main, kind, pending, active, readBuffers, replies,
                    writeInFlight, errors, report6, writing, gathered, pad>>
    BY <1>7 DEF HandleInfo
  <2>4. main = "packets" /\ Ticket' = Ticket
    BY <1>7, <2>3 DEF HandleInfo, Ticket
  <2>5. TypeOK'
    BY <2>1, <2>2, <2>3, <2>4 DEF TypeOK, writing, errors, pad
  <2>6. AtProgramPoints'
    BY <2>2, <2>3, <2>4 DEF writing
  <2> QED
    BY <2>5, <2>6
<1>8. CASE HandleFragment
  <2>1. data' \in Seq(Packet) /\ Head(data) \in Packet
    BY <1>8 DEF HandleFragment, Complete, TypeOK
  <2>2. Head(data).tag \in Nat
    BY <2>1 DEF Packet
  <2>3. /\ readBuffers' \in Seq(Nat)
        /\ replies' \in Seq(Seq(Nat)) /\ Len(replies') = Len(kind)
    <3>1. CASE active
      <4> DEFINE buffers == IF Head(data).type = "data"
                            THEN Append(readBuffers, Head(data).tag)
                            ELSE readBuffers
                 reply == IF buffers = <<>> THEN Empty
                          ELSE buffers[Len(buffers)]
      <4>1. buffers \in Seq(Nat)
        BY <2>2 DEF TypeOK
      <4>2. reply \in Nat
        <5> HIDE DEF buffers
        <5> QED
          BY <4>1 DEF Empty
      <4>3. readBuffers' = buffers /\ Call({current}, reply)
        BY <1>8, <3>1 DEF HandleFragment, Complete
      <4> HIDE DEF buffers, reply
      <4> QED
        BY <4>1, <4>2, <4>3, CallReplies
    <3>2. CASE ~active
      BY <1>8, <3>2 DEF HandleFragment, Complete, TypeOK
    <3> QED
      BY <3>1, <3>2
  <2>4. current' \in Ticket \cup {NoCmd} /\ sent' \in BOOLEAN
        /\ (sent' => current' # NoCmd)
    BY <1>8 DEF HandleFragment, Complete, TypeOK
  <2>5. /\ UNCHANGED <<main, kind, pending, gotInfo, active, writeInFlight,
                       errors, report6, writing, gathered, pad>>
        /\ main = "packets"
        /\ Ticket' = Ticket
    BY <1>8 DEF HandleFragment, Ticket
  <2>6. TypeOK'
    BY <2>1, <2>3, <2>4, <2>5 DEF TypeOK, writing, errors, pad
  <2>7. AtProgramPoints'
    BY <2>4, <2>5 DEF writing
  <2> QED
    BY <2>6, <2>7
<1>9. CASE Promote
  <2>1. /\ UNCHANGED <<kind, pending, current, gotInfo, active, readBuffers, data,
                       replies, writeInFlight, errors, report6, writing,
                       gathered, pad>>
        /\ main' = "drain" /\ sent' \in BOOLEAN /\ current # NoCmd
    BY <1>9 DEF Promote, TypeOK
  <2>2. TypeOK'
    BY <2>1 DEF TypeOK, writing, errors, pad, Ticket
  <2>3. AtProgramPoints'
    BY <2>1 DEF writing
  <2> QED
    BY <2>2, <2>3
<1>10. CASE BeginHandOff
  <2>1. /\ UNCHANGED <<handle, errors, report6, writing, gathered, pad>>
        /\ main' = "drain" \/ (main' = "handoff" /\ pending # <<>>)
        /\ writeInFlight' \in BOOLEAN /\ current = NoCmd
    BY <1>10 DEF BeginHandOff, TypeOK
  <2>2. TypeOK'
    BY <2>1 DEF TypeOK, handle, writing, errors, pad, Ticket
  <2>3. AtProgramPoints'
    BY <2>1 DEF handle, writing
  <2> QED
    BY <2>2, <2>3
<1>11. CASE HandOff
  <2>1. /\ Head(pending) \in Ticket /\ pending' \in Seq(Ticket)
    BY <1>11 DEF HandOff, TypeOK
  <2>2. /\ jobs' \in Seq(Ticket) /\ current' \in Ticket \cup {NoCmd}
        /\ writeInFlight' \in BOOLEAN
        /\ main' \in {"drain", "failed"}
        /\ sent' => current' # NoCmd
    <3>1. sent = FALSE /\ sent' = sent /\ jobs \in Seq(Ticket)
      BY <1>11 DEF HandOff, TypeOK
    <3>2. CASE writer # "exited"
      <4>1. /\ jobs' = Append(jobs, Head(pending))
            /\ current' = Head(pending)
            /\ main' = "drain"
            /\ writeInFlight' = writeInFlight
        BY <1>11, <3>2 DEF HandOff
      <4>2. jobs' \in Seq(Ticket)
        BY <2>1, <3>1, <4>1
      <4> QED
        BY <2>1, <3>1, <4>1, <4>2 DEF TypeOK
    <3>3. CASE writer = "exited"
      BY <1>11, <2>1, <3>1, <3>3 DEF HandOff, TypeOK
    <3> QED
      BY <3>2, <3>3
  <2>3. replies' \in Seq(Seq(Nat)) /\ Len(replies') = Len(kind)
    <3>1. UNCHANGED replies \/ Call({Head(pending)}, Empty)
      BY <1>11 DEF HandOff
    <3> QED
      BY <3>1, CallReplies DEF TypeOK, Empty
  <2>4. /\ UNCHANGED <<kind, sent, gotInfo, active, readBuffers, data,
                       errors, report6, writer, job, left, gathered, pad>>
        /\ Ticket' = Ticket
    BY <1>11 DEF HandOff, Ticket
  <2>5. TypeOK'
    BY <2>1, <2>2, <2>3, <2>4 DEF TypeOK, errors, pad
  <2>6. AtProgramPoints'
    BY <2>2, <2>4
  <2> QED
    BY <2>5, <2>6
<1>12. CASE Drain
  <2>1. <<>> \in Seq(Nat)
    OBVIOUS
  <2> QED
    BY <1>12, <2>1 DEF Drain, TypeOK, writing, errors, pad, Ticket
<1>13. CASE Close
  <2>1. replies' \in Seq(Seq(Nat)) /\ Len(replies') = Len(kind)
    BY <1>13, CallReplies DEF Close, Cancelled, Empty
  <2>2. <<>> \in Seq(Ticket) /\ <<>> \in Seq(Nat)
    OBVIOUS
  <2> QED
    BY <1>13, <2>1, <2>2 DEF Close, Cancelled, TypeOK, writing, errors, pad, Ticket
<1>14. CASE Gone
  BY <1>1, <1>14 DEF Gone
<1>15. CASE WriterRecv
  <2>1. Head(jobs) \in Ticket /\ jobs' \in Seq(Ticket)
    BY <1>15 DEF WriterRecv, TypeOK
  <2>2. kind[Head(jobs)] \in Kind
    BY <2>1 DEF TypeOK, Ticket
  <2>3. left' \in Nat \ {0}
    BY <1>15, <2>2 DEF WriterRecv
  <2>4. job' \in Ticket /\ NoCmd \notin Ticket
    BY <1>15, <2>1 DEF WriterRecv, Ticket, NoCmd
  <2>5. /\ UNCHANGED <<main, handle, writeInFlight, errors, report6, gathered, pad>>
        /\ writer' = "write"
    BY <1>15 DEF WriterRecv
  <2>6. TypeOK'
    BY <2>1, <2>3, <2>4, <2>5 DEF TypeOK, handle, errors, pad, Ticket
  <2>7. AtProgramPoints'
    BY <2>3, <2>4, <2>5 DEF handle
  <2> QED
    BY <2>6, <2>7
<1>16. CASE WriterStop \/ WriteFail \/ WriterClear \/ WriterReturn
  <2>1. CASE WriterStop \/ WriterReturn
    <3>1. /\ UNCHANGED <<main, handle, writeInFlight, errors, report6, jobs,
                         job, left, gathered, pad>>
          /\ writer' = "exited"
      BY <2>1 DEF WriterStop, WriterReturn
    <3>2. TypeOK'
      BY <3>1 DEF TypeOK, handle, errors, pad, Ticket
    <3>3. AtProgramPoints'
      BY <3>1 DEF handle
    <3> QED
      BY <3>2, <3>3
  <2>2. CASE WriteFail
    <3>1. /\ UNCHANGED <<main, handle, writeInFlight, hadReadError, report6, jobs,
                         job, left, gathered, pad>>
          /\ hadWriteError' = TRUE /\ writer' = "clear"
      BY <2>2 DEF WriteFail
    <3>2. TypeOK'
      BY <3>1 DEF TypeOK, handle, pad, Ticket
    <3>3. AtProgramPoints'
      BY <3>1 DEF handle
    <3> QED
      BY <3>2, <3>3
  <2>3. CASE WriterClear
    <3>1. /\ UNCHANGED <<main, handle, errors, report6, jobs, gathered, pad>>
          /\ writeInFlight' = FALSE /\ writer' \in {"returning", "recv"}
          /\ job' = NoCmd /\ left' = 0
      BY <2>3 DEF WriterClear
    <3>2. UNCHANGED <<main, kind, pending, current, sent, gotInfo, active,
                      readBuffers, data, replies, hadReadError, hadWriteError,
                      report6, jobs, gathered, received, usbIn>>
      BY <3>1 DEF handle, errors, pad
    <3>5. Ticket' = Ticket
      BY <3>2 DEF Ticket
    <3>6. job' \in Ticket \cup {NoCmd} /\ left' \in Nat
      BY <3>1
    <3>4. TypeOK'
      <4>1. /\ main' \in {"idle", "reads", "packets", "writes", "handoff", "drain",
                          "failed", "dropping", "gone"}
            /\ kind' \in Seq(Kind) /\ pending' \in Seq(Ticket')
            /\ current' \in Ticket' \cup {NoCmd}
            /\ sent' \in BOOLEAN /\ gotInfo' \in BOOLEAN /\ active' \in BOOLEAN
            /\ readBuffers' \in Seq(Nat) /\ replies' \in Seq(Seq(Nat))
            /\ Len(replies') = Len(kind')
        BY <3>2, <3>5, Zenon DEF TypeOK
      <4>2. /\ hadReadError' \in BOOLEAN /\ hadWriteError' \in BOOLEAN
            /\ data' \in Seq(Packet) /\ report6' \in Seq(Packet)
            /\ gathered' \in Seq(Packet) /\ usbIn' \in Seq(Packet)
            /\ jobs' \in Seq(Ticket') /\ received' \in Seq(Ticket')
        BY <3>2, <3>5, Zenon DEF TypeOK
      <4> QED
        BY <3>1, <3>5, <3>6, <4>1, <4>2, Zenon DEF TypeOK
    <3>3. AtProgramPoints'
      BY <3>1 DEF handle
    <3> QED
      BY <3>3, <3>4
  <2> QED
    BY <1>16, <2>1, <2>2, <2>3
<1>17. CASE WritePacket
  <2>1. job \in Ticket /\ left - 1 \in Nat /\ (left # 1 => left - 1 # 0)
    BY <1>17 DEF WritePacket, TypeOK
  <2>2. received' \in Seq(Ticket)
    <3>1. received \in Seq(Ticket)
      BY DEF TypeOK
    <3>2. received' = received \/ received' = Append(received, job)
      BY <1>17 DEF WritePacket
    <3> QED
      BY <2>1, <3>1, <3>2
  <2>3. /\ UNCHANGED <<main, handle, writeInFlight, errors, report6, jobs, job,
                       gathered, usbIn>>
        /\ left' = left - 1
        /\ writer' = "clear" \/ (writer' = "write" /\ left # 1 /\ job # NoCmd)
    BY <1>17 DEF WritePacket
  <2>4. TypeOK'
    BY <2>1, <2>2, <2>3 DEF TypeOK, handle, errors, Ticket
  <2>5. AtProgramPoints'
    BY <2>1, <2>3 DEF handle
  <2> QED
    BY <2>4, <2>5
<1>18. CASE PollRead
  <2>1. gathered' \in Seq(Packet) /\ usbIn' \in Seq(Packet)
    BY <1>18 DEF PollRead, TypeOK
  <2>2. UNCHANGED <<main, handle, writeInFlight, errors, report6, writing,
                    received>>
    BY <1>18 DEF PollRead
  <2>3. TypeOK'
    BY <2>1, <2>2 DEF TypeOK, handle, writing, errors, Ticket
  <2>4. AtProgramPoints'
    BY <2>2 DEF handle, writing
  <2> QED
    BY <2>3, <2>4
<1>19. CASE PollDeliver
  <2>1. report6' \in Seq(Packet) /\ gathered' \in Seq(Packet)
    BY <1>19 DEF PollDeliver, TypeOK
  <2>2. UNCHANGED <<main, handle, writeInFlight, errors, writing, pad>>
    BY <1>19 DEF PollDeliver
  <2>3. TypeOK'
    BY <2>1, <2>2 DEF TypeOK, handle, writing, errors, pad, Ticket
  <2>4. AtProgramPoints'
    BY <2>2 DEF handle, writing
  <2> QED
    BY <2>3, <2>4
<1>20. CASE PollFail
  <2>1. gathered' \in Seq(Packet)
    BY <1>20 DEF PollFail
  <2>2. /\ UNCHANGED <<main, handle, writeInFlight, hadWriteError, report6,
                       writing, pad>>
        /\ hadReadError' = TRUE
    BY <1>20 DEF PollFail
  <2>3. TypeOK'
    BY <2>1, <2>2 DEF TypeOK, handle, writing, pad, Ticket
  <2>4. AtProgramPoints'
    BY <2>2 DEF handle, writing
  <2> QED
    BY <2>3, <2>4
<1>21. CASE PadAnswer
  <2>1. Head(received) \in Ticket /\ received' \in Seq(Ticket)
    BY <1>21 DEF PadAnswer, TypeOK
  <2>2. Head(received) \in Nat /\ kind[Head(received)] \in Kind
    <3>1. kind \in Seq(Kind) /\ Len(kind) \in Nat
      BY DEF TypeOK
    <3> QED
      BY <2>1, <3>1 DEF Ticket
  <2>3. AnswerTypes(Head(received)) \subseteq {"info", "data", "ack"}
    BY <2>2 DEF AnswerTypes, Kind
  <2>4. usbIn' \in Seq(Packet)
    BY <1>21, <2>2, <2>3 DEF PadAnswer, TypeOK, Packet
  <2> QED
    BY <1>21, <2>1, <2>4 DEF PadAnswer, TypeOK, handle, writing, errors, Ticket
<1>22. CASE PadSilent
  <2>1. received' \in Seq(Ticket)
    BY <1>22 DEF PadSilent, TypeOK
  <2> QED
    BY <1>22, <2>1 DEF PadSilent, TypeOK, handle, writing, errors, Ticket
<1> QED
  BY <1>1, <1>2, <1>3, <1>4, <1>5, <1>6, <1>7, <1>8, <1>9, <1>10, <1>11,
     <1>12, <1>13, <1>14, <1>15, <1>16, <1>17, <1>18, <1>19, <1>20, <1>21,
     <1>22
     DEF Next, Api, Update, Writer, Poll, Pad

\* Every variable keeps its type, whatever the threads and the pad do.
THEOREM TypeCorrect == Spec => [](TypeOK /\ AtProgramPoints)
<1> QED
  BY TypeInit, TypeStep, PTL DEF Spec

-----------------------------------------------------------------------------
(* The line of unresolved commands: each command once, in order *)

\* What the line and the callbacks depend on.
lineVars == <<kind, pending, current, replies>>

LEMMA LineFrame ==
  OnceInLine /\ LineInOrder /\ UNCHANGED lineVars => OnceInLine' /\ LineInOrder'
BY DEF lineVars, OnceInLine, LineInOrder, Ticket, HasCallback, PushedBack,
       Members

LEMMA TicketFacts ==
  ASSUME TypeOK
  PROVE  /\ Len(kind) \in Nat /\ Ticket \subseteq Nat \ {0} /\ NoCmd \notin Ticket
         /\ Len(pending) \in Nat /\ DOMAIN pending = 1..Len(pending)
         /\ \A i \in DOMAIN pending : pending[i] \in Ticket
         /\ Members(pending) \subseteq Ticket
         /\ \A c \in Ticket : c < Len(kind) + 1
<1>1. Len(kind) \in Nat /\ pending \in Seq(Ticket)
  BY DEF TypeOK
<1>2. \A i \in DOMAIN pending : pending[i] \in Ticket
  BY <1>1
<1>3. Members(pending) \subseteq Ticket
  BY <1>2 DEF Members
<1> QED
  BY <1>1, <1>2, <1>3 DEF Ticket, NoCmd

\* The line is the command in flight, if any, and the queue.
LEMMA LineMembers ==
  ASSUME TypeOK
  PROVE  /\ \A c \in Ticket :
              c \in Members(Line) <=> c \in Members(pending) \/ c = current
         /\ Members(Line) \subseteq Ticket
         /\ Line \in Seq(Ticket)
<1>1. /\ pending \in Seq(Ticket) /\ Members(pending) \subseteq Ticket
      /\ current \in Ticket \cup {NoCmd} /\ NoCmd \notin Ticket
  BY TicketFacts DEF TypeOK
<1>2. CASE current = NoCmd
  <2>1. Line = pending
    BY <1>1, <1>2 DEF Line
  <2> QED
    BY <1>1, <1>2, <2>1
<1>3. CASE current # NoCmd
  <2>1. Line = <<current>> \o pending /\ current \in Ticket
    BY <1>1, <1>3 DEF Line
  <2>2. Members(Line) = Members(pending) \cup {current} /\ Line \in Seq(Ticket)
    BY <1>1, <2>1, Prepend
  <2> QED
    BY <1>1, <2>1, <2>2
<1> QED
  BY <1>2, <1>3

\* A new command at the back of the queue.
LEMMA PushBack ==
  ASSUME ConnectionInv, NEW k \in Kind, NewCommand(k),
         pending' = Append(pending, Len(kind) + 1), current' = current
  PROVE  OnceInLine' /\ LineInOrder'
<1> DEFINE t == Len(kind) + 1
<1>1. TypeOK /\ OnceInLine /\ LineInOrder
  BY DEF ConnectionInv
<1>2. /\ \A c \in Ticket : c \in Ticket' /\ kind'[c] = kind[c]
      /\ Ticket' = Ticket \cup {t}
      /\ t \notin Ticket
      /\ kind'[t] = k
      /\ \A c \in Ticket : replies'[c] = replies[c]
      /\ replies'[t] = <<>>
  BY <1>1, NewTicket
<1>3. /\ Ticket \subseteq Nat \ {0} /\ NoCmd \notin Ticket
      /\ Len(pending) \in Nat /\ DOMAIN pending = 1..Len(pending)
      /\ \A i \in DOMAIN pending : pending[i] \in Ticket
      /\ Members(pending) \subseteq Ticket
      /\ \A c \in Ticket : c < t
  BY <1>1, TicketFacts
<1>4. t # NoCmd
  BY <1>1, TicketFacts DEF NoCmd
<1>5. Members(pending') = Members(pending) \cup {t}
  BY <1>1, MembersAppend DEF TypeOK
<1>6. /\ DOMAIN pending' = 1..(Len(pending) + 1)
      /\ \A i \in 1..Len(pending) : pending'[i] = pending[i]
      /\ pending'[Len(pending) + 1] = t
  BY <1>1 DEF TypeOK
<1>7. current \in Ticket \cup {NoCmd}
  BY <1>1 DEF TypeOK
<1> HIDE DEF t
<1>8. \A i \in DOMAIN pending' :
        (i \in DOMAIN pending /\ pending'[i] = pending[i])
          \/ (i = Len(pending) + 1 /\ pending'[i] = t)
  BY <1>3, <1>6
<1>9. OnceInLine'
  <2>1. \A i, j \in DOMAIN pending' : pending'[i] = pending'[j] => i = j
    BY <1>1, <1>2, <1>3, <1>8 DEF OnceInLine
  <2>2. current' \notin Members(pending')
    BY <1>1, <1>2, <1>4, <1>5, <1>7 DEF OnceInLine
  <2>3. ASSUME NEW c \in Ticket', HasCallback(c)'
        PROVE  Len(replies'[c]) = (IF c \in Members(pending') \/ c = current'
                                   THEN 0 ELSE 1)
    <3>1. CASE c = t
      BY <1>2, <1>5, <3>1
    <3>2. CASE c # t
      <4>1. c \in Ticket /\ HasCallback(c)
        BY <1>2, <2>3, <3>2 DEF HasCallback
      <4> QED
        BY <1>1, <1>2, <1>5, <3>2, <4>1 DEF OnceInLine
    <3> QED
      BY <3>1, <3>2
  <2> QED
    BY <2>1, <2>2, <2>3 DEF OnceInLine
<1>10. LineInOrder'
  <2>1. ASSUME NEW i \in DOMAIN pending', NEW j \in DOMAIN pending', i < j,
               PushedBack(pending[i])', PushedBack(pending[j])'
        PROVE  pending'[i] < pending'[j]
    <3>1. i \in DOMAIN pending /\ pending'[i] = pending[i] /\ pending[i] \in Ticket
      BY <1>3, <1>6, <2>1
    <3>2. CASE j \in DOMAIN pending
      <4>1. pending'[j] = pending[j] /\ pending[j] \in Ticket
        BY <1>3, <1>6, <3>2
      <4>2. PushedBack(pending[i]) /\ PushedBack(pending[j])
        BY <1>2, <2>1, <3>1, <4>1 DEF PushedBack
      <4> QED
        BY <1>1, <2>1, <3>1, <3>2, <4>1, <4>2 DEF LineInOrder
    <3>3. CASE j \notin DOMAIN pending
      <4>1. pending'[j] = t
        BY <1>8, <3>3
      <4> QED
        BY <1>3, <3>1, <4>1
    <3> QED
      BY <3>2, <3>3
  <2>2. ASSUME current' # NoCmd, PushedBack(current)',
               NEW c \in Members(pending'), PushedBack(c)'
        PROVE  current' < c
    <3>1. current \in Ticket /\ PushedBack(current)
      BY <1>2, <1>7, <2>2 DEF PushedBack
    <3>2. CASE c = t
      BY <1>3, <3>1, <3>2
    <3>3. CASE c # t
      <4>1. c \in Members(pending) /\ PushedBack(c)
        BY <1>2, <1>3, <1>5, <2>2, <3>3 DEF PushedBack
      <4> QED
        BY <1>1, <2>2, <3>1, <4>1 DEF LineInOrder
    <3> QED
      BY <3>2, <3>3
  <2> QED
    BY <2>1, <2>2 DEF LineInOrder, PushedBack
<1> QED
  BY <1>9, <1>10

\* A new priority command at the front of the queue.
LEMMA PushFront ==
  ASSUME ConnectionInv, NewCommand("priority"),
         pending' = <<Len(kind) + 1>> \o pending, current' = current
  PROVE  OnceInLine' /\ LineInOrder'
<1> DEFINE t == Len(kind) + 1
<1>1. TypeOK /\ OnceInLine /\ LineInOrder /\ "priority" \in Kind
  BY DEF ConnectionInv, Kind
<1>2. /\ \A c \in Ticket : c \in Ticket' /\ kind'[c] = kind[c]
      /\ Ticket' = Ticket \cup {t}
      /\ t \notin Ticket
      /\ kind'[t] = "priority"
      /\ \A c \in Ticket : replies'[c] = replies[c]
      /\ replies'[t] = <<>>
  BY <1>1, NewTicket
<1>3. /\ Ticket \subseteq Nat \ {0} /\ NoCmd \notin Ticket
      /\ Len(pending) \in Nat /\ DOMAIN pending = 1..Len(pending)
      /\ \A i \in DOMAIN pending : pending[i] \in Ticket
      /\ Members(pending) \subseteq Ticket
  BY <1>1, TicketFacts
<1>4. t # NoCmd /\ t \in Ticket'
  BY <1>1, <1>2, TicketFacts DEF NoCmd
<1>5. /\ pending' \in Seq(Ticket')
      /\ Len(pending') = Len(pending) + 1
      /\ pending'[1] = t
      /\ \A i \in 1..Len(pending) : pending'[i + 1] = pending[i]
      /\ Members(pending') = Members(pending) \cup {t}
  <2>1. pending \in Seq(Ticket')
    BY <1>1, <1>2 DEF TypeOK
  <2> QED
    BY <1>4, <2>1, Prepend
<1>6. current \in Ticket \cup {NoCmd}
  BY <1>1 DEF TypeOK
<1> HIDE DEF t
<1>7. DOMAIN pending' = 1..(Len(pending) + 1)
  BY <1>5
<1>8. \A i \in DOMAIN pending' :
        (i = 1 /\ pending'[i] = t)
          \/ (i # 1 /\ i - 1 \in DOMAIN pending /\ pending'[i] = pending[i - 1])
  <2>1. ASSUME NEW i \in DOMAIN pending', i # 1
        PROVE  i - 1 \in 1..Len(pending) /\ i = (i - 1) + 1
    BY <1>3, <1>7, <2>1
  <2> QED
    BY <1>3, <1>5, <2>1
<1>9. OnceInLine'
  <2>1. ASSUME NEW i \in DOMAIN pending', NEW j \in DOMAIN pending',
               pending'[i] = pending'[j]
        PROVE  i = j
    <3>1. CASE i = 1 \/ j = 1
      BY <1>2, <1>3, <1>8, <2>1, <3>1
    <3>2. CASE i # 1 /\ j # 1
      <4>1. i - 1 = j - 1
        BY <1>1, <1>8, <2>1, <3>2 DEF OnceInLine
      <4> QED
        BY <1>3, <1>7, <4>1
    <3> QED
      BY <3>1, <3>2
  <2>2. current' \notin Members(pending')
    BY <1>1, <1>2, <1>4, <1>5, <1>6 DEF OnceInLine
  <2>3. ASSUME NEW c \in Ticket', HasCallback(c)'
        PROVE  Len(replies'[c]) = (IF c \in Members(pending') \/ c = current'
                                   THEN 0 ELSE 1)
    <3>1. CASE c = t
      BY <1>2, <1>5, <3>1
    <3>2. CASE c # t
      <4>1. c \in Ticket /\ HasCallback(c)
        BY <1>2, <2>3, <3>2 DEF HasCallback
      <4> QED
        BY <1>1, <1>2, <1>5, <3>2, <4>1 DEF OnceInLine
    <3> QED
      BY <3>1, <3>2
  <2> QED
    BY <2>1, <2>2, <2>3 DEF OnceInLine
<1>10. LineInOrder'
  <2>1. ASSUME NEW i \in DOMAIN pending', NEW j \in DOMAIN pending', i < j,
               PushedBack(pending[i])', PushedBack(pending[j])'
        PROVE  pending'[i] < pending'[j]
    <3>1. pending'[i] # t /\ pending'[j] # t
      BY <1>2, <2>1 DEF PushedBack
    <3>2. /\ i - 1 \in DOMAIN pending /\ pending'[i] = pending[i - 1]
          /\ j - 1 \in DOMAIN pending /\ pending'[j] = pending[j - 1]
          /\ pending[i - 1] \in Ticket /\ pending[j - 1] \in Ticket
      BY <1>3, <1>8, <3>1
    <3>3. i - 1 < j - 1
      BY <1>3, <1>7, <2>1
    <3>4. PushedBack(pending[i - 1]) /\ PushedBack(pending[j - 1])
      BY <1>2, <2>1, <3>2 DEF PushedBack
    <3> QED
      BY <1>1, <3>2, <3>3, <3>4 DEF LineInOrder
  <2>2. ASSUME current' # NoCmd, PushedBack(current)',
               NEW c \in Members(pending'), PushedBack(c)'
        PROVE  current' < c
    <3>1. current \in Ticket /\ PushedBack(current)
      BY <1>2, <1>6, <2>2 DEF PushedBack
    <3>2. c # t
      BY <1>2, <2>2 DEF PushedBack
    <3>3. c \in Members(pending) /\ PushedBack(c)
      BY <1>2, <1>3, <1>5, <2>2, <3>2 DEF PushedBack
    <3> QED
      BY <1>1, <2>2, <3>1, <3>3 DEF LineInOrder
  <2> QED
    BY <2>1, <2>2 DEF LineInOrder, PushedBack
<1> QED
  BY <1>9, <1>10

\* The command in flight is completed, its callback called if it has one.
LEMMA CompleteCurrent ==
  ASSUME ConnectionInv, UNCHANGED <<kind, pending>>, current' = NoCmd,
         NEW r \in Nat,
         \/ Call({current}, r)
         \/ /\ UNCHANGED replies
            /\ current # NoCmd => ~HasCallback(current)
  PROVE  OnceInLine' /\ LineInOrder'
<1>1. TypeOK /\ OnceInLine /\ LineInOrder
  BY DEF ConnectionInv
<1>2. NoCmd \notin Ticket /\ Members(pending) \subseteq Ticket /\ Ticket' = Ticket
  BY <1>1, TicketFacts DEF Ticket
<1>3. \A c \in Ticket : HasCallback(c)' = HasCallback(c)
  BY DEF HasCallback
<1>4. \A c \in Ticket : HasCallback(c) =>
        Len(replies'[c]) = IF c = current THEN Len(replies[c]) + 1
                           ELSE Len(replies[c])
  <2>1. CASE Call({current}, r)
    BY <1>1, <2>1, CallReplies
  <2>2. CASE UNCHANGED replies /\ (current # NoCmd => ~HasCallback(current))
    BY <1>2, <2>2
  <2> QED
    BY <2>1, <2>2
<1>5. OnceInLine'
  <2>1. ASSUME NEW c \in Ticket, HasCallback(c)
        PROVE  Len(replies'[c]) = (IF c \in Members(pending) \/ c = NoCmd
                                   THEN 0 ELSE 1)
    <3>1. c # NoCmd
      BY <1>2
    <3>2. CASE c = current
      <4>1. Len(replies[c]) = 0 /\ c \notin Members(pending)
        BY <1>1, <2>1, <3>2 DEF OnceInLine
      <4> QED
        BY <1>4, <2>1, <3>1, <3>2, <4>1
    <3>3. CASE c # current
      BY <1>1, <1>4, <2>1, <3>1, <3>3 DEF OnceInLine
    <3> QED
      BY <3>2, <3>3
  <2> QED
    BY <1>1, <1>2, <1>3, <2>1 DEF OnceInLine, Members
<1>6. LineInOrder'
  BY <1>1 DEF LineInOrder, PushedBack, Members
<1> QED
  BY <1>5, <1>6

\* The overdue command in flight goes back to the front of the queue.
LEMMA RequeueCurrent ==
  ASSUME ConnectionInv, UNCHANGED <<kind, replies>>, current # NoCmd,
         pending' = <<current>> \o pending, current' = NoCmd
  PROVE  OnceInLine' /\ LineInOrder'
<1>1. TypeOK /\ OnceInLine /\ LineInOrder
  BY DEF ConnectionInv
<1>2. /\ Ticket \subseteq Nat \ {0} /\ NoCmd \notin Ticket
      /\ Len(pending) \in Nat /\ DOMAIN pending = 1..Len(pending)
      /\ \A i \in DOMAIN pending : pending[i] \in Ticket
      /\ \A i \in DOMAIN pending : pending[i] \in Members(pending)
      /\ Members(pending) \subseteq Ticket /\ Ticket' = Ticket
  BY <1>1, TicketFacts DEF Ticket, Members
<1>3. current \in Ticket
  BY <1>1 DEF TypeOK
<1>4. /\ pending' \in Seq(Ticket)
      /\ Len(pending') = Len(pending) + 1
      /\ pending'[1] = current
      /\ \A i \in 1..Len(pending) : pending'[i + 1] = pending[i]
      /\ Members(pending') = Members(pending) \cup {current}
  BY <1>1, <1>3, Prepend DEF TypeOK
<1>5. DOMAIN pending' = 1..(Len(pending) + 1)
  BY <1>4
<1>6. \A i \in DOMAIN pending' :
        (i = 1 /\ pending'[i] = current)
          \/ (i # 1 /\ i - 1 \in DOMAIN pending /\ pending'[i] = pending[i - 1])
  <2>1. ASSUME NEW i \in DOMAIN pending', i # 1
        PROVE  i - 1 \in 1..Len(pending) /\ i = (i - 1) + 1
    BY <1>2, <1>5, <2>1
  <2> QED
    BY <1>2, <1>4, <2>1
<1>7. OnceInLine'
  <2>1. ASSUME NEW i \in DOMAIN pending', NEW j \in DOMAIN pending',
               pending'[i] = pending'[j]
        PROVE  i = j
    <3>1. CASE i = 1 \/ j = 1
      BY <1>1, <1>2, <1>6, <2>1, <3>1 DEF OnceInLine
    <3>2. CASE i # 1 /\ j # 1
      <4>1. i - 1 = j - 1
        BY <1>1, <1>6, <2>1, <3>2 DEF OnceInLine
      <4> QED
        BY <1>2, <1>5, <4>1
    <3> QED
      BY <3>1, <3>2
  <2>2. current' \notin Members(pending')
    BY <1>2, <1>3, <1>4
  <2>3. ASSUME NEW c \in Ticket, HasCallback(c)
        PROVE  Len(replies[c]) = (IF c \in Members(pending') \/ c = NoCmd
                                  THEN 0 ELSE 1)
    BY <1>1, <1>2, <1>4, <2>3 DEF OnceInLine
  <2> QED
    BY <1>2, <2>1, <2>2, <2>3 DEF OnceInLine, HasCallback
<1>8. LineInOrder'
  <2>1. ASSUME NEW i \in DOMAIN pending', NEW j \in DOMAIN pending', i < j,
               PushedBack(pending[i])', PushedBack(pending[j])'
        PROVE  pending'[i] < pending'[j]
    <3>1. j # 1 /\ j - 1 \in DOMAIN pending /\ pending'[j] = pending[j - 1]
      BY <1>2, <1>5, <1>6, <2>1
    <3>2. PushedBack(pending[j - 1])
      BY <2>1, <3>1 DEF PushedBack
    <3>3. CASE i = 1
      <4>1. pending'[i] = current /\ PushedBack(current)
        BY <1>4, <2>1, <3>3 DEF PushedBack
      <4> QED
        BY <1>1, <1>2, <3>1, <3>2, <4>1 DEF LineInOrder
    <3>4. CASE i # 1
      <4>1. i - 1 \in DOMAIN pending /\ pending'[i] = pending[i - 1]
        BY <1>6, <3>4
      <4>2. i - 1 < j - 1 /\ PushedBack(pending[i - 1])
        BY <1>2, <1>5, <2>1, <4>1 DEF PushedBack
      <4> QED
        BY <1>1, <3>1, <3>2, <4>1, <4>2 DEF LineInOrder
    <3> QED
      BY <3>3, <3>4
  <2> QED
    BY <2>1 DEF LineInOrder, PushedBack
<1> QED
  BY <1>7, <1>8

\* Only lights commands leave the queue, which have no callback to call.
LEMMA DropLights ==
  ASSUME ConnectionInv, DropQueuedLights
  PROVE  /\ OnceInLine' /\ LineInOrder'
         /\ Members(pending') = {c \in Members(pending) : kind[c] # "lights"}
<1> DEFINE keep == {c \in Ticket : kind[c] # "lights"}
<1>1. TypeOK /\ OnceInLine /\ LineInOrder
  BY DEF ConnectionInv
<1>2. UNCHANGED <<kind, current, replies>> /\ pending' = Retain(pending, keep)
  BY DEF DropQueuedLights
<1>3. /\ Len(pending) \in Nat /\ DOMAIN pending = 1..Len(pending)
      /\ \A i \in DOMAIN pending : pending[i] \in Ticket
      /\ Members(pending) \subseteq Ticket /\ Ticket \subseteq Nat
      /\ Ticket' = Ticket
  <2>1. Ticket' = Ticket
    BY <1>2 DEF Ticket
  <2>2. TypeOK
    BY <1>1
  <2>3. Ticket \subseteq Nat \ {0} => Ticket \subseteq Nat
    OBVIOUS
  <2> QED
    BY <2>1, <2>2, <2>3, TicketFacts, Zenon
<1>4. /\ pending' \in Seq(Ticket)
      /\ Members(pending') = Members(pending) \cap keep
      /\ Embedded(pending', pending, Len(pending))
  <2>1. pending \in Seq(Ticket)
    BY <1>1 DEF TypeOK
  <2> HIDE DEF keep
  <2>2. LET r == Retain(pending, keep)
        IN  /\ r \in Seq(Ticket)
            /\ Members(r) = Members(pending) \cap keep
            /\ Embedded(r, pending, Len(pending))
    BY <2>1, RetainProperties, Zenon
  <2> QED
    BY <1>2, <2>2, Zenon
<1>5. Members(pending') = {c \in Members(pending) : kind[c] # "lights"}
  BY <1>3, <1>4
<1>6. \A i, j \in DOMAIN pending' :
        i < j => \E a, b \in DOMAIN pending :
                   a < b /\ pending'[i] = pending[a] /\ pending'[j] = pending[b]
  <2>1. DOMAIN pending = 1..Len(pending) /\ Embedded(pending', pending, Len(pending))
    BY <1>3, <1>4
  <2>2. ASSUME NEW i \in DOMAIN pending', NEW j \in DOMAIN pending', i < j
        PROVE  \E a, b \in 1..Len(pending) :
                 a < b /\ pending'[i] = pending[a] /\ pending'[j] = pending[b]
    BY <2>1, <2>2, Zenon DEF Embedded
  <2>3. ASSUME NEW i \in DOMAIN pending', NEW j \in DOMAIN pending', i < j
        PROVE  \E a, b \in DOMAIN pending :
                 a < b /\ pending'[i] = pending[a] /\ pending'[j] = pending[b]
    BY <2>1, <2>2, <2>3
  <2> QED
    BY <2>3, Zenon
<1>7. OnceInLine'
  <2>1. ASSUME NEW i \in DOMAIN pending', NEW j \in DOMAIN pending', i < j
        PROVE  pending'[i] # pending'[j]
    <3>1. PICK a \in DOMAIN pending, b \in DOMAIN pending :
            a < b /\ pending'[i] = pending[a] /\ pending'[j] = pending[b]
      BY <1>6, <2>1
    <3>2. a # b
      BY <1>3, <3>1
    <3> QED
      BY <1>1, <3>1, <3>2 DEF OnceInLine
  <2>2. \A i, j \in DOMAIN pending' : i < j \/ j < i \/ i = j
    BY <1>4
  <2>3. \A i, j \in DOMAIN pending' : pending'[i] = pending'[j] => i = j
    BY <2>1, <2>2
  <2>4. current' \notin Members(pending')
    BY <1>1, <1>2, <1>5 DEF OnceInLine
  <2>5. ASSUME NEW c \in Ticket, HasCallback(c)
        PROVE  Len(replies[c]) = (IF c \in Members(pending') \/ c = current
                                  THEN 0 ELSE 1)
    <3>1. kind[c] # "lights"
      BY <2>5 DEF HasCallback
    <3> QED
      BY <1>1, <1>5, <2>5, <3>1 DEF OnceInLine
  <2> QED
    BY <1>2, <1>3, <2>3, <2>4, <2>5 DEF OnceInLine, HasCallback
<1>8. LineInOrder'
  <2>1. ASSUME NEW i \in DOMAIN pending', NEW j \in DOMAIN pending', i < j,
               PushedBack(pending[i])', PushedBack(pending[j])'
        PROVE  pending'[i] < pending'[j]
    <3>1. PICK a \in DOMAIN pending, b \in DOMAIN pending :
            a < b /\ pending'[i] = pending[a] /\ pending'[j] = pending[b]
      BY <1>6, <2>1
    <3>2. PushedBack(pending[a]) /\ PushedBack(pending[b])
      BY <1>2, <2>1, <3>1 DEF PushedBack
    <3> QED
      BY <1>1, <3>1, <3>2 DEF LineInOrder
  <2>2. ASSUME current' # NoCmd, PushedBack(current)',
               NEW c \in Members(pending'), PushedBack(c)'
        PROVE  current' < c
    <3>1. c \in Members(pending) /\ PushedBack(c) /\ PushedBack(current)
      BY <1>2, <1>5, <2>2 DEF PushedBack
    <3> QED
      BY <1>1, <1>2, <2>2, <3>1 DEF LineInOrder
  <2> QED
    BY <2>1, <2>2 DEF LineInOrder, PushedBack
<1> QED
  BY <1>5, <1>7, <1>8

\* The head of the queue is handed over, or refused and called back.
LEMMA HandOffLine ==
  ASSUME ConnectionInv, HandOff
  PROVE  OnceInLine' /\ LineInOrder'
<1> DEFINE h == Head(pending)
<1>1. TypeOK /\ OnceInLine /\ LineInOrder /\ current = NoCmd /\ pending # <<>>
  BY DEF ConnectionInv, AtProgramPoints, HandOff
<1>2. /\ h \in Ticket /\ h = pending[1]
      /\ Len(pending) \in Nat \ {0}
      /\ pending' \in Seq(Ticket) /\ Len(pending') = Len(pending) - 1
      /\ \A k \in 1..Len(pending') : pending'[k] = pending[k + 1]
      /\ Members(pending) = Members(pending') \cup {h}
  BY <1>1, HeadTail DEF HandOff, TypeOK
<1>3. /\ UNCHANGED kind /\ Ticket' = Ticket
      /\ Ticket \subseteq Nat \ {0} /\ NoCmd \notin Ticket
      /\ DOMAIN pending = 1..Len(pending)
      /\ DOMAIN pending' = 1..(Len(pending) - 1)
      /\ \A i \in DOMAIN pending : pending[i] \in Ticket
  BY <1>1, <1>2, TicketFacts DEF HandOff, Ticket
<1> HIDE DEF h
<1>4. \A i \in DOMAIN pending' :
        /\ i + 1 \in DOMAIN pending /\ i + 1 # 1 /\ pending'[i] = pending[i + 1]
  BY <1>2, <1>3
<1>5. h \notin Members(pending')
  <2>1. ASSUME NEW i \in DOMAIN pending' PROVE pending'[i] # h
    <3>1. 1 \in DOMAIN pending
      BY <1>2, <1>3
    <3> QED
      BY <1>1, <1>2, <1>4, <3>1 DEF OnceInLine
  <2> QED
    BY <2>1 DEF Members
<1>6. \A i, j \in DOMAIN pending' : pending'[i] = pending'[j] => i = j
  <2>1. ASSUME NEW i \in DOMAIN pending', NEW j \in DOMAIN pending',
               pending'[i] = pending'[j]
        PROVE  i = j
    <3>1. i + 1 = j + 1
      BY <1>1, <1>4, <2>1 DEF OnceInLine
    <3> QED
      BY <1>2, <1>3, <3>1
  <2> QED
    BY <2>1
<1>7. \A i, j \in DOMAIN pending' :
        i < j /\ PushedBack(pending'[i]) /\ PushedBack(pending'[j]) =>
          pending'[i] < pending'[j]
  <2>1. ASSUME NEW i \in DOMAIN pending', NEW j \in DOMAIN pending', i < j,
               PushedBack(pending'[i]), PushedBack(pending'[j])
        PROVE  pending'[i] < pending'[j]
    <3>1. i + 1 < j + 1
      BY <1>2, <1>3, <2>1
    <3> QED
      BY <1>1, <1>4, <2>1, <3>1 DEF LineInOrder
  <2> QED
    BY <2>1
<1>8. \A c \in Members(pending') : PushedBack(h) /\ PushedBack(c) => h < c
  <2>1. ASSUME NEW c \in Members(pending'), PushedBack(h), PushedBack(c)
        PROVE  h < c
    <3>1. PICK i \in DOMAIN pending' : c = pending'[i]
      BY DEF Members
    <3>2. 1 \in DOMAIN pending /\ i + 1 \in DOMAIN pending /\ 1 < i + 1
      BY <1>2, <1>3, <1>4
    <3> QED
      BY <1>1, <1>2, <1>4, <2>1, <3>1, <3>2 DEF LineInOrder
  <2> QED
    BY <2>1
<1>9. CASE writer # "exited"
  <2>1. current' = h /\ UNCHANGED replies
    BY <1>9 DEF HandOff, h
  <2>2. ASSUME NEW c \in Ticket, HasCallback(c)
        PROVE  Len(replies[c]) = (IF c \in Members(pending') \/ c = h
                                  THEN 0 ELSE 1)
    BY <1>1, <1>2, <1>3, <2>2 DEF OnceInLine
  <2>3. OnceInLine'
    BY <1>3, <1>5, <1>6, <2>1, <2>2 DEF OnceInLine, HasCallback
  <2>4. LineInOrder'
    BY <1>3, <1>7, <1>8, <2>1 DEF LineInOrder, PushedBack
  <2> QED
    BY <2>3, <2>4
<1>10. CASE writer = "exited"
  <2>1. current' = current /\ Call({h}, Empty)
    BY <1>10 DEF HandOff, h
  <2>2. \A c \in Ticket :
          Len(replies'[c]) = IF c \in {h} /\ HasCallback(c)
                             THEN Len(replies[c]) + 1 ELSE Len(replies[c])
    BY <1>1, <2>1, CallReplies DEF Empty
  <2>3. ASSUME NEW c \in Ticket, HasCallback(c)
        PROVE  Len(replies'[c]) = (IF c \in Members(pending') \/ c = NoCmd
                                   THEN 0 ELSE 1)
    <3>1. CASE c = h
      <4>1. Len(replies[c]) = 0
        BY <1>1, <1>2, <2>3, <3>1 DEF OnceInLine
      <4> QED
        BY <1>3, <1>5, <2>2, <2>3, <3>1, <4>1
    <3>2. CASE c # h
      BY <1>1, <1>2, <1>3, <2>2, <2>3, <3>2 DEF OnceInLine
    <3> QED
      BY <3>1, <3>2
  <2>4. current' \notin Members(pending')
    BY <1>1, <1>2, <2>1 DEF OnceInLine
  <2>5. OnceInLine'
    BY <1>1, <1>3, <1>6, <2>1, <2>3, <2>4 DEF OnceInLine, HasCallback
  <2>6. LineInOrder'
    BY <1>1, <1>3, <1>7, <2>1 DEF LineInOrder, PushedBack
  <2> QED
    BY <2>5, <2>6
<1> QED
  BY <1>9, <1>10

\* Everything in the line is called back and the line is empty.
LEMMA CloseLine ==
  ASSUME ConnectionInv, Close
  PROVE  OnceInLine' /\ LineInOrder'
<1>1. TypeOK /\ OnceInLine /\ LineInOrder
  BY DEF ConnectionInv
<1>2. /\ UNCHANGED kind /\ Ticket' = Ticket /\ NoCmd \notin Ticket
      /\ current' = NoCmd /\ pending' = <<>>
      /\ Call(Members(Line), Empty)
  BY <1>1, TicketFacts DEF Close, Cancelled, Ticket
<1>3. \A c \in Ticket : c \in Members(Line) <=> c \in Members(pending) \/ c = current
  BY <1>1, LineMembers
<1>4. \A c \in Ticket :
        Len(replies'[c]) = IF c \in Members(Line) /\ HasCallback(c)
                           THEN Len(replies[c]) + 1 ELSE Len(replies[c])
  BY <1>1, <1>2, CallReplies DEF Empty
<1>5. Members(pending') = {} /\ DOMAIN pending' = {}
  BY <1>2 DEF Members
<1>6. ASSUME NEW c \in Ticket, HasCallback(c)
      PROVE  Len(replies'[c]) = 1
  <2>1. Len(replies[c]) = IF c \in Members(Line) THEN 0 ELSE 1
    BY <1>1, <1>3, <1>6 DEF OnceInLine
  <2>2. Len(replies'[c]) = IF c \in Members(Line) THEN Len(replies[c]) + 1
                           ELSE Len(replies[c])
    BY <1>4, <1>6
  <2> QED
    BY <2>1, <2>2
<1>7. OnceInLine'
  BY <1>2, <1>5, <1>6 DEF OnceInLine, HasCallback
<1>8. LineInOrder'
  BY <1>2, <1>5 DEF LineInOrder
<1> QED
  BY <1>7, <1>8

LEMMA LineStep ==
  ConnectionInv /\ [Next]_vars => OnceInLine' /\ LineInOrder'
<1> SUFFICES ASSUME ConnectionInv, [Next]_vars
             PROVE  OnceInLine' /\ LineInOrder'
  OBVIOUS
<1>1. TypeOK /\ OnceInLine /\ LineInOrder /\ (sent => current # NoCmd)
  BY DEF ConnectionInv, AtProgramPoints
<1>2. CASE UNCHANGED lineVars
  BY <1>1, <1>2, LineFrame
<1>3. ASSUME NEW k \in Kind \ {"info"}, Submit(k)
      PROVE  OnceInLine' /\ LineInOrder'
  <2>1. NewCommand(k) /\ UNCHANGED current
    BY <1>3 DEF Submit, Enqueue
  <2>2. CASE k = "priority"
    <3>1. pending' = <<Len(kind) + 1>> \o pending
      BY <1>3, <2>2 DEF Submit, Enqueue
    <3> QED
      BY <2>1, <2>2, <3>1, PushFront
  <2>3. CASE k # "priority"
    <3>1. pending' = Append(pending, Len(kind) + 1)
      BY <1>3, <2>3 DEF Submit, Enqueue
    <3> QED
      BY <2>1, <3>1, PushBack
  <2> QED
    BY <2>2, <2>3
<1>4. CASE DropQueuedLights
  BY <1>4, DropLights
<1>5. CASE CheckActive
  <2>1. /\ NewCommand("plain") /\ "plain" \in Kind
        /\ pending' = Append(pending, Len(kind) + 1)
        /\ current' = current
    BY <1>5 DEF CheckActive, Kind
  <2> QED
    BY <2>1, PushBack
<1>6. ASSUME NEW timedOut \in BOOLEAN, CheckReads(timedOut)
      PROVE  OnceInLine' /\ LineInOrder'
  <2>1. CASE timedOut
    <3>1. /\ current # NoCmd /\ UNCHANGED <<kind, replies>>
          /\ pending' = <<current>> \o pending /\ current' = NoCmd
      BY <1>1, <1>6, <2>1 DEF CheckReads, Requeue
    <3> QED
      BY <3>1, RequeueCurrent
  <2>2. CASE ~timedOut
    <3>1. UNCHANGED lineVars
      BY <1>6, <2>2 DEF CheckReads, Requeue, lineVars
    <3> QED
      BY <1>2, <3>1
  <2> QED
    BY <2>1, <2>2
<1>7. CASE HandleInfo
  <2>1. CASE current # NoCmd /\ kind[current] = "info"
    <3>1. /\ UNCHANGED <<kind, pending>> /\ UNCHANGED replies
          /\ current' = NoCmd /\ ~HasCallback(current) /\ 0 \in Nat
      BY <1>7, <2>1 DEF HandleInfo, HasCallback
    <3> QED
      BY <3>1, CompleteCurrent
  <2>2. CASE ~(current # NoCmd /\ kind[current] = "info")
    <3>1. UNCHANGED lineVars
      BY <1>7, <2>2 DEF HandleInfo, lineVars
    <3> QED
      BY <1>2, <3>1
  <2> QED
    BY <2>1, <2>2
<1>8. CASE HandleFragment
  <2>1. CASE active
    <3> DEFINE buffers == IF Head(data).type = "data"
                          THEN Append(readBuffers, Head(data).tag)
                          ELSE readBuffers
               reply == IF buffers = <<>> THEN Empty ELSE buffers[Len(buffers)]
    <3>1. data # <<>> /\ data \in Seq(Packet)
      BY <1>1, <1>8 DEF HandleFragment, Complete, TypeOK
    <3>2. Head(data) \in Packet /\ Head(data).tag \in Nat
      <4>1. Head(data) \in Packet
        BY <3>1
      <4> QED
        BY <4>1 DEF Packet
    <3>3. buffers \in Seq(Nat)
      BY <1>1, <3>2 DEF TypeOK
    <3>4. reply \in Nat
      <4> HIDE DEF buffers
      <4> QED
        BY <3>3 DEF Empty
    <3>5. /\ UNCHANGED <<kind, pending>> /\ current' = NoCmd
          /\ Call({current}, reply)
      BY <1>8, <2>1 DEF HandleFragment, Complete
    <3> HIDE DEF reply
    <3> QED
      BY <3>4, <3>5, CompleteCurrent
  <2>2. CASE ~active
    <3>1. UNCHANGED lineVars
      BY <1>8, <2>2 DEF HandleFragment, Complete, lineVars
    <3> QED
      BY <1>2, <3>1
  <2> QED
    BY <2>1, <2>2
<1>9. CASE HandOff
  BY <1>9, HandOffLine
<1>10. CASE Close
  BY <1>10, CloseLine
<1>11. CASE \/ Abandon \/ EnterUpdate \/ PacketsDone \/ Promote
            \/ BeginHandOff \/ Drain \/ JoinWriter \/ Gone
            \/ Writer \/ Poll \/ Pad \/ UNCHANGED vars
  <2>1. UNCHANGED lineVars
    BY <1>11 DEF Abandon, EnterUpdate, PacketsDone, Promote, BeginHandOff,
                 Drain, JoinWriter, Gone, Writer, Poll, Pad, WriterRecv,
                 WriterStop, WritePacket, WriteFail, WriterClear,
                 WriterReturn, PollRead, PollDeliver, PollFail, PadAnswer,
                 PadSilent, vars, handle, lineVars
  <2> QED
    BY <1>2, <2>1
<1> QED
  BY <1>3, <1>4, <1>5, <1>6, <1>7, <1>8, <1>9, <1>10, <1>11
     DEF Next, Api, Update

LEMMA ConnectionInvInit == Init => ConnectionInv
<1> SUFFICES ASSUME Init PROVE ConnectionInv
  OBVIOUS
<1>1. TypeOK /\ AtProgramPoints
  BY TypeInit
<1>2. /\ kind = <<"info">> /\ pending = <<1>> /\ current = 0
      /\ replies = <<<<>>>>
  BY DEF Init, NoCmd
<1>3. /\ DOMAIN pending = {1} /\ Members(pending) = {1} /\ Ticket = {1}
      /\ kind[1] = "info"
  BY <1>2 DEF Members, Ticket
<1>4. OnceInLine
  BY <1>2, <1>3 DEF OnceInLine, HasCallback
<1>5. LineInOrder
  BY <1>2, <1>3 DEF LineInOrder, NoCmd
<1> QED
  BY <1>1, <1>4, <1>5 DEF ConnectionInv

LEMMA ConnectionInvStep == ConnectionInv /\ [Next]_vars => ConnectionInv'
<1>1. ConnectionInv => TypeOK /\ AtProgramPoints
  BY DEF ConnectionInv
<1> QED
  BY <1>1, TypeStep, LineStep DEF ConnectionInv

\* The invariant of the connection holds for every number of commands, every
\* delay of the answers, and whatever the pad drops and the USB fails.
THEOREM ConnectionInvariant == Spec => []ConnectionInv
<1> QED
  BY ConnectionInvInit, ConnectionInvStep, PTL DEF Spec

\* No command's callback is lost or run twice, through timeouts and requeues,
\* stale answers, a refused hand-off and close(): it has run exactly when the
\* command has left the line, where it was once.
THEOREM CallbacksOnce == Spec => []CallbackOnce
<1>1. ConnectionInv => CallbackOnce
  <2> SUFFICES ASSUME ConnectionInv PROVE CallbackOnce
    OBVIOUS
  <2>1. TypeOK /\ OnceInLine
    BY DEF ConnectionInv
  <2>2. /\ pending \in Seq(Ticket) /\ current \in Ticket \cup {NoCmd}
        /\ Len(pending) \in Nat
        /\ \A i \in 1..Len(pending) : pending[i] \in Members(pending)
    BY <2>1 DEF TypeOK, Members
  <2>3. \A i, j \in DOMAIN Line : Line[i] = Line[j] => i = j
    <3>1. CASE current = NoCmd
      <4>1. Line = pending
        BY <2>2, <3>1 DEF Line
      <4> QED
        BY <2>1, <4>1 DEF OnceInLine
    <3>2. CASE current # NoCmd
      <4>1. Line = <<current>> \o pending /\ current \in Ticket
        BY <2>2, <3>2 DEF Line
      <4>2. /\ DOMAIN Line = 1..(Len(pending) + 1) /\ Line[1] = current
            /\ \A k \in 1..Len(pending) : Line[k + 1] = pending[k]
        BY <2>2, <4>1, Prepend
      <4>3. ASSUME NEW i \in DOMAIN Line
            PROVE  \/ i = 1 /\ Line[i] = current
                   \/ /\ i # 1 /\ i - 1 \in DOMAIN pending
                      /\ Line[i] = pending[i - 1]
                      /\ Line[i] # current
        <5>1. CASE i = 1
          BY <4>2, <5>1
        <5>2. CASE i # 1
          <6>1. i - 1 \in 1..Len(pending) /\ i = (i - 1) + 1
            BY <2>2, <4>2, <5>2
          <6>2. Line[i] = pending[i - 1]
            BY <4>2, <6>1
          <6>3. pending[i - 1] # current
            BY <2>1, <2>2, <6>1 DEF OnceInLine
          <6> QED
            BY <2>2, <5>2, <6>1, <6>2, <6>3
        <5> QED
          BY <5>1, <5>2
      <4>4. ASSUME NEW i \in DOMAIN Line, NEW j \in DOMAIN Line, Line[i] = Line[j]
            PROVE  i = j
        <5>1. i = 1 <=> j = 1
          BY <4>3, <4>4
        <5>2. CASE i # 1
          <6>1. i - 1 = j - 1
            BY <2>1, <4>3, <4>4, <5>1, <5>2 DEF OnceInLine
          <6> QED
            BY <2>2, <4>2, <6>1
        <5> QED
          BY <5>1, <5>2
      <4> QED
        BY <4>4
    <3> QED
      BY <3>1, <3>2
  <2> QED
    BY <2>1, <2>3, LineMembers DEF CallbackOnce, OnceInLine
<1> QED
  BY <1>1, ConnectionInvariant, PTL

-----------------------------------------------------------------------------
(* Order on the wire *)

LEMMA LineMembersNext ==
  TypeOK' => \A t \in Ticket' :
               t \in Members(Line)' <=> t \in Members(pending') \/ t = current'
<1> DEFINE Same == \A t \in Ticket :
                     t \in Members(Line) <=> t \in Members(pending) \/ t = current
<1>1. TypeOK => Same
  BY LineMembers
<1>2. TypeOK' => Same'
  BY <1>1, PTL
<1> QED
  BY <1>2 DEF Members

\* No step but a new command's brings anything into the line.
LEMMA LineShrinks ==
  ConnectionInv /\ [Next]_vars =>
    \A c \in Ticket : c \in Members(Line)' => c \in Members(Line)
<1> SUFFICES ASSUME ConnectionInv, [Next]_vars, NEW c \in Ticket,
                    c \in Members(Line)'
             PROVE  c \in Members(Line)
  OBVIOUS
<1>1. TypeOK /\ TypeOK' /\ (sent => current # NoCmd)
  BY ConnectionInvStep DEF ConnectionInv, AtProgramPoints
<1>2. c \in Ticket'
  <2>1. Len(kind) \in Nat /\ Len(kind') \in Nat /\ Len(kind) <= Len(kind')
    <3>1. kind \in Seq(Kind) /\ kind' \in Seq(Kind)
      BY <1>1 DEF TypeOK
    <3>2. UNCHANGED kind \/ \E k \in Kind : kind' = Append(kind, k)
      BY DEF Next, Api, Update, Writer, Poll, Pad, Submit, DropQueuedLights,
             Abandon, CheckActive, EnterUpdate, CheckReads, HandleInfo,
             HandleFragment, PacketsDone, Promote, BeginHandOff, HandOff,
             Drain, Close, JoinWriter, Gone, WriterRecv, WriterStop,
             WritePacket, WriteFail, WriterClear, WriterReturn, PollRead,
             PollDeliver, PollFail, PadAnswer, PadSilent, NewCommand, vars,
             handle, Kind
    <3> QED
      BY <3>1, <3>2
  <2> QED
    BY <2>1 DEF Ticket
<1>3. c \in Members(Line) <=> c \in Members(pending) \/ c = current
  BY <1>1, LineMembers
<1>4. c \in Members(pending') \/ c = current'
  BY <1>1, <1>2, LineMembersNext
<1>5. NoCmd \notin Ticket /\ Len(kind) + 1 \notin Ticket
  BY <1>1, TicketFacts
<1>6. pending \in Seq(Ticket)
  BY <1>1 DEF TypeOK
<1>7. CASE UNCHANGED <<pending, current>>
  BY <1>3, <1>4, <1>7
<1>8. CASE \/ \E k \in Kind \ {"info"} : Submit(k)
           \/ CheckActive
  <2>1. /\ current' = current
        /\ \/ pending' = Append(pending, Len(kind) + 1)
           \/ pending' = <<Len(kind) + 1>> \o pending
    BY <1>8 DEF Submit, Enqueue, CheckActive
  <2>2. pending \in Seq(Nat) /\ Len(kind) + 1 \in Nat
    BY <1>1, <1>6, TicketFacts
  <2>3. Members(pending') = Members(pending) \cup {Len(kind) + 1}
    <3>1. CASE pending' = Append(pending, Len(kind) + 1)
      BY <2>2, <3>1, MembersAppend, Zenon
    <3>2. CASE pending' = <<Len(kind) + 1>> \o pending
      <4>1. Members(<<Len(kind) + 1>> \o pending)
              = Members(pending) \cup {Len(kind) + 1}
        BY <2>2, Prepend
      <4> QED
        BY <3>2, <4>1, Zenon
    <3> QED
      BY <2>1, <3>1, <3>2
  <2> QED
    BY <1>3, <1>4, <1>5, <2>1, <2>3
<1>9. CASE DropQueuedLights
  <2>1. Members(pending') \subseteq Members(pending)
    BY <1>9, DropLights
  <2> QED
    BY <1>3, <1>4, <1>9, <2>1 DEF DropQueuedLights
<1>10. ASSUME NEW timedOut \in BOOLEAN, CheckReads(timedOut)
       PROVE  c \in Members(Line)
  <2>1. CASE timedOut
    <3>1. /\ current \in Ticket /\ current' = NoCmd
          /\ pending' = <<current>> \o pending
      BY <1>1, <1>10, <2>1 DEF CheckReads, Requeue, TypeOK
    <3>2. Members(pending') = Members(pending) \cup {current}
      BY <1>6, <3>1, Prepend
    <3> QED
      BY <1>3, <1>4, <1>5, <3>1, <3>2
  <2>2. CASE ~timedOut
    BY <1>7, <1>10, <2>2 DEF CheckReads, Requeue
  <2> QED
    BY <2>1, <2>2
<1>11. CASE HandleInfo \/ HandleFragment
  <2>1. pending' = pending /\ (current' = current \/ current' = NoCmd)
    BY <1>11 DEF HandleInfo, HandleFragment, Complete
  <2> QED
    BY <1>3, <1>4, <1>5, <2>1
<1>12. CASE HandOff
  <2>1. pending # <<>> /\ current = NoCmd
    BY <1>12 DEF ConnectionInv, AtProgramPoints, HandOff
  <2>2. Members(pending) = Members(pending') \cup {Head(pending)}
    BY <1>6, <1>12, <2>1, HeadTail DEF HandOff
  <2>3. current' = Head(pending) \/ current' = current
    BY <1>12 DEF HandOff
  <2> QED
    BY <1>3, <1>4, <1>5, <2>1, <2>2, <2>3
<1>13. CASE Close
  <2>1. Members(pending') = {} /\ current' = NoCmd
    BY <1>13 DEF Close, Cancelled, Members
  <2> QED
    BY <1>4, <1>5, <2>1
<1>14. CASE \/ Abandon \/ EnterUpdate \/ PacketsDone \/ Promote
            \/ BeginHandOff \/ Drain \/ JoinWriter \/ Gone
            \/ Writer \/ Poll \/ Pad \/ UNCHANGED vars
  <2>1. UNCHANGED <<pending, current>>
    BY <1>14 DEF Abandon, EnterUpdate, PacketsDone, Promote, BeginHandOff,
                 Drain, JoinWriter, Gone, Writer, Poll, Pad, WriterRecv,
                 WriterStop, WritePacket, WriteFail, WriterClear,
                 WriterReturn, PollRead, PollDeliver, PollFail, PadAnswer,
                 PadSilent, vars, handle
  <2> QED
    BY <1>7, <2>1
<1> QED
  BY <1>8, <1>9, <1>10, <1>11, <1>12, <1>13, <1>14 DEF Next, Api, Update

\* Only a hand-off puts a job in the channel, and it is the oldest pushed-back
\* command of the line if it is one.
LEMMA HandsOverOldest ==
  ConnectionInv /\ [Next]_vars =>
    \A b \in Ticket :
      jobs' = Append(jobs, b) /\ PushedBack(b) =>
        \A c \in Members(Line) : PushedBack(c) => b <= c
<1> SUFFICES ASSUME ConnectionInv, [Next]_vars, NEW b \in Ticket,
                    jobs' = Append(jobs, b), PushedBack(b),
                    NEW c \in Members(Line), PushedBack(c)
             PROVE  b <= c
  OBVIOUS
<1>1. TypeOK /\ LineInOrder /\ jobs \in Seq(Ticket) /\ pending \in Seq(Ticket)
      /\ Ticket \subseteq Nat
  BY TicketFacts DEF ConnectionInv, TypeOK
<1>2. Len(jobs') = Len(jobs) + 1 /\ Len(jobs) \in Nat
  BY <1>1
<1>3. HandOff
  <2>1. ~UNCHANGED jobs
    BY <1>2
  <2>2. ~WriterRecv
    <3>1. ASSUME WriterRecv PROVE FALSE
      <4>1. jobs' = Tail(jobs) /\ jobs # <<>>
        BY <3>1 DEF WriterRecv
      <4>2. Len(jobs') = Len(jobs) - 1
        BY <1>1, <4>1
      <4> QED
        BY <1>2, <4>2
    <3> QED
      BY <3>1
  <2> QED
    BY <2>1, <2>2
       DEF Next, Api, Update, Writer, Poll, Pad, Submit, DropQueuedLights,
           Abandon, CheckActive, EnterUpdate, CheckReads, HandleInfo,
           HandleFragment, PacketsDone, Promote, BeginHandOff, Drain, Close,
           JoinWriter, Gone, WriterStop, WritePacket, WriteFail, WriterClear,
           WriterReturn, PollRead, PollDeliver, PollFail, PadAnswer,
           PadSilent, vars, writing
<1>4. current = NoCmd /\ pending # <<>>
  BY <1>3 DEF ConnectionInv, AtProgramPoints, HandOff
<1>5. jobs' = Append(jobs, Head(pending))
  <2>1. jobs' = jobs \/ jobs' = Append(jobs, Head(pending))
    BY <1>3 DEF HandOff
  <2> QED
    BY <1>2, <2>1
<1>6. b = Head(pending) /\ b = pending[1]
  <2>1. Head(pending) \in Ticket /\ Head(pending) = pending[1]
    BY <1>1, <1>4, HeadTail
  <2>2. /\ Append(jobs, b)[Len(jobs) + 1] = b
        /\ Append(jobs, Head(pending))[Len(jobs) + 1] = Head(pending)
    BY <1>1, <2>1
  <2> QED
    BY <1>5, <2>1, <2>2
<1>7. c \in Members(pending) /\ c \in Ticket
  <2>1. c \in Ticket
    BY <1>1, LineMembers
  <2> QED
    BY <1>1, <1>4, <2>1, LineMembers, TicketFacts
<1>8. PICK i \in DOMAIN pending : c = pending[i]
  BY <1>7 DEF Members
<1>9. i \in Nat /\ 1 <= i /\ 1 \in DOMAIN pending
  BY <1>1, <1>4
<1>10. CASE i = 1
  BY <1>1, <1>6, <1>8, <1>10
<1>11. CASE i # 1
  <2>1. pending[1] < pending[i]
    BY <1>1, <1>6, <1>8, <1>9, <1>11 DEF LineInOrder
  <2> QED
    BY <1>1, <1>6, <1>7, <1>8, <2>1
<1> QED
  BY <1>10, <1>11

\* Commands queued at the back are written in the order they were queued,
\* retries included, and a resolved one is never written again: no lights
\* frame reaches the pad after the command that re-enabled its own lighting.
THEOREM WrittenInOrder == Spec => WireInOrder
<1>1. ConnectionInv /\ [Next]_vars =>
        [/\ \A b \in Ticket :
               jobs' = Append(jobs, b) /\ PushedBack(b) =>
                 \A c \in Members(Line) : PushedBack(c) => b <= c
         /\ \A c \in Ticket : c \in Members(Line)' => c \in Members(Line)]_vars
  BY LineShrinks, HandsOverOldest
<1> QED
  BY <1>1, ConnectionInvariant, PTL DEF Spec, WireInOrder

-----------------------------------------------------------------------------
(***************************************************************************)
(* When no answer is later than the response timeout (MaxLate = 0): one    *)
(* command at a time is between the queue and its answer, so the answer    *)
(* that completes a command is its own.                                    *)
(***************************************************************************)

\* What is on its way to the pad and back, with what check_reads has taken.
Flight == InTransit + Len(data)

\* The writer thread's share of it.
AtWriter == IF writer = "write" THEN 1 ELSE 0

\* The handle is in use.
InUse == main \notin {"dropping", "gone"}

\* Every ticket of q, and every packet of q, is for command c.
Only(q, c)    == \A i \in DOMAIN q : q[i] = c
Answers(q, c) == \A i \in DOMAIN q : q[i].tag = c

-----------------------------------------------------------------------------
(* The inductive invariant *)

\* Nothing is on its way but the command in flight, or its answer.
OneInTransit ==
  InUse =>
    /\ Flight <= (IF current = NoCmd THEN 0 ELSE 1)
    /\ Only(jobs, current) /\ Only(received, current)
    /\ writer = "write" => job = current
    /\ Answers(usbIn, current) /\ Answers(gathered, current)
    /\ Answers(report6, current) /\ Answers(data, current)

\* check_reads looks at every packet it has taken.
DataHere == data # <<>> => main = "packets"

\* No payload of an earlier command waits when an answer is looked at.
BuffersFresh ==
  main \in {"idle", "reads"} \/ (main = "packets" /\ data # <<>>)
    => readBuffers = <<>>

TransitInv ==
  OneInTransit /\ OneJobAtWriter /\ DataHere /\ BuffersFresh

AnswerInv == TypeOK /\ AtProgramPoints /\ TransitInv /\ ReplyIsOwn

-----------------------------------------------------------------------------
(* Sequences of tickets and of packets *)

LEMMA Lengths ==
  ASSUME TypeOK
  PROVE  /\ Len(jobs) \in Nat /\ Len(received) \in Nat /\ Len(usbIn) \in Nat
         /\ Len(gathered) \in Nat /\ Len(report6) \in Nat /\ Len(data) \in Nat
         /\ AtWriter \in {0, 1} /\ InTransit \in Nat /\ Flight \in Nat
         /\ Flight = Len(jobs) + (IF writer = "write" THEN 1 ELSE 0)
                       + Len(received) + Len(usbIn) + Len(gathered)
                       + Len(report6) + Len(data)
<1>1. /\ Len(jobs) \in Nat /\ Len(received) \in Nat /\ Len(usbIn) \in Nat
      /\ Len(gathered) \in Nat /\ Len(report6) \in Nat /\ Len(data) \in Nat
  BY DEF TypeOK
<1> QED
  BY <1>1 DEF InTransit, Flight, AtWriter

\* The same sum, in this state and in the next one.
LEMMA FlightSum ==
  /\ Flight = Len(jobs) + AtWriter + Len(received) + Len(usbIn) + Len(gathered)
                + Len(report6) + Len(data)
  /\ Flight' = Len(jobs') + AtWriter' + Len(received') + Len(usbIn')
                 + Len(gathered') + Len(report6') + Len(data')
BY DEF Flight, InTransit, AtWriter

LEMMA EmptySeq ==
  ASSUME NEW V, NEW q \in Seq(V), Len(q) = 0
  PROVE  q = <<>> /\ \A c : Only(q, c) /\ Answers(q, c)
BY DEF Only, Answers

\* What is taken from the front of q, and what stays.
LEMMA Takes ==
  ASSUME NEW V, NEW q \in Seq(V), q # <<>>
  PROVE  /\ Len(q) \in Nat \ {0} /\ Head(q) = q[1] /\ 1 \in DOMAIN q
         /\ Head(q) \in V /\ Tail(q) \in Seq(V) /\ Len(Tail(q)) = Len(q) - 1
         /\ \A c : Only(q, c) => Head(q) = c /\ Only(Tail(q), c)
         /\ \A c : Answers(q, c) => Head(q).tag = c /\ Answers(Tail(q), c)
<1>1. /\ Len(q) \in Nat \ {0} /\ Head(q) = q[1] /\ DOMAIN q = 1..Len(q)
      /\ Head(q) \in V /\ Tail(q) \in Seq(V) /\ Len(Tail(q)) = Len(q) - 1
      /\ \A i \in DOMAIN Tail(q) : Tail(q)[i] = q[i + 1] /\ i + 1 \in DOMAIN q
  OBVIOUS
<1> QED
  BY <1>1 DEF Only, Answers

\* What is put at the back of q.
LEMMA Puts ==
  ASSUME NEW V, NEW q \in Seq(V), NEW v \in V
  PROVE  /\ Append(q, v) \in Seq(V) /\ Len(Append(q, v)) = Len(q) + 1
         /\ \A c : Only(q, c) /\ v = c => Only(Append(q, v), c)
         /\ \A c : Answers(q, c) /\ v.tag = c => Answers(Append(q, v), c)
<1>1. /\ Append(q, v) \in Seq(V) /\ Len(Append(q, v)) = Len(q) + 1
      /\ \A i \in DOMAIN Append(q, v) :
           \/ i \in DOMAIN q /\ Append(q, v)[i] = q[i]
           \/ Append(q, v)[i] = v
  OBVIOUS
<1> QED
  BY <1>1 DEF Only, Answers

LEMMA Joins ==
  ASSUME NEW p \in Seq(Packet), NEW q \in Seq(Packet)
  PROVE  /\ p \o q \in Seq(Packet) /\ Len(p \o q) = Len(p) + Len(q)
         /\ \A c : Answers(p, c) /\ Answers(q, c) => Answers(p \o q, c)
<1>1. /\ p \o q \in Seq(Packet) /\ Len(p \o q) = Len(p) + Len(q)
      /\ DOMAIN (p \o q) = 1..(Len(p) + Len(q))
      /\ DOMAIN p = 1..Len(p) /\ DOMAIN q = 1..Len(q)
      /\ Len(p) \in Nat /\ Len(q) \in Nat
      /\ \A i \in 1..(Len(p) + Len(q)) :
           (p \o q)[i] = IF i <= Len(p) THEN p[i] ELSE q[i - Len(p)]
  OBVIOUS
<1> QED
  BY <1>1 DEF Answers

-----------------------------------------------------------------------------
(* Steps: what is on its way *)

flightVars == <<jobs, received, writer, job, usbIn, gathered, report6, data>>

\* The main thread's steps that put nothing on its way and take nothing off it.
LEMMA TransitMain ==
  ASSUME TransitInv,
         \/ \E k \in Kind : Submit(k)
         \/ DropQueuedLights \/ CheckActive \/ Abandon
         \/ EnterUpdate \/ PacketsDone \/ Promote \/ BeginHandOff \/ Drain
         \/ Close \/ JoinWriter \/ Gone \/ UNCHANGED vars
  PROVE  TransitInv'
<1> USE DEF TransitInv
<1>1. UNCHANGED flightVars /\ (InUse' => InUse /\ current' = current)
  BY DEF flightVars, InUse, Submit, DropQueuedLights, CheckActive, Abandon,
         EnterUpdate, PacketsDone, Promote, BeginHandOff, Drain, Close,
         JoinWriter, Gone, vars, handle, writing, pad
<1>2. OneInTransit' /\ OneJobAtWriter'
  <2>1. Flight' = Flight /\ OneJobAtWriter'
    BY <1>1 DEF flightVars, Flight, InTransit, OneJobAtWriter
  <2> QED
    BY <1>1, <2>1 DEF flightVars, OneInTransit, Only, Answers
<1>3. DataHere' /\ BuffersFresh'
  BY <1>1 DEF DataHere, BuffersFresh, flightVars, Submit, DropQueuedLights,
              CheckActive, Abandon, EnterUpdate, PacketsDone, Promote,
              BeginHandOff, Drain, Close, JoinWriter, Gone, vars, handle
<1> QED
  BY <1>2, <1>3

LEMMA TransitReads ==
  ASSUME MaxLate = 0, TypeOK, TransitInv, NEW timedOut \in BOOLEAN,
         CheckReads(timedOut)
  PROVE  TransitInv'
<1> USE DEF TransitInv
<1>1. /\ main = "reads" /\ main' = "packets" /\ data = <<>> /\ InUse
      /\ data' = report6 /\ report6' = <<>>
      /\ readBuffers = <<>> /\ readBuffers' = readBuffers
      /\ UNCHANGED <<jobs, received, writer, job, usbIn, gathered>>
  BY DEF CheckReads, DataHere, BuffersFresh, InUse, writing, pad
<1>2. Flight' = Flight /\ OneJobAtWriter'
  BY <1>1, Lengths DEF Flight, InTransit, OneJobAtWriter
<1>3. OneInTransit'
  <2>1. CASE timedOut
    <3>1. InTransit = 0 /\ Flight = 0
      BY <1>1, <2>1, Lengths DEF CheckReads, Flight
    <3>2. /\ Len(jobs) = 0 /\ Len(received) = 0 /\ Len(usbIn) = 0
          /\ Len(gathered) = 0 /\ Len(report6) = 0 /\ writer # "write"
      BY <3>1, Lengths
    <3>3. /\ Only(jobs, NoCmd) /\ Only(received, NoCmd)
          /\ Answers(usbIn, NoCmd) /\ Answers(gathered, NoCmd)
          /\ Answers(report6, NoCmd) /\ Answers(<<>>, NoCmd)
      BY <3>2, EmptySeq DEF TypeOK, Answers
    <3>4. current' = NoCmd
      BY <2>1 DEF CheckReads
    <3> QED
      BY <1>1, <1>2, <3>1, <3>2, <3>3, <3>4 DEF OneInTransit
  <2>2. CASE ~timedOut
    <3>1. current' = current
      BY <2>2 DEF CheckReads
    <3>2. Answers(<<>>, current)
      BY DEF Answers
    <3> QED
      BY <1>1, <1>2, <3>1, <3>2 DEF OneInTransit
  <2> QED
    BY <2>1, <2>2
<1>4. DataHere' /\ BuffersFresh'
  BY <1>1 DEF DataHere, BuffersFresh
<1> QED
  BY <1>2, <1>3, <1>4

LEMMA TransitPacket ==
  ASSUME TypeOK, TransitInv, HandleInfo \/ HandleFragment
  PROVE  TransitInv'
<1> USE DEF TransitInv
<1>1. /\ main = "packets" /\ main' = "packets" /\ data # <<>> /\ InUse
      /\ data' = Tail(data)
      /\ UNCHANGED <<jobs, received, writer, job, usbIn, gathered, report6>>
  BY DEF HandleInfo, HandleFragment, Complete, InUse, writing, pad
<1>2. Len(data) = 1 /\ Len(data') = 0 /\ data' \in Seq(Packet)
  <2>1. data \in Seq(Packet)
    BY DEF TypeOK
  <2>2. /\ Len(data) \in Nat \ {0} /\ Len(data') = Len(data) - 1
        /\ data' \in Seq(Packet)
    BY <1>1, <2>1, Takes
  <2>3. Flight <= 1
    BY <1>1, Lengths DEF OneInTransit
  <2> QED
    BY <2>2, <2>3, Lengths
<1>3. /\ Len(jobs) = 0 /\ Len(received) = 0 /\ Len(usbIn) = 0
      /\ Len(gathered) = 0 /\ Len(report6) = 0 /\ writer # "write"
  BY <1>1, <1>2, Lengths DEF OneInTransit
<1>4. \A c : /\ Only(jobs, c) /\ Only(received, c) /\ Answers(usbIn, c)
            /\ Answers(gathered, c) /\ Answers(report6, c)
            /\ Answers(data', c)
  BY <1>2, <1>3, EmptySeq DEF TypeOK
<1>5. Flight' = 0 /\ OneJobAtWriter'
  BY <1>1, <1>2, <1>3 DEF Flight, InTransit, OneJobAtWriter
<1>6. OneInTransit'
  BY <1>1, <1>3, <1>4, <1>5 DEF OneInTransit
<1>7. data' = <<>>
  BY <1>2, EmptySeq
<1> QED
  BY <1>1, <1>5, <1>6, <1>7 DEF DataHere, BuffersFresh

LEMMA TransitHandOff ==
  ASSUME TypeOK, AtProgramPoints, TransitInv, HandOff
  PROVE  TransitInv'
<1> USE DEF TransitInv
<1> DEFINE h == Head(pending)
<1>1. /\ main = "handoff" /\ main' \in {"drain", "failed"} /\ InUse
      /\ current = NoCmd
      /\ UNCHANGED <<received, writer, job, usbIn, gathered, report6, data>>
  BY DEF HandOff, AtProgramPoints, InUse, pad
<1>2. h \in Ticket /\ h # NoCmd
  BY Takes, TicketFacts DEF HandOff, AtProgramPoints, TypeOK
<1>3. /\ Len(jobs) = 0 /\ Len(received) = 0 /\ Len(usbIn) = 0 /\ Flight = 0
      /\ Len(gathered) = 0 /\ Len(report6) = 0 /\ writer # "write"
      /\ Len(data) = 0
  BY <1>1, Lengths DEF OneInTransit
<1>4. \A c : /\ Only(jobs, c) /\ Only(received, c) /\ Answers(usbIn, c)
            /\ Answers(gathered, c) /\ Answers(report6, c)
            /\ Answers(data, c)
  BY <1>3, EmptySeq DEF TypeOK
<1>5. CASE writer # "exited"
  <2>1. jobs' = Append(jobs, h) /\ current' = h
    BY <1>5 DEF HandOff
  <2>2. Len(jobs') = 1 /\ Only(jobs', h)
    <3>1. jobs \in Seq(Ticket)
      BY DEF TypeOK
    <3>2. Len(jobs') = Len(jobs) + 1 /\ (Only(jobs, h) => Only(jobs', h))
      BY <1>2, <2>1, <3>1, Puts
    <3> QED
      BY <1>3, <1>4, <3>2
  <2>3. Flight' = 1 /\ OneJobAtWriter'
    BY <1>1, <1>3, <2>2 DEF Flight, InTransit, OneJobAtWriter
  <2>4. OneInTransit'
    BY <1>1, <1>2, <1>3, <1>4, <2>1, <2>2, <2>3 DEF OneInTransit
  <2> QED
    BY <1>1, <2>3, <2>4 DEF DataHere, BuffersFresh
<1>6. CASE writer = "exited"
  <2>1. jobs' = jobs /\ current' = current
    BY <1>6 DEF HandOff
  <2>2. Flight' = Flight /\ OneJobAtWriter'
    BY <1>1, <2>1 DEF Flight, InTransit, OneJobAtWriter
  <2>3. OneInTransit'
    BY <1>1, <1>3, <1>4, <2>1, <2>2 DEF OneInTransit
  <2> QED
    BY <1>1, <2>2, <2>3 DEF DataHere, BuffersFresh
<1> QED
  BY <1>5, <1>6

LEMMA TransitWriter ==
  ASSUME TypeOK, AtProgramPoints, TransitInv, Writer
  PROVE  TransitInv'
<1> USE DEF TransitInv
<1>1. UNCHANGED <<main, current, readBuffers, usbIn, gathered, report6, data>>
  BY DEF Writer, WriterRecv, WriterStop, WritePacket, WriteFail, WriterClear,
         WriterReturn, handle, pad
<1>2. DataHere' /\ BuffersFresh' /\ InUse' = InUse
  BY <1>1 DEF DataHere, BuffersFresh, InUse
<1>3. CASE WriterRecv
  <2>1. /\ writer = "recv" /\ writer' = "write" /\ received' = received
        /\ jobs # <<>> /\ jobs' = Tail(jobs) /\ job' = Head(jobs)
    BY <1>3 DEF WriterRecv, pad
  <2>2. jobs \in Seq(Ticket)
    BY DEF TypeOK
  <2>3. /\ Len(jobs) \in Nat /\ Len(jobs') = Len(jobs) - 1
        /\ \A c : Only(jobs, c) => job' = c /\ Only(jobs', c)
    BY <2>1, <2>2, Takes
  <2>4. Flight' = Flight /\ OneJobAtWriter'
    BY <1>1, <2>1, <2>3, Lengths DEF Flight, InTransit, OneJobAtWriter
  <2> QED
    BY <1>1, <1>2, <2>1, <2>3, <2>4 DEF OneInTransit
<1>4. CASE WritePacket
  <2>1. writer = "write" /\ jobs' = jobs /\ job' = job /\ job \in Ticket
    BY <1>4 DEF WritePacket, AtProgramPoints, TypeOK
  <2>2. CASE left = 1
    <3>1. writer' = "clear" /\ received' = Append(received, job)
      BY <1>4, <2>2 DEF WritePacket
    <3>2. received \in Seq(Ticket)
      BY DEF TypeOK
    <3>3. /\ Len(received') = Len(received) + 1
          /\ \A c : Only(received, c) /\ job = c => Only(received', c)
      BY <2>1, <3>1, <3>2, Puts
    <3>4. Flight' = Flight /\ OneJobAtWriter'
      BY <1>1, <2>1, <3>1, <3>3, Lengths DEF Flight, InTransit, OneJobAtWriter
    <3> QED
      BY <1>1, <1>2, <2>1, <3>1, <3>3, <3>4 DEF OneInTransit
  <2>3. CASE left # 1
    <3>1. writer' = writer /\ received' = received
      BY <1>4, <2>3 DEF WritePacket
    <3>2. Flight' = Flight /\ OneJobAtWriter'
      BY <1>1, <2>1, <3>1 DEF Flight, InTransit, OneJobAtWriter
    <3> QED
      BY <1>1, <1>2, <2>1, <3>1, <3>2 DEF OneInTransit
  <2> QED
    BY <2>2, <2>3
<1>5. CASE WriterStop \/ WriteFail \/ WriterClear \/ WriterReturn
  <2>1. writer' # "write" /\ jobs' = jobs /\ received' = received
    BY <1>5 DEF WriterStop, WriteFail, WriterClear, WriterReturn, pad
  <2>2. Flight' <= Flight /\ Flight \in Nat /\ Flight' \in Nat
        /\ OneJobAtWriter'
    BY <1>1, <2>1, Lengths DEF Flight, InTransit, OneJobAtWriter
  <2>3. Flight <= (IF current = NoCmd THEN 0 ELSE 1)
          => Flight' <= (IF current' = NoCmd THEN 0 ELSE 1)
    BY <1>1, <2>2
  <2> QED
    BY <1>1, <1>2, <2>1, <2>2, <2>3 DEF OneInTransit
<1> QED
  BY <1>3, <1>4, <1>5 DEF Writer

LEMMA TransitPoll ==
  ASSUME TypeOK, TransitInv, Poll
  PROVE  TransitInv'
<1> USE DEF TransitInv
<1>1. UNCHANGED <<main, current, readBuffers, jobs, writer, job, received,
                  data>>
  BY DEF Poll, PollRead, PollDeliver, PollFail, handle, writing, pad
<1>2. DataHere' /\ BuffersFresh' /\ InUse' = InUse /\ OneJobAtWriter'
  BY <1>1 DEF DataHere, BuffersFresh, InUse, OneJobAtWriter
<1>3. /\ usbIn \in Seq(Packet) /\ gathered \in Seq(Packet)
      /\ report6 \in Seq(Packet)
  BY DEF TypeOK
<1>4. CASE PollRead
  <2>1. /\ usbIn # <<>> /\ usbIn' = Tail(usbIn) /\ report6' = report6
        /\ gathered' = Append(gathered, Head(usbIn))
    BY <1>4 DEF PollRead
  <2>2. /\ Len(usbIn') = Len(usbIn) - 1 /\ Head(usbIn) \in Packet
        /\ \A c : Answers(usbIn, c) => Answers(usbIn', c) /\ Head(usbIn).tag = c
    BY <1>3, <2>1, Takes
  <2>3. /\ Len(gathered') = Len(gathered) + 1
        /\ \A c : Answers(gathered, c) /\ Head(usbIn).tag = c
                  => Answers(gathered', c)
    BY <1>3, <2>1, <2>2, Puts
  <2>4. Flight' = Flight
    <3>1. /\ Len(usbIn') = Len(usbIn) - 1 /\ Len(gathered') = Len(gathered) + 1
          /\ Len(usbIn') \in Int /\ Len(gathered') \in Int
      BY <2>2, <2>3, Lengths
    <3>2. report6' = report6
      BY <2>1
    <3>3. /\ Len(jobs') = Len(jobs) /\ AtWriter' = AtWriter
          /\ Len(received') = Len(received) /\ Len(data') = Len(data)
      BY <1>1 DEF AtWriter
    <3>4. /\ Len(jobs) \in Nat /\ Len(received) \in Nat /\ Len(usbIn) \in Nat
          /\ Len(gathered) \in Nat /\ Len(report6) \in Nat
          /\ Len(data) \in Nat /\ AtWriter \in Nat
      BY Lengths
    <3> QED
      BY <3>1, <3>2, <3>3, <3>4, FlightSum
  <2> QED
    BY <1>1, <1>2, <2>1, <2>2, <2>3, <2>4 DEF OneInTransit
<1>5. CASE PollDeliver
  <2>1. /\ usbIn' = usbIn /\ report6' = report6 \o gathered
        /\ gathered' = <<>>
    BY <1>5 DEF PollDeliver, pad
  <2>2. /\ Len(report6') = Len(report6) + Len(gathered)
        /\ \A c : Answers(report6, c) /\ Answers(gathered, c)
                  => Answers(report6', c)
    BY <1>3, <2>1, Joins
  <2>3. Len(gathered') = 0 /\ \A c : Answers(gathered', c)
    BY <2>1 DEF Answers
  <2>4. Flight' = Flight
    <3>1. Len(report6') = Len(report6) + Len(gathered) /\ Len(gathered') = 0
      BY <2>2, <2>3
    <3>2. usbIn' = usbIn
      BY <2>1
    <3>3. /\ Len(jobs') = Len(jobs) /\ AtWriter' = AtWriter
          /\ Len(received') = Len(received) /\ Len(data') = Len(data)
      BY <1>1 DEF AtWriter
    <3>4. /\ Len(jobs) \in Nat /\ Len(received) \in Nat /\ Len(usbIn) \in Nat
          /\ Len(gathered) \in Nat /\ Len(report6) \in Nat
          /\ Len(data) \in Nat /\ AtWriter \in Nat
      BY Lengths
    <3> QED
      BY <3>1, <3>2, <3>3, <3>4, FlightSum
  <2> QED
    BY <1>1, <1>2, <2>1, <2>2, <2>3, <2>4 DEF OneInTransit
<1>6. CASE PollFail
  <2>1. usbIn' = usbIn /\ report6' = report6 /\ gathered' = <<>>
    BY <1>6 DEF PollFail, pad
  <2>2. Len(gathered') = 0 /\ \A c : Answers(gathered', c)
    BY <2>1 DEF Answers
  <2>3. Flight' <= Flight /\ Flight \in Nat /\ Flight' \in Nat
    BY <1>1, <2>1, <2>2, Lengths DEF Flight, InTransit
  <2>4. Flight <= (IF current = NoCmd THEN 0 ELSE 1)
          => Flight' <= (IF current' = NoCmd THEN 0 ELSE 1)
    BY <1>1, <2>3
  <2> QED
    BY <1>1, <1>2, <2>1, <2>2, <2>4 DEF OneInTransit
<1> QED
  BY <1>4, <1>5, <1>6 DEF Poll

LEMMA TransitPad ==
  ASSUME TypeOK, TransitInv, Pad
  PROVE  TransitInv'
<1> USE DEF TransitInv
<1>1. /\ UNCHANGED <<main, current, readBuffers, jobs, writer, job, gathered,
                     report6, data>>
      /\ received # <<>> /\ received' = Tail(received)
  BY DEF Pad, PadAnswer, PadSilent, handle, writing
<1>2. DataHere' /\ BuffersFresh' /\ InUse' = InUse /\ OneJobAtWriter'
  BY <1>1 DEF DataHere, BuffersFresh, InUse, OneJobAtWriter
<1>3. received \in Seq(Ticket) /\ usbIn \in Seq(Packet)
  BY DEF TypeOK
<1>4. /\ Len(received') = Len(received) - 1 /\ Head(received) \in Ticket
      /\ \A c : Only(received, c) => Head(received) = c /\ Only(received', c)
  BY <1>1, <1>3, Takes
<1>5. CASE PadAnswer
  <2>1. PICK t \in AnswerTypes(Head(received)) :
          usbIn' = Append(usbIn, [tag |-> Head(received), type |-> t])
    BY <1>5 DEF PadAnswer
  <2>2. [tag |-> Head(received), type |-> t] \in Packet
    BY <1>4, <2>1, TicketFacts DEF Packet, AnswerTypes
  <2>3. /\ Len(usbIn') = Len(usbIn) + 1
        /\ \A c : Answers(usbIn, c) /\ Head(received) = c => Answers(usbIn', c)
    BY <1>3, <2>1, <2>2, Puts
  <2>4. Flight' = Flight
    <3>1. /\ Len(usbIn') = Len(usbIn) + 1 /\ Len(received') = Len(received) - 1
          /\ Len(usbIn') \in Int /\ Len(received') \in Int
      BY <1>4, <2>3, Lengths
    <3>2. /\ Len(jobs') = Len(jobs) /\ AtWriter' = AtWriter
          /\ Len(gathered') = Len(gathered) /\ Len(report6') = Len(report6)
          /\ Len(data') = Len(data)
      BY <1>1 DEF AtWriter
    <3>3. /\ Len(jobs) \in Nat /\ Len(received) \in Nat /\ Len(usbIn) \in Nat
          /\ Len(gathered) \in Nat /\ Len(report6) \in Nat
          /\ Len(data) \in Nat /\ AtWriter \in Nat
      BY Lengths
    <3> QED
      BY <3>1, <3>2, <3>3, FlightSum
  <2> QED
    BY <1>1, <1>2, <1>4, <2>3, <2>4 DEF OneInTransit
<1>6. CASE PadSilent
  <2>1. usbIn' = usbIn
    BY <1>6 DEF PadSilent
  <2>2. Flight' <= Flight /\ Flight \in Nat /\ Flight' \in Nat
    BY <1>1, <1>4, <2>1, Lengths DEF Flight, InTransit
  <2>3. Flight <= (IF current = NoCmd THEN 0 ELSE 1)
          => Flight' <= (IF current' = NoCmd THEN 0 ELSE 1)
    BY <1>1, <2>2
  <2> QED
    BY <1>1, <1>2, <1>4, <2>1, <2>3 DEF OneInTransit
<1> QED
  BY <1>5, <1>6 DEF Pad

LEMMA TransitInit == Init => TransitInv
<1> SUFFICES ASSUME Init PROVE TransitInv
  OBVIOUS
<1>1. Flight = 0 /\ writer = "recv"
  BY DEF Init, Flight, InTransit
<1> QED
  BY <1>1 DEF Init, TransitInv, OneInTransit, OneJobAtWriter, DataHere,
              BuffersFresh, Only, Answers

LEMMA TransitStep ==
  ASSUME MaxLate = 0
  PROVE  TypeOK /\ AtProgramPoints /\ TransitInv /\ [Next]_vars => TransitInv'
BY TransitMain, TransitReads, TransitPacket, TransitHandOff, TransitWriter,
   TransitPoll, TransitPad DEF Next, Api, Update

-----------------------------------------------------------------------------
(* Steps: what callbacks are given *)

\* A callback is given the answer to its own command, or nothing.
LEMMA CallOwn ==
  ASSUME TypeOK, ReplyIsOwn, UNCHANGED kind, NEW called, NEW r \in Nat,
         Call(called, r), \A c \in called : r \in {c, Empty}
  PROVE  ReplyIsOwn'
<1>1. /\ replies \in Seq(Seq(Nat)) /\ DOMAIN replies = Ticket
      /\ Ticket' = Ticket
  BY DEF TypeOK, Ticket
<1> SUFFICES ASSUME NEW c \in Ticket, NEW i \in DOMAIN replies'[c]
             PROVE  replies'[c][i] \in {c, Empty}
  BY <1>1 DEF ReplyIsOwn
<1>2. replies[c] \in Seq(Nat)
  BY <1>1
<1>3. CASE c \in called /\ HasCallback(c)
  <2>1. replies'[c] = Append(replies[c], r)
    BY <1>1, <1>3 DEF Call
  <2>2. \/ i \in DOMAIN replies[c] /\ replies'[c][i] = replies[c][i]
        \/ replies'[c][i] = r
    BY <1>2, <2>1
  <2> QED
    BY <1>3, <2>2 DEF ReplyIsOwn
<1>4. CASE ~(c \in called /\ HasCallback(c))
  <2>1. replies'[c] = replies[c]
    BY <1>1, <1>4 DEF Call
  <2> QED
    BY <2>1 DEF ReplyIsOwn
<1> QED
  BY <1>3, <1>4

\* A new command has not been called back.
LEMMA NewOwn ==
  ASSUME TypeOK, ReplyIsOwn, NEW k \in Kind, NewCommand(k)
  PROVE  ReplyIsOwn'
<1>1. /\ Ticket' = Ticket \cup {Len(kind) + 1}
      /\ \A c \in Ticket : replies'[c] = replies[c]
      /\ replies'[Len(kind) + 1] = <<>>
  BY NewTicket
<1> QED
  BY <1>1 DEF ReplyIsOwn

LEMMA AnswerOwn ==
  ASSUME AnswerInv, HandleFragment
  PROVE  ReplyIsOwn'
<1> USE DEF AnswerInv, TransitInv
<1>1. /\ main = "packets" /\ data # <<>> /\ kind' = kind /\ InUse
  BY DEF HandleFragment, InUse
<1>2. data \in Seq(Packet) /\ readBuffers = <<>>
  BY <1>1 DEF TypeOK, BuffersFresh
<1>3. Head(data).tag = current /\ current \in Nat
  <2>1. Answers(data, current)
    BY <1>1 DEF OneInTransit
  <2>2. current \in Nat
    BY TicketFacts DEF TypeOK, NoCmd
  <2> QED
    BY <1>1, <1>2, <2>1, <2>2, Takes
<1>4. CASE active
  <2> DEFINE buffers == IF Head(data).type = "data"
                        THEN Append(readBuffers, Head(data).tag)
                        ELSE readBuffers
             r == IF buffers = <<>> THEN Empty ELSE buffers[Len(buffers)]
  <2>1. Call({current}, r)
    BY <1>4 DEF HandleFragment, Complete
  <2>2. r \in {current, Empty}
    <3>1. CASE Head(data).type = "data"
      <4>1. buffers = <<current>>
        BY <1>2, <1>3, <3>1
      <4> HIDE DEF buffers
      <4>2. buffers # <<>> /\ Len(buffers) = 1 /\ buffers[1] = current
        BY <4>1
      <4> QED
        BY <4>2
    <3>2. CASE Head(data).type # "data"
      BY <1>2, <3>2
    <3> QED
      BY <3>1, <3>2
  <2> HIDE DEF r
  <2>3. r \in Nat
    BY <1>3, <2>2 DEF Empty
  <2> QED
    BY <1>1, <2>1, <2>2, <2>3, CallOwn
<1>5. CASE ~active
  BY <1>1, <1>5 DEF HandleFragment, ReplyIsOwn, Ticket
<1> QED
  BY <1>4, <1>5

LEMMA ReplyStep == AnswerInv /\ [Next]_vars => ReplyIsOwn'
<1> SUFFICES ASSUME AnswerInv, [Next]_vars PROVE ReplyIsOwn'
  OBVIOUS
<1>1. TypeOK /\ ReplyIsOwn /\ Empty \in Nat
  BY DEF AnswerInv, Empty
<1>2. CASE UNCHANGED <<kind, replies>>
  BY <1>1, <1>2 DEF ReplyIsOwn, Ticket
<1>3. CASE \E k \in Kind : NewCommand(k)
  BY <1>1, <1>3, NewOwn
<1>4. CASE HandleFragment
  BY <1>4, AnswerOwn
<1>5. CASE HandOff
  BY <1>1, <1>2, <1>5, CallOwn DEF HandOff
<1>6. CASE Close
  BY <1>1, <1>6, CallOwn DEF Close
<1>7. \/ UNCHANGED <<kind, replies>> \/ HandleFragment \/ HandOff \/ Close
      \/ \E k \in Kind : NewCommand(k)
  <2>1. CASE Api
    BY <2>1 DEF Api, Submit, DropQueuedLights, Abandon, handle
  <2>2. CASE CheckActive
    <3>1. NewCommand("plain") /\ "plain" \in Kind
      BY <2>2 DEF CheckActive, Kind
    <3> QED
      BY <3>1
  <2>3. CASE Update /\ ~CheckActive
    BY <2>3 DEF Update, EnterUpdate, CheckReads, HandleInfo, PacketsDone,
                Promote, BeginHandOff, Drain, JoinWriter, Gone, vars, handle
  <2>4. CASE Writer \/ Poll \/ Pad \/ UNCHANGED vars
    BY <2>4 DEF Writer, WriterRecv, WriterStop, WritePacket, WriteFail,
                WriterClear, WriterReturn, Poll, PollRead, PollDeliver,
                PollFail, Pad, PadAnswer, PadSilent, vars, handle
  <2> QED
    BY <2>1, <2>2, <2>3, <2>4 DEF Next
<1> QED
  BY <1>2, <1>3, <1>4, <1>5, <1>6, <1>7

-----------------------------------------------------------------------------

\* When no answer is late, one command at a time is between the queue and its
\* answer.
THEOREM AnswerInvariant ==
  ASSUME MaxLate = 0
  PROVE  Spec => []AnswerInv
<1>1. Init => AnswerInv
  BY TypeInit, TransitInit DEF AnswerInv, Init, ReplyIsOwn, Ticket
<1>2. AnswerInv /\ [Next]_vars => AnswerInv'
  BY TypeStep, TransitStep, ReplyStep DEF AnswerInv
<1> QED
  BY <1>1, <1>2, PTL DEF Spec

\* When no answer is late, a callback is given the answer to its own command or
\* nothing: completion by HOST_CMD_FINISHED never hits another command.
THEOREM RepliesAreOwn ==
  ASSUME MaxLate = 0
  PROVE  Spec => []ReplyIsOwn
<1>1. AnswerInv => ReplyIsOwn
  BY DEF AnswerInv
<1> QED
  BY <1>1, AnswerInvariant, PTL

\* When no answer is late, the writer thread never has a second command's
\* packets waiting behind the one it writes.
THEOREM OneJob ==
  ASSUME MaxLate = 0
  PROVE  Spec => []OneJobAtWriter
<1>1. AnswerInv => OneJobAtWriter
  BY DEF AnswerInv, TransitInv
<1> QED
  BY <1>1, AnswerInvariant, PTL

-----------------------------------------------------------------------------
(***************************************************************************)
(* The connection implements CommandService, whatever the delay of the     *)
(* answers.                                                                *)
(***************************************************************************)

\* What the service sees of a connection.
CallCounts == [c \in Ticket |-> Len(replies[c])]

LEMMA LineSet == TypeOK => Members(Line) = Members(pending) \cup ({current} \ {NoCmd})
<1> SUFFICES ASSUME TypeOK
             PROVE  Members(Line) = Members(pending) \cup ({current} \ {NoCmd})
  OBVIOUS
<1>1. /\ \A c \in Ticket : c \in Members(Line) <=> c \in Members(pending) \/ c = current
      /\ Members(Line) \subseteq Ticket
  BY LineMembers
<1>2. Members(pending) \subseteq Ticket /\ NoCmd \notin Ticket
  BY TicketFacts
<1>3. current \in Ticket \cup {NoCmd}
  BY DEF TypeOK
<1> QED
  BY <1>1, <1>2, <1>3

LEMMA LineSetNext ==
  TypeOK' => Members(Line)' = Members(pending') \cup ({current'} \ {NoCmd})
<1> DEFINE Same == Members(Line) = Members(pending) \cup ({current} \ {NoCmd})
<1>1. TypeOK => Same
  BY LineSet
<1>2. TypeOK' => Same'
  BY <1>1, PTL
<1> QED
  BY <1>2 DEF Members

\* The counts of the callbacks are a sequence with an entry for each command.
LEMMA CountsTyped ==
  ASSUME TypeOK
  PROVE  /\ CallCounts \in Seq(Nat) /\ Len(CallCounts) = Len(kind)
         /\ DOMAIN CallCounts = Ticket
         /\ \A c \in Ticket : CallCounts[c] = Len(replies[c])
                            /\ Len(replies[c]) \in Nat
<1>1. /\ Len(kind) \in Nat /\ Ticket = 1..Len(kind)
      /\ \A c \in Ticket : Len(replies[c]) \in Nat
  <2>1. /\ kind \in Seq(Kind) /\ replies \in Seq(Seq(Nat))
        /\ Len(replies) = Len(kind)
    BY DEF TypeOK
  <2> QED
    BY <2>1 DEF Ticket
<1>2. CallCounts \in [1..Len(kind) -> Nat]
  BY <1>1 DEF CallCounts
<1> QED
  BY <1>1, <1>2 DEF CallCounts

\* A new command: the service issues one.
LEMMA IssueStep ==
  ASSUME TypeOK, TypeOK', NEW k \in Kind, NewCommand(k), main = "idle",
         UNCHANGED <<main, current>>,
         Members(pending') = Members(pending) \cup {Len(kind) + 1}
  PROVE  ConnectionService!Issue
<1> DEFINE t == Len(kind) + 1
<1>1. /\ Len(kind) \in Nat
      /\ Ticket' = Ticket \cup {t} /\ Ticket = 1..Len(kind)
      /\ t \notin Ticket
      /\ \A c \in Ticket : replies'[c] = replies[c]
      /\ replies'[t] = <<>>
  <2>1. Len(kind) \in Nat /\ Ticket = 1..Len(kind)
    BY DEF TypeOK, Ticket
  <2> QED
    BY <2>1, NewTicket
<1>2. CallCounts' = Append(CallCounts, 0)
  <2>1. CallCounts' = [c \in 1..(Len(kind) + 1) |-> Len(replies'[c])]
    BY <1>1 DEF CallCounts
  <2>2. Append(CallCounts, 0) =
          [c \in 1..(Len(kind) + 1) |-> IF c = Len(kind) + 1 THEN 0 ELSE CallCounts[c]]
    <3> DEFINE n == Len(kind)
               longer == Append(CallCounts, 0)
    <3>1. /\ n \in Nat /\ CallCounts \in Seq(Nat) /\ Len(CallCounts) = n
      BY <1>1, CountsTyped
    <3>2. /\ longer \in Seq(Nat) /\ Len(longer) = n + 1
          /\ \A c \in 1..n : longer[c] = CallCounts[c]
          /\ longer[n + 1] = 0
      <4> HIDE DEF n
      <4> QED
        BY <3>1
    <3>3. longer = [c \in 1..(n + 1) |-> longer[c]]
      <4> HIDE DEF n, longer
      <4>1. longer \in [1..(n + 1) -> Nat]
        BY <3>1, <3>2
      <4> QED
        BY <4>1
    <3>4. \A c \in 1..(n + 1) : longer[c] = IF c = n + 1 THEN 0 ELSE CallCounts[c]
      <4> HIDE DEF n, longer
      <4> QED
        BY <3>1, <3>2
    <3> HIDE DEF longer
    <3> QED
      BY <3>3, <3>4 DEF longer
  <2>3. \A c \in 1..(Len(kind) + 1) :
          Len(replies'[c]) = IF c = Len(kind) + 1 THEN 0 ELSE CallCounts[c]
    BY <1>1, CountsTyped
  <2> QED
    BY <2>1, <2>2, <2>3
<1>3. Members(Line)' = Members(Line) \cup {t}
  BY LineSet, LineSetNext
<1>4. Len(CallCounts) = Len(kind)
  BY CountsTyped
<1> QED
  BY <1>2, <1>3, <1>4
     DEF ConnectionService!Issue, CallCounts

\* A step that leaves the line, the callbacks and the use of the handle alone is
\* no step of the service.
LEMMA Stutter ==
  ASSUME UNCHANGED <<kind, replies>>, Members(Line)' = Members(Line),
         InUse' = InUse
  PROVE  UNCHANGED ConnectionService!serviceVars
BY DEF ConnectionService!serviceVars, InUse, Ticket

\* A command leaves the line, and its callback, if it has one, runs.
LEMMA ResolveStep ==
  ASSUME TypeOK, TypeOK', UNCHANGED kind, NEW c \in Members(Line),
         Members(Line)' = Members(Line) \ {c},
         InUse, InUse',
         \/ UNCHANGED replies
         \/ \E r \in Nat : Call({c}, r)
  PROVE  \E d \in Ticket : ConnectionService!Resolve(d)
<1>1. c \in Ticket
  BY LineMembers
<1>2. PICK runs \in {0, 1} : CallCounts' = [CallCounts EXCEPT ![c] = @ + runs]
  <2>1. Ticket' = Ticket
    BY DEF Ticket
  <2>2. \E runs \in {0, 1} : \A d \in Ticket :
          Len(replies'[d]) = IF d = c THEN Len(replies[d]) + runs ELSE Len(replies[d])
    <3>0. \A d \in Ticket : Len(replies[d]) \in Nat
      <4>1. replies \in Seq(Seq(Nat)) /\ DOMAIN replies = Ticket
        BY DEF TypeOK, Ticket
      <4> QED
        BY <4>1
    <3>1. CASE UNCHANGED replies
      BY <3>0, <3>1
    <3>2. CASE \E r \in Nat : Call({c}, r)
      <4>1. \A d \in Ticket :
              Len(replies'[d]) = IF d \in {c} /\ HasCallback(d)
                                 THEN Len(replies[d]) + 1 ELSE Len(replies[d])
        BY <3>2, CallReplies
      <4>2. CASE HasCallback(c)
        BY <4>1, <4>2
      <4>3. CASE ~HasCallback(c)
        BY <3>0, <4>1, <4>3
      <4> QED
        BY <4>2, <4>3
    <3> QED
      BY <3>1, <3>2
  <2> QED
    BY <1>1, <2>1, <2>2 DEF CallCounts
<1>3. ConnectionService!Resolve(c)
  BY <1>2 DEF ConnectionService!Resolve, CallCounts, InUse
<1> QED
  BY <1>1, <1>3

\* close() withdraws the whole line, and calls what has a callback.
LEMMA CancelStep ==
  ASSUME TypeOK, TypeOK', Close
  PROVE  ConnectionService!CancelAll
<1>1. /\ UNCHANGED kind /\ Ticket' = Ticket
      /\ current' = NoCmd /\ pending' = <<>>
      /\ Call(Members(Line), Empty) /\ Empty \in Nat
      /\ main = "failed" /\ main' = "dropping"
  BY DEF Close, Cancelled, Ticket, Empty
<1>2. Members(Line)' = {}
  BY <1>1, LineSetNext DEF Members
<1> DEFINE withCallback == {c \in Members(Line) : HasCallback(c)}
<1>3. /\ \A c \in Ticket : Len(replies'[c]) = IF c \in withCallback
                                              THEN Len(replies[c]) + 1
                                              ELSE Len(replies[c])
      /\ \A c \in Ticket : Len(replies[c]) \in Nat
  <2>1. \A c \in Ticket :
          Len(replies'[c]) = IF c \in Members(Line) /\ HasCallback(c)
                             THEN Len(replies[c]) + 1 ELSE Len(replies[c])
    BY <1>1, CallReplies
  <2>2. \A c \in Ticket : Len(replies[c]) \in Nat
    BY CountsTyped
  <2> QED
    BY <2>1, <2>2
<1>4. CallCounts' = [c \in Ticket |->
                       CallCounts[c] + (IF c \in withCallback THEN 1 ELSE 0)]
  <2>1. CallCounts' = [c \in Ticket |-> Len(replies'[c])]
    BY <1>1 DEF CallCounts
  <2>2. \A c \in Ticket :
          Len(replies'[c]) = CallCounts[c] + (IF c \in withCallback THEN 1 ELSE 0)
    <3> HIDE DEF withCallback
    <3> QED
      BY <1>3, CountsTyped
  <2> QED
    BY <2>1, <2>2
<1>5. Ticket = 1..Len(CallCounts)
  BY CountsTyped DEF Ticket
<1>6. withCallback \in SUBSET Members(Line)
  OBVIOUS
<1> QED
  BY <1>1, <1>2, <1>4, <1>5, <1>6
     DEF ConnectionService!CancelAll, ConnectionService!Issued, CallCounts

LEMMA ServiceStep ==
  ConnectionInv /\ [Next]_vars =>
    [ConnectionService!ServiceNext]_(ConnectionService!serviceVars)
<1> SUFFICES ASSUME ConnectionInv, [Next]_vars
             PROVE  ConnectionService!ServiceNext
                      \/ UNCHANGED ConnectionService!serviceVars
  OBVIOUS
<1>1. /\ TypeOK /\ TypeOK' /\ OnceInLine /\ (sent => current # NoCmd)
      /\ pending \in Seq(Ticket) /\ current \in Ticket \cup {NoCmd}
      /\ NoCmd \notin Ticket
  BY ConnectionInvStep, TicketFacts DEF ConnectionInv, AtProgramPoints, TypeOK
<1>2. /\ Members(Line) = Members(pending) \cup ({current} \ {NoCmd})
      /\ Members(Line)' = Members(pending') \cup ({current'} \ {NoCmd})
  BY <1>1, LineSet, LineSetNext
<1>3. ConnectionService!Issued = Ticket
  BY <1>1, CountsTyped DEF ConnectionService!Issued, CallCounts, Ticket
<1>4. ASSUME NEW k \in Kind \ {"info"}, Submit(k)
      PROVE  ConnectionService!Issue
  <2>1. /\ NewCommand(k) /\ main = "idle" /\ UNCHANGED <<main, current>>
        /\ pending' = Enqueue(k, Len(kind) + 1)
    BY <1>4 DEF Submit
  <2>2. Members(pending') = Members(pending) \cup {Len(kind) + 1}
    <3>1. CASE k = "priority"
      <4>1. pending' = <<Len(kind) + 1>> \o pending
        BY <2>1, <3>1 DEF Enqueue
      <4>2. Len(kind) + 1 \in Nat /\ pending \in Seq(Nat)
        BY <1>1, TicketFacts
      <4> QED
        BY <4>1, <4>2, Prepend
    <3>2. CASE k # "priority"
      <4>1. pending' = Append(pending, Len(kind) + 1)
        BY <2>1, <3>2 DEF Enqueue
      <4> QED
        BY <1>1, <4>1, MembersAppend
    <3> QED
      BY <3>1, <3>2
  <2> QED
    BY <1>1, <2>1, <2>2, IssueStep
<1>5. CASE CheckActive
  <2>1. /\ NewCommand("plain") /\ "plain" \in Kind /\ main = "idle"
        /\ UNCHANGED <<main, current>>
        /\ pending' = Append(pending, Len(kind) + 1)
    BY <1>5 DEF CheckActive, Kind
  <2>2. Members(pending') = Members(pending) \cup {Len(kind) + 1}
    BY <1>1, <2>1, MembersAppend
  <2>3. ConnectionService!Issue
    BY <1>1, <2>1, <2>2, IssueStep
  <2> QED
    BY <2>3 DEF ConnectionService!ServiceNext
<1>6. CASE DropQueuedLights
  <2>1. Members(pending') = {c \in Members(pending) : kind[c] # "lights"}
    BY <1>6, DropLights
  <2>2. UNCHANGED <<main, kind, current, replies>> /\ main = "idle"
    BY <1>6 DEF DropQueuedLights
  <2> DEFINE withdrawn == Members(Line) \ Members(Line)'
  <2>3. Members(Line)' = Members(Line) \ withdrawn
    BY <1>2, <2>1, <2>2
  <2>4. withdrawn \subseteq Ticket /\ withdrawn \subseteq Members(Line)
    BY <1>1, LineMembers
  <2>5. ConnectionService!Withdraw(withdrawn)
    <3> HIDE DEF withdrawn
    <3> QED
      BY <2>2, <2>3, <2>4 DEF ConnectionService!Withdraw, Ticket
  <2>6. withdrawn \in SUBSET ConnectionService!Issued
    <3> HIDE DEF withdrawn
    <3> QED
      BY <1>3, <2>4
  <2> QED
    BY <2>5, <2>6 DEF ConnectionService!ServiceNext
<1>7. CASE Abandon
  <2>1. /\ main = "idle" /\ main' = "dropping"
        /\ UNCHANGED <<kind, replies, pending, current>>
    BY <1>7 DEF Abandon, handle
  <2>2. Members(Line)' = Members(Line)
    BY <1>2, <2>1
  <2>3. ConnectionService!Abandoned
    BY <2>1, <2>2 DEF ConnectionService!Abandoned, Ticket
  <2> QED
    BY <2>3 DEF ConnectionService!ServiceNext
<1>8. ASSUME NEW timedOut \in BOOLEAN, CheckReads(timedOut)
      PROVE  UNCHANGED ConnectionService!serviceVars
  <2>1. /\ UNCHANGED <<kind, replies>> /\ main = "reads" /\ main' = "packets"
    BY <1>8 DEF CheckReads
  <2>2. Members(Line)' = Members(Line)
    <3>1. CASE timedOut
      <4>1. /\ current \in Ticket
            /\ pending' = <<current>> \o pending /\ current' = NoCmd
        BY <1>1, <1>8, <3>1 DEF CheckReads, Requeue
      <4>2. Members(pending') = Members(pending) \cup {current}
        BY <1>1, <4>1, Prepend
      <4> QED
        BY <1>1, <1>2, <4>1, <4>2
    <3>2. CASE ~timedOut
      <4>1. UNCHANGED <<pending, current>>
        BY <1>8, <3>2 DEF CheckReads
      <4> QED
        BY <1>2, <4>1
    <3> QED
      BY <3>1, <3>2
  <2> QED
    BY <2>1, <2>2, Stutter DEF InUse
<1>9. CASE HandleInfo
  <2>1. /\ UNCHANGED <<main, kind, pending, replies>> /\ main = "packets"
    BY <1>9 DEF HandleInfo
  <2>2. CASE current # NoCmd /\ kind[current] = "info"
    <3>1. current' = NoCmd
      BY <1>9, <2>2 DEF HandleInfo
    <3>2. /\ current \in Members(Line)
          /\ Members(Line)' = Members(Line) \ {current}
      BY <1>1, <1>2, <2>1, <2>2, <3>1 DEF OnceInLine
    <3>3. \E d \in Ticket : ConnectionService!Resolve(d)
      BY <1>1, <2>1, <3>2, ResolveStep DEF InUse
    <3> QED
      BY <1>3, <3>3 DEF ConnectionService!ServiceNext
  <2>3. CASE ~(current # NoCmd /\ kind[current] = "info")
    <3>1. UNCHANGED current
      BY <1>9, <2>3 DEF HandleInfo
    <3>2. Members(Line)' = Members(Line)
      BY <1>2, <2>1, <3>1
    <3> QED
      BY <2>1, <3>2, Stutter DEF InUse
  <2> QED
    BY <2>2, <2>3
<1>10. CASE HandleFragment
  <2>1. /\ UNCHANGED <<main, kind, pending>> /\ main = "packets"
    BY <1>10 DEF HandleFragment
  <2>2. CASE active
    <3> DEFINE buffers == IF Head(data).type = "data"
                          THEN Append(readBuffers, Head(data).tag)
                          ELSE readBuffers
               reply == IF buffers = <<>> THEN Empty ELSE buffers[Len(buffers)]
    <3>1. data # <<>> /\ data \in Seq(Packet)
      BY <1>1, <1>10 DEF HandleFragment, TypeOK
    <3>2. Head(data).tag \in Nat
      <4>1. Head(data) \in Packet
        BY <3>1
      <4> QED
        BY <4>1 DEF Packet
    <3>3. buffers \in Seq(Nat)
      BY <1>1, <3>2 DEF TypeOK
    <3>4. reply \in Nat
      <4> HIDE DEF buffers
      <4> QED
        BY <3>3 DEF Empty
    <3>5. current' = NoCmd /\ Call({current}, reply)
      BY <1>10, <2>2 DEF HandleFragment, Complete
    <3> HIDE DEF reply
    <3>6. CASE current # NoCmd
      <4>1. /\ current \in Members(Line)
            /\ Members(Line)' = Members(Line) \ {current}
        BY <1>1, <1>2, <2>1, <3>5, <3>6 DEF OnceInLine
      <4>2. \E d \in Ticket : ConnectionService!Resolve(d)
        BY <1>1, <2>1, <3>4, <3>5, <4>1, ResolveStep DEF InUse
      <4> QED
        BY <1>3, <4>2 DEF ConnectionService!ServiceNext
    <3>7. CASE current = NoCmd
      <4>1. Members(Line)' = Members(Line)
        BY <1>2, <2>1, <3>5, <3>7
      <4>2. replies' = replies
        <5>1. replies \in Seq(Seq(Nat)) /\ DOMAIN replies = Ticket
          BY <1>1 DEF TypeOK, Ticket
        <5>2. \A c \in DOMAIN replies : c \notin {current}
          BY <1>1, <3>7, <5>1
        <5>3. replies' = [c \in DOMAIN replies |-> replies[c]]
          BY <3>5, <5>2 DEF Call
        <5> QED
          BY <5>1, <5>3
      <4> QED
        BY <2>1, <4>1, <4>2, Stutter DEF InUse
    <3> QED
      BY <3>6, <3>7
  <2>3. CASE ~active
    <3>1. UNCHANGED <<current, replies>>
      BY <1>10, <2>3 DEF HandleFragment
    <3>2. Members(Line)' = Members(Line)
      BY <1>2, <2>1, <3>1
    <3> QED
      BY <2>1, <3>1, <3>2, Stutter DEF InUse
  <2> QED
    BY <2>2, <2>3
<1>11. CASE HandOff
  <2>1. /\ main = "handoff" /\ current = NoCmd /\ pending # <<>>
        /\ pending' = Tail(pending) /\ UNCHANGED kind
    BY <1>11 DEF HandOff, ConnectionInv, AtProgramPoints
  <2>2. /\ Head(pending) \in Ticket
        /\ Members(pending) = Members(pending') \cup {Head(pending)}
    BY <1>1, <2>1, HeadTail
  <2>3. CASE writer # "exited"
    <3>1. /\ current' = Head(pending) /\ main' = "drain" /\ UNCHANGED replies
      BY <1>11, <2>3 DEF HandOff
    <3>2. Members(Line)' = Members(Line)
      BY <1>1, <1>2, <2>1, <2>2, <3>1
    <3> QED
      BY <2>1, <3>1, <3>2, Stutter DEF InUse
  <2>4. CASE writer = "exited"
    <3>1. /\ UNCHANGED current /\ main' = "failed" /\ Call({Head(pending)}, Empty)
          /\ Empty \in Nat
      BY <1>11, <2>4 DEF HandOff, Empty
    <3>2. Head(pending) \notin Members(pending')
      <4>1. /\ Len(pending) \in Nat \ {0} /\ Head(pending) = pending[1]
            /\ pending' \in Seq(Ticket) /\ Len(pending') = Len(pending) - 1
            /\ \A i \in 1..Len(pending') : pending'[i] = pending[i + 1]
        BY <1>1, <2>1, HeadTail
      <4>2. DOMAIN pending' = 1..Len(pending') /\ DOMAIN pending = 1..Len(pending)
        BY <1>1, <4>1
      <4>3. ASSUME NEW i \in DOMAIN pending', pending'[i] = Head(pending)
            PROVE  FALSE
        <5>1. i + 1 \in DOMAIN pending /\ 1 \in DOMAIN pending /\ i + 1 # 1
          BY <4>1, <4>2
        <5>2. pending[i + 1] = pending[1]
          BY <4>1, <4>2, <4>3
        <5> QED
          BY <1>1, <5>1, <5>2 DEF OnceInLine
      <4> QED
        BY <4>3 DEF Members
    <3>3. /\ Head(pending) \in Members(Line)
          /\ Members(Line)' = Members(Line) \ {Head(pending)}
      BY <1>1, <1>2, <2>1, <2>2, <3>1, <3>2
    <3>4. \E d \in Ticket : ConnectionService!Resolve(d)
      BY <1>1, <2>1, <3>1, <3>3, ResolveStep DEF InUse
    <3> QED
      BY <1>3, <3>4 DEF ConnectionService!ServiceNext
  <2> QED
    BY <2>3, <2>4
<1>12. CASE Close
  <2>1. ConnectionService!CancelAll
    BY <1>1, <1>12, CancelStep
  <2> QED
    BY <2>1 DEF ConnectionService!ServiceNext
<1>13. CASE \/ EnterUpdate \/ PacketsDone \/ Promote \/ BeginHandOff \/ Drain
            \/ JoinWriter \/ Gone \/ Writer \/ Poll \/ Pad \/ UNCHANGED vars
  <2>1. UNCHANGED <<kind, replies, pending, current>> /\ InUse' = InUse
    BY <1>13 DEF EnterUpdate, PacketsDone, Promote, BeginHandOff, Drain,
                 JoinWriter, Gone, Writer, Poll, Pad, WriterRecv, WriterStop,
                 WritePacket, WriteFail, WriterClear, WriterReturn, PollRead,
                 PollDeliver, PollFail, PadAnswer, PadSilent, vars, handle, InUse
  <2>2. Members(Line)' = Members(Line)
    BY <1>2, <2>1
  <2> QED
    BY <2>1, <2>2, Stutter
<1>14. (\E k \in Kind \ {"info"} : Submit(k)) => ConnectionService!ServiceNext
  BY <1>4 DEF ConnectionService!ServiceNext
<1>15. (\E timedOut \in BOOLEAN : CheckReads(timedOut)) =>
         UNCHANGED ConnectionService!serviceVars
  BY <1>8
<1> QED
  BY <1>5, <1>6, <1>7, <1>9, <1>10, <1>11, <1>12, <1>13, <1>14, <1>15
     DEF Next, Api, Update

\* Every behaviour of the threads, with answers as late as they may be, requeues,
\* refused hand-offs and failures, is one of the command service: a command is
\* issued once, outstanding until it is resolved, and called back at most once.
THEOREM Refinement == Spec => ImplementsService
<1>1. Init => ConnectionService!ServiceInit
  <2> SUFFICES ASSUME Init PROVE ConnectionService!ServiceInit
    OBVIOUS
  <2>1. TypeOK
    BY TypeInit
  <2>2. /\ kind = <<"info">> /\ pending = <<1>> /\ current = NoCmd
        /\ replies = <<<<>>>> /\ main = "idle"
    BY DEF Init
  <2>3. Members(pending) = {1} /\ Ticket = 1..1
    BY <2>2 DEF Members, Ticket
  <2>4. Members(Line) = {1}
    BY <2>1, <2>2, <2>3, LineSet
  <2>5. [c \in Ticket |-> Len(replies[c])] = <<0>>
    BY <2>2, <2>3
  <2> QED
    BY <2>2, <2>4, <2>5 DEF ConnectionService!ServiceInit
<1> QED
  BY <1>1, ConnectionInvariant, ServiceStep, PTL
     DEF Spec, ImplementsService, ConnectionService!Service

=============================================================================
