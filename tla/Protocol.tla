------------------------------ MODULE Protocol ------------------------------
(***************************************************************************)
(* The packets on the wire (src/protocol.rs): how a command is split into  *)
(* reports and how the fragments of an answer are put together again.      *)
(*                                                                         *)
(* A report is a sequence of naturals, one for each byte: the report's     *)
(* number, flags, the length of the payload, the payload, and zeros up to  *)
(* the size of a report.  MaxPayload is 61 in the code.                    *)
(***************************************************************************)
EXTENDS Integers, SequencesExt

CONSTANT MaxPayload   \* HID_MAX_PAYLOAD_SIZE

ASSUME ProtocolAssumption == MaxPayload \in Nat \ {0}

HidReportCommand == 5
HidReportData    == 6

\* PACKET_FLAG_*
EndOfCommand    == 1
HostCmdFinished == 2
StartOfCommand  == 4
DeviceInfo      == 128

HasFlag(flags, flag) == (flags \div flag) % 2 = 1

FlagIf(condition, flag) == IF condition THEN flag ELSE 0

HidReport(id, flags, payload) ==
  <<id, flags, Len(payload)>> \o payload
    \o [i \in 1..(MaxPayload - Len(payload)) |-> 0]

\* Data cut up into pieces of that size; one piece, an empty one, if there is
\* none.
Chunks(data, size) ==
  LET count == Max({1, (Len(data) + size - 1) \div size})
  IN  [i \in 1..count |->
        SubSeq(data, (i - 1) * size + 1, Min({i * size, Len(data)}))]

\* A sequence cut or filled up to that size.
Resized(bytes, size, filler) ==
  [i \in 1..size |-> IF i <= Len(bytes) THEN bytes[i] ELSE filler]

BuildCommandPackets(cmd) ==
  LET chunks == Chunks(cmd, MaxPayload)
  IN  [i \in DOMAIN chunks |->
        HidReport(HidReportCommand,
                  FlagIf(i = 1, StartOfCommand)
                    + FlagIf(i = Len(chunks), EndOfCommand),
                  chunks[i])]

DeviceInfoRequest == HidReport(HidReportCommand, DeviceInfo, <<>>)

\* What poll() adds to report6_buffer for a report it has read: all of it but
\* the padding.
Kept(report) ==
  IF report[1] = HidReportData /\ Len(report) >= 3 + report[3]
  THEN SubSeq(report, 1, 3 + report[3])
  ELSE <<>>

\* check_reads goes through report6_buffer by the lengths in it: the packets,
\* and the rest that is put back because it is not a whole one.
SplitBuffer(data) ==
  LET from[o \in 1..(Len(data) + 1)] ==
        IF o + 2 <= Len(data) /\ o + 2 + data[o + 2] <= Len(data)
        THEN LET next == from[o + 3 + data[o + 2]]
             IN  [next EXCEPT !.packets =
                    <<SubSeq(data, o, o + 2 + data[o + 2])>> \o @]
        ELSE [packets |-> <<>>, rest |-> SubSeq(data, o, Len(data))]
  IN  from[1]

\* parse_report6 accepts a packet that is as long as it says.
IsReport6(raw) ==
  /\ Len(raw) >= 3
  /\ raw[1] = HidReportData
  /\ Len(raw) >= 3 + raw[3]

Payload(raw) == SubSeq(raw, 4, 3 + raw[3])

\* PacketReassembler::push, of a fragment, on what has been gathered of the
\* packet that is under way.  What it has after that: a packet that starts
\* discards one that is under way.  (The mutant goes on with it.)
GatheredOn(current, raw) == current \o Payload(raw)
Gathered(current, raw) ==
  (IF HasFlag(raw[2], StartOfCommand) THEN <<>> ELSE current) \o Payload(raw)

\* The packet it completes, if any (an empty one does not count), and what is
\* left under way.
Completed(current, raw) ==
  IF HasFlag(raw[2], EndOfCommand) /\ Gathered(current, raw) # <<>>
  THEN <<Gathered(current, raw)>>
  ELSE <<>>

UnderWay(current, raw) ==
  IF HasFlag(raw[2], EndOfCommand) THEN <<>> ELSE Gathered(current, raw)

=============================================================================
