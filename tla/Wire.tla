-------------------------------- MODULE Wire --------------------------------
(***************************************************************************)
(* What travels between one device slot and the pads that are plugged in   *)
(* there: SmxDevice and CommandHandle (src/device.rs, src/connection.rs)   *)
(* with the bytes of commands and answers, and the pads' memories.         *)
(*                                                                         *)
(* Configuration, SensorTest, Upload and Protocol have the conversions.    *)
(* SmxDevice::update is one action; the threads of the connection, answers *)
(* that come after the timeout, and what else may stand in the queue are   *)
(* the subject of Connection and Device.  In one behaviour the application *)
(* either sets configurations, or reads sensors, or uploads animations.    *)
(***************************************************************************)
EXTENDS Configuration, SensorTest, Upload

CONSTANTS
  Pads,         \* pads that take turns in the slot
  Uses,         \* what the application does, and the pad that is there first
  Firmware,     \* the firmware version of each
  Factory,      \* the configuration each comes with, in its layout
  Changes,      \* fields the application changes
  Readings,     \* what the sensors of a pad may be: the details of each panel
  Gifs,         \* a sequence of animations
  MaxSets,      \* bound: calls of set_config
  MaxModes,     \* bound: changes of the sensor test mode
  MaxRequests,  \* bound: sensor requests
  MaxReplugs,   \* bound: changes of pad
  Slow,         \* whether packets may take longer than a pause for no reason
  MaxStalls,    \* bound: answers that break off
  MaxLosses,    \* bound: upload packets a pad does not store
  MaxLate       \* bound: pauses of an upload that end too early

\* What the sensors of a panel may be: levels of LevelBits bits with a sign.
PanelDetails ==
  {Silent} \cup
    [from   : {TRUE},
     level  : [0..(Sensors - 1) ->
                (0 - 2^(LevelBits - 1))..(2^(LevelBits - 1) - 1)],
     bad    : SUBSET (0..(Sensors - 1)),
     dip    : 0..(2^DipBits - 1),
     jumper : SUBSET (0..(Sensors - 1))]

ASSUME WireAssumption ==
  /\ Firmware \in [Pads -> Nat] /\ Factory \in [Pads -> Seq(Nat)]
  /\ Readings \subseteq [Panels -> PanelDetails]
  /\ Gifs \in Seq(ToSet(Gifs)) /\ \A g \in DOMAIN Gifs : Gifs[g] \in Seq(ToSet(Gifs[g]))
  /\ Uses \subseteq {"settings", "sensors", "upload"} \X Pads
  /\ Changes \subseteq Fields /\ Slow \in BOOLEAN
  /\ {MaxSets, MaxModes, MaxRequests, MaxReplugs, MaxStalls, MaxLosses, MaxLate}
       \subseteq Nat

VARIABLES
  use,          \* what the application does in this behaviour
  \* CommandHandle
  buffer,       \* report6_buffer
  current,      \* the packet the reassembler has under way
  info, firmware, active,
  queue, flight,
  written,      \* the command in flight is with the pad
  \* SmxDevice
  dev,          \* config, have_config, raw_old_config, waiting, sensor_test_data
  wanted, send, mode,
  \* the pads and USB, external
  plugged, outbox, stalled, stored,
  memory, timing, busy,
  \* the application's uploads
  todo, uploading, uploaded,
  \* history and bounds
  asked,        \* <<pad, field, value>> of every change asked for
  measured,     \* the readings the pads have answered with
  answers,      \* what the pad has answered on this connection, and the ends of
                \* what it was sending when that was opened
  whole,        \* every packet the device has handled was one of those
  count         \* what is bounded so far

connection == <<buffer, current, info, firmware, active, queue, flight, written>>
device     == <<dev, wanted, send, mode>>
usb        == <<plugged, outbox, stalled>>
animations == <<memory, timing, busy>>
uploads    == <<todo, uploading, uploaded>>
history    == <<asked, measured, answers, whole, count>>
vars == <<use, connection, device, usb, stored, animations, uploads, history>>

GetNew == 71    \* 'G'
GetOld == 103   \* 'g'
PutNew == 87    \* 'W'
PutOld == 119   \* 'w'
Sense  == 121   \* 'y'
EndOfLine == 10

Types == {"released", "pressed"}
Modes == {48, 49}   \* '0' and '1', of which the pad has different readings
Off   == 0

Command(cmd) == [info |-> FALSE, packets |-> BuildCommandPackets(cmd)]
Identify     == [info |-> TRUE, packets |-> <<DeviceInfoRequest>>]
Nothing      == [info |-> FALSE, packets |-> <<>>]

ReadConfig == Command(IF firmware >= 5 THEN <<GetNew>> ELSE <<GetOld, EndOfLine>>)

NoReading == [p \in Panels |-> Silent]

-----------------------------------------------------------------------------
(* The pad, external *)

LayoutOf(pad) == IF Firmware[pad] >= 5 THEN Layout ELSE OldLayout

\* The settings a pad has: later panels came with version 2 of the old
\* configuration, the second debounce time with version 3.
SettingsOf ==
  [pad \in Pads |->
    LET version == At(LayoutOf(pad), Factory[pad], "config_version")
    IN  IF Firmware[pad] >= 5 THEN Fields
        ELSE (OldFields \cap Fields)
               \ ((IF version < 2 THEN LaterPanels ELSE {})
                     \cup (IF version < 3 THEN {"debounce_delay_ms"} ELSE {}))]

\* An answer on the wire; the last report says that the command is finished.
Reports(answer) ==
  LET chunks == Chunks(answer, MaxPayload)
  IN  [i \in DOMAIN chunks |->
        HidReport(HidReportData,
                  FlagIf(i = 1, StartOfCommand)
                    + FlagIf(i = Len(chunks), EndOfCommand + HostCmdFinished),
                  chunks[i])]

ConfigAnswer(pad) ==
  <<IF Firmware[pad] >= 5 THEN GetNew ELSE GetOld, Len(stored[pad])>> \o stored[pad]

\* The command as the pad puts it together.
Received(packets) ==
  FoldLeft(LAMBDA bytes, packet :
             (IF HasFlag(packet[2], StartOfCommand) THEN <<>> ELSE bytes)
               \o Payload(packet),
           <<>>, packets)

\* The bits of a panel's details, and the words they make up.
BitsOf(details) ==
  LET bits(n, size) == [i \in 1..size |-> (n \div 2^(i - 1)) % 2]
      flags(set) == [s \in 1..Sensors |-> FlagIf(s - 1 \in set, 1)]
  IN  IF details = Silent
      THEN [i \in 1..DetailBits |-> 0]
      ELSE Signature \o flags(details.bad) \o <<0>>
             \o FlattenSeq([s \in 1..Sensors |->
                  bits(details.level[s - 1] + 2^LevelBits, LevelBits)])
             \o bits(details.dip, DipBits) \o flags(details.jumper)

SensorAnswer(asFor, reading) ==
  LET word(i) == FoldLeft(LAMBDA n, p : n + 2^(p - 1) * BitsOf(reading[p - 1])[i],
                          0, [p \in 1..NumPanels |-> p])
  IN  <<Sense, asFor, DetailBits>>
        \o FlattenSeq([i \in 1..DetailBits |->
             <<word(i) % 2^ByteBits, word(i) \div 2^ByteBits>>])

\* The animations are in each panel's memory, their timing in the master's.  It
\* goes into force with the packet that is marked.
MemorySize == 2 * Slots * GraphicSize + 2 * MaxColors
TimingSize == 1 + 4 * Slots
NoTiming   == [i \in 0..(TimingSize - 1) |-> NoFrame]

TypeOf(packet)   == IF packet[3] = 0 THEN "released" ELSE "pressed"
OffsetOf(packet) == packet[5] + 256 * packet[6]

Over(cells, packet) ==
  [i \in DOMAIN cells |->
    IF i \in OffsetOf(packet)..(OffsetOf(packet) + packet[7] - 1)
    THEN packet[8 + i - OffsetOf(packet)] ELSE cells[i]]

\* What a panel shows: the colours at its LEDs, graphic by graphic, and the
\* time.
LedColors(panel, type, graphic) ==
  [led \in 1..NumLeds |->
    LET byte  == memory[panel][graphic * GraphicSize + (led - 1) \div 2]
        index == IF led % 2 = 1 THEN byte \div (MaxColors + 1)
                 ELSE byte % (MaxColors + 1)
    IN  IF index = Transparent THEN Black
        ELSE memory[panel][PaletteOffset(type) + index]]

Shown(panel, type) ==
  LET cells  == timing[type].shown
      length == Min({i \in 0..(2 * Slots) :
                       i = 2 * Slots \/ cells[1 + i] = NoFrame})
  IN  [loop   |-> cells[0],
       frames |-> [f \in 1..length |->
                    [leds  |-> LedColors(panel, type, cells[f]),
                     ticks |-> cells[2 * Slots + f]]]]

-----------------------------------------------------------------------------

\* Another program may have left the pad in the middle of an answer.
LeftOver(pad) == {<<>>, Tail(Reports(ConfigAnswer(pad)))}

\* What the device may take for an answer then: the end of it.
Ends(reports) ==
  {Received(SubSeq(reports, i, Len(reports))) : i \in DOMAIN reports}

Forgotten == [config |-> Zeroed, have |-> FALSE, raw |-> <<>>, waiting |-> Off,
              reading |-> NoReading]

Init ==
  /\ \E u \in Uses : use = u[1] /\ plugged = u[2]
  /\ buffer = <<>> /\ current = <<>>
  /\ info = FALSE /\ firmware = 0 /\ active = FALSE
  /\ queue = <<Identify>> /\ flight = Nothing /\ written = FALSE
  /\ dev = Forgotten
  /\ wanted = Zeroed /\ send = FALSE /\ mode = Off
  /\ stored = Factory
  /\ stalled = FALSE
  /\ \E reports \in LeftOver(plugged) :
       /\ outbox = reports
       /\ answers = Ends(reports)
  /\ memory = [p \in 0..(PanelCount - 1) |-> [i \in 0..(MemorySize - 1) |-> 0]]
  /\ timing = [t \in Types |-> [staged |-> NoTiming, shown |-> NoTiming]]
  /\ busy = [p \in 0..(PanelCount - 1) |-> 0]
  /\ todo = <<>> /\ uploading = [type |-> "none", gif |-> 0]
  /\ uploaded = [t \in Types |-> 0]
  /\ asked = {} /\ measured = {} /\ whole = TRUE
  /\ count = [sets |-> 0, modes |-> 0, requests |-> 0, replugs |-> 0, stalls |-> 0,
              losses |-> 0, late |-> 0]

Counted(what) == [count EXCEPT ![what] = @ + 1]

-----------------------------------------------------------------------------
(* The API *)

\* get_config, a change to it, set_config.
SetConfig(field, value) ==
  LET now == IF send THEN wanted ELSE dev.config
  IN  /\ use = "settings" /\ count.sets < MaxSets
      /\ info /\ dev.have
      /\ wanted' = [now EXCEPT ![field] = value]
      /\ send' = TRUE
      /\ asked' = asked \cup {<<plugged, field, value>>}
      /\ count' = Counted("sets")
      /\ UNCHANGED <<use, connection, dev, mode, usb, stored, animations, uploads,
                     measured, answers, whole>>

SetSensorTestMode(m) ==
  /\ use = "sensors" /\ count.modes < MaxModes
  /\ mode' = m
  /\ count' = Counted("modes")
  /\ UNCHANGED <<use, connection, dev, wanted, send, usb, stored, animations,
                 uploads, asked, measured, answers, whole>>

\* The application goes through what prepare_upload returns: it sends the packets,
\* which join the queue, and sleeps where there is a pause.  It does not look
\* whether they have been acknowledged, except before it begins, and when an
\* upload is over: with the acknowledgement of its last packet.
Acknowledged == queue = <<>> /\ flight = Nothing

StartUpload(type, gif) ==
  /\ use = "upload" /\ info /\ dev.have /\ Acknowledged
  /\ uploading.gif = 0 /\ uploaded[type] = 0
  /\ ~Refused(Gifs[gif])
  /\ todo' = UploadCommands(Gifs[gif], type)
  /\ uploading' = [type |-> type, gif |-> gif]
  /\ UNCHANGED <<use, connection, device, usb, stored, animations, uploaded,
                 history>>

UploadPacket ==
  /\ todo # <<>> /\ Head(todo).op = "packet"
  /\ queue' = Append(queue, Command(Head(todo).bytes))
  /\ todo' = Tail(todo)
  /\ UNCHANGED <<use, buffer, current, info, firmware, active, flight, written,
                 device, usb, stored, animations, uploading, uploaded, history>>

\* A pause is the time between two packets also when they come to the pad, unless
\* the first of them is still on its way at the end of it: an answer has broken
\* off, and the timeout is longer than the pauses, or it takes its time.
UploadPause ==
  /\ todo # <<>> /\ Head(todo).op = "delay"
  /\ busy' = [p \in DOMAIN busy |-> Max({0, busy[p] - Head(todo).ms})]
  /\ todo' = Tail(todo)
  /\ IF Acknowledged THEN UNCHANGED count
     ELSE /\ stalled \/ Slow
          /\ count.late < MaxLate /\ count' = Counted("late")
  /\ UNCHANGED <<use, connection, device, usb, stored, memory, timing, uploading,
                 uploaded, asked, measured, answers, whole>>

FinishUpload ==
  /\ Acknowledged /\ todo = <<>> /\ uploading.gif # 0
  /\ uploaded' = [uploaded EXCEPT ![uploading.type] = uploading.gif]
  /\ uploading' = [type |-> "none", gif |-> 0]
  /\ UNCHANGED <<use, connection, device, usb, stored, animations, todo, history>>

-----------------------------------------------------------------------------
(* SmxDevice::update *)

\* CommandHandle::handle_packet
Receive(at, raw) ==
  IF ~IsReport6(raw) THEN at
  ELSE IF HasFlag(raw[2], DeviceInfo)
  THEN IF at.flight.info
       THEN [at EXCEPT !.info = TRUE, !.firmware = Payload(raw)[1],
                       !.flight = Nothing]
       ELSE at
  ELSE IF ~at.active THEN at
  ELSE [at EXCEPT !.current = UnderWay(at.current, raw),
                  !.packets = @ \o Completed(at.current, raw),
                  !.flight = IF HasFlag(raw[2], HostCmdFinished) THEN Nothing ELSE @]

\* handle_config_packet
HandleConfigPacket(d, buf) ==
  LET size    == buf[2]
      payload == SubSeq(buf, 3, 2 + size)
  IN  IF Len(buf) < 2 \/ Len(buf) < size + 2 THEN d
      ELSE IF buf[1] = GetOld
      THEN [d EXCEPT !.have = TRUE, !.raw = payload,
                     !.config = ConvertToNew(payload, @)]
      ELSE [d EXCEPT !.have = TRUE, !.config = CopyToNew(payload, @)]

\* handle_sensor_test_response
HandleSensorTestResponse(d, buf) ==
  IF \/ Len(buf) < 3 \/ Len(buf) < 2 * buf[3] + 3
     \/ d.waiting = Off \/ buf[2] # d.waiting
  THEN d
  ELSE [d EXCEPT !.waiting = Off,
                 !.reading = IF buf[2] # mode THEN @
                             ELSE ParseSensorTest(Words(buf), firmware)]

\* handle_packets
HandlePackets(d, packets) ==
  FoldLeft(LAMBDA e, buf :
             CASE buf[1] = Sense              -> HandleSensorTestResponse(e, buf)
               [] buf[1] \in {GetOld, GetNew} -> HandleConfigPacket(e, buf)
               [] OTHER                       -> e,
           d, packets)

\* send_config_if_needed.  Whether the rate limit holds it back is not known
\* here.
PutCommand ==
  LET data == IF firmware >= 5 THEN AsBytes(wanted) ELSE ConvertToOld(wanted, dev.raw)
  IN  Command(<<IF firmware >= 5 THEN PutNew ELSE PutOld, Len(data)>> \o data)

\* A sensor request is over when it has been answered or has timed out.
RequestOver == dev.waiting = Off \/ stalled

\* All of it: put says whether a configuration is sent, due whether a sensor
\* request is, timedOut whether the command in flight has timed out.
Update(put, due, timedOut) ==
  /\ put => info /\ dev.have /\ send
  /\ due => /\ info /\ mode # Off /\ count.requests < MaxRequests
            /\ RequestOver
  /\ timedOut => written /\ stalled /\ outbox = <<>> /\ buffer = <<>>
  /\ LET first == IF info /\ ~active THEN Append(queue, ReadConfig) ELSE queue
         second == IF put THEN first \o <<PutCommand, ReadConfig>> ELSE first
         third == IF due
                  THEN <<Command(<<Sense, mode, EndOfLine>>)>> \o second ELSE second
         line  == IF timedOut THEN <<flight>> \o third ELSE third
         split == SplitBuffer(buffer)
         after == FoldLeft(Receive,
                    [current |-> current, packets |-> <<>>, active |-> info,
                     info |-> info, firmware |-> firmware,
                     flight |-> IF timedOut THEN Nothing ELSE flight],
                    split.packets)
         next  == after.flight = Nothing /\ line # <<>>
     IN  /\ buffer' = split.rest
         /\ current' = after.current
         /\ info' = after.info /\ firmware' = after.firmware
         /\ active' = info
         /\ flight' = IF next THEN Head(line) ELSE after.flight
         /\ queue' = IF next THEN Tail(line) ELSE line
         /\ written' = (written /\ after.flight # Nothing)
         /\ stalled' = (stalled /\ after.flight # Nothing)
         /\ dev' = HandlePackets(
              [dev EXCEPT !.config = IF put THEN wanted ELSE @,
                          !.waiting = IF due THEN mode ELSE @],
              after.packets)
         /\ whole' = (whole /\ ToSet(after.packets) \subseteq answers)
  /\ send' = (send /\ ~put)
  /\ busy' = IF timedOut THEN [p \in DOMAIN busy |-> 0] ELSE busy
  /\ count' = IF due THEN Counted("requests") ELSE count
  /\ UNCHANGED <<use, wanted, mode, plugged, outbox, stored, memory, timing,
                 uploads, asked, measured, answers>>

-----------------------------------------------------------------------------
(* USB and the pads *)

\* The writer thread has put a command on the wire, and the pad answers it.
AtPad == Received(flight.packets)

Takes(letters) ==
  flight # Nothing /\ ~flight.info /\ ~written /\ AtPad[1] \in letters

AnswerWith(answer) ==
  /\ written' = TRUE
  /\ outbox' = outbox \o Reports(answer)
  /\ answers' = answers \cup {answer}
  /\ UNCHANGED <<use, buffer, current, info, firmware, active, queue, flight,
                 device, plugged, stalled, uploads, asked, whole>>

\* The identity is reported on its own, also in the middle of an answer.
PadIdentify ==
  /\ flight.info /\ ~written
  /\ written' = TRUE
  /\ \E i \in 1..(Len(outbox) + 1) :
       outbox' = InsertAt(outbox, i,
                          HidReport(HidReportData, DeviceInfo, <<Firmware[plugged]>>))
  /\ UNCHANGED <<use, buffer, current, info, firmware, active, queue, flight,
                 device, plugged, stalled, stored, animations, uploads, history>>

PadRead ==
  /\ Takes({GetOld, GetNew})
  /\ AnswerWith(ConfigAnswer(plugged))
  /\ UNCHANGED <<stored, animations, measured, count>>

\* A pad has its own idea of the size of its configuration.
PadStore ==
  /\ Takes({PutOld, PutNew})
  /\ AnswerWith(<<>>)
  /\ stored' = [stored EXCEPT ![plugged] =
       [i \in DOMAIN @ |-> IF i <= AtPad[2] THEN AtPad[2 + i] ELSE @[i]]]
  /\ UNCHANGED <<animations, measured, count>>

\* The reading as the application is to see it: bad sensors are not reported of
\* FSR pads (firmware 5).
AsSeen(reading) ==
  [p \in DOMAIN reading |->
    IF reading[p] # Silent /\ Firmware[plugged] >= 5
    THEN [reading[p] EXCEPT !.bad = {}] ELSE reading[p]]

PadSense(reading) ==
  /\ Takes({Sense})
  /\ AnswerWith(SensorAnswer(AtPad[2], reading))
  /\ measured' = measured \cup {AsSeen(reading)}
  /\ UNCHANGED <<stored, animations, count>>

\* A panel that is still writing does not take another packet, and one that is
\* not may miss it.
PadUpload(missed) ==
  /\ Takes({UploadCode})
  /\ AnswerWith(<<>>)
  /\ missed => count.losses < MaxLosses
  /\ count' = IF missed THEN Counted("losses") ELSE count
  /\ LET packet == AtPad
         panel  == packet[2]
         type   == TypeOf(packet)
     IN  IF panel = Master
         THEN LET now == Over(timing[type].staged, packet)
              IN  /\ ~missed
                  /\ timing' = [timing EXCEPT ![type] =
                       [staged |-> now, shown |-> IF packet[4] = 1 THEN now ELSE @.shown]]
                  /\ UNCHANGED <<memory, busy>>
         ELSE IF missed \/ busy[panel] > 0
         THEN UNCHANGED animations
         ELSE /\ memory' = [memory EXCEPT ![panel] = Over(@, packet)]
              /\ busy' = [busy EXCEPT ![panel] = packet[7]]
              /\ UNCHANGED timing
  /\ UNCHANGED <<stored, measured>>

\* An answer breaks off: the rest of what the pad was sending never comes.
Stall ==
  /\ count.stalls < MaxStalls
  /\ outbox # <<>> /\ written
  /\ \E n \in 0..(Len(outbox) - 1) : outbox' = SubSeq(outbox, 1, n)
  /\ stalled' = TRUE
  /\ count' = Counted("stalls")
  /\ UNCHANGED <<use, connection, device, plugged, stored, animations, uploads,
                 asked, measured, answers, whole>>

\* PollHandle::poll reads what there is, but not more than the pad has sent so
\* far.
Poll(n) ==
  /\ n \in 1..Len(outbox)
  /\ buffer' = buffer \o FlattenSeq([i \in 1..n |-> Kept(outbox[i])])
  /\ outbox' = SubSeq(outbox, n + 1, Len(outbox))
  /\ UNCHANGED <<use, current, info, firmware, active, queue, flight, written,
                 device, plugged, stalled, stored, animations, uploads, history>>

\* The connection is lost, SmxDevice::close is called, and a pad is opened in
\* the same slot.  (A configuration that was still to be sent is Device's
\* subject.)
Replug(pad) ==
  /\ use # "upload" /\ ~send
  /\ count.replugs < MaxReplugs /\ count' = Counted("replugs")
  /\ buffer' = <<>> /\ current' = <<>>
  /\ info' = FALSE /\ firmware' = 0 /\ active' = FALSE
  /\ queue' = <<Identify>> /\ flight' = Nothing /\ written' = FALSE
  /\ dev' = [dev EXCEPT !.have = FALSE]
  /\ plugged' = pad /\ stalled' = FALSE
  /\ \E reports \in LeftOver(pad) :
       /\ outbox' = reports
       /\ answers' = Ends(reports)
  /\ UNCHANGED <<use, wanted, send, mode, stored, animations, uploads, asked,
                 measured, whole>>

-----------------------------------------------------------------------------

Next ==
  \/ \E f \in Changes, v \in 1..MaxSets : SetConfig(f, v)
  \/ \E m \in Modes \cup {Off} : SetSensorTestMode(m)
  \/ \E t \in Types, g \in DOMAIN Gifs : StartUpload(t, g)
  \/ UploadPacket
  \/ UploadPause
  \/ FinishUpload
  \/ \E put, due, timedOut \in BOOLEAN : Update(put, due, timedOut)
  \/ PadIdentify
  \/ PadRead
  \/ PadStore
  \/ \E r \in Readings : PadSense(r)
  \/ \E missed \in BOOLEAN : PadUpload(missed)
  \/ Stall
  \/ \E n \in 1..Len(outbox) : Poll(n)
  \/ \E p \in Pads : Replug(p)

Spec == Init /\ [][Next]_vars

-----------------------------------------------------------------------------
(* Properties *)

\* The packets the device handles are what the pad has sent as one answer,
\* however it was cut up, read, and retried after it broke off: never a piece
\* of one answer and a piece of another.  Only of an answer that was under way
\* when the connection was opened it may get the end.
WholePackets == whole

\* Every setting of every pad is what it came with or what the application has
\* set for that pad: a change of one setting passes through the layouts of
\* several firmware versions, short configurations and pads that take turns,
\* and leaves all other settings as they are.
OwnSettings ==
  \A p \in Pads : \A i \in DOMAIN stored[p] :
    LET field == LayoutOf(p)[i]
    IN  field \in SettingsOf[p] =>
          \/ stored[p][i] = Factory[p][i]
          \/ <<p, field, stored[p][i]>> \in asked

\* What the two properties of settings rest on: a pad has no more than its
\* layout has; a pad of old firmware has a version, and that the application
\* leaves as it is.
Versioned ==
  /\ "config_version" \notin Changes
  /\ \A p \in Pads :
       /\ Len(Factory[p]) <= Len(LayoutOf(p))
       /\ Firmware[p] < 5 =>
            /\ Place(OldLayout, "config_version") <= Len(Factory[p])
            /\ At(OldLayout, Factory[p], "config_version") < NoVersion

\* And: the end of an answer, which the device may get when a connection is
\* opened, does not begin like one of these.
NoLookalikes(letters) ==
  \A p \in Pads : \A reports \in LeftOver(p) : \A end \in Ends(reports) :
    end # <<>> => end[1] \notin letters

\* What the SDK has no use for in an old configuration stays as the pad has it.
SpareBytesKept ==
  \A p \in Pads : Firmware[p] < 5 =>
    \A i \in DOMAIN stored[p] :
      OldLayout[i] \in Spare => stored[p][i] = Factory[p][i]

\* A reading the application gets is one a pad has made, of every panel and
\* every sensor, through words that mix the panels' bits, answers that break
\* off and changes of mode.
ReadingExact == dev.reading = NoReading \/ dev.reading \in measured

\* Places row by row.
Before(a, b) == a[2] < b[2] \/ (a[2] = b[2] /\ a[1] < b[1])

InOrder(places) ==
  [k \in 1..Cardinality(places) |->
    CHOOSE xy \in places : Cardinality({z \in places : Before(z, xy)}) = k - 1]

\* The frames of an animation as they are on the picture, at the LEDs of a
\* panel: the outer ones and the inner ones row by row.
Picture(gif, panel) ==
  LET column == panel % PanelColumns
      row    == panel \div PanelColumns
      leds(odd) == InOrder(
        {xy \in DOMAIN gif[1].pixels :
           /\ xy[1] \div (2 * OuterSide) = column
           /\ xy[2] \div (2 * OuterSide) = row
           /\ xy[1] % 2 = odd /\ xy[2] % 2 = odd
           /\ xy[1] % (2 * OuterSide) < 2 * OuterSide - 1
           /\ xy[2] % (2 * OuterSide) < 2 * OuterSide - 1})
      places == leds(0) \o leds(1)
      marked == {f \in DOMAIN gif : gif[f].marked} \ {1}
  IN  [loop   |-> IF marked = {} THEN 0 ELSE Min(marked) - 1,
       frames |-> [f \in DOMAIN gif |->
                    [leds  |-> [i \in DOMAIN places |->
                                 ScaleColor(gif[f].pixels[places[i]])],
                     ticks |-> Delay(gif[f].ticks)]]]

\* lights.rs:428: "Send panel data twice for reliability."  An animation that has
\* been uploaded is on the pad as it was drawn, on every panel and frame by frame,
\* until another one of that type takes its place.
UploadReliable ==
  \A t \in Types : uploaded[t] # 0 =>
    \A p \in 0..(PanelCount - 1) :
      Shown(p, t) = Picture(Gifs[uploaded[t]], p)

\* It is if no pause was over before the packets that it follows had been
\* acknowledged: also when a packet was not stored, or came twice because its
\* acknowledgement was lost and the application went on only then, and also
\* after the other type was uploaded.
UploadWhole == count.late = 0 => UploadReliable

=============================================================================
