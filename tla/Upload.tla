------------------------------- MODULE Upload -------------------------------
(***************************************************************************)
(* The upload of an animation to a pad (src/lights.rs, prepare_upload):    *)
(* the packets for each panel's graphics and palette, in the order in      *)
(* which they are to be sent, the pauses between them, and the timing.     *)
(*                                                                         *)
(* A GIF is a sequence of frames as the image library decodes them: the    *)
(* colours of the pixels, whether the marker pixel at the bottom left is   *)
(* set, and the time in 1/30 s.  A colour is one number; a pause is the    *)
(* number of bytes for whose writing it is long enough.                    *)
(***************************************************************************)
EXTENDS Protocol

CONSTANTS
  PanelCount,     \* NUM_PANELS, 9 in the code
  PanelColumns,   \* 3
  OuterSide,      \* the outer LEDs of a panel are a square of this side: 4
  Slots,          \* graphics of an animation: 32
  MaxColors,      \* colours of a panel: 15
  MaxData         \* MAX_DATA_PER_PACKET: 240

ASSUME UploadAssumption ==
  /\ {PanelCount, PanelColumns, Slots, MaxColors, MaxData} \subseteq Nat \ {0}
  /\ OuterSide \in Nat \ {0, 1}

Black       == 0
Transparent == MaxColors
OuterLeds   == OuterSide * OuterSide
NumLeds     == OuterLeds + (OuterSide - 1) * (OuterSide - 1)
GraphicSize == (NumLeds + 1) \div 2
Master      == 255          \* the panel number of the timing
NoFrame     == 255
UploadCode  == 109          \* 'm'
TypeIndex(type) == IF type = "released" THEN 0 ELSE 1

\* extract_panel: the outer square at even coordinates, row by row, then the
\* inner one between.  The image has a line of its own for the marker.
ExtractPanel(pixels, panel) ==
  LET x == (panel % PanelColumns) * 2 * OuterSide
      y == (panel \div PanelColumns) * 2 * OuterSide
  IN  [led \in 1..NumLeds |->
        IF led <= OuterLeds
        THEN pixels[<<x + 2 * ((led - 1) % OuterSide),
                      y + 2 * ((led - 1) \div OuterSide)>>]
        ELSE LET i == led - OuterLeds - 1
             IN  pixels[<<x + 2 * (i % (OuterSide - 1)) + 1,
                          y + 2 * (i \div (OuterSide - 1)) + 1>>]]

PanelFrames(gif, panel) ==
  [f \in DOMAIN gif |-> ExtractPanel(gif[f].pixels, panel)]

\* build_palette: the colours in the order in which they occur.
Palette(frames) ==
  FoldLeft(LAMBDA palette, color :
             IF color = Black \/ color \in ToSet(palette) THEN palette
             ELSE Append(palette, color),
           <<>>, FlattenSeq(frames))

\* scale_color
ScaleColor(color) == (color * 6666) \div 10000

\* pack_graphic: two palette indices in each byte, the first in the high half.
PackGraphic(leds, palette) ==
  LET index(led) ==
        IF led > NumLeds THEN 0
        ELSE IF leds[led] = Black THEN Transparent
        ELSE (CHOOSE i \in DOMAIN palette : palette[i] = leds[led]) - 1
  IN  [b \in 1..GraphicSize |->
        (MaxColors + 1) * index(2 * b - 1) + index(2 * b)]

GraphicsBytes(frames) ==
  FlattenSeq(Resized([f \in DOMAIN frames |->
                       PackGraphic(frames[f], Palette(frames))],
                    Slots, [b \in 1..GraphicSize |-> 0]))

PaletteBytes(frames) ==
  LET palette == Palette(frames)
  IN  Resized([i \in DOMAIN palette |-> ScaleColor(palette[i])], MaxColors, 0)

\* The released animation has the first half of the graphics, the other one the
\* second half; the palettes stand after all graphics.
FirstGraphic(type) == TypeIndex(type) * Slots
PaletteOffset(type) ==
  2 * Slots * GraphicSize + TypeIndex(type) * MaxColors

\* create_upload_packets: letter, panel, animation, final, offset, size, data.
UploadPackets(data, offset, panel, type) ==
  LET pieces == Chunks(data, MaxData)
  IN  [i \in DOMAIN pieces |->
        LET at == offset + (i - 1) * MaxData
        IN  <<UploadCode, panel, TypeIndex(type), 0, at % 256, at \div 256,
              Len(pieces[i])>> \o pieces[i]]

PanelPackets(gif, type, panel) ==
  LET frames == PanelFrames(gif, panel)
  IN  UploadPackets(GraphicsBytes(frames), FirstGraphic(type) * GraphicSize,
                    panel, type)
        \o UploadPackets(PaletteBytes(frames), PaletteOffset(type), panel, type)

\* The first marked frame after frame 0.
LoopFrame(gif) ==
  FoldLeft(LAMBDA loop, f : IF gif[f].marked /\ loop = 0 THEN f - 1 ELSE loop,
           0, [f \in DOMAIN gif |-> f])

Delay(ticks) == Min({Max({ticks, 1}), 255})

TimingBytes(gif, type) ==
  <<LoopFrame(gif)>>
    \o Resized([f \in DOMAIN gif |-> FirstGraphic(type) + f - 1], 2 * Slots, NoFrame)
    \o Resized([f \in DOMAIN gif |-> Delay(gif[f].ticks)], 2 * Slots, 0)

\* The last of the timing packets is marked.
TimingPackets(gif, type) ==
  LET packets == UploadPackets(TimingBytes(gif, type), 0, Master, type)
  IN  [packets EXCEPT ![Len(packets)][4] = 1]

SendPacket(bytes) == [op |-> "packet", bytes |-> bytes, ms |-> 0]
Pause(ms)         == [op |-> "delay", bytes |-> <<>>, ms |-> ms]

\* One packet of each panel in turn, the last ones first, then a pause that is
\* long enough for the longest of them.
PanelCommands(gif, type) ==
  LET packets == [p \in 1..PanelCount |-> PanelPackets(gif, type, p - 1)]
      rounds  == Max({Len(packets[p]) : p \in 1..PanelCount})
      round(r) ==
        LET popped(p) == IF r <= Len(packets[p])
                         THEN <<packets[p][Len(packets[p]) + 1 - r]>> ELSE <<>>
        IN  FlattenSeq([p \in 1..PanelCount |-> popped(p)])
      pause(r) == Max({round(r)[i][7] : i \in DOMAIN round(r)})
  IN  FlattenSeq([r \in 1..rounds |->
        [i \in DOMAIN round(r) |-> SendPacket(round(r)[i])] \o <<Pause(pause(r))>>])

\* The panels' packets are sent twice, the timing last.  (The mutant sends them
\* once.)
UploadCommandsOnce(gif, type) ==
  LET timing == TimingPackets(gif, type)
  IN  PanelCommands(gif, type) \o [i \in DOMAIN timing |-> SendPacket(timing[i])]
UploadCommands(gif, type) ==
  LET panels == PanelCommands(gif, type)
      timing == TimingPackets(gif, type)
  IN  panels \o panels \o [i \in DOMAIN timing |-> SendPacket(timing[i])]

\* What prepare_upload refuses: images of another size than the panels', too
\* many frames, too many colours.
Width  == PanelColumns * 2 * OuterSide - 1
Height == ((PanelCount - 1) \div PanelColumns + 1) * 2 * OuterSide

Refused(gif) ==
  \/ DOMAIN gif[1].pixels # (0..(Width - 1)) \X (0..(Height - 1))
  \/ Len(gif) > Slots
  \/ \E p \in 0..(PanelCount - 1) : Len(Palette(PanelFrames(gif, p))) > MaxColors

=============================================================================
