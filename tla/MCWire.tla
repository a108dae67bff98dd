------------------------------- MODULE MCWire -------------------------------
(* A small instance of the wire: pads of four firmware and layout versions,     *)
(* panels of two sensors, and animations of two graphics.                       *)
EXTENDS Wire

MCPads     == 1..4
MCFirmware == [p \in MCPads |-> IF p = 4 THEN 5 ELSE p]

\* Each field has a value of its own.  The pads' configuration versions are 1,
\* 2, 3 and 5; the first pad's ends early, the second's after 128 bytes.
MCFactory ==
  [p \in MCPads |->
    LET layout == IF p = 4 THEN Layout ELSE OldLayout
        size   == <<20, ShortSize, Len(OldLayout), Len(Layout)>>[p]
    IN  [i \in 1..size |->
          IF layout[i] = "config_version" THEN MCFirmware[p] ELSE 1000 * p + i]]

\* Any pad may be the first whose settings are changed; of the others it is
\* enough to have one of each kind of firmware, and one that stores animations.
MCUses ==
  ({"settings"} \X MCPads) \cup ({"sensors"} \X {3, 4}) \cup {<<"upload", 4>>}

MCReadings ==
  LET details(a, b, bad, dip, jumper) ==
        [from |-> TRUE, level |-> (0 :> a) @@ (1 :> b), bad |-> bad, dip |-> dip,
         jumper |-> jumper]
  IN  {(0 :> details(-2, 1, {0}, 1, {1})) @@ (1 :> details(0, -1, {1}, 0, {0})),
       (0 :> Silent) @@ (1 :> details(1, -2, {}, 1, {}))}

\* The first animation loops back to its second frame, the second one has one
\* frame that lasts too long and two colours, of which one is scaled to black;
\* the third one has too many colours and the fourth one too many frames.
Pixels(color(_, _)) ==
  [xy \in (0..(Width - 1)) \X (0..(Height - 1)) |-> color(xy[1], xy[2])]

Frame(pixels, marked, ticks) ==
  [pixels |-> pixels, marked |-> marked, ticks |-> ticks]

MCGifs == <<
  <<Frame(Pixels(LAMBDA x, y : IF x > y THEN 100 ELSE IF x > 4 THEN 200 ELSE 0), TRUE, 1),
    Frame(Pixels(LAMBDA x, y : IF x = 0 THEN 30 ELSE IF y = 0 THEN 0 ELSE 100), TRUE, 7)>>,
  <<Frame(Pixels(LAMBDA x, y : IF (x + y) % 4 = 0 THEN 1 ELSE 90), FALSE, 300)>>,
  <<Frame(Pixels(LAMBDA x, y : 1 + x), FALSE, 3)>>,
  <<Frame(Pixels(LAMBDA x, y : 50), FALSE, 0), Frame(Pixels(LAMBDA x, y : 60), FALSE, 2),
    Frame(Pixels(LAMBDA x, y : 70), FALSE, 2)>> >>

\* The instance is one of those the theorems about settings and readings are
\* about: no byte a pad has or is given is the letter of an answer, so that none
\* of its answers has an end that looks like one.
ASSUME MCVersioned == Versioned
ASSUME MCNoLetters ==
  /\ \A p \in MCPads : ToSet(MCFactory[p]) \cap {GetOld, GetNew, Sense} = {}
  /\ MaxSets < GetNew
=============================================================================
