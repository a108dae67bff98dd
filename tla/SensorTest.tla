----------------------------- MODULE SensorTest -----------------------------
(***************************************************************************)
(* The answer to a sensor test request (src/device.rs): each 16-bit word   *)
(* has one bit of every panel's details, and is sent low byte first.       *)
(***************************************************************************)
EXTENDS Integers, Sequences

CONSTANTS
  NumPanels,   \* 9 in the code
  ByteBits,    \* bits of a byte of a word: 8 in the code
  Sensors,     \* sensors of a panel: 4
  LevelBits,   \* bits of a sensor's level: 16
  DipBits      \* DIP switches of a panel: 4

ASSUME SensorTestAssumption ==
  /\ NumPanels \in 0..(2 * ByteBits) /\ ByteBits \in Nat \ {0}
  /\ Sensors \in Nat /\ LevelBits \in Nat \ {0} /\ DipBits \in Nat

Panels == 0..(NumPanels - 1)

\* DetailData: three bits of signature, bad_sensor, a bit without use, the
\* levels, dip, bad_sensor_dip.
BadAt    == 3
LevelAt  == BadAt + Sensors + 1
DipAt    == LevelAt + Sensors * LevelBits
JumperAt == DipAt + DipBits
DetailBits == JumperAt + Sensors

Signature == <<0, 1, 0>>

\* The 16-bit words of an answer: after the letter, the mode and the number of
\* words come two bytes for each.  (The mutant takes the high byte first.)
WordsSwapped(answer) ==
  [i \in 1..answer[3] |-> answer[2 * i + 2] * 2^ByteBits + answer[2 * i + 3]]
Words(answer) ==
  [i \in 1..answer[3] |-> answer[2 * i + 2] + 2^ByteBits * answer[2 * i + 3]]

\* A panel's bits, from 0; those that are not there are zero.
DetailsOf(words, panel) ==
  [b \in 0..(DetailBits - 1) |->
    IF b < Len(words) THEN (words[b + 1] \div 2^panel) % 2 ELSE 0]

Number(bits, first, count) ==
  LET from[i \in 0..count] ==
        IF i = count THEN 0 ELSE bits[first + i] + 2 * from[i + 1]
  IN  from[0]

Signed(n) == IF n < 2^(LevelBits - 1) THEN n ELSE n - 2^LevelBits

Silent == [from |-> FALSE]

Details(bits, firmware) ==
  IF <<bits[0], bits[1], bits[2]>> # Signature
  THEN Silent
  ELSE [from   |-> TRUE,
        level  |-> [s \in 0..(Sensors - 1) |->
                     Signed(Number(bits, LevelAt + s * LevelBits, LevelBits))],
        bad    |-> {s \in 0..(Sensors - 1) : bits[BadAt + s] = 1 /\ firmware < 5},
        dip    |-> Number(bits, DipAt, DipBits),
        jumper |-> {s \in 0..(Sensors - 1) : bits[JumperAt + s] = 1}]

\* parse_sensor_test_data
ParseSensorTest(words, firmware) ==
  [p \in Panels |-> Details(DetailsOf(words, p), firmware)]

=============================================================================
