------------------------------ MODULE Animation ------------------------------
(***************************************************************************)
(* The playback of panel animations (src/lights.rs, AnimationState) for    *)
(* one panel of one pad; the others are played in the same way, each on    *)
(* its own.  A GIF is the durations of its frames, in passes of 1/30 s,    *)
(* and the frames (from 0) whose bottom left pixel is the loop marker.     *)
(***************************************************************************)
EXTENDS Naturals, Sequences, FiniteSetsExt

CONSTANTS
  Gifs,
  LightsType   \* the types in use, of "released" and "pressed"

ASSUME AnimationAssumption ==
  /\ LightsType \subseteq {"released", "pressed"}
  /\ \A g \in Gifs :
       /\ g.durations \in Seq(Nat \ {0}) /\ g.durations # <<>>
       /\ g.marked \subseteq 0..(Len(g.durations) - 1)

VARIABLES
  animation,   \* animations: the one loaded for each type, if any
  playback     \* playback: the frame each type is at, and the time in it

playing == <<animation, playback>>

NotLoaded  == [durations |-> <<>>, marked |-> {}]
Start      == [frame |-> 0, time |-> 0]

AnimationInit ==
  /\ animation = [t \in LightsType |-> NotLoaded]
  /\ playback = [t \in LightsType |-> Start]

Loaded(t) == animation[t] # NotLoaded

\* The first marked frame; a mark on frame 0 makes no difference.
LoopFrame(gif) ==
  IF gif.marked \subseteq {0} THEN 0 ELSE Min(gif.marked \ {0})

\* load.  (The mutant leaves the playback where it is.)
LoadOnly(t, gif) ==
  /\ animation' = [animation EXCEPT ![t] = gif]
  /\ UNCHANGED playback
Load(t, gif) ==
  /\ animation' = [animation EXCEPT ![t] = gif]
  /\ playback' = [playback EXCEPT ![t] = Start]

\* The frame after the last is the loop frame.  (The mutant starts again.)
NextFrameRewinds(gif, frame) == (frame + 1) % Len(gif.durations)
NextFrame(gif, frame) ==
  IF frame + 1 >= Len(gif.durations) THEN LoopFrame(gif) ELSE frame + 1

Advance(gif, at) ==
  LET duration == gif.durations[at.frame + 1]
  IN  IF at.time + 1 >= duration
      THEN [frame |-> NextFrame(gif, at.frame), time |-> at.time + 1 - duration]
      ELSE [at EXCEPT !.time = @ + 1]

\* build_frame: the released animation always plays, the other one while the
\* panel is pressed; it starts again when the panel is pressed again.
BuildFrame(pressed) ==
  /\ playback' = [t \in LightsType |->
       IF ~Loaded(t) THEN playback[t]
       ELSE IF t = "pressed" /\ ~pressed THEN Start
       ELSE Advance(animation[t], playback[t])]
  /\ UNCHANGED animation

-----------------------------------------------------------------------------

\* build_frame indexes the frames of the animation that is loaded by where the
\* playback is: loading another one in the middle never leaves it beyond its
\* end.
FrameExists ==
  \A t \in LightsType : Loaded(t) =>
    /\ playback[t].frame < Len(animation[t].durations)
    /\ playback[t].time < animation[t].durations[playback[t].frame + 1]

=============================================================================
