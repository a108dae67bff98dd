--------------------------- MODULE LifecycleProofs ---------------------------
(***************************************************************************)
(* What holds of the threads of a manager for any number of callers and    *)
(* animation players and any animations: who holds the shared state, where *)
(* a playback is, and, when one thread of the application switches         *)
(* automatic animation, that one player at a time plays and that none is   *)
(* left when it is off.                                                    *)
(***************************************************************************)
EXTENDS Lifecycle, WellFoundedInduction, FiniteSetTheorems, TLAPS

-----------------------------------------------------------------------------
(* Animations *)

\* A set of frames has a first one, which is what Min names.
LEMMA FirstFrame ==
  ASSUME NEW T, T \subseteq Nat, T # {}
  PROVE  Min(T) \in T /\ \A y \in T : Min(T) <= y
<1>1. IsWellFoundedOn(OpToRel(<, Nat), Nat)
  BY NatLessThanWellFounded
<1>2. \E x \in T : \A y \in T : ~(<<y, x>> \in OpToRel(<, Nat))
  BY <1>1, WFMin
<1>3. \E x \in T : \A y \in T : ~(y < x)
  BY <1>2 DEF OpToRel
<1>4. PICK x \in T : \A y \in T : x <= y
  BY <1>3
<1> QED
  BY <1>4 DEF Min

LEMMA GifFacts ==
  ASSUME NEW g \in Gifs
  PROVE  /\ Len(g.durations) \in Nat \ {0}
         /\ \A n \in 1..Len(g.durations) : g.durations[n] \in Nat \ {0}
         /\ LoopFrame(g) \in Nat /\ LoopFrame(g) < Len(g.durations)
<1> DEFINE d == g.durations
<1>1. /\ d \in Seq(Nat \ {0}) /\ d # <<>>
      /\ g.marked \subseteq 0..(Len(d) - 1)
  BY AnimationAssumption DEF AnimationAssumption
<1> HIDE DEF d
<1>2. /\ Len(d) \in Nat \ {0}
      /\ \A n \in 1..Len(d) : d[n] \in Nat \ {0}
  BY <1>1
<1>3. LoopFrame(g) \in Nat /\ LoopFrame(g) < Len(d)
  <2>1. CASE g.marked \subseteq {0}
    BY <1>2, <2>1 DEF LoopFrame
  <2>2. CASE ~(g.marked \subseteq {0})
    <3>1. g.marked \ {0} \subseteq Nat /\ g.marked \ {0} # {}
      BY <1>1, <1>2, <2>2
    <3>2. Min(g.marked \ {0}) \in g.marked
      BY <3>1, FirstFrame
    <3>3. LoopFrame(g) = Min(g.marked \ {0})
      BY <2>2 DEF LoopFrame
    <3> QED
      BY <1>1, <1>2, <3>2, <3>3
  <2> QED
    BY <2>1, <2>2
<1> QED
  BY <1>2, <1>3 DEF d

Playback == [frame : Nat, time : Nat]

\* The playback at is in a frame of g.
Within(g, at) ==
  /\ at.frame < Len(g.durations)
  /\ at.time < g.durations[at.frame + 1]

LEMMA StartWithin ==
  ASSUME NEW g \in Gifs
  PROVE  Start \in Playback /\ Within(g, Start)
BY GifFacts DEF Start, Playback, Within

\* One pass on: the playback stays within the animation, and past its intro.
LEMMA AdvanceWithin ==
  ASSUME NEW g \in Gifs, NEW at \in Playback, Within(g, at)
  PROVE  /\ Advance(g, at) \in Playback /\ Within(g, Advance(g, at))
         /\ at.frame >= LoopFrame(g) => Advance(g, at).frame >= LoopFrame(g)
<1> DEFINE L == Len(g.durations)
           d == g.durations[at.frame + 1]
           next == NextFrame(g, at.frame)
<1>1. /\ L \in Nat \ {0} /\ \A n \in 1..L : g.durations[n] \in Nat \ {0}
      /\ LoopFrame(g) \in Nat /\ LoopFrame(g) < L
  BY GifFacts
<1>2. at.frame \in Nat /\ at.time \in Nat /\ at = [frame |-> at.frame,
                                                   time |-> at.time]
  BY DEF Playback
<1>3. at.frame < L /\ at.time < d
  BY DEF Within
<1>4. d \in Nat \ {0}
  <2>1. at.frame + 1 \in 1..L
    BY <1>1, <1>2, <1>3
  <2> QED
    BY <1>1, <2>1
<1>5. /\ next \in Nat /\ next < L
      /\ at.frame >= LoopFrame(g) => next >= LoopFrame(g)
  BY <1>1, <1>2, <1>3 DEF NextFrame
<1>6. Advance(g, at) = IF at.time + 1 >= d
                       THEN [frame |-> next, time |-> at.time + 1 - d]
                       ELSE [at EXCEPT !.time = at.time + 1]
  BY DEF Advance
<1>7. next + 1 \in 1..L
  BY <1>1, <1>5
<1> HIDE DEF next, d, L
<1>8. CASE at.time + 1 >= d
  <2>1. at.time + 1 - d = 0
    BY <1>2, <1>3, <1>4, <1>8
  <2>2. Advance(g, at) = [frame |-> next, time |-> 0]
    BY <1>6, <1>8, <2>1
  <2>3. 0 < g.durations[next + 1]
    BY <1>1, <1>7
  <2> QED
    BY <1>5, <2>2, <2>3 DEF Playback, Within, L
<1>9. CASE ~(at.time + 1 >= d)
  <2>1. Advance(g, at) = [frame |-> at.frame, time |-> at.time + 1]
    BY <1>2, <1>6, <1>9
  <2>2. at.time + 1 \in Nat /\ at.time + 1 < d
    BY <1>2, <1>4, <1>9
  <2> QED
    BY <1>2, <1>3, <2>1, <2>2 DEF Playback, Within, L, d
<1> QED
  BY <1>8, <1>9

\* What a step of an animation thread or of load_animation leaves.
PlayingOK ==
  /\ animation \in [LightsType -> Gifs \cup {NotLoaded}]
  /\ playback \in [LightsType -> Playback]
  /\ \A t \in LightsType : Loaded(t) => Within(animation[t], playback[t])

LEMMA LoadPlaying ==
  ASSUME PlayingOK, NEW t \in LightsType, NEW gif \in Gifs, Load(t, gif)
  PROVE  PlayingOK'
<1>1. /\ animation' \in [LightsType -> Gifs \cup {NotLoaded}]
      /\ playback' \in [LightsType -> Playback]
  BY StartWithin DEF PlayingOK, Load
<1>2. ASSUME NEW u \in LightsType, Loaded(u)'
      PROVE  Within(animation'[u], playback'[u])
  <2>1. CASE u = t
    <3>1. animation'[u] = gif /\ playback'[u] = Start
      BY <2>1 DEF PlayingOK, Load
    <3> QED
      BY <3>1, StartWithin
  <2>2. CASE u # t
    <3>1. animation'[u] = animation[u] /\ playback'[u] = playback[u]
      BY <2>2 DEF PlayingOK, Load
    <3> QED
      BY <1>2, <3>1 DEF PlayingOK, Loaded
  <2> QED
    BY <2>1, <2>2
<1> QED
  BY <1>1, <1>2 DEF PlayingOK, Within

LEMMA BuildPlaying ==
  ASSUME PlayingOK, NEW pressed, BuildFrame(pressed)
  PROVE  /\ PlayingOK'
         /\ \A t \in LightsType :
              /\ Loaded(t) /\ playback[t].frame >= LoopFrame(animation[t])
              /\ (t = "pressed" => pressed)
              => playback'[t].frame >= LoopFrame(animation[t])
<1>1. /\ animation' = animation /\ playback' = [t \in LightsType |->
           IF ~Loaded(t) THEN playback[t]
           ELSE IF t = "pressed" /\ ~pressed THEN Start
           ELSE Advance(animation[t], playback[t])]
  BY DEF BuildFrame
<1>2. ASSUME NEW t \in LightsType
      PROVE  /\ playback'[t] \in Playback
             /\ Loaded(t) => Within(animation[t], playback'[t])
             /\ /\ Loaded(t) /\ playback[t].frame >= LoopFrame(animation[t])
                /\ (t = "pressed" => pressed)
                => playback'[t].frame >= LoopFrame(animation[t])
  <2>1. CASE ~Loaded(t)
    BY <1>1, <2>1 DEF PlayingOK
  <2>2. CASE Loaded(t)
    <3>1. /\ animation[t] \in Gifs /\ playback[t] \in Playback
          /\ Within(animation[t], playback[t])
      BY <2>2 DEF PlayingOK, Loaded
    <3>2. CASE t = "pressed" /\ ~pressed
      BY <1>1, <2>2, <3>1, <3>2, StartWithin
    <3>3. CASE ~(t = "pressed" /\ ~pressed)
      <4>1. playback'[t] = Advance(animation[t], playback[t])
        BY <1>1, <2>2, <3>3
      <4> QED
        BY <3>1, <4>1, AdvanceWithin
    <3> QED
      BY <3>2, <3>3
  <2> QED
    BY <2>1, <2>2
<1>3. playback' \in [LightsType -> Playback]
  <2>1. playback' = [t \in LightsType |-> playback'[t]]
    BY <1>1
  <2> QED
    BY <1>2, <2>1
<1>4. PlayingOK'
  BY <1>1, <1>2, <1>3 DEF PlayingOK, Loaded, Within
<1> QED
  BY <1>2, <1>4

-----------------------------------------------------------------------------
(* The invariant of the threads *)

\* The types of TypeOK that are neither the animations' nor the holders'.
FlagsOK ==
  /\ shutdown \in BOOLEAN /\ running \in BOOLEAN /\ paused \in BOOLEAN
  /\ readError \in BOOLEAN /\ writeError \in BOOLEAN
  /\ input \in BOOLEAN /\ stop \in BOOLEAN

CallsOK ==
  /\ handle \in Players \cup {NoPlayer}
  /\ caller \in [Callers -> {"idle", "starting", "storing", "stopping",
                             "taking", "joining", "staging"}]
  /\ started \in [Callers -> Players \cup {NoPlayer}]
  /\ dropping \in {"no", "player", "main", "poll", "shared", "writer", "done"}

LoopsOK ==
  /\ conn \in {"none", "open", "ready"}
  /\ main \in {"none", "top", "pass", "closing", "reaping"}
  /\ poll \in {"none", "read"}
  /\ writer \in {"none", "recv", "write", "notify", "holding", "joins itself"}

PlayersOK ==
  /\ player \in [Players -> {"none", "top", "pause", "inputs", "build", "send"}]
  /\ seen \in [Players -> BOOLEAN]
  /\ overrun \in Nat

ThreadsOK == FlagsOK /\ CallsOK /\ LoopsOK /\ PlayersOK

\* HoldersOK, one thread at a time.
Holds(x) ==
  \/ x \in Players /\ Alive(x)
  \/ x = "manager" /\ dropping \notin {"writer", "done"}
  \/ x = "main" /\ main # "none"
  \/ x = "poll" /\ poll # "none"
  \/ x = "writer" /\ writer = "holding"

HeldBy == \A x : x \in holders <=> Holds(x)

\* A pad that is closed has no writer thread left when the next is opened.
WriterGone == conn = "none" /\ main # "closing" => writer = "none"

\* drop is past a thread only when that has ended.
DropWaits ==
  /\ dropping \notin {"no", "player", "main"} => main = "none"
  /\ dropping \in {"shared", "writer", "done"} => poll = "none"

ThreadsInv == ThreadsOK /\ PlayingOK /\ HeldBy /\ WriterGone /\ DropWaits

LEMMA HoldersParts == HoldersOK <=> HeldBy
<1> DEFINE H == {p \in Players : Alive(p)}
                  \cup (IF dropping \in {"writer", "done"} THEN {}
                        ELSE {"manager"})
                  \cup (IF main = "none" THEN {} ELSE {"main"})
                  \cup (IF poll = "none" THEN {} ELSE {"poll"})
                  \cup (IF writer = "holding" THEN {"writer"} ELSE {})
<1>1. \A x : x \in H <=> Holds(x)
  BY DEF Holds
<1>2. HoldersOK <=> holders = H
  BY DEF HoldersOK
<1> HIDE DEF H
<1>3. holders = H <=> \A x : x \in holders <=> x \in H
  OBVIOUS
<1> QED
  BY <1>1, <1>2, <1>3 DEF HeldBy

LEMMA TypeParts == ThreadsInv => TypeOK
BY HoldersParts DEF ThreadsInv, ThreadsOK, FlagsOK, CallsOK, LoopsOK, PlayersOK,
   PlayingOK, Playback, TypeOK

LEMMA InitThreads == Init => ThreadsInv
<1> SUFFICES ASSUME Init PROVE ThreadsInv
  OBVIOUS
<1>1. ThreadsOK
  BY DEF Init, ThreadsOK, FlagsOK, CallsOK, LoopsOK, PlayersOK
<1>2. PlayingOK
  BY DEF Init, AnimationInit, PlayingOK, Playback, Start, Loaded
<1>3. HeldBy
  BY DEF Init, HeldBy, Holds, Alive
<1>4. WriterGone /\ DropWaits
  BY DEF Init, WriterGone, DropWaits
<1> QED
  BY <1>1, <1>2, <1>3, <1>4 DEF ThreadsInv

\* Steps that leave what the holders depend on, and the animations.
LEMMA SameThreads ==
  ASSUME ThreadsInv, ThreadsOK', UNCHANGED <<playing, holders>>,
         UNCHANGED <<conn, main, poll, writer>>,
         \A p \in Players : Alive(p)' = Alive(p),
         dropping' = dropping
  PROVE  ThreadsInv'
BY DEF ThreadsInv, PlayingOK, playing, Loaded, Within, HeldBy, Holds,
   WriterGone, DropWaits

\* The calls of the application.
LEMMA CallsThreads ==
  ASSUME ThreadsInv, NEW c \in Callers,
         \/ EnableCalled(c) \/ DisableCalled(c) \/ PausePlayer(c)
         \/ StoreHandle(c) \/ StopPlayer(c) \/ TakeHandle(c) \/ JoinPlayer(c)
         \/ StageLights(c)
  PROVE  ThreadsInv'
<1>1. ThreadsOK'
  <2>1. FlagsOK'
    BY DEF ThreadsInv, ThreadsOK, FlagsOK, EnableCalled, DisableCalled,
       PausePlayer, StoreHandle, StopPlayer, TakeHandle, JoinPlayer,
       StageLights, Goes, flags, pad, threads, players
  <2>2. CallsOK'
    BY DEF ThreadsInv, ThreadsOK, CallsOK, EnableCalled, DisableCalled,
       PausePlayer, StoreHandle, StopPlayer, TakeHandle, JoinPlayer,
       StageLights, Goes, flags, pad, threads, players
  <2>3. LoopsOK'
    BY DEF ThreadsInv, ThreadsOK, LoopsOK, EnableCalled, DisableCalled,
       PausePlayer, StoreHandle, StopPlayer, TakeHandle, JoinPlayer,
       StageLights, Goes, flags, pad, threads, players
  <2>4. PlayersOK'
    BY DEF ThreadsInv, ThreadsOK, PlayersOK, EnableCalled, DisableCalled,
       PausePlayer, StoreHandle, StopPlayer, TakeHandle, JoinPlayer,
       StageLights, Goes, flags, pad, threads, players
  <2> QED
    BY <2>1, <2>2, <2>3, <2>4 DEF ThreadsOK
<1>2. /\ UNCHANGED <<playing, holders, conn, main, poll, writer, player>>
      /\ dropping' = dropping
  BY DEF EnableCalled, DisableCalled, PausePlayer, StoreHandle, StopPlayer,
     TakeHandle, JoinPlayer, StageLights, Goes, pad, threads, players
<1>3. \A p \in Players : Alive(p)' = Alive(p)
  BY <1>2 DEF Alive
<1> QED
  BY <1>1, <1>2, <1>3, SameThreads

LEMMA StartThreads ==
  ASSUME ThreadsInv, NEW c \in Callers, StartPlayer(c)
  PROVE  /\ ThreadsInv'
         /\ \E p \in Players :
              /\ started' = [started EXCEPT ![c] = p]
              /\ player' = [player EXCEPT ![p] = "top"]
<1>1. PICK p \in Players : p = CHOOSE q \in Players : Unused(q)
  BY DEF StartPlayer
<1>2. /\ UNCHANGED <<shutdown, paused, handle, pad, threads, seen, overrun,
                     playing, dropping>>
      /\ running' = TRUE
      /\ caller' = [caller EXCEPT ![c] = "storing"]
      /\ started' = [started EXCEPT ![c] = p]
      /\ player' = [player EXCEPT ![p] = "top"]
      /\ holders' = holders \cup {p}
  BY <1>1 DEF StartPlayer, Goes
<1>3. ThreadsOK'
  <2>1. FlagsOK'
    BY <1>2 DEF ThreadsInv, ThreadsOK, FlagsOK, pad
  <2>2. CallsOK'
    BY <1>2 DEF ThreadsInv, ThreadsOK, CallsOK
  <2>3. LoopsOK'
    BY <1>2 DEF ThreadsInv, ThreadsOK, LoopsOK, pad, threads
  <2>4. PlayersOK'
    BY <1>2 DEF ThreadsInv, ThreadsOK, PlayersOK
  <2> QED
    BY <2>1, <2>2, <2>3, <2>4 DEF ThreadsOK
<1>4. \A q \in Players : Alive(q)' <=> Alive(q) \/ q = p
  BY <1>2 DEF ThreadsInv, ThreadsOK, PlayersOK, PlayersOK, Alive
<1>5. HeldBy'
  <2>1. UNCHANGED <<dropping, main, poll, writer>>
    BY <1>2 DEF threads
  <2> QED
    BY <1>2, <1>4, <2>1 DEF ThreadsInv, HeldBy, Holds
<1>6. PlayingOK' /\ WriterGone' /\ DropWaits'
  BY <1>2 DEF ThreadsInv, PlayingOK, playing, Loaded, Within, WriterGone,
     DropWaits, pad, threads
<1> QED
  BY <1>2, <1>3, <1>5, <1>6 DEF ThreadsInv

LEMMA LoadThreads ==
  ASSUME ThreadsInv, NEW c \in Callers, LoadAnimation(c)
  PROVE  ThreadsInv'
<1>1. /\ UNCHANGED <<flags, holders, pad, started, threads, players, overrun,
                     dropping>>
      /\ caller' = [caller EXCEPT ![c] = "idle"]
  BY DEF LoadAnimation, Goes
<1>2. PICK t \in LightsType, gif \in Gifs : Load(t, gif)
  BY DEF LoadAnimation
<1>3. PlayingOK'
  BY <1>2, LoadPlaying DEF ThreadsInv
<1>4. ThreadsOK'
  <2>1. FlagsOK'
    BY <1>1 DEF ThreadsInv, ThreadsOK, FlagsOK, flags, pad, threads, players
  <2>2. CallsOK'
    BY <1>1 DEF ThreadsInv, ThreadsOK, CallsOK, flags, pad, threads, players
  <2>3. LoopsOK'
    BY <1>1 DEF ThreadsInv, ThreadsOK, LoopsOK, flags, pad, threads, players
  <2>4. PlayersOK'
    BY <1>1 DEF ThreadsInv, ThreadsOK, PlayersOK, flags, pad, threads, players
  <2> QED
    BY <2>1, <2>2, <2>3, <2>4 DEF ThreadsOK
<1>5. HeldBy' /\ WriterGone' /\ DropWaits'
  BY <1>1 DEF ThreadsInv, HeldBy, Holds, Alive, WriterGone, DropWaits, pad,
     threads, players
<1> QED
  BY <1>3, <1>4, <1>5 DEF ThreadsInv

\* The steps of an animation thread, and the end of a pause.
LEMMA PlayerThreads ==
  ASSUME ThreadsInv, NEW p \in Players, PlayerStep(p)
  PROVE  ThreadsInv'
<1>1. CASE PlayerTop(p) \/ PlayerPaused(p) \/ ReadInputs(p) \/ PlayerSend(p)
  <2>1. ThreadsOK'
    <3>1. FlagsOK'
      BY <1>1 DEF ThreadsInv, ThreadsOK, FlagsOK, PlayerTop, PlayerPaused,
         ReadInputs, PlayerSend, PlayerGoes, flags, pad, calls, threads
    <3>2. CallsOK'
      BY <1>1 DEF ThreadsInv, ThreadsOK, CallsOK, PlayerTop, PlayerPaused,
         ReadInputs, PlayerSend, PlayerGoes, flags, pad, calls, threads
    <3>3. LoopsOK'
      BY <1>1 DEF ThreadsInv, ThreadsOK, LoopsOK, PlayerTop, PlayerPaused,
         ReadInputs, PlayerSend, PlayerGoes, flags, pad, calls, threads
    <3>4. PlayersOK'
      <4>1. seen' \in [Players -> BOOLEAN]
        BY <1>1 DEF ThreadsInv, ThreadsOK, FlagsOK, PlayersOK, PlayerTop,
           PlayerPaused, ReadInputs, PlayerSend
      <4>2. overrun' \in Nat
        BY <1>1 DEF ThreadsInv, ThreadsOK, PlayersOK, PlayerTop, PlayerPaused,
           ReadInputs, PlayerSend
      <4>3. \E to \in {"top", "pause", "inputs", "build"} :
              player' = [player EXCEPT ![p] = to]
        BY <1>1 DEF PlayerTop, PlayerPaused, ReadInputs, PlayerSend, PlayerGoes
      <4>4. player \in [Players -> {"none", "top", "pause", "inputs", "build",
                                   "send"}]
        BY DEF ThreadsInv, ThreadsOK, PlayersOK
      <4> QED
        BY <4>1, <4>2, <4>3, <4>4 DEF PlayersOK
    <3> QED
      BY <3>1, <3>2, <3>3, <3>4 DEF ThreadsOK
  <2>2. UNCHANGED <<playing, holders, conn, main, poll, writer, dropping>>
    BY <1>1 DEF PlayerTop, PlayerPaused, ReadInputs, PlayerSend, flags, pad,
       calls, threads
  <2>3. \A q \in Players : Alive(q)' = Alive(q)
    BY <1>1 DEF ThreadsInv, ThreadsOK, PlayersOK, PlayerTop, PlayerPaused,
       ReadInputs, PlayerSend, PlayerGoes, Alive
  <2> QED
    BY <2>1, <2>2, <2>3, SameThreads
<1>2. CASE PlayerBuild(p)
  <2>1. ThreadsOK'
    <3>1. FlagsOK'
      BY <1>2 DEF ThreadsInv, ThreadsOK, FlagsOK, PlayerBuild, PlayerGoes,
         flags, pad, calls, threads
    <3>2. CallsOK'
      BY <1>2 DEF ThreadsInv, ThreadsOK, CallsOK, PlayerBuild, PlayerGoes,
         flags, pad, calls, threads
    <3>3. LoopsOK'
      BY <1>2 DEF ThreadsInv, ThreadsOK, LoopsOK, PlayerBuild, PlayerGoes,
         flags, pad, calls, threads
    <3>4. PlayersOK'
      BY <1>2 DEF ThreadsInv, ThreadsOK, PlayersOK, PlayerBuild, PlayerGoes,
         flags, pad, calls, threads
    <3> QED
      BY <3>1, <3>2, <3>3, <3>4 DEF ThreadsOK
  <2>2. PlayingOK'
    BY <1>2, BuildPlaying DEF ThreadsInv, PlayerBuild
  <2>3. \A q \in Players : Alive(q)' = Alive(q)
    BY <1>2 DEF ThreadsInv, ThreadsOK, PlayersOK, PlayerBuild, PlayerGoes, Alive
  <2>4. UNCHANGED <<holders, conn, main, poll, writer, dropping>>
    BY <1>2 DEF PlayerBuild, pad, calls, threads
  <2>5. HeldBy' /\ WriterGone' /\ DropWaits'
    BY <2>3, <2>4 DEF ThreadsInv, HeldBy, Holds, WriterGone, DropWaits
  <2> QED
    BY <2>1, <2>2, <2>5 DEF ThreadsInv
<1>3. CASE PlayerExit(p)
  <2>1. ThreadsOK'
    <3>1. FlagsOK'
      BY <1>3 DEF ThreadsInv, ThreadsOK, FlagsOK, PlayerExit, PlayerGoes, flags,
         pad, calls, threads
    <3>2. CallsOK'
      BY <1>3 DEF ThreadsInv, ThreadsOK, CallsOK, PlayerExit, PlayerGoes, flags,
         pad, calls, threads
    <3>3. LoopsOK'
      BY <1>3 DEF ThreadsInv, ThreadsOK, LoopsOK, PlayerExit, PlayerGoes, flags,
         pad, calls, threads
    <3>4. PlayersOK'
      BY <1>3 DEF ThreadsInv, ThreadsOK, PlayersOK, PlayerExit, PlayerGoes,
         flags, pad, calls, threads
    <3> QED
      BY <3>1, <3>2, <3>3, <3>4 DEF ThreadsOK
  <2>2. \A q \in Players : Alive(q)' <=> Alive(q) /\ q # p
    BY <1>3 DEF ThreadsInv, ThreadsOK, PlayersOK, PlayerExit, PlayerGoes, Alive
  <2>3. /\ UNCHANGED <<playing, conn, main, poll, writer, dropping>>
        /\ holders' = holders \ {p}
    BY <1>3 DEF PlayerExit, pad, calls, threads
  <2>4. p \notin {"manager", "main", "poll", "writer"}
    BY LifecycleAssumption DEF LifecycleAssumption
  <2>5. HeldBy'
    BY <2>2, <2>3, <2>4 DEF ThreadsInv, HeldBy, Holds
  <2>6. PlayingOK' /\ WriterGone' /\ DropWaits'
    BY <2>3 DEF ThreadsInv, PlayingOK, playing, Loaded, Within, WriterGone,
       DropWaits
  <2> QED
    BY <2>1, <2>5, <2>6 DEF ThreadsInv
<1> QED
  BY <1>1, <1>2, <1>3 DEF PlayerStep

LEMMA PauseThreads ==
  ASSUME ThreadsInv, PauseOver
  PROVE  ThreadsInv'
<1>1. ThreadsOK'
  <2>1. FlagsOK'
    BY DEF ThreadsInv, ThreadsOK, FlagsOK, PauseOver, pad, calls, threads,
       players
  <2>2. CallsOK'
    BY DEF ThreadsInv, ThreadsOK, CallsOK, PauseOver, pad, calls, threads,
       players
  <2>3. LoopsOK'
    BY DEF ThreadsInv, ThreadsOK, LoopsOK, PauseOver, pad, calls, threads,
       players
  <2>4. PlayersOK'
    BY DEF ThreadsInv, ThreadsOK, PlayersOK, PauseOver, pad, calls, threads,
       players
  <2> QED
    BY <2>1, <2>2, <2>3, <2>4 DEF ThreadsOK
<1>2. UNCHANGED <<playing, holders, conn, main, poll, writer, dropping, player>>
  BY DEF PauseOver, pad, calls, threads, players
<1>3. \A q \in Players : Alive(q)' = Alive(q)
  BY <1>2 DEF Alive
<1> QED
  BY <1>1, <1>2, <1>3, SameThreads

-----------------------------------------------------------------------------
(* The other threads *)

LEMMA PlayingSame ==
  ASSUME PlayingOK, UNCHANGED playing
  PROVE  PlayingOK'
BY DEF PlayingOK, playing, Loaded, Within

\* The main thread.
LEMMA MainThreads ==
  ASSUME ThreadsInv, MainStep
  PROVE  ThreadsInv'
<1>1. ThreadsOK'
  <2>1. FlagsOK'
    BY DEF ThreadsInv, ThreadsOK, FlagsOK, MainStep, MainExit,
       AttemptConnections, Pass, CloseDevice, StopPoll, ReapPoll, References,
       StopFlag, flags, pad, calls, threads, players
  <2>2. CallsOK'
    BY DEF ThreadsInv, ThreadsOK, CallsOK, MainStep, MainExit,
       AttemptConnections, Pass, CloseDevice, StopPoll, ReapPoll, References,
       StopFlag, flags, pad, calls, threads, players
  <2>3. LoopsOK'
    BY DEF ThreadsInv, ThreadsOK, LoopsOK, MainStep, MainExit,
       AttemptConnections, Pass, CloseDevice, StopPoll, ReapPoll, References,
       StopFlag, flags, pad, calls, threads, players
  <2>4. PlayersOK'
    BY DEF ThreadsInv, ThreadsOK, PlayersOK, MainStep, MainExit,
       AttemptConnections, Pass, CloseDevice, StopPoll, ReapPoll, References,
       StopFlag, flags, pad, calls, threads, players
  <2> QED
    BY <2>1, <2>2, <2>3, <2>4 DEF ThreadsOK
<1>2. HeldBy'
  <2>1. CASE MainExit
    BY <2>1, LifecycleAssumption DEF ThreadsInv, HeldBy, Holds, Alive,
       LifecycleAssumption, MainExit, flags, pad, calls, threads, players
  <2>2. CASE AttemptConnections
    BY <2>2 DEF ThreadsInv, HeldBy, Holds, Alive, WriterGone,
       AttemptConnections, References, flags, pad, calls, threads, players
  <2>3. CASE Pass
    BY <2>3 DEF ThreadsInv, HeldBy, Holds, Alive, Pass, flags, pad, calls,
       threads, players
  <2>4. CASE CloseDevice
    BY <2>4 DEF ThreadsInv, HeldBy, Holds, Alive, CloseDevice, flags, pad,
       calls, threads, players
  <2>5. CASE StopPoll
    BY <2>5 DEF ThreadsInv, HeldBy, Holds, Alive, StopPoll, StopFlag, flags,
       pad, calls, threads, players
  <2>6. CASE ReapPoll
    BY <2>6 DEF ThreadsInv, HeldBy, Holds, Alive, ReapPoll, flags, pad, calls,
       threads, players
  <2> QED
    BY <2>1, <2>2, <2>3, <2>4, <2>5, <2>6 DEF MainStep
<1>3. WriterGone' /\ DropWaits'
  BY DEF ThreadsInv, ThreadsOK, LoopsOK, WriterGone, DropWaits, MainStep,
     MainExit, AttemptConnections, Pass, CloseDevice, StopPoll, ReapPoll,
     References, StopFlag, flags, pad, calls, threads, players
<1>4. PlayingOK'
  BY PlayingSame DEF ThreadsInv, MainStep, MainExit, AttemptConnections, Pass,
     CloseDevice, StopPoll, ReapPoll
<1> QED
  BY <1>1, <1>2, <1>3, <1>4 DEF ThreadsInv

\* The poll thread of the pad.
LEMMA PollThreads ==
  ASSUME ThreadsInv, PollInput \/ PollFail \/ PollExit
  PROVE  ThreadsInv'
<1>1. ThreadsOK'
  <2>1. FlagsOK'
    BY DEF ThreadsInv, ThreadsOK, FlagsOK, PollInput, PollFail, PollExit, flags,
       pad, calls, threads, players
  <2>2. CallsOK'
    BY DEF ThreadsInv, ThreadsOK, CallsOK, PollInput, PollFail, PollExit, flags,
       pad, calls, threads, players
  <2>3. LoopsOK'
    BY DEF ThreadsInv, ThreadsOK, LoopsOK, PollInput, PollFail, PollExit, flags,
       pad, calls, threads, players
  <2>4. PlayersOK'
    BY DEF ThreadsInv, ThreadsOK, PlayersOK, PollInput, PollFail, PollExit,
       flags, pad, calls, threads, players
  <2> QED
    BY <2>1, <2>2, <2>3, <2>4 DEF ThreadsOK
<1>2. HeldBy'
  <2>1. CASE PollInput
    BY <2>1 DEF ThreadsInv, HeldBy, Holds, Alive, PollInput, flags, pad, calls,
       threads, players
  <2>2. CASE PollFail
    BY <2>2, LifecycleAssumption DEF ThreadsInv, HeldBy, Holds, Alive,
       LifecycleAssumption, PollFail, flags, pad, calls, threads, players
  <2>3. CASE PollExit
    BY <2>3, LifecycleAssumption DEF ThreadsInv, HeldBy, Holds, Alive,
       LifecycleAssumption, PollExit, flags, pad, calls, threads, players
  <2> QED
    BY <2>1, <2>2, <2>3
<1>3. WriterGone' /\ DropWaits'
  BY DEF ThreadsInv, ThreadsOK, LoopsOK, WriterGone, DropWaits, PollInput,
     PollFail, PollExit, flags, pad, calls, threads, players
<1>4. PlayingOK'
  BY PlayingSame DEF ThreadsInv, PollInput, PollFail, PollExit
<1> QED
  BY <1>1, <1>2, <1>3, <1>4 DEF ThreadsInv

\* Its writer thread.
LEMMA WriterThreads ==
  ASSUME ThreadsInv, WriterStep
  PROVE  ThreadsInv'
<1>1. ThreadsOK'
  <2>1. FlagsOK'
    BY DEF ThreadsInv, ThreadsOK, FlagsOK, WriterStep, WriterExit, WriterWrite,
       WriterUpgrade, WriterRelease, AfterNotify, flags, pad, calls, threads,
       players
  <2>2. CallsOK'
    BY DEF ThreadsInv, ThreadsOK, CallsOK, WriterStep, WriterExit, WriterWrite,
       WriterUpgrade, WriterRelease, AfterNotify, flags, pad, calls, threads,
       players
  <2>3. LoopsOK'
    BY DEF ThreadsInv, ThreadsOK, LoopsOK, WriterStep, WriterExit, WriterWrite,
       WriterUpgrade, WriterRelease, AfterNotify, flags, pad, calls, threads,
       players
  <2>4. PlayersOK'
    BY DEF ThreadsInv, ThreadsOK, PlayersOK, WriterStep, WriterExit,
       WriterWrite, WriterUpgrade, WriterRelease, AfterNotify, flags, pad,
       calls, threads, players
  <2> QED
    BY <2>1, <2>2, <2>3, <2>4 DEF ThreadsOK
<1>2. HeldBy'
  <2>1. CASE WriterExit
    BY <2>1 DEF ThreadsInv, HeldBy, Holds, Alive, WriterExit, flags, pad, calls,
       threads, players
  <2>2. CASE WriterWrite
    BY <2>2 DEF ThreadsInv, HeldBy, Holds, Alive, WriterWrite, flags, pad,
       calls, threads, players
  <2>3. CASE WriterUpgrade
    BY <2>3 DEF ThreadsInv, HeldBy, Holds, Alive, WriterUpgrade, AfterNotify,
       flags, pad, calls, threads, players
  <2>4. CASE WriterRelease
    BY <2>4, LifecycleAssumption DEF ThreadsInv, HeldBy, Holds, Alive,
       LifecycleAssumption, WriterRelease, AfterNotify, flags, pad, calls,
       threads, players
  <2> QED
    BY <2>1, <2>2, <2>3, <2>4 DEF WriterStep
<1>3. WriterGone' /\ DropWaits'
  BY DEF ThreadsInv, ThreadsOK, LoopsOK, WriterGone, DropWaits, WriterStep,
     WriterExit, WriterWrite, WriterUpgrade, WriterRelease, AfterNotify, flags,
     pad, calls, threads, players
<1>4. PlayingOK'
  BY PlayingSame DEF ThreadsInv, WriterStep, WriterExit, WriterWrite,
     WriterUpgrade, WriterRelease
<1> QED
  BY <1>1, <1>2, <1>3, <1>4 DEF ThreadsInv

\* drop.
LEMMA DropThreads ==
  ASSUME ThreadsInv, Drop \/ DropStep
  PROVE  ThreadsInv'
<1>1. ThreadsOK'
  <2>1. FlagsOK'
    BY DEF ThreadsInv, ThreadsOK, FlagsOK, DropStep, Drop, DropPlayer, DropMain,
       DropPoll, DropShared, DropWriter, DropGoes, PollJoined, flags, pad,
       calls, threads, players
  <2>2. CallsOK'
    BY DEF ThreadsInv, ThreadsOK, CallsOK, DropStep, Drop, DropPlayer, DropMain,
       DropPoll, DropShared, DropWriter, DropGoes, PollJoined, flags, pad,
       calls, threads, players
  <2>3. LoopsOK'
    BY DEF ThreadsInv, ThreadsOK, LoopsOK, DropStep, Drop, DropPlayer, DropMain,
       DropPoll, DropShared, DropWriter, DropGoes, PollJoined, flags, pad,
       calls, threads, players
  <2>4. PlayersOK'
    BY DEF ThreadsInv, ThreadsOK, PlayersOK, DropStep, Drop, DropPlayer,
       DropMain, DropPoll, DropShared, DropWriter, DropGoes, PollJoined, flags,
       pad, calls, threads, players
  <2> QED
    BY <2>1, <2>2, <2>3, <2>4 DEF ThreadsOK
<1>2. HeldBy'
  <2>1. CASE Drop
    BY <2>1 DEF ThreadsInv, HeldBy, Holds, Alive, Drop, DropGoes, flags, pad,
       calls, threads, players
  <2>2. CASE DropPlayer
    BY <2>2 DEF ThreadsInv, HeldBy, Holds, Alive, DropPlayer, DropGoes, flags,
       pad, calls, threads, players
  <2>3. CASE DropMain
    BY <2>3 DEF ThreadsInv, HeldBy, Holds, Alive, DropMain, DropGoes, flags,
       pad, calls, threads, players
  <2>4. CASE DropPoll
    BY <2>4 DEF ThreadsInv, HeldBy, Holds, Alive, DropPoll, DropGoes,
       PollJoined, flags, pad, calls, threads, players
  <2>5. CASE DropShared
    BY <2>5, LifecycleAssumption DEF ThreadsInv, HeldBy, Holds, Alive,
       LifecycleAssumption, DropShared, DropGoes, flags, pad, calls, threads,
       players
  <2>6. CASE DropWriter
    BY <2>6 DEF ThreadsInv, HeldBy, Holds, Alive, DropWriter, DropGoes, flags,
       pad, calls, threads, players
  <2> QED
    BY <2>1, <2>2, <2>3, <2>4, <2>5, <2>6 DEF DropStep
<1>3. WriterGone' /\ DropWaits'
  BY DEF ThreadsInv, ThreadsOK, LoopsOK, WriterGone, DropWaits, DropStep, Drop,
     DropPlayer, DropMain, DropPoll, DropShared, DropWriter, DropGoes,
     PollJoined, flags, pad, calls, threads, players
<1>4. PlayingOK'
  BY PlayingSame DEF ThreadsInv, DropStep, Drop, DropPlayer, DropMain, DropPoll,
     DropShared, DropWriter
<1> QED
  BY <1>1, <1>2, <1>3, <1>4 DEF ThreadsInv

LEMMA NextThreads ==
  ASSUME ThreadsInv, [Next]_vars
  PROVE  ThreadsInv'
<1>1. CASE UNCHANGED vars
  <2>1. /\ UNCHANGED <<playing, holders, conn, main, poll, writer, dropping>>
        /\ UNCHANGED <<flags, pad, calls, threads, players, overrun>>
    BY <1>1 DEF vars, flags, pad, calls, threads, players
  <2>2. \A p \in Players : Alive(p)' = Alive(p)
    BY <2>1 DEF Alive, players
  <2>3. ThreadsOK'
    <3>1. FlagsOK' /\ CallsOK'
      BY <2>1 DEF ThreadsInv, ThreadsOK, FlagsOK, CallsOK, flags, pad, calls
    <3>2. LoopsOK' /\ PlayersOK'
      BY <2>1 DEF ThreadsInv, ThreadsOK, LoopsOK, PlayersOK, pad, threads,
         players
    <3> QED
      BY <3>1, <3>2 DEF ThreadsOK
  <2> QED
    BY <2>1, <2>2, <2>3, SameThreads
<1>2. ASSUME NEW c \in Callers,
             \/ EnableCalled(c) \/ DisableCalled(c) \/ PausePlayer(c)
             \/ LoadAnimation(c) \/ CallerStep(c)
      PROVE  ThreadsInv'
  BY <1>2, CallsThreads, StartThreads, LoadThreads DEF CallerStep
<1> QED
  BY <1>1, <1>2, PlayerThreads, PauseThreads, MainThreads, PollThreads,
     WriterThreads, DropThreads DEF Next

\* The inductive invariant holds, for any number of callers and players.
THEOREM ThreadsInvariant == Spec => []ThreadsInv
BY InitThreads, NextThreads, PTL DEF Spec

\* The types of everything the threads share, and that exactly those threads
\* hold ManagerShared that still run: the last one to let go destroys it.
THEOREM TypeCorrect == Spec => []TypeOK
BY ThreadsInvariant, TypeParts, PTL

\* build_frame never indexes frames that the loaded animation does not have,
\* wherever an animation is loaded, looped or restarted.
THEOREM WithinAnimation == Spec => []FrameExists
<1>1. ThreadsInv => FrameExists
  BY DEF ThreadsInv, PlayingOK, Within, FrameExists
<1> QED
  BY <1>1, ThreadsInvariant, PTL

\* The frames before the loop frame are shown once: a pass goes back to them
\* only because the panel was released.
THEOREM PlaysIntroOnce == Spec => IntroOnce
<1> DEFINE Past == \A p \in Players : \A t \in LightsType :
                     player[p] = "build" /\ player'[p] = "send" /\ Loaded(t)
                       /\ playback[t].frame >= LoopFrame(animation[t])
                       /\ (t = "pressed" => seen[p])
                     => playback'[t].frame >= LoopFrame(animation[t])
<1>1. ThreadsInv /\ [Next]_vars => [Past]_vars
  <2> SUFFICES ASSUME ThreadsInv, [Next]_vars, NEW p \in Players,
                      player[p] = "build", player'[p] = "send"
               PROVE  \A t \in LightsType :
                        /\ Loaded(t)
                        /\ playback[t].frame >= LoopFrame(animation[t])
                        /\ (t = "pressed" => seen[p])
                        => playback'[t].frame >= LoopFrame(animation[t])
    OBVIOUS
  <2>1. player \in [Players -> {"none", "top", "pause", "inputs", "build",
                                "send"}]
    BY DEF ThreadsInv, ThreadsOK, PlayersOK
  <2>2. \E q \in Players : PlayerStep(q)
    <3>1. ASSUME NEW c \in Callers, StartPlayer(c) PROVE FALSE
      <4>1. PICK q \in Players : player' = [player EXCEPT ![q] = "top"]
        BY <3>1, StartThreads
      <4> QED
        BY <2>1, <4>1
    <3>2. player' # player
      OBVIOUS
    <3> QED
      BY <3>1, <3>2 DEF Next, CallerStep, EnableCalled, DisableCalled,
         PausePlayer, LoadAnimation, StoreHandle, StopPlayer, TakeHandle,
         JoinPlayer, StageLights, PauseOver, MainStep, MainExit,
         AttemptConnections, Pass, CloseDevice, StopPoll, ReapPoll, PollInput,
         PollFail, PollExit, WriterStep, WriterExit, WriterWrite, WriterUpgrade,
         WriterRelease, Drop, DropStep, DropPlayer, DropMain, DropPoll,
         DropShared, DropWriter, vars, players
  <2>3. PlayerBuild(p)
    BY <2>1, <2>2 DEF PlayerStep, PlayerTop, PlayerExit, PlayerPaused,
       ReadInputs, PlayerBuild, PlayerSend, PlayerGoes
  <2> QED
    BY <2>3, BuildPlaying DEF PlayerBuild, ThreadsInv
<1>2. [][Past]_vars => IntroOnce
  BY DEF IntroOnce
<1> HIDE DEF Past
<1> QED
  BY <1>1, <1>2, ThreadsInvariant, PTL DEF Spec

-----------------------------------------------------------------------------
(* One player at a time *)

\* set_animation_auto checks, starts and stores under different locks: with two
\* threads calling it at once nothing keeps two players from running.
OneSwitcher == \A a, b \in Switchers : a = b

\* A player that runs is the one in anim_thread, or in the hands of the caller
\* that starts or joins it; that caller is the only one that switches, and finds
\* anim_thread empty.
Switching ==
  /\ \A c \in Callers :
       /\ caller[c] \notin {"idle", "staging"} => c \in Switchers
       /\ caller[c] \in {"starting", "storing"} => handle = NoPlayer
       /\ caller[c] \in {"starting", "taking", "joining"} => ~running
       /\ caller[c] = "storing" => running
       /\ started[c] # NoPlayer =>
            caller[c] \in {"storing", "joining"} /\ handle = NoPlayer
       /\ dropping # "no" => caller[c] = "idle"
  /\ ~running /\ handle # NoPlayer =>
       dropping = "player" \/ \E c \in Callers : caller[c] = "taking"
  /\ dropping \notin {"no", "player"} => handle = NoPlayer
  /\ \A p \in Players : Alive(p) =>
       p = handle \/ \E c \in Callers : p = started[c]

LEMMA InitSwitching == Init => Switching
BY DEF Init, Switching, Alive

\* Steps of other threads, and players that end.
LEMMA SwitchingKept ==
  ASSUME Switching, UNCHANGED <<running, handle, caller, started>>,
         \A p \in Players : Alive(p)' => Alive(p),
         \/ dropping' = dropping
         \/ {dropping, dropping'} \cap {"no", "player"} = {}
  PROVE  Switching'
BY DEF Switching

LEMMA CallsSwitching ==
  ASSUME OneSwitcher, ThreadsInv, Switching, NEW c \in Callers,
         \/ EnableCalled(c) \/ DisableCalled(c) \/ PausePlayer(c)
         \/ LoadAnimation(c) \/ CallerStep(c)
  PROVE  Switching'
<1> USE DEF Goes, Switching, flags, players, OneSwitcher
<1>0. /\ caller \in [Callers -> {"idle", "starting", "storing", "stopping",
                                 "taking", "joining", "staging"}]
      /\ started \in [Callers -> Players \cup {NoPlayer}]
      /\ player \in [Players -> {"none", "top", "pause", "inputs", "build",
                                 "send"}]
      /\ NoPlayer \notin Players
  BY LifecycleAssumption
     DEF ThreadsInv, ThreadsOK, CallsOK, PlayersOK, LifecycleAssumption
<1>1. CASE EnableCalled(c)
  BY <1>0, <1>1 DEF EnableCalled, Alive
<1>2. CASE DisableCalled(c)
  BY <1>0, <1>2 DEF DisableCalled, Alive
<1>3. CASE PausePlayer(c)
  BY <1>0, <1>3 DEF PausePlayer, Alive
<1>4. CASE LoadAnimation(c)
  BY <1>0, <1>4 DEF LoadAnimation, Alive
<1>5. CASE StartPlayer(c)
  <2>1. PICK p \in Players : /\ started' = [started EXCEPT ![c] = p]
                             /\ player' = [player EXCEPT ![p] = "top"]
    BY <1>5, StartThreads
  <2>2. \A q \in Players : ~Alive(q)
    BY <1>0, <1>5 DEF StartPlayer
  <2>3. \A q \in Players : Alive(q)' => q = p
    BY <1>0, <2>1, <2>2 DEF Alive
  <2> QED
    BY <1>0, <1>5, <2>1, <2>3 DEF StartPlayer
<1>6. CASE StoreHandle(c)
  BY <1>0, <1>6 DEF StoreHandle, Alive
<1>7. CASE StopPlayer(c)
  BY <1>0, <1>7 DEF StopPlayer, Alive
<1>8. CASE TakeHandle(c)
  BY <1>0, <1>8 DEF TakeHandle, Alive
<1>9. CASE JoinPlayer(c)
  BY <1>0, <1>9 DEF JoinPlayer, Joined, Alive
<1>10. CASE StageLights(c)
  BY <1>0, <1>10 DEF StageLights, Alive
<1> QED
  BY <1>1, <1>2, <1>3, <1>4, <1>5, <1>6, <1>7, <1>8, <1>9, <1>10 DEF CallerStep

LEMMA DropSwitching ==
  ASSUME ThreadsInv, Switching, Drop \/ DropStep
  PROVE  Switching'
<1>1. CASE Drop
  BY <1>1 DEF Drop, DropGoes, Switching, players, Alive
<1>2. CASE DropPlayer
  BY <1>2 DEF DropPlayer, DropGoes, Switching, players, Alive
<1>3. CASE DropMain \/ DropPoll \/ DropShared \/ DropWriter
  <2>1. /\ UNCHANGED <<running, handle, caller, started>> /\ UNCHANGED player
        /\ {dropping, dropping'} \cap {"no", "player"} = {}
    BY <1>3 DEF DropMain, DropPoll, DropShared, DropWriter, DropGoes, flags,
       players
  <2> QED
    BY <2>1, SwitchingKept DEF Alive
<1> QED
  BY <1>1, <1>2, <1>3 DEF DropStep

LEMMA OtherSwitching ==
  ASSUME ThreadsInv, Switching,
         \/ \E p \in Players : PlayerStep(p)
         \/ PauseOver \/ MainStep \/ PollInput \/ PollFail \/ PollExit
         \/ WriterStep \/ UNCHANGED vars
  PROVE  Switching'
<1>1. UNCHANGED <<running, handle, caller, started, dropping>>
  BY DEF PlayerStep, PlayerTop, PlayerExit, PlayerPaused, ReadInputs,
     PlayerBuild, PlayerSend, PauseOver, MainStep, MainExit, AttemptConnections,
     Pass, CloseDevice, StopPoll, ReapPoll, PollInput, PollFail, PollExit,
     WriterStep, WriterExit, WriterWrite, WriterUpgrade, WriterRelease, vars,
     flags, calls
<1>2. \A p \in Players : Alive(p)' => Alive(p)
  <2>1. CASE UNCHANGED player
    BY <2>1 DEF Alive
  <2>2. ASSUME NEW q \in Players, PlayerStep(q)
        PROVE  \A p \in Players : Alive(p)' => Alive(p)
    <3>1. /\ player[q] # "none"
          /\ \A p \in Players : p # q => player'[p] = player[p]
      BY <2>2 DEF PlayerStep, PlayerTop, PlayerExit, PlayerPaused, ReadInputs,
         PlayerBuild, PlayerSend, PlayerGoes, ThreadsInv, ThreadsOK, PlayersOK
    <3> QED
      BY <3>1 DEF Alive
  <2> QED
    BY <2>1, <2>2 DEF PauseOver, MainStep, MainExit, AttemptConnections, Pass,
       CloseDevice, StopPoll, ReapPoll, PollInput, PollFail, PollExit,
       WriterStep, WriterExit, WriterWrite, WriterUpgrade, WriterRelease, vars,
       players
<1> QED
  BY <1>1, <1>2, SwitchingKept

LEMMA NextSwitching ==
  ASSUME OneSwitcher, ThreadsInv, Switching, [Next]_vars
  PROVE  Switching'
BY CallsSwitching, DropSwitching, OtherSwitching DEF Next

LEMMA OneAlive ==
  ASSUME OneSwitcher, Switching, NEW p \in Players, NEW q \in Players,
         Alive(p), Alive(q)
  PROVE  p = q
<1>1. NoPlayer \notin Players
  BY LifecycleAssumption DEF LifecycleAssumption
<1>2. \A c, d \in Callers : started[c] # NoPlayer /\ started[d] # NoPlayer =>
        c = d
  BY DEF OneSwitcher, Switching
<1>3. \A c \in Callers : started[c] # NoPlayer => handle = NoPlayer
  BY DEF Switching
<1>4. \A r \in {p, q} : r = handle \/ \E c \in Callers : r = started[c]
  BY DEF Switching
<1> QED
  BY <1>1, <1>2, <1>3, <1>4

\* Both invariants, for one thread that switches.
LEMMA InvariantOfOne ==
  ASSUME OneSwitcher
  PROVE  Spec => [](ThreadsInv /\ Switching)
<1>1. Init => ThreadsInv /\ Switching
  BY InitThreads, InitSwitching
<1>2. ThreadsInv /\ Switching /\ [Next]_vars => ThreadsInv' /\ Switching'
  BY NextThreads, NextSwitching
<1> QED
  BY <1>1, <1>2, PTL DEF Spec

\* "Already running": when one thread of the application switches automatic
\* animation, at most one thread plays, however quickly it is switched.
THEOREM OneAtATime == ASSUME OneSwitcher PROVE Spec => []OnePlayer
<1>1. Switching => OnePlayer
  <2> SUFFICES ASSUME Switching PROVE OnePlayer
    OBVIOUS
  <2> DEFINE S == {p \in Players : Alive(p)}
  <2>1. \A p, q \in S : p = q
    BY OneAlive
  <2> HIDE DEF S
  <2>2. S = {} \/ \E p : S = {p}
    BY <2>1
  <2>3. Cardinality(S) <= 1
    <3>1. Cardinality({}) = 0
      BY FS_EmptySet
    <3>2. \A p : Cardinality({p}) = 1
      BY FS_Singleton
    <3>3. CASE S = {}
      BY <3>1, <3>3
    <3>4. ASSUME NEW p, S = {p} PROVE Cardinality(S) <= 1
      <4>1. Cardinality(S) = 1
        BY <3>2, <3>4
      <4> QED
        BY <4>1
    <3> QED
      BY <2>2, <3>3, <3>4
  <2> QED
    BY <2>3 DEF OnePlayer, S
<1> QED
  BY <1>1, InvariantOfOne, PTL

\* When set_animation_auto(false) has returned, no thread plays animations, also
\* not that of a player that was started and stopped in quick succession.
THEOREM OffIsOff == ASSUME OneSwitcher PROVE Spec => []OffMeansOff
<1>1. Switching => OffMeansOff
  BY LifecycleAssumption DEF Switching, OffMeansOff, LifecycleAssumption
<1> QED
  BY <1>1, InvariantOfOne, PTL

\* After drop no thread that calls the application back is left, and at most a
\* writer thread that is just notifying holds the manager.
THEOREM QuietDrop == ASSUME OneSwitcher PROVE Spec => []QuietAfterDrop
<1>1. ThreadsInv /\ Switching => QuietAfterDrop
  <2> SUFFICES ASSUME ThreadsInv, Switching, dropping = "done"
               PROVE  /\ main = "none" /\ poll = "none"
                      /\ \A p \in Players : ~Alive(p)
                      /\ holders \subseteq {"writer"}
    BY DEF QuietAfterDrop
  <2>1. main = "none" /\ poll = "none"
    BY DEF ThreadsInv, DropWaits
  <2>2. \A p \in Players : ~Alive(p)
    <3>1. /\ handle = NoPlayer
          /\ \A c \in Callers : started[c] = NoPlayer
      BY DEF Switching
    <3> QED
      BY <3>1, LifecycleAssumption DEF Switching, LifecycleAssumption
  <2>3. holders \subseteq {"writer"}
    BY <2>1, <2>2 DEF ThreadsInv, HeldBy, Holds
  <2> QED
    BY <2>1, <2>2, <2>3
<1> QED
  BY <1>1, InvariantOfOne, PTL

-----------------------------------------------------------------------------
(* The application's own lights *)

\* While the pause lasts no player begins a frame; the one that was on its way
\* is counted when it is staged, and then there is none.
OnItsWay == {p \in Players : player[p] \in {"inputs", "build", "send"}}
Kept == overrun = 0 \/ (overrun = 1 /\ paused /\ OnItsWay = {})

\* Steps that take no player into a frame.
LEMMA KeptSame ==
  ASSUME Kept, overrun' = overrun, paused => paused',
         OnItsWay' \subseteq OnItsWay
  PROVE  Kept'
BY DEF Kept

LEMMA PlayerKept ==
  ASSUME OneSwitcher, ThreadsInv, Switching, Kept, NEW p \in Players,
         PlayerStep(p)
  PROVE  Kept'
<1>0. player \in [Players -> {"none", "top", "pause", "inputs", "build",
                              "send"}]
  BY DEF ThreadsInv, ThreadsOK, PlayersOK
<1>1. CASE PlayerSend(p)
  <2>1. p \in OnItsWay
    BY <1>1 DEF PlayerSend, PlayerGoes, OnItsWay
  <2>2. overrun = 0
    BY <2>1 DEF Kept
  <2>3. OnItsWay' = {}
    <3>1. \A q \in Players : q # p => ~Alive(q)
      BY <2>1, OneAlive DEF OnItsWay, Alive
    <3> QED
      BY <1>0, <1>1, <3>1 DEF PlayerSend, PlayerGoes, OnItsWay, Alive
  <2>4. paused' = paused /\ overrun' = IF paused THEN 1 ELSE 0
    BY <1>1, <2>2 DEF PlayerSend, flags
  <2> QED
    BY <2>3, <2>4 DEF Kept
<1>2. CASE PlayerPaused(p)
  <2>1. overrun' = overrun /\ paused' = paused
    BY <1>2 DEF PlayerPaused, flags
  <2>2. paused => OnItsWay' \subseteq OnItsWay
    BY <1>0, <1>2 DEF PlayerPaused, PlayerGoes, MayPlay, OnItsWay
  <2> QED
    BY <2>1, <2>2 DEF Kept
<1>3. CASE PlayerTop(p) \/ PlayerExit(p) \/ ReadInputs(p) \/ PlayerBuild(p)
  <2>1. overrun' = overrun /\ paused' = paused
    BY <1>3 DEF PlayerTop, PlayerExit, ReadInputs, PlayerBuild, flags
  <2>2. OnItsWay' \subseteq OnItsWay
    BY <1>0, <1>3 DEF PlayerTop, PlayerExit, ReadInputs, PlayerBuild,
       PlayerGoes, OnItsWay
  <2> QED
    BY <2>1, <2>2, KeptSame
<1> QED
  BY <1>1, <1>2, <1>3 DEF PlayerStep

LEMMA NextKept ==
  ASSUME OneSwitcher, ThreadsInv, Switching, Kept, [Next]_vars
  PROVE  Kept'
<1>1. ASSUME NEW c \in Callers, StartPlayer(c) PROVE Kept'
  <2>1. PICK p \in Players : player' = [player EXCEPT ![p] = "top"]
    BY <1>1, StartThreads
  <2>2. overrun' = overrun /\ paused' = paused
    BY <1>1 DEF StartPlayer
  <2>3. OnItsWay' \subseteq OnItsWay
    BY <2>1 DEF OnItsWay, ThreadsInv, ThreadsOK, PlayersOK
  <2> QED
    BY <2>2, <2>3, KeptSame
<1>2. ASSUME NEW c \in Callers, PausePlayer(c) PROVE Kept'
  <2>1. overrun' = overrun /\ (paused => paused') /\ player' = player
    BY <1>2 DEF PausePlayer, players
  <2> QED
    BY <2>1, KeptSame DEF OnItsWay
<1>3. ASSUME PauseOver \/ \E c \in Callers : StageLights(c) PROVE Kept'
  BY <1>3 DEF PauseOver, StageLights, Kept
<1>4. ASSUME UNCHANGED <<overrun, paused, player>> PROVE Kept'
  BY <1>4 DEF Kept, OnItsWay
<1>5. ASSUME NEW c \in Callers,
             \/ EnableCalled(c) \/ DisableCalled(c) \/ LoadAnimation(c)
             \/ StoreHandle(c) \/ StopPlayer(c) \/ TakeHandle(c)
             \/ JoinPlayer(c)
      PROVE  Kept'
  BY <1>4, <1>5 DEF EnableCalled, DisableCalled, LoadAnimation, StoreHandle,
     StopPlayer, TakeHandle, JoinPlayer, flags, players
<1>6. CASE MainStep \/ PollInput \/ PollFail \/ PollExit \/ WriterStep
  BY <1>4, <1>6 DEF MainStep, MainExit, AttemptConnections, Pass, CloseDevice,
     StopPoll, ReapPoll, PollInput, PollFail, PollExit, WriterStep, WriterExit,
     WriterWrite, WriterUpgrade, WriterRelease, flags, players
<1>7. CASE Drop \/ DropStep \/ UNCHANGED vars
  BY <1>4, <1>7 DEF Drop, DropStep, DropPlayer, DropMain, DropPoll, DropShared,
     DropWriter, vars, flags, players
<1> QED
  BY <1>1, <1>2, <1>3, <1>5, <1>6, <1>7, PlayerKept DEF Next, CallerStep

\* Lights that the application sets while an animation plays are replaced by at
\* most the frame that was on its way, until the pause is over.
THEOREM LightsKept == ASSUME OneSwitcher PROVE Spec => []DirectLightsKept
<1>1. Init => Kept
  BY DEF Init, Kept
<1>2. ThreadsInv /\ Switching /\ Kept /\ [Next]_vars => Kept'
  BY NextKept
<1>3. Kept => DirectLightsKept
  BY DEF Kept, DirectLightsKept
<1> QED
  BY <1>1, <1>2, <1>3, InvariantOfOne, PTL DEF Spec

=============================================================================
