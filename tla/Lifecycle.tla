------------------------------ MODULE Lifecycle ------------------------------
(***************************************************************************)
(* The threads of an SmxManager (src/manager.rs) and who waits for whom:   *)
(* callers of the API, the main thread, the poll and the writer thread of  *)
(* one pad, the threads that play animations, and drop.                    *)
(*                                                                         *)
(* The threads share ManagerShared; holders are those with a reference to  *)
(* it, and the last one to let go of it destroys it.  The state lock is    *)
(* held across steps only by the main thread while it waits for a thread   *)
(* of a pad that failed, and the lock of anim_thread only by a caller that *)
(* waits for a player; other uses of locks are within one action.          *)
(*                                                                         *)
(* What the threads do with the pad is in Connection, Slots and Lights.    *)
(***************************************************************************)
EXTENDS Animation, FiniteSets

CONSTANTS
  Callers,     \* threads of the application
  Switchers,   \* those that call set_animation_auto
  Players,     \* bound: threads that play animations at the same time
  NoPlayer

ASSUME LifecycleAssumption ==
  /\ Switchers \subseteq Callers
  /\ NoPlayer \notin Players
  /\ Players \cap {"manager", "main", "poll", "writer"} = {}

VARIABLES
  \* ManagerShared and SmxManager
  shutdown,    \* shutdown
  running,     \* anim_running
  paused,      \* anim_pause_until is in the future
  handle,      \* anim_thread
  holders,     \* who has a strong reference to ManagerShared
  \* the pad
  conn,        \* its connection: none, open, or ready (is_connected)
  readError, writeError,   \* had_read_error, had_write_error
  input,       \* whether its panel is pressed
  stop,        \* the stop flag of its poll thread
  \* threads
  caller,      \* what each caller is doing
  started,     \* the player a caller has started or is to join
  dropping,    \* how far drop is
  main, poll, writer,
  player,      \* what each player is doing
  seen,        \* the input each player has read
  \* history
  overrun      \* frames of players staged since set_lights, while it pauses them

flags   == <<shutdown, running, paused, handle>>
pad     == <<conn, readError, writeError, input, stop>>
calls   == <<caller, started, dropping>>
threads == <<main, poll, writer>>
players == <<player, seen>>
vars    == <<flags, holders, pad, calls, threads, players, overrun, playing>>

Init ==
  /\ AnimationInit
  /\ shutdown = FALSE /\ running = FALSE /\ paused = FALSE /\ handle = NoPlayer
  /\ holders = {"manager", "main"}
  /\ conn = "none" /\ readError = FALSE /\ writeError = FALSE
  /\ input = FALSE /\ stop = FALSE
  /\ caller = [c \in Callers |-> "idle"] /\ started = [c \in Callers |-> NoPlayer]
  /\ dropping = "no"
  /\ main = "top" /\ poll = "none" /\ writer = "none"
  /\ player = [p \in Players |-> "none"] /\ seen = [p \in Players |-> FALSE]
  /\ overrun = 0

\* The state lock.
StateFree == main \notin {"closing", "reaping"}

Alive(p) == player[p] # "none"

\* The name of a player that has ended, and that nobody is to join, is used
\* again.
Unused(p) == ~Alive(p) /\ p # handle /\ \A c \in Callers : p # started[c]

Goes(c, from, to) ==
  /\ dropping = "no"
  /\ caller[c] = from
  /\ caller' = [caller EXCEPT ![c] = to]
  /\ UNCHANGED dropping

-----------------------------------------------------------------------------
(* set_animation_auto *)

EnableCalled(c) ==
  /\ c \in Switchers
  /\ Goes(c, "idle", IF running THEN "idle" ELSE "starting")
  /\ UNCHANGED <<flags, holders, pad, started, threads, players, overrun, playing>>

StartPlayer(c) ==
  /\ Goes(c, "starting", "storing")
  /\ running' = TRUE
  /\ \E p \in Players : Unused(p)
  /\ LET p == CHOOSE q \in Players : Unused(q) IN
       /\ started' = [started EXCEPT ![c] = p]
       /\ player' = [player EXCEPT ![p] = "top"]
       /\ holders' = holders \cup {p}
  /\ UNCHANGED <<shutdown, paused, handle, pad, threads, seen, overrun, playing>>

HandleFree == \A c \in Callers : caller[c] # "joining"

StoreHandle(c) ==
  /\ HandleFree
  /\ Goes(c, "storing", "idle")
  /\ handle' = started[c]
  /\ started' = [started EXCEPT ![c] = NoPlayer]
  /\ UNCHANGED <<shutdown, running, paused, holders, pad, threads, players,
                 overrun, playing>>

DisableCalled(c) ==
  /\ c \in Switchers
  /\ Goes(c, "idle", IF running THEN "stopping" ELSE "idle")
  /\ UNCHANGED <<flags, holders, pad, started, threads, players, overrun, playing>>

StopPlayer(c) ==
  /\ Goes(c, "stopping", "taking")
  /\ running' = FALSE
  /\ UNCHANGED <<shutdown, paused, handle, holders, pad, started, threads,
                 players, overrun, playing>>

\* The thread is taken and joined under the lock of anim_thread.
TakeHandle(c) ==
  /\ HandleFree
  /\ Goes(c, "taking", IF handle = NoPlayer THEN "idle" ELSE "joining")
  /\ started' = [started EXCEPT ![c] = handle]
  /\ handle' = NoPlayer
  /\ UNCHANGED <<shutdown, running, paused, holders, pad, threads, players,
                 overrun, playing>>

\* (The mutant does not wait.)
JoinedAtOnce(c) == TRUE
Joined(c) == ~Alive(started[c])

JoinPlayer(c) ==
  /\ Goes(c, "joining", "idle")
  /\ Joined(c)
  /\ started' = [started EXCEPT ![c] = NoPlayer]
  /\ UNCHANGED <<flags, holders, pad, threads, players, overrun, playing>>

-----------------------------------------------------------------------------
(* set_lights and load_animation *)

PausePlayer(c) ==
  /\ Goes(c, "idle", "staging")
  /\ paused' = (paused \/ running)
  /\ UNCHANGED <<shutdown, running, handle, holders, pad, started, threads,
                 players, overrun, playing>>

StageLights(c) ==
  /\ StateFree
  /\ Goes(c, "staging", "idle")
  /\ overrun' = 0
  /\ UNCHANGED <<flags, holders, pad, started, threads, players, playing>>

LoadAnimation(c) ==
  /\ Goes(c, "idle", "idle")
  /\ \E t \in LightsType, gif \in Gifs : Load(t, gif)
  /\ UNCHANGED <<flags, holders, pad, started, threads, players, overrun>>

\* ANIMATION_PAUSE_DURATION is over.
PauseOver ==
  /\ paused
  /\ paused' = FALSE
  /\ overrun' = 0
  /\ UNCHANGED <<shutdown, running, handle, holders, pad, calls, threads, players,
                 playing>>

-----------------------------------------------------------------------------
(* animation_thread_loop *)

PlayerGoes(p, from, to) ==
  /\ player[p] = from
  /\ player' = [player EXCEPT ![p] = to]

PlayerTop(p) ==
  /\ running /\ ~shutdown
  /\ PlayerGoes(p, "top", "pause")
  /\ UNCHANGED <<flags, holders, pad, calls, threads, seen, overrun, playing>>

PlayerExit(p) ==
  /\ ~running \/ shutdown
  /\ PlayerGoes(p, "top", "none")
  /\ holders' = holders \ {p}
  /\ UNCHANGED <<flags, pad, calls, threads, seen, overrun, playing>>

\* (One mutant does not look at the pause, another has the test the wrong way
\* round.)
MayPlayAnyway == TRUE
MayPlayReversed == paused
MayPlay == ~paused

PlayerPaused(p) ==
  /\ PlayerGoes(p, "pause", IF MayPlay THEN "inputs" ELSE "top")
  /\ UNCHANGED <<flags, holders, pad, calls, threads, seen, overrun, playing>>

ReadInputs(p) ==
  /\ StateFree
  /\ PlayerGoes(p, "inputs", IF conn = "ready" THEN "build" ELSE "top")
  /\ seen' = [seen EXCEPT ![p] = input]
  /\ UNCHANGED <<flags, holders, pad, calls, threads, overrun, playing>>

PlayerBuild(p) ==
  /\ PlayerGoes(p, "build", "send")
  /\ BuildFrame(seen[p])
  /\ seen' = [seen EXCEPT ![p] = FALSE]
  /\ UNCHANGED <<flags, holders, pad, calls, threads, overrun>>

PlayerSend(p) ==
  /\ StateFree
  /\ PlayerGoes(p, "send", "top")
  /\ overrun' = overrun + (IF paused THEN 1 ELSE 0)
  /\ UNCHANGED <<flags, holders, pad, calls, threads, seen, playing>>

-----------------------------------------------------------------------------
(* main_thread_loop *)

\* (The mutant does not leave a pad that is connected.)
MainMayExitIdle == shutdown /\ conn = "none"
MainMayExit == shutdown

MainExit ==
  /\ main = "top" /\ MainMayExit
  /\ main' = "none"
  /\ holders' = holders \ {"main"}
  /\ UNCHANGED <<flags, pad, calls, poll, writer, players, overrun, playing>>

\* The threads of a new connection that have a reference to ManagerShared from
\* the start.  (The mutant gives the writer a strong one.)
ReferencesStrong == {"poll", "writer"}
References == {"poll"}

\* attempt_connections finds the pad, or does not.
AttemptConnections ==
  /\ main = "top" /\ ~shutdown
  /\ main' = "pass"
  /\ UNCHANGED <<flags, readError, writeError, input, stop, calls, players, overrun,
                 playing>>
  /\ \/ /\ conn = "none"
        /\ conn' = "open"
        /\ poll' = "read" /\ writer' = "recv"
        /\ holders' = holders \cup References
     \/ UNCHANGED <<conn, poll, writer, holders>>

Broken == conn # "none" /\ (readError \/ writeError)

\* A pass without an error: the pad may get ready, and a command is handed to
\* the writer thread if it has none.
Pass ==
  /\ main = "pass" /\ ~Broken
  /\ main' = "top"
  /\ conn' \in IF conn = "open" THEN {"open", "ready"} ELSE {conn}
  /\ writer' \in IF writer = "recv" THEN {"recv", "write"} ELSE {writer}
  /\ UNCHANGED <<flags, holders, readError, writeError, input, stop, calls, poll,
                 players, overrun, playing>>

\* An error: close() drops the connection, which waits for its writer thread.
CloseDevice ==
  /\ main = "pass" /\ Broken
  /\ main' = "closing"
  /\ conn' = "none" /\ input' = FALSE
  /\ UNCHANGED <<flags, holders, readError, writeError, stop, calls, poll,
                 writer, players, overrun, playing>>

\* Then the poll thread is told to stop, and joined.  (The mutant relies on its
\* having failed.)
StopFlagKept == stop
StopFlag == TRUE

StopPoll ==
  /\ main = "closing" /\ writer = "none"
  /\ main' = "reaping"
  /\ stop' = StopFlag
  /\ UNCHANGED <<flags, holders, conn, readError, writeError, input, calls, poll,
                 writer, players, overrun, playing>>

\* With the poll thread the last use of the connection's flags is gone.
ReapPoll ==
  /\ main = "reaping" /\ poll = "none"
  /\ main' = "top"
  /\ readError' = FALSE /\ writeError' = FALSE /\ stop' = FALSE
  /\ UNCHANGED <<flags, holders, conn, input, calls, poll, writer, players, overrun,
                 playing>>

-----------------------------------------------------------------------------
(* pad_poll_loop *)

\* A read that has the panel pressed, or not pressed any more.
PollInput ==
  /\ poll = "read" /\ conn # "none"
  /\ input' = ~input
  /\ UNCHANGED <<flags, holders, conn, readError, writeError, stop, calls, threads,
                 players, overrun, playing>>

PollFail ==
  /\ poll = "read"
  /\ readError' = TRUE
  /\ poll' = "none" /\ holders' = holders \ {"poll"}
  /\ UNCHANGED <<flags, conn, writeError, input, stop, calls, main, writer, players,
                 overrun, playing>>

PollExit ==
  /\ poll = "read" /\ (stop \/ shutdown)
  /\ poll' = "none" /\ holders' = holders \ {"poll"}
  /\ UNCHANGED <<flags, pad, calls, main, writer, players, overrun, playing>>

-----------------------------------------------------------------------------
(* writer_loop *)

\* The CommandHandle has been dropped, and with it the channel.
Closed == conn = "none" \/ holders = {}

WriterExit ==
  /\ writer = "recv" /\ Closed
  /\ writer' = "none"
  /\ UNCHANGED <<flags, holders, pad, calls, main, poll, players, overrun, playing>>

\* The packets are written, or a write fails.
WriterWrite ==
  /\ writer = "write"
  /\ writer' = "notify"
  /\ writeError' \in BOOLEAN
  /\ UNCHANGED <<flags, holders, conn, readError, input, stop, calls, main, poll,
                 players, overrun, playing>>

AfterNotify == IF writeError THEN "none" ELSE "recv"

\* write_done_notify: the writer holds the manager for as long as it takes to
\* notify the main thread.
WriterUpgrade ==
  /\ writer = "notify"
  /\ IF holders = {}
     THEN writer' = AfterNotify /\ UNCHANGED holders
     ELSE writer' = "holding" /\ holders' = holders \cup {"writer"}
  /\ UNCHANGED <<flags, pad, calls, main, poll, players, overrun, playing>>

\* If no one else holds it any more the writer destroys it, with the
\* CommandHandle, whose drop joins the writer thread: itself.
WriterRelease ==
  /\ writer = "holding"
  /\ holders' = holders \ {"writer"}
  /\ writer' = IF holders' = {} /\ conn # "none" THEN "joins itself" ELSE AfterNotify
  /\ UNCHANGED <<flags, pad, calls, main, poll, players, overrun, playing>>

-----------------------------------------------------------------------------
(* drop *)

DropGoes(from, to) ==
  /\ dropping = from
  /\ dropping' = to
  /\ UNCHANGED <<caller, started>>

\* The application has no other use of the manager left.
Drop ==
  /\ \A c \in Callers : caller[c] = "idle"
  /\ DropGoes("no", "player")
  /\ shutdown' = TRUE /\ running' = FALSE
  /\ UNCHANGED <<paused, handle, holders, pad, threads, players, overrun, playing>>

DropPlayer ==
  /\ handle # NoPlayer => ~Alive(handle)
  /\ DropGoes("player", "main")
  /\ handle' = NoPlayer
  /\ UNCHANGED <<shutdown, running, paused, holders, pad, threads, players, overrun,
                 playing>>

DropMain ==
  /\ main = "none"
  /\ DropGoes("main", "poll")
  /\ stop' = TRUE
  /\ UNCHANGED <<flags, holders, conn, readError, writeError, input, threads, players,
                 overrun, playing>>

\* (The mutant does not join the poll thread.)
PollJoinedAtOnce == TRUE
PollJoined == poll = "none"

DropPoll ==
  /\ PollJoined
  /\ DropGoes("poll", "shared")
  /\ UNCHANGED <<flags, holders, pad, threads, players, overrun, playing>>

\* The reference of the manager itself goes last; if it is the last one the
\* connection is dropped here, and its writer thread joined.
DropShared ==
  /\ DropGoes("shared", IF holders = {"manager"} THEN "writer" ELSE "done")
  /\ holders' = holders \ {"manager"}
  /\ UNCHANGED <<flags, pad, threads, players, overrun, playing>>

DropWriter ==
  /\ writer = "none"
  /\ DropGoes("writer", "done")
  /\ UNCHANGED <<flags, holders, pad, threads, players, overrun, playing>>

-----------------------------------------------------------------------------

\* What a caller goes on with once it has begun.
CallerStep(c) ==
  \/ StartPlayer(c) \/ StoreHandle(c)
  \/ StopPlayer(c) \/ TakeHandle(c) \/ JoinPlayer(c)
  \/ StageLights(c)

PlayerStep(p) ==
  \/ PlayerTop(p) \/ PlayerExit(p) \/ PlayerPaused(p)
  \/ ReadInputs(p) \/ PlayerBuild(p) \/ PlayerSend(p)

MainStep ==
  \/ MainExit \/ AttemptConnections \/ Pass
  \/ CloseDevice \/ StopPoll \/ ReapPoll

WriterStep == WriterExit \/ WriterWrite \/ WriterUpgrade \/ WriterRelease

DropStep == DropPlayer \/ DropMain \/ DropPoll \/ DropShared \/ DropWriter

Next ==
  \/ \E c \in Callers :
       EnableCalled(c) \/ DisableCalled(c) \/ PausePlayer(c) \/ LoadAnimation(c)
         \/ CallerStep(c)
  \/ PauseOver
  \/ \E p \in Players : PlayerStep(p)
  \/ MainStep
  \/ PollInput \/ PollFail \/ PollExit
  \/ WriterStep
  \/ Drop \/ DropStep

Spec == Init /\ [][Next]_vars

\* Every thread that can go on does, and reads and writes return.  A player or a
\* caller gets the state lock in the end: the main thread waits without it after
\* each pass.
Fairness ==
  /\ \A c \in Callers : SF_vars(CallerStep(c))
  /\ \A p \in Players : SF_vars(PlayerStep(p))
  /\ WF_vars(MainStep)
  /\ WF_vars(PollExit)
  /\ WF_vars(WriterStep)
  /\ WF_vars(DropStep)

FairSpec == Spec /\ Fairness

-----------------------------------------------------------------------------
(* Properties *)

\* A thread holds ManagerShared while it runs, the writer while it notifies.
HoldersOK ==
  holders =
    {p \in Players : Alive(p)}
      \cup (IF dropping \in {"writer", "done"} THEN {} ELSE {"manager"})
      \cup (IF main = "none" THEN {} ELSE {"main"})
      \cup (IF poll = "none" THEN {} ELSE {"poll"})
      \cup (IF writer = "holding" THEN {"writer"} ELSE {})

TypeOK ==
  /\ shutdown \in BOOLEAN /\ running \in BOOLEAN /\ paused \in BOOLEAN
  /\ handle \in Players \cup {NoPlayer}
  /\ conn \in {"none", "open", "ready"}
  /\ readError \in BOOLEAN /\ writeError \in BOOLEAN
  /\ input \in BOOLEAN /\ stop \in BOOLEAN
  /\ caller \in [Callers -> {"idle", "starting", "storing", "stopping", "taking",
                             "joining", "staging"}]
  /\ started \in [Callers -> Players \cup {NoPlayer}]
  /\ dropping \in {"no", "player", "main", "poll", "shared", "writer", "done"}
  /\ main \in {"none", "top", "pass", "closing", "reaping"}
  /\ poll \in {"none", "read"}
  /\ writer \in {"none", "recv", "write", "notify", "holding", "joins itself"}
  /\ player \in [Players -> {"none", "top", "pause", "inputs", "build", "send"}]
  /\ seen \in [Players -> BOOLEAN]
  /\ overrun \in Nat
  /\ animation \in [LightsType -> Gifs \cup {NotLoaded}]
  /\ playback \in [LightsType -> [frame : Nat, time : Nat]]
  /\ HoldersOK

\* The frames before an animation's loop frame are shown once: a pass goes back
\* to one only because the panel was released.
IntroOnce ==
  [][\A p \in Players : \A t \in LightsType :
       player[p] = "build" /\ player'[p] = "send" /\ Loaded(t)
         /\ playback[t].frame >= LoopFrame(animation[t])
         /\ (t = "pressed" => seen[p])
       => playback'[t].frame >= LoopFrame(animation[t])]_vars

\* Lights that the application sets while an animation plays are replaced by at
\* most the frame that was on its way, until the pause is over.
DirectLightsKept == overrun <= 1

\* When set_animation_auto(false) has returned no thread plays animations, also
\* not the one of a player that was started and stopped in quick succession.
OffMeansOff ==
  ~running /\ (\A c \in Callers : caller[c] \in {"idle", "staging"})
    /\ dropping = "no"
  => \A p \in Players : ~Alive(p)

\* README and manager.rs: animations play "at 30 FPS" and a second thread is not
\* started ("Already running").
OnePlayer == Cardinality({p \in Players : Alive(p)}) <= 1

\* After drop no thread that calls the application back is left, and nothing
\* but a writer thread that is just notifying holds the manager.
QuietAfterDrop ==
  dropping = "done" =>
    /\ main = "none" /\ poll = "none" /\ \A p \in Players : ~Alive(p)
    /\ holders \subseteq {"writer"}

\* drop returns, whatever the threads were at.
DropReturns == dropping = "player" ~> dropping = "done"

\* set_animation_auto returns.
SwitchReturns ==
  \A c \in Switchers : caller[c] \in {"starting", "stopping"} ~> caller[c] = "idle"

\* While automatic animation is on and the pad is connected, frames are staged
\* again and again, unless the application sets lights itself again and again.
AnimationPlays ==
  <>[](running /\ conn = "ready" /\ ~paused)
    => []<>(\E p \in Players : player[p] = "send")

\* manager.rs, attempt_connections: the writer's reference is weak because "the
\* writer thread must not keep the manager alive".  It is never the one whose
\* reference keeps the state, the connection and so itself.
WriterKeepsNothing == holders # {"writer"}

=============================================================================
