----------------------------- MODULE MCLifecycle -----------------------------
(* Small animations: one frame, and a loop with an intro. *)
EXTENDS Lifecycle

Short == [durations |-> <<1>>, marked |-> {0}]
Intro == [durations |-> <<1, 2>>, marked |-> {0, 1}]

TwoGifs == {Short, Intro}

=============================================================================
