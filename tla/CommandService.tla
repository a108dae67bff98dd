--------------------------- MODULE CommandService ---------------------------
(***************************************************************************)
(* What a pad connection promises to the code that queues commands on it,  *)
(* with no threads, no wire and no retries: a command is issued once, is   *)
(* outstanding until it is resolved, and the caller's callback runs at     *)
(* most once, on its resolution.                                           *)
(*                                                                         *)
(* Commands are numbered in the order they are issued.  called[c] counts   *)
(* the runs of c's callback; outstanding is the set of commands not yet    *)
(* resolved.                                                               *)
(***************************************************************************)
EXTENDS Integers, Sequences

VARIABLES outstanding, called, open

serviceVars == <<outstanding, called, open>>

Issued == 1..Len(called)

ServiceTypeOK ==
  /\ called \in Seq(Nat)
  /\ outstanding \subseteq Issued
  /\ open \in BOOLEAN

\* The connection opens with one command outstanding: its own identity request.
ServiceInit ==
  /\ outstanding = {1}
  /\ called = <<0>>
  /\ open = TRUE

Issue ==
  /\ open
  /\ called' = Append(called, 0)
  /\ outstanding' = outstanding \cup {Len(called) + 1}
  /\ UNCHANGED open

\* A command is answered, or fails at hand-off: its callback, if it has one,
\* runs.
Resolve(c) ==
  /\ open
  /\ c \in outstanding
  /\ outstanding' = outstanding \ {c}
  /\ \E runs \in {0, 1} : called' = [called EXCEPT ![c] = @ + runs]
  /\ UNCHANGED open

\* Some outstanding commands are withdrawn unanswered, no callback runs.
Withdraw(withdrawn) ==
  /\ open
  /\ withdrawn \subseteq outstanding
  /\ outstanding' = outstanding \ withdrawn
  /\ UNCHANGED <<called, open>>

\* The connection is closed: everything outstanding is cancelled, and every
\* callback among it runs once.
CancelAll ==
  /\ open
  /\ open' = FALSE
  /\ outstanding' = {}
  /\ \E withCallback \in SUBSET outstanding :
       called' = [c \in Issued |->
                    called[c] + (IF c \in withCallback THEN 1 ELSE 0)]

\* The connection is dropped without a close: no callback runs any more.
Abandoned ==
  /\ open
  /\ open' = FALSE
  /\ UNCHANGED <<outstanding, called>>

ServiceNext ==
  \/ Issue
  \/ \E c \in Issued : Resolve(c)
  \/ \E withdrawn \in SUBSET Issued : Withdraw(withdrawn)
  \/ CancelAll
  \/ Abandoned

Service == ServiceInit /\ [][ServiceNext]_serviceVars

\* No callback runs twice, and none runs while its command is outstanding.
CalledAtMostOnce ==
  \A c \in Issued : called[c] <= (IF c \in outstanding THEN 0 ELSE 1)

=============================================================================
