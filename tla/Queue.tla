------------------------------- MODULE Queue -------------------------------
(***************************************************************************)
(* The double-ended queue operations the SDK uses on VecDeque.  push_back, *)
(* push_front and pop_front are Append, \o and Tail; retain is below.  It  *)
(* is a recursive function, so that theorems can be proved about it.       *)
(***************************************************************************)
EXTENDS Integers, Sequences

\* The set of values in q.
Members(q) == {q[i] : i \in DOMAIN q}

\* VecDeque::retain: the elements of q that are in keep, in their order.
Retain(q, keep) ==
  LET kept[i \in 0..Len(q)] ==
        IF i = 0 THEN <<>>
        ELSE IF q[i] \in keep THEN Append(kept[i - 1], q[i])
        ELSE kept[i - 1]
  IN  kept[Len(q)]

=============================================================================
