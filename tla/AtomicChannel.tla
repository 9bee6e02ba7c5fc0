--------------------------- MODULE AtomicChannel ---------------------------
(***************************************************************************)
(* What README.md promises of a sending socket connected to a receiving    *)
(* one: a multipart message is put into the channel in one step, and is    *)
(* "either received in full or not received at all".  Messages may be      *)
(* lost, but are neither split, merged, reordered nor duplicated.          *)
(***************************************************************************)
EXTENDS Sequences

CONSTANT Whole     \* what a call of send() can put into the channel

VARIABLES
  queue,           \* sent and neither delivered nor lost
  delivered        \* delivered by a receive() that returned true

vars == <<queue, delivered>>

Init == queue = <<>> /\ delivered = <<>>

\* A call of send() returns true.
Put(m) ==
  /\ queue' = Append(queue, m)
  /\ UNCHANGED delivered

\* A call of receive() returns true.
Get ==
  /\ queue # <<>>
  /\ delivered' = Append(delivered, Head(queue))
  /\ queue' = Tail(queue)

\* The oldest message is lost: a receive() that does not fit it has taken it.
Lose ==
  /\ queue # <<>>
  /\ queue' = Tail(queue)
  /\ UNCHANGED delivered

Next == (\E m \in Whole : Put(m)) \/ Get \/ Lose

Spec == Init /\ [][Next]_vars
=============================================================================
