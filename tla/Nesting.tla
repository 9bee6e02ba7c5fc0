------------------------------- MODULE Nesting -------------------------------
(***************************************************************************)
(* What the parameters of socket.send() and socket.receive() are made of:  *)
(* messages, and composites written by the application, whose send() or    *)
(* receive() works through other items.  Common to both ends.              *)
(***************************************************************************)
EXTENDS Integers, Sequences

CONSTANTS
  Messages,      \* the OutgoingMessage or IncomingMessage objects
  Composites,    \* the application's own Sendables or Receivables
  Parts          \* Parts[c]: the items that composite c works through, in order

\* Everything that is a Sendable, or a Receivable.
Items == Messages \cup Composites

\* A composite has parts, but none that it is a part of itself, at whatever
\* depth: its send() or receive() would never end.
ASSUME NestingAssumption ==
  /\ Messages \cap Composites = {}
  /\ Parts \in [Composites -> Seq(Items)]
  /\ \A c \in Composites : Parts[c] # <<>>
  /\ \A T \in (SUBSET Composites) \ {{}} :
       \E c \in T : \A i \in 1 .. Len(Parts[c]) : Parts[c][i] \notin T

\* The reference for what a list of items stands for: its leaves, from left to
\* right.
Leaves[items \in Seq(Items)] ==
  IF items = <<>> THEN <<>>
  ELSE (IF Head(items) \in Messages
        THEN <<Head(items)>> ELSE Leaves[Parts[Head(items)]])
       \o Leaves[Tail(items)]

\* What is meant to hold of Leaves, case by case: no items, a message first, a
\* composite first.  It does, for every nest: LeavesCases, in
\* MultipartSend_proofs.
LeavesAreThose ==
  /\ Leaves \in [Seq(Items) -> Seq(Messages)]
  /\ Leaves[<<>>] = <<>>
  /\ \A s \in Seq(Items) :
       s # <<>> =>
         Leaves[s] = (IF Head(s) \in Messages
                      THEN <<Head(s)>> ELSE Leaves[Parts[Head(s)]])
                     \o Leaves[Tail(s)]
=============================================================================
