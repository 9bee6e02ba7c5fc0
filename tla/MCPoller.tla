------------------------------ MODULE MCPoller ------------------------------
(***************************************************************************)
(* An instance of Poller for TLC.                                          *)
(***************************************************************************)
EXTENDS Poller

\* Two sockets; one of them is in two items, one item waits for both events,
\* and one has no callback.
CONSTANTS s1, s2

MCItems ==
  <<PollItem(IsReceiveReady, s1, TRUE),
    PollItem(IsSendOrReceiveReady, s2, TRUE),
    PollItem(IsSendReady, s1, FALSE)>>
MCSocketType == [s \in Sockets |-> IF s = s1 THEN "Router" ELSE "Dealer"]
=============================================================================
