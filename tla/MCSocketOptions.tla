-------------------------- MODULE MCSocketOptions --------------------------
(***************************************************************************)
(* An instance of SocketOptions for TLC.                                   *)
(***************************************************************************)
EXTENDS SocketOptions, TLC

\* Two SUB objects, which can be moved to each other, a DEALER and, where the
\* configuration has it, an XSUB.
CONSTANTS x1, x2, dealer, xsub

MCSocketType ==
  [x \in Objects |-> CASE x \in {x1, x2} -> "Sub" [] x = dealer -> "Dealer"
                       [] x = xsub -> "XSub"]

\* An option that comes from the Context, one that is read with the wrong
\* type, one that is set and read with the wrong type, two of the right type
\* (of which RCVHWM is set to this and that on the SUB objects too), and one
\* whose setter refuses its own default.
MCOptions == {"IPV6", "LINGER", "MAXMSGSIZE", "SNDHWM", "RCVHWM", "IDENTITY"}
MCInputs ==
  [IPV6 |-> {TRUE}, LINGER |-> {}, MAXMSGSIZE |-> {64}, SNDHWM |-> {-1, 2},
   RCVHWM |-> {1, 2}, IDENTITY |-> {0, 1}]

\* The two SUB objects may change places.
Symmetry == Permutations({x1, x2})
=============================================================================
