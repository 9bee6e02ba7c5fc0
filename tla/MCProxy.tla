------------------------------- MODULE MCProxy --------------------------------
(***************************************************************************)
(* An instance of Proxy for TLC: a ROUTER and a DEALER socket, a PUSH      *)
(* socket to capture, a PULL socket to control.                            *)
(***************************************************************************)
EXTENDS Proxy, TLC

CONSTANTS push, pull

MCCaptureType == push :> "Push"
MCMaxMessages == [request |-> 2, reply |-> 1]
MCControlType == pull :> "Pull"
=============================================================================
