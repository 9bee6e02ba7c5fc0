----------------------------- MODULE SocketTypes ------------------------------
(***************************************************************************)
(* The socket types: each is a SocketTypeWrapper, with the number of a     *)
(* libzmq socket type, around a tower of mixins on Socket.  A mixin gives  *)
(* the type its operations; at the bottom of every tower is Socket.        *)
(***************************************************************************)

DealerSocket  ==
  {"RouterProbing", "Conflating", "Identifying", "Receiving", "Sending"}
ExtendedPublishSocket   == {"Conflating", "Receiving", "Sending"}
ExtendedSubscribeSocket ==
  {"Conflating", "Subscribing", "Receiving", "Sending"}
PublishSocket == {"Conflating", "Sending"}
PullSocket    == {"Conflating", "Receiving"}
PushSocket    == {"Conflating", "Sending"}
ReplySocket   == {"Identifying", "Receiving", "Sending"}
RequestSocket ==
  {"RouterProbing", "Requesting", "Identifying", "Receiving", "Sending"}
RouterSocket  ==
  {"RouterProbing", "Routing", "Identifying", "Receiving", "Sending"}
SubscribeSocket == {"Conflating", "Subscribing", "Receiving"}

\* The mixins of each type, by the name libzmq has for it.
Mixins ==
  [Dealer |-> DealerSocket, XPub |-> ExtendedPublishSocket,
   XSub |-> ExtendedSubscribeSocket, Pub |-> PublishSocket,
   Pull |-> PullSocket, Push |-> PushSocket, Rep |-> ReplySocket,
   Req |-> RequestSocket, Router |-> RouterSocket, Sub |-> SubscribeSocket]

Types == DOMAIN Mixins
Having(mixin) == {t \in Types : mixin \in Mixins[t]}
=============================================================================
