----------------------------- MODULE MCMessaging -----------------------------
(* A small instance of Messaging for TLC: an event with a message and one       *)
(* without a queue.                                                             *)
EXTENDS Messaging

CONSTANTS m1

MCMessage == <<m1, Nothing>>
=============================================================================
