-------------------------- MODULE MCMessageChannels --------------------------
(* Three channels, crawled by the loop in their order.                     *)
EXTENDS MessageChannels

CONSTANTS c1, c2, c3
OrderOfThree == <<c1, c2, c3>>

=============================================================================
