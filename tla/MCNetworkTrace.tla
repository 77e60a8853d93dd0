---------------------------- MODULE MCNetworkTrace ----------------------------
(***************************************************************************)
(* Instances of NetworkTrace: one connection for each listener             *)
(* and a channel with room for one.                                        *)
(***************************************************************************)
EXTENDS NetworkTrace

CONSTANTS c1, c2

MCFamily == [c \in Conn |-> IF c = c2 THEN V6 ELSE V4]
=============================================================================
