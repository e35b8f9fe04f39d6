------------------------------ MODULE MCGamepad ------------------------------
(***************************************************************************)
(* A small instance of Gamepad.                                            *)
(***************************************************************************)
EXTENDS Gamepad

MCLowest == -8

\* Two identities share a profile id, the third has one of its own.
MCIdOf == [d1 |-> "p1", d2 |-> "p2", d3 |-> "p1"]

\* Two pads of one model and one serial number, as cheap ones have, and one of
\* another model; the selection names the serial number too.
MCModel == [a |-> "wanted", b |-> "wanted", c |-> "other"]
MCSerial == [a |-> "1", b |-> "1", c |-> None]
MCCounts == [a |-> 8, b |-> 6, c |-> 8]
MCWanted == [model |-> "wanted", serial |-> "1"]
=============================================================================
