--------------------------- MODULE MCInboundQueue ---------------------------
(* Small instances of InboundQueue for TLC. *)
EXTENDS InboundQueue

CONSTANT j1

\* Both messages are of one customer.
MCSameJid  == [m \in 1..2 |-> j1]
=============================================================================
