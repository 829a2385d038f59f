------------------------------ MODULE MCOrders ------------------------------
(* Values of the constants of Orders for TLC. *)
EXTENDS Orders
CONSTANT e1
MCCarries  == [d \in Delivery |-> e1]
MCBill     == [e \in Event |-> 1]
=============================================================================
