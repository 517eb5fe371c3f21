----------------------------- MODULE MCPlaceOrder ----------------------------
(* Instances of PlaceOrder for TLC.                                         *)
EXTENDS PlaceOrder
CONSTANTS spot, perp, empty
\* Three orders in a spot request, two in a perp batch, none in any other.
MCOrders == [r \in Requests |-> CASE r = spot -> 3 [] r = perp -> 2
                                  [] OTHER -> 0]
=============================================================================
