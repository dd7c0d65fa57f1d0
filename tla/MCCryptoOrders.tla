--------------------------- MODULE MCCryptoOrders ---------------------------
(* The environments CryptoOrders is checked in. *)
EXTENDS CryptoOrders

Pair == [o \in Order |-> IF o = "b1" THEN 2 ELSE 1]

Calm(orders) == [orders |-> orders, days |-> 0, cancels |-> 0, faults |-> 0,
                 restarts |-> 0, crashes |-> 0, partial |-> TRUE]

(* Outside cancellations over midnight; failing calls; a restart of the    *)
(* bot with an order that both sides of it know; a crash and a failing     *)
(* call; three orders at once.                                             *)
TradingScenarios ==
  {[Calm({"b1", "b2"}) EXCEPT !.cancels = 1, !.days = 1],
   [Calm({"b1", "b2"}) EXCEPT !.faults = 2],
   [Calm({"b1"}) EXCEPT !.restarts = 1, !.cancels = 1],
   [Calm({"b1", "b2"}) EXCEPT !.restarts = 1, !.partial = FALSE],
   [Calm({"b1", "s1"}) EXCEPT !.crashes = 1, !.faults = 1, !.partial = FALSE],
   [Calm({"b1", "b2", "s1"}) EXCEPT !.cancels = 1, !.partial = FALSE]}
=============================================================================
