---------------------------- MODULE CryptoOrders ----------------------------
(***************************************************************************)
(* Live trading of one bot on one symbol: placeOrder claims a buy's value  *)
(* against the UTC day's spend counter in Redis, places the order and      *)
(* tracks what stays open in the trade ledger; reconcileLedger cancels     *)
(* stale orders, resolves the ones that left the exchange's open list and  *)
(* refunds what was not bought; the ledger is saved to Redis and loaded by *)
(* the next runtime, which may start while calls of the old one still run. *)
(*                                                                         *)
(* Each action is the synchronous code between two awaits.  Redis commands *)
(* of one process are applied in the order it issues them, so a claim, a   *)
(* refund or a save takes effect where it is issued.  The price is one, a  *)
(* quantity is its value; positions, entry prices and exits are left out.  *)
(***************************************************************************)
EXTENDS Integers, FiniteSets

CONSTANTS Buys, Sells,   \* the orders, by clientOrderId (randomUUID)
          Quantity,      \* their quantities
          Cap,           \* maxDailyOrderValueUsdt
          MaxRuntimes,   \* how many runtimes connect() may create (bound)
          Scenarios

Order == Buys \cup Sells
Runtimes == 1..MaxRuntimes
Days == 0..1

(* Bounds on the environment: the orders there will be, days that end,     *)
(* orders cancelled outside the bot, calls that fail, restarts of the bot  *)
(* and of the process; and may an order be filled in part?                 *)
Scenario == [orders : SUBSET Order, days : Nat, cancels : Nat, faults : Nat, restarts : Nat,
             crashes : Nat, partial : BOOLEAN]

ASSUME CryptoAssumption ==
  /\ Buys \cap Sells = {}
  /\ Quantity \in [Order -> Nat \ {0}]
  /\ Cap \in Nat
  /\ MaxRuntimes \in Nat \ {0}
  /\ Scenarios \subseteq Scenario

VARIABLES day, spend,  \* the UTC day; dailySpendKey(bot, day) -> value
          book,        \* the order as the exchange knows it
          call,        \* placeOrder calls in flight
          live,        \* the runtime this.runtimes holds
          ledger,      \* each runtime's tracked open orders
          saved,       \* the tracked orders in the Redis snapshot
          rec,         \* each runtime's reconcileLedger call
          aged,        \* orders older than orderTtlMs
          leaks,       \* history: the ways accounting has been lost so far
          env

vars == <<day, spend, book, call, live, ledger, saved, rec, aged, leaks, env>>

Untouched == [state |-> "none", filled |-> 0]
NoCall == [at |-> "idle", rt |-> 0, claimed |-> FALSE, day |-> 0, seen |-> Untouched]
NoRec == [at |-> "idle", todo |-> {}, open |-> {}]

OrderState == [state : {"none", "open", "filled", "canceled"}, filled : Nat]

Leak == {"reply", "redis", "partial", "canceled", "day", "race", "memory"}

TypeOK ==
  /\ day \in Days /\ spend \in [Days -> 0..Cap]
  /\ book \in [Order -> OrderState]
  /\ \A o \in Order : book[o].filled <= Quantity[o]
  /\ call \in [Order -> [at : {"idle", "sending", "failed", "answered", "done"},
                         rt : Runtimes \cup {0}, claimed : BOOLEAN, day : Days,
                         seen : OrderState]]
  /\ live \in Runtimes
  /\ ledger \in [Runtimes -> SUBSET Order] /\ saved \subseteq Order
  /\ rec \in [Runtimes -> [at : {"idle", "cancelling", "fetched", "resolving"},
                           todo : SUBSET Order, open : SUBSET Order]]
  /\ aged \subseteq Order /\ leaks \subseteq Leak
  /\ env \in Scenario

Init ==
  /\ day = 0 /\ spend = [d \in Days |-> 0]
  /\ book = [o \in Order |-> Untouched]
  /\ call = [o \in Order |-> NoCall]
  /\ live = 1 /\ ledger = [r \in Runtimes |-> {}] /\ saved = {}
  /\ rec = [r \in Runtimes |-> NoRec]
  /\ aged = {} /\ leaks = {}
  /\ env \in Scenarios

Spend(bound) == env[bound] > 0 /\ env' = [env EXCEPT ![bound] = @ - 1]

IsOpen(o) == book[o].state = "open"
InFlight(o) == call[o].at \in {"sending", "failed", "answered"}
Busy(r) == rec[r].at # "idle" \/ \E o \in Order : InFlight(o) /\ call[o].rt = r

-----------------------------------------------------------------------------
(* The spend counter.                                                      *)

Fits(o) == spend[day] + Quantity[o] <= Cap

(* refundDailySpend: today's counter, clamped at zero, whichever day the   *)
(* claim was made.                                                         *)
RefundTo(q) == spend' = [spend EXCEPT ![day] = IF @ > q THEN @ - q ELSE 0]
DayLeak(o) == IF call[o].day # day THEN {"day"} ELSE {}

(* Mutant of Unfilled: a cancelled order is refunded as a whole.           *)
UnfilledWhole(o, filled) == Quantity[o]
Unfilled(o, filled) == Quantity[o] - filled

(* refundUnfilled: buys only, and not when there is nothing to refund.     *)
RefundUnfilled(o, filled) ==
  IF o \in Buys /\ Unfilled(o, filled) > 0 THEN RefundTo(Unfilled(o, filled)) ELSE UNCHANGED spend

RefundLeaks(o, filled) == IF o \in Buys /\ filled < Quantity[o] THEN DayLeak(o) ELSE {}

-----------------------------------------------------------------------------
(* placeOrder.                                                             *)

(* A sell, or a buy whose claim fits; one that does not is blocked.        *)
PlaceOrder(o) ==
  /\ call[o].at = "idle" /\ o \in env.orders
  /\ \/ o \in Sells /\ UNCHANGED spend
     \/ o \in Buys /\ Fits(o) /\ spend' = [spend EXCEPT ![day] = @ + Quantity[o]]
  /\ call' = [call EXCEPT ![o] = [@ EXCEPT !.at = "sending", !.rt = live, !.day = day,
                                            !.claimed = (o \in Buys)]]
  /\ UNCHANGED <<day, book, live, ledger, saved, rec, aged, leaks, env>>

(* Redis is down: the claim fails open.                                    *)
PlaceUnclaimed(o) ==
  /\ call[o].at = "idle" /\ o \in env.orders \cap Buys
  /\ call' = [call EXCEPT ![o] = [@ EXCEPT !.at = "sending", !.rt = live, !.day = day]]
  /\ leaks' = leaks \cup {"redis"} /\ Spend("faults")
  /\ UNCHANGED <<day, spend, book, live, ledger, saved, rec, aged>>

(* What the exchange may make of a new order: it rests open, possibly      *)
(* filled in part, or is filled, or expires with a part filled.            *)
Accepted(o) ==
  {b \in [state : {"open", "filled", "canceled"}, filled : 0..Quantity[o]] :
     /\ b.state = "filled" <=> b.filled = Quantity[o]
     /\ b.state # "filled" /\ ~env.partial => b.filled = 0}

ExchangeAccepts(o) ==
  /\ call[o].at = "sending"
  /\ \E b \in Accepted(o) :
       /\ book' = [book EXCEPT ![o] = b]
       /\ call' = [call EXCEPT ![o].at = "answered", ![o].seen = b]
  /\ UNCHANGED <<day, spend, live, ledger, saved, rec, aged, leaks, env>>

(* The exchange refuses; or (lost) it accepts and the answer is lost.      *)
ExchangeFails(o, lost) ==
  /\ call[o].at = "sending" /\ Spend("faults")
  /\ call' = [call EXCEPT ![o].at = "failed"]
  /\ IF lost THEN /\ \E b \in Accepted(o) : book' = [book EXCEPT ![o] = b]
                  /\ leaks' = leaks \cup {"reply"}
             ELSE UNCHANGED <<book, leaks>>
  /\ UNCHANGED <<day, spend, live, ledger, saved, rec, aged>>

Track(r, o) == /\ ledger' = [ledger EXCEPT ![r] = @ \cup {o}]
               /\ saved' = ledger'[r]

(* An answer with a fill counts the fill and tracks nothing, even when the *)
(* rest of the order stays open; any other order is tracked.  Then the     *)
(* ledger is saved.                                                        *)
Answered(o) ==
  /\ call[o].at = "answered"
  /\ call' = [call EXCEPT ![o].at = "done"]
  /\ IF call[o].seen.filled > 0 /\ call[o].seen.state \in {"filled", "open"}
     THEN /\ UNCHANGED ledger
          /\ saved' = ledger[call[o].rt]
          /\ leaks' = leaks \cup (IF call[o].seen.state = "open" THEN {"partial"} ELSE {})
     ELSE Track(call[o].rt, o) /\ UNCHANGED leaks
  /\ UNCHANGED <<day, spend, book, live, rec, aged, env>>

(* order() rejected: the whole claim is refunded.  refundDailySpend knows  *)
(* neither whether the claim was made nor on which day.                    *)
Failed(o) ==
  /\ call[o].at = "failed"
  /\ call' = [call EXCEPT ![o].at = "done"]
  /\ IF o \in Buys THEN RefundTo(Quantity[o]) /\ leaks' = leaks \cup DayLeak(o)
                   ELSE UNCHANGED <<spend, leaks>>
  /\ UNCHANGED <<day, book, live, ledger, saved, rec, aged, env>>

-----------------------------------------------------------------------------
(* reconcileLedger of runtime r.                                           *)

RecTo(r, at, todo, open) == rec' = [rec EXCEPT ![r] = [at |-> at, todo |-> todo, open |-> open]]
(* Mutant of Untrack: the order is refunded but stays in the ledger.       *)
UntrackNever(r, o) == UNCHANGED ledger
Untrack(r, o) == ledger' = [ledger EXCEPT ![r] = @ \ {o}]
Handled(r, o) == rec' = [rec EXCEPT ![r].todo = @ \ {o}]

StartReconcile ==
  /\ rec[live].at = "idle"
  /\ RecTo(live, "cancelling", ledger[live] \cap aged, {})
  /\ UNCHANGED <<day, spend, book, call, live, ledger, saved, aged, leaks, env>>

(* cancelStaleOrders, one order: cancelled, and refunded but for its fill; *)
(* an order that is not open any more stays tracked for now.               *)
CancelStale(r, o) ==
  /\ rec[r].at = "cancelling" /\ o \in rec[r].todo
  /\ Handled(r, o)
  /\ IF IsOpen(o)
     THEN /\ book' = [book EXCEPT ![o].state = "canceled"]
          /\ Untrack(r, o)
          /\ RefundUnfilled(o, book[o].filled)
          /\ leaks' = leaks \cup RefundLeaks(o, book[o].filled)
     ELSE UNCHANGED <<book, ledger, spend, leaks>>
  /\ UNCHANGED <<day, call, live, saved, aged, env>>

(* The cancel request fails, before or (landed) after it took effect.      *)
CancelFails(r, o, landed) ==
  /\ rec[r].at = "cancelling" /\ o \in rec[r].todo /\ Spend("faults")
  /\ Handled(r, o)
  /\ landed => IsOpen(o)
  /\ book' = IF landed THEN [book EXCEPT ![o].state = "canceled"] ELSE book
  /\ UNCHANGED <<day, spend, call, live, ledger, saved, aged, leaks>>

(* openOrders: what the exchange lists, on its way to the worker.          *)
FetchOpen(r) ==
  /\ rec[r].at = "cancelling" /\ rec[r].todo = {}
  /\ RecTo(r, "fetched", {}, {o \in Order : IsOpen(o)})
  /\ UNCHANGED <<day, spend, book, call, live, ledger, saved, aged, leaks, env>>

(* account() or openOrders() rejects: the cycle ends without a save.       *)
FetchFails(r) ==
  /\ rec[r].at = "cancelling" /\ rec[r].todo = {} /\ Spend("faults")
  /\ RecTo(r, "idle", {}, {})
  /\ UNCHANGED <<day, spend, book, call, live, ledger, saved, aged, leaks>>

CompareOpen(r) ==
  /\ rec[r].at = "fetched"
  /\ RecTo(r, "resolving", ledger[r] \ rec[r].open, {})
  /\ UNCHANGED <<day, spend, book, call, live, ledger, saved, aged, leaks, env>>

(* What is refunded when the status of a missing order arrives: a filled   *)
(* or partly filled order keeps its fill, anything else keeps nothing.     *)
Credited(o) ==
  IF book[o].state = "filled" \/ (IsOpen(o) /\ book[o].filled > 0) THEN book[o].filled ELSE 0

(* The status of a tracked order that was not listed: it is released, its  *)
(* claim refunded but for the credited fill.                               *)
ResolveOrder(r, o) ==
  /\ rec[r].at = "resolving" /\ o \in rec[r].todo
  /\ Handled(r, o)
  /\ Untrack(r, o)
  /\ RefundUnfilled(o, Credited(o))
  /\ leaks' = leaks \cup RefundLeaks(o, Credited(o))
                    \cup (IF IsOpen(o) THEN {"race"} ELSE {})
                    \cup (IF book[o].state = "canceled" /\ book[o].filled > 0
                          THEN {"canceled"} ELSE {})
  /\ UNCHANGED <<day, book, call, live, saved, aged, env>>

(* orderStatus rejects: the order stays tracked.                           *)
StatusFails(r, o) ==
  /\ rec[r].at = "resolving" /\ o \in rec[r].todo /\ Spend("faults")
  /\ Handled(r, o)
  /\ UNCHANGED <<day, spend, book, call, live, ledger, saved, aged, leaks>>

EndReconcile(r) ==
  /\ rec[r].at = "resolving" /\ rec[r].todo = {}
  /\ saved' = ledger[r]
  /\ RecTo(r, "idle", {}, {})
  /\ UNCHANGED <<day, spend, book, call, live, ledger, aged, leaks, env>>

-----------------------------------------------------------------------------
(* The exchange, the clock, and the runtimes.                              *)

Fill(o, q) ==
  /\ IsOpen(o) /\ q \in 1..(Quantity[o] - book[o].filled)
  /\ env.partial \/ q = Quantity[o]
  /\ book' = [book EXCEPT ![o] = [filled |-> @.filled + q,
                                  state |-> IF @.filled + q = Quantity[o] THEN "filled" ELSE "open"]]
  /\ UNCHANGED <<day, spend, call, live, ledger, saved, rec, aged, leaks, env>>

(* The user or the exchange cancels an open order.                         *)
CancelledOutside(o) ==
  /\ IsOpen(o) /\ Spend("cancels")
  /\ book' = [book EXCEPT ![o].state = "canceled"]
  /\ UNCHANGED <<day, spend, call, live, ledger, saved, rec, aged, leaks>>

GrowOld(o) ==
  /\ IsOpen(o) /\ o \notin aged /\ aged' = aged \cup {o}
  /\ UNCHANGED <<day, spend, book, call, live, ledger, saved, rec, leaks, env>>

NextDay ==
  /\ day + 1 \in Days /\ day' = day + 1 /\ Spend("days")
  /\ UNCHANGED <<spend, book, call, live, ledger, saved, rec, aged, leaks>>

(* What the old runtime still knows, or still does, is lost to the new.    *)
MemoryLeak(r) == IF Busy(r) \/ ledger[r] # saved THEN {"memory"} ELSE {}

(* The bot is disconnected and connected again; calls go on.               *)
RestartBot ==
  /\ live + 1 \in Runtimes /\ live' = live + 1 /\ Spend("restarts")
  /\ ledger' = [ledger EXCEPT ![live + 1] = saved]
  /\ leaks' = leaks \cup MemoryLeak(live)
  /\ UNCHANGED <<day, spend, book, call, saved, rec, aged>>

(* The process dies with its calls; an order being sent may arrive.        *)
Crash ==
  /\ live + 1 \in Runtimes /\ live' = live + 1 /\ Spend("crashes")
  /\ ledger' = [ledger EXCEPT ![live + 1] = saved]
  /\ leaks' = leaks \cup UNION {MemoryLeak(r) : r \in 1..live}
  /\ call' = [o \in Order |-> IF InFlight(o) THEN [call[o] EXCEPT !.at = "done"] ELSE call[o]]
  /\ rec' = [r \in Runtimes |-> NoRec]
  /\ \E arrive \in SUBSET {o \in Order : call[o].at = "sending"} :
       book' = [o \in Order |-> IF o \in arrive THEN [state |-> "open", filled |-> 0] ELSE book[o]]
  /\ UNCHANGED <<day, spend, saved, aged>>

-----------------------------------------------------------------------------
Placing(o) ==
  \/ PlaceOrder(o) \/ PlaceUnclaimed(o)
  \/ ExchangeAccepts(o) \/ \E lost \in BOOLEAN : ExchangeFails(o, lost)
  \/ Answered(o) \/ Failed(o)

Reconciling(r) ==
  \/ \E o \in Order : \/ CancelStale(r, o) \/ \E landed \in BOOLEAN : CancelFails(r, o, landed)
                      \/ ResolveOrder(r, o) \/ StatusFails(r, o)
  \/ FetchOpen(r) \/ FetchFails(r) \/ CompareOpen(r) \/ EndReconcile(r)

Exchange(o) ==
  \/ \E q \in 1..Quantity[o] : Fill(o, q)
  \/ CancelledOutside(o) \/ GrowOld(o)

Next ==
  \/ \E o \in Order : Placing(o) \/ Exchange(o)
  \/ StartReconcile \/ \E r \in Runtimes : Reconciling(r)
  \/ NextDay \/ RestartBot \/ Crash

Spec == Init /\ [][Next]_vars

(* The poll timer reconciles the live runtime again and again, and every   *)
(* call to the exchange is answered, if only with an error.                *)
Fairness ==
  /\ WF_vars(StartReconcile)
  /\ \A r \in Runtimes : WF_vars(Reconciling(r))
  /\ \A o \in Order : WF_vars(Answered(o)) /\ WF_vars(Failed(o))

FairSpec == Spec /\ Fairness

-----------------------------------------------------------------------------
(* What a claimed buy still holds of its day's budget: all of it while it  *)
(* is being placed or tracked, then what it bought.                        *)
Held(o) ==
  IF InFlight(o) \/ o \in ledger[live] THEN Quantity[o] ELSE book[o].filled

(* What a buy has bought or may still buy.                                 *)
Exposure(o) == IF InFlight(o) \/ IsOpen(o) THEN Quantity[o] ELSE book[o].filled

ClaimedOn(d) == {o \in Buys : call[o].claimed /\ call[o].day = d}

(* The sum of f over a set of orders, counted unit by unit.                *)
Total(f, S) == Cardinality(UNION {{o} \X (1..f[o]) : o \in S})

(* The counter says exactly what the day's buys hold: while accounting is  *)
(* not lost in one of the ways Leak names, no claim is refunded twice and  *)
(* none is forgotten ("or the bot's daily budget silently shrinks",        *)
(* refundUnfilled).                                                        *)
SpendExact ==
  leaks = {} => \A d \in Days : spend[d] = Total([o \in Order |-> Held(o)], ClaimedOn(d))

(* What the bot bought or may still buy of a day's orders stays within the *)
(* cap, whatever fills, cancels and races with the reconciliation, unless  *)
(* a leak that can understate the counter has happened.                    *)
CapHolds ==
  leaks \subseteq {"partial"} =>
    \A d \in Days : Total([o \in Order |-> Exposure(o)], ClaimedOn(d)) <= Cap

(* Every order open on the exchange is being placed or is tracked by the   *)
(* live ledger, which will cancel or resolve it, unless its answer, its    *)
(* entry or the ledger was lost.                                           *)
OpenOrdersTracked ==
  leaks \cap {"reply", "partial", "race", "memory"} = {} =>
    \A o \in Order : IsOpen(o) => InFlight(o) \/ o \in ledger[live]

(* The books are right, with the types of every variable.                  *)
AccountsRight == TypeOK /\ SpendExact /\ CapHolds /\ OpenOrdersTracked

(* Capital is never locked in unfilled orders indefinitely                 *)
(* (cancelStaleOrders): a tracked order that is stale, or has left the     *)
(* exchange, is eventually released.                                       *)
Overdue(o) == o \in ledger[live] /\ (~IsOpen(o) \/ o \in aged)
OverdueReleased == \A o \in Order : Overdue(o) ~> ~Overdue(o)
=============================================================================
