--------------------------------- MODULE Trading ---------------------------------
(***************************************************************************)
(* One runtime trading one symbol (workers/src/crypto/worker.ts): the REST *)
(* poll and the price stream both evaluate the symbol, a protective exit   *)
(* first and the strategy's signal after it, and sell or buy; positions    *)
(* live in a simulated book or in the live ledger (crypto/ledger.ts), which *)
(* is reconciled with the exchange.  Orders of scripts and the spend cap   *)
(* are CryptoOrders.  A quantity counts buys, a price is what the tick     *)
(* makes of the exit and of the strategy.                                  *)
(***************************************************************************)
EXTENDS Integers, FiniteSets

CONSTANTS MaxHeld     \* bound: what may be held of the base asset

ASSUME TradingAssumption == MaxHeld \in Nat

VARIABLES live,      \* tradeMode
          wallet,    \* free balance of the base asset on the exchange
          book,      \* the position: quantity, entry price known, trailing high set
          savedBook, \* the book in Redis
          balance,   \* balanceCache: free, and whether it is within its TTL
          exiting,   \* exitInFlight has the symbol
          signalled, \* lastSignals
          path,      \* per path: where its evaluation is, the quantity it sells, and
                     \* whether the exchange has filled its order
          answer     \* the balances a reconcile has fetched, -1 for none

tradeVars == <<live, wallet, book, savedBook, balance, exiting, signalled, path, answer>>

Path == {"poll", "stream"}
Signal == {"buy", "sell"}
Flat == [held |-> 0, entry |-> FALSE, high |-> FALSE]
NoBalance == [free |-> -1, fresh |-> FALSE]
AtRest == [at |-> "rest", quantity |-> 0, filled |-> FALSE]

(* A simulated book may be of the older shape, which had quantities only.  *)
TradeInit ==
    /\ live \in BOOLEAN /\ wallet = 0 /\ balance = NoBalance
    /\ savedBook \in {Flat} \cup (IF live THEN {} ELSE {[Flat EXCEPT !.held = 1]}) /\ book = savedBook
    /\ exiting = FALSE /\ signalled = "none" /\ path = [p \in Path |-> AtRest]
    /\ answer = -1

Least2(m, n) == IF m < n THEN m ELSE n
To(p, at, n) == path' = [path EXCEPT ![p] = [AtRest EXCEPT !.at = at, !.quantity = n]]

-----------------------------------------------------------------------------
(* The book.                                                               *)

(* Mutant of Sold: a close keeps the trailing high.                        *)
SoldKeepingHigh(b, n) ==
    IF b.held > n THEN [b EXCEPT !.held = @ - n] ELSE [b EXCEPT !.held = 0, !.entry = FALSE]

(* applyFill: a buy blends the entry price and re-arms the trailing stop,  *)
(* a sell that closes the position forgets both.                           *)
Bought(b) == [held |-> b.held + 1, entry |-> TRUE, high |-> FALSE]
Sold(b, n) == IF b.held > n THEN [b EXCEPT !.held = @ - n] ELSE Flat

(* reconcilePositions: the exchange's balance, and the entry it had.       *)
Reconciled(b, n) == IF n > 0 THEN [b EXCEPT !.held = n] ELSE Flat

(* The simulated book is saved after each order; the save may fail.        *)
Save(b) == book' = b /\ savedBook' \in {b, savedBook}

-----------------------------------------------------------------------------
(* Protective exits.                                                       *)

(* The exits of checkExitsInner: with an entry price, the tick may         *)
(* reach the take profit, or move the trailing high and reach a stop.      *)
Watched(b) == IF b.entry THEN {b, [b EXCEPT !.high = TRUE]} ELSE {b}

(* The strategy: no signal, one that repeats the last, or a new one, whose *)
(* event is emitted before the trade.                                      *)
Strategy(p) ==
    \/ path' = [path EXCEPT ![p] = AtRest] /\ UNCHANGED signalled
    \/ \E s \in Signal : s # signalled /\ signalled' = s /\ To(p, s, 0)

(* No exit: the guard is released and the strategy has its say.            *)
NoExit(p, b) == /\ book' = b /\ exiting' = FALSE /\ Strategy(p) /\ UNCHANGED savedBook

(* An exit of n: simulated at once, or an order to the exchange.           *)
Exit(p, n) ==
    /\ exiting' = TRUE
    /\ IF live THEN To(p, "exiting", n) /\ UNCHANGED <<book, savedBook>>
       ELSE Save(Sold(book, n)) /\ To(p, "closed", 0)
    /\ UNCHANGED signalled

Decide(p, n) ==
    IF n <= 0 \/ ~book.entry THEN NoExit(p, book)
    ELSE Exit(p, n) \/ \E b \in Watched(book) : NoExit(p, b)

(* evaluateSymbol: nothing while an exit of the symbol is in flight.  A    *)
(* live exit asks for the free balance, if the cached one is too old.      *)
Evaluate(p) ==
    /\ path[p].at = "rest" /\ ~exiting
    /\ IF live /\ book.held > 0 /\ ~balance.fresh
       THEN /\ exiting' = TRUE /\ To(p, "balance", book.held)
            /\ UNCHANGED <<book, savedBook, signalled>>
       ELSE Decide(p, IF live /\ book.held > 0 THEN Least2(book.held, balance.free) ELSE book.held)
    /\ UNCHANGED <<live, wallet, balance, answer>>

(* liveFreeBalance answers: what it read, the last known one, or an error. *)
ExitBalance(p, ok) ==
    /\ path[p].at = "balance"
    /\ balance' = IF ok THEN [free |-> wallet, fresh |-> TRUE] ELSE balance
    /\ IF balance'.free < 0 THEN NoExit(p, book)
       ELSE Decide(p, Least2(path[p].quantity, balance'.free))
    /\ UNCHANGED <<live, wallet, answer>>

(* The exit has been reported, and the next buy may be signalled. *)
Closed(p) ==
    /\ path[p].at = "closed"
    /\ To(p, "rest", 0) /\ exiting' = FALSE /\ signalled' = "sell"
    /\ UNCHANGED <<live, wallet, book, savedBook, balance, answer>>

-----------------------------------------------------------------------------
(* autoTrade, after the signal's event.  The guard may refuse the order    *)
(* for its size.                                                           *)
Refused(p) ==
    /\ path[p].at \in Signal /\ To(p, "rest", 0)
    /\ UNCHANGED <<live, wallet, book, savedBook, balance, exiting, signalled, answer>>

BuyNow(p) ==
    /\ path[p].at = "buy" /\ wallet < MaxHeld /\ book.held < MaxHeld
    /\ IF live THEN To(p, "buying", 1) /\ UNCHANGED <<book, savedBook>>
       ELSE Save(Bought(book)) /\ To(p, "rest", 0)
    /\ UNCHANGED <<live, wallet, balance, exiting, signalled, answer>>

(* A simulated sell closes the position, a live one sells all that is      *)
(* free, by the cached balance or by one it asks for.                      *)
SellNow(p) ==
    /\ path[p].at = "sell"
    /\ IF ~live THEN Save(Sold(book, book.held)) /\ To(p, "rest", 0)
       ELSE /\ UNCHANGED <<book, savedBook>>
            /\ IF ~balance.fresh THEN To(p, "asking", 0)
               ELSE IF balance.free > 0 THEN To(p, "selling", balance.free) ELSE To(p, "rest", 0)
    /\ UNCHANGED <<live, wallet, balance, exiting, signalled, answer>>

SellBalance(p, ok) ==
    /\ path[p].at = "asking"
    /\ balance' = IF ok THEN [free |-> wallet, fresh |-> TRUE] ELSE balance
    /\ IF balance'.free > 0 THEN To(p, "selling", balance'.free) ELSE To(p, "rest", 0)
    /\ UNCHANGED <<live, wallet, book, savedBook, exiting, signalled, answer>>

-----------------------------------------------------------------------------
(* placeOrder, live.  The exchange fills a market order, or refuses one    *)
(* for more than there is.                                                 *)
Ordering == {p \in Path : path[p].at \in {"exiting", "selling", "buying"}}

ExchangeFills(p) ==
    /\ p \in Ordering /\ ~path[p].filled /\ path' = [path EXCEPT ![p].filled = TRUE]
    /\ \/ path[p].at = "buying" /\ wallet < MaxHeld /\ wallet' = wallet + 1
       \/ path[p].at # "buying" /\ path[p].quantity <= wallet /\ wallet' = wallet - path[p].quantity
    /\ UNCHANGED <<live, book, savedBook, balance, exiting, signalled, answer>>

(* Its answer arrives: the ledger counts the fill and is saved.            *)
OrderAnswered(p) ==
    /\ p \in Ordering /\ path[p].filled
    /\ IF path[p].at = "buying"
       THEN book.held < MaxHeld /\ Save(Bought(book)) /\ UNCHANGED balance
       ELSE Save(Sold(book, path[p].quantity)) /\ balance' = NoBalance
    /\ To(p, IF path[p].at = "exiting" THEN "closed" ELSE "rest", 0)
    /\ UNCHANGED <<live, wallet, exiting, signalled, answer>>

(* It is refused, or the answer is lost: balances are asked for again.     *)
OrderFails(p) ==
    /\ p \in Ordering /\ balance' = NoBalance /\ To(p, "rest", 0)
    /\ exiting' = (exiting /\ path[p].at # "exiting")
    /\ UNCHANGED <<live, wallet, book, savedBook, signalled, answer>>

-----------------------------------------------------------------------------
(* reconcileLedger, at the start of a live poll: the exchange reads its    *)
(* balances, and the answer replaces position and cache when it arrives.   *)
BalancesRead == /\ live /\ path["poll"].at = "rest" /\ answer = -1
                /\ answer' = wallet /\ To("poll", "reconciling", 0)
                /\ UNCHANGED <<live, wallet, book, savedBook, balance, exiting, signalled>>

BalancesArrive(ok) ==
    /\ path["poll"].at = "reconciling"
    /\ IF ok THEN Save(Reconciled(book, answer)) /\ balance' = [free |-> answer, fresh |-> TRUE]
       ELSE UNCHANGED <<book, savedBook, balance>>
    /\ answer' = -1 /\ To("poll", "rest", 0)
    /\ UNCHANGED <<live, wallet, exiting, signalled>>

CacheAges == /\ balance.fresh /\ balance' = [balance EXCEPT !.fresh = FALSE]
             /\ UNCHANGED <<live, wallet, book, savedBook, exiting, signalled, path, answer>>

(* A crash: the next runtime loads what was saved, nothing if Redis fails, *)
(* and remembers nothing else.                                             *)
NewRuntime ==
    /\ book' \in {savedBook, Flat} /\ balance' = NoBalance /\ exiting' = FALSE /\ signalled' = "none"
    /\ path' = [p \in Path |-> AtRest] /\ answer' = -1
    /\ UNCHANGED <<live, wallet, savedBook>>

TradeNext ==
    \/ BalancesRead \/ CacheAges \/ NewRuntime \/ \E ok \in BOOLEAN : BalancesArrive(ok)
    \/ \E p \in Path : \/ Evaluate(p) \/ Closed(p) \/ Refused(p) \/ BuyNow(p) \/ SellNow(p)
                       \/ ExchangeFills(p) \/ OrderAnswered(p) \/ OrderFails(p)
                       \/ \E ok \in BOOLEAN : ExitBalance(p, ok) \/ SellBalance(p, ok)

TradeSpec == TradeInit /\ [][TradeNext]_tradeVars

-----------------------------------------------------------------------------
(* A position that is gone leaves nothing behind, in memory or in Redis:   *)
(* an entry price or a trailing high of an older position would make the   *)
(* next one's exits fire at prices it never saw.                           *)
FlatIsClean == \A b \in {book, savedBook} : b.held = 0 => b = Flat
=================================================================================
