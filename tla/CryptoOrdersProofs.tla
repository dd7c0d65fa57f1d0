------------------------- MODULE CryptoOrdersProofs -------------------------
(***************************************************************************)
(* Proofs about CryptoOrders, for any set of orders, quantities, caps,     *)
(* runtimes and environments: the day's spend counter is exact, the cap    *)
(* holds, and every open order is tracked, while nothing has leaked.       *)
(***************************************************************************)
EXTENDS CryptoOrders, FiniteSetTheorems, TLAPS

(* The life of an order: nothing is known of it before the exchange has    *)
(* it, only calls that are done are tracked, a filled order has its whole  *)
(* quantity, and what an answer said stays true of a filled order.         *)
Life(o) ==
  /\ call[o].at = "idle" => ~call[o].claimed
  /\ call[o].at \in {"idle", "sending"} => book[o] = Untouched
  /\ call[o].at = "failed" /\ "reply" \notin leaks => book[o] = Untouched
  /\ call[o].at = "answered" /\ call[o].seen.state = "filled" => book[o].state = "filled"
  /\ book[o].state = "none" => book[o].filled = 0
  /\ book[o].state = "filled" => book[o].filled = Quantity[o]
  /\ call[o].at # "idle" => call[o].rt \in Runtimes
  /\ o \in Buys /\ call[o].at # "idle" /\ "redis" \notin leaks => call[o].claimed
  /\ o \in saved \/ (\E r \in Runtimes : o \in ledger[r]) => call[o].at = "done"

Lives == \A o \in Order : Life(o)

(* What a reconciliation still has to look at is tracked; a runtime to     *)
(* come has none.                                                          *)
Reconciles ==
  /\ \A r \in Runtimes : rec[r].todo \subseteq ledger[r]
  /\ \A r \in Runtimes : r > live => rec[r] = NoRec

(* Unless memory has been lost, only the live runtime works.               *)
OnlyLiveWorks ==
  "memory" \notin leaks =>
    /\ \A o \in Order : InFlight(o) => call[o].rt = live
    /\ \A r \in Runtimes : rec[r].at # "idle" => r = live

(* The claims of a day, unit by unit, are within its counter: a buy counts *)
(* in full while it is placed, tracked or open.                            *)
Claim(o) == IF InFlight(o) \/ o \in ledger[live] \/ IsOpen(o) THEN Quantity[o] ELSE book[o].filled

SpendCovers ==
  leaks \subseteq {"partial"} =>
    \A d \in Days : Total([o \in Order |-> Claim(o)], ClaimedOn(d)) <= spend[d]

ClaimsFinite == \A d \in Days : IsFiniteSet(ClaimedOn(d))

Accounted == ClaimsFinite /\ SpendCovers /\ SpendExact

IInv == TypeOK /\ Lives /\ Reconciles /\ OnlyLiveWorks /\ Accounted /\ OpenOrdersTracked

-----------------------------------------------------------------------------
(* Sums, counted unit by unit.                                             *)
Units(f, S) == UNION {{o} \X (1..f[o]) : o \in S}

(* The units of one order are as many as f says.                           *)
LEMMA UnitsOfOne ==
  ASSUME NEW o, NEW n \in Nat
  PROVE  IsFiniteSet({o} \X (1..n)) /\ Cardinality({o} \X (1..n)) = n
<1>1. IsFiniteSet({o}) /\ Cardinality({o}) = 1
  BY FS_Singleton
<1>2. IsFiniteSet(1..n) /\ Cardinality(1..n) = n
  <2>1. IsFiniteSet(1..n) /\ Cardinality(1..n) = IF 1 > n THEN 0 ELSE n - 1 + 1
    BY FS_Interval
  <2> QED BY <2>1
<1> DEFINE one == {o}  units == 1..n
<1>3. IsFiniteSet(one) /\ Cardinality(one) = 1 /\ IsFiniteSet(units) /\ Cardinality(units) = n
  BY <1>1, <1>2
<1> HIDE DEF one, units
<1>4. IsFiniteSet(one \X units) /\ Cardinality(one \X units) = Cardinality(one) * Cardinality(units)
  BY <1>3, FS_Product
<1>5. Cardinality(one \X units) = n
  BY <1>3, <1>4
<1> QED BY <1>4, <1>5 DEF one, units

(* A sum over a finite set is a number.                                    *)
LEMMA TotalType ==
  ASSUME NEW f, NEW S, IsFiniteSet(S), \A o \in S : f[o] \in Nat
  PROVE  IsFiniteSet(Units(f, S)) /\ Total(f, S) \in Nat
<1> DEFINE U == {{o} \X (1..f[o]) : o \in S}
<1>1. IsFiniteSet(U)
  <2> DEFINE g == [o \in S |-> {o} \X (1..f[o])]
  <2>1. g \in Surjection(S, U)
    BY DEF Surjection
  <2> QED BY <2>1, FS_Surjection
<1>2. \A T \in U : IsFiniteSet(T)
  <2> SUFFICES ASSUME NEW o \in S PROVE IsFiniteSet({o} \X (1..f[o]))
    OBVIOUS
  <2> QED BY UnitsOfOne
<1>3. IsFiniteSet(UNION U)
  BY <1>1, <1>2, FS_UNION
<1>4. Cardinality(UNION U) \in Nat
  BY <1>3, FS_CardinalityType
<1> QED BY <1>3, <1>4 DEF Units, Total

(* Nothing sums up to zero.                                                *)
LEMMA TotalOfNone ==
  ASSUME NEW f
  PROVE  Total(f, {}) = 0
<1>1. UNION {{o} \X (1..f[o]) : o \in {}} = {}
  OBVIOUS
<1> QED BY <1>1, FS_EmptySet DEF Total

(* A sum depends on the summands only.                                     *)
LEMMA TotalSame ==
  ASSUME NEW f, NEW g, NEW S, \A o \in S : f[o] = g[o]
  PROVE  Total(f, S) = Total(g, S)
<1>1. UNION {{o} \X (1..f[o]) : o \in S} = UNION {{o} \X (1..g[o]) : o \in S}
  OBVIOUS
<1> QED BY <1>1 DEF Total

(* Smaller summands make a smaller sum.                                    *)
LEMMA TotalMonotone ==
  ASSUME NEW f, NEW g, NEW S, IsFiniteSet(S),
         \A o \in S : f[o] \in Nat /\ g[o] \in Nat /\ f[o] <= g[o]
  PROVE  Total(f, S) <= Total(g, S)
<1>1. IsFiniteSet(Units(g, S))
  BY TotalType
<1>2. Units(f, S) \subseteq Units(g, S)
  <2> SUFFICES ASSUME NEW o \in S PROVE {o} \X (1..f[o]) \subseteq {o} \X (1..g[o])
    BY DEF Units
  <2>1. 1..f[o] \subseteq 1..g[o]
    OBVIOUS
  <2> QED BY <2>1
<1>3. Cardinality(Units(f, S)) <= Cardinality(Units(g, S))
  BY <1>1, <1>2, FS_Subset
<1> QED BY <1>3 DEF Units, Total

(* One more summand adds its value.                                        *)
LEMMA TotalAdd ==
  ASSUME NEW f, NEW S, IsFiniteSet(S), NEW x, x \notin S,
         \A o \in S \cup {x} : f[o] \in Nat
  PROVE  Total(f, S \cup {x}) = Total(f, S) + f[x]
<1> DEFINE V == {x} \X (1..f[x])
<1>1. Units(f, S \cup {x}) = Units(f, S) \cup V
  BY DEF Units
<1>2. Units(f, S) \cap V = {}
  BY DEF Units
<1>3. IsFiniteSet(Units(f, S)) /\ Total(f, S) \in Nat
  BY TotalType
<1>4. IsFiniteSet(V) /\ Cardinality(V) = f[x]
  BY UnitsOfOne
<1> HIDE DEF V
<1>5. Cardinality(Units(f, S) \cup V) = Cardinality(Units(f, S)) + Cardinality(V) - Cardinality({})
  BY <1>2, <1>3, <1>4, FS_Union
<1>6. Cardinality({}) = 0
  BY FS_EmptySet
<1>7. f[x] \in Nat
  OBVIOUS
<1>8. Total(f, S) = Cardinality(Units(f, S)) /\ Total(f, S \cup {x}) = Cardinality(Units(f, S \cup {x}))
  BY DEF Total, Units
<1>9. Total(f, S \cup {x}) = Total(f, S) + f[x] - 0
  BY <1>1, <1>4, <1>5, <1>6, <1>8
<1> QED BY <1>3, <1>7, <1>9

(* Changing one summand changes the sum by the difference.                 *)
LEMMA TotalChange ==
  ASSUME NEW f, NEW g, NEW S, IsFiniteSet(S), NEW x \in S,
         \A o \in S : f[o] \in Nat /\ g[o] \in Nat,
         \A o \in S : o # x => f[o] = g[o]
  PROVE  Total(f, S) - f[x] = Total(g, S) - g[x] /\ f[x] <= Total(f, S)
<1> DEFINE R == S \ {x}
<1>1. IsFiniteSet(R) /\ R \cup {x} = S /\ x \notin R
  BY FS_RemoveElement
<1> HIDE DEF R
<1>2. Total(f, S) = Total(f, R) + f[x] /\ Total(g, S) = Total(g, R) + g[x]
  BY <1>1, TotalAdd
<1>3. Total(f, R) = Total(g, R)
  BY <1>1, TotalSame
<1>4. Total(f, R) \in Nat
  BY <1>1, TotalType
<1> QED BY <1>1, <1>2, <1>3, <1>4

-----------------------------------------------------------------------------
(* The counter.                                                            *)
LEMMA Amounts ==
  ASSUME TypeOK, NEW o \in Order
  PROVE  /\ Quantity[o] \in Nat \ {0} /\ book[o].filled \in 0..Quantity[o]
         /\ Claim(o) \in 0..Quantity[o] /\ Held(o) \in 0..Quantity[o]
         /\ Exposure(o) \in Nat /\ Exposure(o) <= Claim(o)
<1>1. Quantity[o] \in Nat \ {0} /\ book[o].filled \in Nat /\ book[o].filled <= Quantity[o]
  BY CryptoAssumption DEF TypeOK, OrderState
<1> QED BY <1>1 DEF Claim, Held, Exposure

LEMMA AmountsNext ==
  ASSUME TypeOK', NEW o \in Order
  PROVE  /\ book'[o].filled \in 0..Quantity[o]
         /\ Claim(o)' \in 0..Quantity[o] /\ Held(o)' \in 0..Quantity[o]
<1>1. Quantity[o] \in Nat \ {0} /\ book'[o].filled \in Nat /\ book'[o].filled <= Quantity[o]
  BY CryptoAssumption DEF TypeOK, OrderState
<1> QED BY <1>1 DEF Claim, Held

LEMMA BuysAreOrders == \A d \in Days : ClaimedOn(d) \subseteq Buys /\ ClaimedOn(d) \subseteq Order
  BY DEF ClaimedOn, Order

(* A step that leaves counters and claims alone, lowers no order's hold    *)
(* and raises no order's claim.                                            *)
LEMMA KeepsAccounts ==
  ASSUME TypeOK, TypeOK', Accounted, leaks \subseteq leaks', UNCHANGED spend,
         \A d \in Days : ClaimedOn(d)' = ClaimedOn(d),
         leaks' \subseteq {"partial"} => \A o \in Buys : Claim(o)' <= Claim(o),
         leaks' = {} => \A o \in Buys : Held(o)' = Held(o)
  PROVE  Accounted'
<1>1. ClaimsFinite'
  BY DEF Accounted, ClaimsFinite
<1>2. ASSUME leaks' \subseteq {"partial"}, NEW d \in Days
      PROVE  (Total([o \in Order |-> Claim(o)], ClaimedOn(d)) <= spend[d])'
  <2> DEFINE f == [o \in Order |-> Claim(o)']
             g == [o \in Order |-> Claim(o)]
  <2>1. \A o \in ClaimedOn(d) : f[o] \in Nat /\ g[o] \in Nat /\ f[o] <= g[o]
    BY <1>2, Amounts, AmountsNext, BuysAreOrders
  <2>2. IsFiniteSet(ClaimedOn(d)) /\ Total(g, ClaimedOn(d)) <= spend[d] /\ spend[d] \in Nat
    BY <1>2 DEF Accounted, ClaimsFinite, SpendCovers, TypeOK
  <2> HIDE DEF f, g
  <2>3. Total(f, ClaimedOn(d)) <= Total(g, ClaimedOn(d))
    BY <2>1, <2>2, TotalMonotone
  <2>4. Total(f, ClaimedOn(d)) \in Nat /\ Total(g, ClaimedOn(d)) \in Nat
    BY <2>1, <2>2, TotalType
  <2>5. Total(f, ClaimedOn(d)) <= spend[d]
    BY <2>2, <2>3, <2>4
  <2> QED BY <2>5 DEF f
<1>3. ASSUME leaks' = {}, NEW d \in Days
      PROVE  (spend[d] = Total([o \in Order |-> Held(o)], ClaimedOn(d)))'
  <2> DEFINE f == [o \in Order |-> Held(o)']
             g == [o \in Order |-> Held(o)]
  <2>1. \A o \in ClaimedOn(d) : f[o] = g[o]
    BY <1>3, BuysAreOrders
  <2>2. spend[d] = Total(g, ClaimedOn(d))
    BY <1>3 DEF Accounted, SpendExact
  <2> HIDE DEF f, g
  <2>3. Total(f, ClaimedOn(d)) = Total(g, ClaimedOn(d))
    BY <2>1, TotalSame
  <2>4. spend[d] = Total(f, ClaimedOn(d))
    BY <2>2, <2>3
  <2> QED BY <2>4 DEF f
<1> QED BY <1>1, <1>2, <1>3 DEF Accounted, SpendCovers, SpendExact

(* A step that claims buy x.                                               *)
LEMMA ClaimsAccounts ==
  ASSUME TypeOK, TypeOK', Accounted, leaks' = leaks, NEW x \in Buys,
         spend' = [spend EXCEPT ![day] = @ + Quantity[x]],
         \A d \in Days : /\ x \notin ClaimedOn(d)
                         /\ ClaimedOn(d)' = IF d = day THEN ClaimedOn(d) \cup {x} ELSE ClaimedOn(d),
         Claim(x)' = Quantity[x] /\ Held(x)' = Quantity[x],
         \A o \in Order : o # x => Claim(o)' = Claim(o) /\ Held(o)' = Held(o)
  PROVE  Accounted'
<1>1. ClaimsFinite'
  BY FS_AddElement DEF Accounted, ClaimsFinite
<1>2. /\ Quantity[x] \in Nat /\ day \in Days
      /\ \A d \in Days : /\ spend[d] \in Nat
                         /\ spend'[d] = IF d = day THEN spend[d] + Quantity[x] ELSE spend[d]
  BY Amounts DEF TypeOK, Order
<1>3. ASSUME NEW d \in Days, NEW f, NEW g,
             \A o \in Order : f[o] \in Nat /\ g[o] \in Nat /\ (o # x => f[o] = g[o]),
             f[x] = Quantity[x]
      PROVE  /\ Total(f, ClaimedOn(d)') = IF d = day THEN Total(g, ClaimedOn(d)) + Quantity[x]
                                          ELSE Total(g, ClaimedOn(d))
             /\ Total(g, ClaimedOn(d)) \in Nat
  <2> DEFINE S == ClaimedOn(d)
  <2>1. /\ IsFiniteSet(S) /\ x \notin S
        /\ \A o \in S \cup {x} : f[o] \in Nat /\ g[o] \in Nat /\ (o # x => f[o] = g[o])
    BY <1>3, BuysAreOrders DEF Accounted, ClaimsFinite, Order
  <2>2. ClaimedOn(d)' = IF d = day THEN S \cup {x} ELSE S
    OBVIOUS
  <2> HIDE DEF S
  <2>3. Total(f, S) = Total(g, S) /\ Total(g, S) \in Nat
    BY <2>1, TotalSame, TotalType
  <2>4. Total(f, S \cup {x}) = Total(f, S) + f[x]
    BY <2>1, TotalAdd
  <2>5. /\ Total(f, ClaimedOn(d)') = IF d = day THEN Total(g, S) + Quantity[x] ELSE Total(g, S)
        /\ Total(g, S) \in Nat
    BY <1>3, <2>2, <2>3, <2>4
  <2> QED BY <2>5 DEF S
<1>4. ASSUME leaks' \subseteq {"partial"}, NEW d \in Days
      PROVE  (Total([o \in Order |-> Claim(o)], ClaimedOn(d)) <= spend[d])'
  <2> DEFINE f == [o \in Order |-> Claim(o)']
             g == [o \in Order |-> Claim(o)]
  <2>1. /\ \A o \in Order : f[o] \in Nat /\ g[o] \in Nat /\ (o # x => f[o] = g[o])
        /\ f[x] = Quantity[x]
    BY Amounts, AmountsNext DEF Order
  <2>2. Total(g, ClaimedOn(d)) <= spend[d]
    BY <1>4 DEF Accounted, SpendCovers
  <2> HIDE DEF f, g
  <2>3. Total(f, ClaimedOn(d)') <= spend'[d]
    BY <1>2, <1>3, <2>1, <2>2
  <2> QED BY <2>3 DEF f
<1>5. ASSUME leaks' = {}, NEW d \in Days
      PROVE  (spend[d] = Total([o \in Order |-> Held(o)], ClaimedOn(d)))'
  <2> DEFINE f == [o \in Order |-> Held(o)']
             g == [o \in Order |-> Held(o)]
  <2>1. /\ \A o \in Order : f[o] \in Nat /\ g[o] \in Nat /\ (o # x => f[o] = g[o])
        /\ f[x] = Quantity[x]
    BY Amounts, AmountsNext DEF Order
  <2>2. Total(g, ClaimedOn(d)) = spend[d]
    BY <1>5 DEF Accounted, SpendExact
  <2> HIDE DEF f, g
  <2>3. Total(f, ClaimedOn(d)') = spend'[d]
    BY <1>2, <1>3, <2>1, <2>2
  <2> QED BY <2>3 DEF f
<1> QED BY <1>1, <1>4, <1>5 DEF Accounted, SpendCovers, SpendExact

(* A step that refunds q of buy x, which holds at least that, today.       *)
LEMMA RefundsAccounts ==
  ASSUME TypeOK, TypeOK', Accounted, leaks \subseteq leaks', NEW q \in Nat, RefundTo(q),
         \A d \in Days : ClaimedOn(d)' = ClaimedOn(d), NEW x \in Buys,
         leaks' \subseteq {"partial"} =>
           /\ x \in ClaimedOn(day) /\ q <= Claim(x) /\ Claim(x)' <= Claim(x) - q
           /\ \A o \in Buys : o # x => Claim(o)' = Claim(o),
         leaks' = {} => /\ Held(x)' = Held(x) - q
                        /\ \A o \in Buys : o # x => Held(o)' = Held(o)
  PROVE  Accounted'
<1>1. ClaimsFinite'
  BY DEF Accounted, ClaimsFinite
<1>2. ASSUME leaks' \subseteq {"partial"}
      PROVE  spend[day] \in Nat /\ q <= spend[day]
  <2> DEFINE g == [o \in Order |-> Claim(o)]
  <2>1. \A o \in ClaimedOn(day) : g[o] \in Nat
    BY Amounts, BuysAreOrders DEF TypeOK
  <2>2. /\ IsFiniteSet(ClaimedOn(day)) /\ Total(g, ClaimedOn(day)) <= spend[day]
        /\ spend[day] \in Nat /\ day \in Days
    BY <1>2 DEF Accounted, ClaimsFinite, SpendCovers, TypeOK
  <2>3. g[x] = Claim(x) /\ g[x] \in Nat /\ x \in ClaimedOn(day)
    BY <1>2, Amounts, BuysAreOrders, <2>2
  <2> HIDE DEF g
  <2>4. g[x] <= Total(g, ClaimedOn(day)) /\ Total(g, ClaimedOn(day)) \in Nat
    BY <2>1, <2>2, <2>3, TotalChange, TotalType
  <2> QED BY <1>2, <2>2, <2>3, <2>4
<1>3. ASSUME leaks' \subseteq {"partial"}, NEW d \in Days
      PROVE  spend'[d] = IF d = day THEN spend[d] - q ELSE spend[d]
  <2>1. /\ spend \in [Days -> 0..Cap] /\ day \in Days
        /\ spend' = [spend EXCEPT ![day] = IF spend[day] > q THEN spend[day] - q ELSE 0]
    BY DEF RefundTo, TypeOK
  <2>2. (IF spend[day] > q THEN spend[day] - q ELSE 0) = spend[day] - q
    BY <1>2, <1>3
  <2> QED BY <2>1, <2>2
<1>4. ASSUME leaks' \subseteq {"partial"}, NEW d \in Days
      PROVE  (Total([o \in Order |-> Claim(o)], ClaimedOn(d)) <= spend[d])'
  <2> DEFINE f == [o \in Order |-> Claim(o)']
             g == [o \in Order |-> Claim(o)]
             S == ClaimedOn(d)
  <2>1. \A o \in S : f[o] \in Nat /\ g[o] \in Nat /\ (o # x => f[o] = g[o])
    BY <1>4, Amounts, AmountsNext, BuysAreOrders
  <2>2. IsFiniteSet(S) /\ Total(g, S) <= spend[d] /\ spend[d] \in Nat
    BY <1>4 DEF Accounted, ClaimsFinite, SpendCovers, TypeOK
  <2>3. x \in S => d = day
    BY <1>4 DEF ClaimedOn
  <2>4. d = day => x \in S /\ f[x] <= g[x] - q
    BY <1>4, BuysAreOrders
  <2> HIDE DEF f, g, S
  <2>5. Total(f, S) \in Nat /\ Total(g, S) \in Nat
    BY <2>1, <2>2, TotalType
  <2>6. Total(f, S) <= spend'[d]
    <3>1. CASE d = day
      <4>1. Total(f, S) - f[x] = Total(g, S) - g[x] /\ f[x] \in Nat /\ g[x] \in Nat
        BY <2>1, <2>2, <2>4, <3>1, TotalChange
      <4> QED BY <1>3, <1>4, <2>2, <2>4, <2>5, <3>1, <4>1
    <3>2. CASE d # day
      <4>1. Total(f, S) = Total(g, S)
        BY <2>1, <2>3, <3>2, TotalSame
      <4> QED BY <1>3, <1>4, <2>2, <3>2, <4>1
    <3> QED BY <3>1, <3>2
  <2> QED BY <2>6 DEF f, S
<1>5. ASSUME leaks' = {}, NEW d \in Days
      PROVE  (spend[d] = Total([o \in Order |-> Held(o)], ClaimedOn(d)))'
  <2> DEFINE f == [o \in Order |-> Held(o)']
             g == [o \in Order |-> Held(o)]
             S == ClaimedOn(d)
  <2>1. \A o \in S : f[o] \in Nat /\ g[o] \in Nat /\ (o # x => f[o] = g[o])
    BY <1>5, Amounts, AmountsNext, BuysAreOrders
  <2>2. IsFiniteSet(S) /\ Total(g, S) = spend[d] /\ spend[d] \in Nat
    BY <1>5 DEF Accounted, ClaimsFinite, SpendExact, TypeOK
  <2>3. x \in S => d = day
    BY <1>5 DEF ClaimedOn
  <2>4. d = day => x \in S /\ f[x] = g[x] - q
    BY <1>5, BuysAreOrders
  <2> HIDE DEF f, g, S
  <2>5. Total(f, S) \in Nat /\ Total(g, S) \in Nat
    BY <2>1, <2>2, TotalType
  <2>6. Total(f, S) = spend'[d]
    <3>1. CASE d = day
      <4>1. Total(f, S) - f[x] = Total(g, S) - g[x] /\ f[x] \in Nat /\ g[x] \in Nat
        BY <2>1, <2>2, <2>4, <3>1, TotalChange
      <4> QED BY <1>3, <1>5, <2>2, <2>4, <2>5, <3>1, <4>1
    <3>2. CASE d # day
      <4>1. Total(f, S) = Total(g, S)
        BY <2>1, <2>3, <3>2, TotalSame
      <4> QED BY <1>3, <1>5, <2>2, <3>2, <4>1
    <3> QED BY <3>1, <3>2
  <2> QED BY <2>6 DEF f, S
<1> QED BY <1>1, <1>4, <1>5 DEF Accounted, SpendCovers, SpendExact

-----------------------------------------------------------------------------
(* The steps.                                                              *)
LEMMA BoundsCount ==
  ASSUME TypeOK, NEW b \in {"days", "cancels", "faults", "restarts", "crashes"}, Spend(b)
  PROVE  env' \in Scenario
<1>0. env \in Scenario
  BY DEF TypeOK
<1>1. CASE b = "days"
  BY <1>0, <1>1 DEF Scenario, Spend
<1>2. CASE b = "cancels"
  BY <1>0, <1>2 DEF Scenario, Spend
<1>3. CASE b = "faults"
  BY <1>0, <1>3 DEF Scenario, Spend
<1>4. CASE b = "restarts"
  BY <1>0, <1>4 DEF Scenario, Spend
<1>5. CASE b = "crashes"
  BY <1>0, <1>5 DEF Scenario, Spend
<1> QED BY <1>1, <1>2, <1>3, <1>4, <1>5

(* The exchange fills or cancels an open order, time passes, or a          *)
(* reconciliation goes on without touching the ledger.                     *)
LEMMA BooksKeep ==
  ASSUME IInv, TypeOK', Reconciles', OnlyLiveWorks',
         UNCHANGED <<spend, call, live, ledger, leaks>>,
         saved' = saved \/ (\E r \in Runtimes : saved' = ledger[r]),
         \A o \in Order :
           \/ book'[o] = book[o]
           \/ /\ IsOpen(o) /\ book'[o].state \in {"open", "filled", "canceled"}
              /\ book'[o].state = "filled" => book'[o].filled = Quantity[o]
  PROVE  IInv'
<1> USE DEF IInv
<1>1. Lives'
  BY DEF Lives, Life, IsOpen, Untouched
<1>2. OpenOrdersTracked'
  BY DEF OpenOrdersTracked, IsOpen, InFlight
<1>3. \A d \in Days : ClaimedOn(d)' = ClaimedOn(d)
  BY DEF ClaimedOn
<1>4. ASSUME NEW o \in Order
      PROVE  Claim(o)' <= Claim(o) /\ (leaks' = {} => Held(o)' = Held(o))
  <2>1. Claim(o) \in 0..Quantity[o] /\ Claim(o)' \in 0..Quantity[o] /\ Quantity[o] \in Nat
    BY Amounts, AmountsNext
  <2>2. CASE book'[o] = book[o]
    BY <2>1, <2>2 DEF Claim, Held, InFlight, IsOpen
  <2>3. CASE IsOpen(o)
    <3>1. Claim(o) = Quantity[o]
      BY <2>3 DEF Claim
    <3>2. leaks' = {} => InFlight(o) \/ o \in ledger[live]
      BY <2>3 DEF OpenOrdersTracked
    <3>3. leaks' = {} => Held(o)' = Held(o)
      BY <3>2 DEF Held, InFlight
    <3> QED BY <2>1, <3>1, <3>3
  <2> QED BY <2>2, <2>3
<1>5. Accounted'
  BY <1>3, <1>4, KeepsAccounts DEF Order
<1> QED BY <1>1, <1>2, <1>5

LEMMA ExchangeKeeps ==
  ASSUME IInv, NEW o \in Order, Exchange(o)
  PROVE  IInv'
<1> USE DEF IInv
<1>1. /\ UNCHANGED <<day, spend, call, live, ledger, saved, rec, leaks>>
      /\ env' \in Scenario /\ aged' \subseteq Order
  BY BoundsCount DEF Exchange, Fill, CancelledOutside, GrowOld, TypeOK
<1> DEFINE Traded ==
      /\ book' \in [Order -> OrderState]
      /\ \A p \in Order : book'[p].filled <= Quantity[p]
      /\ \A p \in Order :
           \/ book'[p] = book[p]
           \/ /\ IsOpen(p) /\ book'[p].state \in {"open", "filled", "canceled"}
              /\ book'[p].state = "filled" => book'[p].filled = Quantity[p]
<1>2. Traded
  <2>1. book \in [Order -> OrderState] /\ Quantity[o] \in Nat /\ book[o].filled \in 0..Quantity[o]
        /\ \A p \in Order : book[p].filled <= Quantity[p]
    BY Amounts DEF TypeOK
  <2>2. ASSUME NEW q \in 1..Quantity[o], Fill(o, q)
        PROVE  /\ IsOpen(o)
               /\ \E b \in OrderState : /\ book' = [book EXCEPT ![o] = b]
                                        /\ b.filled <= Quantity[o]
                                        /\ b.state \in {"open", "filled"}
                                        /\ b.state = "filled" => b.filled = Quantity[o]
    <3> DEFINE b == [filled |-> book[o].filled + q,
                     state |-> IF book[o].filled + q = Quantity[o] THEN "filled" ELSE "open"]
    <3>1. IsOpen(o) /\ q \in 1..(Quantity[o] - book[o].filled) /\ book' = [book EXCEPT ![o] = b]
      BY <2>2 DEF Fill
    <3>2. b \in OrderState /\ b.filled <= Quantity[o] /\ b.state \in {"open", "filled"}
          /\ (b.state = "filled" => b.filled = Quantity[o])
      BY <2>1, <3>1 DEF OrderState
    <3> QED BY <3>1, <3>2
  <2>3. ASSUME NEW q \in 1..Quantity[o], Fill(o, q) PROVE Traded
    BY <2>1, <2>2, <2>3
  <2>4. CASE CancelledOutside(o)
    BY <2>1, <2>4 DEF CancelledOutside, IsOpen, OrderState
  <2>5. CASE GrowOld(o)
    BY <2>1, <2>5 DEF GrowOld
  <2> QED BY <2>3, <2>4, <2>5 DEF Exchange
<1>3. TypeOK'
  BY <1>1, <1>2 DEF TypeOK
<1>4. Reconciles' /\ OnlyLiveWorks'
  BY <1>1 DEF Reconciles, OnlyLiveWorks, InFlight
<1> QED BY <1>1, <1>2, <1>3, <1>4, BooksKeep

LEMMA ReconcileKeeps ==
  ASSUME IInv, NEW r \in Runtimes,
         \/ r = live /\ StartReconcile
         \/ FetchOpen(r) \/ FetchFails(r) \/ CompareOpen(r) \/ EndReconcile(r)
         \/ \E o \in Order : StatusFails(r, o)
         \/ \E o \in Order, landed \in BOOLEAN : CancelFails(r, o, landed)
  PROVE  IInv'
<1> USE DEF IInv
<1>1. /\ UNCHANGED <<day, spend, call, live, ledger, aged, leaks>>
      /\ saved' \in {saved, ledger[r]}
      /\ env' \in Scenario
  BY BoundsCount DEF StartReconcile, FetchOpen, FetchFails, CompareOpen, EndReconcile,
     StatusFails, CancelFails, TypeOK
<1>2. /\ book' \in [Order -> OrderState]
      /\ \A p \in Order : book'[p].filled <= Quantity[p]
      /\ \A p \in Order : \/ book'[p] = book[p]
                          \/ IsOpen(p) /\ book'[p].state = "canceled"
  <2>1. book' = book \/ \E o \in Order : IsOpen(o) /\ book' = [book EXCEPT ![o].state = "canceled"]
    BY DEF StartReconcile, FetchOpen, FetchFails, CompareOpen, EndReconcile,
       StatusFails, CancelFails
  <2>2. ASSUME NEW o \in Order, book' = [book EXCEPT ![o].state = "canceled"]
        PROVE  /\ book' \in [Order -> OrderState]
               /\ \A p \in Order : book'[p].filled = book[p].filled
               /\ \A p \in Order : IF p = o THEN book'[p].state = "canceled" ELSE book'[p] = book[p]
    BY <2>2 DEF TypeOK, OrderState
  <2> QED BY <2>1, <2>2 DEF TypeOK
<1> DEFINE GoesOn == \E new \in [at : {"idle", "cancelling", "fetched", "resolving"},
                                todo : SUBSET Order, open : SUBSET Order] :
                       /\ rec' = [rec EXCEPT ![r] = new]
                       /\ new.todo \subseteq ledger[r]
                       /\ r = live \/ rec[r].at # "idle"
<1>3. GoesOn
  <2>1. rec[r].todo \subseteq ledger[r] /\ ledger[r] \in SUBSET Order
    BY DEF Reconciles, TypeOK
  <2>2. CASE r = live /\ StartReconcile
    BY <2>1, <2>2 DEF StartReconcile, RecTo
  <2>3. CASE FetchOpen(r) \/ FetchFails(r) \/ EndReconcile(r)
    BY <2>1, <2>3 DEF FetchOpen, FetchFails, EndReconcile, RecTo
  <2>4. CASE CompareOpen(r)
    BY <2>1, <2>4 DEF CompareOpen, RecTo
  <2>5. ASSUME NEW o \in Order, rec[r].at # "idle", Handled(r, o) PROVE GoesOn
    BY <2>1, <2>5 DEF Handled, TypeOK
  <2> QED BY <2>2, <2>3, <2>4, <2>5 DEF StatusFails, CancelFails
<1>4. TypeOK'
  BY <1>1, <1>2, <1>3 DEF TypeOK
<1>5. Reconciles'
  <2>1. PICK new : /\ rec' = [rec EXCEPT ![r] = new] /\ new.todo \subseteq ledger[r]
                   /\ r = live \/ rec[r].at # "idle"
    BY <1>3
  <2>2. ~(r > live)
    <3>1. live \in Int
      BY CryptoAssumption DEF TypeOK, Runtimes
    <3> QED BY <2>1, <3>1 DEF Reconciles, NoRec
  <2>3. rec'[r] = new /\ \A s \in Runtimes : s # r => rec'[s] = rec[s]
    BY <2>1 DEF TypeOK
  <2> QED BY <1>1, <2>1, <2>2, <2>3 DEF Reconciles
<1>6. OnlyLiveWorks'
  BY <1>1, <1>3 DEF OnlyLiveWorks, TypeOK, InFlight
<1> QED BY <1>1, <1>2, <1>4, <1>5, <1>6, BooksKeep

LEMMA NextDayKeeps ==
  ASSUME IInv, NextDay
  PROVE  IInv'
<1> USE DEF IInv
<1>1. /\ UNCHANGED <<spend, book, call, live, ledger, saved, rec, aged, leaks>>
      /\ day' \in Days /\ env' \in Scenario
  BY BoundsCount DEF NextDay
<1>2. TypeOK'
  BY <1>1 DEF TypeOK
<1>3. Reconciles' /\ OnlyLiveWorks'
  BY <1>1 DEF Reconciles, OnlyLiveWorks, InFlight
<1> QED BY <1>1, <1>2, <1>3, BooksKeep

(* Placing an order.                                                       *)
CallRecord == [at : {"idle", "sending", "failed", "answered", "done"},
               rt : Runtimes \cup {0}, claimed : BOOLEAN, day : Days, seen : OrderState]

(* A step of the call for o; the claims of the others are as they were.    *)
Called(o) == /\ call' \in [Order -> CallRecord]
             /\ \A p \in Order : p # o => call'[p] = call[p]

Same(o) == call'[o].claimed = call[o].claimed /\ call'[o].day = call[o].day

LEMMA SameClaims ==
  ASSUME NEW o \in Order, Called(o), Same(o) \/ (~call[o].claimed /\ ~call'[o].claimed)
  PROVE  \A d \in Days : ClaimedOn(d)' = ClaimedOn(d)
  BY DEF Called, Same, ClaimedOn, Order

LEMMA PlaceOrderKeeps ==
  ASSUME IInv, NEW o \in Order, PlaceOrder(o)
  PROVE  IInv'
<1> USE DEF IInv
<1>1. /\ UNCHANGED <<day, book, live, ledger, saved, rec, aged, leaks, env>>
      /\ call[o].at = "idle" /\ ~call[o].claimed /\ book[o] = Untouched
      /\ o \notin saved /\ \A r \in Runtimes : o \notin ledger[r]
  BY DEF PlaceOrder, Lives, Life
<1>2. /\ Called(o) /\ call'[o].at = "sending" /\ call'[o].rt = live /\ call'[o].day = day
      /\ call'[o].claimed <=> o \in Buys
  <2> DEFINE c == o \in Buys
  <2>1. call' = [call EXCEPT ![o] = [@ EXCEPT !.at = "sending", !.rt = live, !.day = day,
                                              !.claimed = c]]
    BY DEF PlaceOrder
  <2>2. c \in BOOLEAN /\ call \in [Order -> CallRecord] /\ live \in Runtimes /\ day \in Days
    BY DEF TypeOK, CallRecord
  <2> HIDE DEF c
  <2>3. /\ Called(o) /\ call'[o].at = "sending" /\ call'[o].rt = live /\ call'[o].day = day
        /\ call'[o].claimed = c
    BY <2>1, <2>2 DEF Called, CallRecord
  <2> QED BY <2>3 DEF c
<1>3. spend' \in [Days -> 0..Cap]
  <2>1. spend \in [Days -> 0..Cap] /\ day \in Days /\ Quantity[o] \in Nat /\ Cap \in Nat
    BY Amounts, CryptoAssumption DEF TypeOK
  <2>2. spend' = spend \/ (spend[day] + Quantity[o] <= Cap
                             /\ spend' = [spend EXCEPT ![day] = spend[day] + Quantity[o]])
    BY DEF PlaceOrder, Fits
  <2> QED BY <2>1, <2>2
<1>4. TypeOK'
  BY <1>1, <1>2, <1>3 DEF TypeOK, Called, CallRecord
<1>5. Lives'
  <2>1. live \in Runtimes
    BY DEF TypeOK
  <2> QED BY <1>1, <1>2, <2>1 DEF Lives, Life, Called
<1>6. Reconciles' /\ OnlyLiveWorks'
  BY <1>1, <1>2 DEF Reconciles, OnlyLiveWorks, Called, InFlight
<1>7. OpenOrdersTracked'
  BY <1>1, <1>2 DEF OpenOrdersTracked, IsOpen, InFlight, Called
<1>8. \A p \in Order : p # o => Claim(p)' = Claim(p) /\ Held(p)' = Held(p)
  BY <1>1, <1>2 DEF Called, Claim, Held, InFlight, IsOpen
<1>9. Accounted'
  <2>1. CASE o \in Sells
    <3>1. o \notin Buys /\ spend' = spend
      BY <2>1, CryptoAssumption DEF PlaceOrder
    <3>2. \A d \in Days : ClaimedOn(d)' = ClaimedOn(d)
      BY <1>2, <3>1 DEF ClaimedOn, Called, Order
    <3>3. \A p \in Buys : Claim(p)' <= Claim(p) /\ Held(p)' = Held(p)
      <4> SUFFICES ASSUME NEW p \in Buys PROVE Claim(p)' <= Claim(p) /\ Held(p)' = Held(p)
        OBVIOUS
      <4>1. p \in Order /\ p # o
        BY <3>1 DEF Order
      <4> QED BY <1>8, <4>1, Amounts
    <3> QED BY <1>1, <1>4, <3>1, <3>2, <3>3, KeepsAccounts
  <2>2. CASE o \in Buys
    <3>1. spend' = [spend EXCEPT ![day] = @ + Quantity[o]]
      BY <2>2, CryptoAssumption DEF PlaceOrder
    <3>2. \A d \in Days : /\ o \notin ClaimedOn(d)
                          /\ ClaimedOn(d)' = IF d = day THEN ClaimedOn(d) \cup {o} ELSE ClaimedOn(d)
      BY <1>1, <1>2, <2>2 DEF ClaimedOn, Called, Order
    <3>3. Claim(o)' = Quantity[o] /\ Held(o)' = Quantity[o]
      BY <1>2 DEF Claim, Held, InFlight
    <3> QED BY <1>1, <1>4, <1>8, <2>2, <3>1, <3>2, <3>3, ClaimsAccounts
  <2> QED BY <2>1, <2>2 DEF Order
<1> QED BY <1>4, <1>5, <1>6, <1>7, <1>9

(* The steps of a call that touch neither counter nor ledger.              *)
LEMMA SendingKeeps ==
  ASSUME IInv, NEW o \in Order,
         PlaceUnclaimed(o) \/ ExchangeAccepts(o) \/ \E lost \in BOOLEAN : ExchangeFails(o, lost)
  PROVE  IInv'
<1> USE DEF IInv
<1>1. /\ UNCHANGED <<day, spend, live, ledger, saved, rec, aged>>
      /\ env' \in Scenario /\ leaks \subseteq leaks' /\ leaks' \subseteq Leak
  BY BoundsCount DEF PlaceUnclaimed, ExchangeAccepts, ExchangeFails, TypeOK, Leak
<1>2. /\ book[o] = Untouched /\ o \notin saved /\ \A r \in Runtimes : o \notin ledger[r]
  BY DEF PlaceUnclaimed, ExchangeAccepts, ExchangeFails, Lives, Life
<1> DEFINE Accepts(b) == /\ b \in OrderState /\ b.filled <= Quantity[o]
                         /\ b.state = "filled" => b.filled = Quantity[o]
                         /\ b.state = "none" => b.filled = 0
<1>3. \A b \in Accepted(o) : Accepts(b)
  BY Amounts DEF Accepted, OrderState
<1>4. \/ /\ call[o].at = "idle" /\ call' = [call EXCEPT ![o] = [@ EXCEPT !.at = "sending", !.rt = live, !.day = day]]
         /\ book' = book /\ "redis" \in leaks'
      \/ /\ call[o].at = "sending"
         /\ \E b : Accepts(b) /\ book' = [book EXCEPT ![o] = b]
                   /\ call' = [call EXCEPT ![o].at = "answered", ![o].seen = b]
      \/ /\ call[o].at = "sending" /\ call' = [call EXCEPT ![o].at = "failed"]
         /\ \/ book' = book
            \/ "reply" \in leaks' /\ \E b : Accepts(b) /\ book' = [book EXCEPT ![o] = b]
  BY <1>3 DEF PlaceUnclaimed, ExchangeAccepts, ExchangeFails
<1> DEFINE Sent ==
      /\ Called(o) /\ call'[o].at \in {"sending", "answered", "failed"}
      /\ call[o].at = "sending" => call'[o].rt = call[o].rt /\ Same(o)
      /\ call[o].at = "idle" => call'[o].rt = live /\ ~call[o].claimed /\ ~call'[o].claimed
      /\ \A p \in Order : p # o => book'[p] = book[p]
      /\ Accepts(book'[o]) /\ book' \in [Order -> OrderState]
      /\ call'[o].at = "sending" => book'[o] = Untouched /\ "redis" \in leaks'
      /\ call'[o].at = "failed" /\ "reply" \notin leaks' => book'[o] = Untouched
      /\ call'[o].at = "answered" => call'[o].seen = book'[o]
<1>5. Sent
  <2>0. call \in [Order -> CallRecord] /\ book \in [Order -> OrderState] /\ live \in Runtimes
        /\ day \in Days /\ Untouched \in OrderState /\ Accepts(Untouched)
    BY Amounts DEF TypeOK, CallRecord, Untouched, OrderState
  <2> HIDE DEF Accepts
  <2>1. CASE /\ call[o].at = "idle"
             /\ call' = [call EXCEPT ![o] = [@ EXCEPT !.at = "sending", !.rt = live, !.day = day]]
             /\ book' = book /\ "redis" \in leaks'
    <3>1. /\ Called(o) /\ call'[o].at = "sending" /\ call'[o].rt = live
          /\ call'[o].claimed = call[o].claimed
      BY <2>0, <2>1 DEF Called, CallRecord
    <3>2. ~call[o].claimed
      BY <2>1 DEF Lives, Life
    <3> QED BY <1>2, <2>0, <2>1, <3>1, <3>2
  <2>2. ASSUME call[o].at = "sending", NEW b, Accepts(b), book' = [book EXCEPT ![o] = b],
               call' = [call EXCEPT ![o].at = "answered", ![o].seen = b]
        PROVE  Sent
    <3>1. b \in OrderState
      BY <2>2 DEF Accepts
    <3>2. /\ Called(o) /\ call'[o].at = "answered" /\ call'[o].rt = call[o].rt /\ Same(o)
          /\ call'[o].seen = b
      BY <2>0, <2>2, <3>1 DEF Called, CallRecord, Same
    <3> QED BY <2>0, <2>2, <3>1, <3>2
  <2>3. ASSUME call[o].at = "sending", call' = [call EXCEPT ![o].at = "failed"],
               \/ book' = book
               \/ "reply" \in leaks' /\ \E b : Accepts(b) /\ book' = [book EXCEPT ![o] = b]
        PROVE  Sent
    <3>1. /\ Called(o) /\ call'[o].at = "failed" /\ call'[o].rt = call[o].rt /\ Same(o)
      BY <2>0, <2>3 DEF Called, CallRecord, Same
    <3>2. \A b : Accepts(b) => b \in OrderState
      BY DEF Accepts
    <3> QED BY <1>2, <2>0, <2>3, <3>1, <3>2
  <2> QED BY <1>4, <2>1, <2>2, <2>3
<1>6. TypeOK'
  <2>1. \A p \in Order : book'[p].filled <= Quantity[p]
    BY <1>5 DEF TypeOK
  <2> QED BY <1>1, <1>5, <2>1 DEF TypeOK, Called, CallRecord
<1>7. Lives'
  <2>1. live \in Runtimes
    BY DEF TypeOK
  <2>2. ASSUME NEW p \in Order, p # o PROVE Life(p)'
    BY <1>1, <1>5, <2>2 DEF Lives, Life, Called
  <2>3. Life(o)'
    <3>1. CASE call[o].at = "idle"
      BY <1>1, <1>2, <1>4, <1>5, <2>1, <3>1 DEF Life, Untouched
    <3>2. CASE call[o].at = "sending"
      BY <1>1, <1>2, <1>4, <1>5, <2>1, <3>2 DEF Lives, Life, Untouched, Same
    <3> QED BY <1>4, <3>1, <3>2
  <2> QED BY <2>2, <2>3 DEF Lives
<1>8. Reconciles' /\ OnlyLiveWorks'
  BY <1>1, <1>4, <1>5 DEF Reconciles, OnlyLiveWorks, Called, InFlight
<1>9. OpenOrdersTracked'
  BY <1>1, <1>5 DEF OpenOrdersTracked, IsOpen, InFlight, Called
<1>10. Accounted'
  <2>1. \A d \in Days : ClaimedOn(d)' = ClaimedOn(d)
    BY <1>4, <1>5, SameClaims
  <2>2. ASSUME NEW p \in Buys, leaks' \subseteq {"partial"}
        PROVE  Claim(p)' <= Claim(p) /\ Held(p)' = Held(p)
    <3>1. call[o].at = "sending" /\ p \in Order
      BY <1>4, <2>2 DEF Order
    <3>2. Claim(p)' = Claim(p) /\ Held(p)' = Held(p)
      BY <1>1, <1>5, <3>1 DEF Claim, Held, InFlight, IsOpen, Called
    <3> QED BY <3>1, <3>2, Amounts
  <2> QED BY <1>1, <1>6, <2>1, <2>2, KeepsAccounts
<1> QED BY <1>6, <1>7, <1>8, <1>9, <1>10

LEMMA AnsweredKeeps ==
  ASSUME IInv, NEW o \in Order, Answered(o)
  PROVE  IInv'
<1> USE DEF IInv
<1> DEFINE rt == call[o].rt
<1>1. /\ UNCHANGED <<day, spend, book, live, rec, aged, env>>
      /\ call[o].at = "answered" /\ rt \in Runtimes
  BY DEF Answered, Lives, Life
<1>2. Called(o) /\ call'[o].at = "done" /\ call'[o].rt = rt /\ Same(o)
  <2>1. call \in [Order -> CallRecord]
    BY DEF TypeOK, CallRecord
  <2>2. call' = [call EXCEPT ![o].at = "done"]
    BY DEF Answered
  <2> HIDE DEF IInv
  <2>3. call[o] \in CallRecord /\ call'[o] = [call[o] EXCEPT !.at = "done"]
    BY <2>1, <2>2
  <2>4. call'[o] \in CallRecord
    BY <2>3 DEF CallRecord
  <2> QED BY <2>1, <2>2, <2>3, <2>4 DEF Called, Same, CallRecord
<1>3. /\ \/ /\ call[o].seen.state \in {"filled", "open"} /\ ledger' = ledger
            /\ call[o].seen.state = "open" => "partial" \in leaks'
         \/ ledger' = [ledger EXCEPT ![rt] = @ \cup {o}]
      /\ leaks' = leaks \/ leaks' = leaks \cup {"partial"}
      /\ saved' = ledger[rt] \/ saved' = ledger'[rt]
  BY DEF Answered, Track
<1>4. /\ \A r \in Runtimes : ledger[r] \subseteq ledger'[r] /\ ledger'[r] \subseteq ledger[r] \cup {o}
      /\ ledger' \in [Runtimes -> SUBSET Order] /\ saved' \in SUBSET Order
      /\ \E r \in Runtimes : saved' \subseteq ledger[r] \cup {o}
  <2>0. ledger \in [Runtimes -> SUBSET Order] /\ rt \in Runtimes
    BY <1>1 DEF TypeOK
  <2> HIDE DEF rt
  <2>1. CASE ledger' = ledger
    BY <1>3, <2>0, <2>1
  <2>2. CASE ledger' = [ledger EXCEPT ![rt] = @ \cup {o}]
    <3>1. /\ ledger'[rt] = ledger[rt] \cup {o} /\ ledger' \in [Runtimes -> SUBSET Order]
          /\ \A r \in Runtimes : r # rt => ledger'[r] = ledger[r]
      BY <2>0, <2>2
    <3>2. saved' \subseteq ledger[rt] \cup {o}
      BY <1>3, <3>1
    <3> QED BY <1>3, <2>0, <3>1, <3>2
  <2> QED BY <1>3, <2>1, <2>2
<1>5. TypeOK'
  BY <1>1, <1>2, <1>3, <1>4 DEF TypeOK, Called, CallRecord, Leak
<1>6. Lives'
  BY <1>1, <1>2, <1>3, <1>4 DEF Lives, Life, Called, Same
<1>7. Reconciles' /\ OnlyLiveWorks'
  BY <1>1, <1>2, <1>3, <1>4 DEF Reconciles, OnlyLiveWorks, Called, InFlight
<1>8. /\ live \in Runtimes /\ InFlight(o) /\ ~InFlight(o)'
      /\ \A p \in Order : p # o => /\ InFlight(p)' <=> InFlight(p)
                                   /\ p \in ledger'[live] <=> p \in ledger[live]
  BY <1>1, <1>2, <1>4 DEF TypeOK, Called, InFlight
<1> DEFINE Follows == \/ o \in ledger'[live]
                      \/ book[o].state = "filled" /\ book[o].filled = Quantity[o]
                      \/ "partial" \in leaks'
<1>9. "memory" \notin leaks => Follows
  <2> SUFFICES ASSUME "memory" \notin leaks PROVE Follows
    OBVIOUS
  <2>1. rt = live
    BY <1>8 DEF OnlyLiveWorks
  <2>2. CASE ledger' = [ledger EXCEPT ![rt] = @ \cup {o}]
    BY <1>8, <2>1, <2>2 DEF TypeOK
  <2>3. CASE call[o].seen.state = "filled"
    BY <1>1, <2>3 DEF Lives, Life
  <2> QED BY <1>3, <2>2, <2>3
<1>10. OpenOrdersTracked'
  BY <1>1, <1>3, <1>8, <1>9 DEF OpenOrdersTracked, IsOpen
<1>11. Accounted'
  <2>1. \A d \in Days : ClaimedOn(d)' = ClaimedOn(d)
    BY <1>2, SameClaims
  <2>2. ASSUME NEW p \in Buys
        PROVE  Claim(p)' <= Claim(p) /\ (leaks' = {} => Held(p)' = Held(p))
    <3>1. /\ p \in Order /\ Quantity[p] \in Nat
          /\ Claim(p) \in 0..Quantity[p] /\ Claim(p)' \in 0..Quantity[p]
      BY <1>5, Amounts, AmountsNext DEF Order
    <3>2. CASE p # o
      BY <1>1, <1>8, <3>1, <3>2 DEF Claim, Held, IsOpen
    <3>3. CASE p = o
      <4>1. Claim(p) = Quantity[p] /\ Held(p) = Quantity[p]
        BY <1>8, <3>3 DEF Claim, Held
      <4>2. leaks' = {} => Held(p)' = Quantity[p]
        BY <1>1, <1>3, <1>8, <1>9, <3>3 DEF Held
      <4> QED BY <3>1, <4>1, <4>2
    <3> QED BY <3>2, <3>3
  <2> QED BY <1>1, <1>3, <1>5, <2>1, <2>2, KeepsAccounts
<1> QED BY <1>5, <1>6, <1>7, <1>10, <1>11

LEMMA RefundType ==
  ASSUME TypeOK, NEW q \in Nat, RefundTo(q)
  PROVE  spend' \in [Days -> 0..Cap]
<1>1. spend \in [Days -> 0..Cap] /\ day \in Days /\ Cap \in Nat
  BY CryptoAssumption DEF TypeOK
<1>2. spend[day] \in 0..Cap
  BY <1>1
<1>3. (IF spend[day] > q THEN spend[day] - q ELSE 0) \in 0..Cap
  BY <1>1, <1>2
<1> QED BY <1>1, <1>3 DEF RefundTo

LEMMA FailedKeeps ==
  ASSUME IInv, NEW o \in Order, Failed(o)
  PROVE  IInv'
<1> USE DEF IInv
<1>1. /\ UNCHANGED <<day, book, live, ledger, saved, rec, aged, env>>
      /\ call[o].at = "failed" /\ o \notin saved /\ \A r \in Runtimes : o \notin ledger[r]
      /\ leaks \subseteq leaks' /\ leaks' \subseteq leaks \cup {"day"}
      /\ o \in Buys => RefundTo(Quantity[o]) /\ (call[o].day # day => "day" \in leaks')
      /\ o \notin Buys => UNCHANGED spend
  BY DEF Failed, DayLeak, Lives, Life
<1>2. Called(o) /\ call'[o].at = "done" /\ call'[o].rt = call[o].rt /\ Same(o)
  <2>1. call \in [Order -> CallRecord]
    BY DEF TypeOK, CallRecord
  <2>2. call' = [call EXCEPT ![o].at = "done"]
    BY DEF Failed
  <2> HIDE DEF IInv
  <2>3. call[o] \in CallRecord /\ call'[o] = [call[o] EXCEPT !.at = "done"]
    BY <2>1, <2>2
  <2>4. call'[o] \in CallRecord
    BY <2>3 DEF CallRecord
  <2> QED BY <2>1, <2>2, <2>3, <2>4 DEF Called, Same, CallRecord
<1>3. TypeOK'
  <2>1. spend' \in [Days -> 0..Cap]
    BY <1>1, RefundType, Amounts DEF TypeOK
  <2> QED BY <1>1, <1>2, <2>1 DEF TypeOK, Called, CallRecord, Leak
<1>4. Lives'
  BY <1>1, <1>2 DEF Lives, Life, Called, Same
<1>5. Reconciles' /\ OnlyLiveWorks'
  BY <1>1, <1>2 DEF Reconciles, OnlyLiveWorks, Called, InFlight
<1>6. /\ InFlight(o) /\ ~InFlight(o)' /\ live \in Runtimes
      /\ \A p \in Order : p # o => (InFlight(p)' <=> InFlight(p))
      /\ "reply" \notin leaks => book[o] = Untouched
  BY <1>1, <1>2 DEF InFlight, Called, TypeOK, Lives, Life
<1>7. OpenOrdersTracked'
  BY <1>1, <1>6 DEF OpenOrdersTracked, IsOpen, Untouched
<1>8. \A d \in Days : ClaimedOn(d)' = ClaimedOn(d)
  BY <1>2, SameClaims
<1>9. \A p \in Order : p # o => Claim(p)' = Claim(p) /\ Held(p)' = Held(p)
  BY <1>1, <1>6 DEF Claim, Held, IsOpen
<1>10. Accounted'
  <2>1. CASE o \in Buys
    <3>1. Claim(o) = Quantity[o] /\ Held(o) = Quantity[o] /\ Quantity[o] \in Nat
      BY <1>6, Amounts DEF Claim, Held
    <3>2. leaks' \subseteq {"partial"} => Claim(o)' = 0 /\ Held(o)' = 0
      BY <1>1, <1>6 DEF Claim, Held, IsOpen, Untouched
    <3>3. leaks' \subseteq {"partial"} => o \in ClaimedOn(day)
      BY <1>1, <2>1 DEF ClaimedOn, Lives, Life
    <3> QED BY <1>1, <1>3, <1>8, <1>9, <2>1, <3>1, <3>2, <3>3, RefundsAccounts DEF Order
  <2>2. CASE o \notin Buys
    <3>1. \A p \in Buys : Claim(p)' <= Claim(p) /\ Held(p)' = Held(p)
      BY <1>9, <2>2, Amounts DEF Order
    <3> QED BY <1>1, <1>3, <1>8, <2>2, <3>1, KeepsAccounts
  <2> QED BY <2>1, <2>2
<1> QED BY <1>3, <1>4, <1>5, <1>7, <1>10

-----------------------------------------------------------------------------
(* Releasing tracked order o with the fill c credited.                     *)
LEMMA ReleaseKeeps ==
  ASSUME IInv, NEW r \in Runtimes, NEW o \in Order, o \in ledger[r], rec[r].at # "idle",
         UNCHANGED <<day, call, live, saved, aged, env>>,
         Untrack(r, o), Handled(r, o),
         NEW c \in 0..Quantity[o], RefundUnfilled(o, c),
         leaks \cup RefundLeaks(o, c) \subseteq leaks', leaks' \subseteq Leak,
         "redis" \in leaks' => "redis" \in leaks, "memory" \in leaks' => "memory" \in leaks,
         "reply" \in leaks' => "reply" \in leaks,
         leaks' \subseteq {"partial"} => c = book[o].filled,
         \A p \in Order : p # o => book'[p] = book[p],
         book'[o] \in OrderState, book' \in [Order -> OrderState],
         book'[o].filled = book[o].filled, book'[o].state \in {"canceled", book[o].state},
         book'[o].state = "open" => "race" \in leaks'
  PROVE  IInv'
<1> USE DEF IInv
<1>1. /\ \A s \in Runtimes : s # r => ledger'[s] = ledger[s] /\ rec'[s] = rec[s]
      /\ ledger'[r] = ledger[r] \ {o} /\ rec'[r].todo = rec[r].todo \ {o}
      /\ rec'[r].at = rec[r].at
      /\ ledger' \in [Runtimes -> SUBSET Order]
      /\ rec' \in [Runtimes -> [at : {"idle", "cancelling", "fetched", "resolving"},
                                todo : SUBSET Order, open : SUBSET Order]]
  <2>1. /\ ledger \in [Runtimes -> SUBSET Order]
        /\ rec \in [Runtimes -> [at : {"idle", "cancelling", "fetched", "resolving"},
                                 todo : SUBSET Order, open : SUBSET Order]]
    BY DEF TypeOK
  <2>2. ledger' = [ledger EXCEPT ![r] = ledger[r] \ {o}]
        /\ rec' = [rec EXCEPT ![r].todo = rec[r].todo \ {o}]
    BY DEF Untrack, Handled
  <2> HIDE DEF IInv
  <2>3. ledger' \in [Runtimes -> SUBSET Order] /\ ledger'[r] = ledger[r] \ {o}
        /\ \A s \in Runtimes : s # r => ledger'[s] = ledger[s]
    BY <2>1, <2>2
  <2>4. rec'[r].todo = rec[r].todo \ {o} /\ rec'[r].at = rec[r].at
        /\ \A s \in Runtimes : s # r => rec'[s] = rec[s]
    BY <2>1, <2>2
  <2>5. rec' \in [Runtimes -> [at : {"idle", "cancelling", "fetched", "resolving"},
                               todo : SUBSET Order, open : SUBSET Order]]
    BY <2>1, <2>2
  <2> QED BY <2>3, <2>4, <2>5
<1>2. call[o].at = "done" /\ ~InFlight(o) /\ ~InFlight(o)' /\ live \in Runtimes
  BY DEF Lives, Life, InFlight, TypeOK
<1>3. c \in Nat /\ Quantity[o] \in Nat /\ Unfilled(o, c) \in Nat /\ Unfilled(o, c) = Quantity[o] - c
      /\ c <= Quantity[o]
  BY Amounts DEF Unfilled
<1>4. TypeOK'
  <2>1. spend' \in [Days -> 0..Cap]
    BY <1>3, RefundType DEF RefundUnfilled, TypeOK
  <2>2. \A p \in Order : book'[p].filled <= Quantity[p]
    BY DEF TypeOK
  <2> QED BY <1>1, <2>1, <2>2 DEF TypeOK
<1>5. Lives'
  <2>1. ASSUME NEW p \in Order, p # o PROVE Life(p)'
    <3>1. /\ Life(p) /\ call' = call /\ saved' = saved /\ book'[p] = book[p]
          /\ "reply" \notin leaks' => "reply" \notin leaks
          /\ "redis" \notin leaks' => "redis" \notin leaks
      BY <2>1 DEF Lives
    <3>2. \A s \in Runtimes : p \in ledger'[s] => p \in ledger[s]
      BY <1>1, <2>1
    <3> HIDE DEF IInv
    <3> QED BY <3>1, <3>2 DEF Life
  <2>2. Life(o)'
    BY <1>1, <1>2 DEF Lives, Life
  <2> QED BY <2>1, <2>2 DEF Lives
<1>6. Reconciles'
  <2>1. ~(r > live)
    BY DEF Reconciles, NoRec
  <2> QED BY <1>1, <2>1 DEF Reconciles
<1>7. OnlyLiveWorks'
  BY <1>1 DEF OnlyLiveWorks, InFlight
<1>8. OpenOrdersTracked'
  BY <1>1, <1>2 DEF OpenOrdersTracked, IsOpen, InFlight
<1>9. \A d \in Days : ClaimedOn(d)' = ClaimedOn(d)
  BY DEF ClaimedOn
<1>10. \A p \in Order : p # o => Claim(p)' = Claim(p) /\ Held(p)' = Held(p)
  BY <1>1, <1>2 DEF Claim, Held, IsOpen, InFlight
<1> DEFINE Released == /\ Claim(o) = Quantity[o] /\ Held(o) = Quantity[o]
                       /\ Claim(o)' = c /\ Held(o)' = c
                       /\ o \in Buys => call[o].claimed
<1>11. leaks' \subseteq {"partial"} => Released
  <2> SUFFICES ASSUME leaks' \subseteq {"partial"} PROVE Released
    OBVIOUS
  <2>1. r = live
    BY DEF OnlyLiveWorks
  <2> QED BY <1>1, <1>2, <2>1 DEF Claim, Held, IsOpen, Lives, Life
<1>12. Accounted'
  <2>1. CASE o \in Buys /\ Unfilled(o, c) > 0
    <3>1. RefundTo(Unfilled(o, c))
      BY <2>1 DEF RefundUnfilled
    <3>2. leaks' \subseteq {"partial"} => o \in ClaimedOn(day)
      <4>1. c < Quantity[o]
        BY <1>3, <2>1
      <4>2. leaks' \subseteq {"partial"} => c = book[o].filled /\ call[o].day = day
        BY <2>1, <4>1 DEF RefundLeaks, DayLeak
      <4> QED BY <1>11, <2>1, <4>2 DEF ClaimedOn
    <3> QED BY <1>3, <1>4, <1>9, <1>10, <1>11, <2>1, <3>1, <3>2, RefundsAccounts DEF Order
  <2>2. CASE ~(o \in Buys /\ Unfilled(o, c) > 0)
    <3>1. spend' = spend
      BY <2>2 DEF RefundUnfilled
    <3>2. ASSUME NEW p \in Buys, leaks' \subseteq {"partial"} PROVE Claim(p)' <= Claim(p) /\ Held(p)' = Held(p)
      <4>1. CASE p # o
        BY <1>10, <4>1, Amounts DEF Order
      <4>2. CASE p = o
        BY <1>3, <1>11, <2>2, <3>2, <4>2
      <4> QED BY <4>1, <4>2
    <3> QED BY <1>4, <1>9, <3>1, <3>2, KeepsAccounts
  <2> QED BY <2>1, <2>2
<1> QED BY <1>4, <1>5, <1>6, <1>7, <1>8, <1>12

LEMMA CancelStaleKeeps ==
  ASSUME IInv, NEW r \in Runtimes, NEW o \in Order, CancelStale(r, o)
  PROVE  IInv'
<1> USE DEF IInv
<1>1. /\ rec[r].at = "cancelling" /\ o \in ledger[r] /\ Handled(r, o)
      /\ UNCHANGED <<day, call, live, saved, aged, env>>
  BY DEF CancelStale, Reconciles
<1>2. CASE IsOpen(o)
  <2>1. /\ book' = [book EXCEPT ![o].state = "canceled"] /\ Untrack(r, o)
        /\ RefundUnfilled(o, book[o].filled)
        /\ leaks' = leaks \cup RefundLeaks(o, book[o].filled)
    BY <1>2 DEF CancelStale
  <2>2. /\ \A p \in Order : p # o => book'[p] = book[p]
        /\ book'[o] \in OrderState /\ book' \in [Order -> OrderState]
        /\ book'[o].filled = book[o].filled /\ book'[o].state = "canceled"
    <3>1. book \in [Order -> OrderState]
      BY DEF TypeOK
    <3> QED BY <2>1, <3>1 DEF OrderState
  <2>3. leaks' \subseteq leaks \cup {"day"} /\ leaks' \subseteq Leak
    BY <2>1 DEF RefundLeaks, DayLeak, Leak, TypeOK
  <2>4. book[o].filled \in 0..Quantity[o]
    BY Amounts
  <2> QED BY <1>1, <2>1, <2>2, <2>3, <2>4, ReleaseKeeps
<1>3. CASE ~IsOpen(o)
  <2>1. UNCHANGED <<book, ledger, spend, leaks>>
    BY <1>3 DEF CancelStale
  <2>2. /\ \A s \in Runtimes : s # r => rec'[s] = rec[s]
        /\ rec'[r].todo = rec[r].todo \ {o} /\ rec'[r].at = rec[r].at
        /\ rec' \in [Runtimes -> [at : {"idle", "cancelling", "fetched", "resolving"},
                                  todo : SUBSET Order, open : SUBSET Order]]
    <3>1. rec \in [Runtimes -> [at : {"idle", "cancelling", "fetched", "resolving"},
                                todo : SUBSET Order, open : SUBSET Order]]
      BY DEF TypeOK
    <3>2. rec' = [rec EXCEPT ![r].todo = rec[r].todo \ {o}]
      BY <1>1 DEF Handled
    <3> HIDE DEF IInv
    <3> QED BY <3>1, <3>2
  <2>3. TypeOK'
    BY <1>1, <2>1, <2>2 DEF TypeOK
  <2>4. Reconciles' /\ OnlyLiveWorks'
    BY <1>1, <2>1, <2>2 DEF Reconciles, OnlyLiveWorks, InFlight, NoRec
  <2> QED BY <1>1, <2>1, <2>3, <2>4, BooksKeep
<1> QED BY <1>2, <1>3

LEMMA ResolveOrderKeeps ==
  ASSUME IInv, NEW r \in Runtimes, NEW o \in Order, ResolveOrder(r, o)
  PROVE  IInv'
<1> USE DEF IInv
<1>1. /\ rec[r].at = "resolving" /\ o \in ledger[r] /\ Handled(r, o) /\ Untrack(r, o)
      /\ UNCHANGED <<day, book, call, live, saved, aged, env>>
      /\ RefundUnfilled(o, Credited(o))
      /\ leaks' = leaks \cup RefundLeaks(o, Credited(o))
                        \cup (IF IsOpen(o) THEN {"race"} ELSE {})
                        \cup (IF book[o].state = "canceled" /\ book[o].filled > 0
                              THEN {"canceled"} ELSE {})
  BY DEF ResolveOrder, Reconciles
<1>2. /\ book[o].filled \in 0..Quantity[o] /\ book[o] \in OrderState /\ Quantity[o] \in Nat
      /\ book[o].state = "none" => book[o].filled = 0
  BY Amounts DEF TypeOK, Lives, Life
<1>3. Credited(o) \in 0..Quantity[o]
  BY <1>2 DEF Credited
<1>4. /\ leaks' \subseteq leaks \cup {"day", "race", "canceled"} /\ leaks' \subseteq Leak
      /\ leaks \cup RefundLeaks(o, Credited(o)) \subseteq leaks'
      /\ IsOpen(o) => "race" \in leaks'
  BY <1>1 DEF RefundLeaks, DayLeak, Leak, TypeOK
<1>5. leaks' \subseteq {"partial"} => Credited(o) = book[o].filled
  <2> SUFFICES ASSUME leaks' \subseteq {"partial"} PROVE Credited(o) = book[o].filled
    OBVIOUS
  <2>1. ~IsOpen(o) /\ ~(book[o].state = "canceled" /\ book[o].filled > 0)
    BY <1>1
  <2> QED BY <1>2, <2>1 DEF Credited, IsOpen, OrderState
<1>6. book \in [Order -> OrderState]
  BY DEF TypeOK
<1> QED BY <1>1, <1>2, <1>3, <1>4, <1>5, <1>6, ReleaseKeeps DEF IsOpen

-----------------------------------------------------------------------------
(* The next runtime, on a restart of the bot or of the process.            *)
LEMMA NewRuntimeKeeps ==
  ASSUME IInv, RestartBot \/ Crash
  PROVE  IInv'
<1> USE DEF IInv
<1>1. /\ live' = live + 1 /\ live' \in Runtimes /\ live \in Nat
      /\ ledger' = [ledger EXCEPT ![live + 1] = saved]
      /\ UNCHANGED <<day, spend, saved, aged>>
      /\ env' \in Scenario
      /\ leaks' = leaks \/ leaks' = leaks \cup {"memory"}
  <2>1. live \in Nat
    BY CryptoAssumption DEF TypeOK, Runtimes
  <2>2. leaks' = leaks \/ leaks' = leaks \cup {"memory"}
    BY DEF RestartBot, Crash, MemoryLeak
  <2> QED BY <2>1, <2>2, BoundsCount DEF RestartBot, Crash
<1>2. "memory" \notin leaks' => /\ \A o \in Order : ~InFlight(o)
                                /\ \A r \in Runtimes : rec[r].at = "idle"
                                /\ saved = ledger[live]
  <2> SUFFICES ASSUME "memory" \notin leaks' PROVE ~Busy(live) /\ saved = ledger[live]
    BY <1>1 DEF OnlyLiveWorks, Busy
  <2>1. MemoryLeak(live) \subseteq leaks'
    <3>1. live \in 1..live
      BY <1>1 DEF TypeOK, Runtimes
    <3> QED BY <3>1 DEF RestartBot, Crash
  <2> QED BY <2>1 DEF MemoryLeak
<1>3. /\ call' \in [Order -> CallRecord] /\ book' \in [Order -> OrderState]
      /\ rec' = rec \/ rec' = [r \in Runtimes |-> NoRec]
      /\ \A o \in Order :
           /\ call'[o].claimed = call[o].claimed /\ call'[o].day = call[o].day
           /\ call'[o].rt = call[o].rt /\ call'[o].seen = call[o].seen
           /\ \/ call'[o] = call[o] /\ book'[o] = book[o]
              \/ /\ InFlight(o) /\ call'[o].at = "done"
                 /\ \/ book'[o] = book[o]
                    \/ call[o].at = "sending" /\ book'[o] = [state |-> "open", filled |-> 0]
  <2>0. call \in [Order -> CallRecord] /\ book \in [Order -> OrderState]
    BY DEF TypeOK, CallRecord
  <2>1. CASE RestartBot
    BY <2>0, <2>1 DEF RestartBot
  <2>2. CASE Crash
    <3>1. PICK arrive \in SUBSET {o \in Order : call[o].at = "sending"} :
            book' = [o \in Order |-> IF o \in arrive THEN [state |-> "open", filled |-> 0] ELSE book[o]]
      BY <2>2 DEF Crash
    <3>2. call' = [o \in Order |-> IF InFlight(o) THEN [call[o] EXCEPT !.at = "done"] ELSE call[o]]
      BY <2>2 DEF Crash
    <3>3. call' \in [Order -> CallRecord]
      BY <2>0, <3>2 DEF CallRecord
    <3>4. book' \in [Order -> OrderState]
      BY <2>0, <3>1 DEF OrderState
    <3>5. rec' = [r \in Runtimes |-> NoRec]
      BY <2>2 DEF Crash
    <3>6. ASSUME NEW o \in Order
          PROVE  /\ call'[o].claimed = call[o].claimed /\ call'[o].day = call[o].day
                 /\ call'[o].rt = call[o].rt /\ call'[o].seen = call[o].seen
                 /\ IF InFlight(o) THEN call'[o].at = "done" ELSE call'[o] = call[o]
      BY <2>0, <3>2 DEF CallRecord
    <3>7. ASSUME NEW o \in Order
          PROVE  \/ book'[o] = book[o]
                 \/ InFlight(o) /\ call[o].at = "sending" /\ book'[o] = [state |-> "open", filled |-> 0]
      BY <3>1 DEF InFlight
    <3> QED BY <3>3, <3>4, <3>5, <3>6, <3>7
  <2> QED BY <2>1, <2>2
<1>4. TypeOK'
  <2>1. \A o \in Order : book'[o].filled <= Quantity[o]
    BY <1>3, Amounts DEF TypeOK
  <2>2. rec' \in [Runtimes -> [at : {"idle", "cancelling", "fetched", "resolving"},
                               todo : SUBSET Order, open : SUBSET Order]]
    BY <1>3 DEF TypeOK, NoRec
  <2> QED BY <1>1, <1>3, <2>1, <2>2 DEF TypeOK, CallRecord, Leak
<1>5. /\ \A r \in Runtimes : ledger'[r] = IF r = live + 1 THEN saved ELSE ledger[r]
      /\ ledger'[live'] = saved
  BY <1>1 DEF TypeOK
<1>6. Lives'
  <2> SUFFICES ASSUME NEW o \in Order PROVE Life(o)'
    BY DEF Lives
  <2>1. Life(o)
    BY DEF Lives
  <2>2. o \in saved' \/ (\E r \in Runtimes : o \in ledger'[r]) => call[o].at = "done"
    BY <1>1, <1>5, <2>1 DEF Life
  <2>3. CASE call'[o] = call[o] /\ book'[o] = book[o]
    BY <1>1, <2>1, <2>2, <2>3 DEF Life
  <2>4. CASE /\ InFlight(o) /\ call'[o].at = "done"
             /\ \/ book'[o] = book[o]
                \/ call[o].at = "sending" /\ book'[o] = [state |-> "open", filled |-> 0]
    BY <1>1, <1>3, <2>1, <2>2, <2>4 DEF Life, InFlight
  <2> QED BY <1>3, <2>3, <2>4
<1>7. Reconciles'
  <2>1. \A r \in Runtimes : rec'[r] = rec[r] \/ rec'[r] = NoRec
    BY <1>3
  <2>2. rec[live + 1] = NoRec /\ live + 1 \in Runtimes
    BY <1>1 DEF Reconciles
  <2>3. \A r \in Runtimes : r \in Int
    BY CryptoAssumption DEF Runtimes
  <2> QED BY <1>1, <1>5, <2>1, <2>2, <2>3 DEF Reconciles, NoRec
<1>8. OnlyLiveWorks'
  BY <1>1, <1>2, <1>3 DEF OnlyLiveWorks, InFlight, NoRec
<1>9. "memory" \notin leaks' => \A o \in Order : /\ call'[o] = call[o] /\ book'[o] = book[o]
                                                 /\ o \in ledger'[live'] <=> o \in ledger[live]
  BY <1>2, <1>3, <1>5
<1>10. OpenOrdersTracked'
  BY <1>1, <1>9 DEF OpenOrdersTracked, IsOpen, InFlight
<1>11. Accounted'
  <2>1. \A d \in Days : ClaimedOn(d)' = ClaimedOn(d)
    BY <1>3 DEF ClaimedOn, Order
  <2>2. ASSUME NEW o \in Buys, leaks' \subseteq {"partial"}
        PROVE  Claim(o)' <= Claim(o) /\ Held(o)' = Held(o)
    <3>1. o \in Order /\ "memory" \notin leaks'
      BY <2>2 DEF Order
    <3>2. Claim(o)' = Claim(o) /\ Held(o)' = Held(o)
      BY <1>9, <3>1 DEF Claim, Held, IsOpen, InFlight
    <3> QED BY <3>1, <3>2, Amounts
  <2> QED BY <1>1, <1>4, <2>1, <2>2, KeepsAccounts
<1> QED BY <1>4, <1>6, <1>7, <1>8, <1>10, <1>11

-----------------------------------------------------------------------------
LEMMA InitHolds == Init => IInv
<1> SUFFICES ASSUME Init PROVE IInv
  OBVIOUS
<1> USE DEF Init
<1>1. /\ \A o \in Order : /\ book[o] = Untouched /\ ~InFlight(o) /\ call[o] = NoCall
                          /\ \A r \in Runtimes : o \notin ledger[r]
      /\ book \in [Order -> OrderState]
      /\ call \in [Order -> CallRecord]
      /\ rec \in [Runtimes -> [at : {"idle", "cancelling", "fetched", "resolving"},
                               todo : SUBSET Order, open : SUBSET Order]]
  <2>1. Untouched \in OrderState /\ 0 \in Days
    BY DEF Untouched, OrderState, Days
  <2>2. NoCall \in CallRecord
    BY <2>1 DEF NoCall, CallRecord
  <2> QED BY <2>1, <2>2 DEF NoCall, NoRec, InFlight
<1>2. TypeOK
  <2>1. \A o \in Order : book[o].filled = 0 /\ Quantity[o] \in Nat
    BY <1>1, CryptoAssumption DEF Untouched
  <2>2. day \in Days /\ live \in Runtimes /\ spend \in [Days -> 0..Cap] /\ env \in Scenario
    BY CryptoAssumption DEF Days, Runtimes
  <2> QED BY <1>1, <2>1, <2>2 DEF TypeOK, CallRecord
<1>3. Lives
  BY <1>1 DEF Lives, Life, NoCall, Untouched
<1>4. Reconciles /\ OnlyLiveWorks
  BY <1>1 DEF Reconciles, OnlyLiveWorks, NoRec
<1>5. OpenOrdersTracked
  BY <1>1 DEF OpenOrdersTracked, IsOpen, Untouched
<1>6. Accounted
  <2>1. \A d \in Days : ClaimedOn(d) = {}
    BY <1>1 DEF ClaimedOn, NoCall, Order
  <2>2. \A d \in Days : spend[d] = 0
    OBVIOUS
  <2> HIDE DEF Init
  <2>3. ASSUME NEW d \in Days
        PROVE  /\ IsFiniteSet(ClaimedOn(d))
               /\ Total([o \in Order |-> Claim(o)], ClaimedOn(d)) = 0
               /\ Total([o \in Order |-> Held(o)], ClaimedOn(d)) = 0
    BY <2>1, TotalOfNone, FS_EmptySet
  <2>4. ClaimsFinite
    BY <2>3 DEF ClaimsFinite
  <2>5. SpendCovers
    <3> SUFFICES ASSUME NEW d \in Days
                 PROVE  Total([o \in Order |-> Claim(o)], ClaimedOn(d)) <= spend[d]
      BY DEF SpendCovers
    <3>1. Total([o \in Order |-> Claim(o)], ClaimedOn(d)) = 0 /\ spend[d] = 0
      BY <2>2, <2>3
    <3>2. 0 <= 0
      OBVIOUS
    <3> QED BY <3>1, <3>2
  <2>6. SpendExact
    <3> DEFINE f == [o \in Order |-> Held(o)]
    <3>1. \A d \in Days : Total(f, ClaimedOn(d)) = 0
      BY <2>3
    <3> HIDE DEF f
    <3>2. \A d \in Days : spend[d] = Total(f, ClaimedOn(d))
      BY <2>2, <3>1
    <3> QED BY <3>2 DEF SpendExact, f
  <2> QED BY <2>4, <2>5, <2>6 DEF Accounted
<1> QED BY <1>2, <1>3, <1>4, <1>5, <1>6 DEF IInv

LEMMA NextKeeps == IInv /\ [Next]_vars => IInv'
<1> SUFFICES ASSUME IInv, [Next]_vars PROVE IInv'
  OBVIOUS
<1>1. ASSUME NEW o \in Order, Placing(o) PROVE IInv'
  BY <1>1, PlaceOrderKeeps, SendingKeeps, AnsweredKeeps, FailedKeeps DEF Placing
<1>2. ASSUME NEW o \in Order, Exchange(o) PROVE IInv'
  BY <1>2, ExchangeKeeps
<1>3. ASSUME NEW r \in Runtimes, Reconciling(r) PROVE IInv'
  BY <1>3, ReconcileKeeps, CancelStaleKeeps, ResolveOrderKeeps DEF Reconciling
<1>4. CASE StartReconcile
  BY <1>4, ReconcileKeeps DEF IInv, TypeOK
<1>5. CASE NextDay \/ RestartBot \/ Crash
  BY <1>5, NextDayKeeps, NewRuntimeKeeps
<1>6. CASE UNCHANGED vars
  <2> USE <1>6 DEF vars, IInv
  <2>1. TypeOK'
    BY DEF TypeOK
  <2>2. Reconciles' /\ OnlyLiveWorks'
    BY DEF Reconciles, OnlyLiveWorks, InFlight
  <2> QED BY <2>1, <2>2, BooksKeep
<1> QED BY <1>1, <1>2, <1>3, <1>4, <1>5, <1>6 DEF Next

(* What the bot bought or may still buy of a day's orders is within what   *)
(* the counter of that day covers, and the counter within the cap.         *)
LEMMA CapFollows == IInv => CapHolds
<1> SUFFICES ASSUME IInv, leaks \subseteq {"partial"}, NEW d \in Days
             PROVE  Total([o \in Order |-> Exposure(o)], ClaimedOn(d)) <= Cap
  BY DEF CapHolds
<1> DEFINE f == [o \in Order |-> Exposure(o)]
           g == [o \in Order |-> Claim(o)]
           S == ClaimedOn(d)
<1>1. \A o \in S : f[o] \in Nat /\ g[o] \in Nat /\ f[o] <= g[o]
  BY Amounts, BuysAreOrders DEF IInv
<1>2. IsFiniteSet(S) /\ Total(g, S) <= spend[d] /\ spend[d] \in 0..Cap /\ Cap \in Nat
  BY CryptoAssumption DEF IInv, Accounted, ClaimsFinite, SpendCovers, TypeOK
<1> HIDE DEF f, g, S
<1>3. Total(f, S) <= Total(g, S) /\ Total(f, S) \in Nat /\ Total(g, S) \in Nat
  BY <1>1, <1>2, TotalMonotone, TotalType
<1>4. Total(f, S) <= Cap
  BY <1>2, <1>3
<1> QED BY <1>4 DEF f, S

(* The day's counter is exact, the cap holds and every open order is       *)
(* tracked, for as long as nothing has leaked that Leak names, whatever    *)
(* fills, cancellations, failures, midnights, restarts and crashes come.   *)
THEOREM AccountsKept == Spec => []AccountsRight
<1>1. IInv => AccountsRight
  BY CapFollows DEF IInv, Accounted, AccountsRight
<1> QED BY <1>1, InitHolds, NextKeeps, PTL DEF Spec
=============================================================================
