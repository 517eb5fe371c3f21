---------------------------- MODULE PlannerProofs ----------------------------
(***************************************************************************)
(* The planning helpers are right for every request, every market, every   *)
(* plane and every width.                                                  *)
(***************************************************************************)
EXTENDS Planner, TLAPS

-----------------------------------------------------------------------------
(* Division and the grid.                                                  *)

LEMMA TimesMonotone ==
  ASSUME NEW m \in Nat, NEW n \in Nat, NEW b \in Nat, m <= n
  PROVE  m * b <= n * b
<1>1. PICK d \in Nat : n = m + d
  OBVIOUS
<1>2. n * b = m * b + d * b
  BY <1>1
<1>3. d * b \in Nat /\ m * b \in Nat
  OBVIOUS
<1> QED BY <1>2, <1>3

LEMMA Division ==
  ASSUME NEW a \in Nat, NEW b \in Nat \ {0}
  PROVE  /\ a \div b \in Nat /\ (a \div b) * b \in Nat
         /\ (a \div b) * b <= a /\ a < (a \div b) * b + b
         /\ a = (a \div b) * b + (a % b)
<1>1. /\ a \div b \in Nat /\ a = b * (a \div b) + (a % b)
      /\ 0 <= a % b /\ a % b < b
  OBVIOUS
<1>2. b * (a \div b) = (a \div b) * b
  BY <1>1
<1> QED BY <1>1, <1>2

\* A quotient is the largest number of units that fit.
LEMMA Quotient ==
  ASSUME NEW a \in Nat, NEW b \in Nat \ {0}, NEW k \in Nat
  PROVE  k * b <= a <=> k <= a \div b
<1> DEFINE q == a \div b
<1>1. q \in Nat /\ q * b \in Nat /\ q * b <= a /\ a < q * b + b
  BY Division
<1> HIDE DEF q
<1>2. CASE k <= q
  <2>1. k * b <= q * b
    BY <1>1, <1>2, TimesMonotone
  <2>2. k * b \in Nat
    OBVIOUS
  <2> QED BY <1>1, <1>2, <2>1, <2>2 DEF q
<1>3. CASE k > q
  <2>1. (q + 1) * b <= k * b
    BY <1>1, <1>3, TimesMonotone
  <2>2. (q + 1) * b = q * b + b /\ k * b \in Nat
    BY <1>1
  <2> QED BY <1>1, <1>3, <2>1, <2>2 DEF q
<1> QED BY <1>1, <1>2, <1>3

\* Snap(n, u) is the largest multiple of u that is not above n.
LEMMA Snapping ==
  ASSUME NEW n \in Nat, NEW u \in Nat \ {0}
  PROVE  /\ Snap(n, u) \in Nat /\ Snap(n, u) <= n /\ n < Snap(n, u) + u
         /\ Snap(n, u) % u = 0
         /\ \A p \in Nat : p <= n /\ p % u = 0 => p <= Snap(n, u)
<1>1. /\ n \div u \in Nat /\ Snap(n, u) \in Nat /\ Snap(n, u) <= n
      /\ n < Snap(n, u) + u
  BY Division DEF Snap
<1>2. Snap(n, u) % u = 0
  <2>1. PICK q \in Nat : Snap(n, u) = q * u
    BY <1>1 DEF Snap
  <2>2. Snap(n, u) \div u >= q /\ Snap(n, u) \div u \in Nat
    BY <1>1, <2>1, Quotient, Division
  <2>3. q * u <= (Snap(n, u) \div u) * u
    BY <2>2, TimesMonotone
  <2> QED BY <1>1, <2>1, <2>3, Division
<1>3. ASSUME NEW p \in Nat, p <= n, p % u = 0 PROVE p <= Snap(n, u)
  <2>1. p \div u \in Nat /\ p = (p \div u) * u
    BY <1>3, Division
  <2>2. p \div u <= n \div u
    BY <1>3, <2>1, Quotient
  <2> QED BY <1>1, <2>1, <2>2, TimesMonotone DEF Snap
<1> QED BY <1>1, <1>2, <1>3

-----------------------------------------------------------------------------
(* Sizes.                                                                  *)

LEMMA ScaledNat ==
  ASSUME NEW d \in Decimal, d # Unreadable, NEW scale \in Nat
  PROVE  Scaled(d, scale) \in Nat
<1>1. d.num \in Nat /\ d.den \in Nat \ {0}
  BY DEF Decimal
<1>2. d.num * scale \in Nat
  BY <1>1
<1> QED BY <1>1, <1>2, Division DEF Scaled

LEMMA MarketNat ==
  ASSUME NEW m \in Market
  PROVE  /\ m.lot \in Nat \ {0}
         /\ MinLots(m) \in Nat
         /\ Positive(m.step, m.lot) => StepLots(m) \in Nat \ {0}
         /\ Positive(m.tick, PriceScale) => Scaled(m.tick, PriceScale) \in Nat \ {0}
<1>1. m.lot \in Nat \ {0} /\ m.step \in Decimal /\ m.min \in Decimal /\ m.tick \in Decimal
  BY DEF Market
<1> QED BY <1>1, ScaledNat, WidthAssumption DEF MinLots, Parses, Positive, StepLots

\* A size is refused only if the grid holds none, else it is the largest.
LEMMA SizeIsBest ==
  ASSUME NEW m \in Market, NEW n \in Nat, Positive(m.step, m.lot)
  PROVE  LET s == SizeOnGrid(m, n)
             sizes == {z \in 1..n : z % StepLots(m) = 0 /\ z >= MinLots(m)}
         IN  /\ s.ok <=> sizes # {}
             /\ s.ok => /\ s.size \in sizes /\ s.size = Snap(n, StepLots(m))
                        /\ \A z \in sizes : z <= s.size
<1> DEFINE s == SizeOnGrid(m, n)
           sz == Snap(n, StepLots(m))
           sizes == {z \in 1..n : z % StepLots(m) = 0 /\ z >= MinLots(m)}
<1>1. StepLots(m) \in Nat \ {0} /\ MinLots(m) \in Nat
  BY MarketNat
<1>2. /\ sz \in Nat /\ sz <= n /\ sz % StepLots(m) = 0
      /\ \A z \in Nat : z <= n /\ z % StepLots(m) = 0 => z <= sz
  BY <1>1, Snapping
<1>3. s = IF sz = 0 \/ sz < MinLots(m) THEN Refused("BelowMinOrder")
          ELSE [ok |-> TRUE, size |-> sz]
  BY DEF SizeOnGrid
<1> HIDE DEF s, sz
<1>4. CASE sz = 0 \/ sz < MinLots(m)
  <2>1. s.ok = FALSE
    BY <1>3, <1>4 DEF Refused
  <2>2. sizes = {}
    BY <1>1, <1>2, <1>4
  <2> QED BY <2>1, <2>2 DEF s
<1>5. CASE ~(sz = 0 \/ sz < MinLots(m))
  <2>1. s.ok = TRUE /\ s.size = sz
    BY <1>3, <1>5
  <2>2. sz \in sizes /\ \A z \in sizes : z <= sz
    BY <1>1, <1>2, <1>5
  <2> QED BY <2>1, <2>2 DEF s, sz
<1> QED BY <1>4, <1>5

-----------------------------------------------------------------------------
(* Every request is answered by the helper it calls.                       *)

Inputs == /\ asks \in {"grid", "twap"}
          /\ asks = "grid" => req \in OrderRequest
          /\ asks = "twap" => req \in TwapRequest
          /\ out # Absent => out = IF asks = "grid" THEN RoundOrder(req) ELSE PlanTwap(req)

LEMMA Answering == Spec => []Inputs
<1>1. Init => Inputs
  BY RequestAssumption DEF Init, Inputs
<1>2. Inputs /\ [Next]_vars => Inputs'
  BY DEF Inputs, Next, AnswerOrder, AnswerTwap, vars
<1> QED BY <1>1, <1>2, PTL DEF Spec

\* On a market with a grid, an order is refused only if the grid holds nothing
\* for it, and else gets the best price and size of the grid.
THEOREM BestOrder == Spec => []OrderIsBest
<1>1. Inputs => OrderIsBest
  <2> SUFFICES ASSUME Inputs, asks = "grid", out # Absent,
                      Positive(req.market.tick, PriceScale),
                      Positive(req.market.step, req.market.lot)
               PROVE  LET m == req.market
                          prices == {p \in 1..req.px : p % Scaled(m.tick, PriceScale) = 0}
                          sizes == {n \in 1..req.size : n % StepLots(m) = 0 /\ n >= MinLots(m)}
                      IN  /\ out.ok <=> prices # {} /\ sizes # {}
                          /\ out.ok => /\ out.limit_px \in prices
                                       /\ \A p \in prices : p <= out.limit_px
                                       /\ out.size \in sizes
                                       /\ \A n \in sizes : n <= out.size
    BY DEF OrderIsBest
  <2> DEFINE m == req.market
             tick == Scaled(m.tick, PriceScale)
             px == Snap(req.px, tick)
             sized == SizeOnGrid(m, req.size)
             prices == {p \in 1..req.px : p % tick = 0}
             sizes == {n \in 1..req.size : n % StepLots(m) = 0 /\ n >= MinLots(m)}
  <2>1. m \in Market /\ req.px \in Nat /\ req.size \in Nat
    BY DEF Inputs, OrderRequest
  <2>2. tick \in Nat \ {0}
    BY <2>1, MarketNat
  <2>3. /\ px \in Nat /\ px <= req.px /\ px % tick = 0
        /\ \A p \in Nat : p <= req.px /\ p % tick = 0 => p <= px
    BY <2>1, <2>2, Snapping
  <2>4. /\ sized.ok <=> sizes # {}
        /\ sized.ok => /\ sized.size \in sizes
                       /\ \A n \in sizes : n <= sized.size
    BY <2>1, SizeIsBest
  <2>5. out = IF px = 0 THEN Refused("PriceBelowTick")
              ELSE IF ~sized.ok THEN sized
              ELSE [ok |-> TRUE, limit_px |-> px, size |-> sized.size]
    BY DEF Inputs, RoundOrder
  <2> HIDE DEF px, sized, sizes, tick, m
  <2>6. (px = 0 => prices = {}) /\ (px # 0 => px \in prices)
        /\ \A p \in prices : p <= px
    BY <2>1, <2>3 DEF m
  <2>7. CASE px = 0
    BY <2>5, <2>6, <2>7 DEF Refused, m, tick, sizes
  <2>8. CASE px # 0 /\ ~sized.ok
    BY <2>4, <2>5, <2>8 DEF m, tick, sizes
  <2>9. CASE px # 0 /\ sized.ok
    <3>1. out.ok = TRUE /\ out.limit_px = px /\ out.size = sized.size
      BY <2>5, <2>9
    <3> QED BY <2>4, <2>6, <2>9, <3>1 DEF m, tick, sizes
  <2> QED BY <2>7, <2>8, <2>9
<1> QED BY <1>1, Answering, PTL

-----------------------------------------------------------------------------
(* Schedules.                                                              *)

\* A request that is not degenerate.
Tuned(q) == /\ q \in TwapRequest /\ q.duration # 0
            /\ q.floor # 0 /\ q.target # 0 /\ q.max >= 2

\* A plan is made from a tuned request, and its size from the notional.
LEMMA PlanOf ==
  ASSUME Inputs, Planned
  PROVE  /\ Tuned(req) /\ out.plan = Schedule(req)
         /\ out.total # Absent =>
              LET sized == SizeOnGrid(req.market, RawLots(req))
              IN  /\ req.usd \in Decimal /\ Parses(req.usd, PriceScale)
                  /\ req.mark \in Decimal /\ Positive(req.mark, PriceScale)
                  /\ req.market \in Market
                  /\ sized.ok /\ sized.size <= Narrow /\ out.total = sized.size
<1>1. req \in TwapRequest /\ out = PlanTwap(req) /\ out.ok
  BY DEF Inputs, Planned
<1> DEFINE sized == SizeOnGrid(req.market, RawLots(req))
<1>2. /\ req.duration \in 0..Narrow /\ req.floor \in Nat /\ req.max \in Nat /\ req.target \in Nat
      /\ req.usd \in Decimal \cup {Absent} /\ req.mark \in Decimal \cup {Absent}
      /\ req.market \in Market \cup {Absent}
  BY <1>1 DEF TwapRequest
<1>3. req.duration # 0 /\ req.floor # 0 /\ req.target # 0 /\ ~(req.max < 2)
  BY <1>1 DEF PlanTwap, Refused
<1>4. Tuned(req)
  BY <1>1, <1>2, <1>3 DEF Tuned
<1>5. CASE req.usd = Absent
  BY <1>1, <1>3, <1>4, <1>5 DEF PlanTwap
<1>6. CASE req.usd # Absent
  <2>1. req.mark # Absent /\ req.market # Absent /\ UsdSize(req).ok
    BY <1>1, <1>3, <1>6 DEF PlanTwap, Refused
  <2>2. out.plan = Schedule(req) /\ out.total = UsdSize(req).size
    BY <1>1, <1>3, <1>6, <2>1 DEF PlanTwap
  <2>3. /\ Parses(req.usd, PriceScale) /\ Positive(req.mark, PriceScale)
        /\ sized.ok /\ ~(sized.size > Narrow) /\ UsdSize(req) = sized
    BY <2>1 DEF UsdSize, Refused
  <2>4. Positive(req.market.step, req.market.lot)
    BY <2>3 DEF SizeOnGrid, Refused
  <2>5. sized.size \in Nat
    <3>1. req.usd \in Decimal /\ req.mark \in Decimal /\ req.market \in Market
      BY <1>2, <1>6, <2>1
    <3>2. Scaled(req.usd, PriceScale) \in Nat /\ Scaled(req.mark, PriceScale) \in Nat \ {0}
      BY <2>3, <3>1, ScaledNat, WidthAssumption DEF Parses, Positive
    <3>3. RawLots(req) \in Nat
      BY <3>1, <3>2, MarketNat, Division DEF RawLots
    <3>4. sized.size \in 1..RawLots(req)
      BY <2>3, <2>4, <3>1, <3>3, SizeIsBest
    <3> QED BY <3>3, <3>4
  <2> QED BY <1>2, <1>4, <1>6, <2>1, <2>2, <2>3, <2>5, WidthAssumption
<1> QED BY <1>5, <1>6

\* The slice count: as many of the wanted slices as meet the floor.
LEMMA Counting ==
  ASSUME NEW q, Tuned(q)
  PROVE  LET wanted == Clamp(q.duration \div q.target, 2, q.max)
             fits == {k \in 2..wanted : q.duration \div k >= q.floor}
         IN  /\ SliceCount(q) \in Nat /\ SliceCount(q) >= 2
             /\ fits = {} => SliceCount(q) = 2
             /\ fits # {} => /\ SliceCount(q) \in fits
                             /\ \A k \in fits : k <= SliceCount(q)
<1> DEFINE wanted == Clamp(q.duration \div q.target, 2, q.max)
           fits == {k \in 2..wanted : q.duration \div k >= q.floor}
           most == q.duration \div q.floor
<1>1. /\ q.duration \in Nat /\ q.floor \in Nat \ {0} /\ q.target \in Nat \ {0}
      /\ q.max \in Nat /\ q.max >= 2
  BY WidthAssumption DEF Tuned, TwapRequest
<1>2. most \in Nat /\ q.duration \div q.target \in Nat
  BY <1>1, Division
<1>3. wanted \in 2..q.max
  BY <1>1, <1>2 DEF Clamp
<1>4. ASSUME NEW k \in Nat \ {0} PROVE q.duration \div k >= q.floor <=> k <= most
  <2>1. q.floor * k <= q.duration <=> q.floor <= q.duration \div k
    BY <1>1, Quotient
  <2>2. k * q.floor <= q.duration <=> k <= most
    BY <1>1, Quotient
  <2>3. k * q.floor = q.floor * k
    BY <1>1
  <2>4. q.duration \div k \in Nat
    BY <1>1, Division
  <2> QED BY <1>1, <2>1, <2>2, <2>3, <2>4
<1>5. SliceCount(q) = IF wanted <= most THEN wanted ELSE Clamp(most, 2, q.max)
  BY <1>3, <1>4 DEF SliceCount
<1>6. fits = {k \in 2..wanted : k <= most}
  BY <1>3, <1>4
<1> HIDE DEF wanted, fits, most
<1>7. CASE wanted <= most
  BY <1>2, <1>3, <1>5, <1>6, <1>7 DEF wanted, fits
<1>8. CASE ~(wanted <= most)
  <2>1. SliceCount(q) = IF most < 2 THEN 2 ELSE most
    BY <1>1, <1>2, <1>3, <1>5, <1>8 DEF Clamp
  <2>2. CASE most < 2
    <3>1. fits = {} /\ SliceCount(q) = 2
      BY <1>2, <1>3, <1>6, <2>1, <2>2
    <3> QED BY <3>1 DEF wanted, fits
  <2>3. CASE most >= 2
    <3>1. SliceCount(q) = most /\ most \in fits /\ \A k \in fits : k <= most
      BY <1>2, <1>3, <1>6, <1>8, <2>1, <2>3
    <3> QED BY <1>2, <2>3, <3>1 DEF wanted, fits
  <2> QED BY <1>2, <2>2, <2>3
<1> QED BY <1>7, <1>8

\* The plan keeps as much of the wanted cadence as the floor allows.
THEOREM CadenceBest == Spec => []CadenceKept
<1>1. Inputs => CadenceKept
  <2> SUFFICES ASSUME Inputs, Planned
               PROVE  LET wanted == Clamp(req.duration \div req.target, 2, req.max)
                          fits == {k \in 2..wanted : req.duration \div k >= req.floor}
                      IN  /\ fits = {} => out.plan.count = 2
                          /\ fits # {} => /\ out.plan.count \in fits
                                          /\ \A k \in fits : k <= out.plan.count
    BY DEF CadenceKept
  <2>1. Tuned(req) /\ out.plan.count = SliceCount(req)
    BY PlanOf DEF Schedule
  <2> QED BY <2>1, Counting
<1> QED BY <1>1, Answering, PTL

\* The window is overrun only when two floors do not fit in it.
THEOREM WindowBest == Spec => []WindowKept
<1>1. Inputs => WindowKept
  <2> SUFFICES ASSUME Inputs, Planned
               PROVE  /\ out.plan.delay >= req.floor
                      /\ out.plan.clamped <=> req.duration < 2 * req.floor
                      /\ out.plan.clamped => \/ out.plan.effective > req.duration
                                             \/ out.plan.effective = Narrow
                      /\ ~out.plan.clamped =>
                           /\ out.plan.effective <= req.duration
                           /\ req.duration < out.plan.effective + out.plan.count
    BY DEF WindowKept
  <2> DEFINE n == SliceCount(req)
             d == req.duration
             spread == d \div n
             delay == IF spread < req.floor THEN req.floor ELSE spread
  <2>1. Tuned(req) /\ out.plan = Schedule(req)
    BY PlanOf
  <2>2. /\ out.plan.count = n /\ out.plan.delay = delay
        /\ out.plan.clamped = (spread < req.floor)
        /\ out.plan.effective = IF n * delay > Narrow THEN Narrow ELSE n * delay
    BY <2>1 DEF Schedule
  <2>3. d \in Nat /\ d <= Narrow /\ Narrow \in Nat /\ req.floor \in Nat \ {0}
    BY <2>1, WidthAssumption DEF Tuned, TwapRequest
  <2>4. n \in Nat /\ n >= 2
    BY <2>1, Counting
  <2> HIDE DEF n, d
  <2>5. /\ spread \in Nat /\ spread * n \in Nat /\ spread * n <= d
        /\ d < spread * n + n
    BY <2>3, <2>4, Division
  <2>6. spread < req.floor <=> d < 2 * req.floor
    <3>1. \A k \in Nat \ {0} : d \div k >= req.floor <=> req.floor * k <= d
      <4> TAKE k \in Nat \ {0}
      <4>1. d \div k \in Nat
        BY <2>3, Division
      <4> QED BY <2>3, <4>1, Quotient
    <3>2. spread >= req.floor => 2 * req.floor <= d
      <4>1. spread >= req.floor => req.floor * n <= d
        BY <2>4, <3>1
      <4>2. 2 * req.floor <= n * req.floor
        BY <2>3, <2>4, TimesMonotone
      <4>3. n * req.floor = req.floor * n /\ n * req.floor \in Nat
        BY <2>3, <2>4
      <4> QED BY <2>3, <4>1, <4>2, <4>3
    <3>3. 2 * req.floor <= d => spread >= req.floor
      <4> SUFFICES ASSUME 2 * req.floor <= d, spread < req.floor PROVE FALSE
        BY <2>3, <2>5
      <4> DEFINE wanted == Clamp(d \div req.target, 2, req.max)
                 fits == {k \in 2..wanted : d \div k >= req.floor}
      <4>1. wanted \in Nat /\ wanted >= 2
        <5>1. req.target \in Nat \ {0} /\ req.max \in Nat /\ req.max >= 2
          BY <2>1 DEF Tuned, TwapRequest
        <5> QED BY <2>3, <5>1, Division DEF Clamp
      <4>2. d \div 2 >= req.floor
        BY <2>3, <3>1
      <4>3. 2 \in fits
        BY <4>1, <4>2
      <4>4. n \in fits
        BY <2>1, <4>3, Counting DEF n, d
      <4> QED BY <2>3, <2>5, <4>4
    <3> QED BY <2>3, <2>5, <3>2, <3>3
  <2> HIDE DEF spread
  <2>7. CASE spread < req.floor
    <3>1. 2 * req.floor <= n * req.floor /\ n * req.floor \in Nat
      BY <2>3, <2>4, TimesMonotone
    <3>2. /\ out.plan.clamped = TRUE /\ out.plan.delay = req.floor
          /\ out.plan.effective = IF n * req.floor > Narrow THEN Narrow ELSE n * req.floor
      BY <2>2, <2>7
    <3>3. d < 2 * req.floor
      BY <2>6, <2>7
    <3>4. out.plan.effective > d \/ out.plan.effective = Narrow
      BY <2>3, <3>1, <3>2, <3>3
    <3> QED BY <2>3, <3>2, <3>3, <3>4 DEF d
  <2>8. CASE ~(spread < req.floor)
    <3>1. n * delay = spread * n
      BY <2>4, <2>5, <2>8
    <3>2. ~out.plan.clamped /\ out.plan.delay = spread /\ out.plan.count = n
      BY <2>2, <2>8
    <3>3. out.plan.effective = spread * n
      BY <2>2, <2>3, <2>5, <3>1
    <3>4. ~(d < 2 * req.floor) /\ spread >= req.floor
      BY <2>3, <2>5, <2>6, <2>8
    <3> QED BY <2>5, <3>2, <3>3, <3>4 DEF d
  <2> QED BY <2>7, <2>8
<1> QED BY <1>1, Answering, PTL

\* What is bought: the largest size of the grid that the notional pays for.
LEMMA NotionalBought ==
  ASSUME Inputs, Planned, out.total # Absent
  PROVE  LET usd == Scaled(req.usd, PriceScale) * req.market.lot
             mark == Scaled(req.mark, PriceScale)
             step == StepLots(req.market)
         IN  /\ out.total > 0 /\ out.total % step = 0
             /\ out.total >= MinLots(req.market) /\ out.total <= Narrow
             /\ out.total * mark <= usd
             /\ usd < (out.total + step) * mark
<1> DEFINE m == req.market
           usd == Scaled(req.usd, PriceScale) * m.lot
           mark == Scaled(req.mark, PriceScale)
           step == StepLots(m)
           raw == usd \div mark
           t == out.total
<1>1. /\ req.usd \in Decimal /\ Parses(req.usd, PriceScale)
      /\ req.mark \in Decimal /\ Positive(req.mark, PriceScale) /\ m \in Market
      /\ SizeOnGrid(m, raw).ok /\ t = SizeOnGrid(m, raw).size /\ t <= Narrow
  BY PlanOf DEF RawLots
<1>2. Positive(m.step, m.lot)
  BY <1>1 DEF SizeOnGrid, Refused
<1>3. /\ Scaled(req.usd, PriceScale) \in Nat /\ mark \in Nat \ {0}
      /\ m.lot \in Nat /\ step \in Nat \ {0} /\ MinLots(m) \in Nat
  BY <1>1, <1>2, ScaledNat, MarketNat, WidthAssumption DEF Parses, Positive
<1>4. usd \in Nat
  BY <1>3
<1> HIDE DEF usd, mark, step
<1>5. /\ raw \in Nat /\ raw * mark \in Nat /\ raw * mark <= usd
      /\ usd < raw * mark + mark
  BY <1>3, <1>4, Division
<1> HIDE DEF raw
<1>6. /\ t \in 1..raw /\ t % step = 0 /\ t >= MinLots(m) /\ t = Snap(raw, step)
  BY <1>1, <1>2, <1>5, SizeIsBest DEF step
<1>7. raw < t + step
  BY <1>3, <1>5, <1>6, Snapping
<1>8. t * mark <= raw * mark /\ t * mark \in Nat
  BY <1>3, <1>5, <1>6, TimesMonotone
<1>9. (raw + 1) * mark <= (t + step) * mark
  BY <1>3, <1>5, <1>6, <1>7, TimesMonotone
<1>10. (raw + 1) * mark = raw * mark + mark /\ (t + step) * mark \in Nat
  BY <1>3, <1>5, <1>6
<1>11. t * mark <= usd /\ usd < (t + step) * mark
  BY <1>3, <1>4, <1>5, <1>8, <1>9, <1>10
<1> QED BY <1>1, <1>5, <1>6, <1>11 DEF usd, mark, step

\* A refusal as too small comes from the grid alone.
LEMMA RefusalOf ==
  ASSUME Inputs, asks = "twap", out # Absent, ~out.ok, out.why = "BelowMinOrder"
  PROVE  /\ req.usd \in Decimal /\ Parses(req.usd, PriceScale)
         /\ req.mark \in Decimal /\ Positive(req.mark, PriceScale)
         /\ req.market \in Market /\ Positive(req.market.step, req.market.lot)
         /\ ~SizeOnGrid(req.market, RawLots(req)).ok
<1>1. req \in TwapRequest /\ out = PlanTwap(req)
  BY DEF Inputs
<1>2. /\ req.usd \in Decimal \cup {Absent} /\ req.mark \in Decimal \cup {Absent}
      /\ req.market \in Market \cup {Absent}
  BY <1>1 DEF TwapRequest
<1>3. req.usd # Absent /\ req.mark # Absent /\ req.market # Absent
      /\ ~UsdSize(req).ok /\ out = UsdSize(req)
  BY <1>1 DEF PlanTwap, Refused
<1>4. /\ Parses(req.usd, PriceScale) /\ Positive(req.mark, PriceScale)
      /\ UsdSize(req) = SizeOnGrid(req.market, RawLots(req))
  BY <1>3 DEF UsdSize, Refused
<1>5. Positive(req.market.step, req.market.lot)
  BY <1>3, <1>4 DEF SizeOnGrid, Refused
<1> QED BY <1>2, <1>3, <1>4, <1>5

\* What is refused: the notional pays for no size of the grid.
LEMMA TooDear ==
  ASSUME Inputs, asks = "twap", out # Absent, ~out.ok, out.why = "BelowMinOrder",
         NEW n \in Nat \ {0}, n % StepLots(req.market) = 0, n >= MinLots(req.market)
  PROVE  Scaled(req.usd, PriceScale) * req.market.lot < n * Scaled(req.mark, PriceScale)
<1> DEFINE m == req.market
           usd == Scaled(req.usd, PriceScale) * m.lot
           mark == Scaled(req.mark, PriceScale)
           raw == usd \div mark
<1>1. /\ req.usd \in Decimal /\ Parses(req.usd, PriceScale)
      /\ req.mark \in Decimal /\ Positive(req.mark, PriceScale)
      /\ m \in Market /\ Positive(m.step, m.lot) /\ ~SizeOnGrid(m, raw).ok
  BY RefusalOf DEF RawLots
<1>2. /\ Scaled(req.usd, PriceScale) \in Nat /\ mark \in Nat \ {0} /\ m.lot \in Nat
  BY <1>1, ScaledNat, MarketNat, WidthAssumption DEF Parses, Positive
<1>3. usd \in Nat
  BY <1>2
<1> HIDE DEF usd, mark
<1>4. raw \in Nat /\ raw * mark \in Nat /\ usd < raw * mark + mark
  BY <1>2, <1>3, Division
<1> HIDE DEF raw
<1>5. n \notin 1..raw
  BY <1>1, <1>4, SizeIsBest
<1>6. (raw + 1) * mark <= n * mark
  BY <1>2, <1>4, <1>5, TimesMonotone
<1>7. (raw + 1) * mark = raw * mark + mark /\ n * mark \in Nat
  BY <1>2, <1>4
<1>8. usd < n * mark
  BY <1>2, <1>3, <1>4, <1>6, <1>7
<1> QED BY <1>8 DEF usd, mark, m

\* A size bought with a notional is the largest of the grid that it pays for,
\* and is refused as too small only if there is none.
THEOREM NotionalBest == Spec => []NotionalKept
<1>1. Inputs => NotionalKept
  <2> SUFFICES ASSUME Inputs, asks = "twap", out # Absent PROVE NotionalKept
    BY DEF NotionalKept
  <2>1. ASSUME Planned, out.total # Absent
        PROVE  LET usd == Scaled(req.usd, PriceScale) * req.market.lot
                   mark == Scaled(req.mark, PriceScale)
                   step == StepLots(req.market)
               IN  /\ out.total > 0 /\ out.total % step = 0
                   /\ out.total >= MinLots(req.market) /\ out.total <= Narrow
                   /\ out.total * mark <= usd
                   /\ usd < (out.total + step) * mark
    BY <2>1, NotionalBought
  <2>2. ASSUME ~out.ok, out.why = "BelowMinOrder",
               NEW n \in 1..(Scaled(req.usd, PriceScale) * req.market.lot),
               n % StepLots(req.market) = 0, n >= MinLots(req.market)
        PROVE  Scaled(req.usd, PriceScale) * req.market.lot < n * Scaled(req.mark, PriceScale)
    <3>1. n \in Nat \ {0}
      BY <2>2, RefusalOf, ScaledNat, MarketNat, WidthAssumption DEF Parses
    <3> QED BY <2>2, <3>1, TooDear
  <2> QED BY <2>1, <2>2 DEF NotionalKept
<1> QED BY <1>1, Answering, PTL
=============================================================================
