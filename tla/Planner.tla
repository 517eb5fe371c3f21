------------------------------- MODULE Planner -------------------------------
(***************************************************************************)
(* The planning helpers: grid.rs snaps an order to a market's grid, and    *)
(* twap_plan.rs turns a duration and a notional into the fields of a TWAP. *)
(* A decimal string is the fraction num / den, with den a power of ten, or *)
(* Unreadable.  A behaviour is one request and its answer.                 *)
(***************************************************************************)
EXTENDS Naturals

CONSTANTS
  OrderRequests,   \* inputs of round_order_to_grid
  TwapRequests,    \* inputs of twap_from_duration
  PriceScale,      \* the price and notional plane: 10^8
  Narrow, Wide,    \* u64::MAX and u128::MAX
  Unreadable,      \* a string that is no decimal
  Absent           \* None

Decimal == [num : Nat, den : Nat \ {0}] \cup {Unreadable}
\* lot is 10^sz_decimals.
Market == [tick : Decimal, step : Decimal, min : Decimal, lot : Nat \ {0}]
OrderRequest == [market : Market, px : Nat, size : Nat]
TwapRequest == [duration : 0..Narrow, floor : Nat, max : Nat, target : Nat,
                usd : Decimal \cup {Absent}, mark : Decimal \cup {Absent},
                market : Market \cup {Absent}]

ASSUME WidthAssumption == Narrow \in Nat /\ Wide \in Nat /\ PriceScale \in Nat \ {0}
ASSUME RequestAssumption == /\ OrderRequests \subseteq OrderRequest
                            /\ TwapRequests \subseteq TwapRequest

VARIABLES asks, req, out   \* which helper is called, with what, its answer
vars == <<asks, req, out>>

-----------------------------------------------------------------------------
(* Decimals.                                                               *)

\* decimal_to_scaled truncates toward zero, and fails on what it cannot read
\* and on what does not fit 128 bits.
Scaled(d, scale) == (d.num * scale) \div d.den
Parses(d, scale) == d # Unreadable /\ Scaled(d, scale) <= Wide
Positive(d, scale) == Parses(d, scale) /\ Scaled(d, scale) > 0

Refused(why) == [ok |-> FALSE, why |-> why]

\* The largest multiple of unit that is not above n.
Snap(n, unit) == (n \div unit) * unit

\* An unreadable minimum is none at all.
MinLots(m) == IF Parses(m.min, m.lot) THEN Scaled(m.min, m.lot) ELSE 0
StepLots(m) == Scaled(m.step, m.lot)

\* Mutant: the minimum is checked before the size is snapped.
SizeUnsnappedMin(m, n) ==
  IF ~Positive(m.step, m.lot) THEN Refused("BadStep")
  ELSE IF n = 0 \/ n < MinLots(m) THEN Refused("BelowMinOrder")
  ELSE [ok |-> TRUE, size |-> Snap(n, StepLots(m))]

\* A size in lots, snapped to the step and held against the minimum.
SizeOnGrid(m, n) ==
  LET sz == Snap(n, StepLots(m))
  IN  IF ~Positive(m.step, m.lot) THEN Refused("BadStep")
      ELSE IF sz = 0 \/ sz < MinLots(m) THEN Refused("BelowMinOrder")
      ELSE [ok |-> TRUE, size |-> sz]

\* round_order_to_grid.
RoundOrder(q) ==
  LET tick == Scaled(q.market.tick, PriceScale)
      px == Snap(q.px, tick)
      sized == SizeOnGrid(q.market, q.size)
  IN  IF ~Positive(q.market.tick, PriceScale) THEN Refused("BadTick")
      ELSE IF ~Positive(q.market.step, q.market.lot) THEN Refused("BadStep")
      ELSE IF px = 0 THEN Refused("PriceBelowTick")
      ELSE IF ~sized.ok THEN sized
      ELSE [ok |-> TRUE, limit_px |-> px, size |-> sized.size]

-----------------------------------------------------------------------------
(* TWAP.                                                                   *)

\* Mutant: the mark divides before the lot multiplies.
RawLotsEarly(q) ==
  (Scaled(q.usd, PriceScale) \div Scaled(q.mark, PriceScale)) * q.market.lot

\* The notional at the mark in lots: both ride one plane, so its scale cancels.
RawLots(q) ==
  (Scaled(q.usd, PriceScale) * q.market.lot) \div Scaled(q.mark, PriceScale)

\* usd_to_wire_size.
UsdSize(q) ==
  LET sized == SizeOnGrid(q.market, RawLots(q))
  IN  IF ~Parses(q.usd, PriceScale) THEN Refused("BadUsd")
      ELSE IF ~Positive(q.mark, PriceScale) THEN Refused("BadMark")
      ELSE IF \/ q.market.lot > Wide
              \/ Scaled(q.usd, PriceScale) * q.market.lot > Wide
           THEN Refused("SizeOverflow")
      ELSE IF ~sized.ok THEN sized
      ELSE IF sized.size > Narrow THEN Refused("SizeOverflow")
      ELSE sized

Clamp(n, low, high) == IF n < low THEN low ELSE IF n > high THEN high ELSE n

\* Mutants: a floor that is met by rounding the spacing up; slices that are
\* not shed, so that the floor stretches the window.
SliceCountRounded(q) ==
  LET wanted == Clamp(q.duration \div q.target, 2, q.max)
  IN  IF q.duration \div wanted >= q.floor THEN wanted
      ELSE Clamp((q.duration + q.floor - 1) \div q.floor, 2, q.max)
SliceCountKept(q) == Clamp(q.duration \div q.target, 2, q.max)

\* One slice per target cadence, fewer if the floor would not be met.
SliceCount(q) ==
  LET wanted == Clamp(q.duration \div q.target, 2, q.max)
  IN  IF q.duration \div wanted >= q.floor THEN wanted
      ELSE Clamp(q.duration \div q.floor, 2, q.max)

\* The schedule that is left to run, and what the chain takes for it.
Schedule(q) ==
  LET count == SliceCount(q)
      spread == q.duration \div count
      clamped == spread < q.floor
      delay == IF clamped THEN q.floor ELSE spread
  IN  [ok |-> TRUE, count |-> count, delay |-> delay, clamped |-> clamped,
       effective |-> IF count * delay > Narrow THEN Narrow ELSE count * delay]

\* twap_from_duration.
PlanTwap(q) ==
  LET plan == Schedule(q)
      sized == UsdSize(q)
      each == sized.size \div plan.count
  IN  IF q.duration = 0 THEN Refused("ZeroDuration")
      ELSE IF q.floor = 0 \/ q.target = 0 \/ q.max < 2 THEN Refused("BadTuning")
      ELSE IF q.usd = Absent
           THEN [ok |-> TRUE, plan |-> plan, total |-> Absent, slice |-> Absent]
      ELSE IF q.mark = Absent \/ q.market = Absent
           THEN Refused("MissingConversionInput")
      ELSE IF ~sized.ok THEN sized
      ELSE [ok |-> TRUE, plan |-> plan, total |-> sized.size,
            slice |-> IF each = 0 THEN 1 ELSE each]

-----------------------------------------------------------------------------
Init == /\ \/ asks = "grid" /\ req \in OrderRequests
           \/ asks = "twap" /\ req \in TwapRequests
        /\ out = Absent

AnswerOrder == /\ asks = "grid" /\ out = Absent
               /\ out' = RoundOrder(req)
               /\ UNCHANGED <<asks, req>>
AnswerTwap == /\ asks = "twap" /\ out = Absent
              /\ out' = PlanTwap(req)
              /\ UNCHANGED <<asks, req>>

Next == AnswerOrder \/ AnswerTwap
Spec == Init /\ [][Next]_vars

-----------------------------------------------------------------------------
\* On a market with a grid an order is refused only if the grid holds nothing
\* for it, and otherwise gets the best there is: the highest price of the grid
\* within the limit and the largest size of the grid within what was asked and
\* not below the minimum.
OrderIsBest ==
  asks = "grid" /\ out # Absent =>
    LET m == req.market
        prices == {p \in 1..req.px : p % Scaled(m.tick, PriceScale) = 0}
        sizes == {n \in 1..req.size : n % StepLots(m) = 0 /\ n >= MinLots(m)}
    IN  Positive(m.tick, PriceScale) /\ Positive(m.step, m.lot) =>
          /\ out.ok <=> prices # {} /\ sizes # {}
          /\ out.ok => /\ out.limit_px \in prices
                       /\ \A p \in prices : p <= out.limit_px
                       /\ out.size \in sizes
                       /\ \A n \in sizes : n <= out.size

Planned == asks = "twap" /\ out # Absent /\ out.ok

\* "Sheds slices first" (twap_plan.rs:164-165): the plan keeps as many slices
\* of the wanted cadence as meet the floor, and two if no number does.
CadenceKept ==
  Planned =>
    LET wanted == Clamp(req.duration \div req.target, 2, req.max)
        fits == {k \in 2..wanted : req.duration \div k >= req.floor}
    IN  /\ fits = {} => out.plan.count = 2
        /\ fits # {} => out.plan.count \in fits /\ \A k \in fits : k <= out.plan.count

\* The node never moves the delay; the window is overrun only when two floors
\* do not fit in it, the plan then says so, and otherwise it falls short of the
\* window by less than a millisecond per slice.
WindowKept ==
  Planned =>
    /\ out.plan.delay >= req.floor
    /\ out.plan.clamped <=> req.duration < 2 * req.floor
    /\ out.plan.clamped => out.plan.effective > req.duration \/ out.plan.effective = Narrow
    /\ ~out.plan.clamped =>
         /\ out.plan.effective <= req.duration
         /\ req.duration < out.plan.effective + out.plan.count

\* A size bought with a notional is on the grid, not below the minimum, never
\* worth more than the notional at the mark, and one more step would be; it is
\* refused as too small only if the notional pays for no size of the grid.
NotionalKept ==
  asks = "twap" /\ out # Absent =>
    LET usd == Scaled(req.usd, PriceScale) * req.market.lot
        mark == Scaled(req.mark, PriceScale)
        step == StepLots(req.market)
        OnGrid(n) == n % step = 0 /\ n >= MinLots(req.market)
    IN  /\ Planned /\ out.total # Absent =>
             /\ out.total > 0 /\ OnGrid(out.total) /\ out.total <= Narrow
             /\ out.total * mark <= usd
             /\ usd < (out.total + step) * mark
        /\ ~out.ok /\ out.why = "BelowMinOrder" =>
             \A n \in 1..usd : OnGrid(n) => usd < n * mark
=============================================================================
