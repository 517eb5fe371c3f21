------------------------------ MODULE MCPlanner ------------------------------
(* Bounded inputs of Planner for TLC: the price plane is 10, u64 is 0..15   *)
(* and u128 is 0..255.                                                      *)
EXTENDS Planner

Frac(n, d) == [num |-> n, den |-> d]
\* Whole, on the plane, finer than the plane, zero, too large, unreadable.
Grids == {Frac(0, 1), Frac(1, 10), Frac(3, 10), Frac(1, 1), Frac(15, 100),
          Frac(30, 1), Unreadable}
Markets == [tick : Grids \ {Frac(30, 1)}, step : Grids, min : Grids, lot : {1, 10}]
OneTick == {m \in Markets : m.tick = Frac(3, 10)}
Vast == [tick |-> Frac(1, 1), step |-> Frac(1, 1), min |-> Frac(0, 1), lot |-> 256]

MCOrderRequests ==
  [market : OneTick, px : {0, 2, 3, 15}, size : 0..15]
    \cup [market : {m \in Markets : m.step = Frac(3, 10) /\ m.min = Frac(1, 1)},
          px : 0..15, size : {0, 7, 15}]

Schedules(durations, set) ==
  {[duration |-> d, floor |-> t[1], max |-> t[2], target |-> t[3],
    usd |-> s[1], mark |-> s[2], market |-> s[3]] :
     d \in durations, t \in {<<3, 4, 2>>, <<1, 2, 1>>}, s \in set}
Bought == {Frac(7, 10), Frac(0, 1), Frac(25, 10), Frac(25, 1), Frac(26, 1),
           Unreadable}
Marks == {Frac(3, 10), Frac(1, 1), Frac(2, 1), Frac(1, 100), Unreadable, Absent}
MCTwapRequests ==
  [duration : 0..15, floor : 0..9, max : 0..5, target : 0..5,
   usd : {Absent}, mark : {Absent}, market : {Absent}]
    \cup Schedules({11}, Bought \X Marks \X (OneTick \cup {Vast, Absent}))
=============================================================================
