---------------------------- MODULE MCTradeLane ----------------------------
(* Payloads of TradeLane for TLC: a base payload of each kind and, with it, *)
(* the payloads that differ from it in the fields an encoding could merge   *)
(* or leave out.                                                            *)
EXTENDS TradeLane, TLC

CONSTANTS Alice, Vault, Agent

Callers == Permutations(Calls)

\* One field, or two, of a payload changed.
Vary(p, f, vs) == {[p EXCEPT ![f] = v] : v \in vs}

Trig(mkt, tpsl, trail) ==
  [trigger_px |-> 5, is_market |-> mkt, tpsl |-> tpsl, trail_px |-> trail]
Triggers == {Trig(m, "sl", t) : m \in BOOLEAN, t \in {Absent, 0, 3}}
              \cup {Trig(TRUE, "tp", Absent)}

Order == [owner |-> Alice, market |-> 1, side |-> "bid", kind |-> "limit", size |-> 1,
          limit_px |-> 1, tif |-> "gtc", stp_mode |-> "cancel_newest",
          reduce_only |-> FALSE, cloid |-> Absent, builder |-> Absent,
          position_side |-> Absent, trigger |-> Absent]
AnOrder(k, t, px) == [Order EXCEPT !.kind = k, !.tif = t, !.limit_px = px]
Orders ==
  {AnOrder(k, t, px) : k \in {"limit", "market"}, t \in {"gtc", "alo", "ioc"}, px \in {0, 1}}
    \cup UNION {Vary(o, "trigger", Triggers) :
                  o \in {Order, AnOrder("market", "gtc", 1), AnOrder("limit", "alo", 1),
                         AnOrder("stop_loss", "gtc", 0)}}
    \cup Vary(Order, "owner", {Vault}) \cup Vary(Order, "cloid", {"k"})
    \cup Vary(Order, "builder", {NoBuilder, [fee |-> 2, user |-> Vault]})
    \cup Vary(Order, "position_side", {"long", "short"}) \cup Vary(Order, "side", {"ask"})
    \cup Vary(Order, "reduce_only", {TRUE})

Legs2 == {Order, AnOrder("market", "alo", 1), [Order EXCEPT !.trigger = Trig(TRUE, "sl", 3)],
          [Order EXCEPT !.trigger = Trig(TRUE, "sl", Absent)], [Order EXCEPT !.owner = Vault]}
Batches == {[owner |-> w, orders |-> os, grouping |-> g] :
              w \in {Alice, Vault}, g \in {"na", "normalTpsl"},
              os \in {<<>>} \cup {<<a>> : a \in Legs2} \cup {<<a, b>> : a, b \in Legs2}}

\* By oid, by cloid, or by both, which the types admit.
Cancels == [owner : {Alice, Vault}, market : {1}, oid : {1, 2}, cloid : {Absent}]
             \cup [owner : {Alice}, market : {1}, oid : {Absent, 1}, cloid : {"k"}]
Modifies == [market : {1}, oid : {1}, new_px : {Absent, 0, 1}, new_size : {Absent, 0}]
Owners == {Absent, Vault}
Scales ==
  UNION {Vary([market |-> 1, side |-> "bid", n |-> 2, px_low |-> 1, px_high |-> 2,
               total_size |-> 4, dist |-> d, weights |-> <<>>, tif |-> "gtc",
               reduce_only |-> FALSE, stp_mode |-> "cancel_newest", position_side |-> Absent,
               cloid |-> "k", owner |-> w], "weights", {<<>>, <<1, 2>>, <<2, 1>>, <<1>>}) :
           d \in {"flat", "custom"}, w \in Owners}
Twaps == [market : {1}, side : {"bid"}, total_size : {4}, slice_count : {2}, delay_ms : {1},
          reduce_only : {FALSE}, position_side : {Absent, "long"}, randomize : BOOLEAN,
          owner : Owners]
Pairs(S) == {<<a>> : a \in S} \cup {<<a, b>> : a, b \in S}

Payloads ==
  [submit_order |-> Orders, cancel_order |-> Cancels, batch_order |-> Batches,
   spot_order |-> [pair : {1}, side : {"bid"}, size : {1}, limit_px : {0, 1}, tif : {"ioc"},
                   stp_mode : {"cancel_newest"}, cloid : {Absent, "k"}, owner : Owners],
   spot_cancel |-> [pair : {1}, oid : {1, 2}, owner : Owners],
   cancel_by_cloid |-> [asset : {1}, cloid : {"k", "l"}],
   modify |-> Modifies,
   batch_modify |-> [modifications : Pairs({m \in Modifies : m.new_size = Absent})],
   schedule_cancel |-> [cancel_at_block : {1, 2}, owner : Owners],
   twap_order |-> Twaps, twap_cancel |-> [twap_id : {1, 2}],
   batch_cancel |-> [cancels : Pairs({x \in Cancels : x.oid # 2})],
   scale_order |-> Scales, cancel_scale |-> [market : {1}, cloid : {"k"}, owner : Owners],
   chase_order |-> [market : {1}, side : {"bid"}, size : {1}, cloid : {Absent, "k"},
                    stp_mode : {"cancel_newest"}, position_side : {Absent, "long"},
                    interval_blocks : {1}, ttl_ms : {0}, max_reprices : {0}, owner : Owners],
   cancel_chase |-> [market : {1}, chase_oid : {1}, owner : Owners]]

Requests0(via, kinds, owners, self, signers, expiries) ==
  UNION {[via : {via}, kind : {k}, params : Payloads[k], owner : owners,
          self_signed : self, signer : signers, expires : expiries] : k \in kinds}

MCRequests ==
  Requests0("method", Kinds, {Absent}, {FALSE}, {Alice, Agent}, {0})
    \cup Requests0("method", {"modify", "spot_order"}, {Absent}, {FALSE}, {Agent}, {9})
    \cup Requests0("as", AsKinds, {Vault, Alice}, {FALSE}, {Agent}, {0})
    \cup Requests0("ws", {"submit_order", "cancel_order"}, {Absent}, {FALSE}, {Agent}, {9})
    \cup Requests0("digest", {"cancel_order"}, {Absent, Vault}, BOOLEAN, {Alice, Agent}, {0})
    \cup Requests0("digest", {"spot_cancel", "cancel_chase"}, {Absent, Vault, Alice}, {FALSE},
                   {Agent}, {0})
=============================================================================
