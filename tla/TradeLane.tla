------------------------------ MODULE TradeLane ------------------------------
(***************************************************************************)
(* The signed trading actions: a method of exchange.rs builds the body it  *)
(* posts, typed_orders.rs the struct it signs, and post_typed_trade_bound  *)
(* sends both.  The node rebuilds the struct from the body alone, so the   *)
(* two must agree.                                                         *)
(*                                                                         *)
(* A payload is a record of the fields of its wire struct; a field that is *)
(* Absent is left out of the JSON.  A hash is the value it is taken of.    *)
(* An EIP-712 type string is the kind of an action with the names it       *)
(* signs, so a digest keeps those as the domain of its words.  Nonces are   *)
(* those of NonceSource, drawn without gaps.                               *)
(***************************************************************************)
EXTENDS Naturals, Sequences

CONSTANTS
  Calls,      \* calls of signing methods
  Requests,   \* what a call may ask
  Absent,     \* None
  Nobody      \* the zero address

VARIABLES posted,   \* posted[c]: what c put on the wire, its refusal, or Absent
          nonce     \* the last nonce drawn
vars == <<posted, nonce>>

OrElse(v, zero) == IF v = Absent THEN zero ELSE v

-----------------------------------------------------------------------------
(* Payloads.                                                               *)

\* The actions that keep an owner in their own struct, and those whose _as
\* method or caller supplies it.
OwnerKinds == {"submit_order", "cancel_order", "schedule_cancel", "twap_order",
               "spot_order", "spot_cancel", "scale_order", "cancel_scale",
               "chase_order", "cancel_chase"}
BoundKinds == {"cancel_by_cloid", "modify", "batch_modify", "batch_cancel",
               "twap_cancel"}
Kinds == OwnerKinds \cup BoundKinds \cup {"batch_order"}

\* The actions that exchange.rs has an _as method for.
AsKinds == {"cancel_by_cloid", "modify", "batch_modify", "batch_cancel",
            "scale_order", "cancel_scale", "chase_order", "cancel_chase"}

TrailOf(o) == IF o.trigger = Absent THEN Absent ELSE o.trigger.trail_px

OrderFields == {"market", "side", "kind", "size", "limit_px", "tif", "stp_mode",
                "reduce_only", "cloid", "builder", "position_side", "trigger"}
ModifyFields == {"market", "oid", "new_px", "new_size"}
CancelFields == {"market", "oid"}

\* The names of the frozen type string of each kind, owner aside.
Frozen ==
  [submit_order |-> OrderFields, cancel_order |-> CancelFields,
   spot_order |-> {"pair", "side", "size", "limit_px", "tif", "stp_mode", "cloid"},
   spot_cancel |-> {"pair", "oid"}, cancel_by_cloid |-> {"asset", "cloid"},
   modify |-> ModifyFields, batch_modify |-> {"modifications"},
   schedule_cancel |-> {"cancel_at_block"},
   twap_order |-> {"market", "side", "total_size", "slice_count", "delay_ms",
                   "reduce_only"},
   twap_cancel |-> {"twap_id"}, batch_order |-> {"owner", "orders", "grouping"},
   batch_cancel |-> {"cancels"},
   scale_order |-> {"market", "side", "n", "px_low", "px_high", "total_size", "dist",
                    "weights", "tif", "reduce_only", "stp_mode", "position_side",
                    "cloid"},
   cancel_scale |-> {"market", "cloid"},
   chase_order |-> {"market", "side", "size", "cloid", "stp_mode", "position_side",
                    "interval_blocks", "ttl_ms", "max_reprices"},
   cancel_chase |-> {"market", "chase_oid"}]

\* A callback, a leg or the schedule flag selects a longer type string.
Longer(k, p) ==
  IF k = "submit_order" /\ TrailOf(p) # Absent THEN {"trail_px"}
  ELSE IF k = "batch_order" /\ \E i \in DOMAIN p.orders : TrailOf(p.orders[i]) # Absent
       THEN {"trail_pxs"}
  ELSE IF k = "twap_order" /\ p.randomize THEN {"position_side", "randomize"}
  ELSE IF k = "twap_order" /\ p.position_side # Absent THEN {"position_side"}
  ELSE {}

Signed(k, p) == Frozen[k] \cup Longer(k, p)

\* The fields of each payload, Options among them.
PayloadFields(k) ==
  Frozen[k] \cup (IF k \in BoundKinds THEN {} ELSE {"owner"})
    \cup (CASE k = "cancel_order" -> {"cloid"}
            [] k = "twap_order" -> {"position_side", "randomize"}
            [] OTHER -> {})

Struct(fields, v) == v = [f \in fields |-> v[f]]

\* A cloid is sixteen bytes, a position side and a tpsl are enums: none of them is
\* written as the empty string.
IsTrigger(t) ==
  Struct({"trigger_px", "is_market", "tpsl", "trail_px"}, t) /\ t.tpsl # ""
IsOrder(o) ==
  /\ Struct(OrderFields \cup {"owner"}, o)
  /\ o.cloid # "" /\ o.position_side # "" /\ (o.trigger = Absent \/ IsTrigger(o.trigger))
IsCancel(x) == Struct(CancelFields \cup {"owner", "cloid"}, x)

WellFormed(k, p) ==
  /\ Struct(PayloadFields(k), p)
  /\ "cloid" \in DOMAIN p => p.cloid # ""
  /\ "position_side" \in DOMAIN p => p.position_side # ""
  /\ k \in {"submit_order", "cancel_order", "batch_order"} => p.owner # Absent
  /\ k = "submit_order" => IsOrder(p)
  /\ k = "cancel_order" => IsCancel(p)
  /\ k = "twap_order" => p.randomize \in BOOLEAN
  /\ k = "batch_order" => \A i \in DOMAIN p.orders : IsOrder(p.orders[i])
  /\ k = "batch_cancel" => \A i \in DOMAIN p.cancels : IsCancel(p.cancels[i])
  /\ k = "batch_modify" =>
       /\ Struct(DOMAIN p.modifications, p.modifications)
       /\ \A i \in DOMAIN p.modifications : Struct(ModifyFields, p.modifications[i])

\* What the types of exchange.rs and ws/client.rs admit: only a payload with a
\* field of its own for the owner has one, an _as method is given an owner, and
\* the owner-less form and a bound owner are chosen on the digest itself.
ASSUME RequestAssumption ==
  /\ Absent \notin Nat
  /\ \A r \in Requests :
       /\ r.via \in {"method", "as", "ws", "digest"} /\ r.kind \in Kinds
       /\ r.via = "as" => r.kind \in AsKinds /\ r.owner # Absent
       /\ r.via = "ws" => r.kind \in {"submit_order", "cancel_order"}
       /\ r.via = "digest" => r.kind \in OwnerKinds
       /\ r.self_signed => r.via = "digest"
       /\ r.expires \in Nat
       /\ WellFormed(r.kind, r.params)

-----------------------------------------------------------------------------
(* Words: what is signed for a field.                                      *)

NoBuilder == [fee |-> 0, user |-> Nobody]
NoTrigger == [trigger_px |-> 0, is_market |-> FALSE, tpsl |-> ""]

\* Mutant: a change of price to zero signs like no change.
FieldFlat(p, f) ==
  CASE f \in {"new_px", "new_size"} -> <<TRUE, OrElse(p[f], 0)>>
    [] f \in {"cloid", "position_side"} -> OrElse(p[f], "")
    [] f = "builder" -> OrElse(p.builder, NoBuilder)
    [] f = "trigger" -> IF p.trigger = Absent THEN NoTrigger
                        ELSE [n \in {"trigger_px", "is_market", "tpsl"} |-> p.trigger[n]]
    [] OTHER -> p[f]

\* An absent field signs a zero form; a change signs its presence as well.
Field(p, f) ==
  CASE f \in {"new_px", "new_size"} -> <<p[f] # Absent, OrElse(p[f], 0)>>
    [] f \in {"cloid", "position_side"} -> OrElse(p[f], "")
    [] f = "builder" -> OrElse(p.builder, NoBuilder)
    [] f = "trigger" -> IF p.trigger = Absent THEN NoTrigger
                        ELSE [n \in {"trigger_px", "is_market", "tpsl"} |-> p.trigger[n]]
    [] OTHER -> p[f]

\* The items of a batch have a fixed width, so their hash is one of each item.
Items(s, fields) == [i \in DOMAIN s |-> [f \in fields |-> Field(s[i], f)]]

Word(p, f) ==
  CASE f = "orders" -> Items(p.orders, OrderFields)
    [] f = "modifications" -> Items(p.modifications, ModifyFields)
    [] f = "cancels" -> Items(p.cancels, CancelFields)
    [] f = "trail_px" -> TrailOf(p)
    [] f = "trail_pxs" ->
         [i \in DOMAIN p.orders |->
            <<TrailOf(p.orders[i]) # Absent, OrElse(TrailOf(p.orders[i]), 0)>>]
    [] f = "weights" -> IF p.dist = "custom" THEN p.weights ELSE Absent
    [] OTHER -> Field(p, f)

Words(k, p) == [f \in Signed(k, p) |-> Word(p, f)]

\* The owner of a batch_order is one of its own words.
Digest(k, p, owner, n, expires) ==
  [kind |-> k, words |-> Words(k, p), nonce |-> n, expires |-> expires,
   owner |-> IF k = "batch_order" THEN Absent ELSE owner]

-----------------------------------------------------------------------------
(* The methods.  A request goes through a plain method, through an _as     *)
(* method that names an owner, through the WebSocket's submit_order or     *)
(* cancel_order, or straight to TypedTradingDigest with an owner bound or  *)
(* the owner-less form chosen.                                             *)

\* Mutant: only an order that would rest as Gtc is coerced.
CoercedGtc(o) == IF o.kind = "market" /\ o.tif = "gtc" THEN [o EXCEPT !.tif = "ioc"] ELSE o

Coerced(o) == IF o.kind = "market" THEN [o EXCEPT !.tif = "ioc"] ELSE o

\* Mutant: the owner of an _as method never reaches the params.
PayloadUnowned(r) == r.params

\* The payload that is signed.
Payload(r) ==
  IF r.via = "digest" THEN r.params
  ELSE IF r.kind = "submit_order" THEN Coerced(r.params)
  ELSE IF r.kind = "batch_order"
       THEN [r.params EXCEPT !.orders = [i \in DOMAIN @ |-> Coerced(@[i])]]
  ELSE IF r.via = "as" /\ r.kind \in OwnerKinds THEN [r.params EXCEPT !.owner = r.owner]
  ELSE r.params

WithOwner(p, o) == [f \in DOMAIN p \cup {"owner"} |-> IF f = "owner" THEN o ELSE p[f]]

\* Mutant: the JSON is built before the order is coerced.
BodyEarly(r) ==
  IF r.kind \in {"submit_order", "batch_order"} THEN r.params
  ELSE IF r.via = "as" /\ r.kind \in BoundKinds THEN WithOwner(r.params, r.owner)
  ELSE Payload(r)

\* The params that are posted.
Body(r) ==
  IF r.via = "as" /\ r.kind \in BoundKinds THEN WithOwner(Payload(r), r.owner)
  ELSE IF r.via # "digest" /\ r.kind = "scale_order" /\ r.params.dist # "custom"
       THEN [Payload(r) EXCEPT !.weights = <<>>]
  ELSE Payload(r)

\* check_trigger_limit and the weights of a scale ladder.
BadTrigger(o) ==
  /\ o.trigger # Absent
  /\ \/ o.trigger.trail_px = 0
     \/ ~o.trigger.is_market /\ (o.limit_px = 0 \/ o.tif # "gtc")

\* The WebSocket lane checks nothing, and neither does the digest.
Invalid(r) ==
  /\ r.via \in {"method", "as"}
  /\ \/ r.kind = "submit_order" /\ BadTrigger(r.params)
     \/ r.kind = "batch_order" /\ \E i \in DOMAIN r.params.orders : BadTrigger(r.params.orders[i])
     \/ /\ r.kind = "scale_order" /\ r.params.dist = "custom"
        /\ Len(r.params.weights) # r.params.n

\* The owner handed to TypedTradingDigest.
Bound(r) ==
  IF r.via = "digest" \/ (r.via = "as" /\ r.kind \in BoundKinds) THEN r.owner
  ELSE IF r.kind \in {"spot_order", "spot_cancel"} THEN r.params.owner
  ELSE Absent

SelfSigned(r) == r.self_signed /\ r.kind \in {"submit_order", "cancel_order"}

EffectiveOwner(r) ==
  IF SelfSigned(r) THEN Absent
  ELSE IF r.kind \in OwnerKinds THEN Payload(r).owner
  ELSE Bound(r)

\* An owner that is not the payload's, and a cancel that names no oid.
Undigestible(r) ==
  \/ /\ ~SelfSigned(r) /\ r.kind \in OwnerKinds
     /\ Bound(r) # Absent /\ Bound(r) # Payload(r).owner
  \/ r.kind = "cancel_order" /\ r.params.oid = Absent
  \/ r.kind = "batch_cancel" /\ \E i \in DOMAIN r.params.cancels : r.params.cancels[i].oid = Absent

-----------------------------------------------------------------------------
Refused(r, why) == [ok |-> FALSE, req |-> r, why |-> why]

Init == posted = [c \in Calls |-> Absent] /\ nonce = 0

\* Refused before a nonce is drawn.
Reject(c) ==
  /\ posted[c] = Absent
  /\ \E r \in Requests : Invalid(r) /\ posted' = [posted EXCEPT ![c] = Refused(r, "invalid")]
  /\ UNCHANGED nonce

\* Refused by the digest: the nonce is spent.
FailToSign(c) ==
  /\ posted[c] = Absent
  /\ \E r \in Requests : /\ ~Invalid(r) /\ Undigestible(r)
                         /\ posted' = [posted EXCEPT ![c] = Refused(r, "undigestible")]
  /\ nonce' = nonce + 1

\* The WebSocket lane has no expiry; one of zero is left out of the envelope.
Expires(r) == IF r.via = "ws" THEN 0 ELSE r.expires
Envelope(r, n) ==
  [ok |-> TRUE, req |-> r, kind |-> r.kind, body |-> Body(r), nonce |-> n,
   expires |-> IF Expires(r) = 0 THEN Absent ELSE Expires(r), signer |-> r.signer,
   digest |-> Digest(r.kind, Payload(r), EffectiveOwner(r), n, Expires(r))]

Post(c) ==
  /\ posted[c] = Absent
  /\ \E r \in Requests : /\ ~Invalid(r) /\ ~Undigestible(r)
                         /\ posted' = [posted EXCEPT ![c] = Envelope(r, nonce + 1)]
  /\ nonce' = nonce + 1

Next == \E c \in Calls : Reject(c) \/ FailToSign(c) \/ Post(c)
Spec == Init /\ [][Next]_vars

-----------------------------------------------------------------------------
(* The node, which has the envelope and nothing else.                      *)

OwnerIn(body) == IF "owner" \in DOMAIN body THEN body.owner ELSE Absent
\* Whose account the action is for.
Account(e) == OrElse(OwnerIn(e.body), e.signer)

Rebuilt(e, owner) == Digest(e.kind, e.body, owner, e.nonce, OrElse(e.expires, 0))
\* The owner itself may sign an order and a cancel without the owner.
Verified(e) ==
  \/ e.digest = Rebuilt(e, OwnerIn(e.body))
  \/ /\ e.kind \in {"submit_order", "cancel_order"} /\ e.signer = e.body.owner
     /\ e.digest = Rebuilt(e, Absent)

\* What an action asks, its account aside: a builder without fee is none, the
\* node takes no owner from the legs of a batch (order.rs:383), and only a custom
\* ladder has weights.
ReadField(b, f) ==
  IF f = "builder" THEN OrElse(b.builder, NoBuilder)
  ELSE IF f = "weights" /\ b.dist # "custom" THEN <<>>
  ELSE b[f]
ReadBut(b, ignored) == [f \in DOMAIN b \ ignored |-> ReadField(b, f)]
Reading(k, b) ==
  CASE k = "batch_order" ->
         [orders |-> [i \in DOMAIN b.orders |-> ReadBut(b.orders[i], {"owner"})],
          grouping |-> b.grouping]
    [] k = "batch_cancel" ->
         [i \in DOMAIN b.cancels |-> ReadBut(b.cancels[i], {"owner"})]
    [] OTHER -> ReadBut(b, {"owner"})

-----------------------------------------------------------------------------
Sent(c) == posted[c] # Absent /\ posted[c].ok

\* "The bound owner ALWAYS matches the owner the wire body carries"
\* (typed_orders.rs:696): what is posted verifies against its own body, unless
\* the owner-less form was chosen for somebody else's order.
Verifies ==
  \A c \in Calls : Sent(c) =>
    LET e == posted[c]
    IN  (SelfSigned(e.req) => e.signer = e.body.owner) => Verified(e)

\* A cancel names an oid or a cloid, "mutually exclusive" (order.rs:330): the types
\* admit both, and the digest binds the oid alone.
OneName(x) == x.oid = Absent \/ x.cloid = Absent
NamesOnce(k, b) ==
  /\ k = "cancel_order" => OneName(b)
  /\ k = "batch_cancel" => \A i \in DOMAIN b.cancels : OneName(b.cancels[i])

\* A signature says one thing: two actions that verify, sign alike but for the
\* nonce, and come from one signer, ask the same for the same account, as long as
\* no cancel has two names.
SignedMeansOne ==
  \A c, d \in Calls :
    Sent(c) /\ Sent(d) =>
      LET e == posted[c]
          g == posted[d]
      IN  /\ NamesOnce(e.kind, e.body) /\ NamesOnce(g.kind, g.body)
          /\ Verified(e) /\ Verified(g) /\ e.signer = g.signer /\ e.kind = g.kind
          /\ e.digest = [g.digest EXCEPT !.nonce = e.nonce]
          => Reading(e.kind, e.body) = Reading(g.kind, g.body) /\ Account(e) = Account(g)

\* An _as method acts for the owner it was given and for nobody else, another
\* method for the owner its params name, and for the signer if they name none.
ActsForAsked ==
  \A c \in Calls : Sent(c) =>
    LET r == posted[c].req
    IN  Account(posted[c]) = IF r.via = "as" THEN r.owner
                             ELSE OrElse(OwnerIn(r.params), r.signer)

\* No method posts what the node would carry out otherwise than meant or refuse
\* after the nonce is spent: a market order that can rest (order.rs:190-195), and
\* weights that do not fit the ladder (exchange.rs:1851-1854).
Legs(e) == IF e.kind = "submit_order" THEN {e.body}
           ELSE IF e.kind = "batch_order" THEN {e.body.orders[i] : i \in DOMAIN e.body.orders}
           ELSE {}
FitForNode ==
  \A c \in Calls : Sent(c) /\ posted[c].req.via # "digest" =>
    LET e == posted[c]
    IN  /\ \A o \in Legs(e) : o.kind = "market" => o.tif = "ioc"
        /\ e.kind = "scale_order" => IF e.body.dist = "custom"
                                     THEN Len(e.body.weights) = e.body.n
                                     ELSE e.body.weights = <<>>

\* "The order MUST carry limit_px > 0 and tif = gtc - the submit_order /
\* batch_order client guard rejects otherwise" (order.rs:274-275): what the guard
\* rejects is never posted.
TriggersRest ==
  \A c \in Calls : Sent(c) /\ posted[c].req.via # "digest" =>
    \A o \in Legs(posted[c]) : ~BadTrigger(o)
=============================================================================
