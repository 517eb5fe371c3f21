-------------------------- MODULE TradeLaneProofs --------------------------
(***************************************************************************)
(* For every request the types admit: what a trading method posts verifies *)
(* against its own body, acts for the account that was asked, and is fit   *)
(* for the node.                                                           *)
(*                                                                         *)
(* The invariant is Traced: an entry is a refusal of a request or the      *)
(* envelope of one, so each property is one of Envelope.                   *)
(***************************************************************************)
EXTENDS TradeLane, TLAPS

\* What the assumption says of one request.
LEMMA Admitted ==
  ASSUME NEW r \in Requests
  PROVE  LET p == r.params
         IN  /\ r.via \in {"method", "as", "ws", "digest"} /\ r.kind \in Kinds
             /\ r.via = "as" => r.kind \in AsKinds /\ r.owner # Absent
             /\ r.via = "ws" => r.kind \in {"submit_order", "cancel_order"}
             /\ r.via = "digest" => r.kind \in OwnerKinds
             /\ r.self_signed => r.via = "digest"
             /\ r.expires \in Nat /\ Absent \notin Nat
             /\ p = [f \in DOMAIN p |-> p[f]]
             /\ Frozen[r.kind] \subseteq DOMAIN p
             /\ "owner" \in DOMAIN p <=> r.kind \notin BoundKinds
             /\ r.kind = "batch_order" =>
                  \A i \in DOMAIN p.orders :
                    /\ p.orders[i] = [f \in DOMAIN p.orders[i] |-> p.orders[i][f]]
                    /\ OrderFields \subseteq DOMAIN p.orders[i]
  <1> DEFINE k == r.kind
             p == r.params
  <1>1. WellFormed(k, p)
    BY RequestAssumption
  <1>2. p = [f \in PayloadFields(k) |-> p[f]]
    BY <1>1 DEF WellFormed, Struct
  <1>3. k \in BoundKinds => "owner" \notin Frozen[k]
    BY DEF Frozen, BoundKinds, ModifyFields
  <1>4. "owner" \in PayloadFields(k) <=> k \notin BoundKinds
    BY <1>3 DEF PayloadFields, BoundKinds
  <1>5. Frozen[k] \subseteq PayloadFields(k)
    BY DEF PayloadFields
  <1>6. p = [f \in DOMAIN p |-> p[f]] /\ DOMAIN p = PayloadFields(k)
    BY <1>2
  <1>7. ASSUME k = "batch_order", NEW i \in DOMAIN p.orders
        PROVE  /\ p.orders[i] = [f \in DOMAIN p.orders[i] |-> p.orders[i][f]]
               /\ OrderFields \subseteq DOMAIN p.orders[i]
    <2>1. p.orders[i] = [f \in OrderFields \cup {"owner"} |-> p.orders[i][f]]
      BY <1>1, <1>7 DEF WellFormed, IsOrder, Struct
    <2> QED
      BY <2>1
  <1> QED
    BY <1>4, <1>5, <1>6, <1>7, RequestAssumption

Accepted(r) == r \in Requests /\ ~Invalid(r) /\ ~Undigestible(r)

\* Every entry comes from a request.
Traced ==
  /\ nonce \in Nat
  /\ \A c \in Calls :
       \/ posted[c] = Absent
       \/ \E r \in Requests, why \in {"invalid", "undigestible"} : posted[c] = Refused(r, why)
       \/ \E r \in Requests, n \in Nat : Accepted(r) /\ posted[c] = Envelope(r, n)

Inv == posted = [c \in Calls |-> posted[c]] /\ Traced

LEMMA InitTraced == Init => Inv
  BY DEF Init, Inv, Traced

\* Each action writes one entry, of a request.
LEMMA NextTraced == Inv /\ [Next]_vars => Inv'
  <1> SUFFICES ASSUME Inv, [Next]_vars PROVE Inv'
    OBVIOUS
  <1>1. ASSUME NEW c \in Calls, Reject(c) PROVE Inv'
    BY <1>1 DEF Inv, Traced, Reject
  <1>2. ASSUME NEW c \in Calls, FailToSign(c) PROVE Inv'
    BY <1>2 DEF Inv, Traced, FailToSign
  <1>3. ASSUME NEW c \in Calls, Post(c) PROVE Inv'
    BY <1>3 DEF Inv, Traced, Post, Accepted
  <1>4. CASE UNCHANGED vars
    BY <1>4 DEF Inv, Traced, vars
  <1> QED
    BY <1>1, <1>2, <1>3, <1>4 DEF Next

LEMMA AlwaysTraced == Spec => []Inv
  BY InitTraced, NextTraced, PTL DEF Spec

\* An entry that was sent is the envelope of an accepted request.
LEMMA SentIsEnvelope ==
  ASSUME Traced, NEW c \in Calls, Sent(c)
  PROVE  \E r \in Requests, n \in Nat : Accepted(r) /\ posted[c] = Envelope(r, n)
  <1>1. posted[c] # Absent /\ posted[c].ok
    BY DEF Sent
  <1>2. ASSUME NEW r \in Requests, NEW why PROVE posted[c] # Refused(r, why)
    BY <1>1 DEF Refused
  <1> QED
    BY <1>1, <1>2 DEF Traced

-----------------------------------------------------------------------------
(* What is read of a body is what was signed of the payload.               *)

\* The words of a kind that keeps its owner outside the payload do not read it.
LEMMA OwnerNotSigned ==
  ASSUME NEW r \in Requests, r.kind \in BoundKinds, NEW o
  PROVE  Words(r.kind, WithOwner(r.params, o)) = Words(r.kind, r.params)
  <1> DEFINE k == r.kind
             p == r.params
             q == WithOwner(p, o)
  <1>1. Signed(k, p) = Frozen[k] /\ Signed(k, q) = Frozen[k]
    BY DEF Signed, Longer, BoundKinds
  <1>2. /\ Frozen[k] \subseteq DOMAIN p
        /\ Frozen[k] \cap {"owner", "orders", "trail_px", "trail_pxs", "weights",
                           "builder", "trigger"} = {}
    <2>1. Frozen[k] \subseteq DOMAIN p
      BY Admitted
    <2>2. Frozen[k] \in {{"asset", "cloid"}, ModifyFields, {"modifications"}, {"cancels"},
                         {"twap_id"}}
      BY DEF Frozen, BoundKinds
    <2> QED
      BY <2>1, <2>2 DEF ModifyFields
  <1>3. ASSUME NEW f \in Frozen[k] PROVE q[f] = p[f]
    BY <1>2, <1>3 DEF WithOwner
  <1>4. ASSUME NEW f \in Frozen[k] PROVE Word(q, f) = Word(p, f)
    <2>1. f \in {"modifications"} => q.modifications = p.modifications
      BY <1>3
    <2>2. f \in {"cancels"} => q.cancels = p.cancels
      BY <1>3
    <2>3. CASE f = "modifications"
      BY <2>1, <2>3 DEF Word
    <2>4. CASE f = "cancels"
      BY <2>2, <2>4 DEF Word
    <2>5. CASE f \notin {"modifications", "cancels"}
      <3>1. Word(q, f) = Field(q, f) /\ Word(p, f) = Field(p, f)
        BY <1>2, <2>5 DEF Word
      <3>2. Field(q, f) = Field(p, f)
        BY <1>2, <1>3 DEF Field
      <3> QED
        BY <3>1, <3>2
    <2> QED
      BY <2>3, <2>4, <2>5
  <1> QED
    BY <1>1, <1>4 DEF Words

\* A ladder whose weights the node derives signs no weights.
LEMMA WeightsNotSigned ==
  ASSUME NEW p, p = [f \in DOMAIN p |-> p[f]], p.dist # "custom",
         Frozen["scale_order"] \subseteq DOMAIN p
  PROVE  Words("scale_order", [p EXCEPT !.weights = <<>>]) = Words("scale_order", p)
  <1> DEFINE q == [p EXCEPT !.weights = <<>>]
  <1>1. Signed("scale_order", p) = Frozen["scale_order"]
        /\ Signed("scale_order", q) = Frozen["scale_order"]
    BY DEF Signed, Longer
  <1>2. \A f \in DOMAIN p : f # "weights" => q[f] = p[f]
    OBVIOUS
  <1>3. Frozen["scale_order"] \cap {"owner", "orders", "trail_px", "trail_pxs",
                                    "modifications", "cancels", "builder", "trigger"} = {}
    BY DEF Frozen
  <1>4. ASSUME NEW f \in Frozen["scale_order"] PROVE Word(q, f) = Word(p, f)
    <2> "dist" \in Frozen["scale_order"]
      BY DEF Frozen
    <2>1. CASE f = "weights"
      BY <1>2, <2>1 DEF Word
    <2>2. CASE f # "weights"
      <3>1. Word(q, f) = Field(q, f) /\ Word(p, f) = Field(p, f)
        BY <1>3, <2>2 DEF Word
      <3>2. Field(q, f) = Field(p, f)
        BY <1>2, <1>3, <2>2 DEF Field
      <3> QED
        BY <3>1, <3>2
    <2> QED
      BY <2>1, <2>2
  <1> QED
    BY <1>1, <1>4 DEF Words

\* The struct that is signed has the words of the body that is posted.
LEMMA SignedAsPosted ==
  ASSUME NEW r \in Requests
  PROVE  Words(r.kind, Payload(r)) = Words(r.kind, Body(r))
  <1> DEFINE p == r.params
  <1>1. CASE r.via = "as" /\ r.kind \in BoundKinds
    <2>1. Payload(r) = p /\ Body(r) = WithOwner(p, r.owner)
      BY <1>1 DEF Payload, Body, BoundKinds, OwnerKinds
    <2> QED
      BY <2>1, <1>1, OwnerNotSigned
  <1>2. CASE /\ ~(r.via = "as" /\ r.kind \in BoundKinds)
             /\ r.via # "digest" /\ r.kind = "scale_order" /\ p.dist # "custom"
    <2>1. /\ Body(r) = [Payload(r) EXCEPT !.weights = <<>>]
          /\ Payload(r) \in {p, [p EXCEPT !.owner = r.owner]}
      BY <1>2 DEF Payload, Body
    <2>2. p = [f \in DOMAIN p |-> p[f]] /\ Frozen["scale_order"] \subseteq DOMAIN p
      BY <1>2, Admitted
    <2>3. "dist" \in DOMAIN p
      BY <2>2 DEF Frozen
    <2>4. /\ Payload(r) = [f \in DOMAIN Payload(r) |-> Payload(r)[f]]
          /\ DOMAIN Payload(r) = DOMAIN p /\ Payload(r).dist # "custom"
      BY <2>1, <2>2, <2>3, <1>2
    <2> QED
      BY <1>2, <2>1, <2>2, <2>4, WeightsNotSigned
  <1> QED
    BY <1>1, <1>2 DEF Body

\* The owner that is signed is the owner of the body that is posted.
LEMMA OwnerAsPosted ==
  ASSUME NEW r \in Requests, ~SelfSigned(r), r.kind # "batch_order"
  PROVE  EffectiveOwner(r) = OwnerIn(Body(r))
  <1> DEFINE p == r.params
  <1>1. /\ r.kind \in OwnerKinds \cup BoundKinds
        /\ r.kind \in OwnerKinds => r.kind \notin BoundKinds
    BY Admitted DEF Kinds, OwnerKinds, BoundKinds
  <1>2. p = [f \in DOMAIN p |-> p[f]] /\ ("owner" \in DOMAIN p <=> r.kind \notin BoundKinds)
    BY Admitted
  <1>3. CASE r.kind \in OwnerKinds
    <2>1. DOMAIN Payload(r) = DOMAIN p /\ Payload(r) = [f \in DOMAIN p |-> Payload(r)[f]]
      <3>1. Coerced(p) \in {p, [p EXCEPT !.tif = "ioc"]}
        BY DEF Coerced
      <3>2. Payload(r) \in {p, [p EXCEPT !.tif = "ioc"], [p EXCEPT !.owner = r.owner]}
        BY <1>3, <3>1 DEF Payload, OwnerKinds
      <3> QED
        BY <1>2, <3>2
    <2>2. Body(r) \in {Payload(r), [Payload(r) EXCEPT !.weights = <<>>]}
      BY <1>1, <1>3 DEF Body
    <2>3. "owner" \in DOMAIN Body(r) /\ Body(r).owner = Payload(r).owner
      BY <1>1, <1>2, <1>3, <2>1, <2>2
    <2> QED
      BY <1>3, <2>3 DEF EffectiveOwner, OwnerIn
  <1>4. CASE r.kind \in BoundKinds
    <2>1. EffectiveOwner(r) = Bound(r) /\ r.via # "digest" /\ Payload(r) = p
      BY <1>1, <1>4, Admitted DEF EffectiveOwner, Payload, OwnerKinds, BoundKinds
    <2>2. CASE r.via = "as"
      <3>1. Bound(r) = r.owner /\ Body(r) = WithOwner(p, r.owner)
        BY <1>4, <2>1, <2>2 DEF Bound, Body
      <3> QED
        BY <2>1, <3>1 DEF OwnerIn, WithOwner
    <2>3. CASE r.via # "as"
      <3>1. Bound(r) = Absent /\ Body(r) = p
        BY <1>4, <2>1, <2>3 DEF Bound, Body, BoundKinds
      <3> QED
        BY <1>2, <1>4, <2>1, <3>1 DEF OwnerIn
    <2> QED
      BY <2>2, <2>3
  <1> QED
    BY <1>1, <1>3, <1>4

\* An expiry survives the envelope, where zero is left out.
LEMMA ExpiryAsPosted ==
  ASSUME NEW r \in Requests, NEW n
  PROVE  OrElse(Envelope(r, n).expires, 0) = Expires(r)
  BY Admitted DEF Envelope, Expires, OrElse

-----------------------------------------------------------------------------
(* The theorems.                                                           *)

\* What a trading method posts verifies against its own body, for every request:
\* the struct of typed_orders.rs is the one the node rebuilds from the JSON of
\* exchange.rs.
THEOREM PostedVerifies == Spec => []Verifies
  <1>1. Inv => Verifies
    <2> SUFFICES ASSUME Inv, NEW c \in Calls, Sent(c),
                        SelfSigned(posted[c].req) => posted[c].signer = posted[c].body.owner
                 PROVE  Verified(posted[c])
      BY DEF Verifies
    <2>1. PICK r \in Requests, n \in Nat : Accepted(r) /\ posted[c] = Envelope(r, n)
      BY SentIsEnvelope DEF Inv
    <2> DEFINE e == Envelope(r, n)
    <2>2. /\ e.req = r /\ e.kind = r.kind /\ e.body = Body(r) /\ e.nonce = n
          /\ e.digest = Digest(r.kind, Payload(r), EffectiveOwner(r), n, Expires(r))
      BY DEF Envelope
    <2>3. \A o : Rebuilt(e, o) = Digest(r.kind, Payload(r), o, n, Expires(r))
      BY <2>2, ExpiryAsPosted, SignedAsPosted DEF Rebuilt, Digest
    <2>4. CASE SelfSigned(r)
      <3>1. EffectiveOwner(r) = Absent /\ r.kind \in {"submit_order", "cancel_order"}
        BY <2>4 DEF EffectiveOwner, SelfSigned
      <3> QED
        BY <2>1, <2>2, <2>3, <2>4, <3>1 DEF Verified
    <2>5. CASE r.kind = "batch_order"
      <3>1. \A o : Rebuilt(e, o) = e.digest
        BY <2>2, <2>3, <2>5 DEF Digest
      <3> QED
        BY <2>1, <3>1 DEF Verified
    <2>6. CASE ~SelfSigned(r) /\ r.kind # "batch_order"
      BY <2>1, <2>2, <2>3, <2>6, OwnerAsPosted DEF Verified
    <2> QED
      BY <2>4, <2>5, <2>6
  <1> QED
    BY <1>1, AlwaysTraced, PTL

\* An _as method acts for the owner it was given, and any other method for the
\* owner its params name or else for the signer.
THEOREM PostedForAsked == Spec => []ActsForAsked
  <1>1. Inv => ActsForAsked
    <2> SUFFICES ASSUME Inv, NEW c \in Calls, Sent(c)
                 PROVE  Account(posted[c]) =
                          IF posted[c].req.via = "as" THEN posted[c].req.owner
                          ELSE OrElse(OwnerIn(posted[c].req.params), posted[c].req.signer)
      BY DEF ActsForAsked
    <2>1. PICK r \in Requests, n \in Nat : Accepted(r) /\ posted[c] = Envelope(r, n)
      BY SentIsEnvelope DEF Inv
    <2> DEFINE p == r.params
    <2>2. posted[c].req = r /\ Account(posted[c]) = OrElse(OwnerIn(Body(r)), r.signer)
      BY <2>1 DEF Account, Envelope
    <2>3. p = [f \in DOMAIN p |-> p[f]] /\ ("owner" \in DOMAIN p <=> r.kind \notin BoundKinds)
      BY Admitted
    <2>4. CASE r.via = "as"
      <3>1. r.owner # Absent /\ r.kind \in AsKinds
        BY <2>4, Admitted
      <3>2. OwnerIn(Body(r)) = r.owner
        <4>1. CASE r.kind \in BoundKinds
          <5>1. Body(r) = WithOwner(Payload(r), r.owner)
            BY <2>4, <4>1 DEF Body
          <5> QED
            BY <5>1 DEF OwnerIn, WithOwner
        <4>2. CASE r.kind \notin BoundKinds
          <5>1. Payload(r) = [p EXCEPT !.owner = r.owner]
            BY <2>4, <3>1, <4>2 DEF Payload, AsKinds, OwnerKinds, BoundKinds
          <5>2. Body(r) \in {Payload(r), [Payload(r) EXCEPT !.weights = <<>>]}
            BY <4>2 DEF Body
          <5> QED
            BY <2>3, <4>2, <5>1, <5>2 DEF OwnerIn
        <4> QED
          BY <4>1, <4>2
      <3> QED
        BY <2>2, <2>4, <3>1, <3>2 DEF OrElse
    <2>5. CASE r.via # "as"
      <3>1. Payload(r) \in {p, [p EXCEPT !.tif = "ioc"],
                            [p EXCEPT !.orders = [i \in DOMAIN @ |-> Coerced(@[i])]]}
        BY <2>5 DEF Payload, Coerced
      <3>2. Body(r) \in {Payload(r), [Payload(r) EXCEPT !.weights = <<>>]}
        BY <2>5 DEF Body
      <3>3. OwnerIn(Body(r)) = OwnerIn(p)
        BY <2>3, <3>1, <3>2 DEF OwnerIn
      <3> QED
        BY <2>2, <2>5, <3>3
    <2> QED
      BY <2>4, <2>5
  <1> QED
    BY <1>1, AlwaysTraced, PTL

\* A market order is coerced before it is signed.
LEMMA CoercedTakes ==
  ASSUME NEW o, o = [f \in DOMAIN o |-> o[f]], {"kind", "tif"} \subseteq DOMAIN o,
         Coerced(o).kind = "market"
  PROVE  Coerced(o).tif = "ioc"
  BY DEF Coerced

\* No method posts a market order that could rest, or weights that do not fit
\* their ladder, for any order, batch and ladder.
THEOREM PostedFit == Spec => []FitForNode
  <1>1. Inv => FitForNode
    <2> SUFFICES ASSUME Inv, NEW c \in Calls, Sent(c), posted[c].req.via # "digest"
                 PROVE  /\ \A o \in Legs(posted[c]) : o.kind = "market" => o.tif = "ioc"
                        /\ posted[c].kind = "scale_order" =>
                             IF posted[c].body.dist = "custom"
                             THEN Len(posted[c].body.weights) = posted[c].body.n
                             ELSE posted[c].body.weights = <<>>
      BY DEF FitForNode
    <2>1. PICK r \in Requests, n \in Nat : Accepted(r) /\ posted[c] = Envelope(r, n)
      BY SentIsEnvelope DEF Inv
    <2> DEFINE p == r.params
    <2>2. /\ posted[c].kind = r.kind /\ posted[c].body = Body(r) /\ r.via # "digest"
          /\ ~Invalid(r)
      BY <2>1 DEF Envelope, Accepted
    <2>3. p = [f \in DOMAIN p |-> p[f]] /\ Frozen[r.kind] \subseteq DOMAIN p
      BY Admitted
    <2>4. CASE r.kind = "submit_order"
      <3>1. Body(r) = Coerced(p)
        BY <2>2, <2>4 DEF Body, Payload, BoundKinds
      <3>2. {"kind", "tif"} \subseteq DOMAIN p
        BY <2>3, <2>4 DEF Frozen, OrderFields
      <3> QED
        BY <2>2, <2>3, <2>4, <3>1, <3>2, CoercedTakes DEF Legs
    <2>5. CASE r.kind = "batch_order"
      <3>1. Body(r) = [p EXCEPT !.orders = [i \in DOMAIN p.orders |-> Coerced(p.orders[i])]]
        BY <2>2, <2>5 DEF Body, Payload, BoundKinds
      <3>2. Body(r).orders = [i \in DOMAIN p.orders |-> Coerced(p.orders[i])]
        <4>1. "orders" \in DOMAIN p
          BY <2>3, <2>5 DEF Frozen
        <4> QED
          BY <2>3, <3>1, <4>1
      <3>3. ASSUME NEW i \in DOMAIN p.orders, Coerced(p.orders[i]).kind = "market"
            PROVE  Coerced(p.orders[i]).tif = "ioc"
        <4> DEFINE o == p.orders[i]
        <4>1. o = [f \in DOMAIN o |-> o[f]] /\ OrderFields \subseteq DOMAIN o
          BY <2>5, Admitted
        <4>2. {"kind", "tif"} \subseteq DOMAIN o
          BY <4>1 DEF OrderFields
        <4>3. Coerced(o).kind = "market"
          BY <3>3
        <4> HIDE DEF o
        <4>4. Coerced(o).tif = "ioc"
          BY <4>1, <4>2, <4>3, CoercedTakes
        <4> QED
          BY <4>4 DEF o
      <3>4. Legs(posted[c]) = {Coerced(p.orders[i]) : i \in DOMAIN p.orders}
        BY <2>2, <2>5, <3>2 DEF Legs
      <3> QED
        BY <2>2, <2>5, <3>3, <3>4
    <2>6. CASE r.kind = "scale_order"
      <3>1. r.via \in {"method", "as"}
        BY <2>2, <2>6, Admitted
      <3>2. {"dist", "weights", "n", "owner"} \subseteq DOMAIN p
        <4>1. {"dist", "weights", "n"} \subseteq DOMAIN p
          BY <2>3, <2>6 DEF Frozen
        <4>2. "owner" \in DOMAIN p
          BY <2>6, Admitted DEF BoundKinds
        <4> QED
          BY <4>1, <4>2
      <3>3. Payload(r) \in {p, [p EXCEPT !.owner = r.owner]}
        BY <2>6 DEF Payload
      <3>4. Body(r) = IF p.dist # "custom" THEN [Payload(r) EXCEPT !.weights = <<>>]
                      ELSE Payload(r)
        BY <2>2, <2>6 DEF Body, BoundKinds
      <3>5. p.dist = "custom" => Len(p.weights) = p.n
        BY <2>2, <2>6, <3>1 DEF Invalid
      <3>6. Body(r).dist = p.dist /\ Body(r).n = p.n
            /\ Body(r).weights = IF p.dist # "custom" THEN <<>> ELSE p.weights
        BY <2>3, <3>2, <3>3, <3>4
      <3> QED
        BY <2>2, <2>6, <3>5, <3>6 DEF Legs
    <2> QED
      BY <2>2, <2>4, <2>5, <2>6 DEF Legs
  <1> QED
    BY <1>1, AlwaysTraced, PTL

-----------------------------------------------------------------------------
(* One signature, one meaning: the words of a body determine its reading.  *)

\* A body as the words are read off it: a payload, with or without an owner, whose
\* cancels name an oid.
Shaped(k, b) ==
  /\ DOMAIN b \ {"owner"} = PayloadFields(k) \ {"owner"}
  /\ "cloid" \in DOMAIN b => b.cloid # ""
  /\ "position_side" \in DOMAIN b => b.position_side # ""
  /\ k = "submit_order" => IsOrder(b)
  /\ k = "cancel_order" => b.oid # Absent
  /\ k = "twap_order" => b.randomize \in BOOLEAN
  /\ k = "batch_order" => \A i \in DOMAIN b.orders : IsOrder(b.orders[i])
  /\ k = "batch_cancel" =>
       \A i \in DOMAIN b.cancels : IsCancel(b.cancels[i]) /\ b.cancels[i].oid # Absent
  /\ k = "batch_modify" =>
       /\ Struct(DOMAIN b.modifications, b.modifications)
       /\ \A i \in DOMAIN b.modifications : Struct(ModifyFields, b.modifications[i])

\* A word of Field, the trigger's and the weights' aside, tells what is read.
LEMMA FieldRead ==
  ASSUME NEW b, NEW c, NEW f, f \notin {"trigger", "weights"}, Field(b, f) = Field(c, f),
         f \in {"cloid", "position_side"} => b[f] # "" /\ c[f] # ""
  PROVE  ReadField(b, f) = ReadField(c, f)
  <1>1. CASE f \in {"new_px", "new_size"}
    <2>1. <<b[f] # Absent, OrElse(b[f], 0)>> = <<c[f] # Absent, OrElse(c[f], 0)>>
      BY <1>1 DEF Field
    <2>2. (b[f] # Absent) = (c[f] # Absent) /\ OrElse(b[f], 0) = OrElse(c[f], 0)
      BY <2>1
    <2> QED
      BY <1>1, <2>2 DEF ReadField, OrElse
  <1>2. CASE f \in {"cloid", "position_side"}
    BY <1>2 DEF Field, ReadField, OrElse
  <1>3. CASE f = "builder"
    BY <1>3 DEF Field, ReadField
  <1>4. CASE f \notin {"new_px", "new_size", "cloid", "position_side", "builder", "trigger",
                       "weights"}
    BY <1>4 DEF Field, ReadField
  <1> QED
    BY <1>1, <1>2, <1>3, <1>4

\* The words of a trigger and of its callback tell the trigger.
LEMMA TriggerRead ==
  ASSUME NEW b, NEW c, IsOrder(b), IsOrder(c), Field(b, "trigger") = Field(c, "trigger"),
         TrailOf(b) = TrailOf(c)
  PROVE  b.trigger = c.trigger
  <1> DEFINE w(t) == [n \in {"trigger_px", "is_market", "tpsl"} |-> t[n]]
  <1>1. \A o : IsOrder(o) => o.trigger = Absent \/ IsTrigger(o.trigger)
    BY DEF IsOrder
  <1>2. \A o : Field(o, "trigger") = IF o.trigger = Absent THEN NoTrigger ELSE w(o.trigger)
    BY DEF Field
  <1>3. ASSUME NEW t, IsTrigger(t) PROVE w(t) # NoTrigger
    BY <1>3 DEF IsTrigger, NoTrigger
  <1>4. ASSUME NEW t, NEW u, IsTrigger(t), IsTrigger(u), w(t) = w(u), t.trail_px = u.trail_px
        PROVE  t = u
    <2>1. t.trigger_px = u.trigger_px /\ t.is_market = u.is_market /\ t.tpsl = u.tpsl
      <3>1. w(t)["trigger_px"] = w(u)["trigger_px"] /\ w(t)["is_market"] = w(u)["is_market"]
            /\ w(t)["tpsl"] = w(u)["tpsl"]
        BY <1>4
      <3> QED
        BY <3>1
    <2> QED
      BY <1>4, <2>1 DEF IsTrigger, Struct
  <1> HIDE DEF w
  <1> QED
    BY <1>1, <1>2, <1>3, <1>4 DEF TrailOf

\* The words of an order tell the order, its owner aside.
LEMMA OrderRead ==
  ASSUME NEW b, NEW c, IsOrder(b), IsOrder(c), TrailOf(b) = TrailOf(c),
         \A f \in OrderFields : Field(b, f) = Field(c, f)
  PROVE  ReadBut(b, {"owner"}) = ReadBut(c, {"owner"})
  <1>1. DOMAIN b \ {"owner"} = OrderFields /\ DOMAIN c \ {"owner"} = OrderFields
    <2>1. "owner" \notin OrderFields
      BY DEF OrderFields
    <2>2. DOMAIN b = OrderFields \cup {"owner"} /\ DOMAIN c = OrderFields \cup {"owner"}
      BY DEF IsOrder, Struct
    <2> QED
      BY <2>1, <2>2
  <1>2. ASSUME NEW f \in OrderFields PROVE ReadField(b, f) = ReadField(c, f)
    <2>1. CASE f = "trigger"
      <3>1. "trigger" \in OrderFields
        BY DEF OrderFields
      <3> QED
        BY <2>1, <3>1, TriggerRead DEF ReadField
    <2>2. CASE f # "trigger"
      <3>1. f # "weights"
        BY DEF OrderFields
      <3>2. f \in {"cloid", "position_side"} => b[f] # "" /\ c[f] # ""
        BY DEF IsOrder
      <3> QED
        BY <2>2, <3>1, <3>2, FieldRead
    <2> QED
      BY <2>1, <2>2
  <1> QED
    BY <1>1, <1>2 DEF ReadBut

\* Alike words have one domain and agree on it.
LEMMA WordsAlike ==
  ASSUME NEW k, NEW b, NEW c, Words(k, b) = Words(k, c)
  PROVE  Signed(k, b) = Signed(k, c) /\ \A f \in Signed(k, b) : Word(b, f) = Word(c, f)
  <1>1. DOMAIN Words(k, b) = Signed(k, b) /\ DOMAIN Words(k, c) = Signed(k, c)
    BY DEF Words
  <1>2. ASSUME NEW f \in Signed(k, b) PROVE Word(b, f) = Word(c, f)
    <2>1. Words(k, b)[f] = Word(b, f) /\ Words(k, c)[f] = Word(c, f)
      BY <1>1 DEF Words
    <2> QED
      BY <2>1
  <1> QED
    BY <1>1, <1>2

\* A body that is read field by field.
LEMMA PlainRead ==
  ASSUME NEW k \in Kinds \ {"batch_order", "batch_cancel"}, NEW b, NEW c,
         Shaped(k, b), Shaped(k, c),
         \A f \in PayloadFields(k) \ {"owner"} : ReadField(b, f) = ReadField(c, f)
  PROVE  Reading(k, b) = Reading(k, c)
  <1>1. Reading(k, b) = ReadBut(b, {"owner"}) /\ Reading(k, c) = ReadBut(c, {"owner"})
    BY DEF Reading
  <1>2. ReadBut(b, {"owner"}) = ReadBut(c, {"owner"})
    BY DEF Shaped, ReadBut
  <1> QED
    BY <1>1, <1>2

LEMMA SubmitRead ==
  ASSUME NEW b, NEW c, Shaped("submit_order", b), Shaped("submit_order", c),
         Words("submit_order", b) = Words("submit_order", c)
  PROVE  Reading("submit_order", b) = Reading("submit_order", c)
  <1> DEFINE k == "submit_order"
  <1>1. Signed(k, b) = Signed(k, c) /\ \A f \in Signed(k, b) : Word(b, f) = Word(c, f)
    BY WordsAlike
  <1>2. \A o : Signed(k, o) = OrderFields \cup (IF TrailOf(o) # Absent THEN {"trail_px"} ELSE {})
    BY DEF Signed, Frozen, Longer
  <1>3. "trail_px" \notin OrderFields
    BY DEF OrderFields
  <1>4. TrailOf(b) = TrailOf(c)
    <2>1. CASE TrailOf(b) = Absent
      BY <1>1, <1>2, <1>3, <2>1
    <2>2. CASE TrailOf(b) # Absent
      <3>1. Word(b, "trail_px") = Word(c, "trail_px")
        BY <1>1, <1>2, <2>2
      <3> QED
        BY <3>1 DEF Word
    <2> QED
      BY <2>1, <2>2
  <1>5. ASSUME NEW f \in OrderFields PROVE Field(b, f) = Field(c, f)
    <2>1. \A o : Word(o, f) = Field(o, f)
      BY DEF Word, OrderFields
    <2> QED
      BY <1>1, <1>2, <2>1
  <1>6. ReadBut(b, {"owner"}) = ReadBut(c, {"owner"})
    BY <1>4, <1>5, OrderRead DEF Shaped
  <1> QED
    BY <1>6 DEF Reading

\* The hash of a batch tells its legs apart, one by one.
LEMMA ItemsAlike ==
  ASSUME NEW s, NEW t, NEW fields, Items(s, fields) = Items(t, fields)
  PROVE  /\ DOMAIN s = DOMAIN t
         /\ \A i \in DOMAIN s : \A f \in fields : Field(s[i], f) = Field(t[i], f)
  <1>1. DOMAIN Items(s, fields) = DOMAIN s /\ DOMAIN Items(t, fields) = DOMAIN t
    BY DEF Items
  <1>2. ASSUME NEW i \in DOMAIN s, NEW f \in fields PROVE Field(s[i], f) = Field(t[i], f)
    <2>1. Items(s, fields)[i] = [n \in fields |-> Field(s[i], n)]
          /\ Items(t, fields)[i] = [n \in fields |-> Field(t[i], n)]
      BY <1>1 DEF Items
    <2>2. Items(s, fields)[i][f] = Field(s[i], f) /\ Items(t, fields)[i][f] = Field(t[i], f)
      BY <2>1
    <2> QED
      BY <2>2
  <1> QED
    BY <1>1, <1>2

LEMMA BatchOrderRead ==
  ASSUME NEW b, NEW c, Shaped("batch_order", b), Shaped("batch_order", c),
         Words("batch_order", b) = Words("batch_order", c)
  PROVE  Reading("batch_order", b) = Reading("batch_order", c)
  <1> DEFINE k == "batch_order"
             trailed(o) == \E i \in DOMAIN o.orders : TrailOf(o.orders[i]) # Absent
             pair(t) == <<t # Absent, OrElse(t, 0)>>
  <1>1. Signed(k, b) = Signed(k, c) /\ \A f \in Signed(k, b) : Word(b, f) = Word(c, f)
    BY WordsAlike
  <1>2. \A o : Signed(k, o) = {"owner", "orders", "grouping"}
                               \cup (IF trailed(o) THEN {"trail_pxs"} ELSE {})
    BY DEF Signed, Frozen, Longer
  <1>3. trailed(b) <=> trailed(c)
    <2>1. \A o : trailed(o) <=> "trail_pxs" \in Signed(k, o)
      <3> HIDE DEF trailed
      <3> QED
        BY <1>2
    <2> QED
      BY <1>1, <2>1
  <1>4. Items(b.orders, OrderFields) = Items(c.orders, OrderFields) /\ b.grouping = c.grouping
    <2>1. Word(b, "orders") = Word(c, "orders") /\ Word(b, "grouping") = Word(c, "grouping")
      BY <1>1, <1>2
    <2> QED
      BY <2>1 DEF Word, Field
  <1>5. /\ DOMAIN b.orders = DOMAIN c.orders
        /\ \A i \in DOMAIN b.orders :
             \A f \in OrderFields : Field(b.orders[i], f) = Field(c.orders[i], f)
    BY <1>4, ItemsAlike
  <1>6. ASSUME NEW i \in DOMAIN b.orders PROVE TrailOf(b.orders[i]) = TrailOf(c.orders[i])
    <2>1. CASE ~trailed(b)
      BY <1>3, <1>5, <1>6, <2>1
    <2>2. CASE trailed(b)
      <3>1. Word(b, "trail_pxs") = Word(c, "trail_pxs")
        <4> HIDE DEF trailed
        <4> QED
          BY <1>1, <1>2, <2>2
      <3>2. [j \in DOMAIN b.orders |-> pair(TrailOf(b.orders[j]))]
            = [j \in DOMAIN c.orders |-> pair(TrailOf(c.orders[j]))]
        BY <3>1 DEF Word
      <3>3. pair(TrailOf(b.orders[i])) = pair(TrailOf(c.orders[i]))
        <4> HIDE DEF pair
        <4> QED
          BY <3>2, <1>5
      <3>4. ASSUME NEW t, NEW u, pair(t) = pair(u) PROVE t = u
        <4>1. (t # Absent) = (u # Absent) /\ OrElse(t, 0) = OrElse(u, 0)
          BY <3>4
        <4> QED
          BY <4>1 DEF OrElse
      <3> HIDE DEF pair
      <3> QED
        BY <3>3, <3>4
    <2> QED
      BY <2>1, <2>2
  <1>7. ASSUME NEW i \in DOMAIN b.orders
        PROVE  ReadBut(b.orders[i], {"owner"}) = ReadBut(c.orders[i], {"owner"})
    <2>1. IsOrder(b.orders[i]) /\ IsOrder(c.orders[i])
      BY <1>5, <1>7 DEF Shaped
    <2> QED
      BY <1>5, <1>6, <2>1, OrderRead
  <1> QED
    BY <1>4, <1>5, <1>7 DEF Reading

LEMMA BatchCancelRead ==
  ASSUME NEW b, NEW c, Shaped("batch_cancel", b), Shaped("batch_cancel", c),
         NamesOnce("batch_cancel", b), NamesOnce("batch_cancel", c),
         Words("batch_cancel", b) = Words("batch_cancel", c)
  PROVE  Reading("batch_cancel", b) = Reading("batch_cancel", c)
  <1> DEFINE k == "batch_cancel"
  <1>1. Signed(k, b) = Signed(k, c) /\ \A f \in Signed(k, b) : Word(b, f) = Word(c, f)
    BY WordsAlike
  <1>2. Signed(k, b) = {"cancels"}
    BY DEF Signed, Frozen, Longer
  <1>3. Items(b.cancels, CancelFields) = Items(c.cancels, CancelFields)
    BY <1>1, <1>2 DEF Word
  <1>4. /\ DOMAIN b.cancels = DOMAIN c.cancels
        /\ \A i \in DOMAIN b.cancels :
             \A f \in CancelFields : Field(b.cancels[i], f) = Field(c.cancels[i], f)
    BY <1>3, ItemsAlike
  <1>5. ASSUME NEW x, NEW y, IsCancel(x), IsCancel(y), x.oid # Absent, y.oid # Absent,
               OneName(x), OneName(y),
               \A f \in CancelFields : Field(x, f) = Field(y, f)
        PROVE  ReadBut(x, {"owner"}) = ReadBut(y, {"owner"})
    <2>1. DOMAIN x = {"market", "oid", "owner", "cloid"} /\ DOMAIN y = DOMAIN x
      BY <1>5 DEF IsCancel, Struct, CancelFields
    <2>2. x.cloid = y.cloid
      BY <1>5 DEF OneName
    <2>3. x.market = y.market /\ x.oid = y.oid
      <3>1. Field(x, "market") = Field(y, "market") /\ Field(x, "oid") = Field(y, "oid")
        BY <1>5 DEF CancelFields
      <3> QED
        BY <3>1 DEF Field
    <2>4. \A f \in DOMAIN x \ {"owner"} : ReadField(x, f) = ReadField(y, f)
      BY <2>1, <2>2, <2>3 DEF ReadField
    <2> QED
      BY <2>1, <2>4 DEF ReadBut
  <1>6. ASSUME NEW i \in DOMAIN b.cancels
        PROVE  ReadBut(b.cancels[i], {"owner"}) = ReadBut(c.cancels[i], {"owner"})
    <2>1. /\ IsCancel(b.cancels[i]) /\ IsCancel(c.cancels[i])
          /\ b.cancels[i].oid # Absent /\ c.cancels[i].oid # Absent
          /\ OneName(b.cancels[i]) /\ OneName(c.cancels[i])
      BY <1>4, <1>6 DEF Shaped, NamesOnce
    <2> QED
      BY <1>4, <1>5, <1>6, <2>1
  <1> QED
    BY <1>4, <1>6 DEF Reading

LEMMA BatchModifyRead ==
  ASSUME NEW b, NEW c, Shaped("batch_modify", b), Shaped("batch_modify", c),
         Words("batch_modify", b) = Words("batch_modify", c)
  PROVE  Reading("batch_modify", b) = Reading("batch_modify", c)
  <1> DEFINE k == "batch_modify"
             s == b.modifications
             t == c.modifications
  <1>1. Signed(k, b) = Signed(k, c) /\ \A f \in Signed(k, b) : Word(b, f) = Word(c, f)
    BY WordsAlike
  <1>2. Signed(k, b) = {"modifications"} /\ PayloadFields(k) \ {"owner"} = {"modifications"}
    BY DEF Signed, Frozen, Longer, PayloadFields, BoundKinds
  <1>3. Items(s, ModifyFields) = Items(t, ModifyFields)
    BY <1>1, <1>2 DEF Word
  <1>4. /\ DOMAIN s = DOMAIN t
        /\ \A i \in DOMAIN s : \A f \in ModifyFields : Field(s[i], f) = Field(t[i], f)
    BY <1>3, ItemsAlike
  <1>5. /\ s = [i \in DOMAIN s |-> s[i]] /\ t = [i \in DOMAIN t |-> t[i]]
        /\ \A i \in DOMAIN s : s[i] = [f \in ModifyFields |-> s[i][f]]
        /\ \A i \in DOMAIN t : t[i] = [f \in ModifyFields |-> t[i][f]]
    BY DEF Shaped, Struct
  <1> HIDE DEF s, t
  <1>6. ASSUME NEW i \in DOMAIN s PROVE s[i] = t[i]
    <2>1. ASSUME NEW f \in ModifyFields PROVE s[i][f] = t[i][f]
      <3>1. Field(s[i], f) = Field(t[i], f)
        BY <1>4, <1>6, <2>1
      <3>2. f \notin {"trigger", "weights", "cloid", "position_side", "builder"}
        BY <2>1 DEF ModifyFields
      <3>3. ReadField(s[i], f) = ReadField(t[i], f)
        BY <3>1, <3>2, FieldRead
      <3> QED
        BY <3>2, <3>3 DEF ReadField
    <2> QED
      BY <1>4, <1>5, <1>6, <2>1
  <1>7. s = t
    BY <1>4, <1>5, <1>6
  <1>8. ReadField(b, "modifications") = ReadField(c, "modifications")
    BY <1>7 DEF ReadField, s, t
  <1>9. k \in Kinds \ {"batch_order", "batch_cancel"}
    BY DEF Kinds, BoundKinds
  <1> QED
    BY <1>2, <1>8, <1>9, PlainRead

\* Derived weights are read as none, and a custom ladder signs its own.
LEMMA ScaleRead ==
  ASSUME NEW b, NEW c, Shaped("scale_order", b), Shaped("scale_order", c),
         Words("scale_order", b) = Words("scale_order", c)
  PROVE  Reading("scale_order", b) = Reading("scale_order", c)
  <1> DEFINE k == "scale_order"
  <1>1. Signed(k, b) = Signed(k, c) /\ \A f \in Signed(k, b) : Word(b, f) = Word(c, f)
    BY WordsAlike
  <1>2. Signed(k, b) = Frozen[k] /\ PayloadFields(k) \ {"owner"} = Frozen[k]
    BY DEF Signed, Frozen, Longer, PayloadFields, BoundKinds
  <1>3. b.dist = c.dist
    <2>1. "dist" \in Frozen[k]
      BY DEF Frozen
    <2>2. Word(b, "dist") = Word(c, "dist")
      BY <1>1, <1>2, <2>1
    <2> QED
      BY <2>2 DEF Word, Field
  <1>4. ASSUME NEW f \in Frozen[k] PROVE ReadField(b, f) = ReadField(c, f)
    <2>1. Word(b, f) = Word(c, f)
      BY <1>1, <1>2, <1>4
    <2>2. CASE f = "weights"
      BY <1>3, <2>1, <2>2 DEF Word, ReadField
    <2>3. CASE f # "weights"
      <3>1. f \notin {"trigger", "orders", "modifications", "cancels", "trail_px", "trail_pxs"}
        BY DEF Frozen
      <3>2. Field(b, f) = Field(c, f)
        BY <2>1, <2>3, <3>1 DEF Word
      <3>3. f \in {"cloid", "position_side"} => b[f] # "" /\ c[f] # ""
        <4>1. f \in DOMAIN b /\ f \in DOMAIN c
          BY <1>2 DEF Shaped
        <4> QED
          BY <4>1 DEF Shaped
      <3> QED
        BY <2>3, <3>1, <3>2, <3>3, FieldRead
    <2> QED
      BY <2>2, <2>3
  <1>5. k \in Kinds \ {"batch_order", "batch_cancel"}
    BY DEF Kinds, OwnerKinds
  <1> QED
    BY <1>2, <1>4, <1>5, PlainRead

\* The kinds whose words are their fields, one by one.
SimpleKinds == {"cancel_order", "spot_order", "spot_cancel", "cancel_by_cloid", "modify",
                "schedule_cancel", "twap_order", "twap_cancel", "cancel_scale",
                "chase_order", "cancel_chase"}

\* The longer type strings of a TWAP tell what the shorter ones leave out.
LEMMA TwapRead ==
  ASSUME NEW b, NEW c, Shaped("twap_order", b), Shaped("twap_order", c),
         Words("twap_order", b) = Words("twap_order", c)
  PROVE  b.position_side = c.position_side /\ b.randomize = c.randomize
  <1> DEFINE k == "twap_order"
  <1>1. Signed(k, b) = Signed(k, c) /\ \A f \in Signed(k, b) : Word(b, f) = Word(c, f)
    BY WordsAlike
  <1>2. ASSUME NEW o
        PROVE  /\ "randomize" \in Signed(k, o) <=> o.randomize
               /\ "position_side" \in Signed(k, o) <=> o.randomize \/ o.position_side # Absent
    BY DEF Signed, Frozen, Longer
  <1>3. b.randomize = c.randomize
    <2>1. b.randomize <=> c.randomize
      BY <1>1, <1>2
    <2> QED
      BY <2>1 DEF Shaped
  <1>4. {"position_side", "randomize"} \subseteq DOMAIN b \cap DOMAIN c
    BY DEF Shaped, PayloadFields, BoundKinds
  <1>5. b.position_side # "" /\ c.position_side # ""
    BY <1>4 DEF Shaped
  <1>6. CASE "position_side" \in Signed(k, b)
    <2>1. Word(b, "position_side") = Word(c, "position_side")
      BY <1>1, <1>6
    <2> QED
      BY <1>3, <1>5, <2>1 DEF Word, Field, OrElse
  <1>7. CASE "position_side" \notin Signed(k, b)
    BY <1>1, <1>2, <1>3, <1>7
  <1> QED
    BY <1>6, <1>7

LEMMA SimpleRead ==
  ASSUME NEW k \in SimpleKinds, NEW b, NEW c, Shaped(k, b), Shaped(k, c),
         NamesOnce(k, b), NamesOnce(k, c), Words(k, b) = Words(k, c)
  PROVE  Reading(k, b) = Reading(k, c)
  <1>1. Signed(k, b) = Signed(k, c) /\ \A f \in Signed(k, b) : Word(b, f) = Word(c, f)
    BY WordsAlike
  <1>2. Frozen[k] \subseteq Signed(k, b)
    BY DEF Signed
  <1>3. Frozen[k] \cap {"trigger", "weights", "orders", "modifications", "cancels",
                        "trail_px", "trail_pxs", "owner"} = {}
    <2>1. CASE k \in {"cancel_order", "spot_order", "spot_cancel", "cancel_by_cloid", "modify"}
      BY <2>1 DEF Frozen, CancelFields, ModifyFields
    <2>2. CASE k \in {"schedule_cancel", "twap_order", "twap_cancel", "cancel_scale",
                      "chase_order", "cancel_chase"}
      BY <2>2 DEF Frozen
    <2> QED
      BY <2>1, <2>2 DEF SimpleKinds
  <1>4. PayloadFields(k) \ {"owner"} =
          Frozen[k] \cup (CASE k = "cancel_order" -> {"cloid"}
                            [] k = "twap_order" -> {"position_side", "randomize"}
                            [] OTHER -> {})
    BY <1>3 DEF PayloadFields
  <1>5. ASSUME NEW f \in Frozen[k] PROVE ReadField(b, f) = ReadField(c, f)
    <2>1. Field(b, f) = Field(c, f)
      <3>1. Word(b, f) = Word(c, f)
        BY <1>1, <1>2, <1>5
      <3> QED
        BY <1>3, <1>5, <3>1 DEF Word
    <2>2. f \in {"cloid", "position_side"} => b[f] # "" /\ c[f] # ""
      <3>1. f \in DOMAIN b /\ f \in DOMAIN c
        BY <1>3, <1>4, <1>5 DEF Shaped
      <3> QED
        BY <3>1 DEF Shaped
    <2> QED
      BY <1>3, <1>5, <2>1, <2>2, FieldRead
  <1>6. ASSUME NEW f \in PayloadFields(k) \ {"owner"}, f \notin Frozen[k]
        PROVE  ReadField(b, f) = ReadField(c, f)
    <2>1. CASE k = "cancel_order"
      BY <1>4, <1>6, <2>1 DEF Shaped, NamesOnce, OneName, ReadField
    <2>2. CASE k = "twap_order"
      BY <1>4, <1>6, <2>2, TwapRead DEF ReadField
    <2>3. CASE k \notin {"cancel_order", "twap_order"}
      BY <1>4, <1>6, <2>3
    <2> QED
      BY <2>1, <2>2, <2>3
  <1>7. k \in Kinds \ {"batch_order", "batch_cancel"}
    BY DEF SimpleKinds, Kinds, OwnerKinds, BoundKinds
  <1> QED
    BY <1>5, <1>6, <1>7, PlainRead

\* Two bodies of one kind with the same words ask the same.
LEMMA OneReading ==
  ASSUME NEW k \in Kinds, NEW b, NEW c, Shaped(k, b), Shaped(k, c),
         NamesOnce(k, b), NamesOnce(k, c), Words(k, b) = Words(k, c)
  PROVE  Reading(k, b) = Reading(k, c)
  <1>1. k \in SimpleKinds \cup {"submit_order", "batch_order", "batch_cancel", "batch_modify",
                                "scale_order"}
    BY DEF Kinds, OwnerKinds, BoundKinds, SimpleKinds
  <1> QED
    BY <1>1, SubmitRead, BatchOrderRead, BatchCancelRead, BatchModifyRead, ScaleRead, SimpleRead

\* What the types admit, less what the digest refuses, can be read off its words.
LEMMA ParamsShaped ==
  ASSUME NEW r, Accepted(r)
  PROVE  Shaped(r.kind, r.params)
  <1> DEFINE k == r.kind
             p == r.params
  <1>1. r \in Requests /\ WellFormed(k, p)
    BY RequestAssumption DEF Accepted
  <1>2. DOMAIN p = PayloadFields(k)
    BY <1>1 DEF WellFormed, Struct
  <1>3. /\ k = "cancel_order" => p.oid # Absent
        /\ k = "batch_cancel" => \A i \in DOMAIN p.cancels : p.cancels[i].oid # Absent
    BY DEF Accepted, Undigestible
  <1> QED
    BY <1>1, <1>2, <1>3 DEF WellFormed, Shaped

\* Another owner, or derived weights, leave the shape of all but orders and batches.
LEMMA ShapedAgain ==
  ASSUME NEW k \in Kinds \ {"submit_order", "batch_order"}, NEW p, NEW q, Shaped(k, p),
         DOMAIN q \ {"owner"} = DOMAIN p \ {"owner"},
         \A f \in DOMAIN q \ {"owner", "weights"} : q[f] = p[f]
  PROVE  Shaped(k, q)
  <1>1. DOMAIN q \ {"owner"} = PayloadFields(k) \ {"owner"}
    BY DEF Shaped
  <1>2. \A f \in PayloadFields(k) \ {"owner", "weights"} : q[f] = p[f]
    BY <1>1
  <1>3. /\ "cloid" \in DOMAIN q => "cloid" \in DOMAIN p /\ q.cloid = p.cloid
        /\ "position_side" \in DOMAIN q =>
             "position_side" \in DOMAIN p /\ q.position_side = p.position_side
    OBVIOUS
  <1>4. /\ k = "cancel_order" => q.oid = p.oid
        /\ k = "twap_order" => q.randomize = p.randomize
    BY <1>2 DEF PayloadFields, Frozen, CancelFields
  <1>5. /\ k = "batch_cancel" => q.cancels = p.cancels
        /\ k = "batch_modify" => q.modifications = p.modifications
    BY <1>2 DEF PayloadFields, Frozen
  <1> QED
    BY <1>1, <1>3, <1>4, <1>5 DEF Shaped

LEMMA CoercedOrder ==
  ASSUME NEW o, IsOrder(o)
  PROVE  IsOrder(Coerced(o))
  <1> DEFINE q == [o EXCEPT !.tif = "ioc"]
  <1>1. o = [f \in OrderFields \cup {"owner"} |-> o[f]]
    BY DEF IsOrder, Struct
  <1>2. {"cloid", "position_side", "trigger"} \subseteq OrderFields
    BY DEF OrderFields
  <1>3. /\ q = [f \in OrderFields \cup {"owner"} |-> q[f]]
        /\ q.cloid = o.cloid /\ q.position_side = o.position_side /\ q.trigger = o.trigger
    BY <1>1, <1>2
  <1>4. IsOrder(q)
    BY <1>3 DEF IsOrder, Struct
  <1> QED
    BY <1>4 DEF Coerced

\* The body that is posted can be read off the words that are signed.
LEMMA BodyShaped ==
  ASSUME NEW r, Accepted(r)
  PROVE  Shaped(r.kind, Body(r))
  <1> DEFINE k == r.kind
             p == r.params
  <1>1. r \in Requests /\ WellFormed(k, p) /\ Shaped(k, p) /\ k \in Kinds
    BY ParamsShaped, RequestAssumption DEF Accepted
  <1>2. p = [f \in PayloadFields(k) |-> p[f]]
    BY <1>1 DEF WellFormed, Struct
  <1>3. CASE k = "submit_order"
    <2>1. Body(r) = IF r.via = "digest" THEN p ELSE Coerced(p)
      BY <1>3 DEF Body, Payload, BoundKinds
    <2>2. Coerced(p) \in {p, [p EXCEPT !.tif = "ioc"]} /\ IsOrder(Coerced(p))
      BY <1>1, <1>3, CoercedOrder DEF Coerced, Shaped
    <2>3. Shaped(k, Coerced(p))
      <3>1. DOMAIN Coerced(p) = DOMAIN p
        BY <2>2
      <3> QED
        BY <1>1, <1>3, <2>2, <3>1 DEF Shaped, IsOrder
    <2> QED
      BY <1>1, <2>1, <2>3
  <1>4. CASE k = "batch_order"
    <2> DEFINE q == [p EXCEPT !.orders = [i \in DOMAIN p.orders |-> Coerced(p.orders[i])]]
    <2>1. Body(r) \in {p, q}
      BY <1>4 DEF Body, Payload, BoundKinds
    <2>2. PayloadFields(k) = {"owner", "orders", "grouping"}
      BY <1>4 DEF PayloadFields, Frozen, BoundKinds
    <2>3. DOMAIN q = DOMAIN p /\ q.orders = [i \in DOMAIN p.orders |-> Coerced(p.orders[i])]
      BY <1>2, <2>2
    <2>4. \A i \in DOMAIN p.orders : IsOrder(Coerced(p.orders[i]))
      BY <1>1, <1>4, CoercedOrder DEF Shaped
    <2>5. Shaped(k, q)
      <3> HIDE DEF q
      <3>1. DOMAIN q = {"owner", "orders", "grouping"}
        BY <1>2, <2>2, <2>3
      <3>2. \A i \in DOMAIN q.orders : IsOrder(q.orders[i])
        BY <2>3, <2>4
      <3> QED
        BY <1>4, <2>2, <3>1, <3>2 DEF Shaped
    <2> QED
      BY <1>1, <2>1, <2>5
  <1>5. CASE k \in BoundKinds
    <2>1. Payload(r) = p
      BY <1>1, <1>5, RequestAssumption DEF Payload, BoundKinds, OwnerKinds
    <2>2. Body(r) \in {p, WithOwner(p, r.owner)}
      BY <1>5, <2>1 DEF Body, BoundKinds
    <2>3. Shaped(k, WithOwner(p, r.owner))
      <3> DEFINE q == WithOwner(p, r.owner)
      <3>1. DOMAIN q \ {"owner"} = DOMAIN p \ {"owner"}
            /\ \A f \in DOMAIN q \ {"owner"} : q[f] = p[f]
        BY DEF WithOwner
      <3>2. k \in Kinds \ {"submit_order", "batch_order"}
        BY <1>5 DEF Kinds, BoundKinds
      <3> HIDE DEF q
      <3>3. Shaped(k, q)
        BY <1>1, <3>1, <3>2, ShapedAgain
      <3> QED
        BY <3>3 DEF q
    <2> QED
      BY <1>1, <2>2, <2>3
  <1>6. CASE k \in OwnerKinds \ {"submit_order"}
    <2>1. Payload(r) \in {p, [p EXCEPT !.owner = r.owner]}
      BY <1>6 DEF Payload, OwnerKinds
    <2>2. Body(r) \in {Payload(r), [Payload(r) EXCEPT !.weights = <<>>]}
      BY <1>6 DEF Body, OwnerKinds, BoundKinds
    <2>3. /\ DOMAIN Body(r) = DOMAIN p
          /\ \A f \in DOMAIN p \ {"owner", "weights"} : Body(r)[f] = p[f]
      BY <1>2, <2>1, <2>2
    <2>4. k \in Kinds \ {"submit_order", "batch_order"}
      BY <1>6 DEF Kinds, OwnerKinds
    <2> QED
      BY <1>1, <2>3, <2>4, ShapedAgain
  <1> QED
    BY <1>1, <1>3, <1>4, <1>5, <1>6 DEF Kinds

\* Whom an action is for follows from the owner that is signed, or from the signer
\* where the owner-less form verifies.
LEMMA OwnerRead ==
  ASSUME NEW r, Accepted(r), NEW n \in Nat, Verified(Envelope(r, n)), r.kind # "batch_order"
  PROVE  Account(Envelope(r, n)) =
           IF Envelope(r, n).digest.owner = Absent THEN r.signer
           ELSE Envelope(r, n).digest.owner
  <1> DEFINE e == Envelope(r, n)
  <1>1. r \in Requests
    BY DEF Accepted
  <1>2. /\ e.kind = r.kind /\ e.body = Body(r) /\ e.signer = r.signer
        /\ e.digest.owner = EffectiveOwner(r)
    BY DEF Envelope, Digest
  <1>3. \A o : Rebuilt(e, o).owner = o
    BY <1>2 DEF Rebuilt, Digest
  <1>4. CASE SelfSigned(r)
    <2>1. EffectiveOwner(r) = Absent /\ r.kind \in {"submit_order", "cancel_order"}
          /\ r.via = "digest"
      BY <1>1, <1>4, RequestAssumption DEF EffectiveOwner, SelfSigned
    <2>2. Body(r) = r.params
      BY <2>1 DEF Body, Payload
    <2>3. "owner" \in DOMAIN r.params /\ r.params.owner # Absent
      <3>1. WellFormed(r.kind, r.params)
        BY <1>1, RequestAssumption
      <3>2. "owner" \in DOMAIN r.params
        BY <1>1, <2>1, Admitted DEF BoundKinds
      <3> QED
        BY <2>1, <3>1, <3>2 DEF WellFormed
    <2>4. OwnerIn(e.body) = r.params.owner
      BY <1>2, <2>2, <2>3 DEF OwnerIn
    <2>5. e.digest # Rebuilt(e, OwnerIn(e.body))
      BY <1>2, <1>3, <2>1, <2>3, <2>4
    <2>6. e.signer = e.body.owner
      BY <2>5 DEF Verified
    <2> QED
      BY <1>2, <2>1, <2>2, <2>3, <2>4, <2>6 DEF Account, OrElse
  <1>5. CASE ~SelfSigned(r)
    <2>1. EffectiveOwner(r) = OwnerIn(Body(r))
      BY <1>1, <1>5, OwnerAsPosted
    <2> QED
      BY <1>2, <2>1 DEF Account, OrElse
  <1> QED
    BY <1>4, <1>5

\* Two signatures of one signer that verify, and are equal but for the nonce, ask
\* the same for the same account: presence, zero forms, the longer type strings, the
\* flat hashes of batches and the owner-less form merge no two actions, unless a cancel
\* names its order twice.
THEOREM OneMeaning == Spec => []SignedMeansOne
  <1>1. Inv => SignedMeansOne
    <2> SUFFICES ASSUME Inv, NEW c \in Calls, NEW d \in Calls, Sent(c), Sent(d),
                        NamesOnce(posted[c].kind, posted[c].body),
                        NamesOnce(posted[d].kind, posted[d].body),
                        Verified(posted[c]), Verified(posted[d]),
                        posted[c].signer = posted[d].signer, posted[c].kind = posted[d].kind,
                        posted[c].digest = [posted[d].digest EXCEPT !.nonce = posted[c].nonce]
                 PROVE  /\ Reading(posted[c].kind, posted[c].body)
                             = Reading(posted[d].kind, posted[d].body)
                        /\ Account(posted[c]) = Account(posted[d])
      BY DEF SignedMeansOne
    <2>1. PICK r \in Requests, n \in Nat : Accepted(r) /\ posted[c] = Envelope(r, n)
      BY SentIsEnvelope DEF Inv
    <2>2. PICK s \in Requests, m \in Nat : Accepted(s) /\ posted[d] = Envelope(s, m)
      BY SentIsEnvelope DEF Inv
    <2> DEFINE e == Envelope(r, n)
               g == Envelope(s, m)
    <2>3. /\ e.kind = r.kind /\ e.body = Body(r) /\ e.signer = r.signer
          /\ g.kind = s.kind /\ g.body = Body(s) /\ g.signer = s.signer
          /\ e.digest = Digest(r.kind, Payload(r), EffectiveOwner(r), n, Expires(r))
          /\ g.digest = Digest(s.kind, Payload(s), EffectiveOwner(s), m, Expires(s))
      BY DEF Envelope
    <2>4. r.kind = s.kind /\ r.kind \in Kinds /\ r.signer = s.signer
      BY <2>1, <2>2, <2>3, RequestAssumption
    <2>5. e.digest.words = g.digest.words /\ e.digest.owner = g.digest.owner
      BY <2>1, <2>2, <2>3 DEF Digest
    <2>6. Words(r.kind, Body(r)) = Words(r.kind, Body(s))
      BY <2>3, <2>4, <2>5, SignedAsPosted DEF Digest
    <2>7. Reading(r.kind, Body(r)) = Reading(r.kind, Body(s))
      <3>1. NamesOnce(r.kind, Body(r)) /\ NamesOnce(r.kind, Body(s))
        BY <2>1, <2>2, <2>3, <2>4
      <3> QED
        BY <2>1, <2>2, <2>4, <2>6, <3>1, BodyShaped, OneReading
    <2>8. CASE r.kind = "batch_order"
      <3>1. "owner" \in Signed(r.kind, Body(r))
        BY <2>8 DEF Signed, Frozen
      <3>2. Word(Body(r), "owner") = Word(Body(s), "owner")
        BY <2>6, <3>1, WordsAlike
      <3>3. Body(r).owner = Body(s).owner
        BY <3>2 DEF Word, Field
      <3>4. "owner" \in DOMAIN Body(r) /\ "owner" \in DOMAIN Body(s)
        <4>1. ASSUME NEW x \in Requests, x.kind = "batch_order" PROVE "owner" \in DOMAIN Body(x)
          <5>1. DOMAIN Body(x) = DOMAIN x.params
            BY <4>1 DEF Body, Payload, BoundKinds
          <5> QED
            BY <4>1, <5>1, Admitted DEF BoundKinds
        <4> QED
          BY <2>4, <2>8, <4>1
      <3>5. Account(e) = OrElse(Body(r).owner, r.signer)
            /\ Account(g) = OrElse(Body(s).owner, s.signer)
        BY <2>3, <3>4 DEF Account, OwnerIn
      <3> QED
        BY <2>1, <2>2, <2>3, <2>4, <2>7, <3>3, <3>5
    <2>9. CASE r.kind # "batch_order"
      <3>1. Account(e) = IF e.digest.owner = Absent THEN r.signer ELSE e.digest.owner
        BY <2>1, <2>9, OwnerRead
      <3>2. Account(g) = IF g.digest.owner = Absent THEN s.signer ELSE g.digest.owner
        BY <2>2, <2>4, <2>9, OwnerRead
      <3> QED
        BY <2>1, <2>2, <2>3, <2>4, <2>5, <2>7, <3>1, <3>2
    <2> QED
      BY <2>8, <2>9
  <1> QED
    BY <1>1, AlwaysTraced, PTL
=============================================================================
