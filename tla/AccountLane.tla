---------------------------- MODULE AccountLane ----------------------------
(***************************************************************************)
(* The account, governance and deploy actions of rest/exchange_typed.rs    *)
(* and rest/exchange.rs: a method fills in a TypedAction, signs its        *)
(* digest, and posts {type, params} beside the signature.  The node has    *)
(* only what was posted, and rebuilds the digest from it.                  *)
(*                                                                         *)
(* A request names the method (via "typed" of exchange_typed.rs, or via    *)
(* "params" of exchange.rs), what it is given, the owner of an _as method, *)
(* the wallet that signs and the expiry of the Exchange.                   *)
(***************************************************************************)
EXTENDS ActionMethods, FiniteSets

CONSTANTS Calls,      \* calls of signing methods
          Requests,   \* what a call may ask for
          Nobody,     \* Address::ZERO
          MaxU64,     \* the largest number of 64 bits
          Roster,     \* the members that act together for a multisig account
          Threshold   \* how many of them it takes

VARIABLES posted,     \* call -> what it sent, or why it did not, or Absent
          nonce       \* the last nonce drawn
vars == <<posted, nonce>>

OrElse(x, d) == IF x = Absent THEN d ELSE x

-----------------------------------------------------------------------------
(* From the params struct to the arguments of the typed method.            *)

\* pm_enroll and pm_unenroll go through user_portfolio_margin.
Method(r) == IF r.via = "params" /\ r.kind \in {"pm_enroll", "pm_unenroll"}
             THEN "user_portfolio_margin" ELSE r.kind

\* What an Option of a params struct is unwrapped to.
Unwrapped ==
  [approve_agent |-> [name |-> "", expires_at_ms |-> 0],
   claim_rewards |-> [validator |-> Nobody]]

\* Mutant: the kind of a vault is turned round.
HandedOnTurned(k, p, f) ==
  CASE k \in DOMAIN Unwrapped /\ f \in DOMAIN Unwrapped[k] -> OrElse(p[f], Unwrapped[k][f])
    [] k = "create_vault" /\ f = "kind" -> IF p.kind = "User" THEN 1 ELSE 0
    [] OTHER -> p[f]

HandedOn(k, p, f) ==
  CASE k \in DOMAIN Unwrapped /\ f \in DOMAIN Unwrapped[k] -> OrElse(p[f], Unwrapped[k][f])
    [] k = "create_vault" /\ f = "kind" -> IF p.kind = "Metaliquidity" THEN 1 ELSE 0
    [] OTHER -> p[f]

\* The arguments, by name.
Args(r) ==
  IF r.via = "typed" THEN r.params
  ELSE IF r.kind \in {"pm_enroll", "pm_unenroll"} THEN [enroll |-> r.kind = "pm_enroll"]
  ELSE IF r.kind = "vault_modify" THEN r.params
  ELSE LET formals == Methods[r.kind]
           given == Delegates[r.kind]
           At(f) == CHOOSE i \in DOMAIN formals : formals[i] = f
       IN  [f \in {formals[i] : i \in DOMAIN formals} |-> HandedOn(r.kind, r.params, given[At(f)])]

-----------------------------------------------------------------------------
(* From the arguments to the struct that is signed.                        *)

\* The TypedAction a method signs: some tags are newer than the frozen strings.
SignedName(k) ==
  CASE k = "approve_broker_fee" -> "approve_builder_fee"
    [] k = "claim_broker_rewards" -> "claim_builder_rewards"
    [] k = "pm_unenroll" -> "user_portfolio_margin"
    [] OTHER -> k

\* A flag tells whether an Option holds a value.
Flags == [has_asset |-> "asset", has_explicit_index |-> "explicit_index",
          has_limit_px |-> "limit_px", has_stp_group |-> "stp_group",
          has_new_lock_period_secs |-> "new_lock_period_secs",
          has_new_management_fee_bps |-> "new_management_fee_bps",
          has_new_paused |-> "new_paused"]

\* unwrap_or_default.
Default(type) == CASE type = "bool" -> FALSE
                   [] type = "string" -> ""
                   [] type = "address" -> Nobody
                   [] OTHER -> 0

mb_chain_to_u8 == [Base |-> 1, Arbitrum |-> 2]
core_side_to_u8 == [Bid |-> 0, Ask |-> 1]
BorrowLendKindAsU8 == [Lend |-> 0, UnLend |-> 1, Borrow |-> 2, Repay |-> 3]

\* A flag, the code of an enum, or the value with an Option unwrapped.
SignedField(k, a, f) ==
  CASE f \in DOMAIN Flags -> a[Flags[f]] # Absent
    [] f = "chain" -> mb_chain_to_u8[a.chain]
    [] f = "side" -> core_side_to_u8[a.side]
    [] k = "borrow_lend" /\ f = "kind" -> BorrowLendKindAsU8[a.kind]
    [] OTHER -> OrElse(a[f], Default(Structs[SignedName(k)][f]))

Signed(k, a) ==
  IF k = "pm_unenroll" THEN [enroll |-> FALSE]
  ELSE [f \in DOMAIN Structs[SignedName(k)] |-> SignedField(k, a, f)]

-----------------------------------------------------------------------------
(* From the arguments to the params that are posted.                       *)

\* The keys that go by another name than the argument.
Renamed ==
  [approve_agent |-> [agent |-> "agent_address", name |-> "agent_name"],
   approve_broker_fee |-> [max_bps |-> "max_fee_bps"],
   send_to_evm_with_data |-> [nonce |-> "transfer_nonce"],
   multi_sig |-> [nonce |-> "inner_nonce"]]
NewNames(k) == IF k \in DOMAIN Renamed THEN Renamed[k] ELSE NoField
Behind(k, key) == IF key \in DOMAIN NewNames(k) THEN NewNames(k)[key] ELSE key

\* The arguments that are not posted: an expiry of zero ("the node refuses an
\* explicit one"), the zero validator, and a None that serde skips.
LeftOut(k, a) ==
  CASE k \in {"approve_agent", "register_metaliquidity_operator"} ->
         IF a.expires_at_ms = 0 THEN {"expires_at_ms"} ELSE {}
    [] k = "claim_rewards" -> IF a.validator = Nobody THEN {"validator"} ELSE {}
    [] k \in {"create_sub_account", "cancel_all_orders", "vault_modify"} ->
         {f \in DOMAIN a : a[f] = Absent}
    [] OTHER -> {}

Keys(k, a) ==
  LET renamed == {NewNames(k)[key] : key \in DOMAIN NewNames(k)}
  IN  DOMAIN NewNames(k) \cup (DOMAIN a \ (renamed \cup LeftOut(k, a)))

Posted(k, a, f) == IF k = "create_vault" /\ f = "kind"
                   THEN IF a.kind = 1 THEN "Metaliquidity" ELSE "User"
                   ELSE a[f]

Body(k, a, owner) ==
  [key \in Keys(k, a) \cup (IF owner = Absent THEN {} ELSE {"owner"}) |->
     IF key = "owner" THEN owner ELSE Posted(k, a, Behind(k, key))]

-----------------------------------------------------------------------------
(* What a method refuses before a nonce is drawn.                          *)

\* A referral code is its length and whether it is all lower case and digits.
validate_referral_code(code) == code.len \in 3 .. 16 /\ code.lower

FitsU64(x) == x = Absent \/ x \in 0 .. MaxU64

\* The params structs of the RFQ and FBA lanes hold numbers of 128 bits.
OutOfRange(r) ==
  /\ r.via = "params"
  /\ CASE r.kind = "rfq_request" -> ~FitsU64(r.params.size) \/ ~FitsU64(r.params.limit_px)
       [] r.kind = "rfq_accept" -> ~FitsU64(r.params.size)
       [] r.kind = "fba_submit" -> ~FitsU64(r.params.size) \/ ~FitsU64(r.params.price)
       [] OTHER -> FALSE

Invalid(r) ==
  \/ OutOfRange(r)
  \/ /\ r.kind \in {"register_referral_code", "set_referrer_by_code"}
     /\ ~validate_referral_code(r.params.code)
  \/ /\ r.kind = "spot_seed_holders"
     /\ \/ r.params.holders = <<>>
        \/ Len(r.params.holders) # Len(r.params.amounts)

-----------------------------------------------------------------------------
(* wallet/multisig.rs: what a member of a roster signs.                     *)

multi_sig_inner_digest(user, blob, n) ==
  [type |-> <<"user", "action", "nonce">>, words |-> <<user, blob, n>>]
multi_sig_inner_digest_legacy(blob, n) ==
  [type |-> <<"action", "nonce">>, words |-> <<blob, n>>]
multi_sig_inner_digest_for(scheme, user, blob, n) ==
  IF scheme = "UserBound" THEN multi_sig_inner_digest(user, blob, n)
  ELSE multi_sig_inner_digest_legacy(blob, n)

\* A signature, together with what its member meant by it.
sign_multisig_inner(member, scheme, user, blob, n) ==
  [by |-> member, digest |-> multi_sig_inner_digest_for(scheme, user, blob, n),
   meant |-> [user |-> user, blob |-> blob, nonce |-> n]]

-----------------------------------------------------------------------------
(* What the types of the methods admit.                                    *)

Formals(k) == {Methods[k][i] : i \in DOMAIN Methods[k]}

\* A params struct holds the fields that its method hands on, and the parent of a vault.
Held(k) ==
  IF k \in {"pm_enroll", "pm_unenroll"} THEN {}
  ELSE {Delegates[k][i] : i \in DOMAIN Delegates[k]}
         \cup (IF k = "create_vault" THEN {"parent"} ELSE {})

\* The arguments that are an Option: those with a flag, and a name that serde skips.
Options(k) ==
  {Flags[f] : f \in DOMAIN Structs[SignedName(k)] \cap DOMAIN Flags}
    \cup (IF k = "vault_modify" THEN {"new_name"} ELSE {})

MayBeNone(r, f) ==
  \/ f \in Options(r.kind)
  \/ r.kind = "create_vault" /\ f = "parent"
  \/ r.via = "params" /\ r.kind \in DOMAIN Unwrapped /\ f \in DOMAIN Unwrapped[r.kind]

\* The enums among the arguments.
Variants(r, f) ==
  CASE f = "chain" -> DOMAIN mb_chain_to_u8
    [] f = "side" -> DOMAIN core_side_to_u8
    [] f = "kind" /\ r.kind = "borrow_lend" -> DOMAIN BorrowLendKindAsU8
    [] f = "kind" /\ r.kind = "create_vault" /\ r.via = "params" -> {"User", "Metaliquidity"}
    [] OTHER -> {r.params[f]}

ASSUME RequestAssumption ==
  /\ Absent \notin Nat /\ Absent \notin BOOLEAN /\ Absent # "" /\ Absent # Nobody
  /\ \A r \in Requests :
       /\ \/ /\ r.via = "typed" /\ r.kind \in DOMAIN Methods
             /\ DOMAIN r.params = Formals(r.kind)
          \/ /\ r.via = "params"
             /\ r.kind \in DOMAIN Delegates \cup {"pm_enroll", "pm_unenroll"}
             /\ DOMAIN r.params = Held(r.kind)
       /\ \A f \in DOMAIN r.params : /\ r.params[f] = Absent => MayBeNone(r, f)
                                     /\ r.params[f] \in Variants(r, f)
       /\ r.owner # Absent => Method(r) \in OwnerActions
       /\ r.expires \in Nat

\* A bundle carries signatures that sign_multisig_inner made, by either scheme, and
\* has no _as form.
ASSUME BundleAssumption ==
  \A r \in Requests : r.kind = "multi_sig" =>
    /\ r.via = "typed" /\ r.owner = Absent
    /\ DOMAIN r.params = {"user", "inner_action_blob", "signatures", "inner_nonce"}
    /\ \A i \in DOMAIN r.params.signatures :
         LET g == r.params.signatures[i]
         IN  \E scheme \in {"UserBound", "Legacy"} :
               g = sign_multisig_inner(g.by, scheme, g.meant.user, g.meant.blob, g.meant.nonce)

-----------------------------------------------------------------------------
Init == posted = [c \in Calls |-> Absent] /\ nonce = 0

Reject(c) ==
  /\ posted[c] = Absent
  /\ \E r \in Requests : /\ Invalid(r)
                         /\ posted' = [posted EXCEPT ![c] = [ok |-> FALSE, req |-> r]]
  /\ UNCHANGED nonce

\* Mutant: the expiry of the Exchange is signed and not posted.
EnvelopeUnexpiring(r, n) ==
  [ok |-> TRUE, req |-> r, kind |-> Method(r), body |-> Body(Method(r), Args(r), r.owner),
   nonce |-> n, expires |-> Absent, signer |-> r.signer,
   digest |-> HashStruct(SignedName(Method(r)), Signed(Method(r), Args(r)), r.owner, n,
                         r.expires)]

\* One struct and one body of the same arguments; an expiry of zero is left out.
Envelope(r, n) ==
  LET k == Method(r)
  IN  [ok |-> TRUE, req |-> r, kind |-> k, body |-> Body(k, Args(r), r.owner), nonce |-> n,
       expires |-> IF r.expires = 0 THEN Absent ELSE r.expires, signer |-> r.signer,
       digest |-> HashStruct(SignedName(k), Signed(k, Args(r)), r.owner, n, r.expires)]

Post(c) ==
  /\ posted[c] = Absent
  /\ \E r \in Requests : /\ ~Invalid(r) /\ r.kind # "multi_sig"
                         /\ posted' = [posted EXCEPT ![c] = Envelope(r, nonce + 1)]
  /\ nonce' = nonce + 1

\* Mutant: a bundle takes a fresh nonce.
PostAtFreshNonce(c) ==
  /\ posted[c] = Absent
  /\ \E r \in Requests : /\ r.kind = "multi_sig"
                         /\ posted' = [posted EXCEPT ![c] = Envelope(r, nonce + 1)]
  /\ nonce' = nonce + 1

\* A bundle is posted at the nonce its roster signed; none is drawn.
PostAtNonce(c) ==
  /\ posted[c] = Absent
  /\ \E r \in Requests : /\ r.kind = "multi_sig"
                         /\ posted' = [posted EXCEPT ![c] = Envelope(r, r.params.inner_nonce)]
  /\ UNCHANGED nonce

Next == \E c \in Calls : Reject(c) \/ Post(c) \/ PostAtNonce(c)
Spec == Init /\ [][Next]_vars

-----------------------------------------------------------------------------
(* The node, which has the envelope and nothing else.                      *)

\* The name of a struct's field in the params.
WireName(k, f) ==
  IF \E key \in DOMAIN NewNames(k) : NewNames(k)[key] = f
  THEN CHOOSE key \in DOMAIN NewNames(k) : NewNames(k)[key] = f ELSE f

Given(e, key) == IF key \in DOMAIN e.body THEN e.body[key] ELSE Absent

NodeCodes == [User |-> 0, Metaliquidity |-> 1, Lend |-> 0, UnLend |-> 1, Borrow |-> 2,
              Repay |-> 3, Bid |-> 0, Ask |-> 1, Base |-> 1, Arbitrum |-> 2]

IsCode(k, f) == f \in {"chain", "side"} \/ (f = "kind" /\ k \in {"create_vault", "borrow_lend"})

NodeField(e, f) ==
  LET v == Given(e, WireName(e.kind, f))
  IN  CASE f \in DOMAIN Flags -> Given(e, Flags[f]) # Absent
        [] f \notin DOMAIN Flags /\ IsCode(e.kind, f) -> NodeCodes[v]
        [] OTHER -> OrElse(v, Default(Structs[SignedName(e.kind)][f]))

NodeStruct(e) ==
  IF e.kind = "pm_unenroll" THEN [enroll |-> FALSE]
  ELSE [f \in DOMAIN Structs[SignedName(e.kind)] |-> NodeField(e, f)]

Account(e) == OrElse(Given(e, "owner"), e.signer)

Verified(e) ==
  e.digest = HashStruct(SignedName(e.kind), NodeStruct(e), Given(e, "owner"), e.nonce,
                        OrElse(e.expires, 0))

\* The members whose signatures a bundle carries, by the scheme in force.
Signers(e) ==
  {m \in Roster : \E i \in DOMAIN e.body.signatures :
     LET g == e.body.signatures[i]
     IN  /\ g.by = m
         /\ g.digest = multi_sig_inner_digest(e.body.user, e.body.inner_action_blob, e.nonce)}

\* What is asked for, by field.  Absent, an expiry is none, a validator is all
\* of them, and an empty name is refused.
Plain(f, v) == CASE f = "expires_at_ms" -> OrElse(v, 0)
                 [] f = "validator" -> OrElse(v, Nobody)
                 [] f \in {"name", "new_name"} -> OrElse(v, "")
                 [] OTHER -> v
Asks(e) ==
  IF e.kind = "pm_unenroll" THEN [enroll |-> FALSE]
  ELSE [f \in DOMAIN Structs[SignedName(e.kind)] \ DOMAIN Flags |->
          Plain(f, Given(e, WireName(e.kind, f)))]

-----------------------------------------------------------------------------
Sent(c) == posted[c] # Absent /\ posted[c].ok

\* "0 = user, 1 = metaliquidity" (typed.rs:493): the codes create_vault_typed is
\* documented for, though it takes any u8.
KindKnown(e) == e.kind = "create_vault" => Args(e.req).kind \in {0, 1}

\* "The posted payload carries exactly the keys that were signed"
\* (exchange_typed.rs:607): the digest that the node rebuilds from what was posted,
\* through renamed keys, omitted keys and enum names, is the one that was signed.
Verifies == \A c \in Calls : Sent(c) /\ KindKnown(posted[c]) => Verified(posted[c])

\* A signature says one thing: two actions that verify, are signed alike but for
\* the nonce, and come from one signer, ask the same of the same account, although
\* Options are flattened, tags were renamed and an owner is not always bound.
SignedMeansOne ==
  \A c, d \in Calls :
    Sent(c) /\ Sent(d) =>
      LET e == posted[c]
          g == posted[d]
      IN  /\ Verified(e) /\ Verified(g) /\ e.signer = g.signer
          /\ e.digest = [g.digest EXCEPT !.nonce = e.nonce]
          => Asks(e) = Asks(g) /\ Account(e) = Account(g)

\* An _as method acts for the owner it was given, any other for its signer; and
\* through the method of exchange_typed.rs, which takes the fields one by one, what
\* is posted is what the params struct of exchange.rs held, field by field, but for
\* the parent of a vault, which "is dropped here" (exchange.rs:1236).
ActsForAsked ==
  \A c \in Calls : Sent(c) =>
    LET e == posted[c]
        r == e.req
    IN  /\ Account(e) = OrElse(r.owner, r.signer)
        /\ r.via = "params" =>
             \A f \in DOMAIN r.params \ {"parent"} : Plain(f, Given(e, f)) = Plain(f, r.params[f])

\* The words that are hashed are the fields the frozen type string names, in its
\* order, the owner among them; the expiry is named if and only if it is hashed.
WordsFollowType ==
  \A c \in Calls : Sent(c) =>
    LET e == posted[c]
        s == Signed(e.kind, Args(e.req))
        names == e.digest.type.names
        Word(i) == IF names[i] = "owner" THEN e.req.owner
                   ELSE IF names[i] = "expires_after" THEN e.digest.expires ELSE s[names[i]]
        words == e.digest.words \o (IF e.digest.expires = 0 THEN <<>> ELSE <<e.digest.expires>>)
    IN  words = [i \in DOMAIN names |-> Word(i)]

\* "A roster signature therefore authorizes exactly ONE account" (multisig.rs:25), and
\* exactly one action at one nonce: a bundle is carried out if and only if as many
\* members as it takes signed for its account, its blob and its nonce.
RosterSpeaks ==
  \A c \in Calls : Sent(c) /\ posted[c].kind = "multi_sig" =>
    LET e == posted[c]
        asked == [user |-> e.req.params.user, blob |-> e.req.params.inner_action_blob,
                  nonce |-> e.req.params.inner_nonce]
        carried == {e.req.params.signatures[i] : i \in DOMAIN e.req.params.signatures}
        meant == {g \in carried : g.meant = asked /\ Len(g.digest.type) = 3}
    IN  Cardinality(Signers(e)) >= Threshold <=> Cardinality({g.by : g \in meant} \cap Roster) >= Threshold
=============================================================================
