--------------------------- MODULE MCAccountLane ---------------------------
(* Requests of AccountLane for TLC: of every method a base request, made up *)
(* from the types of its fields, and the requests that differ from it in    *)
(* one field, the owner or the expiry.                                      *)
EXTENDS AccountLane, TLC

CONSTANTS Alice, Vault, Agent

Callers == Permutations(Calls)
MCRoster == {Alice, Agent}

\* The values of a type, the base one first.
Values ==
  [bool |-> <<FALSE, TRUE>>, u8 |-> <<1, 0, 2>>, u16 |-> <<1, 0>>, u32 |-> <<1, 0>>,
   u64 |-> <<1, 0>>, u128 |-> <<1, MaxU64, MaxU64 + 1>>,
   i128 |-> <<1, 0, 0 - 1, MaxU64 + 1>>,
   string |-> <<"a", "">>, bytes |-> <<"b", "">>, bytes32 |-> <<"b", "c">>,
   address |-> <<Alice, Nobody>>, side |-> <<"Bid", "Ask">>,
   chain |-> <<"Base", "Arbitrum">>, vault_kind |-> <<"User", "Metaliquidity">>,
   lend_kind |-> <<"Lend", "UnLend", "Borrow", "Repay">>,
   code |-> <<[len |-> 3, lower |-> TRUE], [len |-> 16, lower |-> TRUE],
              [len |-> 2, lower |-> TRUE], [len |-> 17, lower |-> TRUE],
              [len |-> 3, lower |-> FALSE]>>]
    @@ ("address[]" :> <<<<Alice>>, <<Alice, Vault>>, <<>>>>)
    @@ ("string[]" :> <<<<"a">>, <<"a", "">>>>)
    @@ ("bytes[]" :> <<<<>>>>)
    @@ ("u32?" :> <<Absent, 1, 0>>) @@ ("u64?" :> <<Absent, 1, 0>>)
    @@ ("u16?" :> <<Absent, 1, 0>>) @@ ("bool?" :> <<Absent, FALSE, TRUE>>)
    @@ ("i128?" :> <<Absent, 1, 0, 0 - 1, MaxU64 + 1>>) @@ ("string?" :> <<Absent, "a", "">>)
    @@ ("address?" :> <<Absent, Alice, Nobody>>)

Base(schema) == [f \in DOMAIN schema |-> Values[schema[f]][1]]
Payloads(schema) ==
  {Base(schema)} \cup
    UNION {{[Base(schema) EXCEPT ![f] = Values[schema[f]][i]] : i \in DOMAIN Values[schema[f]]}
             : f \in DOMAIN schema}

\* The type of an argument of a typed method.
ArgType(k, f) ==
  CASE f = "side" -> "side"
    [] f = "chain" -> "chain"
    [] f = "code" -> "code"
    [] f = "inner_nonce" -> "u64"
    [] k = "borrow_lend" /\ f = "kind" -> "lend_kind"
    [] f = "new_name" -> "string?"
    [] f = "stp_group" \/ (k = "rfq_request" /\ f = "limit_px") -> "u64?"
    [] f = "new_paused" -> "bool?"
    [] f = "new_management_fee_bps" -> "u16?"
    [] f = "new_lock_period_secs" -> "u64?"
    [] f = "explicit_index" \/ (k = "cancel_all_orders" /\ f = "asset") -> "u32?"
    [] OTHER -> Structs[SignedName(k)][f]

Schema(k) == [f \in {Methods[k][i] : i \in DOMAIN Methods[k]} |-> ArgType(k, f)]

\* Two rows of holders against one and two amounts.
Holders == [asset : {1}, holders : {<<Alice, Vault>>}, amounts : {<<"a">>, <<"a", "">>}]

\* Bundles for either of two accounts that share the roster: a signature of Alice
\* and one of anybody, each for one of the accounts, a nonce and a scheme.
Inner(members, users, n) ==
  {sign_multisig_inner(m, "UserBound", u, "b", n) : m \in members, u \in users}
LegacyInner(members) == {sign_multisig_inner(m, "Legacy", Vault, "b", 1) : m \in members}
Bundles ==
  [user : {Vault, Alice}, inner_action_blob : {"b"}, inner_nonce : {1, 2},
   signatures :
     {<<g, h>> : g \in Inner({Alice}, {Vault}, 1) \cup LegacyInner({Alice}),
                 h \in Inner({Alice, Agent, Vault}, {Vault}, 1)
                         \cup Inner({Agent}, {Vault}, 2) \cup Inner({Agent}, {Alice}, 1)
                         \cup LegacyInner({Agent})}]

ParamsOf(k) ==
  CASE k \in {"pm_enroll", "pm_unenroll"} -> {NoField}
    [] k = "set_position_mode" -> [hedge : BOOLEAN]
    [] OTHER -> Payloads(Params[k])

MarginKinds == {"set_position_mode", "update_leverage", "update_isolated_margin",
                "top_up_isolated_only_margin"}

MCRequests ==
  UNION {[via : {"typed"}, kind : {k}, params : Payloads(Schema(k)), owner : {Absent},
          signer : {Alice}, expires : {0}] : k \in DOMAIN Methods}
    \cup UNION {[via : {"typed"}, kind : {k}, params : {Base(Schema(k))},
                 owner : {Absent} \cup (IF k \in OwnerActions THEN {Vault, Alice} ELSE {}),
                 signer : {Alice, Agent}, expires : {0, 9}] : k \in DOMAIN Methods}
    \cup UNION {[via : {"params"}, kind : {k}, params : ParamsOf(k), owner : {Absent},
                 signer : {Alice}, expires : {0}]
                  : k \in DOMAIN Delegates \cup {"pm_enroll", "pm_unenroll"}}
    \cup UNION {[via : {"params"}, kind : {k}, params : ParamsOf(k), owner : {Vault},
                 signer : {Agent}, expires : {0}] : k \in MarginKinds}
    \cup [via : {"typed"}, kind : {"multi_sig"}, params : Bundles, owner : {Absent},
          signer : {Agent}, expires : {0}]
    \cup [via : {"typed"}, kind : {"spot_seed_holders"}, params : Holders, owner : {Absent},
          signer : {Alice}, expires : {0}]
=============================================================================
