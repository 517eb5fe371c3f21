---------------------------- MODULE TypedActions ----------------------------
(***************************************************************************)
(* The typed account, governance and deploy actions of wallet/typed.rs and *)
(* wallet/typed_account.rs: for each of them the struct that is filled in, *)
(* the frozen type string, and the words that are hashed under it.  A      *)
(* digest can be rebuilt from a type string alone, so the words must come  *)
(* in the order, and from the fields, that the string names.               *)
(*                                                                         *)
(* Every struct begins with the chain tag, a constant of the build, and    *)
(* ends with the nonce; neither is repeated below.  A name of a type       *)
(* string is written the way the field of that name is.  A hash is the     *)
(* value it is taken of.                                                   *)
(***************************************************************************)
EXTENDS Naturals, Sequences

CONSTANTS Absent      \* None

\* The rows of several tables, which have no key in common.
Merged(tables) ==
  [k \in UNION {DOMAIN t : t \in tables} |-> (CHOOSE t \in tables : k \in DOMAIN t)[k]]

NoField == [f \in {} |-> 0]

-----------------------------------------------------------------------------
(* TypedAction: the fields of each variant and what they hold.  An owner    *)
(* that may be bound is a field of its own, see OwnerActions.               *)

FundStructs ==
  [send_asset |-> [source_dex |-> "u32", destination_dex |-> "u32", asset |-> "u32",
                   destination |-> "address", amount |-> "string", to_perp |-> "bool"],
   usd_class_transfer |-> [ntl |-> "string", to_perp |-> "bool"],
   withdraw |-> [asset |-> "u32", amount |-> "string", destination_chain_id |-> "u32",
                 use_cctp |-> "bool"],
   approve_agent |-> [agent_address |-> "address", agent_name |-> "string",
                      expires_at_ms |-> "u64"],
   set_referrer |-> [referrer |-> "address"],
   approve_builder_fee |-> [builder |-> "address", max_fee_bps |-> "u16"],
   set_display_name |-> [display_name |-> "string"],
   set_position_mode |-> [hedge |-> "bool"],
   user_portfolio_margin |-> [enroll |-> "bool"],
   convert_to_multi_sig_user |-> [signers |-> "address[]", threshold |-> "u32"],
   multi_sig |-> [user |-> "address", inner_action_blob |-> "bytes",
                  signatures |-> "bytes[]"]]

MarginStructs ==
  [update_leverage |-> [asset |-> "u32", leverage |-> "u32", is_isolated |-> "bool"],
   claim_rewards |-> [validator |-> "address"],
   link_staking_user |-> [target |-> "address"],
   create_vault |-> [name |-> "string", lock_period_secs |-> "u64", kind |-> "u8"],
   vault_modify |-> [vault_id |-> "u64", new_name |-> "string",
                     has_new_lock_period_secs |-> "bool", new_lock_period_secs |-> "u64",
                     has_new_management_fee_bps |-> "bool",
                     new_management_fee_bps |-> "u16", has_new_paused |-> "bool",
                     new_paused |-> "bool"],
   spot_margin_close |-> [pair |-> "u32", limit_px |-> "u64"],
   update_isolated_margin |-> [asset |-> "u32", delta |-> "string"],
   top_up_isolated_only_margin |-> [asset |-> "u32", amount |-> "string"],
   token_delegate |-> [validator |-> "address", amount |-> "string",
                       is_undelegate |-> "bool", lock_months |-> "u8"],
   vault_transfer |-> [vault_id |-> "u64", deposit |-> "bool", amount |-> "string"],
   vault_withdraw |-> [vault_id |-> "u64", shares |-> "string"]]

LendingStructs ==
  [spot_margin_deposit |-> [pair |-> "u32", amount |-> "string"],
   spot_margin_withdraw |-> [pair |-> "u32", amount |-> "string"],
   spot_margin_open |-> [pair |-> "u32", size |-> "u64", limit_px |-> "u64",
                         borrow |-> "string"],
   earn_deposit |-> [asset |-> "u32", amount |-> "string"],
   earn_withdraw |-> [asset |-> "u32", shares |-> "string"],
   agent_set_abstraction |-> [user |-> "address", kind |-> "u8", value |-> "string"],
   bridge_withdraw |-> [chain |-> "u8", asset |-> "u32", amount |-> "u64",
                        dst_addr |-> "string"]]

RewardStructs ==
  [vault_distribute |-> [vault_id |-> "u64", pnl |-> "string"],
   claim_builder_rewards |-> NoField, claim_referral_rewards |-> NoField,
   register_referral_code |-> [code |-> "string"],
   set_referrer_by_code |-> [code |-> "string"]]

OperatorStructs ==
  [borrow_lend |-> [kind |-> "u8", amount |-> "string"],
   register_metaliquidity_operator |-> [vault_id |-> "u64", operator |-> "address",
         allowed |-> "bool", expires_at_ms |-> "u64"]]

AccountStructs ==
  [core_evm_transfer |-> [amount |-> "string", to_evm |-> "bool",
                          destination |-> "address", asset |-> "u32"],
   core_evm_transfer_v2 |-> [amount |-> "string", to_evm |-> "bool",
                             destination |-> "address", asset |-> "u32",
                             destination_chain_id |-> "u32", data |-> "bytes"],
   send_to_evm_with_data |-> [token |-> "u32", amount |-> "string", source_dex |-> "u32",
                              destination_recipient |-> "address", to_perp |-> "bool",
                              destination_chain_id |-> "u32", data |-> "bytes",
                              transfer_nonce |-> "u64"],
   create_sub_account |-> [name |-> "string", has_explicit_index |-> "bool",
                           explicit_index |-> "u32", shared_stp_group |-> "bool"],
   sub_account_transfer |-> [sub_index |-> "u32", deposit |-> "bool",
                             amount |-> "string"],
   sub_account_spot_transfer |-> [sub_index |-> "u32", token |-> "u32",
                                  deposit |-> "bool", amount |-> "string"],
   c_deposit |-> [amount |-> "string"], c_withdraw |-> [amount |-> "string"],
   user_set_abstraction |-> [kind |-> "u8", value |-> "string"],
   priority_bid |-> [asset |-> "u32", bid_bps |-> "u16"],
   cancel_all_orders |-> [has_asset |-> "bool", asset |-> "u32"],
   submit_encrypted_order |-> [ciphertext |-> "bytes", commitment |-> "bytes32",
                               threshold |-> "u8", target_block |-> "u64",
                               reveal_deadline_ms |-> "u64"]]

RfqStructs ==
  [rfq_request |-> [market |-> "u32", side |-> "u8", size |-> "u64",
                    has_limit_px |-> "bool", limit_px |-> "u64", expiry_ms |-> "u64",
                    has_stp_group |-> "bool", stp_group |-> "u64"],
   rfq_accept |-> [rfq_id |-> "u64", quote_idx |-> "u32", size |-> "u64"],
   rfq_quote |-> [rfq_id |-> "u64", price |-> "u64", max_size |-> "u64",
                  valid_until_ms |-> "u64", has_stp_group |-> "bool",
                  stp_group |-> "u64"],
   fba_submit |-> [market |-> "u32", side |-> "u8", size |-> "u64", price |-> "u64",
                   has_stp_group |-> "bool", stp_group |-> "u64"],
   noop |-> NoField]

SpotDeployStructs ==
  [spot_register_token |-> [symbol |-> "string", sz_decimals |-> "u8",
                            wei_decimals |-> "u8", max_deploy_fee |-> "string"],
   spot_register_pair |-> [base |-> "u32", quote |-> "u32", name |-> "string",
                           max_deploy_fee |-> "string"],
   spot_set_pair_params |-> [pair |-> "u32", taker_fee_dbps |-> "u32",
                             maker_fee_dbps |-> "u32", min_notional_cents |-> "u64"],
   spot_set_pair_active |-> [pair |-> "u32", active |-> "bool"],
   spot_seed_holders |-> [asset |-> "u32", holders |-> "address[]",
                          amounts |-> "string[]"],
   spot_finalize_supply |-> [asset |-> "u32", max_supply |-> "string"]]

PerpDeployStructs ==
  [perp_register_asset |-> [symbol |-> "string", decimals |-> "u8", name |-> "string"],
   perp_set_oracle |-> [asset |-> "u32", oracle_source_mask |-> "u16"],
   perp_set_leverage |-> [asset |-> "u32", max_leverage |-> "u8"],
   perp_set_fee_tier |-> [asset |-> "u32", taker_fee_dbps |-> "u32",
                          maker_fee_dbps |-> "u32", deployer_fee_bps |-> "u32"],
   perp_set_maker_rebate |-> [asset |-> "u32", rebate_bps |-> "u16"],
   perp_set_min_size |-> [asset |-> "u32", min_order_size |-> "u64"],
   perp_set_oi_cap |-> [asset |-> "u32", oi_cap_units |-> "u64"],
   perp_activate_market |-> [asset |-> "u32"],
   perp_deactivate_market |-> [asset |-> "u32"],
   perp_set_sub_deployers |-> [asset |-> "u32", sub_deployer |-> "address",
                               add |-> "bool"],
   perp_set_sub_deployer_perms |-> [asset |-> "u32", sub_deployer |-> "address",
                                    permissions |-> "u16"],
   mip3_set_oracle_px |-> [asset |-> "u32", px |-> "string"]]

Structs ==
  Merged({FundStructs, MarginStructs, LendingStructs, RewardStructs, OperatorStructs,
          AccountStructs, RfqStructs, SpotDeployStructs, PerpDeployStructs})

Actions == DOMAIN Structs

\* The variants with an owner that an agent may act for.
OwnerActions == {"set_position_mode", "update_leverage", "update_isolated_margin",
                 "top_up_isolated_only_margin", "cancel_all_orders", "rfq_request",
                 "rfq_accept", "rfq_quote"}

-----------------------------------------------------------------------------
(* The frozen type strings.                                                 *)

FundTypes ==
  [send_asset |-> <<"source_dex", "destination_dex", "asset", "destination", "amount",
                    "to_perp">>,
   usd_class_transfer |-> <<"ntl", "to_perp">>,
   withdraw |-> <<"asset", "amount", "destination_chain_id", "use_cctp">>,
   approve_agent |-> <<"agent_address", "agent_name", "expires_at_ms">>,
   set_referrer |-> <<"referrer">>, approve_builder_fee |-> <<"builder", "max_fee_bps">>,
   set_display_name |-> <<"display_name">>, set_position_mode |-> <<"hedge">>,
   user_portfolio_margin |-> <<"enroll">>,
   convert_to_multi_sig_user |-> <<"signers", "threshold">>,
   multi_sig |-> <<"user", "inner_action_blob", "signatures">>]

MarginTypes ==
  [update_leverage |-> <<"asset", "leverage", "is_isolated">>,
   claim_rewards |-> <<"validator">>, link_staking_user |-> <<"target">>,
   create_vault |-> <<"name", "lock_period_secs", "kind">>,
   vault_modify |-> <<"vault_id", "new_name", "has_new_lock_period_secs",
                      "new_lock_period_secs", "has_new_management_fee_bps",
                      "new_management_fee_bps", "has_new_paused", "new_paused">>,
   spot_margin_close |-> <<"pair", "limit_px">>,
   update_isolated_margin |-> <<"asset", "delta">>,
   top_up_isolated_only_margin |-> <<"asset", "amount">>,
   token_delegate |-> <<"validator", "amount", "is_undelegate", "lock_months">>,
   vault_transfer |-> <<"vault_id", "deposit", "amount">>,
   vault_withdraw |-> <<"vault_id", "shares">>]

LendingTypes ==
  [spot_margin_deposit |-> <<"pair", "amount">>,
   spot_margin_withdraw |-> <<"pair", "amount">>,
   spot_margin_open |-> <<"pair", "size", "limit_px", "borrow">>,
   earn_deposit |-> <<"asset", "amount">>, earn_withdraw |-> <<"asset", "shares">>,
   agent_set_abstraction |-> <<"user", "kind", "value">>,
   bridge_withdraw |-> <<"chain", "asset", "amount", "dst_addr">>]

RewardTypes ==
  [vault_distribute |-> <<"vault_id", "pnl">>, claim_builder_rewards |-> <<>>,
   claim_referral_rewards |-> <<>>, register_referral_code |-> <<"code">>,
   set_referrer_by_code |-> <<"code">>]

OperatorTypes ==
  [borrow_lend |-> <<"kind", "amount">>,
   register_metaliquidity_operator |-> <<"vault_id", "operator", "allowed",
         "expires_at_ms">>]

AccountTypes ==
  [core_evm_transfer |-> <<"amount", "to_evm", "destination", "asset">>,
   core_evm_transfer_v2 |-> <<"amount", "to_evm", "destination", "asset",
                              "destination_chain_id", "data">>,
   send_to_evm_with_data |-> <<"token", "amount", "source_dex", "destination_recipient",
                               "to_perp", "destination_chain_id", "data",
                               "transfer_nonce">>,
   create_sub_account |-> <<"name", "has_explicit_index", "explicit_index",
                            "shared_stp_group">>,
   sub_account_transfer |-> <<"sub_index", "deposit", "amount">>,
   sub_account_spot_transfer |-> <<"sub_index", "token", "deposit", "amount">>,
   c_deposit |-> <<"amount">>, c_withdraw |-> <<"amount">>,
   user_set_abstraction |-> <<"kind", "value">>, priority_bid |-> <<"asset", "bid_bps">>,
   cancel_all_orders |-> <<"has_asset", "asset">>,
   submit_encrypted_order |-> <<"ciphertext", "commitment", "threshold", "target_block",
                                "reveal_deadline_ms">>]

RfqTypes ==
  [rfq_request |-> <<"market", "side", "size", "has_limit_px", "limit_px", "expiry_ms",
                     "has_stp_group", "stp_group">>,
   rfq_accept |-> <<"rfq_id", "quote_idx", "size">>,
   rfq_quote |-> <<"rfq_id", "price", "max_size", "valid_until_ms", "has_stp_group",
                   "stp_group">>,
   fba_submit |-> <<"market", "side", "size", "price", "has_stp_group", "stp_group">>,
   noop |-> <<>>]

SpotDeployTypes ==
  [spot_register_token |-> <<"symbol", "sz_decimals", "wei_decimals", "max_deploy_fee">>,
   spot_register_pair |-> <<"base", "quote", "name", "max_deploy_fee">>,
   spot_set_pair_params |-> <<"pair", "taker_fee_dbps", "maker_fee_dbps",
                              "min_notional_cents">>,
   spot_set_pair_active |-> <<"pair", "active">>,
   spot_seed_holders |-> <<"asset", "holders", "amounts">>,
   spot_finalize_supply |-> <<"asset", "max_supply">>]

PerpDeployTypes ==
  [perp_register_asset |-> <<"symbol", "decimals", "name">>,
   perp_set_oracle |-> <<"asset", "oracle_source_mask">>,
   perp_set_leverage |-> <<"asset", "max_leverage">>,
   perp_set_fee_tier |-> <<"asset", "taker_fee_dbps", "maker_fee_dbps",
                           "deployer_fee_bps">>,
   perp_set_maker_rebate |-> <<"asset", "rebate_bps">>,
   perp_set_min_size |-> <<"asset", "min_order_size">>,
   perp_set_oi_cap |-> <<"asset", "oi_cap_units">>, perp_activate_market |-> <<"asset">>,
   perp_deactivate_market |-> <<"asset">>,
   perp_set_sub_deployers |-> <<"asset", "sub_deployer", "add">>,
   perp_set_sub_deployer_perms |-> <<"asset", "sub_deployer", "permissions">>,
   mip3_set_oracle_px |-> <<"asset", "px">>]

Types ==
  Merged({FundTypes, MarginTypes, LendingTypes, RewardTypes, OperatorTypes,
          AccountTypes, RfqTypes, SpotDeployTypes, PerpDeployTypes})

\* The _WITH_OWNER form of a string names the owner right after the chain tag.
TypeString(k, owner) ==
  [action |-> k, names |-> (IF owner = Absent THEN <<>> ELSE <<"owner">>) \o Types[k]]

-----------------------------------------------------------------------------
(* encode_data: the fields whose words are hashed, in their order.          *)

FundWords ==
  [send_asset |-> <<"source_dex", "destination_dex", "asset", "destination", "amount",
                    "to_perp">>,
   usd_class_transfer |-> <<"ntl", "to_perp">>,
   withdraw |-> <<"asset", "amount", "destination_chain_id", "use_cctp">>,
   approve_agent |-> <<"agent_address", "agent_name", "expires_at_ms">>,
   set_referrer |-> <<"referrer">>, approve_builder_fee |-> <<"builder", "max_fee_bps">>,
   set_display_name |-> <<"display_name">>, set_position_mode |-> <<"hedge">>,
   user_portfolio_margin |-> <<"enroll">>,
   convert_to_multi_sig_user |-> <<"signers", "threshold">>,
   multi_sig |-> <<"user", "inner_action_blob", "signatures">>]

MarginWords ==
  [update_leverage |-> <<"asset", "leverage", "is_isolated">>,
   claim_rewards |-> <<"validator">>, link_staking_user |-> <<"target">>,
   create_vault |-> <<"name", "lock_period_secs", "kind">>,
   vault_modify |-> <<"vault_id", "new_name", "has_new_lock_period_secs",
                      "new_lock_period_secs", "has_new_management_fee_bps",
                      "new_management_fee_bps", "has_new_paused", "new_paused">>,
   spot_margin_close |-> <<"pair", "limit_px">>,
   update_isolated_margin |-> <<"asset", "delta">>,
   top_up_isolated_only_margin |-> <<"asset", "amount">>,
   token_delegate |-> <<"validator", "amount", "is_undelegate", "lock_months">>,
   vault_transfer |-> <<"vault_id", "deposit", "amount">>,
   vault_withdraw |-> <<"vault_id", "shares">>]

LendingWords ==
  [spot_margin_deposit |-> <<"pair", "amount">>,
   spot_margin_withdraw |-> <<"pair", "amount">>,
   spot_margin_open |-> <<"pair", "size", "limit_px", "borrow">>,
   earn_deposit |-> <<"asset", "amount">>, earn_withdraw |-> <<"asset", "shares">>,
   agent_set_abstraction |-> <<"user", "kind", "value">>,
   bridge_withdraw |-> <<"chain", "asset", "amount", "dst_addr">>]

RewardWords ==
  [vault_distribute |-> <<"vault_id", "pnl">>, claim_builder_rewards |-> <<>>,
   claim_referral_rewards |-> <<>>, register_referral_code |-> <<"code">>,
   set_referrer_by_code |-> <<"code">>]

OperatorWords ==
  [borrow_lend |-> <<"kind", "amount">>,
   register_metaliquidity_operator |-> <<"vault_id", "operator", "allowed",
         "expires_at_ms">>]

SpotDeployWords ==
  [spot_register_token |-> <<"symbol", "sz_decimals", "wei_decimals", "max_deploy_fee">>,
   spot_register_pair |-> <<"base", "quote", "name", "max_deploy_fee">>,
   spot_set_pair_params |-> <<"pair", "taker_fee_dbps", "maker_fee_dbps",
                              "min_notional_cents">>,
   spot_set_pair_active |-> <<"pair", "active">>,
   spot_seed_holders |-> <<"asset", "holders", "amounts">>,
   spot_finalize_supply |-> <<"asset", "max_supply">>]

PerpDeployWords ==
  [perp_register_asset |-> <<"symbol", "decimals", "name">>,
   perp_set_oracle |-> <<"asset", "oracle_source_mask">>,
   perp_set_leverage |-> <<"asset", "max_leverage">>,
   perp_set_fee_tier |-> <<"asset", "taker_fee_dbps", "maker_fee_dbps",
                           "deployer_fee_bps">>,
   perp_set_maker_rebate |-> <<"asset", "rebate_bps">>,
   perp_set_min_size |-> <<"asset", "min_order_size">>,
   perp_set_oi_cap |-> <<"asset", "oi_cap_units">>, perp_activate_market |-> <<"asset">>,
   perp_deactivate_market |-> <<"asset">>,
   perp_set_sub_deployers |-> <<"asset", "sub_deployer", "add">>,
   perp_set_sub_deployer_perms |-> <<"asset", "sub_deployer", "permissions">>,
   mip3_set_oracle_px |-> <<"asset", "px">>]

Words ==
  Merged({FundWords, MarginWords, LendingWords, RewardWords, OperatorWords,
          SpotDeployWords, PerpDeployWords})

\* The words of the account actions are put together by functions of their own,
\* called with the fields one by one.
core_evm_transfer_words(amount, to_evm, destination, asset) ==
  <<amount, to_evm, destination, asset>>

core_evm_transfer_v2_words(amount, to_evm, destination, asset, chain_id, data) ==
  <<amount, to_evm, destination, asset, chain_id, data>>

send_to_evm_with_data_words(token, amount, dex, recipient, to_perp, chain_id, data, n) ==
  <<token, amount, dex, recipient, to_perp, chain_id, data, n>>

create_sub_account_words(name, has_index, index, shared) ==
  <<name, has_index, index, shared>>

sub_account_transfer_words(sub_index, deposit, amount) == <<sub_index, deposit, amount>>

sub_account_spot_transfer_words(sub_index, token, deposit, amount) ==
  <<sub_index, token, deposit, amount>>

staking_move_words(amount) == <<amount>>

user_set_abstraction_words(kind, value) == <<kind, value>>

priority_bid_words(asset, bid_bps) == <<asset, bid_bps>>

\* Mutant: only the asset is hashed, zero where there is none.
cancel_all_orders_words_unflagged(has_asset, asset) == <<asset>>

cancel_all_orders_words(has_asset, asset) == <<has_asset, asset>>

cancel_all_orders_words_with_owner(owner, has_asset, asset) == <<owner, has_asset, asset>>

submit_encrypted_order_words(ciphertext, commitment, threshold, block, deadline) ==
  <<ciphertext, commitment, threshold, block, deadline>>

rfq_request_words(market, side, size, has_px, px, expiry, has_stp, stp) ==
  <<market, side, size, has_px, px, expiry, has_stp, stp>>

rfq_request_words_with_owner(owner, market, side, size, has_px, px, expiry, has_stp, stp) ==
  <<owner, market, side, size, has_px, px, expiry, has_stp, stp>>

rfq_accept_words(rfq_id, quote_idx, size) == <<rfq_id, quote_idx, size>>

rfq_accept_words_with_owner(owner, rfq_id, quote_idx, size) ==
  <<owner, rfq_id, quote_idx, size>>

rfq_quote_words(rfq_id, price, max_size, valid_until, has_stp, stp) ==
  <<rfq_id, price, max_size, valid_until, has_stp, stp>>

rfq_quote_words_with_owner(owner, rfq_id, price, max_size, valid_until, has_stp, stp) ==
  <<owner, rfq_id, price, max_size, valid_until, has_stp, stp>>

fba_submit_words(market, side, size, price, has_stp, stp) ==
  <<market, side, size, price, has_stp, stp>>

noop_words == <<>>

AccountWords(k, s, owner) ==
  CASE k = "core_evm_transfer_v2" ->
         core_evm_transfer_v2_words(s.amount, s.to_evm, s.destination, s.asset,
                                    s.destination_chain_id, s.data)
    [] k = "core_evm_transfer" ->
         core_evm_transfer_words(s.amount, s.to_evm, s.destination, s.asset)
    [] k = "send_to_evm_with_data" ->
         send_to_evm_with_data_words(s.token, s.amount, s.source_dex,
           s.destination_recipient, s.to_perp, s.destination_chain_id, s.data,
           s.transfer_nonce)
    [] k = "create_sub_account" ->
         create_sub_account_words(s.name, s.has_explicit_index, s.explicit_index,
                                  s.shared_stp_group)
    [] k = "sub_account_transfer" ->
         sub_account_transfer_words(s.sub_index, s.deposit, s.amount)
    [] k = "sub_account_spot_transfer" ->
         sub_account_spot_transfer_words(s.sub_index, s.token, s.deposit, s.amount)
    [] k \in {"c_deposit", "c_withdraw"} -> staking_move_words(s.amount)
    [] k = "user_set_abstraction" -> user_set_abstraction_words(s.kind, s.value)
    [] k = "priority_bid" -> priority_bid_words(s.asset, s.bid_bps)
    [] k = "cancel_all_orders" ->
         IF owner = Absent THEN cancel_all_orders_words(s.has_asset, s.asset)
         ELSE cancel_all_orders_words_with_owner(owner, s.has_asset, s.asset)
    [] k = "submit_encrypted_order" ->
         submit_encrypted_order_words(s.ciphertext, s.commitment, s.threshold,
                                      s.target_block, s.reveal_deadline_ms)

RfqWords(k, s, owner) ==
  CASE k = "rfq_request" ->
         IF owner = Absent
         THEN rfq_request_words(s.market, s.side, s.size, s.has_limit_px, s.limit_px,
                                s.expiry_ms, s.has_stp_group, s.stp_group)
         ELSE rfq_request_words_with_owner(owner, s.market, s.side, s.size, s.has_limit_px,
                s.limit_px, s.expiry_ms, s.has_stp_group, s.stp_group)
    [] k = "rfq_accept" ->
         IF owner = Absent THEN rfq_accept_words(s.rfq_id, s.quote_idx, s.size)
         ELSE rfq_accept_words_with_owner(owner, s.rfq_id, s.quote_idx, s.size)
    [] k = "fba_submit" ->
         fba_submit_words(s.market, s.side, s.size, s.price, s.has_stp_group, s.stp_group)
    [] k = "noop" -> noop_words
    [] k = "rfq_quote" ->
         IF owner = Absent
         THEN rfq_quote_words(s.rfq_id, s.price, s.max_size, s.valid_until_ms,
                              s.has_stp_group, s.stp_group)
         ELSE rfq_quote_words_with_owner(owner, s.rfq_id, s.price, s.max_size,
                s.valid_until_ms, s.has_stp_group, s.stp_group)

\* Mutant: the owner comes last, before the nonce.
BindOwnerLast(words, owner) == words \o (IF owner = Absent THEN <<>> ELSE <<owner>>)

BindOwner(words, owner) == (IF owner = Absent THEN <<>> ELSE <<owner>>) \o words

EncodeData(k, s, owner) ==
  CASE k \in DOMAIN AccountTypes -> AccountWords(k, s, owner)
    [] k \in DOMAIN RfqTypes -> RfqWords(k, s, owner)
    [] OTHER -> BindOwner([i \in DOMAIN Words[k] |-> s[Words[k][i]]], owner)

-----------------------------------------------------------------------------
\* An expiry other than zero lengthens the type string and adds a last word.
FoldedType(k, owner, expires) ==
  [TypeString(k, owner) EXCEPT !.names =
     IF expires = 0 THEN @ ELSE Append(@, "expires_after")]

\* The words, then the nonce, then the expiry unless it is zero.
HashStruct(k, s, owner, n, expires) ==
  [type |-> FoldedType(k, owner, expires), words |-> EncodeData(k, s, owner),
   nonce |-> n, expires |-> expires]
=============================================================================
