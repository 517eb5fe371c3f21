--------------------------- MODULE ActionMethods ---------------------------
(***************************************************************************)
(* The methods of Exchange that sign a typed account action: the ones of   *)
(* rest/exchange_typed.rs, which take the fields one by one, the ones of   *)
(* rest/exchange.rs, which take a params struct and call the former with   *)
(* its fields in a fixed order, and the params structs themselves          *)
(* (types/*.rs).  A method goes by the tag it posts, so the _typed of its  *)
(* name and an _as of the same tag are left out; so are the wallet and the *)
(* owner among the arguments.  An argument goes by the name of the field   *)
(* it fills.                                                               *)
(***************************************************************************)
EXTENDS TypedActions

-----------------------------------------------------------------------------
(* rest/exchange_typed.rs: what each method takes, in order.                *)

TransferMethods ==
  [send_asset |-> <<"source_dex", "destination_dex", "asset", "destination", "amount",
                    "to_perp">>,
   usd_class_transfer |-> <<"ntl", "to_perp">>,
   withdraw |-> <<"asset", "amount", "destination_chain_id", "use_cctp">>,
   approve_agent |-> <<"agent_address", "agent_name", "expires_at_ms">>]

ReferralMethods ==
  [set_referrer |-> <<"referrer">>, register_referral_code |-> <<"code">>,
   set_referrer_by_code |-> <<"code">>,
   approve_broker_fee |-> <<"builder", "max_fee_bps">>,
   set_display_name |-> <<"display_name">>]

LeverageMethods ==
  [set_position_mode |-> <<"hedge">>, user_portfolio_margin |-> <<"enroll">>,
   convert_to_multi_sig_user |-> <<"signers", "threshold">>,
   update_leverage |-> <<"asset", "leverage", "is_isolated">>]

VaultMethods ==
  [claim_rewards |-> <<"validator">>, link_staking_user |-> <<"target">>,
   create_vault |-> <<"name", "lock_period_secs", "kind">>,
   vault_modify |-> <<"vault_id", "new_name", "new_lock_period_secs",
                      "new_management_fee_bps", "new_paused">>,
   spot_margin_close |-> <<"pair", "limit_px">>]

MarginMethods ==
  [update_isolated_margin |-> <<"asset", "delta">>,
   top_up_isolated_only_margin |-> <<"asset", "amount">>]

StakingMethods ==
  [token_delegate |-> <<"validator", "amount", "is_undelegate", "lock_months">>,
   vault_transfer |-> <<"vault_id", "deposit", "amount">>,
   vault_withdraw |-> <<"vault_id", "shares">>]

SpotMarginMethods ==
  [spot_margin_deposit |-> <<"pair", "amount">>,
   spot_margin_withdraw |-> <<"pair", "amount">>,
   spot_margin_open |-> <<"pair", "size", "limit_px", "borrow">>,
   earn_deposit |-> <<"asset", "amount">>]

BridgeMethods ==
  [earn_withdraw |-> <<"asset", "shares">>,
   agent_set_abstraction |-> <<"user", "kind", "value">>,
   bridge_withdraw |-> <<"chain", "asset", "amount", "dst_addr">>,
   core_evm_transfer |-> <<"amount", "to_evm", "destination", "asset">>]

SubAccountMethods ==
  [send_to_evm_with_data |-> <<"token", "amount", "source_dex", "destination_recipient",
                               "to_perp", "destination_chain_id", "data",
                               "transfer_nonce">>,
   create_sub_account |-> <<"name", "explicit_index", "shared_stp_group">>,
   sub_account_transfer |-> <<"sub_index", "deposit", "amount">>]

AbstractionMethods ==
  [sub_account_spot_transfer |-> <<"sub_index", "token", "deposit", "amount">>,
   c_deposit |-> <<"amount">>, c_withdraw |-> <<"amount">>,
   user_set_abstraction |-> <<"kind", "value">>, priority_bid |-> <<"asset", "bid_bps">>]

CancelMethods ==
  [cancel_all_orders |-> <<"asset">>,
   submit_encrypted_order |-> <<"ciphertext", "commitment", "threshold", "target_block",
                                "reveal_deadline_ms">>,
   pm_unenroll |-> <<>>, noop |-> <<>>]

RfqMethods ==
  [rfq_request |-> <<"market", "side", "size", "limit_px", "expiry_ms", "stp_group">>,
   rfq_accept |-> <<"rfq_id", "quote_idx", "size">>]

QuoteMethods ==
  [fba_submit |-> <<"market", "side", "size", "price", "stp_group">>,
   vault_distribute |-> <<"vault_id", "pnl">>,
   rfq_quote |-> <<"rfq_id", "price", "max_size", "valid_until_ms", "stp_group">>]

ClaimMethods ==
  [claim_broker_rewards |-> <<>>, claim_referral_rewards |-> <<>>,
   borrow_lend |-> <<"kind", "amount">>,
   register_metaliquidity_operator |-> <<"vault_id", "operator", "allowed",
         "expires_at_ms">>]

SpotDeployMethods ==
  [spot_register_token |-> <<"symbol", "sz_decimals", "wei_decimals", "max_deploy_fee">>,
   spot_register_pair |-> <<"base", "quote", "name", "max_deploy_fee">>,
   spot_set_pair_params |-> <<"pair", "taker_fee_dbps", "maker_fee_dbps",
                              "min_notional_cents">>,
   spot_set_pair_active |-> <<"pair", "active">>]

SupplyMethods ==
  [spot_seed_holders |-> <<"asset", "holders", "amounts">>,
   spot_finalize_supply |-> <<"asset", "max_supply">>,
   perp_register_asset |-> <<"symbol", "decimals", "name">>,
   perp_set_oracle |-> <<"asset", "oracle_source_mask">>]

PerpParamMethods ==
  [perp_set_leverage |-> <<"asset", "max_leverage">>,
   perp_set_fee_tier |-> <<"asset", "taker_fee_dbps", "maker_fee_dbps",
                           "deployer_fee_bps">>,
   perp_set_maker_rebate |-> <<"asset", "rebate_bps">>,
   perp_set_min_size |-> <<"asset", "min_order_size">>,
   perp_set_oi_cap |-> <<"asset", "oi_cap_units">>]

PerpMarketMethods ==
  [perp_activate_market |-> <<"asset">>, perp_deactivate_market |-> <<"asset">>,
   perp_set_sub_deployers |-> <<"asset", "sub_deployer", "add">>,
   perp_set_sub_deployer_perms |-> <<"asset", "sub_deployer", "permissions">>,
   mip3_set_oracle_px |-> <<"asset", "px">>]

BundleMethods ==
  [multi_sig |-> <<"user", "inner_action_blob", "signatures", "inner_nonce">>]

Methods ==
  Merged({TransferMethods, ReferralMethods, LeverageMethods, VaultMethods,
          MarginMethods, StakingMethods, SpotMarginMethods, BridgeMethods,
          SubAccountMethods, AbstractionMethods, CancelMethods, RfqMethods,
          QuoteMethods, ClaimMethods, SpotDeployMethods, SupplyMethods,
          PerpParamMethods, PerpMarketMethods, BundleMethods})

-----------------------------------------------------------------------------
(* rest/exchange.rs: the fields of the params struct each method hands on,  *)
(* in order.                                                                *)

EarnCalls ==
  [spot_margin_deposit |-> <<"pair", "amount">>,
   spot_margin_withdraw |-> <<"pair", "amount">>,
   spot_margin_open |-> <<"pair", "size", "limit_px", "borrow">>,
   spot_margin_close |-> <<"pair", "limit_px">>, earn_deposit |-> <<"asset", "amount">>,
   earn_withdraw |-> <<"asset", "shares">>]

CancelAllCalls ==
  [cancel_all_orders |-> <<"asset">>]

MarginCalls ==
  [set_position_mode |-> <<"hedge">>,
   update_leverage |-> <<"asset", "leverage", "is_isolated">>,
   update_isolated_margin |-> <<"asset", "delta">>,
   top_up_isolated_only_margin |-> <<"asset", "amount">>,
   user_portfolio_margin |-> <<"enroll">>]

AccountCalls ==
  [set_display_name |-> <<"display_name">>, set_referrer |-> <<"referrer">>,
   register_referral_code |-> <<"code">>, set_referrer_by_code |-> <<"code">>,
   approve_agent |-> <<"agent", "name", "expires_at_ms">>,
   approve_broker_fee |-> <<"builder", "max_bps">>,
   convert_to_multi_sig_user |-> <<"signers", "threshold">>,
   user_set_abstraction |-> <<"kind", "value">>,
   agent_set_abstraction |-> <<"user", "kind", "value">>,
   priority_bid |-> <<"asset", "bid_bps">>]

StakingCalls ==
  [token_delegate |-> <<"validator", "amount", "is_undelegate", "lock_months">>,
   claim_rewards |-> <<"validator">>, link_staking_user |-> <<"target">>,
   submit_encrypted_order |-> <<"ciphertext", "commitment", "threshold", "target_block",
                                "reveal_deadline_ms">>,
   create_vault |-> <<"name", "lock_period_secs", "kind">>,
   vault_transfer |-> <<"vault_id", "deposit", "amount">>,
   vault_modify |-> <<"vault_id", "new_name", "new_lock_period_secs",
                      "new_management_fee_bps", "new_paused">>,
   vault_withdraw |-> <<"vault_id", "shares">>,
   vault_distribute |-> <<"vault_id", "pnl">>]

RfqCalls ==
  [bridge_withdraw |-> <<"chain", "asset", "amount", "dst_addr">>,
   rfq_request |-> <<"market", "side", "size", "limit_px", "expiry_ms", "stp_group">>,
   rfq_accept |-> <<"rfq_id", "quote_idx", "size">>,
   fba_submit |-> <<"market", "side", "size", "price", "stp_group">>,
   borrow_lend |-> <<"kind", "amount">>,
   register_metaliquidity_operator |-> <<"vault_id", "operator", "allowed",
         "expires_at_ms">>]

SpotDeployCalls ==
  [spot_register_token |-> <<"symbol", "sz_decimals", "wei_decimals", "max_deploy_fee">>,
   spot_register_pair |-> <<"base", "quote", "name", "max_deploy_fee">>,
   spot_set_pair_params |-> <<"pair", "taker_fee_dbps", "maker_fee_dbps",
                              "min_notional_cents">>,
   spot_set_pair_active |-> <<"pair", "active">>,
   spot_seed_holders |-> <<"asset", "holders", "amounts">>,
   spot_finalize_supply |-> <<"asset", "max_supply">>]

PerpDeployCalls ==
  [perp_register_asset |-> <<"symbol", "decimals", "name">>,
   perp_set_oracle |-> <<"asset", "oracle_source_mask">>,
   perp_set_leverage |-> <<"asset", "max_leverage">>,
   perp_set_fee_tier |-> <<"asset", "taker_fee_dbps", "maker_fee_dbps",
                           "deployer_fee_bps">>,
   perp_set_maker_rebate |-> <<"asset", "rebate_bps">>,
   perp_set_min_size |-> <<"asset", "min_order_size">>,
   perp_set_oi_cap |-> <<"asset", "oi_cap_units">>, perp_activate_market |-> <<"asset">>,
   perp_deactivate_market |-> <<"asset">>,
   perp_set_sub_deployers |-> <<"asset", "sub_deployer", "add">>,
   mip3_set_oracle_px |-> <<"asset", "px">>]

Delegates ==
  Merged({EarnCalls, CancelAllCalls, MarginCalls, AccountCalls, StakingCalls, RfqCalls,
          SpotDeployCalls, PerpDeployCalls})

-----------------------------------------------------------------------------
(* types/*.rs: the fields of the params structs; "?" is an Option.  Numbers *)
(* that exceed 64 bits, "u128" and "i128", are those of the RFQ and FBA     *)
(* structs.                                                                 *)

AccountParams ==
  [update_leverage |-> [asset |-> "u32", leverage |-> "u32", is_isolated |-> "bool"],
   update_isolated_margin |-> [asset |-> "u32", delta |-> "string"],
   top_up_isolated_only_margin |-> [asset |-> "u32", amount |-> "string"],
   user_portfolio_margin |-> [enroll |-> "bool"],
   set_display_name |-> [display_name |-> "string"],
   set_referrer |-> [referrer |-> "address"],
   register_referral_code |-> [code |-> "code"],
   set_referrer_by_code |-> [code |-> "code"],
   approve_agent |-> [agent |-> "address", name |-> "string?", expires_at_ms |-> "u64?"],
   approve_broker_fee |-> [builder |-> "address", max_bps |-> "u16"],
   convert_to_multi_sig_user |-> [signers |-> "address[]", threshold |-> "u32"]]

AbstractionParams ==
  [user_set_abstraction |-> [kind |-> "u8", value |-> "string"],
   agent_set_abstraction |-> [user |-> "address", kind |-> "u8", value |-> "string"],
   priority_bid |-> [asset |-> "u32", bid_bps |-> "u16"]]

StakingParams ==
  [token_delegate |-> [validator |-> "address", amount |-> "string",
                       is_undelegate |-> "bool", lock_months |-> "u8"],
   claim_rewards |-> [validator |-> "address?"],
   link_staking_user |-> [target |-> "address"]]

VaultParams ==
  [create_vault |-> [name |-> "string", lock_period_secs |-> "u64", parent |-> "u64?",
                     kind |-> "vault_kind"],
   vault_transfer |-> [vault_id |-> "u64", deposit |-> "bool", amount |-> "string"],
   vault_modify |-> [vault_id |-> "u64", new_name |-> "string?",
                     new_lock_period_secs |-> "u64?", new_management_fee_bps |-> "u16?",
                     new_paused |-> "bool?"],
   vault_withdraw |-> [vault_id |-> "u64", shares |-> "string"],
   vault_distribute |-> [vault_id |-> "u64", pnl |-> "string"],
   register_metaliquidity_operator |-> [vault_id |-> "u64", operator |-> "address",
         allowed |-> "bool", expires_at_ms |-> "u64"]]

BridgeParams ==
  [bridge_withdraw |-> [chain |-> "chain", asset |-> "u32", amount |-> "u64",
                        dst_addr |-> "string"]]

BoleParams ==
  [borrow_lend |-> [kind |-> "lend_kind", amount |-> "string"]]

EncryptedParams ==
  [submit_encrypted_order |-> [ciphertext |-> "bytes", commitment |-> "bytes32",
                               threshold |-> "u8", target_block |-> "u64",
                               reveal_deadline_ms |-> "u64"]]

FbaParams ==
  [fba_submit |-> [market |-> "u32", side |-> "side", size |-> "u128", price |-> "i128",
                   stp_group |-> "u64?"]]

RfqParams ==
  [rfq_request |-> [market |-> "u32", side |-> "side", size |-> "u128",
                    limit_px |-> "i128?", expiry_ms |-> "u64", stp_group |-> "u64?"],
   rfq_accept |-> [rfq_id |-> "u64", quote_idx |-> "u32", size |-> "u128"]]

SpotMarginParams ==
  [spot_margin_deposit |-> [pair |-> "u32", amount |-> "string"],
   spot_margin_withdraw |-> [pair |-> "u32", amount |-> "string"],
   spot_margin_open |-> [pair |-> "u32", size |-> "u64", limit_px |-> "u64",
                         borrow |-> "string"],
   spot_margin_close |-> [pair |-> "u32", limit_px |-> "u64"],
   earn_deposit |-> [asset |-> "u32", amount |-> "string"],
   earn_withdraw |-> [asset |-> "u32", shares |-> "string"]]

SpotDeployParams ==
  [spot_register_token |-> [symbol |-> "string", sz_decimals |-> "u8",
                            wei_decimals |-> "u8", max_deploy_fee |-> "string"],
   spot_register_pair |-> [base |-> "u32", quote |-> "u32", name |-> "string",
                           max_deploy_fee |-> "string"],
   spot_set_pair_params |-> [pair |-> "u32", taker_fee_dbps |-> "u32",
                             maker_fee_dbps |-> "u32", min_notional_cents |-> "u64"],
   spot_set_pair_active |-> [pair |-> "u32", active |-> "bool"],
   spot_seed_holders |-> [asset |-> "u32", holders |-> "address[]",
                          amounts |-> "string[]"],
   spot_finalize_supply |-> [asset |-> "u32", max_supply |-> "string"]]

PerpRegisterParams ==
  [perp_register_asset |-> [symbol |-> "string", decimals |-> "u8", name |-> "string"],
   perp_set_oracle |-> [asset |-> "u32", oracle_source_mask |-> "u16"],
   perp_set_leverage |-> [asset |-> "u32", max_leverage |-> "u8"],
   perp_set_fee_tier |-> [asset |-> "u32", taker_fee_dbps |-> "u32",
                          maker_fee_dbps |-> "u32", deployer_fee_bps |-> "u32"],
   perp_set_maker_rebate |-> [asset |-> "u32", rebate_bps |-> "u16"],
   perp_set_min_size |-> [asset |-> "u32", min_order_size |-> "u64"]]

PerpMarketParams ==
  [perp_set_oi_cap |-> [asset |-> "u32", oi_cap_units |-> "u64"],
   perp_activate_market |-> [asset |-> "u32"],
   perp_deactivate_market |-> [asset |-> "u32"],
   perp_set_sub_deployers |-> [asset |-> "u32", sub_deployer |-> "address",
                               add |-> "bool"],
   mip3_set_oracle_px |-> [asset |-> "u32", px |-> "string"]]

OrderParams ==
  [cancel_all_orders |-> [asset |-> "u32?"]]

Params ==
  Merged({OrderParams, AccountParams, AbstractionParams, StakingParams, VaultParams,
          BridgeParams, BoleParams, EncryptedParams, FbaParams, RfqParams,
          SpotMarginParams, SpotDeployParams, PerpRegisterParams, PerpMarketParams})
=============================================================================
