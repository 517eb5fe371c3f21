-------------------------- MODULE AccountLaneProofs --------------------------
(***************************************************************************)
(* Why a signed account action means what was asked, and is posted as it   *)
(* was signed, for any requests that the types of the methods admit: the   *)
(* theorems at the end.  The tables of structs, type strings, words and    *)
(* methods are looked up one by one, so that the rest of the argument is   *)
(* about one request and one field.                                        *)
(***************************************************************************)
EXTENDS AccountLane, TLAPS, SequenceTheorems

-----------------------------------------------------------------------------
(* The tables: what a key of one of them holds.                           *)

-----------------------------------------------------------------------------
(* The tables: a row of a merged table is the row of the part it is in.     *)

\* Tables that share no key.
Disjoint(tables) == \A t, u \in tables : t = u \/ DOMAIN t \cap DOMAIN u = {}

\* A table that meets no other holds in the merged one what it held before.
LEMMA MergedAt ==
  ASSUME NEW tables, Disjoint(tables), NEW t \in tables, NEW k \in DOMAIN t
  PROVE  k \in DOMAIN Merged(tables) /\ Merged(tables)[k] = t[k]
  BY DEF Merged, Disjoint

\* The merged table holds the keys of the tables, and no other.
LEMMA MergedFrom ==
  ASSUME NEW tables, NEW k \in DOMAIN Merged(tables)
  PROVE  \E t \in tables : k \in DOMAIN t
  BY DEF Merged

\* No two tables of structs share an action.
LEMMA StructsApart ==
  /\ DOMAIN FundStructs \cap
       (DOMAIN MarginStructs \cup DOMAIN LendingStructs \cup DOMAIN RewardStructs \cup
        DOMAIN OperatorStructs \cup DOMAIN AccountStructs \cup DOMAIN RfqStructs \cup
        DOMAIN SpotDeployStructs \cup DOMAIN PerpDeployStructs) = {}
  /\ DOMAIN MarginStructs \cap
       (DOMAIN LendingStructs \cup DOMAIN RewardStructs \cup DOMAIN OperatorStructs \cup
        DOMAIN AccountStructs \cup DOMAIN RfqStructs \cup DOMAIN SpotDeployStructs \cup
        DOMAIN PerpDeployStructs) = {}
  /\ DOMAIN LendingStructs \cap
       (DOMAIN RewardStructs \cup DOMAIN OperatorStructs \cup DOMAIN AccountStructs \cup
        DOMAIN RfqStructs \cup DOMAIN SpotDeployStructs \cup DOMAIN PerpDeployStructs) = {}
  /\ DOMAIN RewardStructs \cap
       (DOMAIN OperatorStructs \cup DOMAIN AccountStructs \cup DOMAIN RfqStructs \cup
        DOMAIN SpotDeployStructs \cup DOMAIN PerpDeployStructs) = {}
  /\ DOMAIN OperatorStructs \cap
       (DOMAIN AccountStructs \cup DOMAIN RfqStructs \cup DOMAIN SpotDeployStructs \cup
        DOMAIN PerpDeployStructs) = {}
  /\ DOMAIN AccountStructs \cap
       (DOMAIN RfqStructs \cup DOMAIN SpotDeployStructs \cup DOMAIN PerpDeployStructs) = {}
  /\ DOMAIN RfqStructs \cap
       (DOMAIN SpotDeployStructs \cup DOMAIN PerpDeployStructs) = {}
  /\ DOMAIN SpotDeployStructs \cap (DOMAIN PerpDeployStructs) = {}
  BY DEF FundStructs, MarginStructs, LendingStructs, RewardStructs, OperatorStructs,
         AccountStructs, RfqStructs, SpotDeployStructs, PerpDeployStructs

\* Each struct is the one that its table gives.
LEMMA StructsAt ==
  /\ \A k \in DOMAIN FundStructs : k \in DOMAIN Structs /\ Structs[k] = FundStructs[k]
  /\ \A k \in DOMAIN MarginStructs : k \in DOMAIN Structs /\ Structs[k] = MarginStructs[k]
  /\ \A k \in DOMAIN LendingStructs : k \in DOMAIN Structs /\ Structs[k] = LendingStructs[k]
  /\ \A k \in DOMAIN RewardStructs : k \in DOMAIN Structs /\ Structs[k] = RewardStructs[k]
  /\ \A k \in DOMAIN OperatorStructs : k \in DOMAIN Structs /\ Structs[k] = OperatorStructs[k]
  /\ \A k \in DOMAIN AccountStructs : k \in DOMAIN Structs /\ Structs[k] = AccountStructs[k]
  /\ \A k \in DOMAIN RfqStructs : k \in DOMAIN Structs /\ Structs[k] = RfqStructs[k]
  /\ \A k \in DOMAIN SpotDeployStructs : k \in DOMAIN Structs
    /\ Structs[k] = SpotDeployStructs[k]
  /\ \A k \in DOMAIN PerpDeployStructs : k \in DOMAIN Structs
    /\ Structs[k] = PerpDeployStructs[k]
<1> DEFINE tables == {FundStructs, MarginStructs, LendingStructs, RewardStructs,
                      OperatorStructs, AccountStructs, RfqStructs, SpotDeployStructs,
                      PerpDeployStructs}
<1>2. Disjoint(tables)
  BY StructsApart DEF Disjoint
<1>3. Structs = Merged(tables)
  BY DEF Structs
<1>4. FundStructs \in tables /\ MarginStructs \in tables /\ LendingStructs \in tables /\
      RewardStructs \in tables /\ OperatorStructs \in tables /\
      AccountStructs \in tables /\ RfqStructs \in tables /\
      SpotDeployStructs \in tables /\ PerpDeployStructs \in tables
  OBVIOUS
<1> HIDE DEF tables
<1> QED BY <1>2, <1>3, <1>4, MergedAt

\* The same of the frozen type strings ...
LEMMA TypesAt ==
  /\ \A k \in DOMAIN FundTypes : k \in DOMAIN Types /\ Types[k] = FundTypes[k]
  /\ \A k \in DOMAIN MarginTypes : k \in DOMAIN Types /\ Types[k] = MarginTypes[k]
  /\ \A k \in DOMAIN LendingTypes : k \in DOMAIN Types /\ Types[k] = LendingTypes[k]
  /\ \A k \in DOMAIN RewardTypes : k \in DOMAIN Types /\ Types[k] = RewardTypes[k]
  /\ \A k \in DOMAIN OperatorTypes : k \in DOMAIN Types /\ Types[k] = OperatorTypes[k]
  /\ \A k \in DOMAIN AccountTypes : k \in DOMAIN Types /\ Types[k] = AccountTypes[k]
  /\ \A k \in DOMAIN RfqTypes : k \in DOMAIN Types /\ Types[k] = RfqTypes[k]
  /\ \A k \in DOMAIN SpotDeployTypes : k \in DOMAIN Types /\ Types[k] = SpotDeployTypes[k]
  /\ \A k \in DOMAIN PerpDeployTypes : k \in DOMAIN Types /\ Types[k] = PerpDeployTypes[k]
<1> DEFINE tables == {FundTypes, MarginTypes, LendingTypes, RewardTypes, OperatorTypes,
                      AccountTypes, RfqTypes, SpotDeployTypes, PerpDeployTypes}
<1>1. DOMAIN FundTypes = DOMAIN FundStructs /\
      DOMAIN MarginTypes = DOMAIN MarginStructs /\
      DOMAIN LendingTypes = DOMAIN LendingStructs /\
      DOMAIN RewardTypes = DOMAIN RewardStructs /\
      DOMAIN OperatorTypes = DOMAIN OperatorStructs /\
      DOMAIN AccountTypes = DOMAIN AccountStructs /\
      DOMAIN RfqTypes = DOMAIN RfqStructs /\
      DOMAIN SpotDeployTypes = DOMAIN SpotDeployStructs /\
      DOMAIN PerpDeployTypes = DOMAIN PerpDeployStructs
  BY DEF FundTypes, MarginTypes, LendingTypes, RewardTypes, OperatorTypes, AccountTypes,
         RfqTypes, SpotDeployTypes, PerpDeployTypes, FundStructs, MarginStructs,
         LendingStructs, RewardStructs, OperatorStructs, AccountStructs, RfqStructs,
         SpotDeployStructs, PerpDeployStructs
<1>2. Disjoint(tables)
  BY <1>1, StructsApart DEF Disjoint
<1>3. Types = Merged(tables)
  BY DEF Types
<1>4. FundTypes \in tables /\ MarginTypes \in tables /\ LendingTypes \in tables /\
      RewardTypes \in tables /\ OperatorTypes \in tables /\ AccountTypes \in tables /\
      RfqTypes \in tables /\ SpotDeployTypes \in tables /\ PerpDeployTypes \in tables
  OBVIOUS
<1> HIDE DEF tables
<1> QED BY <1>2, <1>3, <1>4, MergedAt

\* ... and of the words.
LEMMA WordsAt ==
  /\ \A k \in DOMAIN FundWords : k \in DOMAIN Words /\ Words[k] = FundWords[k]
  /\ \A k \in DOMAIN MarginWords : k \in DOMAIN Words /\ Words[k] = MarginWords[k]
  /\ \A k \in DOMAIN LendingWords : k \in DOMAIN Words /\ Words[k] = LendingWords[k]
  /\ \A k \in DOMAIN RewardWords : k \in DOMAIN Words /\ Words[k] = RewardWords[k]
  /\ \A k \in DOMAIN OperatorWords : k \in DOMAIN Words /\ Words[k] = OperatorWords[k]
  /\ \A k \in DOMAIN SpotDeployWords : k \in DOMAIN Words /\ Words[k] = SpotDeployWords[k]
  /\ \A k \in DOMAIN PerpDeployWords : k \in DOMAIN Words /\ Words[k] = PerpDeployWords[k]
<1> DEFINE tables == {FundWords, MarginWords, LendingWords, RewardWords, OperatorWords,
                      SpotDeployWords, PerpDeployWords}
<1>1. DOMAIN FundWords = DOMAIN FundStructs /\
      DOMAIN MarginWords = DOMAIN MarginStructs /\
      DOMAIN LendingWords = DOMAIN LendingStructs /\
      DOMAIN RewardWords = DOMAIN RewardStructs /\
      DOMAIN OperatorWords = DOMAIN OperatorStructs /\
      DOMAIN SpotDeployWords = DOMAIN SpotDeployStructs /\
      DOMAIN PerpDeployWords = DOMAIN PerpDeployStructs
  BY DEF FundWords, MarginWords, LendingWords, RewardWords, OperatorWords,
         SpotDeployWords, PerpDeployWords, FundStructs, MarginStructs, LendingStructs,
         RewardStructs, OperatorStructs, SpotDeployStructs, PerpDeployStructs
<1>2. Disjoint(tables)
  BY <1>1, StructsApart DEF Disjoint
<1>3. Words = Merged(tables)
  BY DEF Words
<1>4. FundWords \in tables /\ MarginWords \in tables /\ LendingWords \in tables /\
      RewardWords \in tables /\ OperatorWords \in tables /\
      SpotDeployWords \in tables /\ PerpDeployWords \in tables
  OBVIOUS
<1> HIDE DEF tables
<1> QED BY <1>2, <1>3, <1>4, MergedAt

\* No two tables of methods share a tag.
LEMMA MethodsApart ==
  /\ DOMAIN TransferMethods \cap
       (DOMAIN ReferralMethods \cup DOMAIN LeverageMethods \cup DOMAIN VaultMethods \cup
        DOMAIN MarginMethods \cup DOMAIN StakingMethods \cup
        DOMAIN SpotMarginMethods \cup DOMAIN BridgeMethods \cup
        DOMAIN SubAccountMethods \cup DOMAIN AbstractionMethods \cup
        DOMAIN CancelMethods \cup DOMAIN RfqMethods \cup DOMAIN QuoteMethods \cup
        DOMAIN ClaimMethods \cup DOMAIN SpotDeployMethods \cup DOMAIN SupplyMethods \cup
        DOMAIN PerpParamMethods \cup DOMAIN PerpMarketMethods \cup DOMAIN BundleMethods) = {}
  /\ DOMAIN ReferralMethods \cap
       (DOMAIN LeverageMethods \cup DOMAIN VaultMethods \cup DOMAIN MarginMethods \cup
        DOMAIN StakingMethods \cup DOMAIN SpotMarginMethods \cup
        DOMAIN BridgeMethods \cup DOMAIN SubAccountMethods \cup
        DOMAIN AbstractionMethods \cup DOMAIN CancelMethods \cup DOMAIN RfqMethods \cup
        DOMAIN QuoteMethods \cup DOMAIN ClaimMethods \cup DOMAIN SpotDeployMethods \cup
        DOMAIN SupplyMethods \cup DOMAIN PerpParamMethods \cup
        DOMAIN PerpMarketMethods \cup DOMAIN BundleMethods) = {}
  /\ DOMAIN LeverageMethods \cap
       (DOMAIN VaultMethods \cup DOMAIN MarginMethods \cup DOMAIN StakingMethods \cup
        DOMAIN SpotMarginMethods \cup DOMAIN BridgeMethods \cup
        DOMAIN SubAccountMethods \cup DOMAIN AbstractionMethods \cup
        DOMAIN CancelMethods \cup DOMAIN RfqMethods \cup DOMAIN QuoteMethods \cup
        DOMAIN ClaimMethods \cup DOMAIN SpotDeployMethods \cup DOMAIN SupplyMethods \cup
        DOMAIN PerpParamMethods \cup DOMAIN PerpMarketMethods \cup DOMAIN BundleMethods) = {}
  /\ DOMAIN VaultMethods \cap
       (DOMAIN MarginMethods \cup DOMAIN StakingMethods \cup
        DOMAIN SpotMarginMethods \cup DOMAIN BridgeMethods \cup
        DOMAIN SubAccountMethods \cup DOMAIN AbstractionMethods \cup
        DOMAIN CancelMethods \cup DOMAIN RfqMethods \cup DOMAIN QuoteMethods \cup
        DOMAIN ClaimMethods \cup DOMAIN SpotDeployMethods \cup DOMAIN SupplyMethods \cup
        DOMAIN PerpParamMethods \cup DOMAIN PerpMarketMethods \cup DOMAIN BundleMethods) = {}
  /\ DOMAIN MarginMethods \cap
       (DOMAIN StakingMethods \cup DOMAIN SpotMarginMethods \cup
        DOMAIN BridgeMethods \cup DOMAIN SubAccountMethods \cup
        DOMAIN AbstractionMethods \cup DOMAIN CancelMethods \cup DOMAIN RfqMethods \cup
        DOMAIN QuoteMethods \cup DOMAIN ClaimMethods \cup DOMAIN SpotDeployMethods \cup
        DOMAIN SupplyMethods \cup DOMAIN PerpParamMethods \cup
        DOMAIN PerpMarketMethods \cup DOMAIN BundleMethods) = {}
  /\ DOMAIN StakingMethods \cap
       (DOMAIN SpotMarginMethods \cup DOMAIN BridgeMethods \cup
        DOMAIN SubAccountMethods \cup DOMAIN AbstractionMethods \cup
        DOMAIN CancelMethods \cup DOMAIN RfqMethods \cup DOMAIN QuoteMethods \cup
        DOMAIN ClaimMethods \cup DOMAIN SpotDeployMethods \cup DOMAIN SupplyMethods \cup
        DOMAIN PerpParamMethods \cup DOMAIN PerpMarketMethods \cup DOMAIN BundleMethods) = {}
  /\ DOMAIN SpotMarginMethods \cap
       (DOMAIN BridgeMethods \cup DOMAIN SubAccountMethods \cup
        DOMAIN AbstractionMethods \cup DOMAIN CancelMethods \cup DOMAIN RfqMethods \cup
        DOMAIN QuoteMethods \cup DOMAIN ClaimMethods \cup DOMAIN SpotDeployMethods \cup
        DOMAIN SupplyMethods \cup DOMAIN PerpParamMethods \cup
        DOMAIN PerpMarketMethods \cup DOMAIN BundleMethods) = {}
  /\ DOMAIN BridgeMethods \cap
       (DOMAIN SubAccountMethods \cup DOMAIN AbstractionMethods \cup
        DOMAIN CancelMethods \cup DOMAIN RfqMethods \cup DOMAIN QuoteMethods \cup
        DOMAIN ClaimMethods \cup DOMAIN SpotDeployMethods \cup DOMAIN SupplyMethods \cup
        DOMAIN PerpParamMethods \cup DOMAIN PerpMarketMethods \cup DOMAIN BundleMethods) = {}
  /\ DOMAIN SubAccountMethods \cap
       (DOMAIN AbstractionMethods \cup DOMAIN CancelMethods \cup DOMAIN RfqMethods \cup
        DOMAIN QuoteMethods \cup DOMAIN ClaimMethods \cup DOMAIN SpotDeployMethods \cup
        DOMAIN SupplyMethods \cup DOMAIN PerpParamMethods \cup
        DOMAIN PerpMarketMethods \cup DOMAIN BundleMethods) = {}
  /\ DOMAIN AbstractionMethods \cap
       (DOMAIN CancelMethods \cup DOMAIN RfqMethods \cup DOMAIN QuoteMethods \cup
        DOMAIN ClaimMethods \cup DOMAIN SpotDeployMethods \cup DOMAIN SupplyMethods \cup
        DOMAIN PerpParamMethods \cup DOMAIN PerpMarketMethods \cup DOMAIN BundleMethods) = {}
  /\ DOMAIN CancelMethods \cap
       (DOMAIN RfqMethods \cup DOMAIN QuoteMethods \cup DOMAIN ClaimMethods \cup
        DOMAIN SpotDeployMethods \cup DOMAIN SupplyMethods \cup
        DOMAIN PerpParamMethods \cup DOMAIN PerpMarketMethods \cup DOMAIN BundleMethods) = {}
  /\ DOMAIN RfqMethods \cap
       (DOMAIN QuoteMethods \cup DOMAIN ClaimMethods \cup DOMAIN SpotDeployMethods \cup
        DOMAIN SupplyMethods \cup DOMAIN PerpParamMethods \cup
        DOMAIN PerpMarketMethods \cup DOMAIN BundleMethods) = {}
  /\ DOMAIN QuoteMethods \cap
       (DOMAIN ClaimMethods \cup DOMAIN SpotDeployMethods \cup DOMAIN SupplyMethods \cup
        DOMAIN PerpParamMethods \cup DOMAIN PerpMarketMethods \cup DOMAIN BundleMethods) = {}
  /\ DOMAIN ClaimMethods \cap
       (DOMAIN SpotDeployMethods \cup DOMAIN SupplyMethods \cup
        DOMAIN PerpParamMethods \cup DOMAIN PerpMarketMethods \cup DOMAIN BundleMethods) = {}
  /\ DOMAIN SpotDeployMethods \cap
       (DOMAIN SupplyMethods \cup DOMAIN PerpParamMethods \cup
        DOMAIN PerpMarketMethods \cup DOMAIN BundleMethods) = {}
  /\ DOMAIN SupplyMethods \cap
       (DOMAIN PerpParamMethods \cup DOMAIN PerpMarketMethods \cup DOMAIN BundleMethods) = {}
  /\ DOMAIN PerpParamMethods \cap
       (DOMAIN PerpMarketMethods \cup DOMAIN BundleMethods) = {}
  /\ DOMAIN PerpMarketMethods \cap (DOMAIN BundleMethods) = {}
  BY DEF TransferMethods, ReferralMethods, LeverageMethods, VaultMethods, MarginMethods,
         StakingMethods, SpotMarginMethods, BridgeMethods, SubAccountMethods,
         AbstractionMethods, CancelMethods, RfqMethods, QuoteMethods, ClaimMethods,
         SpotDeployMethods, SupplyMethods, PerpParamMethods, PerpMarketMethods,
         BundleMethods

\* Each method takes what its table says.
LEMMA MethodsAt ==
  /\ \A k \in DOMAIN TransferMethods : k \in DOMAIN Methods /\ Methods[k] = TransferMethods[k]
  /\ \A k \in DOMAIN ReferralMethods : k \in DOMAIN Methods /\ Methods[k] = ReferralMethods[k]
  /\ \A k \in DOMAIN LeverageMethods : k \in DOMAIN Methods /\ Methods[k] = LeverageMethods[k]
  /\ \A k \in DOMAIN VaultMethods : k \in DOMAIN Methods /\ Methods[k] = VaultMethods[k]
  /\ \A k \in DOMAIN MarginMethods : k \in DOMAIN Methods /\ Methods[k] = MarginMethods[k]
  /\ \A k \in DOMAIN StakingMethods : k \in DOMAIN Methods /\ Methods[k] = StakingMethods[k]
  /\ \A k \in DOMAIN SpotMarginMethods : k \in DOMAIN Methods
    /\ Methods[k] = SpotMarginMethods[k]
  /\ \A k \in DOMAIN BridgeMethods : k \in DOMAIN Methods /\ Methods[k] = BridgeMethods[k]
  /\ \A k \in DOMAIN SubAccountMethods : k \in DOMAIN Methods
    /\ Methods[k] = SubAccountMethods[k]
  /\ \A k \in DOMAIN AbstractionMethods : k \in DOMAIN Methods
    /\ Methods[k] = AbstractionMethods[k]
  /\ \A k \in DOMAIN CancelMethods : k \in DOMAIN Methods /\ Methods[k] = CancelMethods[k]
  /\ \A k \in DOMAIN RfqMethods : k \in DOMAIN Methods /\ Methods[k] = RfqMethods[k]
  /\ \A k \in DOMAIN QuoteMethods : k \in DOMAIN Methods /\ Methods[k] = QuoteMethods[k]
  /\ \A k \in DOMAIN ClaimMethods : k \in DOMAIN Methods /\ Methods[k] = ClaimMethods[k]
  /\ \A k \in DOMAIN SpotDeployMethods : k \in DOMAIN Methods
    /\ Methods[k] = SpotDeployMethods[k]
  /\ \A k \in DOMAIN SupplyMethods : k \in DOMAIN Methods /\ Methods[k] = SupplyMethods[k]
  /\ \A k \in DOMAIN PerpParamMethods : k \in DOMAIN Methods /\ Methods[k] = PerpParamMethods[k]
  /\ \A k \in DOMAIN PerpMarketMethods : k \in DOMAIN Methods
    /\ Methods[k] = PerpMarketMethods[k]
  /\ \A k \in DOMAIN BundleMethods : k \in DOMAIN Methods /\ Methods[k] = BundleMethods[k]
<1> DEFINE tables == {TransferMethods, ReferralMethods, LeverageMethods, VaultMethods,
                      MarginMethods, StakingMethods, SpotMarginMethods, BridgeMethods,
                      SubAccountMethods, AbstractionMethods, CancelMethods, RfqMethods,
                      QuoteMethods, ClaimMethods, SpotDeployMethods, SupplyMethods,
                      PerpParamMethods, PerpMarketMethods, BundleMethods}
<1>2. Disjoint(tables)
  BY MethodsApart DEF Disjoint
<1>3. Methods = Merged(tables)
  BY DEF Methods
<1>4. TransferMethods \in tables /\ ReferralMethods \in tables /\
      LeverageMethods \in tables /\ VaultMethods \in tables /\
      MarginMethods \in tables /\ StakingMethods \in tables /\
      SpotMarginMethods \in tables /\ BridgeMethods \in tables /\
      SubAccountMethods \in tables /\ AbstractionMethods \in tables /\
      CancelMethods \in tables /\ RfqMethods \in tables /\ QuoteMethods \in tables /\
      ClaimMethods \in tables /\ SpotDeployMethods \in tables /\
      SupplyMethods \in tables /\ PerpParamMethods \in tables /\
      PerpMarketMethods \in tables /\ BundleMethods \in tables
  OBVIOUS
<1> HIDE DEF tables
<1> QED BY <1>2, <1>3, <1>4, MergedAt

\* No two tables of the methods of exchange.rs share a tag.
LEMMA CallsApart ==
  /\ DOMAIN EarnCalls \cap
       (DOMAIN CancelAllCalls \cup DOMAIN MarginCalls \cup DOMAIN AccountCalls \cup
        DOMAIN StakingCalls \cup DOMAIN RfqCalls \cup DOMAIN SpotDeployCalls \cup
        DOMAIN PerpDeployCalls) = {}
  /\ DOMAIN CancelAllCalls \cap
       (DOMAIN MarginCalls \cup DOMAIN AccountCalls \cup DOMAIN StakingCalls \cup
        DOMAIN RfqCalls \cup DOMAIN SpotDeployCalls \cup DOMAIN PerpDeployCalls) = {}
  /\ DOMAIN MarginCalls \cap
       (DOMAIN AccountCalls \cup DOMAIN StakingCalls \cup DOMAIN RfqCalls \cup
        DOMAIN SpotDeployCalls \cup DOMAIN PerpDeployCalls) = {}
  /\ DOMAIN AccountCalls \cap
       (DOMAIN StakingCalls \cup DOMAIN RfqCalls \cup DOMAIN SpotDeployCalls \cup
        DOMAIN PerpDeployCalls) = {}
  /\ DOMAIN StakingCalls \cap
       (DOMAIN RfqCalls \cup DOMAIN SpotDeployCalls \cup DOMAIN PerpDeployCalls) = {}
  /\ DOMAIN RfqCalls \cap (DOMAIN SpotDeployCalls \cup DOMAIN PerpDeployCalls) = {}
  /\ DOMAIN SpotDeployCalls \cap (DOMAIN PerpDeployCalls) = {}
  BY DEF EarnCalls, CancelAllCalls, MarginCalls, AccountCalls, StakingCalls, RfqCalls,
         SpotDeployCalls, PerpDeployCalls

\* Each of them hands on what its table says.
LEMMA DelegatesAt ==
  /\ \A k \in DOMAIN EarnCalls : k \in DOMAIN Delegates /\ Delegates[k] = EarnCalls[k]
  /\ \A k \in DOMAIN CancelAllCalls : k \in DOMAIN Delegates /\ Delegates[k] = CancelAllCalls[k]
  /\ \A k \in DOMAIN MarginCalls : k \in DOMAIN Delegates /\ Delegates[k] = MarginCalls[k]
  /\ \A k \in DOMAIN AccountCalls : k \in DOMAIN Delegates /\ Delegates[k] = AccountCalls[k]
  /\ \A k \in DOMAIN StakingCalls : k \in DOMAIN Delegates /\ Delegates[k] = StakingCalls[k]
  /\ \A k \in DOMAIN RfqCalls : k \in DOMAIN Delegates /\ Delegates[k] = RfqCalls[k]
  /\ \A k \in DOMAIN SpotDeployCalls : k \in DOMAIN Delegates
    /\ Delegates[k] = SpotDeployCalls[k]
  /\ \A k \in DOMAIN PerpDeployCalls : k \in DOMAIN Delegates
    /\ Delegates[k] = PerpDeployCalls[k]
<1> DEFINE tables == {EarnCalls, CancelAllCalls, MarginCalls, AccountCalls,
                      StakingCalls, RfqCalls, SpotDeployCalls, PerpDeployCalls}
<1>2. Disjoint(tables)
  BY CallsApart DEF Disjoint
<1>3. Delegates = Merged(tables)
  BY DEF Delegates
<1>4. EarnCalls \in tables /\ CancelAllCalls \in tables /\ MarginCalls \in tables /\
      AccountCalls \in tables /\ StakingCalls \in tables /\ RfqCalls \in tables /\
      SpotDeployCalls \in tables /\ PerpDeployCalls \in tables
  OBVIOUS
<1> HIDE DEF tables
<1> QED BY <1>2, <1>3, <1>4, MergedAt

\* A name stands in a row.
Has(row, f) == \E i \in DOMAIN row : row[i] = f

\* A frozen string names the fields of its struct, and nothing else.
Listed(names) == Len(names) \in Nat /\ names = [i \in 1..Len(names) |-> names[i]]
Sound(names, struct) == \A i \in DOMAIN names : names[i] \in DOMAIN struct
Complete(names, struct) == \A f \in DOMAIN struct : Has(names, f)
Unbound(struct) == "owner" \notin DOMAIN struct /\ "expires_after" \notin DOMAIN struct
NamesOf(names, struct) ==
  Listed(names) /\ Sound(names, struct) /\ Complete(names, struct) /\ Unbound(struct)

\* The frozen string of an action names every field of its struct once or more, and
\* nothing else: neither an owner nor an expiry is a field.
LEMMA TypesNamed ==
  \A n \in Actions : n \in DOMAIN Types /\ NamesOf(Types[n], Structs[n])
<1>1. \A n \in Actions : n \in DOMAIN FundStructs \/ n \in DOMAIN MarginStructs \/
        n \in DOMAIN LendingStructs \/ n \in DOMAIN RewardStructs \/
        n \in DOMAIN OperatorStructs \/ n \in DOMAIN AccountStructs \/
        n \in DOMAIN RfqStructs \/ n \in DOMAIN SpotDeployStructs \/
        n \in DOMAIN PerpDeployStructs
  BY MergedFrom DEF Actions, Structs
<1>2. ASSUME NEW n \in DOMAIN FundStructs
      PROVE  n \in DOMAIN Types /\ NamesOf(Types[n], Structs[n])
  <2>1. n \in DOMAIN FundTypes /\ Listed(FundTypes[n])
    BY DEF Listed, FundTypes, FundStructs
  <2>2. Sound(FundTypes[n], FundStructs[n])
    BY DEF Sound, FundTypes, FundStructs
  <2>3. Complete(FundTypes[n], FundStructs[n])
    BY DEF Complete, Has, FundTypes, FundStructs
  <2>4. Unbound(FundStructs[n])
    BY DEF Unbound, FundStructs
  <2> QED BY <2>1, <2>2, <2>3, <2>4, StructsAt, TypesAt DEF NamesOf
<1>3. ASSUME NEW n \in DOMAIN MarginStructs
      PROVE  n \in DOMAIN Types /\ NamesOf(Types[n], Structs[n])
  <2>1. n \in DOMAIN MarginTypes /\ Listed(MarginTypes[n])
    BY DEF Listed, MarginTypes, MarginStructs
  <2>2. Sound(MarginTypes[n], MarginStructs[n])
    BY DEF Sound, MarginTypes, MarginStructs
  <2>3. Complete(MarginTypes[n], MarginStructs[n])
    BY DEF Complete, Has, MarginTypes, MarginStructs
  <2>4. Unbound(MarginStructs[n])
    BY DEF Unbound, MarginStructs
  <2> QED BY <2>1, <2>2, <2>3, <2>4, StructsAt, TypesAt DEF NamesOf
<1>4. ASSUME NEW n \in DOMAIN LendingStructs
      PROVE  n \in DOMAIN Types /\ NamesOf(Types[n], Structs[n])
  <2>1. n \in DOMAIN LendingTypes /\ Listed(LendingTypes[n])
    BY DEF Listed, LendingTypes, LendingStructs
  <2>2. Sound(LendingTypes[n], LendingStructs[n])
    BY DEF Sound, LendingTypes, LendingStructs
  <2>3. Complete(LendingTypes[n], LendingStructs[n])
    BY DEF Complete, Has, LendingTypes, LendingStructs
  <2>4. Unbound(LendingStructs[n])
    BY DEF Unbound, LendingStructs
  <2> QED BY <2>1, <2>2, <2>3, <2>4, StructsAt, TypesAt DEF NamesOf
<1>5. ASSUME NEW n \in DOMAIN RewardStructs
      PROVE  n \in DOMAIN Types /\ NamesOf(Types[n], Structs[n])
  <2>1. n \in DOMAIN RewardTypes /\ Listed(RewardTypes[n])
    BY DEF Listed, RewardTypes, RewardStructs
  <2>2. Sound(RewardTypes[n], RewardStructs[n])
    BY DEF Sound, RewardTypes, RewardStructs, NoField
  <2>3. Complete(RewardTypes[n], RewardStructs[n])
    BY DEF Complete, Has, RewardTypes, RewardStructs, NoField
  <2>4. Unbound(RewardStructs[n])
    BY DEF Unbound, RewardStructs, NoField
  <2> QED BY <2>1, <2>2, <2>3, <2>4, StructsAt, TypesAt DEF NamesOf
<1>6. ASSUME NEW n \in DOMAIN OperatorStructs
      PROVE  n \in DOMAIN Types /\ NamesOf(Types[n], Structs[n])
  <2>1. n \in DOMAIN OperatorTypes /\ Listed(OperatorTypes[n])
    BY DEF Listed, OperatorTypes, OperatorStructs
  <2>2. Sound(OperatorTypes[n], OperatorStructs[n])
    BY DEF Sound, OperatorTypes, OperatorStructs
  <2>3. Complete(OperatorTypes[n], OperatorStructs[n])
    BY DEF Complete, Has, OperatorTypes, OperatorStructs
  <2>4. Unbound(OperatorStructs[n])
    BY DEF Unbound, OperatorStructs
  <2> QED BY <2>1, <2>2, <2>3, <2>4, StructsAt, TypesAt DEF NamesOf
<1>7. ASSUME NEW n \in DOMAIN AccountStructs
      PROVE  n \in DOMAIN Types /\ NamesOf(Types[n], Structs[n])
  <2>1. n \in DOMAIN AccountTypes /\ Listed(AccountTypes[n])
    BY DEF Listed, AccountTypes, AccountStructs
  <2>2. Sound(AccountTypes[n], AccountStructs[n])
    BY DEF Sound, AccountTypes, AccountStructs
  <2>3. Complete(AccountTypes[n], AccountStructs[n])
    BY DEF Complete, Has, AccountTypes, AccountStructs
  <2>4. Unbound(AccountStructs[n])
    BY DEF Unbound, AccountStructs
  <2> QED BY <2>1, <2>2, <2>3, <2>4, StructsAt, TypesAt DEF NamesOf
<1>8. ASSUME NEW n \in DOMAIN RfqStructs
      PROVE  n \in DOMAIN Types /\ NamesOf(Types[n], Structs[n])
  <2>1. n \in DOMAIN RfqTypes /\ Listed(RfqTypes[n])
    BY DEF Listed, RfqTypes, RfqStructs
  <2>2. Sound(RfqTypes[n], RfqStructs[n])
    BY DEF Sound, RfqTypes, RfqStructs, NoField
  <2>3. Complete(RfqTypes[n], RfqStructs[n])
    BY DEF Complete, Has, RfqTypes, RfqStructs, NoField
  <2>4. Unbound(RfqStructs[n])
    BY DEF Unbound, RfqStructs, NoField
  <2> QED BY <2>1, <2>2, <2>3, <2>4, StructsAt, TypesAt DEF NamesOf
<1>9. ASSUME NEW n \in DOMAIN SpotDeployStructs
      PROVE  n \in DOMAIN Types /\ NamesOf(Types[n], Structs[n])
  <2>1. n \in DOMAIN SpotDeployTypes /\ Listed(SpotDeployTypes[n])
    BY DEF Listed, SpotDeployTypes, SpotDeployStructs
  <2>2. Sound(SpotDeployTypes[n], SpotDeployStructs[n])
    BY DEF Sound, SpotDeployTypes, SpotDeployStructs
  <2>3. Complete(SpotDeployTypes[n], SpotDeployStructs[n])
    BY DEF Complete, Has, SpotDeployTypes, SpotDeployStructs
  <2>4. Unbound(SpotDeployStructs[n])
    BY DEF Unbound, SpotDeployStructs
  <2> QED BY <2>1, <2>2, <2>3, <2>4, StructsAt, TypesAt DEF NamesOf
<1>10. ASSUME NEW n \in DOMAIN PerpDeployStructs
       PROVE  n \in DOMAIN Types /\ NamesOf(Types[n], Structs[n])
  <2>1. n \in DOMAIN PerpDeployTypes /\ Listed(PerpDeployTypes[n])
    BY DEF Listed, PerpDeployTypes, PerpDeployStructs
  <2>2. Sound(PerpDeployTypes[n], PerpDeployStructs[n])
    BY DEF Sound, PerpDeployTypes, PerpDeployStructs
  <2>3. Complete(PerpDeployTypes[n], PerpDeployStructs[n])
    BY DEF Complete, Has, PerpDeployTypes, PerpDeployStructs
  <2>4. Unbound(PerpDeployStructs[n])
    BY DEF Unbound, PerpDeployStructs
  <2> QED BY <2>1, <2>2, <2>3, <2>4, StructsAt, TypesAt DEF NamesOf
<1> QED BY <1>1, <1>2, <1>3, <1>4, <1>5, <1>6, <1>7, <1>8, <1>9, <1>10

-----------------------------------------------------------------------------
(* The words of a struct, in the order of its frozen string.              *)

\* The words of a struct in the order of its frozen string.
Spoken(n, s) == [i \in DOMAIN Types[n] |-> s[Types[n][i]]]

\* Nothing before a sequence leaves it as it is.
LEMMA Unprefixed ==
  ASSUME NEW w, Listed(w)
  PROVE  <<>> \o w = w
<1>1. w \in Seq({w[i] : i \in 1..Len(w)})
  BY DEF Listed
<1> QED BY <1>1

\* A sequence that starts with o and goes on as w.
Led(c, o, w) ==
  /\ c = [i \in 1..Len(w) + 1 |-> c[i]] /\ Len(c) = Len(w) + 1
  /\ c[1] = o /\ \A i \in 1..Len(w) : c[i + 1] = w[i]

\* One element before a sequence.
LEMMA Prefixed ==
  ASSUME NEW w, Listed(w), NEW o
  PROVE  Led(<<o>> \o w, o, w)
<1> DEFINE S == {o} \cup {w[i] : i \in 1..Len(w)}
<1>1. w \in Seq(S) /\ <<o>> \in Seq(S) /\ Len(<<o>>) = 1 /\ <<o>>[1] = o
  BY DEF Listed
<1> DEFINE h == <<o>>
<1> HIDE DEF S, h
<1>2. h \in Seq(S) /\ w \in Seq(S) /\ Len(h) = 1 /\ h[1] = o /\ Len(w) \in Nat
  BY <1>1 DEF h, Listed
<1>3. /\ h \o w = [i \in 1..Len(w) + 1 |-> (h \o w)[i]] /\ Len(h \o w) = Len(w) + 1
      /\ (h \o w)[1] = o /\ \A i \in 1..Len(w) : (h \o w)[i + 1] = w[i]
  <2>1. h \o w \in Seq(S) /\ Len(h \o w) = 1 + Len(w)
    BY <1>2, ConcatProperties
  <2>2. \A i \in 1..1 + Len(w) : (h \o w)[i] = IF i <= 1 THEN h[i] ELSE w[i - 1]
    <3>1. \A i \in 1..Len(h) + Len(w) :
            (h \o w)[i] = IF i <= Len(h) THEN h[i] ELSE w[i - Len(h)]
      BY <1>2, ConcatProperties, Zenon
    <3> QED BY <1>2, <3>1
  <2>3. h \o w = [i \in 1..Len(w) + 1 |-> (h \o w)[i]]
    <3> DEFINE c == h \o w
    <3>1. c \in Seq(S) /\ Len(c) = Len(w) + 1
      BY <1>2, <2>1
    <3> HIDE DEF c
    <3>2. c \in [1..Len(c) -> S]
      BY <3>1, LenProperties
    <3> QED BY <3>1, <3>2 DEF c
  <2> QED BY <1>2, <2>1, <2>2, <2>3
<1> QED BY <1>3 DEF Led, h

\* The hand-written words of an account action are those its frozen string names ...
LEMMA AccountSpoken ==
  ASSUME NEW n \in DOMAIN AccountTypes, NEW s
  PROVE  AccountWords(n, s, Absent) = Spoken(n, s)
<1>1. Types[n] = AccountTypes[n]
  BY TypesAt
<1>2. CASE n = "core_evm_transfer"
  BY <1>1, <1>2 DEF AccountWords, core_evm_transfer_words, Spoken, AccountTypes
<1>3. CASE n = "core_evm_transfer_v2"
  BY <1>1, <1>3 DEF AccountWords, core_evm_transfer_v2_words, Spoken, AccountTypes
<1>4. CASE n = "send_to_evm_with_data"
  BY <1>1, <1>4 DEF AccountWords, send_to_evm_with_data_words, Spoken, AccountTypes
<1>5. CASE n = "create_sub_account"
  BY <1>1, <1>5 DEF AccountWords, create_sub_account_words, Spoken, AccountTypes
<1>6. CASE n = "sub_account_transfer"
  BY <1>1, <1>6 DEF AccountWords, sub_account_transfer_words, Spoken, AccountTypes
<1>7. CASE n = "sub_account_spot_transfer"
  BY <1>1, <1>7 DEF AccountWords, sub_account_spot_transfer_words, Spoken, AccountTypes
<1>8. CASE n = "c_deposit"
  BY <1>1, <1>8 DEF AccountWords, staking_move_words, Spoken, AccountTypes
<1>9. CASE n = "c_withdraw"
  BY <1>1, <1>9 DEF AccountWords, staking_move_words, Spoken, AccountTypes
<1>10. CASE n = "user_set_abstraction"
  BY <1>1, <1>10 DEF AccountWords, user_set_abstraction_words, Spoken, AccountTypes
<1>11. CASE n = "priority_bid"
  BY <1>1, <1>11 DEF AccountWords, priority_bid_words, Spoken, AccountTypes
<1>12. CASE n = "cancel_all_orders"
  BY <1>1, <1>12 DEF AccountWords, cancel_all_orders_words, Spoken, AccountTypes
<1>13. CASE n = "submit_encrypted_order"
  BY <1>1, <1>13 DEF AccountWords, submit_encrypted_order_words, Spoken, AccountTypes
<1> QED BY <1>2, <1>3, <1>4, <1>5, <1>6, <1>7, <1>8, <1>9, <1>10, <1>11, <1>12,
  <1>13 DEF AccountTypes

\* ... and so are those of the RFQ and FBA lanes ...
LEMMA RfqSpoken ==
  ASSUME NEW n \in DOMAIN RfqTypes, NEW s
  PROVE  RfqWords(n, s, Absent) = Spoken(n, s)
<1>1. Types[n] = RfqTypes[n]
  BY TypesAt
<1>2. CASE n = "rfq_request"
  BY <1>1, <1>2 DEF RfqWords, rfq_request_words, Spoken, RfqTypes
<1>3. CASE n = "rfq_accept"
  BY <1>1, <1>3 DEF RfqWords, rfq_accept_words, Spoken, RfqTypes
<1>4. CASE n = "rfq_quote"
  BY <1>1, <1>4 DEF RfqWords, rfq_quote_words, Spoken, RfqTypes
<1>5. CASE n = "fba_submit"
  BY <1>1, <1>5 DEF RfqWords, fba_submit_words, Spoken, RfqTypes
<1>6. CASE n = "noop"
  BY <1>1, <1>6 DEF RfqWords, noop_words, Spoken, RfqTypes
<1> QED BY <1>2, <1>3, <1>4, <1>5, <1>6 DEF RfqTypes

\* ... also with an owner, who comes first.
LEMMA OwnerSpoken ==
  ASSUME NEW n \in {"cancel_all_orders", "rfq_request", "rfq_accept", "rfq_quote"}, NEW s,
         NEW owner, owner # Absent
  PROVE  EncodeData(n, s, owner) = <<owner>> \o Spoken(n, s)
<1>1. CASE n = "cancel_all_orders"
  <2>0. n \in DOMAIN AccountTypes /\ n \notin DOMAIN RfqTypes
    BY <1>1 DEF AccountTypes, RfqTypes
  <2>1. EncodeData(n, s, owner) = <<owner, s.has_asset, s.asset>>
    <3>1. EncodeData(n, s, owner) = AccountWords(n, s, owner)
      BY <2>0 DEF EncodeData
    <3> QED BY <1>1, <3>1 DEF AccountWords, cancel_all_orders_words_with_owner
  <2>2. Spoken(n, s) = <<s.has_asset, s.asset>>
    BY <1>1, TypesAt DEF Spoken, AccountTypes
  <2>3. Listed(Spoken(n, s))
    BY <2>2 DEF Listed
  <2> QED BY <2>1, <2>2, <2>3, Prefixed DEF Listed, Led
<1>2. CASE n = "rfq_request"
  <2>0. n \in DOMAIN RfqTypes /\ n \notin DOMAIN AccountTypes
    BY <1>2 DEF RfqTypes, AccountTypes
  <2>1. EncodeData(n, s, owner) = <<owner, s.market, s.side, s.size, s.has_limit_px,
          s.limit_px, s.expiry_ms, s.has_stp_group, s.stp_group>>
    <3>1. EncodeData(n, s, owner) = RfqWords(n, s, owner)
      BY <2>0 DEF EncodeData
    <3> QED BY <1>2, <3>1 DEF RfqWords, rfq_request_words_with_owner
  <2>2. Spoken(n, s) = <<s.market, s.side, s.size, s.has_limit_px, s.limit_px, s.expiry_ms,
          s.has_stp_group, s.stp_group>>
    BY <1>2, TypesAt DEF Spoken, RfqTypes
  <2>3. Listed(Spoken(n, s))
    BY <2>2 DEF Listed
  <2> QED BY <2>1, <2>2, <2>3, Prefixed DEF Listed, Led
<1>3. CASE n = "rfq_accept"
  <2>0. n \in DOMAIN RfqTypes /\ n \notin DOMAIN AccountTypes
    BY <1>3 DEF RfqTypes, AccountTypes
  <2>1. EncodeData(n, s, owner) = <<owner, s.rfq_id, s.quote_idx, s.size>>
    <3>1. EncodeData(n, s, owner) = RfqWords(n, s, owner)
      BY <2>0 DEF EncodeData
    <3> QED BY <1>3, <3>1 DEF RfqWords, rfq_accept_words_with_owner
  <2>2. Spoken(n, s) = <<s.rfq_id, s.quote_idx, s.size>>
    BY <1>3, TypesAt DEF Spoken, RfqTypes
  <2>3. Listed(Spoken(n, s))
    BY <2>2 DEF Listed
  <2> QED BY <2>1, <2>2, <2>3, Prefixed DEF Listed, Led
<1>4. CASE n = "rfq_quote"
  <2>0. n \in DOMAIN RfqTypes /\ n \notin DOMAIN AccountTypes
    BY <1>4 DEF RfqTypes, AccountTypes
  <2>1. EncodeData(n, s, owner) = <<owner, s.rfq_id, s.price, s.max_size, s.valid_until_ms,
          s.has_stp_group, s.stp_group>>
    <3>1. EncodeData(n, s, owner) = RfqWords(n, s, owner)
      BY <2>0 DEF EncodeData
    <3> QED BY <1>4, <3>1 DEF RfqWords, rfq_quote_words_with_owner
  <2>2. Spoken(n, s) = <<s.rfq_id, s.price, s.max_size, s.valid_until_ms, s.has_stp_group,
          s.stp_group>>
    BY <1>4, TypesAt DEF Spoken, RfqTypes
  <2>3. Listed(Spoken(n, s))
    BY <2>2 DEF Listed
  <2> QED BY <2>1, <2>2, <2>3, Prefixed DEF Listed, Led
<1> QED BY <1>1, <1>2, <1>3, <1>4

\* A function from 1 to m is a sequence of that length.
LEMMA LenOf ==
  ASSUME NEW m \in Nat, NEW S, NEW w \in [1..m -> S]
  PROVE  Listed(w) /\ Len(w) = m
<1>1. w \in Seq(S)
  BY SeqDef
<1>2. Len(w) \in Nat /\ DOMAIN w = 1..Len(w)
  BY <1>1, LenProperties
<1>3. 1..m = 1..Len(w)
  BY <1>2
<1>4. m = Len(w)
  BY <1>2, <1>3
<1>5. w = [i \in 1..Len(w) |-> w[i]]
  BY <1>4
<1> QED BY <1>2, <1>4, <1>5 DEF Listed

\* There are as many words as names.
LEMMA SpokenListed ==
  ASSUME NEW n \in Actions, NEW s
  PROVE  Listed(Spoken(n, s)) /\ Len(Spoken(n, s)) = Len(Types[n])
<1>1. Len(Types[n]) \in Nat /\ DOMAIN Types[n] = 1..Len(Types[n])
  BY TypesNamed DEF NamesOf, Listed
<1>2. Spoken(n, s) \in [1..Len(Types[n]) -> {s[Types[n][i]] : i \in 1..Len(Types[n])}]
  BY <1>1 DEF Spoken
<1> QED BY <1>1, <1>2, LenOf

\* The other actions have one table for both the names and the words.
LEMMA OtherSpoken ==
  ASSUME NEW n \in Actions, n \notin DOMAIN AccountTypes, n \notin DOMAIN RfqTypes
  PROVE  Words[n] = Types[n]
<1>1. DOMAIN FundStructs = DOMAIN FundTypes /\
      DOMAIN MarginStructs = DOMAIN MarginTypes /\
      DOMAIN LendingStructs = DOMAIN LendingTypes /\
      DOMAIN RewardStructs = DOMAIN RewardTypes /\
      DOMAIN OperatorStructs = DOMAIN OperatorTypes /\
      DOMAIN AccountStructs = DOMAIN AccountTypes /\
      DOMAIN RfqStructs = DOMAIN RfqTypes /\
      DOMAIN SpotDeployStructs = DOMAIN SpotDeployTypes /\
      DOMAIN PerpDeployStructs = DOMAIN PerpDeployTypes
  BY DEF FundStructs, MarginStructs, LendingStructs, RewardStructs, OperatorStructs,
         AccountStructs, RfqStructs, SpotDeployStructs, PerpDeployStructs, FundTypes,
         MarginTypes, LendingTypes, RewardTypes, OperatorTypes, AccountTypes, RfqTypes,
         SpotDeployTypes, PerpDeployTypes
<1>2. FundWords = FundTypes /\ MarginWords = MarginTypes /\
      LendingWords = LendingTypes /\ RewardWords = RewardTypes /\
      OperatorWords = OperatorTypes /\ SpotDeployWords = SpotDeployTypes /\
      PerpDeployWords = PerpDeployTypes
  BY DEF FundWords, MarginWords, LendingWords, RewardWords, OperatorWords,
         SpotDeployWords, PerpDeployWords, FundTypes, MarginTypes, LendingTypes,
         RewardTypes, OperatorTypes, SpotDeployTypes, PerpDeployTypes
<1>3. n \in DOMAIN FundTypes \/ n \in DOMAIN MarginTypes \/ n \in DOMAIN LendingTypes \/
      n \in DOMAIN RewardTypes \/ n \in DOMAIN OperatorTypes \/
      n \in DOMAIN SpotDeployTypes \/ n \in DOMAIN PerpDeployTypes
  BY <1>1, MergedFrom DEF Actions, Structs
<1> QED BY <1>2, <1>3, TypesAt, WordsAt

\* encode_data hashes the words in the order of the string, whatever the action.
LEMMA Encoded ==
  ASSUME NEW n \in Actions, NEW s, NEW owner, owner # Absent => n \in OwnerActions
  PROVE  EncodeData(n, s, owner) = BindOwner(Spoken(n, s), owner)
<1> DEFINE w == Spoken(n, s)
<1>1. <<>> \o w = w
  BY SpokenListed, Unprefixed
<1>2. DOMAIN AccountTypes \cap DOMAIN RfqTypes = {}
  BY DEF AccountTypes, RfqTypes
<1>3. CASE n \in DOMAIN AccountTypes /\ owner = Absent
  <2>1. EncodeData(n, s, owner) = AccountWords(n, s, Absent)
    BY <1>2, <1>3 DEF EncodeData
  <2> QED BY <1>1, <1>3, <2>1, AccountSpoken DEF BindOwner
<1>4. CASE n \in DOMAIN RfqTypes /\ owner = Absent
  <2>1. EncodeData(n, s, owner) = RfqWords(n, s, Absent)
    BY <1>2, <1>4 DEF EncodeData
  <2> QED BY <1>1, <1>4, <2>1, RfqSpoken DEF BindOwner
<1>5. CASE n \in DOMAIN AccountTypes \cup DOMAIN RfqTypes /\ owner # Absent
  <2>1. n \in {"cancel_all_orders", "rfq_request", "rfq_accept", "rfq_quote"}
    BY <1>5 DEF AccountTypes, RfqTypes, OwnerActions
  <2>2. EncodeData(n, s, owner) = <<owner>> \o w
    BY <1>5, <2>1, OwnerSpoken
  <2> QED BY <1>5, <2>2 DEF BindOwner
<1>6. CASE n \notin DOMAIN AccountTypes \cup DOMAIN RfqTypes
  <2>1. EncodeData(n, s, owner) = BindOwner([i \in DOMAIN Words[n] |-> s[Words[n][i]]], owner)
    BY <1>6 DEF EncodeData
  <2> QED BY <1>6, <2>1, OtherSpoken DEF Spoken
<1> QED BY <1>3, <1>4, <1>5, <1>6

\* One element after a sequence.
LEMMA Suffixed ==
  ASSUME NEW w, Listed(w), NEW x
  PROVE  /\ Append(w, x) = [i \in 1..Len(w) + 1 |-> IF i = Len(w) + 1 THEN x ELSE w[i]]
         /\ w \o <<x>> = Append(w, x) /\ w \o <<>> = w
<1> DEFINE S == {x} \cup {w[i] : i \in 1..Len(w)}
<1>1. w \in Seq(S) /\ x \in S /\ Len(w) \in Nat
  BY DEF Listed
<1> HIDE DEF S
<1>2. w \o <<>> = w
  BY <1>1, ConcatEmptySeq
<1>3. w \o <<x>> = Append(w, x)
  BY <1>1, AppendIsConcat
<1>4. Append(w, x) = [i \in 1..Len(w) + 1 |-> IF i = Len(w) + 1 THEN x ELSE w[i]]
  <2>1. /\ Append(w, x) \in Seq(S) /\ Len(Append(w, x)) = Len(w) + 1
        /\ \A i \in 1..Len(w) : Append(w, x)[i] = w[i]
        /\ Append(w, x)[Len(w) + 1] = x
    BY <1>1, AppendProperties
  <2> DEFINE c == Append(w, x)
  <2> HIDE DEF c
  <2>2. /\ c \in Seq(S) /\ Len(c) = Len(w) + 1
        /\ \A i \in 1..Len(w) : c[i] = w[i]
        /\ c[Len(w) + 1] = x
    BY <2>1 DEF c
  <2>3. c \in [1..Len(c) -> S]
    BY <2>2, LenProperties
  <2>4. c = [i \in 1..Len(w) + 1 |-> IF i = Len(w) + 1 THEN x ELSE w[i]]
    BY <1>1, <2>2, <2>3
  <2> QED BY <2>4 DEF c
<1> QED BY <1>2, <1>3, <1>4

-----------------------------------------------------------------------------
(* The arguments of a method and the struct that it signs.                *)

\* The arguments fill the struct: each field is an argument, or flags one.
Fills(row, struct) ==
  \A f \in DOMAIN struct : Has(row, IF f \in DOMAIN Flags THEN Flags[f] ELSE f)
Distinct(row) == \A i, j \in DOMAIN row : row[i] = row[j] => i = j
Fit(k, row) ==
  /\ SignedName(k) \in Actions
  /\ k # "pm_unenroll" => Fills(row, Structs[SignedName(k)])
  /\ ~Has(row, "owner") /\ Distinct(row)

\* The arguments of every method fit the struct that it signs.
LEMMA MethodsFit == \A k \in DOMAIN Methods : Fit(k, Methods[k])
<1>1. \A k \in DOMAIN Methods : k \in DOMAIN TransferMethods \/ k \in DOMAIN ReferralMethods \/
        k \in DOMAIN LeverageMethods \/ k \in DOMAIN VaultMethods \/
        k \in DOMAIN MarginMethods \/ k \in DOMAIN StakingMethods \/
        k \in DOMAIN SpotMarginMethods \/ k \in DOMAIN BridgeMethods \/
        k \in DOMAIN SubAccountMethods \/ k \in DOMAIN AbstractionMethods \/
        k \in DOMAIN CancelMethods \/ k \in DOMAIN RfqMethods \/
        k \in DOMAIN QuoteMethods \/ k \in DOMAIN ClaimMethods \/
        k \in DOMAIN SpotDeployMethods \/ k \in DOMAIN SupplyMethods \/
        k \in DOMAIN PerpParamMethods \/ k \in DOMAIN PerpMarketMethods \/
        k \in DOMAIN BundleMethods
  BY MergedFrom DEF Methods
<1>2. ASSUME NEW k \in DOMAIN TransferMethods PROVE Fit(k, Methods[k])
  <2>1. ~Has(TransferMethods[k], "owner") /\ Distinct(TransferMethods[k])
    BY DEF Has, Distinct, TransferMethods
  <2>2. SignedName(k) \in DOMAIN FundStructs /\ Fills(TransferMethods[k],
          FundStructs[SignedName(k)])
    BY DEF Fills, Has, Flags, TransferMethods, SignedName, FundStructs
  <2> QED BY <2>1, <2>2, StructsAt, MethodsAt DEF Fit, Actions
<1>3. ASSUME NEW k \in DOMAIN ReferralMethods PROVE Fit(k, Methods[k])
  <2>1. ~Has(ReferralMethods[k], "owner") /\ Distinct(ReferralMethods[k])
    BY DEF Has, Distinct, ReferralMethods
  <2>2. CASE k \in {"set_referrer", "approve_broker_fee", "set_display_name"}
    <3>1. SignedName(k) \in DOMAIN FundStructs /\ Fills(ReferralMethods[k],
            FundStructs[SignedName(k)])
      BY <2>2 DEF Fills, Has, Flags, ReferralMethods, SignedName, FundStructs
    <3> QED BY <2>1, <3>1, StructsAt, MethodsAt DEF Fit, Actions
  <2>3. CASE k \in {"register_referral_code", "set_referrer_by_code"}
    <3>1. SignedName(k) \in DOMAIN RewardStructs /\ Fills(ReferralMethods[k],
            RewardStructs[SignedName(k)])
      BY <2>3 DEF Fills, Has, Flags, ReferralMethods, SignedName, RewardStructs, NoField
    <3> QED BY <2>1, <3>1, StructsAt, MethodsAt DEF Fit, Actions
  <2> QED BY <2>2, <2>3 DEF ReferralMethods
<1>4. ASSUME NEW k \in DOMAIN LeverageMethods PROVE Fit(k, Methods[k])
  <2>1. ~Has(LeverageMethods[k], "owner") /\ Distinct(LeverageMethods[k])
    BY DEF Has, Distinct, LeverageMethods
  <2>2. CASE k \in {"set_position_mode", "user_portfolio_margin", "convert_to_multi_sig_user"}
    <3>1. SignedName(k) \in DOMAIN FundStructs /\ Fills(LeverageMethods[k],
            FundStructs[SignedName(k)])
      BY <2>2 DEF Fills, Has, Flags, LeverageMethods, SignedName, FundStructs
    <3> QED BY <2>1, <3>1, StructsAt, MethodsAt DEF Fit, Actions
  <2>3. CASE k \in {"update_leverage"}
    <3>1. SignedName(k) \in DOMAIN MarginStructs /\ Fills(LeverageMethods[k],
            MarginStructs[SignedName(k)])
      BY <2>3 DEF Fills, Has, Flags, LeverageMethods, SignedName, MarginStructs
    <3> QED BY <2>1, <3>1, StructsAt, MethodsAt DEF Fit, Actions
  <2> QED BY <2>2, <2>3 DEF LeverageMethods
<1>5. ASSUME NEW k \in DOMAIN VaultMethods PROVE Fit(k, Methods[k])
  <2>1. ~Has(VaultMethods[k], "owner") /\ Distinct(VaultMethods[k])
    BY DEF Has, Distinct, VaultMethods
  <2>2. SignedName(k) \in DOMAIN MarginStructs /\ Fills(VaultMethods[k],
          MarginStructs[SignedName(k)])
    BY DEF Fills, Has, Flags, VaultMethods, SignedName, MarginStructs
  <2> QED BY <2>1, <2>2, StructsAt, MethodsAt DEF Fit, Actions
<1>6. ASSUME NEW k \in DOMAIN MarginMethods PROVE Fit(k, Methods[k])
  <2>1. ~Has(MarginMethods[k], "owner") /\ Distinct(MarginMethods[k])
    BY DEF Has, Distinct, MarginMethods
  <2>2. SignedName(k) \in DOMAIN MarginStructs /\ Fills(MarginMethods[k],
          MarginStructs[SignedName(k)])
    BY DEF Fills, Has, Flags, MarginMethods, SignedName, MarginStructs
  <2> QED BY <2>1, <2>2, StructsAt, MethodsAt DEF Fit, Actions
<1>7. ASSUME NEW k \in DOMAIN StakingMethods PROVE Fit(k, Methods[k])
  <2>1. ~Has(StakingMethods[k], "owner") /\ Distinct(StakingMethods[k])
    BY DEF Has, Distinct, StakingMethods
  <2>2. SignedName(k) \in DOMAIN MarginStructs /\ Fills(StakingMethods[k],
          MarginStructs[SignedName(k)])
    BY DEF Fills, Has, Flags, StakingMethods, SignedName, MarginStructs
  <2> QED BY <2>1, <2>2, StructsAt, MethodsAt DEF Fit, Actions
<1>8. ASSUME NEW k \in DOMAIN SpotMarginMethods PROVE Fit(k, Methods[k])
  <2>1. ~Has(SpotMarginMethods[k], "owner") /\ Distinct(SpotMarginMethods[k])
    BY DEF Has, Distinct, SpotMarginMethods
  <2>2. SignedName(k) \in DOMAIN LendingStructs /\ Fills(SpotMarginMethods[k],
          LendingStructs[SignedName(k)])
    BY DEF Fills, Has, Flags, SpotMarginMethods, SignedName, LendingStructs
  <2> QED BY <2>1, <2>2, StructsAt, MethodsAt DEF Fit, Actions
<1>9. ASSUME NEW k \in DOMAIN BridgeMethods PROVE Fit(k, Methods[k])
  <2>1. ~Has(BridgeMethods[k], "owner") /\ Distinct(BridgeMethods[k])
    BY DEF Has, Distinct, BridgeMethods
  <2>2. CASE k \in {"core_evm_transfer"}
    <3>1. SignedName(k) \in DOMAIN AccountStructs /\ Fills(BridgeMethods[k],
            AccountStructs[SignedName(k)])
      BY <2>2 DEF Fills, Has, Flags, BridgeMethods, SignedName, AccountStructs
    <3> QED BY <2>1, <3>1, StructsAt, MethodsAt DEF Fit, Actions
  <2>3. CASE k \in {"earn_withdraw", "agent_set_abstraction", "bridge_withdraw"}
    <3>1. SignedName(k) \in DOMAIN LendingStructs /\ Fills(BridgeMethods[k],
            LendingStructs[SignedName(k)])
      BY <2>3 DEF Fills, Has, Flags, BridgeMethods, SignedName, LendingStructs
    <3> QED BY <2>1, <3>1, StructsAt, MethodsAt DEF Fit, Actions
  <2> QED BY <2>2, <2>3 DEF BridgeMethods
<1>10. ASSUME NEW k \in DOMAIN SubAccountMethods PROVE Fit(k, Methods[k])
  <2>1. ~Has(SubAccountMethods[k], "owner") /\ Distinct(SubAccountMethods[k])
    BY DEF Has, Distinct, SubAccountMethods
  <2>2. SignedName(k) \in DOMAIN AccountStructs /\ Fills(SubAccountMethods[k],
          AccountStructs[SignedName(k)])
    BY DEF Fills, Has, Flags, SubAccountMethods, SignedName, AccountStructs
  <2> QED BY <2>1, <2>2, StructsAt, MethodsAt DEF Fit, Actions
<1>11. ASSUME NEW k \in DOMAIN AbstractionMethods PROVE Fit(k, Methods[k])
  <2>1. ~Has(AbstractionMethods[k], "owner") /\ Distinct(AbstractionMethods[k])
    BY DEF Has, Distinct, AbstractionMethods
  <2>2. SignedName(k) \in DOMAIN AccountStructs /\ Fills(AbstractionMethods[k],
          AccountStructs[SignedName(k)])
    BY DEF Fills, Has, Flags, AbstractionMethods, SignedName, AccountStructs
  <2> QED BY <2>1, <2>2, StructsAt, MethodsAt DEF Fit, Actions
<1>12. ASSUME NEW k \in DOMAIN CancelMethods PROVE Fit(k, Methods[k])
  <2>1. ~Has(CancelMethods[k], "owner") /\ Distinct(CancelMethods[k])
    BY DEF Has, Distinct, CancelMethods
  <2>2. CASE k \in {"cancel_all_orders"}
    <3>1. SignedName(k) \in DOMAIN AccountStructs /\ Fills(CancelMethods[k],
            AccountStructs[SignedName(k)])
      BY <2>2 DEF Fills, Has, Flags, CancelMethods, SignedName, AccountStructs
    <3> QED BY <2>1, <3>1, StructsAt, MethodsAt DEF Fit, Actions
  <2>3. CASE k \in {"submit_encrypted_order"}
    <3>1. SignedName(k) \in DOMAIN AccountStructs /\ Fills(CancelMethods[k],
            AccountStructs[SignedName(k)])
      BY <2>3 DEF Fills, Has, Flags, CancelMethods, SignedName, AccountStructs
    <3> QED BY <2>1, <3>1, StructsAt, MethodsAt DEF Fit, Actions
  <2>4. CASE k \in {"noop"}
    <3>1. SignedName(k) \in DOMAIN RfqStructs /\ Fills(CancelMethods[k],
            RfqStructs[SignedName(k)])
      BY <2>4 DEF Fills, Has, Flags, CancelMethods, SignedName, RfqStructs, NoField
    <3> QED BY <2>1, <3>1, StructsAt, MethodsAt DEF Fit, Actions
  <2>5. CASE k = "pm_unenroll"
    <3>1. SignedName(k) \in DOMAIN FundStructs
      BY <2>5 DEF SignedName, FundStructs
    <3> QED BY <2>1, <2>5, <3>1, StructsAt, MethodsAt DEF Fit, Actions
  <2> QED BY <2>2, <2>3, <2>4, <2>5 DEF CancelMethods
<1>13. ASSUME NEW k \in DOMAIN RfqMethods PROVE Fit(k, Methods[k])
  <2>1. ~Has(RfqMethods[k], "owner") /\ Distinct(RfqMethods[k])
    BY DEF Has, Distinct, RfqMethods
  <2>2. SignedName(k) \in DOMAIN RfqStructs /\ Fills(RfqMethods[k], RfqStructs[SignedName(k)])
    BY DEF Fills, Has, Flags, RfqMethods, SignedName, RfqStructs, NoField
  <2> QED BY <2>1, <2>2, StructsAt, MethodsAt DEF Fit, Actions
<1>14. ASSUME NEW k \in DOMAIN QuoteMethods PROVE Fit(k, Methods[k])
  <2>1. ~Has(QuoteMethods[k], "owner") /\ Distinct(QuoteMethods[k])
    BY DEF Has, Distinct, QuoteMethods
  <2>2. CASE k \in {"vault_distribute"}
    <3>1. SignedName(k) \in DOMAIN RewardStructs /\ Fills(QuoteMethods[k],
            RewardStructs[SignedName(k)])
      BY <2>2 DEF Fills, Has, Flags, QuoteMethods, SignedName, RewardStructs, NoField
    <3> QED BY <2>1, <3>1, StructsAt, MethodsAt DEF Fit, Actions
  <2>3. CASE k \in {"fba_submit", "rfq_quote"}
    <3>1. SignedName(k) \in DOMAIN RfqStructs /\ Fills(QuoteMethods[k],
            RfqStructs[SignedName(k)])
      BY <2>3 DEF Fills, Has, Flags, QuoteMethods, SignedName, RfqStructs, NoField
    <3> QED BY <2>1, <3>1, StructsAt, MethodsAt DEF Fit, Actions
  <2> QED BY <2>2, <2>3 DEF QuoteMethods
<1>15. ASSUME NEW k \in DOMAIN ClaimMethods PROVE Fit(k, Methods[k])
  <2>1. ~Has(ClaimMethods[k], "owner") /\ Distinct(ClaimMethods[k])
    BY DEF Has, Distinct, ClaimMethods
  <2>2. CASE k \in {"borrow_lend", "register_metaliquidity_operator"}
    <3>1. SignedName(k) \in DOMAIN OperatorStructs /\ Fills(ClaimMethods[k],
            OperatorStructs[SignedName(k)])
      BY <2>2 DEF Fills, Has, Flags, ClaimMethods, SignedName, OperatorStructs
    <3> QED BY <2>1, <3>1, StructsAt, MethodsAt DEF Fit, Actions
  <2>3. CASE k \in {"claim_broker_rewards", "claim_referral_rewards"}
    <3>1. SignedName(k) \in DOMAIN RewardStructs /\ Fills(ClaimMethods[k],
            RewardStructs[SignedName(k)])
      BY <2>3 DEF Fills, Has, Flags, ClaimMethods, SignedName, RewardStructs, NoField
    <3> QED BY <2>1, <3>1, StructsAt, MethodsAt DEF Fit, Actions
  <2> QED BY <2>2, <2>3 DEF ClaimMethods
<1>16. ASSUME NEW k \in DOMAIN SpotDeployMethods PROVE Fit(k, Methods[k])
  <2>1. ~Has(SpotDeployMethods[k], "owner") /\ Distinct(SpotDeployMethods[k])
    BY DEF Has, Distinct, SpotDeployMethods
  <2>2. SignedName(k) \in DOMAIN SpotDeployStructs /\ Fills(SpotDeployMethods[k],
          SpotDeployStructs[SignedName(k)])
    BY DEF Fills, Has, Flags, SpotDeployMethods, SignedName, SpotDeployStructs
  <2> QED BY <2>1, <2>2, StructsAt, MethodsAt DEF Fit, Actions
<1>17. ASSUME NEW k \in DOMAIN SupplyMethods PROVE Fit(k, Methods[k])
  <2>1. ~Has(SupplyMethods[k], "owner") /\ Distinct(SupplyMethods[k])
    BY DEF Has, Distinct, SupplyMethods
  <2>2. CASE k \in {"perp_register_asset", "perp_set_oracle"}
    <3>1. SignedName(k) \in DOMAIN PerpDeployStructs /\ Fills(SupplyMethods[k],
            PerpDeployStructs[SignedName(k)])
      BY <2>2 DEF Fills, Has, Flags, SupplyMethods, SignedName, PerpDeployStructs
    <3> QED BY <2>1, <3>1, StructsAt, MethodsAt DEF Fit, Actions
  <2>3. CASE k \in {"spot_seed_holders", "spot_finalize_supply"}
    <3>1. SignedName(k) \in DOMAIN SpotDeployStructs /\ Fills(SupplyMethods[k],
            SpotDeployStructs[SignedName(k)])
      BY <2>3 DEF Fills, Has, Flags, SupplyMethods, SignedName, SpotDeployStructs
    <3> QED BY <2>1, <3>1, StructsAt, MethodsAt DEF Fit, Actions
  <2> QED BY <2>2, <2>3 DEF SupplyMethods
<1>18. ASSUME NEW k \in DOMAIN PerpParamMethods PROVE Fit(k, Methods[k])
  <2>1. ~Has(PerpParamMethods[k], "owner") /\ Distinct(PerpParamMethods[k])
    BY DEF Has, Distinct, PerpParamMethods
  <2>2. SignedName(k) \in DOMAIN PerpDeployStructs /\ Fills(PerpParamMethods[k],
          PerpDeployStructs[SignedName(k)])
    BY DEF Fills, Has, Flags, PerpParamMethods, SignedName, PerpDeployStructs
  <2> QED BY <2>1, <2>2, StructsAt, MethodsAt DEF Fit, Actions
<1>19. ASSUME NEW k \in DOMAIN PerpMarketMethods PROVE Fit(k, Methods[k])
  <2>1. ~Has(PerpMarketMethods[k], "owner") /\ Distinct(PerpMarketMethods[k])
    BY DEF Has, Distinct, PerpMarketMethods
  <2>2. SignedName(k) \in DOMAIN PerpDeployStructs /\ Fills(PerpMarketMethods[k],
          PerpDeployStructs[SignedName(k)])
    BY DEF Fills, Has, Flags, PerpMarketMethods, SignedName, PerpDeployStructs
  <2> QED BY <2>1, <2>2, StructsAt, MethodsAt DEF Fit, Actions
<1>20. ASSUME NEW k \in DOMAIN BundleMethods PROVE Fit(k, Methods[k])
  <2>1. ~Has(BundleMethods[k], "owner") /\ Distinct(BundleMethods[k])
    BY DEF Has, Distinct, BundleMethods
  <2>2. SignedName(k) \in DOMAIN FundStructs /\ Fills(BundleMethods[k],
          FundStructs[SignedName(k)])
    BY DEF Fills, Has, Flags, BundleMethods, SignedName, FundStructs
  <2> QED BY <2>1, <2>2, StructsAt, MethodsAt DEF Fit, Actions
<1> QED BY <1>1, <1>2, <1>3, <1>4, <1>5, <1>6, <1>7, <1>8, <1>9, <1>10, <1>11, <1>12, <1>13,
  <1>14, <1>15, <1>16, <1>17, <1>18, <1>19, <1>20

-----------------------------------------------------------------------------
(* What the methods of exchange.rs hand on.                               *)

\* What a method of exchange.rs hands on goes to the argument of that name, but for
\* the keys that were renamed.
LEMMA CallsHandOn ==
  \A k \in DOMAIN Delegates :
    k \in DOMAIN Methods /\ (k \notin {"approve_agent",
      "approve_broker_fee"} => Delegates[k] = Methods[k])
<1>1. \A k \in DOMAIN Delegates : k \in DOMAIN EarnCalls \/ k \in DOMAIN CancelAllCalls \/
        k \in DOMAIN MarginCalls \/ k \in DOMAIN AccountCalls \/
        k \in DOMAIN StakingCalls \/ k \in DOMAIN RfqCalls \/
        k \in DOMAIN SpotDeployCalls \/ k \in DOMAIN PerpDeployCalls
  BY MergedFrom DEF Delegates
<1>2. ASSUME NEW k \in DOMAIN EarnCalls
      PROVE  k \in DOMAIN Methods
               /\ (k \notin {"approve_agent",
                 "approve_broker_fee"} => Delegates[k] = Methods[k])
  <2>1. k \in {"spot_margin_deposit", "spot_margin_withdraw", "spot_margin_open",
              "earn_deposit"}
          => k \in DOMAIN SpotMarginMethods /\ EarnCalls[k] = SpotMarginMethods[k]
    BY DEF EarnCalls, SpotMarginMethods
  <2>2. k \in {"spot_margin_close"}
          => k \in DOMAIN VaultMethods /\ EarnCalls[k] = VaultMethods[k]
    BY DEF EarnCalls, VaultMethods
  <2>3. k \in {"earn_withdraw"} => k \in DOMAIN BridgeMethods /\ EarnCalls[k] = BridgeMethods[k]
    BY DEF EarnCalls, BridgeMethods
  <2> QED BY <2>1, <2>2, <2>3, MethodsAt, DelegatesAt DEF EarnCalls
<1>3. ASSUME NEW k \in DOMAIN CancelAllCalls
      PROVE  k \in DOMAIN Methods
               /\ (k \notin {"approve_agent",
                 "approve_broker_fee"} => Delegates[k] = Methods[k])
  <2>1. k \in DOMAIN CancelMethods /\ CancelAllCalls[k] = CancelMethods[k]
    BY DEF CancelAllCalls, CancelMethods
  <2> QED BY <2>1, MethodsAt, DelegatesAt
<1>4. ASSUME NEW k \in DOMAIN MarginCalls
      PROVE  k \in DOMAIN Methods
               /\ (k \notin {"approve_agent",
                 "approve_broker_fee"} => Delegates[k] = Methods[k])
  <2>1. k \in {"set_position_mode", "update_leverage", "user_portfolio_margin"}
          => k \in DOMAIN LeverageMethods /\ MarginCalls[k] = LeverageMethods[k]
    BY DEF MarginCalls, LeverageMethods
  <2>2. k \in {"update_isolated_margin", "top_up_isolated_only_margin"}
          => k \in DOMAIN MarginMethods /\ MarginCalls[k] = MarginMethods[k]
    BY DEF MarginCalls, MarginMethods
  <2> QED BY <2>1, <2>2, MethodsAt, DelegatesAt DEF MarginCalls
<1>5. ASSUME NEW k \in DOMAIN AccountCalls
      PROVE  k \in DOMAIN Methods
               /\ (k \notin {"approve_agent",
                 "approve_broker_fee"} => Delegates[k] = Methods[k])
  <2>1. k \in {"set_display_name", "set_referrer", "register_referral_code",
              "set_referrer_by_code", "approve_broker_fee"}
          => k \in DOMAIN ReferralMethods /\ (k \in {"set_display_name", "set_referrer",
              "register_referral_code", "set_referrer_by_code"}
             => AccountCalls[k] = ReferralMethods[k])
    BY DEF AccountCalls, ReferralMethods
  <2>2. k \in {"approve_agent"} => k \in DOMAIN TransferMethods
    BY DEF AccountCalls, TransferMethods
  <2>3. k \in {"convert_to_multi_sig_user"}
          => k \in DOMAIN LeverageMethods /\ AccountCalls[k] = LeverageMethods[k]
    BY DEF AccountCalls, LeverageMethods
  <2>4. k \in {"user_set_abstraction", "priority_bid"}
          => k \in DOMAIN AbstractionMethods /\ AccountCalls[k] = AbstractionMethods[k]
    BY DEF AccountCalls, AbstractionMethods
  <2>5. k \in {"agent_set_abstraction"}
          => k \in DOMAIN BridgeMethods /\ AccountCalls[k] = BridgeMethods[k]
    BY DEF AccountCalls, BridgeMethods
  <2> QED BY <2>1, <2>2, <2>3, <2>4, <2>5, MethodsAt, DelegatesAt DEF AccountCalls
<1>6. ASSUME NEW k \in DOMAIN StakingCalls
      PROVE  k \in DOMAIN Methods
               /\ (k \notin {"approve_agent",
                 "approve_broker_fee"} => Delegates[k] = Methods[k])
  <2>1. k \in {"token_delegate", "vault_transfer", "vault_withdraw"}
          => k \in DOMAIN StakingMethods /\ StakingCalls[k] = StakingMethods[k]
    BY DEF StakingCalls, StakingMethods
  <2>2. k \in {"claim_rewards", "link_staking_user", "create_vault", "vault_modify"}
          => k \in DOMAIN VaultMethods /\ StakingCalls[k] = VaultMethods[k]
    BY DEF StakingCalls, VaultMethods
  <2>3. k \in {"submit_encrypted_order"}
          => k \in DOMAIN CancelMethods /\ StakingCalls[k] = CancelMethods[k]
    BY DEF StakingCalls, CancelMethods
  <2>4. k \in {"vault_distribute"}
          => k \in DOMAIN QuoteMethods /\ StakingCalls[k] = QuoteMethods[k]
    BY DEF StakingCalls, QuoteMethods
  <2> QED BY <2>1, <2>2, <2>3, <2>4, MethodsAt, DelegatesAt DEF StakingCalls
<1>7. ASSUME NEW k \in DOMAIN RfqCalls
      PROVE  k \in DOMAIN Methods
               /\ (k \notin {"approve_agent",
                 "approve_broker_fee"} => Delegates[k] = Methods[k])
  <2>1. k \in {"bridge_withdraw"}
          => k \in DOMAIN BridgeMethods /\ RfqCalls[k] = BridgeMethods[k]
    BY DEF RfqCalls, BridgeMethods
  <2>2. k \in {"rfq_request", "rfq_accept"}
          => k \in DOMAIN RfqMethods /\ RfqCalls[k] = RfqMethods[k]
    BY DEF RfqCalls, RfqMethods
  <2>3. k \in {"fba_submit"} => k \in DOMAIN QuoteMethods /\ RfqCalls[k] = QuoteMethods[k]
    BY DEF RfqCalls, QuoteMethods
  <2>4. k \in {"borrow_lend", "register_metaliquidity_operator"}
          => k \in DOMAIN ClaimMethods /\ RfqCalls[k] = ClaimMethods[k]
    BY DEF RfqCalls, ClaimMethods
  <2> QED BY <2>1, <2>2, <2>3, <2>4, MethodsAt, DelegatesAt DEF RfqCalls
<1>8. ASSUME NEW k \in DOMAIN SpotDeployCalls
      PROVE  k \in DOMAIN Methods
               /\ (k \notin {"approve_agent",
                 "approve_broker_fee"} => Delegates[k] = Methods[k])
  <2>1. k \in {"spot_register_token", "spot_register_pair", "spot_set_pair_params",
              "spot_set_pair_active"}
          => k \in DOMAIN SpotDeployMethods /\ SpotDeployCalls[k] = SpotDeployMethods[k]
    BY DEF SpotDeployCalls, SpotDeployMethods
  <2>2. k \in {"spot_seed_holders", "spot_finalize_supply"}
          => k \in DOMAIN SupplyMethods /\ SpotDeployCalls[k] = SupplyMethods[k]
    BY DEF SpotDeployCalls, SupplyMethods
  <2> QED BY <2>1, <2>2, MethodsAt, DelegatesAt DEF SpotDeployCalls
<1>9. ASSUME NEW k \in DOMAIN PerpDeployCalls
      PROVE  k \in DOMAIN Methods
               /\ (k \notin {"approve_agent",
                 "approve_broker_fee"} => Delegates[k] = Methods[k])
  <2>1. k \in {"perp_register_asset", "perp_set_oracle"}
          => k \in DOMAIN SupplyMethods /\ PerpDeployCalls[k] = SupplyMethods[k]
    BY DEF PerpDeployCalls, SupplyMethods
  <2>2. k \in {"perp_set_leverage", "perp_set_fee_tier", "perp_set_maker_rebate",
              "perp_set_min_size", "perp_set_oi_cap"}
          => k \in DOMAIN PerpParamMethods /\ PerpDeployCalls[k] = PerpParamMethods[k]
    BY DEF PerpDeployCalls, PerpParamMethods
  <2>3. k \in {"perp_activate_market", "perp_deactivate_market", "perp_set_sub_deployers",
              "mip3_set_oracle_px"}
          => k \in DOMAIN PerpMarketMethods /\ PerpDeployCalls[k] = PerpMarketMethods[k]
    BY DEF PerpDeployCalls, PerpMarketMethods
  <2> QED BY <2>1, <2>2, <2>3, MethodsAt, DelegatesAt DEF PerpDeployCalls
<1> QED BY <1>1, <1>2, <1>3, <1>4, <1>5, <1>6, <1>7, <1>8, <1>9

\* Where a key is renamed no argument is an Option, and none has the new key's name.
LEMMA Renaming ==
  ASSUME NEW k \in DOMAIN Renamed
  PROVE  /\ Options(k) = {}
         /\ \A key \in DOMAIN Renamed[k] : ~Has(Methods[k], key)
<1>1. CASE k = "approve_agent"
  <2>1. Methods[k] = TransferMethods[k] /\ Structs[k] = FundStructs[k]
    BY <1>1, MethodsAt, StructsAt DEF TransferMethods, FundStructs
  <2>2. \A key \in DOMAIN Renamed[k] : ~Has(TransferMethods[k], key)
    BY <1>1 DEF Renamed, Has, TransferMethods
  <2>3. DOMAIN FundStructs[k] \cap DOMAIN Flags = {} /\ SignedName(k) = k
    BY <1>1 DEF FundStructs, Flags, SignedName
  <2>4. k # "vault_modify"
    BY <1>1
  <2> QED BY <2>1, <2>2, <2>3, <2>4 DEF Options
<1>2. CASE k = "approve_broker_fee"
  <2>1. Methods[k] = ReferralMethods[k]
          /\ Structs["approve_builder_fee"] = FundStructs["approve_builder_fee"]
    BY <1>2, MethodsAt, StructsAt DEF ReferralMethods, FundStructs
  <2>2. \A key \in DOMAIN Renamed[k] : ~Has(ReferralMethods[k], key)
    BY <1>2 DEF Renamed, Has, ReferralMethods
  <2>3. DOMAIN FundStructs["approve_builder_fee"] \cap DOMAIN Flags = {}
          /\ SignedName(k) = "approve_builder_fee"
    BY <1>2 DEF FundStructs, Flags, SignedName
  <2>4. k # "vault_modify"
    BY <1>2
  <2> QED BY <2>1, <2>2, <2>3, <2>4 DEF Options
<1>3. CASE k = "send_to_evm_with_data"
  <2>1. Methods[k] = SubAccountMethods[k] /\ Structs[k] = AccountStructs[k]
    BY <1>3, MethodsAt, StructsAt DEF SubAccountMethods, AccountStructs
  <2>2. \A key \in DOMAIN Renamed[k] : ~Has(SubAccountMethods[k], key)
    BY <1>3 DEF Renamed, Has, SubAccountMethods
  <2>3. DOMAIN AccountStructs[k] \cap DOMAIN Flags = {} /\ SignedName(k) = k
    BY <1>3 DEF AccountStructs, Flags, SignedName
  <2>4. k # "vault_modify"
    BY <1>3
  <2> QED BY <2>1, <2>2, <2>3, <2>4 DEF Options
<1>4. CASE k = "multi_sig"
  <2>1. Methods[k] = BundleMethods[k] /\ Structs[k] = FundStructs[k]
    BY <1>4, MethodsAt, StructsAt DEF BundleMethods, FundStructs
  <2>2. \A key \in DOMAIN Renamed[k] : ~Has(BundleMethods[k], key)
    BY <1>4 DEF Renamed, Has, BundleMethods
  <2>3. DOMAIN FundStructs[k] \cap DOMAIN Flags = {} /\ SignedName(k) = k
    BY <1>4 DEF FundStructs, Flags, SignedName
  <2>4. k # "vault_modify"
    BY <1>4
  <2> QED BY <2>1, <2>2, <2>3, <2>4 DEF Options
<1> QED BY <1>1, <1>2, <1>3, <1>4 DEF Renamed

\* What is handed on, renamed, is what the method takes, in its order.
LEMMA Handing ==
  ASSUME NEW k \in DOMAIN Delegates
  PROVE  /\ DOMAIN Delegates[k] = DOMAIN Methods[k]
         /\ \A i \in DOMAIN Methods[k] : Behind(k, Delegates[k][i]) = Methods[k][i]
<1>1. CASE k = "approve_agent"
  <2>1. Methods[k] = TransferMethods[k] /\ Delegates[k] = AccountCalls[k]
    BY <1>1, MethodsAt, DelegatesAt DEF TransferMethods, AccountCalls
  <2>2. /\ DOMAIN AccountCalls[k] = DOMAIN TransferMethods[k]
        /\ \A i \in DOMAIN TransferMethods[k] : Behind(k,
          AccountCalls[k][i]) = TransferMethods[k][i]
    BY <1>1 DEF Behind, NewNames, Renamed, TransferMethods, AccountCalls
  <2> QED BY <2>1, <2>2
<1>2. CASE k = "approve_broker_fee"
  <2>1. Methods[k] = ReferralMethods[k] /\ Delegates[k] = AccountCalls[k]
    BY <1>2, MethodsAt, DelegatesAt DEF ReferralMethods, AccountCalls
  <2>2. /\ DOMAIN AccountCalls[k] = DOMAIN ReferralMethods[k]
        /\ \A i \in DOMAIN ReferralMethods[k] : Behind(k,
          AccountCalls[k][i]) = ReferralMethods[k][i]
    BY <1>2 DEF Behind, NewNames, Renamed, ReferralMethods, AccountCalls
  <2> QED BY <2>1, <2>2
<1>3. CASE k \notin {"approve_agent", "approve_broker_fee"}
  <2>1. Delegates[k] = Methods[k]
    BY <1>3, CallsHandOn
  <2>2. \A i \in DOMAIN Methods[k] : Methods[k][i] \notin DOMAIN NewNames(k)
    BY Renaming DEF NewNames, NoField, Has
  <2> QED BY <2>1, <2>2 DEF Behind
<1> QED BY <1>1, <1>2, <1>3

-----------------------------------------------------------------------------
(* One request: its arguments, and where the node finds them.             *)

\* An enum argument is one of its variants.
Coded(k, f, v) ==
  /\ f = "chain" => v \in DOMAIN mb_chain_to_u8
  /\ f = "side" => v \in DOMAIN core_side_to_u8
  /\ f = "kind" /\ k = "borrow_lend" => v \in DOMAIN BorrowLendKindAsU8

\* An Option that is None is none of the defaults it is unwrapped to.
LEMMA AbsentApart ==
  Absent \notin Nat /\ Absent # "" /\ Absent # Nobody /\ Absent # 0 /\ Absent # 1
<1>1. /\ Absent \notin Nat /\ Absent \notin BOOLEAN /\ Absent # "" /\ Absent # Nobody
  BY RequestAssumption
<1>2. 0 \in Nat /\ 1 \in Nat
  OBVIOUS
<1> QED BY <1>1, <1>2, Zenon

\* The methods that take no params struct.
LEMMA NotHandedOn ==
  \A k \in DOMAIN Delegates :
    k \notin {"pm_enroll", "pm_unenroll", "send_to_evm_with_data", "multi_sig"}
<1>1. \A k \in DOMAIN Delegates :
        k \in DOMAIN EarnCalls \/ k \in DOMAIN CancelAllCalls \/ k \in DOMAIN MarginCalls \/
        k \in DOMAIN AccountCalls \/ k \in DOMAIN StakingCalls \/ k \in DOMAIN RfqCalls \/
        k \in DOMAIN SpotDeployCalls \/ k \in DOMAIN PerpDeployCalls
  BY MergedFrom DEF Delegates
<1> QED BY <1>1 DEF EarnCalls, CancelAllCalls, MarginCalls, AccountCalls, StakingCalls,
                    RfqCalls, SpotDeployCalls, PerpDeployCalls

\* The fields of a params struct that are unwrapped, and never to None.
LEMMA Unwrapping ==
  ASSUME NEW k \in DOMAIN Unwrapped, NEW f \in DOMAIN Unwrapped[k]
  PROVE  /\ \/ k = "approve_agent" /\ (f = "name" \/ f = "expires_at_ms")
            \/ k = "claim_rewards" /\ f = "validator"
         /\ Unwrapped[k][f] # Absent
<1>1. /\ DOMAIN Unwrapped = {"approve_agent", "claim_rewards"}
      /\ DOMAIN Unwrapped["approve_agent"] = {"name", "expires_at_ms"}
      /\ DOMAIN Unwrapped["claim_rewards"] = {"validator"}
  BY DEF Unwrapped
<1>2. /\ Unwrapped["approve_agent"]["name"] = ""
      /\ Unwrapped["approve_agent"]["expires_at_ms"] = 0
      /\ Unwrapped["claim_rewards"]["validator"] = Nobody
  BY DEF Unwrapped
<1> QED BY <1>1, <1>2, AbsentApart

\* Each argument is the field of the params struct at its place.
LEMMA Handed ==
  ASSUME NEW r \in Requests, r.via = "params", r.kind \in DOMAIN Delegates,
         NEW i \in DOMAIN Methods[r.kind]
  PROVE  Args(r)[Methods[r.kind][i]] = HandedOn(r.kind, r.params, Delegates[r.kind][i])
<1> DEFINE k == r.kind
           formals == Methods[k]
           given == Delegates[k]
           At(f) == CHOOSE j \in DOMAIN formals : formals[j] = f
<1>1. k \notin {"pm_enroll", "pm_unenroll"}
  BY NotHandedOn
<1>2. CASE k = "vault_modify"
  <2>1. Args(r) = r.params
    BY <1>1, <1>2 DEF Args
  <2>2. HandedOn(k, r.params, given[i]) = r.params[given[i]]
    BY <1>2 DEF HandedOn, Unwrapped
  <2>3. given = formals
    BY <1>2, CallsHandOn
  <2> QED BY <2>1, <2>2, <2>3
<1>3. CASE k # "vault_modify"
  <2>1. Args(r) = [f \in {formals[j] : j \in DOMAIN formals} |-> HandedOn(k, r.params,
          given[At(f)])]
    BY <1>1, <1>3 DEF Args
  <2>2. Distinct(formals)
    BY CallsHandOn, MethodsFit DEF Fit
  <2>3. At(formals[i]) = i
    BY <2>2 DEF Distinct
  <2> HIDE DEF At
  <2> QED BY <2>1, <2>3
<1> QED BY <1>2, <1>3

\* The method behind pm_enroll and pm_unenroll.
LEMMA Enrolled ==
  /\ "user_portfolio_margin" \in DOMAIN Methods
  /\ Formals("user_portfolio_margin") = {"enroll"}
<1>1. Methods["user_portfolio_margin"] = <<"enroll">>
        /\ "user_portfolio_margin" \in DOMAIN Methods
  BY MethodsAt DEF LeverageMethods
<1> QED BY <1>1 DEF Formals

\* A request has every argument of its method; one is None only if the method
\* takes an Option there, and an enum is one of its names.
LEMMA Argued ==
  ASSUME NEW r \in Requests
  PROVE  LET k == Method(r)
             a == Args(r)
         IN  /\ k \in DOMAIN Methods /\ DOMAIN a = Formals(k)
             /\ \A f \in Formals(k) : /\ a[f] = Absent => f \in Options(k)
                                      /\ Coded(k, f, a[f])
<1>1. CASE r.via = "typed"
  <2>1. Method(r) = r.kind /\ Args(r) = r.params
    BY <1>1 DEF Method, Args
  <2>2. r.kind \in DOMAIN Methods /\ DOMAIN r.params = Formals(r.kind)
    BY <1>1, RequestAssumption
  <2>3. ASSUME NEW f \in Formals(r.kind)
        PROVE  (r.params[f] = Absent => f \in Options(r.kind)) /\ Coded(r.kind, f, r.params[f])
    <3>1. r.params[f] = Absent => MayBeNone(r, f)
      BY <2>2, RequestAssumption
    <3>2. r.params[f] \in Variants(r, f)
      BY <2>2, RequestAssumption
    <3>3. ~(r.kind = "create_vault" /\ f = "parent")
      <4>1. Methods["create_vault"] = <<"name", "lock_period_secs", "kind">>
        BY MethodsAt DEF VaultMethods
      <4> QED BY <4>1 DEF Formals
    <3>4. MayBeNone(r, f) => f \in Options(r.kind)
      BY <1>1, <3>3 DEF MayBeNone
    <3>5. Coded(r.kind, f, r.params[f])
      BY <3>2 DEF Variants, Coded
    <3> QED BY <3>1, <3>4, <3>5
  <2> QED BY <2>1, <2>2, <2>3
<1>2. CASE r.via = "params" /\ r.kind \in {"pm_enroll", "pm_unenroll"}
  <2>1. Method(r) = "user_portfolio_margin" /\ Args(r) = [enroll |-> r.kind = "pm_enroll"]
    BY <1>2 DEF Method, Args
  <2>2. Args(r)["enroll"] \in BOOLEAN
    BY <2>1
  <2>3. Args(r)["enroll"] # Absent
    BY <2>2, RequestAssumption
  <2> QED BY <2>1, <2>3, Enrolled DEF Coded
<1>3. CASE r.via = "params" /\ r.kind \notin {"pm_enroll", "pm_unenroll"}
  <2> DEFINE k == r.kind
             p == r.params
             a == Args(r)
  <2>1. Method(r) = k /\ k \in DOMAIN Delegates /\ k \in DOMAIN Methods
    BY <1>3, RequestAssumption, CallsHandOn DEF Method
  <2>2. DOMAIN p = {Delegates[k][i] : i \in DOMAIN Delegates[k]}
                     \cup (IF k = "create_vault" THEN {"parent"} ELSE {})
    BY <1>3, RequestAssumption DEF Held
  <2>3. DOMAIN a = Formals(k)
    <3>1. CASE k = "vault_modify"
      <4>1. a = p
        BY <1>3, <3>1 DEF Args
      <4> QED BY <2>1, <2>2, <3>1, <4>1, CallsHandOn DEF Formals
    <3>2. CASE k # "vault_modify"
      BY <1>3, <3>2 DEF Args, Formals
    <3> QED BY <3>1, <3>2
  <2>4. ASSUME NEW i \in DOMAIN Methods[k]
        PROVE  LET f == Methods[k][i]
               IN  (a[f] = Absent => f \in Options(k)) /\ Coded(k, f, a[f])
    <3> DEFINE f == Methods[k][i]
               g == Delegates[k][i]
               Fine == (a[f] = Absent => f \in Options(k)) /\ Coded(k, f, a[f])
    <3>1. g \in DOMAIN p /\ Behind(k, g) = f
      BY <2>1, <2>2, Handing
    <3>2. a[f] = HandedOn(k, p, g)
      BY <1>3, <2>1, Handed
    <3>3. p[g] = Absent => MayBeNone(r, g)
      BY <3>1, RequestAssumption
    <3>4. p[g] \in Variants(r, g)
      BY <3>1, RequestAssumption
    <3> HIDE DEF a, f
    <3>5. ~(k = "create_vault" /\ g = "parent")
      <4>1. Delegates["create_vault"] = <<"name", "lock_period_secs", "kind">>
        BY DelegatesAt DEF StakingCalls
      <4>2. Methods["create_vault"] = <<"name", "lock_period_secs", "kind">>
        BY MethodsAt DEF VaultMethods
      <4> QED BY <4>1, <4>2
    <3> HIDE DEF g
    <3>6. ASSUME k \in DOMAIN Unwrapped, g \in DOMAIN Unwrapped[k] PROVE Fine
      <4>1. a[f] = OrElse(p[g], Unwrapped[k][g])
        <5>1. ~(k = "create_vault" /\ g = "kind")
          BY <3>6, Unwrapping
        <5> QED BY <3>2, <3>6, <5>1 DEF HandedOn
      <4>2. Unwrapped[k][g] # Absent
        BY <3>6, Unwrapping
      <4>3. f \notin {"chain", "side", "kind"}
        <5>1. CASE k = "approve_agent"
          <6>1. /\ DOMAIN NewNames(k) = {"agent", "name"}
                /\ NewNames(k)["name"] = "agent_name"
            BY <5>1 DEF NewNames, Renamed
          <6>2. g = "name" \/ g = "expires_at_ms"
            BY <3>6, <5>1, Unwrapping
          <6> QED BY <3>1, <6>1, <6>2 DEF Behind
        <5>2. CASE k = "claim_rewards"
          <6>1. NewNames(k) = NoField
            BY <5>2 DEF NewNames, Renamed
          <6>2. g = "validator"
            BY <3>6, <5>2, Unwrapping
          <6> QED BY <3>1, <6>1, <6>2 DEF Behind, NoField
        <5> QED BY <3>6, <5>1, <5>2, Unwrapping
      <4> QED BY <4>1, <4>2, <4>3 DEF OrElse, Coded
    <3>7. ASSUME k = "create_vault", g = "kind" PROVE Fine
      <4>1. a[f] \in {0, 1}
        BY <3>2, <3>7 DEF HandedOn, Unwrapped
      <4>2. f = "kind"
        <5>1. NewNames(k) = NoField
          BY <3>7 DEF NewNames, Renamed
        <5> QED BY <3>1, <3>7, <5>1 DEF Behind, NoField
      <4> QED BY <3>7, <4>1, <4>2, AbsentApart DEF Coded
    <3>8. ASSUME ~(k \in DOMAIN Unwrapped /\ g \in DOMAIN Unwrapped[k]),
                 ~(k = "create_vault" /\ g = "kind")
          PROVE  Fine
      <4>1. a[f] = p[g]
        BY <3>2, <3>8 DEF HandedOn
      <4>2. p[g] = Absent => g \in Options(k)
        BY <3>3, <3>5, <3>8 DEF MayBeNone
      <4>3. g \in Options(k) => f = g
        BY <3>1, Renaming DEF Behind, NewNames, NoField
      <4>4. f \in {"chain", "side", "kind"} => f = g
        BY <3>1 DEF Behind, NewNames, NoField, Renamed
      <4>5. Coded(k, g, p[g])
        BY <3>4, <3>8 DEF Variants, Coded
      <4>6. Coded(k, f, a[f])
        <5>1. Coded(k, g, a[f])
          BY <4>1, <4>5
        <5>2. CASE f = g
          BY <5>1, <5>2
        <5>3. CASE f # g
          <6>1. f # "chain" /\ f # "side" /\ f # "kind"
            BY <4>4, <5>3
          <6> QED BY <6>1 DEF Coded
        <5> QED BY <5>2, <5>3
      <4> QED BY <4>1, <4>2, <4>3, <4>6
    <3>9. Fine
      BY <3>6, <3>7, <3>8
    <3> QED BY <3>9 DEF f
  <2> QED BY <2>1, <2>3, <2>4 DEF Formals
<1> QED BY <1>1, <1>2, <1>3, RequestAssumption

\* What is left out of the body is None, or the default that the node puts there;
\* and it is never a renamed key.
LEMMA LeavingOut ==
  ASSUME NEW k \in DOMAIN Methods, NEW a, NEW f \in LeftOut(k, a)
  PROVE  /\ \/ a[f] = Absent
            \/ f = "expires_at_ms" /\ a[f] = 0 /\ Structs[SignedName(k)][f] = "u64"
            \/ f = "validator" /\ a[f] = Nobody /\ Structs[SignedName(k)][f] = "address"
         /\ \A key \in DOMAIN NewNames(k) : NewNames(k)[key] # f
<1>1. CASE k \in {"approve_agent", "register_metaliquidity_operator"}
  <2>1. f = "expires_at_ms" /\ a[f] = 0
    BY <1>1 DEF LeftOut
  <2>2. Structs[SignedName(k)]["expires_at_ms"] = "u64"
    <3>1. SignedName(k) = k
      BY <1>1 DEF SignedName
    <3>2. FundStructs["approve_agent"]["expires_at_ms"] = "u64"
      BY DEF FundStructs
    <3>3. OperatorStructs["register_metaliquidity_operator"]["expires_at_ms"] = "u64"
      BY DEF OperatorStructs
    <3>4. "approve_agent" \in DOMAIN FundStructs
      BY DEF FundStructs
    <3>5. "register_metaliquidity_operator" \in DOMAIN OperatorStructs
      BY DEF OperatorStructs
    <3> QED BY <1>1, <3>1, <3>2, <3>3, <3>4, <3>5, StructsAt
  <2>3. \A key \in DOMAIN NewNames(k) : NewNames(k)[key] # "expires_at_ms"
    <3>1. CASE k = "approve_agent"
      BY <3>1 DEF NewNames, Renamed
    <3>2. CASE k = "register_metaliquidity_operator"
      BY <3>2 DEF NewNames, Renamed, NoField
    <3> QED BY <1>1, <3>1, <3>2
  <2> QED BY <2>1, <2>2, <2>3
<1>2. CASE k = "claim_rewards"
  <2>1. f = "validator" /\ a[f] = Nobody
    BY <1>2 DEF LeftOut
  <2>2. Structs[SignedName(k)]["validator"] = "address"
    <3>1. SignedName(k) = k
      BY <1>2 DEF SignedName
    <3>2. "claim_rewards" \in DOMAIN MarginStructs
            /\ MarginStructs["claim_rewards"]["validator"] = "address"
      BY DEF MarginStructs
    <3> QED BY <1>2, <3>1, <3>2, StructsAt
  <2>3. NewNames(k) = NoField
    BY <1>2 DEF NewNames, Renamed
  <2> QED BY <2>1, <2>2, <2>3 DEF NoField
<1>3. CASE k \in {"create_sub_account", "cancel_all_orders", "vault_modify"}
  <2>1. a[f] = Absent
    BY <1>3 DEF LeftOut
  <2>2. NewNames(k) = NoField
    BY <1>3 DEF NewNames, Renamed
  <2> QED BY <2>1, <2>2 DEF NoField
<1> QED BY <1>1, <1>2, <1>3 DEF LeftOut

\* The owner travels under a key of its own.
LEMMA Owned ==
  ASSUME NEW r \in Requests, NEW n
  PROVE  /\ "owner" \notin Formals(Method(r)) /\ "owner" \notin DOMAIN NewNames(Method(r))
         /\ Given(Envelope(r, n), "owner") = r.owner
<1> DEFINE k == Method(r)
           a == Args(r)
<1>1. k \in DOMAIN Methods /\ DOMAIN a = Formals(k)
  BY Argued
<1>2. "owner" \notin Formals(k)
  BY <1>1, MethodsFit DEF Fit, Has, Formals
<1>3. "owner" \notin DOMAIN NewNames(k)
  BY DEF NewNames, Renamed, NoField
<1>4. "owner" \notin Keys(k, a)
  BY <1>1, <1>2, <1>3 DEF Keys
<1>5. Envelope(r, n).body = Body(k, a, r.owner)
  BY DEF Envelope
<1> HIDE DEF k, a
<1>6. r.owner = Absent => "owner" \notin DOMAIN Body(k, a, r.owner)
  BY <1>4 DEF Body
<1>7. r.owner # Absent => "owner" \in DOMAIN Body(k, a, r.owner) /\ Body(k, a,
        r.owner)["owner"] = r.owner
  BY DEF Body
<1>8. Given(Envelope(r, n), "owner") = r.owner
  BY <1>5, <1>6, <1>7 DEF Given
<1> QED BY <1>2, <1>3, <1>8 DEF k

\* What the node is given for a key: the argument behind it, unless it was left out.
LEMMA GivenKey ==
  ASSUME NEW r \in Requests, NEW n, NEW key,
         Behind(Method(r), key) \in Formals(Method(r)),
         \/ key \in DOMAIN NewNames(Method(r))
         \/ \A x \in DOMAIN NewNames(Method(r)) : NewNames(Method(r))[x] # key
  PROVE  LET k == Method(r)
             a == Args(r)
             f == Behind(k, key)
         IN  Given(Envelope(r, n), key) = IF f \in LeftOut(k, a) THEN Absent ELSE Posted(k,
           a, f)
<1> DEFINE k == Method(r)
           a == Args(r)
           f == Behind(k, key)
           b == Body(k, a, r.owner)
<1>1. k \in DOMAIN Methods /\ DOMAIN a = Formals(k)
  BY Argued
<1>2. key # "owner"
  BY Owned DEF Behind
<1>3. Envelope(r, n).body = b
  BY DEF Envelope
<1>4. f \notin LeftOut(k, a) <=> key \in Keys(k, a)
  <2>1. CASE key \in DOMAIN NewNames(k)
    <3>1. f = NewNames(k)[key]
      BY <2>1 DEF Behind
    <3> QED BY <1>1, <2>1, <3>1, LeavingOut DEF Keys
  <2>2. CASE key \notin DOMAIN NewNames(k)
    <3>1. f = key
      BY <2>2 DEF Behind
    <3> QED BY <1>1, <2>2, <3>1 DEF Keys
  <2> QED BY <2>1, <2>2
<1>5. key \in DOMAIN b <=> key \in Keys(k, a)
  BY <1>2 DEF Body
<1>6. key \in DOMAIN b => b[key] = Posted(k, a, f)
  BY <1>2 DEF Body
<1> HIDE DEF k, a, f, b
<1> QED BY <1>3, <1>4, <1>5, <1>6 DEF Given, k, a, f

\* The node finds an argument under its wire name, or it was left out.
LEMMA GivenField ==
  ASSUME NEW r \in Requests, NEW n, NEW f \in Formals(Method(r))
  PROVE  LET k == Method(r)
             a == Args(r)
         IN  Given(Envelope(r, n), WireName(k, f))
               = IF f \in LeftOut(k, a) THEN Absent ELSE Posted(k, a, f)
<1> DEFINE k == Method(r)
           key == WireName(k, f)
<1>1. CASE \E x \in DOMAIN NewNames(k) : NewNames(k)[x] = f
  <2>1. key \in DOMAIN NewNames(k) /\ NewNames(k)[key] = f
    BY <1>1 DEF WireName
  <2>2. Behind(k, key) = f
    BY <2>1 DEF Behind
  <2> HIDE DEF key
  <2> QED BY <2>1, <2>2, GivenKey DEF key
<1>2. CASE ~\E x \in DOMAIN NewNames(k) : NewNames(k)[x] = f
  <2>1. key = f
    BY <1>2 DEF WireName
  <2>2. f \notin DOMAIN NewNames(k)
    BY Renaming DEF NewNames, NoField, Has, Formals
  <2>3. Behind(k, f) = f
    BY <2>2 DEF Behind
  <2> QED BY <1>2, <2>1, <2>3, GivenKey
<1> QED BY <1>1, <1>2

-----------------------------------------------------------------------------
(* The node rebuilds what was signed.                                     *)

\* The names that an Option may have.
LEMMA OptionsNamed ==
  ASSUME NEW k, NEW f \in Options(k)
  PROVE  f \in {"asset", "explicit_index", "limit_px", "stp_group", "new_lock_period_secs",
                "new_management_fee_bps", "new_paused", "new_name"}
<1>1. \A x \in DOMAIN Flags :
        Flags[x] \in {"asset", "explicit_index", "limit_px", "stp_group",
          "new_lock_period_secs",
                      "new_management_fee_bps", "new_paused"}
  BY DEF Flags
<1> QED BY <1>1 DEF Options

\* An enum that is posted by name is read back as the code that was signed.
LEMMA CodesAgree ==
  /\ \A v \in DOMAIN mb_chain_to_u8 : NodeCodes[v] = mb_chain_to_u8[v]
  /\ \A v \in DOMAIN core_side_to_u8 : NodeCodes[v] = core_side_to_u8[v]
  /\ \A v \in DOMAIN BorrowLendKindAsU8 : NodeCodes[v] = BorrowLendKindAsU8[v]
  /\ NodeCodes["Metaliquidity"] = 1 /\ NodeCodes["User"] = 0
<1>1. /\ NodeCodes["Base"] = mb_chain_to_u8["Base"]
      /\ NodeCodes["Arbitrum"] = mb_chain_to_u8["Arbitrum"]
      /\ DOMAIN mb_chain_to_u8 = {"Base", "Arbitrum"}
  BY DEF NodeCodes, mb_chain_to_u8
<1>2. /\ NodeCodes["Bid"] = core_side_to_u8["Bid"] /\ NodeCodes["Ask"] = core_side_to_u8["Ask"]
      /\ DOMAIN core_side_to_u8 = {"Bid", "Ask"}
  BY DEF NodeCodes, core_side_to_u8
<1>3. /\ NodeCodes["Lend"] = BorrowLendKindAsU8["Lend"]
      /\ NodeCodes["UnLend"] = BorrowLendKindAsU8["UnLend"]
      /\ NodeCodes["Borrow"] = BorrowLendKindAsU8["Borrow"]
      /\ NodeCodes["Repay"] = BorrowLendKindAsU8["Repay"]
      /\ DOMAIN BorrowLendKindAsU8 = {"Lend", "UnLend", "Borrow", "Repay"}
  BY DEF NodeCodes, BorrowLendKindAsU8
<1>4. NodeCodes["Metaliquidity"] = 1 /\ NodeCodes["User"] = 0
  BY DEF NodeCodes
<1> QED BY <1>1, <1>2, <1>3, <1>4

\* A field that the struct of a method has is an argument, or flags one.
LEMMA Filled ==
  ASSUME NEW r \in Requests, Method(r) # "pm_unenroll",
         NEW f \in DOMAIN Structs[SignedName(Method(r))]
  PROVE  IF f \in DOMAIN Flags
         THEN Flags[f] \in Formals(Method(r)) /\ Flags[f] \in Options(Method(r))
         ELSE f \in Formals(Method(r))
<1> DEFINE k == Method(r)
<1>1. k \in DOMAIN Methods
  BY Argued
<1>2. Fills(Methods[k], Structs[SignedName(k)])
  BY <1>1, MethodsFit DEF Fit
<1> HIDE DEF k
<1>3. Has(Methods[k], IF f \in DOMAIN Flags THEN Flags[f] ELSE f)
  BY <1>2 DEF Fills, k
<1>4. f \in DOMAIN Flags => Flags[f] \in Options(k)
  BY DEF Options, k
<1> QED BY <1>3, <1>4 DEF Has, Formals, k

\* The node rebuilds each field as it was signed.
LEMMA FieldRebuilt ==
  ASSUME NEW r \in Requests, NEW n, Method(r) # "pm_unenroll",
         NEW f \in DOMAIN Structs[SignedName(Method(r))],
         Method(r) = "create_vault" => Args(r).kind \in {0, 1}
  PROVE  NodeField(Envelope(r, n), f) = SignedField(Method(r), Args(r), f)
<1> DEFINE k == Method(r)
           a == Args(r)
           e == Envelope(r, n)
           d == Default(Structs[SignedName(k)][f])
<1>1. k \in DOMAIN Methods /\ e.kind = k
  BY Argued DEF Envelope
<1>2. CASE f \in DOMAIN Flags
  <2> DEFINE o == Flags[f]
  <2>1. o \in Formals(k) /\ o \in Options(k)
    BY <1>2, Filled
  <2>2. NewNames(k) = NoField
    BY <2>1, Renaming DEF NewNames
  <2>3. Behind(k, o) = o
    BY <2>2 DEF Behind, NoField
  <2>4. Given(e, o) = IF o \in LeftOut(k, a) THEN Absent ELSE Posted(k, a, o)
    BY <2>1, <2>2, <2>3, GivenKey DEF NoField
  <2>5. o \notin {"expires_at_ms", "validator", "kind"}
    BY <2>1, OptionsNamed
  <2>6. o \in LeftOut(k, a) => a[o] = Absent
    BY <1>1, <2>5, LeavingOut
  <2>7. Posted(k, a, o) = a[o]
    BY <2>5 DEF Posted
  <2>8. SignedField(k, a, f) = (a[o] # Absent)
    <3>1. f # "chain" /\ f # "side" /\ f # "kind"
      BY <1>2 DEF Flags
    <3> QED BY <1>2, <3>1 DEF SignedField
  <2>9. NodeField(e, f) = (Given(e, o) # Absent)
    BY <1>2 DEF NodeField
  <2>10. (Given(e, o) # Absent) = (a[o] # Absent)
    <3>1. CASE o \in LeftOut(k, a)
      <4>1. a[o] = Absent /\ Given(e, o) = Absent
        BY <2>4, <2>6, <3>1
      <4> QED BY <4>1
    <3>2. CASE o \notin LeftOut(k, a)
      <4>1. Given(e, o) = a[o]
        BY <2>4, <2>7, <3>2
      <4> QED BY <4>1
    <3> QED BY <3>1, <3>2
  <2> QED BY <2>8, <2>9, <2>10
<1>3. CASE f \notin DOMAIN Flags
  <2>1. f \in Formals(k)
    BY <1>3, Filled
  <2>2. Given(e, WireName(k, f)) = IF f \in LeftOut(k, a) THEN Absent ELSE Posted(k, a, f)
    BY <2>1, GivenField
  <2>3. (a[f] = Absent => f \in Options(k)) /\ Coded(k, f, a[f])
    BY <2>1, Argued
  <2>4. CASE IsCode(k, f)
    <3>1. f \in {"chain", "side", "kind"} /\ a[f] # Absent
      BY <2>3, <2>4, OptionsNamed DEF IsCode
    <3>2. f \notin LeftOut(k, a)
      BY <1>1, <3>1, LeavingOut
    <3>3. NodeField(e, f) = NodeCodes[Posted(k, a, f)]
      BY <1>1, <1>3, <2>2, <2>4, <3>2 DEF NodeField
    <3>4. CASE f = "chain"
      <4>1. SignedField(k, a, f) = mb_chain_to_u8[a["chain"]]
        BY <1>3, <3>4 DEF SignedField
      <4>2. Posted(k, a, f) = a["chain"] /\ a["chain"] \in DOMAIN mb_chain_to_u8
        BY <2>3, <3>4 DEF Posted, Coded
      <4> QED BY <3>3, <4>1, <4>2, CodesAgree
    <3>5. CASE f = "side"
      <4>1. SignedField(k, a, f) = core_side_to_u8[a["side"]]
        BY <1>3, <3>5 DEF SignedField
      <4>2. Posted(k, a, f) = a["side"] /\ a["side"] \in DOMAIN core_side_to_u8
        BY <2>3, <3>5 DEF Posted, Coded
      <4> QED BY <3>3, <4>1, <4>2, CodesAgree
    <3>6. CASE f = "kind" /\ k = "borrow_lend"
      <4>1. SignedField(k, a, f) = BorrowLendKindAsU8[a["kind"]]
        BY <1>3, <3>6 DEF SignedField
      <4>2. Posted(k, a, f) = a["kind"] /\ a["kind"] \in DOMAIN BorrowLendKindAsU8
        BY <2>3, <3>6 DEF Posted, Coded
      <4> QED BY <3>3, <4>1, <4>2, CodesAgree
    <3>7. CASE f = "kind" /\ k = "create_vault"
      <4>1. SignedField(k, a, f) = OrElse(a["kind"], d)
        BY <1>3, <3>7 DEF SignedField
      <4>2. a["kind"] \in {0, 1} /\ a["kind"] # Absent
        BY <3>1, <3>7
      <4>3. SignedField(k, a, f) = a["kind"]
        BY <4>1, <4>2 DEF OrElse
      <4>4. Posted(k, a, f) = IF a["kind"] = 1 THEN "Metaliquidity" ELSE "User"
        BY <3>7 DEF Posted
      <4>5. NodeCodes[Posted(k, a, f)] = a["kind"]
        BY <4>2, <4>4, CodesAgree
      <4> QED BY <3>3, <4>3, <4>5
    <3> QED BY <2>4, <3>4, <3>5, <3>6, <3>7 DEF IsCode
  <2>5. CASE ~IsCode(k, f)
    <3>1. SignedField(k, a, f) = OrElse(a[f], d)
      BY <1>3, <2>5 DEF SignedField, IsCode
    <3>2. NodeField(e, f) = OrElse(Given(e, WireName(k, f)), d)
      BY <1>1, <1>3, <2>5 DEF NodeField
    <3>3. Posted(k, a, f) = a[f]
      BY <2>5 DEF Posted, IsCode
    <3>4. CASE f \in LeftOut(k, a)
      <4>1. NodeField(e, f) = d
        BY <2>2, <3>2, <3>4 DEF OrElse
      <4>2. CASE a[f] = Absent
        BY <3>1, <4>1, <4>2 DEF OrElse
      <4>3. CASE a[f] = 0 /\ Structs[SignedName(k)][f] = "u64"
        <5>1. d = 0
          BY <4>3 DEF Default
        <5> QED BY <3>1, <4>1, <4>3, <5>1 DEF OrElse
      <4>4. CASE a[f] = Nobody /\ Structs[SignedName(k)][f] = "address"
        <5>1. d = Nobody
          BY <4>4 DEF Default
        <5> QED BY <3>1, <4>1, <4>4, <5>1 DEF OrElse
      <4> QED BY <1>1, <3>4, <4>2, <4>3, <4>4, LeavingOut
    <3>5. CASE f \notin LeftOut(k, a)
      <4>1. Given(e, WireName(k, f)) = a[f]
        BY <2>2, <3>3, <3>5
      <4> QED BY <3>1, <3>2, <4>1
    <3> QED BY <3>4, <3>5
  <2> QED BY <2>4, <2>5
<1> QED BY <1>2, <1>3

\* What an envelope says of the request it was made of.
LEMMA Sealed ==
  ASSUME NEW r \in Requests, NEW n
  PROVE  LET e == Envelope(r, n)
         IN  /\ e.ok /\ e.req = r /\ e.kind = Method(r) /\ e.nonce = n /\ e.signer = r.signer
             /\ e.digest = HashStruct(SignedName(Method(r)), Signed(Method(r), Args(r)),
                                      r.owner, n, r.expires)
             /\ OrElse(e.expires, 0) = r.expires
<1>1. r.expires # Absent
  <2>1. r.expires \in Nat
    BY RequestAssumption
  <2> QED BY <2>1, AbsentApart
<1>2. OrElse(IF r.expires = 0 THEN Absent ELSE r.expires, 0) = r.expires
  BY <1>1 DEF OrElse
<1> QED BY <1>2 DEF Envelope

\* The node rebuilds the struct that was signed.
LEMMA Rebuilt ==
  ASSUME NEW r \in Requests, NEW n, KindKnown(Envelope(r, n))
  PROVE  NodeStruct(Envelope(r, n)) = Signed(Method(r), Args(r))
<1> DEFINE e == Envelope(r, n)
<1>1. e.kind = Method(r) /\ e.req = r
  BY Sealed
<1>2. CASE Method(r) = "pm_unenroll"
  BY <1>1, <1>2 DEF NodeStruct, Signed
<1>3. CASE Method(r) # "pm_unenroll"
  <2>1. Method(r) = "create_vault" => Args(r).kind \in {0, 1}
    BY <1>1 DEF KindKnown
  <2>2. \A f \in DOMAIN Structs[SignedName(Method(r))] :
          NodeField(e, f) = SignedField(Method(r), Args(r), f)
    BY <1>3, <2>1, FieldRebuilt
  <2> QED BY <1>1, <1>3, <2>2 DEF NodeStruct, Signed
<1> QED BY <1>2, <1>3

\* An envelope verifies.
LEMMA EnvelopeVerified ==
  ASSUME NEW r \in Requests, NEW n, KindKnown(Envelope(r, n))
  PROVE  Verified(Envelope(r, n))
BY Sealed, Rebuilt, Owned DEF Verified

-----------------------------------------------------------------------------
(* The words follow the type.                                             *)

\* The names an owner and an expiry add to a type string, and the words they add.
Bound(x, owner) == IF owner = Absent THEN <<>> ELSE <<x>>
Names(m, owner, expires) ==
  LET names == Bound("owner", owner) \o Types[m]
  IN  IF expires = 0 THEN names ELSE Append(names, "expires_after")
Hashed(m, s, owner, expires) ==
  (Bound(owner, owner) \o Spoken(m, s)) \o (IF expires = 0 THEN <<>> ELSE <<expires>>)
WordAt(names, s, owner, expires, i) ==
  IF names[i] = "owner" THEN owner
  ELSE IF names[i] = "expires_after" THEN expires ELSE s[names[i]]

\* The names of a field, of an owner and of an expiry never meet.
LEMMA FieldNamed ==
  ASSUME NEW m \in Actions, NEW i \in 1..Len(Types[m])
  PROVE  Types[m][i] # "owner" /\ Types[m][i] # "expires_after" /\ i \in DOMAIN Types[m]
<1>1. Listed(Types[m]) /\ Sound(Types[m], Structs[m]) /\ Unbound(Structs[m])
  BY TypesNamed DEF NamesOf
<1>2. i \in DOMAIN Types[m]
  BY <1>1 DEF Listed
<1> QED BY <1>1, <1>2 DEF Sound, Unbound

Follows(words, names, s, owner, expires) ==
  /\ Listed(names) /\ Listed(words) /\ Len(words) = Len(names)
  /\ \A i \in DOMAIN names : words[i] = WordAt(names, s, owner, expires, i)

\* With or without an owner, the words follow the names ...
LEMMA Unexpiring ==
  ASSUME NEW m \in Actions, NEW s, NEW owner, NEW expires
  PROVE  Follows(Bound(owner, owner) \o Spoken(m, s), Bound("owner", owner) \o Types[m],
                 s, owner, expires)
<1> DEFINE T == Types[m]
           w == Spoken(m, s)
<1>1. Listed(T) /\ Listed(w) /\ Len(w) = Len(T)
  BY TypesNamed, SpokenListed DEF NamesOf
<1>2. \A i \in 1..Len(T) : w[i] = s[T[i]] /\ T[i] # "owner" /\ T[i] # "expires_after"
  BY FieldNamed DEF Spoken
<1>3. DOMAIN T = 1..Len(T)
  BY <1>1 DEF Listed
<1> HIDE DEF T, w
<1>4. CASE owner = Absent
  <2>1. <<>> \o T = T /\ <<>> \o w = w
    BY <1>1, Unprefixed
  <2>2. \A i \in DOMAIN T : w[i] = WordAt(T, s, owner, expires, i)
    BY <1>2, <1>3 DEF WordAt
  <2>3. Follows(w, T, s, owner, expires)
    BY <1>1, <2>2 DEF Follows
  <2> QED BY <1>4, <2>1, <2>3 DEF Bound, T, w
<1>5. CASE owner # Absent
  <2> DEFINE nm == <<"owner">> \o T
             wd == <<owner>> \o w
  <2>1. /\ nm = [i \in 1..Len(T) + 1 |-> nm[i]] /\ Len(nm) = Len(T) + 1
        /\ nm[1] = "owner" /\ \A i \in 1..Len(T) : nm[i + 1] = T[i]
    <3>1. Led(<<"owner">> \o T, "owner", T)
      BY <1>1, Prefixed
    <3> QED BY <3>1 DEF Led
  <2>2. /\ wd = [i \in 1..Len(w) + 1 |-> wd[i]] /\ Len(wd) = Len(w) + 1
        /\ wd[1] = owner /\ \A i \in 1..Len(w) : wd[i + 1] = w[i]
    <3>1. Led(<<owner>> \o w, owner, w)
      BY <1>1, Prefixed
    <3> QED BY <3>1 DEF Led
  <2> HIDE DEF nm, wd
  <2>3. Len(T) \in Nat
    BY <1>1 DEF Listed
  <2>4. Listed(nm) /\ Listed(wd) /\ Len(wd) = Len(nm)
    BY <1>1, <2>1, <2>2, <2>3 DEF Listed
  <2>5. ASSUME NEW i \in DOMAIN nm
        PROVE  wd[i] = WordAt(nm, s, owner, expires, i)
    <3>1. i \in 1..Len(T) + 1
      BY <2>1
    <3>2. CASE i = 1
      BY <2>1, <2>2, <3>2 DEF WordAt
    <3>3. CASE i # 1
      <4>1. i - 1 \in 1..Len(T) /\ (i - 1) + 1 = i
        BY <2>3, <3>1, <3>3
      <4>2. nm[i] = T[i - 1] /\ wd[i] = w[i - 1]
        BY <1>1, <2>1, <2>2, <4>1
      <4> QED BY <1>2, <4>1, <4>2 DEF WordAt
    <3> QED BY <3>2, <3>3
  <2>6. Follows(wd, nm, s, owner, expires)
    BY <2>4, <2>5 DEF Follows
  <2> QED BY <1>5, <2>6 DEF Bound, nm, wd, T, w
<1> QED BY <1>4, <1>5

\* ... and with or without an expiry.
LEMMA NamesFollowed ==
  ASSUME NEW m \in Actions, NEW s, NEW owner, NEW expires
  PROVE  LET names == Names(m, owner, expires)
         IN  Hashed(m, s, owner, expires)
               = [i \in DOMAIN names |-> WordAt(names, s, owner, expires, i)]
<1> DEFINE nm == Bound("owner", owner) \o Types[m]
           wd == Bound(owner, owner) \o Spoken(m, s)
<1>0. Follows(wd, nm, s, owner, expires)
  BY Unexpiring
<1>2. /\ Names(m, owner, expires) = IF expires = 0 THEN nm ELSE Append(nm, "expires_after")
      /\ Hashed(m, s, owner, expires) = wd \o (IF expires = 0 THEN <<>> ELSE <<expires>>)
  BY DEF Names, Hashed
<1> HIDE DEF nm, wd
<1>1. /\ Listed(nm) /\ Listed(wd) /\ Len(wd) = Len(nm)
      /\ \A i \in DOMAIN nm : wd[i] = WordAt(nm, s, owner, expires, i)
  BY <1>0 DEF Follows
<1>3. DOMAIN nm = 1..Len(nm) /\ DOMAIN wd = 1..Len(nm) /\ Len(nm) \in Nat
  BY <1>1 DEF Listed
<1>4. CASE expires = 0
  <2>1. Hashed(m, s, owner, expires) = wd /\ Names(m, owner, expires) = nm
    BY <1>1, <1>2, <1>4, Suffixed
  <2>2. wd = [i \in DOMAIN nm |-> wd[i]]
    BY <1>1, <1>3 DEF Listed
  <2>3. wd = [i \in DOMAIN nm |-> WordAt(nm, s, owner, expires, i)]
    BY <1>1, <2>2
  <2> QED BY <2>1, <2>3
<1>5. CASE expires # 0
  <2> DEFINE N == Append(nm, "expires_after")
             W == Append(wd, expires)
  <2>1. N = [i \in 1..Len(nm) + 1 |-> IF i = Len(nm) + 1 THEN "expires_after" ELSE nm[i]]
    BY <1>1, Suffixed
  <2>2. W = [i \in 1..Len(nm) + 1 |-> IF i = Len(nm) + 1 THEN expires ELSE wd[i]]
    BY <1>1, Suffixed
  <2>3. Hashed(m, s, owner, expires) = W /\ Names(m, owner, expires) = N
    BY <1>1, <1>2, <1>5, Suffixed
  <2> HIDE DEF N, W
  <2>4. ASSUME NEW i \in 1..Len(nm) + 1
        PROVE  (IF i = Len(nm) + 1 THEN expires ELSE wd[i]) = WordAt(N, s, owner, expires, i)
    <3>1. CASE i = Len(nm) + 1
      <4>1. N[i] = "expires_after"
        BY <2>1, <3>1
      <4> QED BY <3>1, <4>1 DEF WordAt
    <3>2. CASE i # Len(nm) + 1
      <4>1. i \in DOMAIN nm
        BY <1>3, <3>2
      <4>2. N[i] = nm[i]
        BY <2>1, <3>2
      <4>3. WordAt(N, s, owner, expires, i) = WordAt(nm, s, owner, expires, i)
        BY <4>2 DEF WordAt
      <4> QED BY <1>1, <3>2, <4>1, <4>3
    <3> QED BY <3>1, <3>2
  <2>5. DOMAIN N = 1..Len(nm) + 1
    BY <2>1
  <2>6. W = [i \in DOMAIN N |-> WordAt(N, s, owner, expires, i)]
    BY <2>2, <2>4, <2>5
  <2> QED BY <2>3, <2>6
<1> QED BY <1>4, <1>5

\* A frozen type string, with the owner and the expiry.
LEMMA Folded ==
  ASSUME NEW m, NEW owner, NEW expires
  PROVE  FoldedType(m, owner, expires) = [action |-> m, names |-> Names(m, owner, expires)]
<1> DEFINE w == Bound("owner", owner) \o Types[m]
           x == IF expires = 0 THEN w ELSE Append(w, "expires_after")
<1>1. TypeString(m, owner) = [action |-> m, names |-> w]
  BY DEF TypeString, Bound
<1>2. Names(m, owner, expires) = x
  BY DEF Names
<1> HIDE DEF w
<1>3. FoldedType(m, owner, expires) = [[action |-> m, names |-> w] EXCEPT !.names = x]
  BY <1>1 DEF FoldedType
<1> HIDE DEF x
<1>4. [[action |-> m, names |-> w] EXCEPT !.names = x] = [action |-> m, names |-> x]
  OBVIOUS
<1> QED BY <1>2, <1>3, <1>4

\* An owner is bound to an action that has an _WITH_OWNER form, and to no other.
LEMMA Bindable ==
  ASSUME NEW r \in Requests
  PROVE  LET m == SignedName(Method(r))
         IN  m \in Actions /\ (r.owner # Absent => m \in OwnerActions)
<1>1. SignedName(Method(r)) \in Actions
  BY Argued, MethodsFit DEF Fit
<1>2. r.owner # Absent => Method(r) \in OwnerActions
  BY RequestAssumption
<1>3. \A k \in OwnerActions : SignedName(k) = k
  BY DEF OwnerActions, SignedName
<1> QED BY <1>1, <1>2, <1>3

\* What a digest hashes.
LEMMA HashedOf ==
  ASSUME NEW m \in Actions, NEW s, NEW owner, owner # Absent => m \in OwnerActions,
         NEW n, NEW expires
  PROVE  HashStruct(m, s, owner, n, expires)
           = [type |-> [action |-> m, names |-> Names(m, owner, expires)],
              words |-> Bound(owner, owner) \o Spoken(m, s), nonce |-> n, expires |-> expires]
<1>1. EncodeData(m, s, owner) = Bound(owner, owner) \o Spoken(m, s)
  BY Encoded DEF BindOwner, Bound
<1>2. FoldedType(m, owner, expires) = [action |-> m, names |-> Names(m, owner, expires)]
  BY Folded
<1> QED BY <1>1, <1>2 DEF HashStruct

\* The words of one envelope are the fields that its type names.
Worded(e) ==
  LET s == Signed(e.kind, Args(e.req))
      names == e.digest.type.names
      Word(i) == IF names[i] = "owner" THEN e.req.owner
                 ELSE IF names[i] = "expires_after" THEN e.digest.expires ELSE s[names[i]]
      words == e.digest.words \o (IF e.digest.expires = 0 THEN <<>> ELSE <<e.digest.expires>>)
  IN  words = [i \in DOMAIN names |-> Word(i)]

\* What the digest of an envelope hashes.
LEMMA EnvelopeHashes ==
  ASSUME NEW r \in Requests, NEW n
  PROVE  LET m == SignedName(Method(r))
             s == Signed(Method(r), Args(r))
         IN  Envelope(r, n).digest
               = [type |-> [action |-> m, names |-> Names(m, r.owner, r.expires)],
                  words |-> Bound(r.owner, r.owner) \o Spoken(m, s),
                  nonce |-> n, expires |-> r.expires]
<1> DEFINE m == SignedName(Method(r))
           s == Signed(Method(r), Args(r))
           o == r.owner
           x == r.expires
<1>1. Envelope(r, n).digest = HashStruct(m, s, o, n, x)
  BY Sealed
<1>2. m \in Actions /\ (o # Absent => m \in OwnerActions)
  BY Bindable
<1> HIDE DEF m, s, o, x
<1>3. HashStruct(m, s, o, n, x)
        = [type |-> [action |-> m, names |-> Names(m, o, x)],
           words |-> Bound(o, o) \o Spoken(m, s), nonce |-> n, expires |-> x]
  BY <1>2, HashedOf
<1> QED BY <1>1, <1>3 DEF m, s, o, x

\* The words of an envelope follow its type.
LEMMA EnvelopeWorded ==
  ASSUME NEW r \in Requests, NEW n
  PROVE  Worded(Envelope(r, n))
<1> DEFINE e == Envelope(r, n)
           m == SignedName(Method(r))
           s == Signed(Method(r), Args(r))
           names == Names(m, r.owner, r.expires)
           w == Bound(r.owner, r.owner) \o Spoken(m, s)
<1>1. Hashed(m, s, r.owner, r.expires)
        = [i \in DOMAIN names |-> WordAt(names, s, r.owner, r.expires, i)]
  <2>1. m \in Actions
    BY Bindable
  <2> HIDE DEF m, s
  <2> QED BY <2>1, NamesFollowed
<1>2. Hashed(m, s, r.owner, r.expires) = w \o (IF r.expires = 0 THEN <<>> ELSE <<r.expires>>)
  BY DEF Hashed
<1>3. e.kind = Method(r) /\ e.req = r
  BY Sealed
<1>4. e.digest = [type |-> [action |-> m, names |-> names], words |-> w, nonce |-> n,
                  expires |-> r.expires]
  BY EnvelopeHashes
<1> HIDE DEF names, w, m, e
<1>5. /\ e.digest.type.names = names /\ e.digest.words = w /\ e.digest.expires = r.expires
      /\ e.kind = Method(r) /\ e.req = r
  BY <1>3, <1>4
<1>6. Worded(e)
  BY <1>1, <1>2, <1>5 DEF Worded, WordAt
<1> QED BY <1>6 DEF e

-----------------------------------------------------------------------------
(* What is posted is what was asked.                                      *)

\* A field of a params struct reaches the body under its own name.
Asked(r, e) ==
  \A f \in DOMAIN r.params \ {"parent"} : Plain(f, Given(e, f)) = Plain(f, r.params[f])

\* The argument that a field of a params struct fills, and where it is posted.
LEMMA Filling ==
  ASSUME NEW r \in Requests, NEW n, r.via = "params", r.kind \in DOMAIN Delegates,
         NEW f \in DOMAIN r.params \ {"parent"}
  PROVE  LET g == Behind(r.kind, f)
             a == Args(r)
         IN  /\ Method(r) = r.kind /\ r.kind \in DOMAIN Methods
             /\ a[g] = HandedOn(r.kind, r.params, f)
             /\ Given(Envelope(r, n), f)
                  = IF g \in LeftOut(r.kind, a) THEN Absent ELSE Posted(r.kind, a, g)
<1> DEFINE k == r.kind
<1>1. k \notin {"pm_enroll", "pm_unenroll", "send_to_evm_with_data", "multi_sig"}
  BY NotHandedOn
<1>2. Method(r) = k /\ k \in DOMAIN Methods
  BY <1>1, CallsHandOn DEF Method
<1>3. DOMAIN r.params = Held(k)
  BY RequestAssumption
<1>4. PICK i \in DOMAIN Delegates[k] : Delegates[k][i] = f
  BY <1>1, <1>3 DEF Held
<1>5. i \in DOMAIN Methods[k] /\ Behind(k, f) = Methods[k][i]
  BY <1>4, Handing
<1>6. Behind(k, f) \in Formals(k)
  BY <1>5 DEF Formals
<1>7. Args(r)[Behind(k, f)] = HandedOn(k, r.params, f)
  BY <1>4, <1>5, Handed
<1>8. \/ f \in DOMAIN NewNames(k)
      \/ \A x \in DOMAIN NewNames(k) : NewNames(k)[x] # f
  <2>1. CASE k = "approve_agent"
    <3>1. f \in {"agent", "name", "expires_at_ms"}
      BY <1>4, <2>1, DelegatesAt DEF AccountCalls
    <3>2. /\ DOMAIN NewNames(k) = {"agent", "name"}
          /\ NewNames(k)["agent"] = "agent_address" /\ NewNames(k)["name"] = "agent_name"
      BY <2>1 DEF NewNames, Renamed
    <3> QED BY <3>1, <3>2
  <2>2. CASE k = "approve_broker_fee"
    <3>1. f \in {"builder", "max_bps"}
      BY <1>4, <2>2, DelegatesAt DEF AccountCalls
    <3>2. DOMAIN NewNames(k) = {"max_bps"} /\ NewNames(k)["max_bps"] = "max_fee_bps"
      BY <2>2 DEF NewNames, Renamed
    <3> QED BY <3>1, <3>2
  <2>3. CASE k \notin {"approve_agent", "approve_broker_fee"}
    <3>1. k \notin DOMAIN Renamed
      BY <1>1, <2>3 DEF Renamed
    <3>2. DOMAIN NewNames(k) = {}
      BY <3>1 DEF NewNames, NoField
    <3> QED BY <3>2
  <2> QED BY <2>1, <2>2, <2>3
<1> QED BY <1>2, <1>6, <1>7, <1>8, GivenKey

\* So each field reaches the body as it was given.
LEMMA FieldAsked ==
  ASSUME NEW r \in Requests, NEW n, r.via = "params", r.kind \in DOMAIN Delegates,
         NEW f \in DOMAIN r.params \ {"parent"}
  PROVE  Plain(f, Given(Envelope(r, n), f)) = Plain(f, r.params[f])
<1> DEFINE k == r.kind
           g == Behind(k, f)
           a == Args(r)
           v == Given(Envelope(r, n), f)
           x == r.params[f]
<1>1. /\ k \in DOMAIN Methods /\ a[g] = HandedOn(k, r.params, f)
      /\ v = IF g \in LeftOut(k, a) THEN Absent ELSE Posted(k, a, g)
  BY Filling
<1>2. g \in LeftOut(k, a)
        => g = f /\ (a[g] = Absent \/ (f = "expires_at_ms" /\ a[g] = 0)
                                  \/ (f = "validator" /\ a[g] = Nobody))
  <2> SUFFICES ASSUME g \in LeftOut(k, a)
               PROVE  g = f /\ (a[g] = Absent \/ (f = "expires_at_ms" /\ a[g] = 0)
                                             \/ (f = "validator" /\ a[g] = Nobody))
    OBVIOUS
  <2>1. \A key \in DOMAIN NewNames(k) : NewNames(k)[key] # g
    BY <1>1, LeavingOut
  <2>2. g = f
    BY <2>1 DEF Behind
  <2>3. \/ a[g] = Absent
        \/ g = "expires_at_ms" /\ a[g] = 0
        \/ g = "validator" /\ a[g] = Nobody
    BY <1>1, LeavingOut
  <2> QED BY <2>2, <2>3
<1>3. Posted(k, a, g) = a[g] \/ (k = "create_vault" /\ g = "kind")
  BY DEF Posted
<1>4. k = "create_vault" => g = f /\ LeftOut(k, a) = {}
  BY DEF Behind, NewNames, Renamed, NoField, LeftOut
<1>5. CASE k \in DOMAIN Unwrapped /\ f \in DOMAIN Unwrapped[k]
  <2>0. k # "create_vault"
    BY <1>5 DEF Unwrapped
  <2>1. a[g] = OrElse(x, Unwrapped[k][f])
    BY <1>1, <1>5, <2>0 DEF HandedOn
  <2>2. Posted(k, a, g) = a[g]
    BY <1>3, <2>0
  <2>3. a[g] # Absent
    BY <1>5, <2>1, Unwrapping DEF OrElse
  <2>4. CASE k = "approve_agent" /\ f = "name"
    <3>1. Unwrapped["approve_agent"]["name"] = ""
      BY DEF Unwrapped
    <3>2. v = OrElse(x, "") /\ v # Absent
      BY <1>1, <1>2, <2>1, <2>2, <2>3, <2>4, <3>1
    <3> QED BY <2>4, <3>2 DEF Plain, OrElse
  <2>5. CASE k = "approve_agent" /\ f = "expires_at_ms"
    <3>1. Unwrapped["approve_agent"]["expires_at_ms"] = 0
      BY DEF Unwrapped
    <3>2. a[g] = OrElse(x, 0) /\ (v = a[g] \/ (v = Absent /\ a[g] = 0))
      BY <1>1, <1>2, <2>1, <2>2, <2>3, <2>5, <3>1
    <3>3. OrElse(v, 0) = OrElse(x, 0)
      BY <2>3, <3>2 DEF OrElse
    <3> QED BY <2>5, <3>3 DEF Plain
  <2>6. CASE k = "claim_rewards" /\ f = "validator"
    <3>1. Unwrapped["claim_rewards"]["validator"] = Nobody
      BY DEF Unwrapped
    <3>2. a[g] = OrElse(x, Nobody) /\ (v = a[g] \/ (v = Absent /\ a[g] = Nobody))
      BY <1>1, <1>2, <2>1, <2>2, <2>3, <2>6, <3>1
    <3>3. OrElse(v, Nobody) = OrElse(x, Nobody)
      BY <2>3, <3>2 DEF OrElse
    <3> QED BY <2>6, <3>3 DEF Plain
  <2> QED BY <1>5, <2>4, <2>5, <2>6, Unwrapping
<1>6. CASE k = "create_vault" /\ f = "kind"
  <2>1. x \in {"User", "Metaliquidity"}
    <3>1. x \in Variants(r, f)
      BY RequestAssumption
    <3> QED BY <1>6, <3>1 DEF Variants
  <2>2. k \notin DOMAIN Unwrapped
    BY <1>6 DEF Unwrapped
  <2>3. a["kind"] = IF x = "Metaliquidity" THEN 1 ELSE 0
    BY <1>1, <1>4, <1>6, <2>2 DEF HandedOn
  <2>4. v = IF a["kind"] = 1 THEN "Metaliquidity" ELSE "User"
    BY <1>1, <1>4, <1>6 DEF Posted
  <2>5. v = x
    BY <2>1, <2>3, <2>4
  <2> QED BY <2>5
<1>7. CASE ~(k \in DOMAIN Unwrapped /\ f \in DOMAIN Unwrapped[k]) /\ ~(k = "create_vault"
        /\ f = "kind")
  <2>1. a[g] = x
    BY <1>1, <1>7 DEF HandedOn
  <2>2. Posted(k, a, g) = a[g]
    BY <1>3, <1>4, <1>7
  <2>3. CASE g \notin LeftOut(k, a)
    BY <1>1, <2>1, <2>2, <2>3
  <2>4. CASE g \in LeftOut(k, a)
    <3>1. v = Absent
      BY <1>1, <2>4
    <3>2. CASE x = Absent
      BY <3>1, <3>2
    <3>3. CASE f = "expires_at_ms" /\ x = 0
      BY <3>1, <3>3, AbsentApart DEF Plain, OrElse
    <3>4. CASE f = "validator" /\ x = Nobody
      BY <3>1, <3>4, AbsentApart DEF Plain, OrElse
    <3> QED BY <1>2, <2>1, <2>4, <3>2, <3>3, <3>4
  <2> QED BY <2>3, <2>4
<1> QED BY <1>5, <1>6, <1>7

\* An envelope acts for the account, and asks the fields, of its request.
LEMMA EnvelopeActs ==
  ASSUME NEW r \in Requests, NEW n
  PROVE  /\ Account(Envelope(r, n)) = OrElse(r.owner, r.signer)
         /\ r.via = "params" => Asked(r, Envelope(r, n))
<1>1. Account(Envelope(r, n)) = OrElse(r.owner, r.signer)
  BY Owned, Sealed DEF Account
<1>2. ASSUME r.via = "params" PROVE Asked(r, Envelope(r, n))
  <2>1. /\ r.kind \in DOMAIN Delegates \cup {"pm_enroll", "pm_unenroll"}
        /\ DOMAIN r.params = Held(r.kind)
    BY <1>2, RequestAssumption
  <2>2. CASE r.kind \in DOMAIN Delegates
    BY <1>2, <2>2, FieldAsked DEF Asked
  <2>3. CASE r.kind \in {"pm_enroll", "pm_unenroll"}
    <3>1. DOMAIN r.params = {}
      BY <2>1, <2>3 DEF Held
    <3> QED BY <3>1 DEF Asked
  <2> QED BY <2>1, <2>2, <2>3
<1> QED BY <1>1, <1>2

-----------------------------------------------------------------------------
(* A signature says one thing.                                            *)

\* The names a code may stand for.
CodeNames(m, f) ==
  IF f = "chain" THEN {"Base", "Arbitrum"}
  ELSE IF f = "side" THEN {"Bid", "Ask"}
  ELSE IF m = "borrow_lend" THEN {"Lend", "UnLend", "Borrow", "Repay"}
  ELSE {"User", "Metaliquidity"}

\* What a signed struct tells of a field: nothing where its flag is down, the name
\* that its code stands for, or its value.
Told(m, s, f) ==
  IF \E h \in DOMAIN Structs[m] \cap DOMAIN Flags : Flags[h] = f

    THEN IF s[CHOOSE h \in DOMAIN Structs[m] \cap DOMAIN Flags : Flags[h] = f] THEN s[f] ELSE Absent
  ELSE IF IsCode(m, f) THEN CHOOSE v \in CodeNames(m, f) : NodeCodes[v] = s[f]
  ELSE s[f]

\* Within an enum, a code stands for one name.
LEMMA CodesOneToOne ==
  ASSUME NEW m, NEW f, NEW v \in CodeNames(m, f), NEW w \in CodeNames(m, f),
         NodeCodes[v] = NodeCodes[w]
  PROVE  v = w
<1>1. /\ NodeCodes["Base"] = 1 /\ NodeCodes["Arbitrum"] = 2
      /\ NodeCodes["Bid"] = 0 /\ NodeCodes["Ask"] = 1
      /\ NodeCodes["Lend"] = 0 /\ NodeCodes["UnLend"] = 1
      /\ NodeCodes["Borrow"] = 2 /\ NodeCodes["Repay"] = 3
      /\ NodeCodes["User"] = 0 /\ NodeCodes["Metaliquidity"] = 1
  BY DEF NodeCodes
<1> QED BY <1>1 DEF CodeNames

\* No flag is an Option or an enum, and each has an Option of its own.
LEMMA FlagsApart ==
  /\ \A f \in DOMAIN Flags :
       /\ Flags[f] \notin DOMAIN Flags
       /\ \A h \in DOMAIN Flags : Flags[h] = Flags[f] => h = f
  /\ \A m : \A f \in DOMAIN Flags : ~IsCode(m, Flags[f])
<1>1. DOMAIN Flags = {"has_asset", "has_explicit_index", "has_limit_px", "has_stp_group",
                      "has_new_lock_period_secs", "has_new_management_fee_bps",
                      "has_new_paused"}
  BY DEF Flags
<1> QED BY <1>1 DEF Flags, IsCode

\* The struct that the node rebuilds tells what is asked for.
LEMMA FieldTold ==
  ASSUME NEW r \in Requests, NEW n, Method(r) # "pm_unenroll",
         NEW f \in DOMAIN Structs[SignedName(Method(r))] \ DOMAIN Flags
  PROVE  LET e == Envelope(r, n)
         IN  Plain(f, Given(e, WireName(Method(r), f)))
               = Told(SignedName(Method(r)), NodeStruct(e), f)
<1> DEFINE k == Method(r)
           m == SignedName(k)
           a == Args(r)
           e == Envelope(r, n)
           s == NodeStruct(e)
           v == Given(e, WireName(k, f))
           d == Default(Structs[m][f])
<1>1. k \in DOMAIN Methods /\ e.kind = k
  BY Argued, Sealed
<1>2. \A h \in DOMAIN Structs[m] : s[h] = NodeField(e, h)
  BY <1>1 DEF NodeStruct
<1>3. f \in Formals(k)
  BY Filled
<1>4. v = IF f \in LeftOut(k, a) THEN Absent ELSE Posted(k, a, f)
  BY <1>3, GivenField
<1>5. (a[f] = Absent => f \in Options(k)) /\ Coded(k, f, a[f])
  BY <1>3, Argued
<1>6. CASE \E h \in DOMAIN Structs[m] \cap DOMAIN Flags : Flags[h] = f
  <2>1. PICK h \in DOMAIN Structs[m] \cap DOMAIN Flags : Flags[h] = f
    BY <1>6
  <2> DEFINE h1 == CHOOSE y \in DOMAIN Structs[m] \cap DOMAIN Flags : Flags[y] = f
  <2>2. h1 \in DOMAIN Structs[m] \cap DOMAIN Flags /\ Flags[h1] = f
    BY <2>1
  <2>3. f \in Options(k)
    BY <2>1 DEF Options
  <2>4. NewNames(k) = NoField
    BY <2>3, Renaming DEF NewNames
  <2>5. WireName(k, f) = f
    BY <2>4 DEF WireName, NoField
  <2>6. s[h1] = (v # Absent)
    BY <1>2, <2>2, <2>5 DEF NodeField
  <2>7. ~IsCode(k, f)
    BY <2>1, FlagsApart
  <2>8. s[f] = OrElse(v, d)
    BY <1>1, <1>2, <2>7 DEF NodeField
  <2>9. Told(m, s, f) = IF s[h1] THEN s[f] ELSE Absent
    BY <1>6 DEF Told
  <2>10. f \notin {"expires_at_ms", "validator", "name", "new_name"}
    BY <2>1 DEF Flags
  <2>11. Plain(f, v) = v
    BY <2>10 DEF Plain
  <2> HIDE DEF h1, s, v, d
  <2>12. Told(m, s, f) = v
    BY <2>6, <2>8, <2>9 DEF OrElse
  <2> QED BY <2>11, <2>12 DEF s, v
<1>7. ASSUME ~\E h \in DOMAIN Structs[m] \cap DOMAIN Flags : Flags[h] = f, IsCode(k, f)
      PROVE  Plain(f, v) = Told(m, s, f)
  <2>1. IsCode(m, f) /\ CodeNames(m, f) = CodeNames(k, f)
    BY <1>7 DEF IsCode, CodeNames, SignedName
  <2>2. f \in {"chain", "side", "kind"}
    BY <1>7 DEF IsCode
  <2>3. f \notin LeftOut(k, a)
    BY <1>1, <1>5, <2>2, LeavingOut, OptionsNamed
  <2>4. v = Posted(k, a, f)
    BY <1>4, <2>3
  <2>5. v \in CodeNames(k, f)
    BY <1>5, <1>7, <2>4 DEF IsCode, CodeNames, Coded, Posted, mb_chain_to_u8, core_side_to_u8,
                            BorrowLendKindAsU8
  <2>6. s[f] = NodeCodes[v]
    BY <1>1, <1>2, <1>7 DEF NodeField
  <2>7. Told(m, s, f) = CHOOSE x \in CodeNames(m, f) : NodeCodes[x] = s[f]
    BY <1>7, <2>1 DEF Told
  <2>8. Plain(f, v) = v
    BY <2>2 DEF Plain
  <2> HIDE DEF s, v
  <2>9. Told(m, s, f) = v
    <3> DEFINE x == CHOOSE y \in CodeNames(m, f) : NodeCodes[y] = s[f]
    <3>1. x \in CodeNames(m, f) /\ NodeCodes[x] = s[f]
      BY <2>1, <2>5, <2>6
    <3>2. x = v
      BY <2>1, <2>5, <2>6, <3>1, CodesOneToOne
    <3> QED BY <2>7, <3>2
  <2> QED BY <2>8, <2>9
<1>8. ASSUME ~\E h \in DOMAIN Structs[m] \cap DOMAIN Flags : Flags[h] = f, ~IsCode(k, f)
      PROVE  Plain(f, v) = Told(m, s, f)
  <2>1. ~IsCode(m, f)
    BY <1>8 DEF IsCode, SignedName
  <2>2. Told(m, s, f) = s[f]
    BY <1>8, <2>1 DEF Told
  <2>3. s[f] = OrElse(v, d)
    BY <1>1, <1>2, <1>8 DEF NodeField
  <2>4. CASE v # Absent
    BY <2>2, <2>3, <2>4 DEF Plain, OrElse
  <2>5. CASE v = Absent
    <3>1. s[f] = d
      BY <2>3, <2>5 DEF OrElse
    <3>2. CASE f \in Options(k)
      <4>1. k = "vault_modify" /\ f = "new_name"
        BY <1>8, <3>2 DEF Options
      <4>2. Structs["vault_modify"]["new_name"] = "string"
        BY StructsAt DEF MarginStructs
      <4>3. d = ""
        BY <4>1, <4>2 DEF Default, SignedName
      <4> QED BY <2>2, <2>5, <3>1, <4>1, <4>3 DEF Plain, OrElse
    <3>3. CASE f \notin Options(k)
      <4>1. a[f] # Absent
        BY <1>5, <3>3
      <4>2. Posted(k, a, f) = a[f]
        BY <1>8 DEF Posted, IsCode
      <4>3. f \in LeftOut(k, a)
        BY <1>4, <2>5, <4>1, <4>2
      <4>4. \/ f = "expires_at_ms" /\ Structs[m][f] = "u64"
            \/ f = "validator" /\ Structs[m][f] = "address"
        BY <1>1, <4>1, <4>3, LeavingOut
      <4>5. \/ f = "expires_at_ms" /\ d = 0
            \/ f = "validator" /\ d = Nobody
        BY <4>4 DEF Default
      <4> QED BY <2>2, <2>5, <3>1, <4>5 DEF Plain, OrElse
    <3> QED BY <3>2, <3>3
  <2> QED BY <2>4, <2>5
<1> QED BY <1>6, <1>7, <1>8

\* A record of one field.
LEMMA OneField ==
  ASSUME NEW x
  PROVE  [enroll |-> x] = [f \in {"enroll"} |-> x]
OBVIOUS

\* All that an envelope asks is in the struct that the node rebuilds.
LEMMA Telling ==
  ASSUME NEW r \in Requests, NEW n
  PROVE  LET e == Envelope(r, n)
             m == SignedName(Method(r))
         IN  Asks(e) = [f \in DOMAIN Structs[m] \ DOMAIN Flags |-> Told(m, NodeStruct(e), f)]
<1> DEFINE e == Envelope(r, n)
           m == SignedName(Method(r))
<1>1. e.kind = Method(r)
  BY Sealed
<1>2. CASE Method(r) # "pm_unenroll"
  <2>1. \A f \in DOMAIN Structs[m] \ DOMAIN Flags :
          Plain(f, Given(e, WireName(Method(r), f))) = Told(m, NodeStruct(e), f)
    BY <1>2, FieldTold
  <2> QED BY <1>1, <1>2, <2>1 DEF Asks
<1>3. CASE Method(r) = "pm_unenroll"
  <2>1. m = "user_portfolio_margin" /\ NodeStruct(e) = [enroll |-> FALSE]
        /\ Asks(e) = [enroll |-> FALSE]
    BY <1>1, <1>3 DEF SignedName, NodeStruct, Asks
  <2>2. DOMAIN Structs["user_portfolio_margin"] = {"enroll"}
    BY StructsAt DEF FundStructs
  <2>3. "enroll" \notin DOMAIN Flags
    BY DEF Flags
  <2>4. ~IsCode("user_portfolio_margin", "enroll")
    BY DEF IsCode
  <2>5. Told(m, NodeStruct(e), "enroll") = FALSE
    BY <2>1, <2>2, <2>3, <2>4 DEF Told
  <2>6. DOMAIN Structs[m] \ DOMAIN Flags = {"enroll"}
    BY <2>1, <2>2, <2>3
  <2> DEFINE T(f) == Told(m, NodeStruct(e), f)
  <2>7. T("enroll") = FALSE /\ Asks(e) = [enroll |-> FALSE]
    BY <2>1, <2>5
  <2> HIDE DEF T
  <2>8. [enroll |-> FALSE] = [f \in {"enroll"} |-> T(f)]
    <3>1. [enroll |-> FALSE] = [f \in {"enroll"} |-> FALSE]
      BY OneField
    <3>2. \A f \in {"enroll"} : T(f) = FALSE
      BY <2>7
    <3>3. [f \in {"enroll"} |-> FALSE] = [f \in {"enroll"} |-> T(f)]
      BY <3>2, Zenon
    <3> QED BY <3>1, <3>3
  <2>9. Asks(e) = [f \in DOMAIN Structs[m] \ DOMAIN Flags |-> T(f)]
    BY <2>6, <2>7, <2>8
  <2> QED BY <2>9 DEF T
<1> QED BY <1>2, <1>3

\* One sequence starts in one way.
LEMMA LedOnce ==
  ASSUME NEW c, NEW o, NEW p, NEW u, Listed(u), NEW w, Listed(w), Led(c, o, u), Led(c, p, w)
  PROVE  o = p /\ u = w
<1>1. Len(u) \in Nat /\ Len(w) \in Nat /\ Len(u) + 1 = Len(w) + 1
  BY DEF Listed, Led
<1>2. Len(u) = Len(w)
  BY <1>1
<1>3. \A i \in 1..Len(u) : u[i] = w[i]
  BY <1>2 DEF Led
<1>4. u = [i \in 1..Len(u) |-> u[i]] /\ w = [i \in 1..Len(w) |-> w[i]]
  BY DEF Listed
<1> QED BY <1>2, <1>3, <1>4 DEF Led

\* Two structs hold the same in every field.
Agree(m, s, t) == \A f \in DOMAIN Structs[m] : s[f] = t[f]

\* The words tell the owner and every field of the struct.
LEMMA WordsTell ==
  ASSUME NEW m \in Actions, NEW s, NEW t, NEW o, NEW p,
         Bound(o, o) \o Spoken(m, s) = Bound(p, p) \o Spoken(m, t)
  PROVE  o = p /\ Agree(m, s, t)
<1> DEFINE u == Spoken(m, s)
           w == Spoken(m, t)
<1>1. Listed(u) /\ Listed(w) /\ Len(u) = Len(w)
  BY SpokenListed
<1>2. Len(u) \in Nat
  BY <1>1 DEF Listed
<1>3. ASSUME u = w
      PROVE  Agree(m, s, t)
  <2> SUFFICES ASSUME NEW f \in DOMAIN Structs[m] PROVE s[f] = t[f]
    BY DEF Agree
  <2>1. PICK i \in DOMAIN Types[m] : Types[m][i] = f
    BY TypesNamed DEF NamesOf, Complete, Has
  <2>2. u[i] = s[f] /\ w[i] = t[f]
    BY <2>1 DEF Spoken
  <2> QED BY <1>3, <2>2
<1> HIDE DEF u, w
<1>4. <<>> \o u = u /\ <<>> \o w = w /\ Led(<<o>> \o u, o, u) /\ Led(<<p>> \o w, p, w)
  BY <1>1, Prefixed, Unprefixed
<1>5. Bound(o, o) \o u = Bound(p, p) \o w
  BY DEF u, w
<1>6. CASE o = Absent /\ p = Absent
  <2>1. u = w
    BY <1>4, <1>5, <1>6 DEF Bound
  <2> QED BY <1>3, <1>6, <2>1
<1>7. CASE o = Absent /\ p # Absent
  <2>1. u = <<p>> \o w
    BY <1>4, <1>5, <1>7 DEF Bound
  <2>2. Len(u) = Len(w) + 1
    BY <1>4, <2>1 DEF Led
  <2> QED BY <1>1, <1>2, <2>2
<1>8. CASE o # Absent /\ p = Absent
  <2>1. <<o>> \o u = w
    BY <1>4, <1>5, <1>8 DEF Bound
  <2>2. Len(w) = Len(u) + 1
    BY <1>4, <2>1 DEF Led
  <2> QED BY <1>1, <1>2, <2>2
<1>9. CASE o # Absent /\ p # Absent
  <2>1. <<o>> \o u = <<p>> \o w
    BY <1>5, <1>9 DEF Bound
  <2>2. Led(<<o>> \o u, o, u) /\ Led(<<o>> \o u, p, w)
    BY <1>4, <2>1
  <2>3. o = p /\ u = w
    BY <1>1, <2>2, LedOnce
  <2> QED BY <1>3, <2>3
<1> QED BY <1>6, <1>7, <1>8, <1>9

\* What the digest of an envelope that verifies hashes.
LEMMA VerifiedHashes ==
  ASSUME NEW r \in Requests, NEW n, Verified(Envelope(r, n))
  PROVE  LET e == Envelope(r, n)
             m == SignedName(Method(r))
         IN  /\ m \in Actions
             /\ e.digest = [type |-> [action |-> m, names |-> Names(m, r.owner, r.expires)],
                            words |-> Bound(r.owner, r.owner) \o Spoken(m, NodeStruct(e)),
                            nonce |-> n, expires |-> r.expires]
<1> DEFINE e == Envelope(r, n)
           m == SignedName(Method(r))
<1>1. m \in Actions /\ (r.owner # Absent => m \in OwnerActions)
  BY Bindable
<1>2. e.digest = HashStruct(m, NodeStruct(e), r.owner, n, r.expires)
  BY Sealed, Owned DEF Verified
<1> HIDE DEF m, e
<1>3. e.digest = [type |-> [action |-> m, names |-> Names(m, r.owner, r.expires)],
                  words |-> Bound(r.owner, r.owner) \o Spoken(m, NodeStruct(e)),
                  nonce |-> n, expires |-> r.expires]
  BY <1>1, <1>2, HashedOf
<1> QED BY <1>1, <1>3 DEF m, e

\* A digest with another nonce.
LEMMA Renonced ==
  ASSUME NEW t, NEW w, NEW n, NEW x, NEW l
  PROVE  [[type |-> t, words |-> w, nonce |-> n, expires |-> x] EXCEPT !.nonce = l]
           = [type |-> t, words |-> w, nonce |-> l, expires |-> x]
OBVIOUS

\* Two digests of one nonce are equal in their parts.
LEMMA SameHash ==
  ASSUME NEW a, NEW b, NEW u, NEW v, NEW w, NEW z, NEW n, NEW x, NEW y,
         [type |-> [action |-> a, names |-> u], words |-> w, nonce |-> n, expires |-> x]
           = [type |-> [action |-> b, names |-> v], words |-> z, nonce |-> n, expires |-> y]
  PROVE  a = b /\ w = z
<1>1. w = z /\ [action |-> a, names |-> u] = [action |-> b, names |-> v]
  OBVIOUS
<1> QED BY <1>1

\* Two digests that differ in the nonce at most.
SignedAlike(e, g) == e.digest = [g.digest EXCEPT !.nonce = e.nonce]

\* Two envelopes that verify and are signed alike ask the same of the same account.
LEMMA OneReading ==
  ASSUME NEW r \in Requests, NEW n, NEW q \in Requests, NEW l,
         Verified(Envelope(r, n)), Verified(Envelope(q, l)),
         Envelope(r, n).signer = Envelope(q, l).signer,
         SignedAlike(Envelope(r, n), Envelope(q, l))
  PROVE  /\ Asks(Envelope(r, n)) = Asks(Envelope(q, l))
         /\ Account(Envelope(r, n)) = Account(Envelope(q, l))
<1> DEFINE e == Envelope(r, n)
           g == Envelope(q, l)
           m == SignedName(Method(r))
           k == SignedName(Method(q))
           s == NodeStruct(e)
           t == NodeStruct(g)
           w == Bound(r.owner, r.owner) \o Spoken(m, s)
           z == Bound(q.owner, q.owner) \o Spoken(k, t)
<1>1. /\ m \in Actions
      /\ e.digest = [type |-> [action |-> m, names |-> Names(m, r.owner, r.expires)],
                     words |-> w, nonce |-> n, expires |-> r.expires]
  BY VerifiedHashes
<1>2. g.digest = [type |-> [action |-> k, names |-> Names(k, q.owner, q.expires)],
                  words |-> z, nonce |-> l, expires |-> q.expires]
  BY VerifiedHashes
<1>3. e.nonce = n
  BY Sealed
<1>4. e.digest = [g.digest EXCEPT !.nonce = n]
  BY <1>3 DEF SignedAlike
<1>5. Asks(e) = [f \in DOMAIN Structs[m] \ DOMAIN Flags |-> Told(m, s, f)]
  BY Telling
<1>6. Asks(g) = [f \in DOMAIN Structs[k] \ DOMAIN Flags |-> Told(k, t, f)]
  BY Telling
<1>7. Account(e) = OrElse(r.owner, e.signer) /\ Account(g) = OrElse(q.owner, g.signer)
  BY Owned DEF Account
<1>8. e.signer = g.signer
  OBVIOUS
<1> HIDE DEF e, g, m, k, s, t, w, z
<1>9. e.digest = [type |-> [action |-> k, names |-> Names(k, q.owner, q.expires)],
                  words |-> z, nonce |-> n, expires |-> q.expires]
  BY <1>2, <1>4, Renonced
<1>10. m = k /\ w = z
  BY <1>1, <1>9, SameHash
<1>11. Bound(r.owner, r.owner) \o Spoken(m, s) = Bound(q.owner, q.owner) \o Spoken(m, t)
  BY <1>10 DEF w, z
<1>12. r.owner = q.owner /\ Agree(m, s, t)
  BY <1>1, <1>11, WordsTell
<1>13. Account(e) = Account(g)
  BY <1>7, <1>8, <1>12
<1>14. ASSUME NEW f \in DOMAIN Structs[m] \ DOMAIN Flags
       PROVE  Told(m, s, f) = Told(m, t, f)
  <2> DEFINE h == CHOOSE h \in DOMAIN Structs[m] \cap DOMAIN Flags : Flags[h] = f
  <2>1. s[f] = t[f]
    BY <1>12, <1>14 DEF Agree
  <2>2. CASE \E x \in DOMAIN Structs[m] \cap DOMAIN Flags : Flags[x] = f
    <3>1. h \in DOMAIN Structs[m]
      BY <2>2
    <3>2. s[h] = t[h]
      BY <1>12, <3>1 DEF Agree
    <3> QED BY <2>1, <2>2, <3>2 DEF Told
  <2>3. CASE ~\E x \in DOMAIN Structs[m] \cap DOMAIN Flags : Flags[x] = f
    BY <2>1, <2>3 DEF Told
  <2> QED BY <2>2, <2>3
<1>15. Asks(e) = Asks(g)
  BY <1>5, <1>6, <1>10, <1>14
<1> QED BY <1>13, <1>15 DEF e, g

-----------------------------------------------------------------------------
(* What a call did: the invariant.                                        *)

\* What a call did: a refusal, or the envelope of a request, which for a bundle
\* bears the nonce that the roster signed.
Refused(e, r) == e = [ok |-> FALSE, req |-> r]
Enveloped(e, r) == \E n : /\ e = Envelope(r, n)
                          /\ r.kind = "multi_sig" => n = r.params.inner_nonce
Traced ==
  /\ posted = [c \in Calls |-> posted[c]]
  /\ \A c \in Calls : \/ posted[c] = Absent
                      \/ \E r \in Requests : Refused(posted[c], r) \/ Enveloped(posted[c], r)

\* Before any call ...
LEMMA TracedInit == Init => Traced
  BY DEF Init, Traced

\* ... and after each.
LEMMA TracedStep == Traced /\ [Next]_vars => Traced'
<1> SUFFICES ASSUME Traced, [Next]_vars PROVE Traced'
  OBVIOUS
<1>1. ASSUME NEW c \in Calls, NEW e, posted' = [posted EXCEPT ![c] = e],
             \E r \in Requests : Refused(e, r) \/ Enveloped(e, r)
      PROVE  Traced'
  <2>1. posted'[c] = e /\ \A d \in Calls \ {c} : posted'[d] = posted[d]
    BY <1>1 DEF Traced
  <2>2. posted' = [d \in Calls |-> posted'[d]]
    BY <1>1 DEF Traced
  <2> QED BY <1>1, <2>1, <2>2 DEF Traced
<1>2. ASSUME NEW c \in Calls, Reject(c) PROVE Traced'
  <2>1. PICK r \in Requests : posted' = [posted EXCEPT ![c] = [ok |-> FALSE, req |-> r]]
    BY <1>2 DEF Reject
  <2>2. Refused([ok |-> FALSE, req |-> r], r)
    BY DEF Refused
  <2> QED BY <1>1, <2>1, <2>2
<1>3. ASSUME NEW c \in Calls, Post(c) PROVE Traced'
  <2>1. PICK r \in Requests : /\ r.kind # "multi_sig"
                              /\ posted' = [posted EXCEPT ![c] = Envelope(r, nonce + 1)]
    BY <1>3 DEF Post
  <2>2. Enveloped(Envelope(r, nonce + 1), r)
    BY <2>1 DEF Enveloped
  <2> QED BY <1>1, <2>1, <2>2
<1>4. ASSUME NEW c \in Calls, PostAtNonce(c) PROVE Traced'
  <2>1. PICK r \in Requests : /\ r.kind = "multi_sig"
                              /\ posted' = [posted EXCEPT ![c] = Envelope(r,
                                r.params.inner_nonce)]
    BY <1>4 DEF PostAtNonce
  <2>2. Enveloped(Envelope(r, r.params.inner_nonce), r)
    BY <2>1 DEF Enveloped
  <2> QED BY <1>1, <2>1, <2>2
<1>5. CASE UNCHANGED vars
  BY <1>5 DEF vars, Traced
<1> QED BY <1>2, <1>3, <1>4, <1>5 DEF Next

-----------------------------------------------------------------------------
(* One bundle.                                                            *)

\* What the body of a bundle says of account, blob and signatures is what it was given.
LEMMA BundleBody ==
  ASSUME NEW r \in Requests, r.kind = "multi_sig", NEW n
  PROVE  LET e == Envelope(r, n)
         IN  /\ e.req = r /\ e.nonce = n
             /\ \A f \in {"user", "inner_action_blob", "signatures"} : e.body[f] = r.params[f]
<1>1. Method(r) = "multi_sig" /\ Args(r) = r.params
  BY BundleAssumption DEF Method, Args
<1>2. NewNames("multi_sig") = [nonce |-> "inner_nonce"]
  BY DEF NewNames, Renamed
<1>3. LeftOut("multi_sig", r.params) = {}
  BY DEF LeftOut
<1>4. ASSUME NEW f \in {"user", "inner_action_blob", "signatures"}
      PROVE  /\ f \in Keys("multi_sig", r.params) /\ Behind("multi_sig", f) = f
             /\ Posted("multi_sig", r.params, f) = r.params[f]
  BY <1>2, <1>3, BundleAssumption DEF Keys, Behind, Posted
<1>5. ASSUME NEW f \in {"user", "inner_action_blob", "signatures"}
      PROVE  Body("multi_sig", r.params, r.owner)[f] = r.params[f]
  <2>1. f # "owner"
    OBVIOUS
  <2> QED BY <1>4, <2>1 DEF Body
<1> QED BY <1>1, <1>5 DEF Envelope

\* A signature is good for the node if and only if its member meant what is asked,
\* and bound the account: the two schemes never agree on a digest.
LEMMA SignatureSpeaks ==
  ASSUME NEW g, NEW user, NEW blob, NEW n,
         \E scheme \in {"UserBound", "Legacy"} :
           g = sign_multisig_inner(g.by, scheme, g.meant.user, g.meant.blob, g.meant.nonce)
  PROVE  g.digest = multi_sig_inner_digest(user, blob, n)
           <=> g.meant = [user |-> user, blob |-> blob, nonce |-> n] /\ Len(g.digest.type) = 3
<1>1. PICK scheme \in {"UserBound", "Legacy"} :
        g = sign_multisig_inner(g.by, scheme, g.meant.user, g.meant.blob, g.meant.nonce)
  OBVIOUS
<1> DEFINE u == g.meant.user
           b == g.meant.blob
           k == g.meant.nonce
<1>2. g.meant = [user |-> u, blob |-> b, nonce |-> k]
  BY <1>1 DEF sign_multisig_inner
<1>3. g.digest = multi_sig_inner_digest_for(scheme, u, b, k)
  BY <1>1 DEF sign_multisig_inner
<1> HIDE DEF u, b, k
<1>4. CASE scheme = "UserBound"
  <2>1. g.digest = [type |-> <<"user", "action", "nonce">>, words |-> <<u, b, k>>]
    BY <1>3, <1>4 DEF multi_sig_inner_digest_for, multi_sig_inner_digest
  <2>2. <<u, b, k>> = <<user, blob, n>> <=> u = user /\ b = blob /\ k = n
    OBVIOUS
  <2>3. g.digest = multi_sig_inner_digest(user, blob, n) <=> u = user /\ b = blob /\ k = n
    BY <2>1, <2>2 DEF multi_sig_inner_digest
  <2>4. Len(g.digest.type) = 3
    BY <2>1
  <2>5. g.meant = [user |-> user, blob |-> blob, nonce |-> n] <=> u = user /\ b = blob /\ k = n
    BY <1>2
  <2> QED BY <2>3, <2>4, <2>5
<1>5. CASE scheme = "Legacy"
  <2>1. g.digest = [type |-> <<"action", "nonce">>, words |-> <<b, k>>]
    BY <1>3, <1>5 DEF multi_sig_inner_digest_for, multi_sig_inner_digest_legacy
  <2>2. Len(g.digest.type) = 2
    BY <2>1
  <2>3. Len(multi_sig_inner_digest(user, blob, n).type) = 3
    BY DEF multi_sig_inner_digest
  <2> QED BY <2>2, <2>3
<1> QED BY <1>4, <1>5

\* So the members that the node counts are those that meant what is asked.
LEMMA OneBundle ==
  ASSUME NEW r \in Requests, r.kind = "multi_sig"
  PROVE  LET e == Envelope(r, r.params.inner_nonce)
             asked == [user |-> r.params.user, blob |-> r.params.inner_action_blob,
                       nonce |-> r.params.inner_nonce]
             carried == {r.params.signatures[i] : i \in DOMAIN r.params.signatures}
             meant == {g \in carried : g.meant = asked /\ Len(g.digest.type) = 3}
         IN  Signers(e) = {g.by : g \in meant} \cap Roster
<1> DEFINE e == Envelope(r, r.params.inner_nonce)
           sigs == r.params.signatures
           asked == [user |-> r.params.user, blob |-> r.params.inner_action_blob,
                     nonce |-> r.params.inner_nonce]
           good == multi_sig_inner_digest(r.params.user, r.params.inner_action_blob,
                                          r.params.inner_nonce)
           carried == {sigs[i] : i \in DOMAIN sigs}
           meant == {g \in carried : g.meant = asked /\ Len(g.digest.type) = 3}
<1>1. /\ e.nonce = r.params.inner_nonce /\ e.body.user = r.params.user
      /\ e.body.inner_action_blob = r.params.inner_action_blob /\ e.body.signatures = sigs
  BY BundleBody
<1>2. ASSUME NEW i \in DOMAIN sigs
      PROVE  sigs[i].digest = good <=> sigs[i].meant = asked /\ Len(sigs[i].digest.type) = 3
  <2> DEFINE g == sigs[i]
  <2>1. \E scheme \in {"UserBound", "Legacy"} :
          g = sign_multisig_inner(g.by, scheme, g.meant.user, g.meant.blob, g.meant.nonce)
    BY BundleAssumption
  <2> HIDE DEF g
  <2>2. g.digest = good <=> g.meant = asked /\ Len(g.digest.type) = 3
    BY <2>1, SignatureSpeaks
  <2> QED BY <2>2 DEF g
<1> HIDE DEF e, good, asked, sigs
<1>3. Signers(e) = {m \in Roster : \E i \in DOMAIN sigs : sigs[i].by = m
        /\ sigs[i].digest = good}
  BY <1>1 DEF Signers, good
<1>4. Signers(e) = {g.by : g \in meant} \cap Roster
  BY <1>2, <1>3
<1> QED BY <1>4 DEF e, asked, sigs

-----------------------------------------------------------------------------
(* The theorems.                                                          *)

\* The four properties of one envelope, of what a call did.
LEMMA SentTraced ==
  ASSUME Traced, NEW c \in Calls, Sent(c)
  PROVE  \E r \in Requests : \E n : posted[c] = Envelope(r, n)
<1>1. PICK r \in Requests : Refused(posted[c], r) \/ Enveloped(posted[c], r)
  BY DEF Traced, Sent
<1>2. ~Refused(posted[c], r)
  BY DEF Sent, Refused
<1> QED BY <1>1, <1>2 DEF Enveloped

\* What every call did is what a request asked for: the invariant of the module.
THEOREM CallsTraced == Spec => []Traced
<1>1. Init => Traced
  BY TracedInit
<1>2. Traced /\ [Next]_vars => Traced'
  BY TracedStep
<1> QED BY <1>1, <1>2, PTL DEF Spec

\* Whatever a method signed, the node rebuilds the digest from what was posted: through
\* renamed keys, omitted keys and enum names (Verifies).
THEOREM BodiesVerify == Spec => []Verifies
<1>1. Traced => Verifies
  <2> SUFFICES ASSUME Traced, NEW c \in Calls, Sent(c), KindKnown(posted[c])
               PROVE  Verified(posted[c])
    BY DEF Verifies
  <2>1. PICK r \in Requests : \E n : posted[c] = Envelope(r, n)
    BY SentTraced
  <2>2. PICK n : posted[c] = Envelope(r, n)
    BY <2>1
  <2> QED BY <2>2, EnvelopeVerified
<1> QED BY <1>1, CallsTraced, PTL

\* The words that are hashed are the fields that the frozen type string names, in its
\* order, the owner and the expiry among them when they are bound (WordsFollowType).
THEOREM WordsInOrder == Spec => []WordsFollowType
<1>1. Traced => WordsFollowType
  <2> SUFFICES ASSUME Traced PROVE WordsFollowType
    OBVIOUS
  <2>1. ASSUME NEW c \in Calls, Sent(c) PROVE Worded(posted[c])
    <3>1. PICK r \in Requests : \E n : posted[c] = Envelope(r, n)
      BY <2>1, SentTraced
    <3>2. PICK n : posted[c] = Envelope(r, n)
      BY <3>1
    <3> QED BY <3>2, EnvelopeWorded
  <2> QED BY <2>1 DEF WordsFollowType, Worded
<1> QED BY <1>1, CallsTraced, PTL

\* What is posted acts for the owner it was given, or its signer, and says field by
\* field what the params struct of exchange.rs held (ActsForAsked).
THEOREM AskedIsPosted == Spec => []ActsForAsked
<1>1. Traced => ActsForAsked
  <2> SUFFICES ASSUME Traced PROVE ActsForAsked
    OBVIOUS
  <2> DEFINE Acts(e) == /\ Account(e) = OrElse(e.req.owner, e.req.signer)
                        /\ e.req.via = "params" => Asked(e.req, e)
  <2>1. ASSUME NEW c \in Calls, Sent(c) PROVE Acts(posted[c])
    <3>1. PICK r \in Requests : \E n : posted[c] = Envelope(r, n)
      BY <2>1, SentTraced
    <3>2. PICK n : posted[c] = Envelope(r, n)
      BY <3>1
    <3>3. posted[c].req = r
      BY <3>2, Sealed
    <3> QED BY <3>2, <3>3, EnvelopeActs
  <2> QED BY <2>1 DEF ActsForAsked, Asked
<1> QED BY <1>1, CallsTraced, PTL

\* A signature says one thing: two actions that verify and are signed alike by one
\* signer ask the same of the same account (SignedMeansOne).
THEOREM OneMeaning == Spec => []SignedMeansOne
<1>1. Traced => SignedMeansOne
  <2> SUFFICES ASSUME Traced PROVE SignedMeansOne
    OBVIOUS
  <2> DEFINE Alike(e, g) ==
        Verified(e) /\ Verified(g) /\ e.signer = g.signer /\ SignedAlike(e, g)
             Same(e, g) == Asks(e) = Asks(g) /\ Account(e) = Account(g)
  <2>1. ASSUME NEW c \in Calls, NEW d \in Calls, Sent(c), Sent(d), Alike(posted[c], posted[d])
        PROVE  Same(posted[c], posted[d])
    <3>1. PICK r \in Requests : \E n : posted[c] = Envelope(r, n)
      BY <2>1, SentTraced
    <3>2. PICK n : posted[c] = Envelope(r, n)
      BY <3>1
    <3>3. PICK q \in Requests : \E l : posted[d] = Envelope(q, l)
      BY <2>1, SentTraced
    <3>4. PICK l : posted[d] = Envelope(q, l)
      BY <3>3
    <3> QED BY <2>1, <3>2, <3>4, OneReading
  <2> QED BY <2>1 DEF SignedMeansOne, SignedAlike
<1> QED BY <1>1, CallsTraced, PTL

\* A bundle is carried out if and only if as many members as it takes signed for its
\* account, its blob and its nonce.
THEOREM RosterHeard == Spec => []RosterSpeaks
<1>1. Traced => RosterSpeaks
  <2> SUFFICES ASSUME Traced PROVE RosterSpeaks
    OBVIOUS
  <2> DEFINE Speaks(e) ==
        LET asked == [user |-> e.req.params.user, blob |-> e.req.params.inner_action_blob,
                      nonce |-> e.req.params.inner_nonce]
            carried == {e.req.params.signatures[i] : i \in DOMAIN e.req.params.signatures}
            meant == {g \in carried : g.meant = asked /\ Len(g.digest.type) = 3}
        IN  Signers(e) = {g.by : g \in meant} \cap Roster
  <2>1. ASSUME NEW c \in Calls, Sent(c), posted[c].kind = "multi_sig"
        PROVE  Speaks(posted[c])
    <3>1. PICK r \in Requests : Refused(posted[c], r) \/ Enveloped(posted[c], r)
      BY <2>1 DEF Traced, Sent
    <3>2. ~Refused(posted[c], r)
      BY <2>1 DEF Sent, Refused
    <3>3. PICK n : posted[c] = Envelope(r, n)
            /\ (r.kind = "multi_sig" => n = r.params.inner_nonce)
      BY <3>1, <3>2 DEF Enveloped
    <3>4. posted[c].kind = Method(r) /\ posted[c].req = r
      BY <3>3 DEF Envelope
    <3>5. r.kind = "multi_sig"
      BY <2>1, <3>4 DEF Method
    <3> QED BY <3>3, <3>4, <3>5, OneBundle
  <2> HIDE DEF Speaks
  <2>2. ASSUME NEW c \in Calls, Sent(c) /\ posted[c].kind = "multi_sig"
        PROVE  LET e == posted[c]
                   asked == [user |-> e.req.params.user,
                     blob |-> e.req.params.inner_action_blob,
                             nonce |-> e.req.params.inner_nonce]

                     carried == {e.req.params.signatures[i] :
                                   i \in DOMAIN e.req.params.signatures}
                   meant == {g \in carried : g.meant = asked /\ Len(g.digest.type) = 3}
               IN  Cardinality(Signers(e)) >= Threshold
                     <=> Cardinality({g.by : g \in meant} \cap Roster) >= Threshold
    BY <2>1, <2>2 DEF Speaks
  <2> QED BY <2>2 DEF RosterSpeaks
<1> QED BY <1>1, CallsTraced, PTL
=============================================================================
