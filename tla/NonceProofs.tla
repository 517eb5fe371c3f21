----------------------------- MODULE NonceProofs -----------------------------
(***************************************************************************)
(* The nonce counter is a strict, linearizable source of nonces for any    *)
(* number of callers, any clock and any width of the counter.              *)
(***************************************************************************)
EXTENDS NonceClock, TLAPS

\* The candidate lies in range and above the value it replaces (or at the top).
LEMMA Candidate ==
  ASSUME NEW t \in 0..Top, NEW p \in 0..Top
  PROVE  /\ NextNonce(t, p) \in 1..Top
         /\ NextNonce(t, p) > p \/ NextNonce(t, p) = Top
         /\ NextNonce(t, p) >= p
BY TopAssumption DEF NextNonce, Larger, SaturatingSucc

\* The variables keep their types.
LEMMA NonceType == TypeOK /\ [Next]_vars => TypeOK'
<1> SUFFICES ASSUME TypeOK, [Next]_vars PROVE TypeOK'
  OBVIOUS
<1>1. ASSUME NEW c \in Calls, ReadClock(c) PROVE TypeOK'
  BY <1>1 DEF ReadClock, TypeOK
<1>2. ASSUME NEW c \in Calls, Load(c) PROVE TypeOK'
  BY <1>2 DEF Load, TypeOK
<1>3. ASSUME NEW c \in Calls, Exchange(c) PROVE TypeOK'
  <2>1. NextNonce(now[c], prev[c]) \in 0..Top
    BY Candidate, TopAssumption DEF TypeOK
  <2> QED BY <1>3, <2>1 DEF Exchange, TypeOK
<1>4. ASSUME NEW c \in Calls, ExchangeFails(c) PROVE TypeOK'
  BY <1>4 DEF ExchangeFails, TypeOK
<1>5. CASE ClockMoves
  BY <1>5 DEF ClockMoves, TypeOK
<1>6. CASE UNCHANGED vars
  BY <1>6 DEF vars, TypeOK
<1> QED BY <1>1, <1>2, <1>3, <1>4, <1>5, <1>6 DEF Next, Call

\* The invariant is inductive; only a successful exchange needs an argument.
LEMMA NonceStep == TypeOK /\ NonceInv /\ [Next]_vars => NonceInv'
<1> SUFFICES ASSUME TypeOK, NonceInv, [Next]_vars PROVE NonceInv'
  OBVIOUS
<1> USE DEF NonceInv, TypeOK, NoncesDistinct, RealTimeOrder
<1>1. ASSUME NEW c \in Calls, ReadClock(c) PROVE NonceInv'
  <2>1. nonce[c] = 0
    BY <1>1 DEF ReadClock
  <2> QED BY <1>1, <2>1 DEF ReadClock
<1>2. ASSUME NEW c \in Calls, Load(c) PROVE NonceInv'
  BY <1>2 DEF Load
<1>3. ASSUME NEW c \in Calls, Exchange(c) PROVE NonceInv'
  <2> DEFINE n == NextNonce(now[c], prev[c])
  <2>1. /\ n \in 1..Top /\ (n > counter \/ n = Top)
        /\ n >= counter
    BY <1>3, Candidate DEF Exchange
  <2>2. /\ counter' = n /\ held' = held \cup {n}
        /\ nonce' = [nonce EXCEPT ![c] = n] /\ nonce[c] = 0
        /\ pc' = [pc EXCEPT ![c] = "done"]
        /\ UNCHANGED <<now, prev, before>>
    BY <1>3 DEF Exchange
  <2> HIDE DEF n
  <2>3. \A d \in Calls : nonce[d] <= counter /\ nonce[d] \in Nat /\ counter \in Nat
    BY TopAssumption
  <2>4. NoncesDistinct'
    BY <2>1, <2>2, <2>3, TopAssumption
  <2>5. RealTimeOrder'
    BY <2>1, <2>2, <2>3, TopAssumption
  <2>6. (counter \in held)' /\ (\A v \in held : v <= counter)'
    BY <2>1, <2>2, <2>3, TopAssumption
  <2>7. \A d \in Calls : /\ prev'[d] \in held'
                         /\ nonce'[d] <= counter'
                         /\ nonce'[d] # 0 <=> pc'[d] = "done"
                         /\ \A e \in before'[d] : nonce'[e] # 0
                         /\ pc'[d] = "start" => before'[d] = {}
    BY <2>1, <2>2, <2>3, TopAssumption
  <2> QED BY <2>4, <2>5, <2>6, <2>7
<1>4. ASSUME NEW c \in Calls, ExchangeFails(c) PROVE NonceInv'
  BY <1>4 DEF ExchangeFails
<1>5. CASE ClockMoves
  BY <1>5 DEF ClockMoves
<1>6. CASE UNCHANGED vars
  BY <1>6 DEF vars
<1> QED BY <1>1, <1>2, <1>3, <1>4, <1>5, <1>6 DEF Next, Call

\* Every execution keeps the invariant, and so no two signed actions share a
\* nonce and a later call is above every earlier one.
THEOREM NonceSafety == Spec => [](TypeOK /\ NonceInv)
<1>1. Init => TypeOK /\ NonceInv
  BY TopAssumption DEF Init, TypeOK, NonceInv, NoncesDistinct, RealTimeOrder
<1> QED BY <1>1, NonceType, NonceStep, PTL DEF Spec

\* The counter and the nonces returned stay in 64 bits, and every call is at one of its steps.
THEOREM NonceTypes == Spec => []TypeOK
  BY NonceSafety, PTL

\* Nonces are unique below the top of the range.
THEOREM NoncesUnique == Spec => []NoncesDistinct
<1>1. NonceInv => NoncesDistinct
  BY DEF NonceInv
<1> QED BY <1>1, NonceSafety, PTL

\* Nonces respect the order in which calls return and begin.
THEOREM NoncesOrdered == Spec => []RealTimeOrder
<1>1. NonceInv => RealTimeOrder
  BY DEF NonceInv
<1> QED BY <1>1, NonceSafety, PTL

\* The loop refines the atomic source: a successful exchange issues, every
\* other step stutters.
THEOREM NonceRefinement == Spec => ImplementsNonceSource
<1>1. Init => Source!Init
  BY DEF Init, Source!Init
<1>2. ASSUME TypeOK, NonceInv, [Next]_vars
      PROVE  [Source!Next]_<<counter, nonce>>
  <2>1. ASSUME NEW c \in Calls, Exchange(c) PROVE Source!Issue(c)
    <3>1. nonce[c] = 0
      BY <1>2, <2>1 DEF Exchange, NonceInv
    <3>2. /\ counter' \in 1..Top
          /\ counter' > counter \/ counter' = Top
          /\ nonce' = [nonce EXCEPT ![c] = counter']
      BY <1>2, <2>1, Candidate DEF Exchange, TypeOK
    <3> QED BY <3>1, <3>2 DEF Source!Issue
  <2>2. ASSUME NEW c \in Calls, ReadClock(c) \/ Load(c) \/ ExchangeFails(c)
        PROVE  UNCHANGED <<counter, nonce>>
    BY <2>2 DEF ReadClock, Load, ExchangeFails
  <2>3. CASE ClockMoves
    BY <2>3 DEF ClockMoves
  <2>4. CASE UNCHANGED vars
    BY <2>4 DEF vars
  <2> QED BY <1>2, <2>1, <2>2, <2>3, <2>4 DEF Next, Call, Source!Next
<1> QED BY <1>1, <1>2, NonceSafety, PTL DEF Spec, ImplementsNonceSource, Source!Spec
=============================================================================
