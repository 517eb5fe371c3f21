----------------------------- MODULE NonceClock ------------------------------
(***************************************************************************)
(* next_nonce of rest/exchange.rs: the process-wide counter every signed   *)
(* action draws its nonce from, a compare-and-swap loop that many threads  *)
(* run at once.  All its accesses are Relaxed, so a load, and the value a  *)
(* failed exchange reports, may be any value the counter has held that is  *)
(* not older than what this call has seen; a successful exchange always    *)
(* replaces the newest value.  The wall clock may stand still, jump ahead  *)
(* or be set back, also between two calls.                                 *)
(***************************************************************************)
EXTENDS Naturals

CONSTANTS Calls,   \* calls of next_nonce, by any thread
          Top      \* u64::MAX

ASSUME TopAssumption == Top \in Nat \ {0}

VARIABLES
  clock,     \* what current_unix_ms() reads
  counter,   \* NONCE_CLOCK
  held,      \* the values NONCE_CLOCK has held
  pc, now, prev,
  nonce,     \* nonce[c]: the value call c returned, 0 before
  before     \* before[c]: the calls that had returned when c began

vars == <<clock, counter, held, pc, now, prev, nonce, before>>

Larger(a, b) == IF a > b THEN a ELSE b
\* Mutant: past the end of the range.
PlainSucc(n) == n + 1

SaturatingSucc(n) == IF n < Top THEN n + 1 ELSE Top

\* Mutant: the clock alone.
NextFromClock(t, p) == IF t = 0 THEN 1 ELSE t

\* The candidate: at least the clock, and past the last issued value.
NextNonce(t, p) == Larger(t, SaturatingSucc(p))

Init ==
  /\ clock \in 0..Top
  /\ counter = 0 /\ held = {0}
  /\ pc = [c \in Calls |-> "start"]
  /\ now = [c \in Calls |-> 0]
  /\ prev = [c \in Calls |-> 0]
  /\ nonce = [c \in Calls |-> 0]
  /\ before = [c \in Calls |-> {}]

ReadClock(c) ==
  /\ pc[c] = "start"
  /\ now' = [now EXCEPT ![c] = clock]
  /\ before' = [before EXCEPT ![c] = {d \in Calls : nonce[d] # 0}]
  /\ pc' = [pc EXCEPT ![c] = "load"]
  /\ UNCHANGED <<clock, counter, held, prev, nonce>>

Load(c) ==
  /\ pc[c] = "load"
  /\ \E v \in held : prev' = [prev EXCEPT ![c] = v]
  /\ pc' = [pc EXCEPT ![c] = "exchange"]
  /\ UNCHANGED <<clock, counter, held, now, nonce, before>>

\* Mutant: a store in place of the exchange.
StoreNext(c) ==
  /\ pc[c] = "exchange"
  /\ counter' = NextNonce(now[c], prev[c])
  /\ held' = held \cup {counter'}
  /\ nonce' = [nonce EXCEPT ![c] = counter']
  /\ pc' = [pc EXCEPT ![c] = "done"]
  /\ UNCHANGED <<clock, now, prev, before>>

\* compare_exchange_weak succeeds: nobody moved the counter past prev.
Exchange(c) ==
  /\ pc[c] = "exchange" /\ prev[c] = counter
  /\ counter' = NextNonce(now[c], prev[c])
  /\ held' = held \cup {counter'}
  /\ nonce' = [nonce EXCEPT ![c] = counter']
  /\ pc' = [pc EXCEPT ![c] = "done"]
  /\ UNCHANGED <<clock, now, prev, before>>

\* It fails, because of another thread or spuriously: retry from what it saw.
ExchangeFails(c) ==
  /\ pc[c] = "exchange"
  /\ \E v \in held : v >= prev[c] /\ prev' = [prev EXCEPT ![c] = v]
  /\ UNCHANGED <<clock, counter, held, pc, now, nonce, before>>

\* The wall clock (external).
ClockMoves ==
  /\ clock' \in 0..Top
  /\ UNCHANGED <<counter, held, pc, now, prev, nonce, before>>

Call(c) == ReadClock(c) \/ Load(c) \/ Exchange(c) \/ ExchangeFails(c)
Next == ClockMoves \/ \E c \in Calls : Call(c)

Spec == Init /\ [][Next]_vars

-----------------------------------------------------------------------------
TypeOK ==
  /\ clock \in 0..Top /\ counter \in 0..Top /\ held \subseteq 0..Top
  /\ pc \in [Calls -> {"start", "load", "exchange", "done"}]
  /\ now \in [Calls -> 0..Top] /\ prev \in [Calls -> 0..Top]
  /\ nonce \in [Calls -> 0..Top]
  /\ before \in [Calls -> SUBSET Calls]

\* No two signed actions of the process share a nonce, whatever the clock
\* does and however the threads interleave (exchange.rs:1880-1884); only at
\* u64::MAX does the saturating counter repeat itself.
NoncesDistinct ==
  \A c, d \in Calls : c # d /\ nonce[c] # 0 /\ nonce[c] = nonce[d]
                        => nonce[c] = Top

\* A call that begins after another returned gets a larger nonce, so that the
\* node never finds one behind an action that was signed before it.
RealTimeOrder ==
  \A c \in Calls : nonce[c] # 0 =>
    \A d \in before[c] : nonce[d] < nonce[c] \/ nonce[c] = Top

\* The loop is an atomic source of nonces: each call takes effect at its
\* successful exchange.
Source == INSTANCE NonceSource WITH last <- counter
ImplementsNonceSource == Source!Spec

\* Why: the values seen are never ahead of the counter, and it only grows.
NonceInv ==
  /\ counter \in held
  /\ \A v \in held : v <= counter
  /\ \A c \in Calls : /\ prev[c] \in held
                      /\ nonce[c] <= counter
                      /\ nonce[c] # 0 <=> pc[c] = "done"
                      /\ \A d \in before[c] : nonce[d] # 0
                      /\ pc[c] = "start" => before[c] = {}
  /\ NoncesDistinct /\ RealTimeOrder
=============================================================================
