----------------------------- MODULE NonceSource -----------------------------
(***************************************************************************)
(* What the signers of one process rely on: each signed action takes a     *)
(* nonce of its own, above every nonce taken before it.  Nonces are u64;   *)
(* Top stands for u64::MAX, where a saturating counter has nowhere to go.  *)
(***************************************************************************)
EXTENDS Naturals

CONSTANTS Calls,   \* calls of next_nonce
          Top      \* the largest nonce

VARIABLES last,    \* the last nonce issued, 0 at first
          nonce    \* nonce[c]: what call c got, 0 before it returns

Init == /\ last = 0
        /\ nonce = [c \in Calls |-> 0]

\* One call takes effect.
Issue(c) ==
  /\ nonce[c] = 0
  /\ \E n \in 1..Top : /\ n > last \/ n = Top
                       /\ last' = n
                       /\ nonce' = [nonce EXCEPT ![c] = n]

Next == \E c \in Calls : Issue(c)
Spec == Init /\ [][Next]_<<last, nonce>>
=============================================================================
