----------------------------- MODULE PlaceOrder ------------------------------
(***************************************************************************)
(* place_order (rest/place.rs) over the signed lane of /exchange: calls    *)
(* that run at once on one account, each a perp request, which is one      *)
(* batch_order action, or a spot request, which is one spot_order action   *)
(* per order.  An action takes its nonce from the process-wide source      *)
(* (NonceSource), is signed and posted, and the call waits for the answer. *)
(* The node and the network are external: a request may arrive late, after *)
(* its caller gave up, or never, an answer may be lost, and an action that *)
(* was admitted may be answered before it is decided.                      *)
(***************************************************************************)
EXTENDS Naturals, Sequences, FiniteSets

CONSTANTS
  Requests,     \* calls of place_order
  Perp,         \* those that carry perp orders
  Orders,       \* Orders[r]: how many orders r carries
  Top,          \* the largest nonce
  Window        \* how far below the newest nonce the node still accepts one

ASSUME RequestsAssumption == /\ Perp \subseteq Requests
                             /\ Orders \in [Requests -> Nat]
ASSUME NonceAssumption == Top \in Nat \ {0} /\ Window \in Nat

\* The orders a request carries, and the actions it makes of them.
Indices(r) == 1..Orders[r]
Actions(r) == IF Orders[r] = 0 THEN {} ELSE IF r \in Perp THEN {1} ELSE Indices(r)
Sends == UNION {{<<r, i>> : i \in Actions(r)} : r \in Requests}

VARIABLES
  stage,        \* stage[r]: where the call stands
  at,           \* at[r]: the action it works on
  sent,         \* sent[r]: the actions it reports an outcome for
  notSent,      \* notSent[r]: the orders it reports as not sent
  last, nonce,  \* the nonce source
  result,       \* result[s]: what the post of action s returned
  net,          \* actions posted and not yet received by the node
  verdict,      \* verdict[s]: what the node made of s
  log           \* the actions the node committed, in order

callVars == <<stage, at, sent, notSent>>
nonceVars == <<last, nonce>>
nodeVars == <<verdict, log>>
vars == <<callVars, nonceVars, nodeVars, result, net>>

Nonces == INSTANCE NonceSource WITH Calls <- Sends

Init ==
  /\ stage = [r \in Requests |-> "new"]
  /\ at = [r \in Requests |-> 0]
  /\ sent = [r \in Requests |-> {}]
  /\ notSent = [r \in Requests |-> {}]
  /\ Nonces!Init
  /\ result = [s \in Sends |-> "none"]
  /\ net = {}
  /\ verdict = [s \in Sends |-> "none"]
  /\ log = <<>>

\* The node has said what becomes of the action.
Decided(s) == verdict[s] \notin {"none", "admitted"}

-----------------------------------------------------------------------------
(* The call.                                                               *)

\* An empty request is refused, and so is a perp leg that breaks the trigger
\* rules, before any nonce is taken.
Refuse(r) ==
  /\ stage[r] = "new" /\ (Orders[r] = 0 \/ r \in Perp)
  /\ stage' = [stage EXCEPT ![r] = "refused"]
  /\ UNCHANGED <<at, sent, notSent, nonceVars, nodeVars, result, net>>

Begin(r) ==
  /\ stage[r] = "new" /\ Orders[r] # 0
  /\ stage' = [stage EXCEPT ![r] = "next"]
  /\ at' = [at EXCEPT ![r] = 1]
  /\ UNCHANGED <<sent, notSent, nonceVars, nodeVars, result, net>>

\* Mutant: every action of the call signs the newest nonce as it is.
TakeNonceAgain(r) ==
  /\ stage[r] = "next"
  /\ last' = (IF last = 0 THEN 1 ELSE last)
  /\ nonce' = [nonce EXCEPT ![<<r, at[r]>>] = last']
  /\ stage' = [stage EXCEPT ![r] = "signing"]
  /\ UNCHANGED <<at, sent, notSent, nodeVars, result, net>>

\* next_nonce.
TakeNonce(r) ==
  /\ stage[r] = "next"
  /\ Nonces!Issue(<<r, at[r]>>)
  /\ stage' = [stage EXCEPT ![r] = "signing"]
  /\ UNCHANGED <<at, sent, notSent, nodeVars, result, net>>

\* Sign and post.
PostAction(r) ==
  /\ stage[r] = "signing"
  /\ net' = net \cup {<<r, at[r]>>}
  /\ stage' = [stage EXCEPT ![r] = "waiting"]
  /\ UNCHANGED <<at, sent, notSent, nonceVars, nodeVars, result>>

\* Mutant: an error does not stop the loop.
RecordOn(r, x) ==
  /\ result' = [result EXCEPT ![<<r, at[r]>>] = x]
  /\ sent' = [sent EXCEPT ![r] = @ \cup {at[r]}]
  /\ UNCHANGED notSent
  /\ IF at[r] + 1 \notin Actions(r)
     THEN stage' = [stage EXCEPT ![r] = "done"] /\ UNCHANGED at
     ELSE /\ stage' = [stage EXCEPT ![r] = "next"]
          /\ at' = [at EXCEPT ![r] = @ + 1]

\* Mutants: the remaining orders counted to the length and not below it; the
\* failed order listed as unsent.
RecordInclusive(r, x) ==
  LET i == at[r]
  IN  /\ result' = [result EXCEPT ![<<r, i>>] = x]
      /\ sent' = [sent EXCEPT ![r] = @ \cup {i}]
      /\ notSent' = [notSent EXCEPT ![r] =
                       IF x = "err" THEN i + 1 .. Orders[r] + 1 ELSE {}]
      /\ IF x = "err" \/ i + 1 \notin Actions(r)
         THEN stage' = [stage EXCEPT ![r] = "done"] /\ UNCHANGED at
         ELSE /\ stage' = [stage EXCEPT ![r] = "next"]
              /\ at' = [at EXCEPT ![r] = i + 1]
RecordFromFailed(r, x) ==
  LET i == at[r]
      stops == x = "err"
  IN  /\ result' = [result EXCEPT ![<<r, i>>] = x]
      /\ sent' = [sent EXCEPT ![r] = IF stops THEN @ ELSE @ \cup {i}]
      /\ notSent' = [notSent EXCEPT ![r] =
                       IF stops THEN {j \in Indices(r) : j >= i} ELSE {}]
      /\ IF stops \/ i + 1 \notin Actions(r)
         THEN stage' = [stage EXCEPT ![r] = "done"] /\ UNCHANGED at
         ELSE /\ stage' = [stage EXCEPT ![r] = "next"]
              /\ at' = [at EXCEPT ![r] = i + 1]

\* The action ends with outcome x: record it; after an error stop and report
\* the orders behind it, else go on with the next one.
Record(r, x) ==
  LET i == at[r]
      stops == x = "err"
      rest == IF stops /\ r \notin Perp THEN {j \in Indices(r) : j > i} ELSE {}
  IN  /\ result' = [result EXCEPT ![<<r, i>>] = x]
      /\ sent' = [sent EXCEPT ![r] = @ \cup {i}]
      /\ notSent' = [notSent EXCEPT ![r] = rest]
      /\ IF stops \/ i + 1 \notin Actions(r)
         THEN stage' = [stage EXCEPT ![r] = "done"] /\ UNCHANGED at
         ELSE /\ stage' = [stage EXCEPT ![r] = "next"]
              /\ at' = [at EXCEPT ![r] = i + 1]

\* Signing or the connect fails: nothing left the process.
SendFails(r) ==
  /\ stage[r] = "signing"
  /\ Record(r, "err")
  /\ UNCHANGED <<nonceVars, nodeVars, net>>

\* Mutant: a refused admission reads as an Ok without statuses.
AnswerLenient == [committed |-> "ok", replayed |-> "ok", admitted |-> "pending",
                  refused |-> "ok"]

\* What a post returns.  A commit verdict, a replayed nonce included, answers 200
\* with the verdict among the statuses.  So does an action that was admitted and
\* not decided inside the node's wait window: its status is "pending", and the
\* post returns Ok as well.  A refused admission answers the error envelope.
Answer == [committed |-> "ok", replayed |-> "ok", admitted |-> "pending",
           refused |-> "err"]

\* The answer arrives.
Answered(r) ==
  /\ stage[r] = "waiting"
  /\ verdict[<<r, at[r]>>] # "none"
  /\ Record(r, Answer[verdict[<<r, at[r]>>]])
  /\ UNCHANGED <<nonceVars, nodeVars, net>>

\* Mutant: only an answer that was given can be waited out.
NoAnswerIfDecided(r) ==
  /\ stage[r] = "waiting" /\ Decided(<<r, at[r]>>)
  /\ Record(r, "err")
  /\ UNCHANGED <<nonceVars, nodeVars, net>>

\* The answer is lost, or does not come within the 30 s of the HTTP client.
NoAnswer(r) ==
  /\ stage[r] = "waiting"
  /\ Record(r, "err")
  /\ UNCHANGED <<nonceVars, nodeVars, net>>

\* The caller drops the future at its await.
DropCall(r) ==
  /\ stage[r] = "waiting"
  /\ stage' = [stage EXCEPT ![r] = "dropped"]
  /\ UNCHANGED <<at, sent, notSent, nonceVars, nodeVars, result, net>>

-----------------------------------------------------------------------------
(* The node (external).                                                    *)

Committed == {log[k] : k \in DOMAIN log}
Used == {nonce[s] : s \in Committed}
TooOld(n) == \E m \in Used : n + Window < m

\* The gateway refuses the request: nothing commits, the nonce stays free.
NodeRefuses(s) ==
  /\ s \in net
  /\ net' = net \ {s}
  /\ verdict' = [verdict EXCEPT ![s] = "refused"]
  /\ UNCHANGED <<callVars, nonceVars, result, log>>

\* The gateway admits it: the action waits for a block.
NodeAdmits(s) ==
  /\ s \in net
  /\ net' = net \ {s}
  /\ verdict' = [verdict EXCEPT ![s] = "admitted"]
  /\ UNCHANGED <<callVars, nonceVars, result, log>>

\* What was admitted is dropped at commit for its nonce, or committed, which uses
\* up the nonce whatever the book makes of the order.  It may take its time.
NodeCommits(s) ==
  /\ verdict[s] = "admitted"
  /\ IF nonce[s] \in Used \/ TooOld(nonce[s])
     THEN verdict' = [verdict EXCEPT ![s] = "replayed"] /\ UNCHANGED log
     ELSE /\ verdict' = [verdict EXCEPT ![s] = "committed"]
          /\ log' = Append(log, s)
  /\ UNCHANGED <<callVars, nonceVars, result, net>>

-----------------------------------------------------------------------------
Call(r) == \/ Refuse(r) \/ Begin(r) \/ TakeNonce(r) \/ PostAction(r)
           \/ SendFails(r) \/ Answered(r) \/ NoAnswer(r) \/ DropCall(r)

Next == \/ \E r \in Requests : Call(r)
        \/ \E s \in Sends : NodeRefuses(s) \/ NodeAdmits(s) \/ NodeCommits(s)

Spec == Init /\ [][Next]_vars

\* The executor runs the call and the HTTP client's timeout ends its wait; it
\* may be dropped, and need not be.
Runs(r) == TakeNonce(r) \/ PostAction(r) \/ SendFails(r) \/ Answered(r) \/ NoAnswer(r)
FairSpec == Spec /\ \A r \in Requests : WF_vars(Runs(r))

-----------------------------------------------------------------------------
TypeOK ==
  /\ stage \in [Requests -> {"new", "refused", "next", "signing", "waiting",
                             "done", "dropped"}]
  /\ at \in [Requests -> Nat]
  /\ sent \in [Requests -> SUBSET Nat] /\ notSent \in [Requests -> SUBSET Nat]
  /\ \A r \in Requests : sent[r] \subseteq Indices(r) /\ notSent[r] \subseteq Indices(r)
  /\ last \in 0..Top /\ nonce \in [Sends -> 0..Top]
  /\ result \in [Sends -> {"none", "ok", "pending", "err"}]
  /\ net \subseteq Sends
  /\ verdict \in [Sends -> {"none", "refused", "admitted", "replayed", "committed"}]
  /\ log \in Seq(Sends)

\* The call returned a placement: every order is reported once, and what is
\* reported as not sent never reaches the node, not even late.
NotSentStaysOut ==
  \A r \in Requests \ Perp : stage[r] = "done" =>
    /\ sent[r] \cup notSent[r] = Indices(r) /\ sent[r] \cap notSent[r] = {}
    /\ \A i \in notSent[r] : <<r, i>> \notin net /\ verdict[<<r, i>>] = "none"

\* What the post returns as Ok: a pending order is neither an error nor decided.
Oks == {"ok", "pending"}

\* "Sending on would place orders against an unknown state" (place.rs:105): an
\* order is posted only if those before it were answered Ok, so the only unknown
\* state it can meet is an order that the call reports as pending, and only such
\* an order lands behind a later one of its call.
AnsweredFirst ==
  \A r \in Requests : \A i, j \in Actions(r) :
    i < j /\ (<<r, j>> \in net \/ verdict[<<r, j>>] # "none")
      => /\ result[<<r, i>>] \in Oks
         /\ ~Decided(<<r, i>>) => result[<<r, i>>] = "pending"
InOrder ==
  \A k, l \in DOMAIN log :
    log[k][1] = log[l][1] /\ log[k][2] < log[l][2] /\ result[log[k]] # "pending" => k < l
KnownBeforeNext == AnsweredFirst /\ InOrder

\* An action is dropped for its nonce only because actions signed after it
\* overtook it: those of other calls, or later ones of its own call, and these
\* only if it was answered pending.  (Top apart, where the source repeats itself.)
OvertakenBy(r, i, s) ==
  /\ nonce[s] > nonce[<<r, i>>] + Window
  /\ s[1] # r \/ (s[2] > i /\ result[<<r, i>>] = "pending")
OnlyOvertaken ==
  \A r \in Requests : \A i \in Actions(r) :
    verdict[<<r, i>>] = "replayed" /\ nonce[<<r, i>>] # Top
      => \E s \in Committed : OvertakenBy(r, i, s)

-----------------------------------------------------------------------------
(* Why placing is safe: the inductive invariant behind the above.          *)

\* Nothing has left the process for this action.
Untouched(s) == s \notin net /\ verdict[s] = "none" /\ result[s] = "none"

\* What a call reports follows from where its loop stands: the actions before
\* the current one are answered Ok, those behind it are untouched.
LoopInvAt(r) ==
  /\ IF stage[r] \in {"new", "refused"} THEN at[r] = 0 ELSE at[r] \in Actions(r)
  /\ sent[r] = {i \in Actions(r) : i < at[r] \/ (i = at[r] /\ stage[r] = "done")}
  /\ notSent[r] = IF /\ stage[r] = "done" /\ r \notin Perp
                     /\ result[<<r, at[r]>>] = "err"
                  THEN {i \in Indices(r) : i > at[r]} ELSE {}
  /\ stage[r] = "done" /\ result[<<r, at[r]>>] \in Oks => at[r] + 1 \notin Actions(r)
  /\ \A i \in Actions(r) :
       /\ i < at[r] => result[<<r, i>>] \in Oks
       /\ i = at[r] => (stage[r] = "done" <=> result[<<r, i>>] # "none")
       /\ i > at[r] \/ (i = at[r] /\ stage[r] \in {"next", "signing"})
            => Untouched(<<r, i>>)
LoopInv == \A r \in Requests : LoopInvAt(r)

\* The node decides an action once: what it committed is what it says it did, a
\* plain Ok is about a decided action and a pending one about an admitted one.
NodeInv ==
  \A s \in Sends : /\ verdict[s] # "none" => s \notin net
                   /\ s \in Committed <=> verdict[s] = "committed"
                   /\ result[s] = "ok" => Decided(s) /\ verdict[s] # "refused"
                   /\ result[s] = "pending" => verdict[s] \notin {"none", "refused"}

\* The nonces of a call ascend, and no two actions share one below the top.
NonceInv ==
  /\ \A s \in Sends : /\ nonce[s] <= last
                      /\ s \in net \/ verdict[s] # "none" => nonce[s] # 0
  /\ \A s, t \in Sends : nonce[s] = nonce[t] /\ nonce[s] \notin {0, Top} => s = t
  /\ \A r \in Requests : \A i \in Actions(r) :
       /\ i > at[r] \/ (i = at[r] /\ stage[r] = "next") => nonce[<<r, i>>] = 0
       /\ i = at[r] /\ stage[r] \in {"signing", "waiting"} => nonce[<<r, i>>] # 0
       /\ \A j \in Actions(r) :
            i < j /\ nonce[<<r, j>>] # 0 => nonce[<<r, i>>] <= nonce[<<r, j>>]

\* All of it together; it is inductive.
PlaceInv == LoopInv /\ NodeInv /\ NonceInv /\ InOrder /\ OnlyOvertaken

-----------------------------------------------------------------------------
\* A call ends.
CallsReturn ==
  \A r \in Requests : stage[r] = "next" ~> stage[r] \in {"done", "dropped"}
=============================================================================
