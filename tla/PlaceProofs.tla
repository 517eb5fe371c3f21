----------------------------- MODULE PlaceProofs -----------------------------
(***************************************************************************)
(* The safety of place_order for any number of calls and orders, any nonce *)
(* range and any window of the node: PlaceInv is inductive.                *)
(***************************************************************************)
EXTENDS PlaceOrder, TLAPS

\* What a request is made of.
LEMMA ActionFacts ==
  ASSUME NEW r \in Requests
  PROVE  /\ Orders[r] \in Nat
         /\ Actions(r) \subseteq Indices(r)
         /\ Indices(r) \subseteq Nat \ {0}
         /\ r \notin Perp => Actions(r) = Indices(r)
         /\ Orders[r] # 0 => 1 \in Actions(r)
         /\ 0 \notin Actions(r)
         /\ \A i \in Actions(r) : <<r, i>> \in Sends
<1>1. Orders[r] \in Nat
  BY RequestsAssumption
<1>2. Actions(r) = {} \/ Actions(r) = {1} \/ Actions(r) = Indices(r)
  BY DEF Actions
<1>3. \A i \in Actions(r) : <<r, i>> \in {<<r, j>> : j \in Actions(r)}
  OBVIOUS
<1>4. \A i \in Actions(r) : <<r, i>> \in Sends
  BY <1>3 DEF Sends
<1> QED BY <1>1, <1>2, <1>4 DEF Actions, Indices

\* An action belongs to one request.
LEMMA SendFacts ==
  ASSUME NEW s \in Sends
  PROVE  /\ s[1] \in Requests /\ s[2] \in Actions(s[1])
         /\ s = <<s[1], s[2]>>
BY DEF Sends

\* The steps of the loop name an action of the request.
LEMMA CurrentAction ==
  ASSUME LoopInv, NEW r \in Requests, stage[r] \in {"next", "signing", "waiting"}
  PROVE  at[r] \in Actions(r) /\ <<r, at[r]>> \in Sends
BY ActionFacts DEF LoopInv, LoopInvAt

\* An action that was posted or decided has only answered ones before it.
LEMMA AnsweredBefore ==
  ASSUME TypeOK, LoopInv, NEW r \in Requests, NEW i \in Actions(r), NEW j \in Actions(r),
         i < j, ~Untouched(<<r, j>>) \/ verdict[<<r, j>>] # "none"
  PROVE  result[<<r, i>>] \in Oks
<1>1. i \in Nat /\ j \in Nat
  BY ActionFacts
<1>2. at[r] \in Nat
  BY DEF TypeOK
<1>3. LoopInvAt(r)
  BY DEF LoopInv
<1>4. ~(j > at[r])
  BY <1>3 DEF LoopInvAt, Untouched
<1>5. i < at[r]
  BY <1>1, <1>2, <1>4
<1> QED BY <1>3, <1>5 DEF LoopInvAt

\* What a post returns, by what the node has said.
LEMMA AnswerFacts ==
  ASSUME TypeOK, NEW s \in Sends, verdict[s] # "none"
  PROVE  /\ Answer[verdict[s]] \in Oks \cup {"err"}
         /\ Answer[verdict[s]] = "ok" => Decided(s) /\ verdict[s] # "refused"
         /\ Answer[verdict[s]] = "pending" => verdict[s] = "admitted"
<1>1. verdict[s] \in {"refused", "admitted", "replayed", "committed"}
  BY DEF TypeOK
<1> QED BY <1>1 DEF Answer, Oks, Decided

-----------------------------------------------------------------------------
(* Types.                                                                  *)

\* An action that ends leaves the report well formed.
LEMMA RecordType ==
  ASSUME TypeOK, LoopInv, NEW r \in Requests, NEW x \in Oks \cup {"err"},
         stage[r] \in {"signing", "waiting"}, Record(r, x),
         UNCHANGED <<nonceVars, nodeVars, net>>
  PROVE  TypeOK'
<1>1. at[r] \in Actions(r) /\ <<r, at[r]>> \in Sends
  BY CurrentAction
<1>2. at[r] \in Indices(r) /\ at[r] \in Nat
  BY <1>1, ActionFacts
<1>3. /\ at' \in [Requests -> Nat]
      /\ stage' \in [Requests -> {"new", "refused", "next", "signing", "waiting",
                                  "done", "dropped"}]
      /\ result' \in [Sends -> {"none", "ok", "pending", "err"}]
  <2>1. at' = at \/ at' = [at EXCEPT ![r] = at[r] + 1]
    BY DEF Record
  <2>2. \/ stage' = [stage EXCEPT ![r] = "done"]
        \/ stage' = [stage EXCEPT ![r] = "next"]
    BY DEF Record
  <2>3. result' = [result EXCEPT ![<<r, at[r]>>] = x]
    BY DEF Record
  <2>4. at' \in [Requests -> Nat]
    <3>1. at \in [Requests -> Nat] /\ at[r] + 1 \in Nat
      BY <1>2 DEF TypeOK
    <3> QED BY <2>1, <3>1
  <2>5. result' \in [Sends -> {"none", "ok", "pending", "err"}]
    BY <2>3 DEF TypeOK, Oks
  <2>6. stage' \in [Requests -> {"new", "refused", "next", "signing", "waiting",
                                 "done", "dropped"}]
    BY <2>2 DEF TypeOK
  <2> QED BY <2>4, <2>5, <2>6
<1>4. /\ sent'[r] \subseteq Indices(r) /\ notSent'[r] \subseteq Indices(r)
      /\ sent' = [sent EXCEPT ![r] = sent'[r]]
      /\ notSent' = [notSent EXCEPT ![r] = notSent'[r]]
  BY <1>2 DEF Record, TypeOK
<1>5. Indices(r) \subseteq Nat
  BY ActionFacts
<1> QED BY <1>3, <1>4, <1>5 DEF TypeOK, nonceVars, nodeVars

LEMMA PlaceType == TypeOK /\ LoopInv /\ [Next]_vars => TypeOK'
<1> SUFFICES ASSUME TypeOK, LoopInv, [Next]_vars PROVE TypeOK'
  OBVIOUS
<1>1. ASSUME NEW r \in Requests, Refuse(r) PROVE TypeOK'
  BY <1>1 DEF Refuse, TypeOK, nonceVars, nodeVars
<1>2. ASSUME NEW r \in Requests, Begin(r) PROVE TypeOK'
  BY <1>2 DEF Begin, TypeOK, nonceVars, nodeVars
<1>3. ASSUME NEW r \in Requests, TakeNonce(r) PROVE TypeOK'
  <2>1. PICK n \in 1..Top : /\ last' = n
                            /\ nonce' = [nonce EXCEPT ![<<r, at[r]>>] = n]
    BY <1>3 DEF TakeNonce, Nonces!Issue
  <2>2. last' \in 0..Top /\ nonce' \in [Sends -> 0..Top]
    <3>1. n \in 0..Top /\ nonce \in [Sends -> 0..Top]
      BY NonceAssumption DEF TypeOK
    <3> QED BY <2>1, <3>1
  <2> QED BY <1>3, <2>2 DEF TakeNonce, TypeOK, nodeVars
<1>4. ASSUME NEW r \in Requests, PostAction(r) PROVE TypeOK'
  BY <1>4, CurrentAction DEF PostAction, TypeOK, nonceVars, nodeVars
<1>5. ASSUME NEW r \in Requests, SendFails(r) PROVE TypeOK'
  BY <1>5, RecordType DEF SendFails
<1>6. ASSUME NEW r \in Requests, Answered(r) PROVE TypeOK'
  BY <1>6, RecordType, AnswerFacts, CurrentAction DEF Answered
<1>7. ASSUME NEW r \in Requests, NoAnswer(r) PROVE TypeOK'
  BY <1>7, RecordType DEF NoAnswer
<1>8. ASSUME NEW r \in Requests, DropCall(r) PROVE TypeOK'
  BY <1>8 DEF DropCall, TypeOK, nonceVars, nodeVars
<1>9. ASSUME NEW s \in Sends, NodeRefuses(s) PROVE TypeOK'
  BY <1>9 DEF NodeRefuses, TypeOK, nonceVars, callVars
<1>10. ASSUME NEW s \in Sends, NodeCommits(s) PROVE TypeOK'
  <2>1. /\ UNCHANGED <<callVars, nonceVars, result, net>>
        /\ verdict' \in [Sends -> {"none", "refused", "admitted", "replayed", "committed"}]
    BY <1>10 DEF NodeCommits, TypeOK
  <2>2. log' = log \/ log' = Append(log, s)
    BY <1>10 DEF NodeCommits
  <2>3. log' \in Seq(Sends)
    <3>1. log \in Seq(Sends) /\ Append(log, s) \in Seq(Sends)
      BY DEF TypeOK
    <3> QED BY <2>2, <3>1
  <2> QED BY <2>1, <2>3 DEF TypeOK, nonceVars, callVars
<1>11. ASSUME NEW s \in Sends, NodeAdmits(s) PROVE TypeOK'
  BY <1>11 DEF NodeAdmits, TypeOK, nonceVars, callVars
<1>12. CASE UNCHANGED vars
  BY <1>12 DEF TypeOK, vars, nonceVars, callVars, nodeVars
<1> QED BY <1>1, <1>2, <1>3, <1>4, <1>5, <1>6, <1>7, <1>8, <1>9, <1>10, <1>11, <1>12
        DEF Next, Call

-----------------------------------------------------------------------------
(* The loop.                                                               *)

\* An action that ends: an error or the last action ends the loop.
LEMMA RecordLoop ==
  ASSUME TypeOK, LoopInv, NEW r \in Requests, NEW x \in Oks \cup {"err"},
         stage[r] \in {"signing", "waiting"}, Record(r, x),
         UNCHANGED <<nonceVars, nodeVars, net>>
  PROVE  LoopInv'
<1> DEFINE a == at[r]
<1>1. a \in Actions(r) /\ a \in Nat /\ <<r, a>> \in Sends
  BY CurrentAction, ActionFacts
<1>2. \A s \in Sends : result'[s] = IF s = <<r, a>> THEN x ELSE result[s]
  BY <1>1 DEF Record, TypeOK
<1>3. \A q \in Requests : q # r =>
        /\ stage'[q] = stage[q] /\ at'[q] = at[q]
        /\ sent'[q] = sent[q] /\ notSent'[q] = notSent[q]
  BY DEF Record, TypeOK
<1>4. /\ sent'[r] = sent[r] \cup {a}
      /\ notSent'[r] = IF x = "err" /\ r \notin Perp
                       THEN {i \in Indices(r) : i > a} ELSE {}
      /\ IF x = "err" \/ a + 1 \notin Actions(r)
         THEN stage'[r] = "done" /\ at'[r] = a
         ELSE stage'[r] = "next" /\ at'[r] = a + 1
  BY DEF Record, TypeOK
<1>5. UNCHANGED <<verdict, net>>
  BY DEF nodeVars
<1>6. Actions(r) \subseteq Nat
  BY ActionFacts
<1> SUFFICES ASSUME NEW q \in Requests
             PROVE  LoopInvAt(q)'
  BY DEF LoopInv
<1>7. LoopInvAt(q) /\ LoopInvAt(r)
  BY DEF LoopInv
<1>8. CASE q # r
  <2>1. \A i \in Actions(q) : /\ result'[<<q, i>>] = result[<<q, i>>]
                              /\ Untouched(<<q, i>>) => Untouched(<<q, i>>)'
    BY <1>2, <1>5, <1>8, ActionFacts DEF Untouched
  <2>2. stage[q] \notin {"new", "refused"} => at[q] \in Actions(q)
    BY <1>7 DEF LoopInvAt
  <2>3. stage[q] = "done" => result'[<<q, at[q]>>] = result[<<q, at[q]>>]
    BY <2>1, <2>2
  <2>4. UNCHANGED <<stage[q], at[q], sent[q], notSent[q]>>
    BY <1>3, <1>8
  <2>5. notSent'[q] = IF /\ stage'[q] = "done" /\ q \notin Perp
                         /\ result'[<<q, at'[q]>>] = "err"
                      THEN {i \in Indices(q) : i > at'[q]} ELSE {}
    BY <1>7, <2>3, <2>4 DEF LoopInvAt
  <2>6. \A i \in Actions(q) :
           /\ i < at'[q] => result'[<<q, i>>] \in Oks
           /\ i = at'[q] => (stage'[q] = "done" <=> result'[<<q, i>>] # "none")
           /\ i > at'[q] \/ (i = at'[q] /\ stage'[q] \in {"next", "signing"})
                => Untouched(<<q, i>>)'
    BY <1>7, <2>1, <2>4 DEF LoopInvAt
  <2> QED BY <1>7, <2>3, <2>4, <2>5, <2>6 DEF LoopInvAt
<1>9. CASE q = r
  <2>1. \A i \in Actions(r) : <<r, i>> \in Sends
    BY ActionFacts
  <2>2. \A i \in Actions(r) : result'[<<r, i>>] = IF i = a THEN x ELSE result[<<r, i>>]
    BY <1>2, <2>1
  <2>3. \A i \in Actions(r) :
          /\ i < a => result[<<r, i>>] \in Oks
          /\ i > a => Untouched(<<r, i>>)
    BY <1>7 DEF LoopInvAt
  <2>4. sent[r] = {i \in Actions(r) : i < a}
    BY <1>7, <1>6, <1>1 DEF LoopInvAt
  <2>5. \A i \in Actions(r) : Untouched(<<r, i>>) /\ i # a => Untouched(<<r, i>>)'
    BY <2>2, <1>5 DEF Untouched
  <2>6. \A i \in Actions(r) : at'[r] = a + 1 => (i < at'[r] <=> i < a \/ i = a)
    BY <1>1, <1>6
  <2>7. IF stage'[r] \in {"new", "refused"} THEN at'[r] = 0 ELSE at'[r] \in Actions(r)
    BY <1>1, <1>4
  <2>8. sent'[r] = {i \in Actions(r) : i < at'[r] \/ (i = at'[r] /\ stage'[r] = "done")}
    <3>1. \A i \in Actions(r) : i < a \/ i = a
                                  <=> i < at'[r] \/ (i = at'[r] /\ stage'[r] = "done")
      BY <1>1, <1>4, <1>6, <2>6
    <3> QED BY <1>1, <1>4, <2>4, <3>1
  <2>9. notSent'[r] = IF /\ stage'[r] = "done" /\ r \notin Perp
                         /\ result'[<<r, at'[r]>>] = "err"
                      THEN {i \in Indices(r) : i > at'[r]} ELSE {}
    BY <1>1, <1>4, <2>2
  <2>10. stage'[r] = "done" /\ result'[<<r, at'[r]>>] \in Oks
           => at'[r] + 1 \notin Actions(r)
    BY <1>1, <1>4, <2>2 DEF Oks
  <2>11. \A i \in Actions(r) :
           /\ i < at'[r] => result'[<<r, i>>] \in Oks
           /\ i = at'[r] => (stage'[r] = "done" <=> result'[<<r, i>>] # "none")
           /\ i > at'[r] \/ (i = at'[r] /\ stage'[r] \in {"next", "signing"})
                => Untouched(<<r, i>>)'
    <3> SUFFICES ASSUME NEW i \in Actions(r)
                 PROVE  /\ i < at'[r] => result'[<<r, i>>] \in Oks
                        /\ i = at'[r] => (stage'[r] = "done" <=> result'[<<r, i>>] # "none")
                        /\ i > at'[r] \/ (i = at'[r] /\ stage'[r] \in {"next", "signing"})
                             => Untouched(<<r, i>>)'
      OBVIOUS
    <3>1. i \in Nat /\ (i > a => result[<<r, i>>] = "none")
      BY <1>6, <2>3 DEF Untouched
    <3>2. i > a => Untouched(<<r, i>>)'
      BY <1>1, <3>1, <2>3, <2>5
    <3>3. result'[<<r, i>>] = IF i = a THEN x ELSE result[<<r, i>>]
      BY <2>2
    <3>4. i < a => result[<<r, i>>] \in Oks
      BY <2>3
    <3>5. CASE x = "err" \/ a + 1 \notin Actions(r)
      BY <1>1, <1>4, <3>1, <3>2, <3>3, <3>4, <3>5 DEF Oks
    <3>6. CASE ~(x = "err" \/ a + 1 \notin Actions(r))
      BY <1>1, <1>4, <3>1, <3>2, <3>3, <3>4, <3>6 DEF Oks
    <3> QED BY <3>5, <3>6
  <2> QED BY <2>7, <2>8, <2>9, <2>10, <2>11, <1>9 DEF LoopInvAt
<1> QED BY <1>8, <1>9

\* A step that leaves the reports alone keeps the invariant, if it touches no
\* action behind the current one.
LEMMA QuietLoop ==
  ASSUME LoopInv, UNCHANGED <<at, sent, notSent, result>>,
         \A r \in Requests :
           /\ stage'[r] # stage[r] =>
                \/ stage[r] = "new" /\ stage'[r] = "refused"
                \/ stage[r] = "next" /\ stage'[r] = "signing"
                \/ stage[r] = "signing" /\ stage'[r] = "waiting"
                \/ stage[r] = "waiting" /\ stage'[r] = "dropped"
           /\ \A i \in Actions(r) :
                \/ Untouched(<<r, i>>) => Untouched(<<r, i>>)'
                \/ i = at[r] /\ stage'[r] = "waiting"
  PROVE  LoopInv'
<1> SUFFICES ASSUME NEW q \in Requests
             PROVE  LoopInvAt(q)'
  BY DEF LoopInv
<1>1. LoopInvAt(q)
  BY DEF LoopInv
<1>2. Actions(q) \subseteq Nat
  BY ActionFacts
<1> QED BY <1>1, <1>2 DEF LoopInvAt

LEMMA LoopStep == TypeOK /\ LoopInv /\ NodeInv /\ [Next]_vars => LoopInv'
<1> SUFFICES ASSUME TypeOK, LoopInv, NodeInv, [Next]_vars PROVE LoopInv'
  OBVIOUS
<1> USE DEF nonceVars, nodeVars, callVars
<1>1. ASSUME NEW r \in Requests, Refuse(r) PROVE LoopInv'
  BY <1>1, QuietLoop DEF Refuse, TypeOK, Untouched
<1>2. ASSUME NEW r \in Requests, Begin(r) PROVE LoopInv'
  <2> SUFFICES ASSUME NEW q \in Requests
               PROVE  LoopInvAt(q)'
    BY DEF LoopInv
  <2>1. LoopInvAt(q) /\ LoopInvAt(r)
    BY DEF LoopInv
  <2>2. Actions(q) \subseteq Nat \ {0} /\ (Orders[r] # 0 => 1 \in Actions(r))
    BY ActionFacts
  <2>3. /\ stage' = [stage EXCEPT ![r] = "next"] /\ at' = [at EXCEPT ![r] = 1]
        /\ UNCHANGED <<sent, notSent, result, net, verdict>>
        /\ stage[r] = "new" /\ Orders[r] # 0
    BY <1>2 DEF Begin
  <2>4. /\ stage'[q] = IF q = r THEN "next" ELSE stage[q]
        /\ at'[q] = IF q = r THEN 1 ELSE at[q]
    BY <2>3 DEF TypeOK
  <2>5. \A i \in Actions(q) : Untouched(<<q, i>>)' <=> Untouched(<<q, i>>)
    BY <2>3 DEF Untouched
  <2>6. CASE q # r
    BY <2>1, <2>3, <2>4, <2>5, <2>6 DEF LoopInvAt
  <2>7. CASE q = r
    <3>1. at[r] = 0 /\ sent[r] = {} /\ notSent[r] = {}
      BY <2>1, <2>2, <2>3, <2>7 DEF LoopInvAt
    <3>2. \A i \in Actions(r) : Untouched(<<r, i>>) /\ result[<<r, i>>] = "none"
      BY <2>1, <2>2, <2>7, <3>1 DEF LoopInvAt, Untouched
    <3>3. \A i \in Actions(r) : ~(i < 1)
      BY <2>2, <2>7
    <3> QED BY <2>2, <2>3, <2>4, <2>5, <2>7, <3>1, <3>2, <3>3 DEF LoopInvAt
  <2> QED BY <2>6, <2>7
<1>3. ASSUME NEW r \in Requests, TakeNonce(r) PROVE LoopInv'
  BY <1>3, QuietLoop DEF TakeNonce, TypeOK, Untouched
<1>4. ASSUME NEW r \in Requests, PostAction(r) PROVE LoopInv'
  BY <1>4, QuietLoop DEF PostAction, TypeOK, Untouched
<1>5. ASSUME NEW r \in Requests, SendFails(r) PROVE LoopInv'
  BY <1>5, RecordLoop DEF SendFails
<1>6. ASSUME NEW r \in Requests, Answered(r) PROVE LoopInv'
  BY <1>6, RecordLoop, AnswerFacts, CurrentAction DEF Answered
<1>7. ASSUME NEW r \in Requests, NoAnswer(r) PROVE LoopInv'
  BY <1>7, RecordLoop DEF NoAnswer
<1>8. ASSUME NEW r \in Requests, DropCall(r) PROVE LoopInv'
  BY <1>8, QuietLoop DEF DropCall, TypeOK, Untouched
<1>9. ASSUME NEW s \in Sends, NodeRefuses(s) PROVE LoopInv'
  <2>1. /\ s \in net /\ net' \subseteq net
        /\ \A t : t # s => verdict'[t] = verdict[t]
    BY <1>9 DEF NodeRefuses, TypeOK
  <2> QED BY <1>9, <2>1, QuietLoop DEF NodeRefuses, Untouched
<1>10. ASSUME NEW s \in Sends, NodeCommits(s) PROVE LoopInv'
  <2>1. \E v : verdict' = [verdict EXCEPT ![s] = v]
    BY <1>10 DEF NodeCommits
  <2>2. /\ verdict[s] # "none" /\ net' = net
        /\ \A t : t # s => verdict'[t] = verdict[t]
    BY <1>10, <2>1 DEF NodeCommits, TypeOK
  <2> QED BY <1>10, <2>2, QuietLoop DEF NodeCommits, Untouched
<1>11. ASSUME NEW s \in Sends, NodeAdmits(s) PROVE LoopInv'
  <2>1. /\ s \in net /\ net' \subseteq net
        /\ \A t : t # s => verdict'[t] = verdict[t]
    BY <1>11 DEF NodeAdmits, TypeOK
  <2> QED BY <1>11, <2>1, QuietLoop DEF NodeAdmits, Untouched
<1>12. CASE UNCHANGED vars
  BY <1>12, QuietLoop DEF vars, Untouched
<1> QED BY <1>1, <1>2, <1>3, <1>4, <1>5, <1>6, <1>7, <1>8, <1>9, <1>10, <1>11, <1>12
        DEF Next, Call

-----------------------------------------------------------------------------
(* The node.                                                               *)

\* What a commit adds to the log.
LEMMA LogAppend ==
  ASSUME log \in Seq(Sends), NEW s \in Sends, log' = Append(log, s)
  PROVE  /\ Committed' = Committed \cup {s}
         /\ DOMAIN log' = DOMAIN log \cup {Len(log) + 1}
         /\ \A k \in DOMAIN log : log'[k] = log[k] /\ k \in Nat /\ k < Len(log) + 1
         /\ log'[Len(log) + 1] = s
<1>1. /\ DOMAIN log' = DOMAIN log \cup {Len(log) + 1}
      /\ \A k \in DOMAIN log : log'[k] = log[k] /\ k \in Nat /\ k < Len(log) + 1
      /\ log'[Len(log) + 1] = s
  OBVIOUS
<1> QED BY <1>1 DEF Committed

\* An answer is final.
LEMMA Answers ==
  ASSUME TypeOK, LoopInv, [Next]_vars, NEW s \in Sends, result[s] # "none"
  PROVE  result'[s] = result[s]
<1>1. ASSUME NEW r \in Requests, NEW x, Record(r, x), stage[r] \in {"signing", "waiting"}
      PROVE  result'[s] = result[s]
  <2>1. result[<<r, at[r]>>] = "none"
    BY <1>1, CurrentAction DEF LoopInv, LoopInvAt
  <2> QED BY <1>1, <2>1 DEF Record, TypeOK
<1>2. ASSUME NEW r \in Requests, SendFails(r) \/ Answered(r) \/ NoAnswer(r)
      PROVE  result'[s] = result[s]
  BY <1>1, <1>2 DEF SendFails, Answered, NoAnswer
<1>3. ASSUME NEW r \in Requests,
             Refuse(r) \/ Begin(r) \/ TakeNonce(r) \/ PostAction(r) \/ DropCall(r)
      PROVE  result'[s] = result[s]
  BY <1>3 DEF Refuse, Begin, TakeNonce, PostAction, DropCall
<1>4. ASSUME NEW t \in Sends, NodeRefuses(t) \/ NodeAdmits(t) \/ NodeCommits(t)
      PROVE  result'[s] = result[s]
  BY <1>4 DEF NodeRefuses, NodeAdmits, NodeCommits
<1>5. CASE UNCHANGED vars
  BY <1>5 DEF vars
<1> QED BY <1>2, <1>3, <1>4, <1>5 DEF Next, Call

LEMMA NodeStep == TypeOK /\ LoopInv /\ NodeInv /\ [Next]_vars => NodeInv'
<1> SUFFICES ASSUME TypeOK, LoopInv, NodeInv, [Next]_vars PROVE NodeInv'
  OBVIOUS
<1>1. ASSUME UNCHANGED <<result, net, verdict, log>> PROVE NodeInv'
  BY <1>1 DEF NodeInv, Committed, Decided
<1>2. ASSUME NEW r \in Requests, NEW x \in Oks \cup {"err"}, Record(r, x),
             UNCHANGED <<nodeVars, net>>,
             LET s == <<r, at[r]>>
             IN  /\ x = "ok" => Decided(s) /\ verdict[s] # "refused"
                 /\ x = "pending" => verdict[s] \notin {"none", "refused"}
      PROVE  NodeInv'
  <2>1. /\ \A s \in Sends : result'[s] = IF s = <<r, at[r]>> THEN x ELSE result[s]
        /\ UNCHANGED <<net, verdict, log>>
    BY <1>2 DEF Record, TypeOK, nodeVars
  <2> QED BY <1>2, <2>1 DEF NodeInv, Committed, Decided
<1>3. ASSUME NEW r \in Requests, Refuse(r) \/ Begin(r) \/ TakeNonce(r) \/ DropCall(r)
      PROVE  NodeInv'
  BY <1>1, <1>3 DEF Refuse, Begin, TakeNonce, DropCall, nodeVars
<1>4. ASSUME NEW r \in Requests, PostAction(r) PROVE NodeInv'
  <2>1. verdict[<<r, at[r]>>] = "none"
    BY <1>4, CurrentAction DEF PostAction, LoopInv, LoopInvAt, Untouched
  <2>2. net' = net \cup {<<r, at[r]>>} /\ UNCHANGED <<result, verdict, log>>
    BY <1>4 DEF PostAction, nodeVars
  <2> QED BY <2>1, <2>2 DEF NodeInv, Committed, Decided
<1>5. ASSUME NEW r \in Requests, SendFails(r) \/ Answered(r) \/ NoAnswer(r)
      PROVE  NodeInv'
  <2>1. CASE SendFails(r) \/ NoAnswer(r)
    BY <1>2, <2>1 DEF SendFails, NoAnswer
  <2>2. CASE Answered(r)
    <3>1. <<r, at[r]>> \in Sends
      BY <2>2, CurrentAction DEF Answered
    <3> QED BY <1>2, <2>2, <3>1, AnswerFacts DEF Answered
  <2> QED BY <1>5, <2>1, <2>2
<1>6. ASSUME NEW s \in Sends, NodeRefuses(s) PROVE NodeInv'
  <2>1. /\ net' = net \ {s} /\ UNCHANGED <<result, log>>
        /\ verdict'[s] = "refused" /\ \A t : t # s => verdict'[t] = verdict[t]
    BY <1>6 DEF NodeRefuses, TypeOK
  <2>2. s \in net
    BY <1>6 DEF NodeRefuses
  <2> QED BY <2>1, <2>2 DEF NodeInv, Committed, Decided
<1>7. ASSUME NEW s \in Sends, NodeAdmits(s) PROVE NodeInv'
  <2>1. /\ net' = net \ {s} /\ UNCHANGED <<result, log>> /\ s \in net
        /\ verdict'[s] = "admitted" /\ \A t : t # s => verdict'[t] = verdict[t]
    BY <1>7 DEF NodeAdmits, TypeOK
  <2> QED BY <2>1 DEF NodeInv, Committed, Decided
<1>8. ASSUME NEW s \in Sends, NodeCommits(s) PROVE NodeInv'
  <2>1. PICK v \in {"replayed", "committed"} : verdict' = [verdict EXCEPT ![s] = v]
    BY <1>8 DEF NodeCommits
  <2>2. /\ UNCHANGED <<result, net>> /\ verdict[s] = "admitted" /\ verdict'[s] = v
        /\ \A t : t # s => verdict'[t] = verdict[t]
    BY <1>8, <2>1 DEF NodeCommits, TypeOK
  <2>3. Committed' = IF v = "committed" THEN Committed \cup {s} ELSE Committed
    <3>1. CASE nonce[s] \in Used \/ TooOld(nonce[s])
      BY <1>8, <2>2, <3>1 DEF NodeCommits, TypeOK, Committed
    <3>2. CASE ~(nonce[s] \in Used \/ TooOld(nonce[s]))
      BY <1>8, <2>2, <3>2, LogAppend DEF NodeCommits, TypeOK
    <3> QED BY <3>1, <3>2
  <2> QED BY <2>2, <2>3 DEF NodeInv, Decided
<1>9. CASE UNCHANGED vars
  BY <1>1, <1>9 DEF vars, nodeVars
<1> QED BY <1>3, <1>4, <1>5, <1>6, <1>7, <1>8, <1>9 DEF Next, Call

\* Actions of one call are committed in the order of the request, but for those
\* answered pending: a later one is posted only when the earlier one was decided
\* or is known to be pending.
LEMMA OrderStep ==
  TypeOK /\ LoopInv /\ NodeInv /\ InOrder /\ [Next]_vars => InOrder'
<1> SUFFICES ASSUME TypeOK, LoopInv, NodeInv, InOrder, [Next]_vars PROVE InOrder'
  OBVIOUS
<1>1. CASE UNCHANGED log
  <2>1. \A k \in DOMAIN log : log[k] \in Sends /\ verdict[log[k]] = "committed"
    BY DEF TypeOK, NodeInv, Committed
  <2>2. \A k \in DOMAIN log : result[log[k]] = "pending" => result'[log[k]] = "pending"
    BY <2>1, Answers
  <2> QED BY <1>1, <2>2 DEF InOrder
<1>2. ASSUME NEW s \in Sends, NodeCommits(s) PROVE InOrder'
  <2>1. CASE log' = Append(log, s)
    <3>1. log \in Seq(Sends)
      BY DEF TypeOK
    <3>2. s[1] \in Requests /\ s[2] \in Actions(s[1]) /\ s = <<s[1], s[2]>>
      BY SendFacts
    <3>3. verdict[s] = "admitted" /\ result[s] # "ok" /\ result' = result
      BY <1>2 DEF NodeCommits, NodeInv, Decided
    <3>4. \A k \in DOMAIN log :
            log[k][1] = s[1] /\ s[2] < log[k][2] => result[s] = "pending"
      <4> SUFFICES ASSUME NEW k \in DOMAIN log, log[k][1] = s[1], s[2] < log[k][2]
                   PROVE  result[s] = "pending"
        OBVIOUS
      <4>1. log[k] \in Sends /\ log[k] \in Committed
        BY <3>1 DEF Committed
      <4>2. log[k][2] \in Actions(s[1]) /\ log[k] = <<s[1], log[k][2]>>
        BY <4>1, SendFacts
      <4>3. verdict[<<s[1], log[k][2]>>] # "none"
        BY <4>1, <4>2 DEF NodeInv
      <4>4. result[s] \in Oks
        BY <3>2, <4>2, <4>3, AnsweredBefore
      <4> QED BY <3>3, <4>4 DEF Oks
    <3>5. ~(s[2] < s[2])
      BY <3>2, ActionFacts
    <3> QED BY <2>1, <3>1, <3>3, <3>4, <3>5, LogAppend DEF InOrder
  <2> QED BY <1>1, <1>2, <2>1 DEF NodeCommits
<1>3. ASSUME NEW s \in Sends, NodeRefuses(s) \/ NodeAdmits(s) PROVE InOrder'
  BY <1>1, <1>3 DEF NodeRefuses, NodeAdmits
<1>4. ASSUME NEW r \in Requests, Call(r) PROVE InOrder'
  BY <1>1, <1>4 DEF Call, Refuse, Begin, TakeNonce, PostAction, SendFails, Answered,
                    NoAnswer, DropCall, nodeVars
<1>5. CASE UNCHANGED vars
  BY <1>1, <1>5 DEF vars, nodeVars
<1> QED BY <1>2, <1>3, <1>4, <1>5 DEF Next

-----------------------------------------------------------------------------
(* The nonces.                                                             *)

\* A step that takes no nonce keeps the invariant.
LEMMA QuietNonce ==
  ASSUME TypeOK, NonceInv, UNCHANGED nonceVars,
         \A s \in Sends : s \in net' \/ verdict'[s] # "none" =>
           s \in net \/ verdict[s] # "none" \/ nonce[s] # 0,
         \A r \in Requests : \A i \in Actions(r) :
           /\ i > at'[r] \/ (i = at'[r] /\ stage'[r] = "next")
                => i > at[r] \/ (i = at[r] /\ stage[r] = "next")
           /\ i = at'[r] /\ stage'[r] \in {"signing", "waiting"}
                => i = at[r] /\ stage[r] \in {"signing", "waiting"}
  PROVE  NonceInv'
<1>1. last' = last /\ nonce' = nonce
  BY DEF nonceVars
<1> QED BY <1>1 DEF NonceInv

\* The new nonce is above every one taken, and those behind it are not taken.
LEMMA TakeStep ==
  ASSUME TypeOK, LoopInv, NonceInv, NEW r \in Requests, TakeNonce(r)
  PROVE  NonceInv'
<1> DEFINE s == <<r, at[r]>>
<1>1. PICK n \in 1..Top : /\ n > last \/ n = Top
                          /\ last' = n
                          /\ nonce' = [nonce EXCEPT ![s] = n]
  BY DEF TakeNonce, Nonces!Issue
<1>2. at[r] \in Actions(r) /\ s \in Sends /\ nonce[s] = 0
  BY CurrentAction DEF TakeNonce, Nonces!Issue
<1>3. \A t \in Sends : nonce'[t] = IF t = s THEN n ELSE nonce[t]
  BY <1>1 DEF TypeOK
<1>4. /\ n \in Nat /\ n # 0 /\ n <= Top /\ Top \in Nat /\ last \in Nat /\ last <= Top
      /\ \A t \in Sends : nonce[t] \in Nat /\ nonce[t] <= Top
  BY <1>1, NonceAssumption DEF TypeOK
<1>5. UNCHANGED <<at, net, verdict>> /\ stage' = [stage EXCEPT ![r] = "signing"]
  BY DEF TakeNonce, nodeVars
<1>6. \A t \in Sends : /\ nonce'[t] <= last'
                       /\ t \in net' \/ verdict'[t] # "none" => nonce'[t] # 0
  <2> SUFFICES ASSUME NEW t \in Sends
               PROVE  /\ nonce'[t] <= last'
                      /\ t \in net' \/ verdict'[t] # "none" => nonce'[t] # 0
    OBVIOUS
  <2>1. nonce[t] <= last /\ (t \in net \/ verdict[t] # "none" => nonce[t] # 0)
    BY DEF NonceInv
  <2> QED BY <1>1, <1>3, <1>4, <1>5, <2>1
<1>7. \A t, u \in Sends : nonce'[t] = nonce'[u] /\ nonce'[t] \notin {0, Top} => t = u
  <2> SUFFICES ASSUME NEW t \in Sends, NEW u \in Sends,
                      nonce'[t] = nonce'[u], nonce'[t] \notin {0, Top}
               PROVE  t = u
    OBVIOUS
  <2>1. nonce[t] <= last /\ nonce[u] <= last
    BY DEF NonceInv
  <2>2. nonce[t] = nonce[u] /\ nonce[t] \notin {0, Top} => t = u
    BY DEF NonceInv
  <2> QED BY <1>1, <1>3, <1>4, <2>1, <2>2
<1>8. ASSUME NEW q \in Requests, NEW i \in Actions(q)
      PROVE  /\ i > at'[q] \/ (i = at'[q] /\ stage'[q] = "next") => nonce'[<<q, i>>] = 0
             /\ i = at'[q] /\ stage'[q] \in {"signing", "waiting"} => nonce'[<<q, i>>] # 0
             /\ \A j \in Actions(q) : i < j /\ nonce'[<<q, j>>] # 0
                                        => nonce'[<<q, i>>] <= nonce'[<<q, j>>]
  <2>1. /\ \A j \in Actions(q) : <<q, j>> \in Sends /\ j \in Nat
        /\ at[q] \in Nat
    BY ActionFacts DEF TypeOK
  <2>2. /\ i > at[q] \/ (i = at[q] /\ stage[q] = "next") => nonce[<<q, i>>] = 0
        /\ i = at[q] /\ stage[q] \in {"signing", "waiting"} => nonce[<<q, i>>] # 0
        /\ \A j \in Actions(q) : j > at[q] => nonce[<<q, j>>] = 0
        /\ \A j \in Actions(q) : i < j /\ nonce[<<q, j>>] # 0
                                   => nonce[<<q, i>>] <= nonce[<<q, j>>]
        /\ nonce[<<q, i>>] <= last
    BY <2>1 DEF NonceInv
  <2>3. stage'[q] = IF q = r THEN "signing" ELSE stage[q]
    BY <1>5 DEF TypeOK
  <2>4. \A j \in Actions(q) :
          nonce'[<<q, j>>] = IF q = r /\ j = at[r] THEN n ELSE nonce[<<q, j>>]
    BY <1>3, <2>1
  <2>5. /\ i > at'[q] \/ (i = at'[q] /\ stage'[q] = "next") => nonce'[<<q, i>>] = 0
        /\ i = at'[q] /\ stage'[q] \in {"signing", "waiting"} => nonce'[<<q, i>>] # 0
    BY <1>4, <1>5, <2>1, <2>2, <2>3, <2>4
  <2>6. ASSUME NEW j \in Actions(q), i < j, nonce'[<<q, j>>] # 0
        PROVE  nonce'[<<q, i>>] <= nonce'[<<q, j>>]
    <3>1. nonce[<<q, i>>] \in Nat /\ nonce[<<q, i>>] <= Top
      BY <1>4, <2>1
    <3>2. CASE q = r /\ i = at[r]
      BY <1>4, <2>1, <2>2, <2>4, <2>6, <3>2
    <3>3. CASE q = r /\ j = at[r]
      BY <1>1, <1>4, <2>1, <2>2, <2>4, <2>6, <3>1, <3>3
    <3>4. CASE ~(q = r /\ i = at[r]) /\ ~(q = r /\ j = at[r])
      BY <2>1, <2>2, <2>4, <2>6, <3>4
    <3> QED BY <3>2, <3>3, <3>4
  <2> QED BY <2>5, <2>6
<1> QED BY <1>6, <1>7, <1>8 DEF NonceInv

LEMMA NonceStep == TypeOK /\ LoopInv /\ NonceInv /\ [Next]_vars => NonceInv'
<1> SUFFICES ASSUME TypeOK, LoopInv, NonceInv, [Next]_vars PROVE NonceInv'
  OBVIOUS
<1>1. ASSUME NEW r \in Requests, Refuse(r) \/ DropCall(r) PROVE NonceInv'
  BY <1>1, QuietNonce DEF Refuse, DropCall, TypeOK, nodeVars
<1>2. ASSUME NEW r \in Requests, Begin(r) PROVE NonceInv'
  <2>1. at[r] = 0
    BY <1>2 DEF Begin, LoopInv, LoopInvAt
  <2>2. /\ stage' = [stage EXCEPT ![r] = "next"] /\ at' = [at EXCEPT ![r] = 1]
        /\ UNCHANGED <<net, verdict, nonceVars>>
    BY <1>2 DEF Begin, nodeVars
  <2>3. ASSUME NEW q \in Requests, NEW i \in Actions(q)
        PROVE  /\ i > at'[q] \/ (i = at'[q] /\ stage'[q] = "next")
                    => i > at[q] \/ (i = at[q] /\ stage[q] = "next")
               /\ i = at'[q] /\ stage'[q] \in {"signing", "waiting"}
                    => i = at[q] /\ stage[q] \in {"signing", "waiting"}
    <3>1. i \in Nat
      BY ActionFacts
    <3> QED BY <2>1, <2>2, <3>1 DEF TypeOK
  <2> QED BY <2>2, <2>3, QuietNonce
<1>3. ASSUME NEW r \in Requests, TakeNonce(r) PROVE NonceInv'
  BY <1>3, TakeStep
<1>4. ASSUME NEW r \in Requests, PostAction(r) PROVE NonceInv'
  <2>1. at[r] \in Actions(r) /\ nonce[<<r, at[r]>>] # 0
    BY <1>4, CurrentAction DEF PostAction, NonceInv
  <2>2. /\ net' = net \cup {<<r, at[r]>>} /\ UNCHANGED <<at, verdict, nonceVars>>
        /\ stage' = [stage EXCEPT ![r] = "waiting"] /\ stage[r] = "signing"
    BY <1>4 DEF PostAction, nodeVars
  <2> QED BY <2>1, <2>2, QuietNonce DEF TypeOK
<1>5. ASSUME NEW r \in Requests, SendFails(r) \/ Answered(r) \/ NoAnswer(r)
      PROVE  NonceInv'
  <2>1. PICK x : Record(r, x)
    BY <1>5 DEF SendFails, Answered, NoAnswer
  <2>2. UNCHANGED <<nonceVars, net, verdict>>
    BY <1>5 DEF SendFails, Answered, NoAnswer, nodeVars
  <2>3. /\ \A q \in Requests : q # r => at'[q] = at[q] /\ stage'[q] = stage[q]
        /\ \/ at'[r] = at[r] /\ stage'[r] = "done"
           \/ at'[r] = at[r] + 1 /\ stage'[r] = "next"
    BY <2>1 DEF Record, TypeOK
  <2>4. \A q \in Requests : at[q] \in Nat /\ Actions(q) \subseteq Nat
    BY ActionFacts DEF TypeOK
  <2>5. ASSUME NEW q \in Requests, NEW i \in Actions(q)
        PROVE  /\ i > at'[q] \/ (i = at'[q] /\ stage'[q] = "next")
                    => i > at[q] \/ (i = at[q] /\ stage[q] = "next")
               /\ i = at'[q] /\ stage'[q] \in {"signing", "waiting"}
                    => i = at[q] /\ stage[q] \in {"signing", "waiting"}
    BY <2>3, <2>4
  <2> QED BY <2>2, <2>5, QuietNonce
<1>6. ASSUME NEW s \in Sends, NodeRefuses(s) \/ NodeAdmits(s) \/ NodeCommits(s)
      PROVE  NonceInv'
  <2>1. \E v : verdict' = [verdict EXCEPT ![s] = v]
    BY <1>6 DEF NodeRefuses, NodeAdmits, NodeCommits
  <2>2. /\ s \in net \/ verdict[s] # "none"
        /\ net' \subseteq net
        /\ \A t : t # s => verdict'[t] = verdict[t]
    BY <1>6, <2>1 DEF NodeRefuses, NodeAdmits, NodeCommits, TypeOK
  <2> QED BY <1>6, <2>2, QuietNonce DEF NodeRefuses, NodeAdmits, NodeCommits, callVars
<1>7. CASE UNCHANGED vars
  BY <1>7, QuietNonce DEF vars, callVars, nodeVars
<1> QED BY <1>1, <1>2, <1>3, <1>4, <1>5, <1>6, <1>7 DEF Next, Call

-----------------------------------------------------------------------------
(* Dropped for a nonce.                                                    *)

\* A step keeps the nonces taken and the actions committed.
LEMMA Kept ==
  ASSUME TypeOK, [Next]_vars
  PROVE  /\ \A s \in Sends : nonce[s] # 0 => nonce'[s] = nonce[s]
         /\ Committed \subseteq Committed'
<1>1. CASE UNCHANGED <<nonce, log>>
  BY <1>1 DEF Committed
<1>2. ASSUME NEW r \in Requests, TakeNonce(r)
      PROVE  /\ \A s \in Sends : nonce[s] # 0 => nonce'[s] = nonce[s]
             /\ UNCHANGED log
  BY <1>2 DEF TakeNonce, Nonces!Issue, TypeOK, nodeVars
<1>3. ASSUME NEW s \in Sends, NodeCommits(s)
      PROVE  UNCHANGED nonce /\ Committed \subseteq Committed'
  <2>1. UNCHANGED nonce /\ (log' = log \/ log' = Append(log, s))
    BY <1>3 DEF NodeCommits, nonceVars
  <2> QED BY <2>1, LogAppend DEF TypeOK, Committed
<1>4. ASSUME NEW r \in Requests, Call(r), ~TakeNonce(r) PROVE UNCHANGED <<nonce, log>>
  BY <1>4 DEF Call, Refuse, Begin, PostAction, SendFails, Answered, NoAnswer, DropCall,
              nonceVars, nodeVars
<1>5. ASSUME NEW s \in Sends, NodeRefuses(s) \/ NodeAdmits(s) PROVE UNCHANGED <<nonce, log>>
  BY <1>5 DEF NodeRefuses, NodeAdmits, nonceVars
<1>6. CASE UNCHANGED vars
  BY <1>1, <1>6 DEF vars, nonceVars, nodeVars
<1>7. UNCHANGED log => Committed \subseteq Committed'
  BY DEF Committed
<1> QED BY <1>1, <1>2, <1>3, <1>4, <1>5, <1>6, <1>7 DEF Next

\* Only a commit drops an action for its nonce.
LEMMA DroppedByCommit ==
  ASSUME TypeOK, [Next]_vars, NEW s \in Sends,
         verdict'[s] = "replayed", verdict[s] # "replayed"
  PROVE  verdict[s] = "admitted" /\ (nonce[s] \in Used \/ TooOld(nonce[s]))
<1>1. ASSUME NEW t \in Sends, NodeCommits(t)
      PROVE  verdict[s] = "admitted" /\ (nonce[s] \in Used \/ TooOld(nonce[s]))
  <2>1. t = s
    <3>1. \E v : verdict' = [verdict EXCEPT ![t] = v]
      BY <1>1 DEF NodeCommits
    <3> QED BY <3>1 DEF TypeOK
  <2>2. ASSUME ~(nonce[s] \in Used \/ TooOld(nonce[s]))
        PROVE  FALSE
    <3>1. verdict' = [verdict EXCEPT ![s] = "committed"]
      BY <1>1, <2>1, <2>2 DEF NodeCommits
    <3> QED BY <3>1 DEF TypeOK
  <2> QED BY <1>1, <2>1, <2>2 DEF NodeCommits
<1>2. ASSUME NEW t \in Sends, NodeRefuses(t) \/ NodeAdmits(t) PROVE FALSE
  BY <1>2 DEF NodeRefuses, NodeAdmits, TypeOK
<1>3. ASSUME NEW r \in Requests, Call(r) PROVE FALSE
  BY <1>3 DEF Call, Refuse, Begin, TakeNonce, PostAction, SendFails, Answered,
              NoAnswer, DropCall, nodeVars
<1>4. CASE UNCHANGED vars
  BY <1>4 DEF vars, nodeVars
<1> QED BY <1>1, <1>2, <1>3, <1>4 DEF Next

\* The committed action whose nonce drops s belongs to another call, or comes
\* after s in its own, which went on because s was answered pending.
LEMMA OvertakenByNewer ==
  ASSUME TypeOK, LoopInv, NodeInv, NonceInv, NEW r \in Requests, NEW i \in Actions(r),
         verdict[<<r, i>>] = "admitted", nonce[<<r, i>>] # Top,
         nonce[<<r, i>>] \in Used \/ TooOld(nonce[<<r, i>>])
  PROVE  \E t \in Committed : OvertakenBy(r, i, t)
<1> DEFINE s == <<r, i>>
<1>1. /\ s \in Sends /\ result[s] # "ok" /\ s \notin Committed
      /\ nonce[s] # 0 /\ nonce[s] \in Nat
  BY ActionFacts, NonceAssumption DEF NodeInv, NonceInv, TypeOK, Decided
<1>2. ASSUME NEW t \in Committed
      PROVE  t \in Sends /\ verdict[t] # "none" /\ nonce[t] # 0 /\ nonce[t] \in Nat
  <2>1. t \in Sends
    BY DEF Committed, TypeOK
  <2> QED BY <2>1, NonceAssumption DEF NodeInv, NonceInv, TypeOK
<1>3. nonce[s] \notin Used
  <2> SUFFICES ASSUME NEW t \in Committed, nonce[t] = nonce[s] PROVE FALSE
    BY DEF Used
  <2>1. t = s
    BY <1>1, <1>2 DEF NonceInv
  <2> QED BY <1>1, <1>2, <2>1
<1>4. PICK t \in Committed : nonce[s] + Window < nonce[t]
  BY <1>3 DEF TooOld, Used
<1>5. ASSUME t[1] = r PROVE t[2] > i /\ result[s] = "pending"
  <2>1. t[2] \in Actions(r) /\ t = <<r, t[2]>> /\ t[2] \in Nat /\ i \in Nat
    BY <1>2, <1>5, SendFacts, ActionFacts
  <2>2. i < t[2]
    <3> SUFFICES ASSUME ~(i < t[2]) PROVE FALSE
      OBVIOUS
    <3>1. t[2] # i
      BY <1>1, <2>1
    <3>2. nonce[t] <= nonce[s]
      BY <1>1, <2>1, <3>1 DEF NonceInv
    <3> QED BY <1>1, <1>2, <1>4, <3>2, NonceAssumption
  <2>3. result[s] \in Oks
    BY <1>2, <2>1, <2>2, AnsweredBefore
  <2> QED BY <1>1, <2>1, <2>2, <2>3 DEF Oks
<1>6. nonce[t] > nonce[s] + Window
  BY <1>1, <1>2, <1>4, NonceAssumption
<1> QED BY <1>5, <1>6 DEF OvertakenBy

LEMMA OvertakenStep ==
  TypeOK /\ LoopInv /\ NodeInv /\ NonceInv /\ OnlyOvertaken /\ [Next]_vars
    => OnlyOvertaken'
<1> SUFFICES ASSUME TypeOK, LoopInv, NodeInv, NonceInv, OnlyOvertaken, [Next]_vars,
                    NEW r \in Requests, NEW i \in Actions(r),
                    verdict'[<<r, i>>] = "replayed", nonce'[<<r, i>>] # Top
             PROVE  \E t \in Committed' : OvertakenBy(r, i, t)'
  BY DEF OnlyOvertaken
<1> DEFINE s == <<r, i>>
<1>1. s \in Sends
  BY ActionFacts
<1>2. nonce[s] # 0
  BY <1>1, DroppedByCommit DEF NonceInv
<1>3. nonce'[s] = nonce[s]
  BY <1>1, <1>2, Kept
<1>4. PICK t \in Committed : OvertakenBy(r, i, t)
  <2>1. CASE verdict[s] = "replayed"
    BY <1>3, <2>1 DEF OnlyOvertaken
  <2>2. CASE verdict[s] # "replayed"
    BY <1>1, <1>3, <2>2, DroppedByCommit, OvertakenByNewer
  <2> QED BY <2>1, <2>2
<1>5. t \in Sends /\ nonce[t] # 0
  <2>1. t \in Sends
    BY DEF Committed, TypeOK
  <2> QED BY <2>1 DEF NodeInv, NonceInv
<1>6. t \in Committed' /\ nonce'[t] = nonce[t]
  BY <1>5, Kept
<1>7. result[s] = "pending" => result'[s] = "pending"
  BY <1>1, Answers
<1> QED BY <1>3, <1>4, <1>6, <1>7 DEF OvertakenBy

-----------------------------------------------------------------------------
(* Every reachable state.                                                  *)

LEMMA PlaceInit == Init => TypeOK /\ PlaceInv
<1> SUFFICES ASSUME Init PROVE TypeOK /\ PlaceInv
  OBVIOUS
<1>1. /\ last = 0 /\ nonce = [s \in Sends |-> 0]
  BY DEF Init, Nonces!Init
<1>2. TypeOK
  BY <1>1, NonceAssumption DEF Init, TypeOK
<1>3. Committed = {}
  BY DEF Init, Committed
<1>4. LoopInv
  <2> SUFFICES ASSUME NEW r \in Requests PROVE LoopInvAt(r)
    BY DEF LoopInv
  <2>1. Actions(r) \subseteq Nat \ {0} /\ \A i \in Actions(r) : <<r, i>> \in Sends
    BY ActionFacts
  <2>2. stage[r] = "new" /\ at[r] = 0 /\ sent[r] = {} /\ notSent[r] = {}
    BY DEF Init
  <2>3. \A i \in Actions(r) : Untouched(<<r, i>>) /\ ~(i < 0) /\ i # 0
    BY <2>1 DEF Init, Untouched
  <2> QED BY <2>2, <2>3 DEF LoopInvAt, Untouched
<1>5. NodeInv
  BY <1>3 DEF Init, NodeInv
<1>6. NonceInv
  <2>1. \A r \in Requests : \A i \in Actions(r) : nonce[<<r, i>>] = 0
    BY <1>1, ActionFacts
  <2> QED BY <1>1, <2>1 DEF Init, NonceInv
<1>7. InOrder
  BY DEF Init, InOrder
<1>8. OnlyOvertaken
  BY ActionFacts DEF Init, OnlyOvertaken
<1> QED BY <1>2, <1>4, <1>5, <1>6, <1>7, <1>8 DEF PlaceInv

\* Types, what a call reports, what the node decided and the nonces of the
\* actions agree in every reachable state, for any calls, orders and window.
THEOREM Placing == Spec => [](TypeOK /\ PlaceInv)
<1>1. TypeOK /\ PlaceInv /\ [Next]_vars => TypeOK' /\ PlaceInv'
  BY PlaceType, LoopStep, NodeStep, NonceStep, OrderStep, OvertakenStep DEF PlaceInv
<1> QED BY <1>1, PlaceInit, PTL DEF Spec

\* Every request stays at a stage of its loop, and an action has one verdict and one result.
THEOREM PlaceTypes == Spec => []TypeOK
  BY Placing, PTL

\* What a placement reports as not sent never reaches the node.
THEOREM NotSentTruthful == Spec => []NotSentStaysOut
<1>1. TypeOK /\ PlaceInv => NotSentStaysOut
  <2> SUFFICES ASSUME TypeOK, LoopInv, NEW r \in Requests \ Perp, stage[r] = "done"
               PROVE  /\ sent[r] \cup notSent[r] = Indices(r)
                      /\ sent[r] \cap notSent[r] = {}
                      /\ \A i \in notSent[r] : <<r, i>> \notin net /\ verdict[<<r, i>>] = "none"
    BY DEF PlaceInv, NotSentStaysOut
  <2>1. /\ Actions(r) = Indices(r) /\ Indices(r) = 1..Orders[r] /\ Orders[r] \in Nat
        /\ Indices(r) \subseteq Nat
    BY ActionFacts DEF Indices
  <2>2. LoopInvAt(r)
    BY DEF LoopInv
  <2>3. at[r] \in Indices(r) /\ result[<<r, at[r]>>] \in Oks \cup {"err"}
    <3>1. at[r] \in Actions(r)
      BY <2>2 DEF LoopInvAt
    <3>2. <<r, at[r]>> \in Sends
      BY <3>1, ActionFacts
    <3> QED BY <2>1, <2>2, <3>1, <3>2 DEF LoopInvAt, TypeOK, Oks
  <2>4. sent[r] = {i \in Indices(r) : i <= at[r]}
    BY <2>1, <2>2, <2>3 DEF LoopInvAt
  <2>5. CASE result[<<r, at[r]>>] = "err"
    <3>1. notSent[r] = {i \in Indices(r) : i > at[r]}
      BY <2>2, <2>5 DEF LoopInvAt
    <3>2. \A i \in notSent[r] : Untouched(<<r, i>>)
      BY <2>1, <2>2, <3>1 DEF LoopInvAt
    <3> QED BY <2>1, <2>3, <2>4, <3>1, <3>2 DEF Untouched
  <2>6. CASE result[<<r, at[r]>>] \in Oks
    <3>1. notSent[r] = {} /\ at[r] + 1 \notin Indices(r)
      BY <2>1, <2>2, <2>6 DEF LoopInvAt
    <3>2. \A i \in Indices(r) : i <= at[r]
      BY <2>1, <2>3, <3>1
    <3> QED BY <2>4, <3>1, <3>2
  <2> QED BY <2>3, <2>5, <2>6
<1> QED BY <1>1, Placing, PTL

\* A call goes on only behind orders that were answered Ok; what is undecided then
\* is reported as pending, and nothing else lands behind its successors.
THEOREM FateKnown == Spec => []KnownBeforeNext
<1>1. TypeOK /\ PlaceInv => KnownBeforeNext
  <2> SUFFICES ASSUME TypeOK, LoopInv, NodeInv, NEW r \in Requests,
                      NEW i \in Actions(r), NEW j \in Actions(r), i < j,
                      <<r, j>> \in net \/ verdict[<<r, j>>] # "none"
               PROVE  /\ result[<<r, i>>] \in Oks
                      /\ ~Decided(<<r, i>>) => result[<<r, i>>] = "pending"
    BY DEF PlaceInv, KnownBeforeNext, AnsweredFirst
  <2>1. <<r, i>> \in Sends
    BY ActionFacts
  <2>2. ~Untouched(<<r, j>>)
    BY DEF Untouched
  <2>3. result[<<r, i>>] \in Oks
    BY <2>2, AnsweredBefore
  <2> QED BY <2>1, <2>3 DEF NodeInv, Oks
<1> QED BY <1>1, Placing, PTL

\* An order is lost to the nonce window only to other calls, or to a later order of
\* its own call while it was pending.
THEOREM DroppedOnlyOvertaken == Spec => []OnlyOvertaken
<1>1. PlaceInv => OnlyOvertaken
  BY DEF PlaceInv
<1> QED BY <1>1, Placing, PTL
=============================================================================
