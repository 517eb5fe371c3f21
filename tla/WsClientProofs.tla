--------------------------- MODULE WsClientProofs ---------------------------
(***************************************************************************)
(* Theorems about WsClient for any callers, subscriptions and posts, with  *)
(* any number of outages.                                                  *)
(***************************************************************************)
EXTENDS WsClientProperties, TLAPS, SequenceTheorems

-----------------------------------------------------------------------------
(* Commands and the sequences that carry them.                             *)

LEMMA CommandKinds ==
  /\ \A p, q \in Posts : Post(p) = Post(q) => p = q
  /\ \A p, q \in Posts : CancelPost(p) = CancelPost(q) => p = q
  /\ \A p, q \in Posts : Post(p) # CancelPost(q)
  /\ \A p \in Posts : /\ Post(p) \notin SubCommands /\ Post(p) # Shutdown
                      /\ CancelPost(p) \notin SubCommands
                      /\ CancelPost(p) # Shutdown
BY DEF Post, CancelPost, SubCommands, Subscribe, Unsubscribe, Shutdown

\* The post that a command sends or evicts, if any.
Sends(e) == {p \in Posts : e = Post(p)}
Evicts(e) == {p \in Posts : e = CancelPost(p)}

LEMMA CommandSets ==
  /\ \A e \in SubCommands \cup {Shutdown} : Sends(e) = {} /\ Evicts(e) = {}
  /\ \A p \in Posts : Sends(Post(p)) = {p} /\ Evicts(Post(p)) = {}
  /\ \A p \in Posts : Sends(CancelPost(p)) = {} /\ Evicts(CancelPost(p)) = {p}
BY CommandKinds DEF Sends, Evicts

LEMMA AppendIn ==
  ASSUME NEW S, NEW q \in Seq(S), NEW e \in S
  PROVE  /\ PostsIn(Append(q, e)) = PostsIn(q) \cup Sends(e)
         /\ CancelsIn(Append(q, e)) = CancelsIn(q) \cup Evicts(e)
<1>1. /\ DOMAIN Append(q, e) = (DOMAIN q) \cup {Len(q) + 1}
      /\ \A i \in DOMAIN q : Append(q, e)[i] = q[i]
      /\ Append(q, e)[Len(q) + 1] = e
  OBVIOUS
<1>2. QED BY <1>1 DEF PostsIn, CancelsIn, Sends, Evicts

LEMMA TailIn ==
  ASSUME NEW S, NEW q \in Seq(S), q # <<>>
  PROVE  /\ PostsIn(q) = PostsIn(Tail(q)) \cup Sends(Head(q))
         /\ CancelsIn(q) = CancelsIn(Tail(q)) \cup Evicts(Head(q))
<1>1. /\ \A i \in DOMAIN q : i = 1 \/ i - 1 \in DOMAIN Tail(q)
      /\ \A i \in DOMAIN Tail(q) : i + 1 \in DOMAIN q /\ Tail(q)[i] = q[i + 1]
      /\ 1 \in DOMAIN q /\ q[1] = Head(q)
      /\ DOMAIN q \subseteq Int
  OBVIOUS
<1>2. \A i \in DOMAIN q : i = 1 \/ (i - 1 \in DOMAIN Tail(q) /\ Tail(q)[i - 1] = q[i])
  BY <1>1
<1>3. QED BY <1>1, <1>2 DEF PostsIn, CancelsIn, Sends, Evicts

LEMMA EmptyIn == PostsIn(<<>>) = {} /\ CancelsIn(<<>>) = {}
BY DEF PostsIn, CancelsIn

-----------------------------------------------------------------------------
(* Types.                                                                  *)

\* One step per action: each leaves every variable in its range.
LEMMA TypeStep == TypeOK /\ [Next]_vars => TypeOK'
<1> SUFFICES ASSUME TypeOK, [Next]_vars PROVE TypeOK'
  OBVIOUS
<1> USE DEF TypeOK, vars, callVars, postVars, lifeVars, dialVars, nodeVars
<1>a. /\ SubCommands \subseteq Commands /\ Frames \subseteq Commands
      /\ SubCommands \subseteq Frames /\ Shutdown \in Commands
      /\ \A p \in Posts : /\ Post(p) \in Commands /\ Post(p) \in Frames
                          /\ CancelPost(p) \in Commands
      /\ \A s \in Subs : Subscribe(s) \in SubCommands /\ Unsubscribe(s) \in SubCommands
  BY DEF Commands, SubCommands, Frames
<1>b. \A cmd \in SubCommands : cmd.s \in Subs
  BY DEF SubCommands, Subscribe, Unsubscribe
<1>1. ASSUME NEW c \in Callers, NEW s \in Manages[c],
             Register(c, Subscribe(s)) \/ Register(c, Unsubscribe(s))
      PROVE  TypeOK'
  <2>1. s \in Subs
    BY SubsAssumption
  <2>2. PICK cmd \in SubCommands : cmd.s = s /\ Register(c, cmd)
    BY <1>1, <1>a, <2>1 DEF Subscribe, Unsubscribe
  <2>3. active' \subseteq Subs
    BY <2>1, <2>2 DEF Register, Registered
  <2>4. QED BY <2>2, <2>3 DEF Register
<1>2. ASSUME NEW c \in Callers, SendSub(c) PROVE TypeOK'
  <2>0. PICK cmd \in SubCommands : pc[c] = <<cmd>>
    BY <1>2 DEF SendSub
  <2>1. pc[c] \in Seq(Commands)
    BY <2>0, <1>a
  <2>2. queue' \in Seq(Commands)
    BY <1>2, <2>1 DEF SendSub
  <2>3. QED BY <1>2, <2>2 DEF SendSub
<1>3. ASSUME NEW p \in Posts, TakeId(p) PROVE TypeOK'
  BY <1>3 DEF TakeId
<1>4. ASSUME NEW p \in Posts, SendPost(p) PROVE TypeOK'
  <2>1. CASE QueueOpen
    <3>1. queue' = Append(queue, Post(p)) /\ Post(p) \in Commands
      BY <1>4, <2>1, <1>a DEF SendPost
    <3>2. queue' \in Seq(Commands)
      BY <3>1
    <3>3. QED BY <1>4, <2>1, <3>2 DEF SendPost
  <2>2. CASE ~QueueOpen
    BY <1>4, <2>2 DEF SendPost
  <2>3. QED BY <2>1, <2>2
<1>5. ASSUME NEW p \in Posts, TakeReply(p) PROVE TypeOK'
  BY <1>5 DEF TakeReply
<1>6. ASSUME NEW p \in Posts, Timeout(p) PROVE TypeOK'
  BY <1>6 DEF Timeout
<1>7. ASSUME NEW p \in Posts, SendCancel(p) PROVE TypeOK'
  BY <1>7, <1>a DEF SendCancel
<1>8. ASSUME NEW p \in Posts, Abandon(p) PROVE TypeOK'
  BY <1>8 DEF Abandon
<1>9. ASSUME SendShutdown PROVE TypeOK'
  BY <1>9, <1>a DEF SendShutdown
<1>10. ASSUME ClearAlive \/ DropLastClone PROVE TypeOK'
  BY <1>10 DEF ClearAlive, DropLastClone
<1>11. ASSUME Connect \/ ConnectFails \/ Wake \/ StartLoop PROVE TypeOK'
  <2>1. CASE Connect
    BY <2>1 DEF Connect, OfferAfterDial
  <2>2. CASE ConnectFails
    BY <2>2 DEF ConnectFails, OfferAfterDial
  <2>3. CASE Wake
    BY <2>3, BoundsAssumption DEF Wake
  <2>4. CASE StartLoop
    BY <2>4 DEF StartLoop
  <2>5. QED BY <1>11, <2>1, <2>2, <2>3, <2>4
<1>c. \A set : Dropped(set) \in
                 [Posts -> {"none", "open", "value", "dropped", "gone"}]
  BY DEF Dropped
<1>d. /\ PostsIn(wire) \subseteq Posts
      /\ \A e : PostsIn(<<e>>) \subseteq Posts
      /\ \A p : SameId(p) \subseteq Posts
  BY DEF PostsIn, SameId
<1>e. queue # <<>> => Head(queue) \in Commands /\ Tail(queue) \in Seq(Commands)
  OBVIOUS
<1>f. wire # <<>> => Head(wire) \in Frames /\ Tail(wire) \in Seq(Frames)
  OBVIOUS
<1>12. ASSUME LoseConnection PROVE TypeOK'
  BY <1>12, <1>c, <1>d DEF LoseConnection, EndConnection
<1>13. ASSUME HandleSub PROVE TypeOK'
  BY <1>13, <1>a, <1>e DEF HandleSub
<1>14. ASSUME SendFails PROVE TypeOK'
  BY <1>14, <1>c, <1>d, <1>e DEF SendFails, EndConnection
<1>15. ASSUME Stop PROVE TypeOK'
  <2>1. queue' \in Seq(Commands)
    BY <1>15, <1>e DEF Stop
  <2>2. wire' = <<>> /\ <<>> \in Seq(Frames)
    BY <1>15 DEF Stop, EndConnection
  <2>3. QED BY <1>15, <2>1, <2>2, <1>c, <1>d DEF Stop, EndConnection
<1>16. ASSUME Exit PROVE TypeOK'
  <2>1. queue' = <<>> /\ <<>> \in Seq(Commands)
    BY <1>16 DEF Exit
  <2>2. QED BY <1>16, <2>1, <1>c DEF Exit
<1>17. ASSUME NEW s \in Subs, Replay(s) PROVE TypeOK'
  BY <1>17, <1>a DEF Replay
<1>18. ASSUME NEW p \in Posts, HandlePost(p) PROVE TypeOK'
  BY <1>18, <1>a, <1>c, <1>d, <1>e DEF HandlePost
<1>19. ASSUME NEW p \in Posts, HandleCancel(p) PROVE TypeOK'
  BY <1>19, <1>c, <1>d, <1>e DEF HandleCancel
<1>20. ASSUME NEW p \in Posts, Reply(p) PROVE TypeOK'
  <2>1. /\ got' \in [Posts -> SUBSET Posts]
        /\ oneshot' \in [Posts -> {"none", "open", "value", "dropped", "gone"}]
    BY <1>20 DEF Reply
  <2>2. QED BY <1>20, <2>1, <1>d DEF Reply
<1>21. ASSUME NodeReadsSub PROVE TypeOK'
  BY <1>21, <1>b, <1>f DEF NodeReadsSub, Served
<1>22. ASSUME NEW p \in Posts, NodeReadsPost(p) PROVE TypeOK'
  BY <1>22, <1>f DEF NodeReadsPost
<1>23. ASSUME NEW p \in Posts, NodeReadsStray(p) PROVE TypeOK'
  BY <1>23 DEF NodeReadsStray
<1>24. ASSUME UNCHANGED vars PROVE TypeOK'
  BY <1>24
<1>25. QED
  BY <1>1, <1>2, <1>3, <1>4, <1>5, <1>6, <1>7, <1>8, <1>9, <1>10, <1>11, <1>12,
     <1>13, <1>14, <1>15, <1>16, <1>17, <1>18, <1>19, <1>20, <1>21, <1>22,
     <1>23, <1>24 DEF Next, Calls, Task, Node

\* Every variable of the client keeps its type, whatever the callers, the
\* network and the node do.
THEOREM TypeCorrect == Spec => []TypeOK
<1>1. Init => TypeOK
  BY BoundsAssumption DEF Init, TypeOK
<1>2. QED BY <1>1, TypeStep, PTL DEF Spec

-----------------------------------------------------------------------------
(* Subscriptions.                                                          *)

LEMMA SlotSymmetric == \A s, t : s \in Slot(t) => t \in Slot(s)
  BY DEF Slot

LEMMA OwnSlot == \A s : s \in Slot(s)
  BY DEF Slot

LEMMA OneViewStep == OneViewPerCoin /\ [Next]_vars => OneViewPerCoin'
<1> SUFFICES ASSUME OneViewPerCoin, [Next]_vars PROVE OneViewPerCoin'
  OBVIOUS
<1>1. ASSUME NEW c \in Callers, NEW cmd, Register(c, cmd) PROVE OneViewPerCoin'
  <2> SUFFICES ASSUME NEW s \in active', NEW t \in active', s \in Slot(t) PROVE s = t
    BY DEF OneViewPerCoin
  <2>1. active' \subseteq (active \ Slot(cmd.s)) \cup {cmd.s}
    BY <1>1 DEF Register, Registered
  <2>2. CASE s \in active \ Slot(cmd.s) /\ t \in active \ Slot(cmd.s)
    BY <2>2 DEF OneViewPerCoin
  <2>3. CASE s = cmd.s \/ t = cmd.s
    BY <2>1, <2>3, SlotSymmetric
  <2> QED BY <2>1, <2>2, <2>3
<1>2. CASE active' = active
  BY <1>2 DEF OneViewPerCoin
<1>3. ASSUME NEW c \in Callers, SendSub(c) PROVE active' = active
  BY <1>3 DEF SendSub
<1>4. ASSUME NEW p \in Posts,
             TakeId(p) \/ SendPost(p) \/ TakeReply(p) \/ Timeout(p) \/ SendCancel(p) \/ Abandon(p)
      PROVE  active' = active
  BY <1>4 DEF TakeId, SendPost, TakeReply, Timeout, SendCancel, Abandon, callVars
<1>5. CASE SendShutdown \/ ClearAlive \/ DropLastClone
  BY <1>2, <1>5 DEF SendShutdown, ClearAlive, DropLastClone, callVars
<1>6. CASE Task \/ Node
  BY <1>2, <1>6 DEF Task, Node, Connect, ConnectFails, Wake, StartLoop, LoseConnection, HandleSub,
     SendFails, Stop, Exit, Replay, HandlePost, HandleCancel, Reply, NodeReadsSub, NodeReadsPost,
     NodeReadsStray, callVars
<1>7. CASE UNCHANGED vars
  BY <1>2, <1>7 DEF vars, callVars
<1> QED BY <1>1, <1>2, <1>3, <1>4, <1>5, <1>6, <1>7 DEF Next, Calls

\* The active set never holds two views of one book, so no replay can bring back
\* stale parameters.
THEOREM OneBookPerCoin == Spec => []OneViewPerCoin
<1>1. Init => OneViewPerCoin
  BY DEF Init, OneViewPerCoin
<1> QED BY <1>1, OneViewStep, PTL DEF Spec
-----------------------------------------------------------------------------
(* Why the node ends up serving the active set, for callers that manage    *)
(* different slots.  What decides is the last command about a slot: the    *)
(* one a caller has in hand, else the last in the queue, else the last     *)
(* that is on the wire or still to be replayed, else what the node serves. *)

DisjointCallers ==
  \A c, d \in Callers : c # d => \A s \in Manages[c], t \in Manages[d] : s \notin Slot(t)

Touches(cmd, s) == cmd \in SubCommands /\ s \in Slot(cmd.s)
\* No command of the sequence is about the slot of s; the last of them subscribes s.
Untouched(q, s) == \A i \in DOMAIN q : ~Touches(q[i], s)
EndsIn(q, s) == \E i \in DOMAIN q : /\ q[i] = Subscribe(s)
                                    /\ \A j \in DOMAIN q : j > i => ~Touches(q[j], s)

Calling(s) == \E c \in Callers : \E cmd \in SubCommands : pc[c] = <<cmd>> /\ Touches(cmd, s)
OnLink(s) == s \in replay \/ EndsIn(wire, s) \/ (Untouched(wire, s) /\ s \in view)

\* A call in hand is about a subscription that its caller manages.
InHand == \A c \in Callers : \/ pc[c] = <<>>
                             \/ \E cmd \in SubCommands : pc[c] = <<cmd>> /\ cmd.s \in Manages[c]
CallsAgree == \A c \in Callers, cmd \in SubCommands, s \in Subs :
                pc[c] = <<cmd>> /\ Touches(cmd, s) => (s \in active <=> cmd = Subscribe(s))
QueueAgrees == QueueOpen => \A s \in Subs :
                 ~Calling(s) /\ ~Untouched(queue, s) => (s \in active <=> EndsIn(queue, s))
LinkAgrees == Connected => \A s \in Subs :
                ~Calling(s) /\ Untouched(queue, s) => (s \in active <=> OnLink(s))
\* What is still to be replayed is in nobody's way; a connection that is gone left nothing.
ReplayClear == /\ ~Connected => wire = <<>> /\ view = {}
               /\ phase = "up" => replay = {}
               /\ \A s, t \in replay : s \in Slot(t) => s = t
               /\ Connected => \A s \in replay : \A t \in Slot(s) : Untouched(wire, t) /\ t \notin view
SubInv == InHand /\ CallsAgree /\ QueueAgrees /\ LinkAgrees /\ ReplayClear

LEMMA Touching ==
  /\ \A s, t, x : s \in Slot(x) /\ t \in Slot(x) => s \in Slot(t)
  /\ \A s \in Subs : Touches(Subscribe(s), s)
  /\ \A s \in Subs, cmd \in SubCommands : cmd = Subscribe(s) <=> cmd.op = "subscribe" /\ cmd.s = s
  /\ \A cmd \in SubCommands : cmd.s \in Subs
<1>1. \A s, t, x : s \in Slot(x) /\ t \in Slot(x) => s \in Slot(t)
  BY DEF Slot
<1>2. \A s \in Subs : Touches(Subscribe(s), s)
  BY OwnSlot DEF Touches, SubCommands, Subscribe
<1>3. \A s \in Subs, cmd \in SubCommands : cmd = Subscribe(s) <=> cmd.op = "subscribe" /\ cmd.s = s
  BY DEF SubCommands, Subscribe, Unsubscribe
<1>4. \A cmd \in SubCommands : cmd.s \in Subs
  BY DEF SubCommands, Subscribe, Unsubscribe
<1> QED BY <1>1, <1>2, <1>3, <1>4

LEMMA SlotSubs == \A s \in Subs : Slot(s) \subseteq Subs
  BY SubsAssumption DEF Slot

\* What a command about the slot of s does to it, in either table.
LEMMA Edited ==
  ASSUME NEW set, NEW cmd \in SubCommands, NEW s \in Subs
  PROVE  /\ Touches(cmd, s) => (s \in Registered(set, cmd) <=> cmd = Subscribe(s))
         /\ ~Touches(cmd, s) => (s \in Registered(set, cmd) <=> s \in set)
         /\ Touches(cmd, s) => (s \in Served(set, cmd) <=> cmd = Subscribe(s))
         /\ ~Touches(cmd, s) => (s \in Served(set, cmd) <=> s \in set)
  BY Touching, OwnSlot DEF Touches, Registered, Served

LEMMA Appended ==
  ASSUME NEW S, NEW q \in Seq(S), NEW e \in S, NEW s \in Subs
  PROVE  /\ Untouched(Append(q, e), s) <=> Untouched(q, s) /\ ~Touches(e, s)
         /\ Touches(e, s) => (EndsIn(Append(q, e), s) <=> e = Subscribe(s))
         /\ ~Touches(e, s) => (EndsIn(Append(q, e), s) <=> EndsIn(q, s))
<1> DEFINE t == Append(q, e)
<1>1. /\ DOMAIN t = 1 .. Len(q) + 1 /\ DOMAIN q = 1 .. Len(q) /\ Len(q) \in Nat
      /\ \A i \in 1 .. Len(q) : t[i] = q[i]
      /\ t[Len(q) + 1] = e
  OBVIOUS
<1> HIDE DEF t
<1>2. Untouched(t, s) <=> Untouched(q, s) /\ ~Touches(e, s)
  BY <1>1 DEF Untouched
<1>3. Touches(e, s) => (EndsIn(t, s) <=> e = Subscribe(s))
  BY <1>1 DEF EndsIn
<1>4. ASSUME ~Touches(e, s) PROVE EndsIn(t, s) <=> EndsIn(q, s)
  <2>1. e # Subscribe(s)
    BY <1>4, Touching
  <2>2. ASSUME EndsIn(t, s) PROVE EndsIn(q, s)
    <3>1. PICK i \in DOMAIN t : t[i] = Subscribe(s) /\ \A j \in DOMAIN t : j > i => ~Touches(t[j], s)
      BY <2>2 DEF EndsIn
    <3>2. i \in 1 .. Len(q)
      BY <1>1, <2>1, <3>1
    <3> QED BY <1>1, <3>1, <3>2 DEF EndsIn
  <2>3. ASSUME EndsIn(q, s) PROVE EndsIn(t, s)
    <3>1. PICK i \in DOMAIN q : q[i] = Subscribe(s) /\ \A j \in DOMAIN q : j > i => ~Touches(q[j], s)
      BY <2>3 DEF EndsIn
    <3> QED BY <1>1, <1>4, <3>1 DEF EndsIn
  <2> QED BY <2>2, <2>3
<1> QED BY <1>2, <1>3, <1>4 DEF t

LEMMA Taken ==
  ASSUME NEW S, NEW q \in Seq(S), q # <<>>, NEW s \in Subs
  PROVE  /\ Untouched(q, s) <=> Untouched(Tail(q), s) /\ ~Touches(Head(q), s)
         /\ ~Untouched(Tail(q), s) => (EndsIn(q, s) <=> EndsIn(Tail(q), s))
         /\ Untouched(Tail(q), s) /\ Touches(Head(q), s) => (EndsIn(q, s) <=> Head(q) = Subscribe(s))
<1> DEFINE t == Tail(q)
<1>1. /\ DOMAIN t = 1 .. Len(q) - 1 /\ DOMAIN q = 1 .. Len(q) /\ Len(q) \in Nat \ {0}
      /\ \A i \in 1 .. Len(q) - 1 : t[i] = q[i + 1]
      /\ q[1] = Head(q)
  OBVIOUS
<1>2. /\ \A i \in DOMAIN q : i = 1 \/ (i - 1 \in DOMAIN t /\ t[i - 1] = q[i])
      /\ \A i \in DOMAIN t : i + 1 \in DOMAIN q /\ t[i] = q[i + 1]
      /\ 1 \in DOMAIN q
  BY <1>1
<1> HIDE DEF t
<1>3. Untouched(q, s) <=> Untouched(t, s) /\ ~Touches(Head(q), s)
  BY <1>1, <1>2 DEF Untouched
<1>4. ASSUME EndsIn(q, s), ~Untouched(t, s) PROVE EndsIn(t, s)
  <2>1. PICK i \in DOMAIN q : q[i] = Subscribe(s) /\ \A j \in DOMAIN q : j > i => ~Touches(q[j], s)
    BY <1>4 DEF EndsIn
  <2>2. PICK k \in DOMAIN t : Touches(t[k], s)
    BY <1>4 DEF Untouched
  <2>3. i # 1
    BY <1>1, <2>1, <2>2
  <2>4. i - 1 \in DOMAIN t /\ t[i - 1] = Subscribe(s)
    BY <1>2, <2>1, <2>3
  <2>5. \A j \in DOMAIN t : j > i - 1 => ~Touches(t[j], s)
    BY <1>1, <2>1
  <2> QED BY <2>4, <2>5 DEF EndsIn
<1>5. ASSUME EndsIn(t, s) PROVE EndsIn(q, s)
  <2>1. PICK i \in DOMAIN t : t[i] = Subscribe(s) /\ \A j \in DOMAIN t : j > i => ~Touches(t[j], s)
    BY <1>5 DEF EndsIn
  <2>2. i + 1 \in DOMAIN q /\ q[i + 1] = Subscribe(s)
    BY <1>1, <2>1
  <2>3. ASSUME NEW j \in DOMAIN q, j > i + 1 PROVE ~Touches(q[j], s)
    BY <1>1, <1>2, <2>1, <2>3
  <2> QED BY <2>2, <2>3 DEF EndsIn
<1>6. ASSUME Untouched(t, s), Touches(Head(q), s) PROVE EndsIn(q, s) <=> Head(q) = Subscribe(s)
  <2>1. ASSUME EndsIn(q, s) PROVE Head(q) = Subscribe(s)
    <3>1. PICK i \in DOMAIN q : q[i] = Subscribe(s)
      BY <2>1 DEF EndsIn
    <3>2. i = 1
      BY <1>2, <1>6, <3>1, Touching DEF Untouched
    <3> QED BY <1>1, <3>1, <3>2
  <2>2. ASSUME Head(q) = Subscribe(s) PROVE EndsIn(q, s)
    <3>1. \A j \in DOMAIN q : j > 1 => ~Touches(q[j], s)
      BY <1>1, <1>2, <1>6 DEF Untouched
    <3> QED BY <1>1, <2>2, <3>1 DEF EndsIn
  <2> QED BY <2>1, <2>2
<1> QED BY <1>3, <1>4, <1>5, <1>6 DEF t

LEMMA UntouchedEnds == \A q : \A s \in Subs : Untouched(q, s) => ~EndsIn(q, s)
  BY Touching DEF Untouched, EndsIn

LEMMA OtherCommands ==
  /\ \A p \in Posts : \A s : ~Touches(Post(p), s) /\ ~Touches(CancelPost(p), s)
  /\ \A s : ~Touches(Shutdown, s)
  BY CommandKinds DEF Touches, SubCommands, Subscribe, Unsubscribe, Shutdown

-----------------------------------------------------------------------------
(* The steps.                                                              *)

LEMMA Single ==
  /\ \A x, y : <<x>> = <<y>> => x = y
  /\ \A x : <<x>> # <<>>
  OBVIOUS

LEMMA AppendSingle ==
  ASSUME NEW S, NEW q \in Seq(S), NEW e \in S PROVE q \o <<e>> = Append(q, e)
  OBVIOUS

LEMMA Quiet ==
  ASSUME SubInv, UNCHANGED <<pc, active, queue, phase, replay, wire, view>>
  PROVE  SubInv'
  BY DEF SubInv, InHand, CallsAgree, QueueAgrees, LinkAgrees, ReplayClear, Calling, OnLink,
     QueueOpen, Connected

\* A command that is about no subscription enters the queue.
LEMMA OthersQueued ==
  ASSUME TypeOK, SubInv, NEW e \in Commands, \A s \in Subs : ~Touches(e, s),
         queue' = Append(queue, e), UNCHANGED <<pc, active, phase, replay, wire, view>>
  PROVE  SubInv'
<1>1. \A s \in Subs : /\ Untouched(queue', s) <=> Untouched(queue, s)
                      /\ EndsIn(queue', s) <=> EndsIn(queue, s)
  BY Appended DEF TypeOK
<1>2. \A s \in Subs : Calling(s)' <=> Calling(s)
  BY DEF Calling
<1>3. \A s \in Subs : OnLink(s)' <=> OnLink(s)
  BY DEF OnLink
<1>4. InHand' /\ CallsAgree' /\ ReplayClear'
  BY DEF SubInv, InHand, CallsAgree, ReplayClear, Connected
<1>5. QueueAgrees'
  BY <1>1, <1>2 DEF SubInv, QueueAgrees, QueueOpen
<1>6. LinkAgrees'
  BY <1>1, <1>2, <1>3 DEF SubInv, LinkAgrees, Connected
<1> QED BY <1>4, <1>5, <1>6 DEF SubInv

\* One that is about no subscription leaves the queue, and may be written.
LEMMA OthersHandled ==
  ASSUME TypeOK, SubInv, phase = "up", queue # <<>>, \A s \in Subs : ~Touches(Head(queue), s),
         queue' = Tail(queue), UNCHANGED <<pc, active, phase, replay, view>>,
         wire' = wire \/ (wire' = Append(wire, Head(queue)) /\ Head(queue) \in Frames)
  PROVE  SubInv'
<1>1. \A s \in Subs : /\ Untouched(queue', s) <=> Untouched(queue, s)
                      /\ ~Untouched(queue', s) => (EndsIn(queue', s) <=> EndsIn(queue, s))
  BY Taken DEF TypeOK
<1>2. \A s \in Subs : Calling(s)' <=> Calling(s)
  BY DEF Calling
<1>3. \A s \in Subs : (Untouched(wire', s) <=> Untouched(wire, s)) /\ (EndsIn(wire', s) <=> EndsIn(wire, s))
  <2>1. CASE wire' = wire
    BY <2>1
  <2>2. CASE wire' = Append(wire, Head(queue)) /\ Head(queue) \in Frames
    <3>1. wire \in Seq(Frames)
      BY DEF TypeOK
    <3> QED BY <2>2, <3>1, Appended
  <2> QED BY <2>1, <2>2
<1>4. \A s \in Subs : OnLink(s)' <=> OnLink(s)
  BY <1>3 DEF OnLink
<1>5. InHand' /\ CallsAgree'
  BY DEF SubInv, InHand, CallsAgree
<1>6. QueueAgrees'
  BY <1>1, <1>2 DEF SubInv, QueueAgrees, QueueOpen
<1>7. LinkAgrees'
  BY <1>1, <1>2, <1>4 DEF SubInv, LinkAgrees, Connected
<1>8. ReplayClear'
  BY DEF SubInv, ReplayClear, Connected
<1> QED BY <1>5, <1>6, <1>7, <1>8 DEF SubInv

\* The connection ends, with the command in hand if there is one.
LEMMA Ended ==
  ASSUME TypeOK, SubInv, UNCHANGED <<pc, active>>, phase' \in {"sleeping", "stopping"},
         wire' = <<>>, view' = {}, replay' = {},
         queue' = queue \/ (queue # <<>> /\ queue' = Tail(queue)), QueueOpen
  PROVE  SubInv'
<1>1. \A s \in Subs : ~Untouched(queue', s) =>
        ~Untouched(queue, s) /\ (EndsIn(queue', s) <=> EndsIn(queue, s))
  BY Taken DEF TypeOK
<1>2. \A s \in Subs : Calling(s)' <=> Calling(s)
  BY DEF Calling
<1>3. InHand' /\ CallsAgree' /\ ReplayClear' /\ LinkAgrees'
  BY DEF SubInv, InHand, CallsAgree, ReplayClear, LinkAgrees, Connected
<1>4. QueueAgrees'
  BY <1>1, <1>2 DEF SubInv, QueueAgrees
<1> QED BY <1>3, <1>4 DEF SubInv

\* A call edits the active set, and has its command in hand.
LEMMA RegisterAgrees ==
  ASSUME DisjointCallers, TypeOK, SubInv, NEW c \in Callers, NEW x \in Manages[c],
         NEW cmd \in {Subscribe(x), Unsubscribe(x)}, Register(c, cmd)
  PROVE  SubInv'
<1>1. cmd \in SubCommands /\ cmd.s = x /\ x \in Subs
  BY SubsAssumption DEF SubCommands, Subscribe, Unsubscribe
<1>2. /\ pc[c] = <<>> /\ pc' = [pc EXCEPT ![c] = <<cmd>>] /\ active' = Registered(active, cmd)
      /\ UNCHANGED <<queue, phase, replay, wire, view>>
  BY DEF Register, nodeVars
<1>3. pc'[c] = <<cmd>> /\ \A d \in Callers \ {c} : pc'[d] = pc[d]
  BY <1>2 DEF TypeOK
<1>4. \A s \in Subs : /\ Touches(cmd, s) => (s \in active' <=> cmd = Subscribe(s))
                      /\ ~Touches(cmd, s) => (s \in active' <=> s \in active)
  BY <1>1, <1>2, Edited
<1>5. \A s \in Subs : ~Calling(s)' => ~Touches(cmd, s) /\ ~Calling(s)
  <2> SUFFICES ASSUME NEW s \in Subs, Touches(cmd, s) \/ Calling(s) PROVE Calling(s)'
    OBVIOUS
  <2>1. CASE Touches(cmd, s)
    BY <1>1, <1>3, <2>1 DEF Calling
  <2>2. CASE Calling(s)
    <3>1. PICK d \in Callers : \E g \in SubCommands : pc[d] = <<g>> /\ Touches(g, s)
      BY <2>2 DEF Calling
    <3>2. d # c
      BY <1>2, <3>1, Single
    <3> QED BY <1>3, <3>1, <3>2 DEF Calling
  <2> QED BY <2>1, <2>2
<1>6. InHand'
  BY <1>1, <1>3 DEF SubInv, InHand
<1>7. CallsAgree'
  <2> SUFFICES ASSUME NEW d \in Callers, NEW g \in SubCommands, NEW s \in Subs,
                      pc'[d] = <<g>>, Touches(g, s)
               PROVE  s \in active' <=> g = Subscribe(s)
    BY DEF CallsAgree
  <2>1. CASE d = c
    <3>1. g = cmd
      BY <1>3, <2>1
    <3> QED BY <1>4, <3>1
  <2>2. CASE d # c
    <3>1. pc[d] = <<g>> /\ g.s \in Manages[d]
      BY <1>3, <2>2, Single DEF SubInv, InHand
    <3>2. g.s \notin Slot(x)
      BY <2>2, <3>1 DEF DisjointCallers
    <3>3. ~Touches(cmd, s)
      BY <1>1, <3>2, Touching, SlotSymmetric DEF Touches
    <3> QED BY <1>4, <3>1, <3>3 DEF SubInv, CallsAgree
  <2> QED BY <2>1, <2>2
<1>8. QueueAgrees'
  BY <1>2, <1>4, <1>5 DEF SubInv, QueueAgrees, QueueOpen
<1>9. \A s \in Subs : OnLink(s)' <=> OnLink(s)
  BY <1>2 DEF OnLink
<1>10. LinkAgrees'
  BY <1>2, <1>4, <1>5, <1>9 DEF SubInv, LinkAgrees, Connected
<1>11. ReplayClear'
  BY <1>2 DEF SubInv, ReplayClear, Connected
<1> QED BY <1>6, <1>7, <1>8, <1>10, <1>11 DEF SubInv

\* The command in hand becomes the last of the queue.
LEMMA SendAgrees ==
  ASSUME DisjointCallers, TypeOK, SubInv, NEW c \in Callers, SendSub(c)
  PROVE  SubInv'
<1>1. PICK cmd \in SubCommands : pc[c] = <<cmd>> /\ cmd.s \in Manages[c]
  BY DEF SendSub, SubInv, InHand
<1>2. cmd \in Commands /\ queue \in Seq(Commands)
  BY DEF Commands, TypeOK
<1>3. queue' = IF QueueOpen THEN Append(queue, cmd) ELSE queue
  BY <1>1, <1>2, AppendSingle DEF SendSub
<1>4. /\ pc'[c] = <<>> /\ \A d \in Callers \ {c} : pc'[d] = pc[d]
      /\ UNCHANGED <<active, phase, replay, wire, view>>
  BY DEF SendSub, nodeVars, TypeOK
<1>5. \A s \in Subs : ~Calling(s)' /\ ~Touches(cmd, s) => ~Calling(s)
  <2> SUFFICES ASSUME NEW s \in Subs, Calling(s), ~Touches(cmd, s) PROVE Calling(s)'
    OBVIOUS
  <2>1. PICK d \in Callers : \E g \in SubCommands : pc[d] = <<g>> /\ Touches(g, s)
    BY DEF Calling
  <2>2. d # c
    BY <1>1, <2>1
  <2> QED BY <1>4, <2>1, <2>2 DEF Calling
<1>6. InHand' /\ CallsAgree' /\ ReplayClear'
  BY <1>4 DEF SubInv, InHand, CallsAgree, ReplayClear, Connected
<1>7. \A s \in Subs : Touches(cmd, s) => (s \in active <=> cmd = Subscribe(s))
  BY <1>1 DEF SubInv, CallsAgree
<1>8. QueueAgrees'
  <2> SUFFICES ASSUME QueueOpen, NEW s \in Subs, ~Calling(s)', ~Untouched(queue', s)
               PROVE  s \in active <=> EndsIn(queue', s)
    BY <1>4 DEF QueueAgrees, QueueOpen
  <2>1. CASE Touches(cmd, s)
    BY <1>2, <1>3, <1>7, <2>1, Appended
  <2>2. CASE ~Touches(cmd, s)
    BY <1>2, <1>3, <1>5, <2>2, Appended DEF SubInv, QueueAgrees
  <2> QED BY <2>1, <2>2
<1>9. LinkAgrees'
  <2> SUFFICES ASSUME Connected, NEW s \in Subs, ~Calling(s)', Untouched(queue', s)
               PROVE  s \in active <=> OnLink(s)
    BY <1>4 DEF LinkAgrees, Connected, OnLink
  <2>1. QueueOpen
    BY DEF Connected, QueueOpen
  <2>2. ~Touches(cmd, s) /\ Untouched(queue, s)
    BY <1>2, <1>3, <2>1, Appended
  <2> QED BY <1>5, <2>2 DEF SubInv, LinkAgrees
<1> QED BY <1>6, <1>8, <1>9 DEF SubInv

\* A connection begins with nothing on it and the active set to be replayed.
LEMMA ConnectAgrees ==
  ASSUME TypeOK, OneViewPerCoin, SubInv, Connect PROVE SubInv'
<1>1. /\ phase = "connecting" /\ phase' = "replaying" /\ replay' = active
      /\ UNCHANGED <<pc, active, queue, wire, view>>
  BY DEF Connect, callVars, nodeVars
<1>2. wire = <<>> /\ view = {}
  BY <1>1 DEF SubInv, ReplayClear, Connected
<1>3. \A s \in Subs : Untouched(wire, s) /\ ~EndsIn(wire, s)
  BY <1>2 DEF Untouched, EndsIn
<1>4. InHand' /\ CallsAgree'
  BY <1>1 DEF SubInv, InHand, CallsAgree
<1>5. \A s \in Subs : Calling(s)' <=> Calling(s)
  BY <1>1 DEF Calling
<1>6. QueueAgrees'
  BY <1>1, <1>5 DEF SubInv, QueueAgrees, QueueOpen
<1>7. LinkAgrees'
  BY <1>1, <1>2, <1>3 DEF LinkAgrees, OnLink
<1>8. ReplayClear'
  BY <1>1, <1>2, <1>3, SlotSubs DEF ReplayClear, OneViewPerCoin, Connected, TypeOK
<1> QED BY <1>4, <1>6, <1>7, <1>8 DEF SubInv

\* A replayed subscription is the first word about its slot on the connection.
LEMMA ReplayAgrees ==
  ASSUME TypeOK, SubInv, NEW x \in Subs, Replay(x) PROVE SubInv'
<1>1. /\ phase = "replaying" /\ x \in replay /\ wire' = Append(wire, Subscribe(x))
      /\ replay' = replay \ {x} /\ UNCHANGED <<pc, active, queue, phase, view>>
  BY DEF Replay, callVars, nodeVars
<1>2. wire \in Seq(Frames) /\ Subscribe(x) \in Frames /\ Subscribe(x) \in SubCommands
      /\ Subscribe(x).s = x
  BY DEF TypeOK, Frames, SubCommands, Subscribe
<1>3. \A s \in Subs : /\ Untouched(wire', s) <=> Untouched(wire, s) /\ ~Touches(Subscribe(x), s)
                      /\ Touches(Subscribe(x), s) => (EndsIn(wire', s) <=> s = x)
                      /\ ~Touches(Subscribe(x), s) => (EndsIn(wire', s) <=> EndsIn(wire, s))
  <2>1. \A s \in Subs : Subscribe(x) = Subscribe(s) <=> s = x
    BY DEF Subscribe
  <2> QED BY <1>1, <1>2, <2>1, Appended
<1>4. \A s, u \in replay : s \in Slot(u) => s = u
  BY DEF SubInv, ReplayClear
<1>5. \A s \in replay : \A u \in Slot(s) : Untouched(wire, u) /\ u \notin view
  BY <1>1 DEF SubInv, ReplayClear, Connected
<1>6. \A s \in Subs : OnLink(s)' <=> OnLink(s)
  <2> SUFFICES ASSUME NEW s \in Subs
               PROVE  (s \in replay' \/ EndsIn(wire', s) \/ (Untouched(wire', s) /\ s \in view'))
                        <=> OnLink(s)
    BY DEF OnLink
  <2>1. CASE s = x
    BY <1>1, <1>2, <1>3, <2>1, Touching DEF OnLink
  <2>2. CASE s # x /\ Touches(Subscribe(x), s)
    <3>1. s \in Slot(x)
      BY <1>2, <2>2 DEF Touches
    <3>2. s \notin replay
      BY <1>1, <1>4, <2>2, <3>1
    <3>3. Untouched(wire, s) /\ s \notin view
      BY <1>1, <1>5, <3>1
    <3> QED BY <1>1, <1>3, <2>2, <3>2, <3>3, UntouchedEnds DEF OnLink
  <2>3. CASE s # x /\ ~Touches(Subscribe(x), s)
    BY <1>1, <1>3, <2>3 DEF OnLink
  <2> QED BY <2>1, <2>2, <2>3
<1>7. \A s \in Subs : Calling(s)' <=> Calling(s)
  BY <1>1 DEF Calling
<1>8. InHand' /\ CallsAgree'
  BY <1>1 DEF SubInv, InHand, CallsAgree
<1>9. QueueAgrees'
  BY <1>1, <1>7 DEF SubInv, QueueAgrees, QueueOpen
<1>10. LinkAgrees'
  BY <1>1, <1>6, <1>7 DEF SubInv, LinkAgrees, Connected
<1>11. ReplayClear'
  <2>1. ASSUME NEW s \in replay', NEW u \in Slot(s) PROVE Untouched(wire', u) /\ u \notin view'
    <3>1. s \in replay /\ s # x /\ s \in Subs /\ u \in Subs
      BY <1>1, SlotSubs DEF TypeOK
    <3>2. ~Touches(Subscribe(x), u)
      <4> SUFFICES ASSUME u \in Slot(x) PROVE FALSE
        BY <1>2 DEF Touches
      <4>1. s \in Slot(u) /\ x \in Slot(u)
        BY SlotSymmetric
      <4>2. s \in Slot(x)
        BY <4>1, Touching
      <4> QED BY <1>1, <1>4, <3>1, <4>2
    <3> QED BY <1>1, <1>3, <1>5, <3>1, <3>2
  <2> QED BY <1>1, <1>4, <2>1 DEF ReplayClear, Connected
<1> QED BY <1>8, <1>9, <1>10, <1>11 DEF SubInv

\* The task writes the oldest command of the queue.
LEMMA HandleAgrees ==
  ASSUME TypeOK, SubInv, HandleSub PROVE SubInv'
<1>1. /\ phase = "up" /\ queue # <<>> /\ Head(queue) \in SubCommands /\ queue' = Tail(queue)
      /\ wire' = Append(wire, Head(queue)) /\ UNCHANGED <<pc, active, phase, view, replay>>
  BY DEF HandleSub, callVars, nodeVars
<1>2. wire \in Seq(Frames) /\ queue \in Seq(Commands) /\ Head(queue) \in Frames
  BY <1>1 DEF TypeOK, Frames
<1>3. \A s \in Subs : /\ Untouched(wire', s) <=> Untouched(wire, s) /\ ~Touches(Head(queue), s)
                      /\ Touches(Head(queue), s) => (EndsIn(wire', s) <=> Head(queue) = Subscribe(s))
                      /\ ~Touches(Head(queue), s) => (EndsIn(wire', s) <=> EndsIn(wire, s))
  BY <1>1, <1>2, Appended
<1>4. \A s \in Subs :
        /\ Untouched(queue, s) <=> Untouched(queue', s) /\ ~Touches(Head(queue), s)
        /\ ~Untouched(queue', s) => (EndsIn(queue, s) <=> EndsIn(queue', s))
        /\ Untouched(queue', s) /\ Touches(Head(queue), s)
             => (EndsIn(queue, s) <=> Head(queue) = Subscribe(s))
  BY <1>1, <1>2, Taken
<1>5. \A s \in Subs : Calling(s)' <=> Calling(s)
  BY <1>1 DEF Calling
<1>6. replay = {}
  BY <1>1 DEF SubInv, ReplayClear
<1>7. InHand' /\ CallsAgree'
  BY <1>1 DEF SubInv, InHand, CallsAgree
<1>8. QueueAgrees'
  BY <1>1, <1>4, <1>5 DEF SubInv, QueueAgrees, QueueOpen
<1>9. LinkAgrees'
  <2> SUFFICES ASSUME NEW s \in Subs, ~Calling(s), Untouched(queue', s)
               PROVE  s \in active <=> EndsIn(wire', s) \/ (Untouched(wire', s) /\ s \in view)
    BY <1>1, <1>5, <1>6 DEF LinkAgrees, OnLink
  <2>1. CASE Touches(Head(queue), s)
    <3>1. s \in active <=> Head(queue) = Subscribe(s)
      BY <1>1, <1>4, <2>1 DEF SubInv, QueueAgrees, QueueOpen
    <3> QED BY <1>3, <2>1, <3>1
  <2>2. CASE ~Touches(Head(queue), s)
    <3>1. s \in active <=> OnLink(s)
      BY <1>1, <1>4, <2>2 DEF SubInv, LinkAgrees, Connected
    <3> QED BY <1>3, <1>6, <2>2, <3>1 DEF OnLink
  <2> QED BY <2>1, <2>2
<1>10. ReplayClear'
  BY <1>1, <1>6 DEF SubInv, ReplayClear, Connected
<1> QED BY <1>7, <1>8, <1>9, <1>10 DEF SubInv

\* The node reads the oldest frame: it serves what a command asks for.
LEMMA ReadAgrees ==
  ASSUME TypeOK, SubInv, Connected, wire # <<>>, wire' = Tail(wire),
         UNCHANGED <<pc, active, queue, phase, replay>>,
         IF Head(wire) \in SubCommands THEN view' = Served(view, Head(wire)) ELSE view' = view
  PROVE  SubInv'
<1> DEFINE h == Head(wire)
<1>1. wire \in Seq(Frames)
  BY DEF TypeOK
<1>2. \A s \in Subs : /\ Untouched(wire, s) <=> Untouched(wire', s) /\ ~Touches(h, s)
                      /\ ~Untouched(wire', s) => (EndsIn(wire, s) <=> EndsIn(wire', s))
                      /\ Untouched(wire', s) /\ Touches(h, s) => (EndsIn(wire, s) <=> h = Subscribe(s))
  BY <1>1, Taken
<1>3. \A s \in Subs : /\ Touches(h, s) => (s \in view' <=> h = Subscribe(s))
                      /\ ~Touches(h, s) => (s \in view' <=> s \in view)
  <2>1. CASE h \in SubCommands
    BY <2>1, Edited
  <2>2. CASE h \notin SubCommands
    BY <2>2 DEF Touches
  <2> QED BY <2>1, <2>2
<1> HIDE DEF h
<1>4. \A s \in Subs : OnLink(s)' <=> OnLink(s)
  <2> SUFFICES ASSUME NEW s \in Subs
               PROVE  (s \in replay \/ EndsIn(wire', s) \/ (Untouched(wire', s) /\ s \in view'))
                        <=> OnLink(s)
    BY DEF OnLink
  <2>1. CASE ~Untouched(wire', s)
    BY <1>2, <2>1 DEF OnLink
  <2>2. CASE Untouched(wire', s) /\ Touches(h, s)
    BY <1>2, <1>3, <2>2, UntouchedEnds DEF OnLink
  <2>3. CASE Untouched(wire', s) /\ ~Touches(h, s)
    BY <1>2, <1>3, <2>3, UntouchedEnds DEF OnLink
  <2> QED BY <2>1, <2>2, <2>3
<1>5. \A s \in Subs : Calling(s)' <=> Calling(s)
  BY DEF Calling
<1>6. InHand' /\ CallsAgree'
  BY DEF SubInv, InHand, CallsAgree
<1>7. QueueAgrees'
  BY <1>5 DEF SubInv, QueueAgrees, QueueOpen
<1>8. LinkAgrees'
  BY <1>4, <1>5 DEF SubInv, LinkAgrees, Connected
<1>9. ReplayClear'
  <2>1. ASSUME NEW s \in replay, NEW u \in Slot(s) PROVE Untouched(wire', u) /\ u \notin view'
    <3>1. u \in Subs /\ Untouched(wire, u) /\ u \notin view
      BY SlotSubs DEF SubInv, ReplayClear, TypeOK
    <3> QED BY <1>2, <1>3, <3>1
  <2> QED BY <2>1 DEF SubInv, ReplayClear, Connected
<1> QED BY <1>6, <1>7, <1>8, <1>9 DEF SubInv

LEMMA SubStep ==
  ASSUME DisjointCallers
  PROVE  TypeOK /\ OneViewPerCoin /\ SubInv /\ [Next]_vars => SubInv'
<1> SUFFICES ASSUME TypeOK, OneViewPerCoin, SubInv, [Next]_vars PROVE SubInv'
  OBVIOUS
<1>1. ASSUME NEW c \in Callers, NEW s \in Manages[c],
             Register(c, Subscribe(s)) \/ Register(c, Unsubscribe(s))
      PROVE  SubInv'
  BY <1>1, RegisterAgrees
<1>2. ASSUME NEW c \in Callers, SendSub(c) PROVE SubInv'
  BY <1>2, SendAgrees
<1>3. ASSUME NEW p \in Posts, TakeId(p) \/ TakeReply(p) \/ Timeout(p) \/ Abandon(p) PROVE SubInv'
  BY <1>3, Quiet DEF TakeId, TakeReply, Timeout, Abandon, callVars, nodeVars
<1>4. ASSUME NEW p \in Posts, SendPost(p) \/ SendCancel(p) PROVE SubInv'
  <2>1. UNCHANGED <<pc, active, phase, replay, wire, view>>
    BY <1>4 DEF SendPost, SendCancel, callVars, nodeVars
  <2>2. queue' \in {queue, Append(queue, Post(p)), Append(queue, CancelPost(p))}
    BY <1>4 DEF SendPost, SendCancel
  <2>3. Post(p) \in Commands /\ CancelPost(p) \in Commands
    BY DEF Commands
  <2> QED BY <2>1, <2>2, <2>3, Quiet, OthersQueued, OtherCommands
<1>5. CASE SendShutdown
  <2>1. UNCHANGED <<pc, active, phase, replay, wire, view>>
    BY <1>5 DEF SendShutdown, callVars, nodeVars
  <2>2. queue' \in {queue, Append(queue, Shutdown)} /\ Shutdown \in Commands
    BY <1>5 DEF SendShutdown, Commands
  <2> QED BY <2>1, <2>2, Quiet, OthersQueued, OtherCommands
<1>6. CASE ClearAlive \/ DropLastClone
  BY <1>6, Quiet DEF ClearAlive, DropLastClone, callVars, nodeVars
<1>7. CASE Connect
  BY <1>7, ConnectAgrees
<1>8. ASSUME ConnectFails \/ Wake, Connected' = Connected, QueueOpen' = QueueOpen PROVE SubInv'
  <2>1. /\ UNCHANGED <<pc, active, queue, replay, wire, view>> /\ phase' # "up" /\ ~Connected
        /\ QueueOpen
    BY <1>8 DEF ConnectFails, Wake, callVars, nodeVars, Connected, QueueOpen
  <2>2. \A s \in Subs : Calling(s)' <=> Calling(s)
    BY <2>1 DEF Calling
  <2>3. InHand' /\ CallsAgree' /\ LinkAgrees' /\ ReplayClear'
    BY <1>8, <2>1 DEF SubInv, InHand, CallsAgree, LinkAgrees, ReplayClear
  <2>4. QueueAgrees'
    BY <1>8, <2>1, <2>2 DEF SubInv, QueueAgrees
  <2> QED BY <2>3, <2>4 DEF SubInv
<1>9. CASE ConnectFails \/ Wake
  <2>1. Connected' = Connected /\ QueueOpen' = QueueOpen
    BY <1>9 DEF ConnectFails, Wake, Connected, QueueOpen
  <2> QED BY <1>8, <1>9, <2>1
<1>10. CASE StartLoop
  <2>1. /\ UNCHANGED <<pc, active, queue, replay, wire, view>> /\ replay = {}
        /\ Connected /\ Connected' /\ QueueOpen /\ QueueOpen'
    BY <1>10 DEF StartLoop, callVars, nodeVars, Connected, QueueOpen
  <2>2. \A s \in Subs : (Calling(s)' <=> Calling(s)) /\ (OnLink(s)' <=> OnLink(s))
    BY <2>1 DEF Calling, OnLink
  <2>3. InHand' /\ CallsAgree' /\ ReplayClear'
    BY <2>1 DEF SubInv, InHand, CallsAgree, ReplayClear
  <2>4. QueueAgrees' /\ LinkAgrees'
    BY <2>1, <2>2 DEF SubInv, QueueAgrees, LinkAgrees
  <2> QED BY <2>3, <2>4 DEF SubInv
<1>11. CASE LoseConnection \/ SendFails \/ Stop
  <2>1. /\ UNCHANGED <<pc, active>> /\ phase' \in {"sleeping", "stopping"} /\ QueueOpen
        /\ queue' = queue \/ (queue # <<>> /\ queue' = Tail(queue))
    BY <1>11 DEF LoseConnection, SendFails, Stop, callVars, QueueOpen
  <2>2. wire' = <<>> /\ view' = {} /\ replay' = {}
    BY <1>11 DEF LoseConnection, SendFails, Stop, EndConnection
  <2> QED BY <2>1, <2>2, Ended
<1>12. CASE HandleSub
  BY <1>12, HandleAgrees
<1>13. CASE Exit
  <2>1. /\ UNCHANGED <<pc, active, replay, wire, view>> /\ ~Connected /\ ~Connected' /\ ~QueueOpen'
        /\ phase' # "up"
    BY <1>13 DEF Exit, callVars, nodeVars, Connected, QueueOpen
  <2> QED BY <2>1 DEF SubInv, InHand, CallsAgree, QueueAgrees, LinkAgrees, ReplayClear
<1>14. ASSUME NEW s \in Subs, Replay(s) PROVE SubInv'
  BY <1>14, ReplayAgrees
<1>15. ASSUME NEW p \in Posts, HandlePost(p) \/ HandleCancel(p) PROVE SubInv'
  <2>1. /\ phase = "up" /\ queue # <<>> /\ queue' = Tail(queue)
        /\ UNCHANGED <<pc, active, phase, replay, view>>
    BY <1>15 DEF HandlePost, HandleCancel, callVars, nodeVars
  <2>2. \/ Head(queue) = Post(p) /\ wire' = Append(wire, Head(queue))
        \/ Head(queue) = CancelPost(p) /\ wire' = wire
    BY <1>15 DEF HandlePost, HandleCancel
  <2>3. Post(p) \in Frames
    BY DEF Frames
  <2>4. \A s \in Subs : ~Touches(Head(queue), s)
    BY <2>2, OtherCommands
  <2> QED BY <2>1, <2>2, <2>3, <2>4, OthersHandled
<1>16. ASSUME NEW p \in Posts, Reply(p) PROVE SubInv'
  BY <1>16, Quiet DEF Reply, callVars, nodeVars
<1>17. CASE NodeReadsSub
  BY <1>17, ReadAgrees DEF NodeReadsSub, callVars
<1>18. ASSUME NEW p \in Posts, NodeReadsPost(p) PROVE SubInv'
  <2>1. Head(wire) \notin SubCommands
    BY <1>18, CommandKinds DEF NodeReadsPost
  <2> QED BY <1>18, <2>1, ReadAgrees DEF NodeReadsPost, callVars
<1>19. ASSUME NEW p \in Posts, NodeReadsStray(p) PROVE SubInv'
  BY <1>19, Quiet DEF NodeReadsStray, callVars
<1>20. CASE UNCHANGED vars
  BY <1>20, Quiet DEF vars, callVars, nodeVars
<1> QED BY <1>1, <1>2, <1>3, <1>4, <1>5, <1>6, <1>7, <1>9, <1>10, <1>11, <1>12, <1>13, <1>14, <1>15,
        <1>16, <1>17, <1>18, <1>19, <1>20 DEF Next, Calls, Task, Node

\* Once everything has drained the node serves exactly the active set, if no two
\* callers manage one slot: those that do can race (client.rs:178).
THEOREM DisjointConverge == ASSUME DisjointCallers PROVE Spec => []Converged
<1>1. Init => SubInv
  <2> SUFFICES ASSUME Init PROVE SubInv
    OBVIOUS
  <2>1. phase = "connecting" /\ queue = <<>> /\ wire = <<>> /\ view = {} /\ replay = {}
        /\ \A c \in Callers : pc[c] = <<>>
    BY DEF Init
  <2>2. \A s \in Subs : Untouched(queue, s)
    BY <2>1 DEF Untouched
  <2> QED BY <2>1, <2>2, Single DEF SubInv, InHand, CallsAgree, QueueAgrees, LinkAgrees, ReplayClear,
       Connected
<1>2. TypeOK /\ SubInv => Converged
  <2> SUFFICES ASSUME TypeOK, SubInv, Settled PROVE view = active
    BY DEF Converged
  <2>1. ASSUME NEW s \in Subs PROVE s \in active <=> s \in view
    <3>1. ~Calling(s)
      BY Single DEF Settled, Calling
    <3>2. Untouched(queue, s) /\ Untouched(wire, s)
      BY DEF Settled, Untouched, Touches, IsSub, SubCommands, Subscribe, Unsubscribe
    <3>3. Connected /\ replay = {}
      BY DEF Settled, Connected, SubInv, ReplayClear
    <3> QED BY <3>1, <3>2, <3>3, UntouchedEnds DEF SubInv, LinkAgrees, OnLink
  <2> QED BY <2>1 DEF TypeOK
<1> QED BY <1>1, <1>2, SubStep, TypeCorrect, OneBookPerCoin, PTL DEF Spec
=============================================================================
