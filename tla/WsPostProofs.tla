---------------------------- MODULE WsPostProofs ----------------------------
(***************************************************************************)
(* The safety of the post lane of WsClient, for any number of posts,       *)
(* subscriptions and outages: PostInv is inductive, and everything the     *)
(* lane promises follows from it.                                          *)
(***************************************************************************)
EXTENDS WsClientProofs

-----------------------------------------------------------------------------
(* How the two sequences move.                                             *)

\* A command is sent: a post is new to the queue.
LEMMA Enqueue ==
  ASSUME TypeOK, QueueOrdered, NEW e \in Commands, queue' = Append(queue, e),
         \A p \in Posts : e = Post(p) => p \notin PostsIn(queue) \cup CancelsIn(queue)
  PROVE  /\ QueueOrdered'
         /\ PostsIn(queue') = PostsIn(queue) \cup Sends(e)
         /\ CancelsIn(queue') = CancelsIn(queue) \cup Evicts(e)
<1>1. queue \in Seq(Commands)
  BY DEF TypeOK
<1>2. \A i \in DOMAIN queue' : /\ i = Len(queue) + 1 => queue'[i] = e
                              /\ i # Len(queue) + 1 => /\ i \in DOMAIN queue
                                                       /\ queue'[i] = queue[i]
                                                       /\ i < Len(queue) + 1
  BY <1>1
<1>3. \A p \in Posts, i \in DOMAIN queue :
        /\ queue[i] = Post(p) => p \in PostsIn(queue)
        /\ queue[i] = CancelPost(p) => p \in CancelsIn(queue)
  BY DEF PostsIn, CancelsIn
<1>4. QueueOrdered'
  BY <1>2, <1>3, CommandKinds DEF QueueOrdered
<1>5. QED BY <1>1, <1>4, AppendIn

\* The task receives a command: a post is gone from the queue, and nothing is
\* queued behind its eviction.
LEMMA Dequeue ==
  ASSUME TypeOK, QueueOrdered, queue # <<>>, queue' = Tail(queue)
  PROVE  /\ QueueOrdered'
         /\ \A p \in Posts : /\ Head(queue) = Post(p) => p \notin PostsIn(queue')
                             /\ Head(queue) = CancelPost(p) => p \notin PostsIn(queue)
         /\ PostsIn(queue) = PostsIn(queue') \cup Sends(Head(queue))
         /\ CancelsIn(queue) = CancelsIn(queue') \cup Evicts(Head(queue))
<1>1. queue \in Seq(Commands)
  BY DEF TypeOK
<1>2. /\ 1 \in DOMAIN queue /\ Head(queue) = queue[1]
      /\ \A i \in DOMAIN queue' : i + 1 \in DOMAIN queue /\ queue'[i] = queue[i + 1]
      /\ \A i \in DOMAIN queue' : i \in Nat /\ i # 0
      /\ \A i \in DOMAIN queue : i \in Nat /\ i # 0
  BY <1>1
<1>3. QueueOrdered'
  <2> SUFFICES ASSUME NEW i \in DOMAIN queue', NEW j \in DOMAIN queue',
                      NEW p \in Posts, queue'[i] = Post(p)
               PROVE  /\ queue'[j] = Post(p) => i = j
                      /\ queue'[j] = CancelPost(p) => i < j
    BY DEF QueueOrdered
  <2>1. /\ queue[j + 1] = Post(p) => i + 1 = j + 1
        /\ queue[j + 1] = CancelPost(p) => i + 1 < j + 1
    BY <1>2 DEF QueueOrdered
  <2>2. QED BY <1>2, <2>1
<1>4. ASSUME NEW p \in Posts, Head(queue) = Post(p) PROVE p \notin PostsIn(queue')
  <2> SUFFICES ASSUME NEW i \in DOMAIN queue', queue'[i] = Post(p) PROVE FALSE
    BY DEF PostsIn
  <2>1. i + 1 = 1
    BY <1>2, <1>4 DEF QueueOrdered
  <2>2. QED BY <1>2, <2>1
<1>5. ASSUME NEW p \in Posts, Head(queue) = CancelPost(p) PROVE p \notin PostsIn(queue)
  <2> SUFFICES ASSUME NEW i \in DOMAIN queue, queue[i] = Post(p) PROVE FALSE
    BY DEF PostsIn
  <2>1. i < 1
    BY <1>2, <1>5 DEF QueueOrdered
  <2>2. QED BY <1>2, <2>1
<1>6. QED BY <1>1, <1>3, <1>4, <1>5, TailIn

\* A frame is written: a post is new to the wire.
LEMMA WriteFrame ==
  ASSUME TypeOK, WireOnce, NEW e \in Frames, wire' = Append(wire, e),
         \A p \in Posts : e = Post(p) => p \notin PostsIn(wire)
  PROVE  /\ WireOnce'
         /\ PostsIn(wire') = PostsIn(wire) \cup Sends(e)
<1>1. wire \in Seq(Frames)
  BY DEF TypeOK
<1>2. \A i \in DOMAIN wire' : /\ i = Len(wire) + 1 => wire'[i] = e
                             /\ i # Len(wire) + 1 => /\ i \in DOMAIN wire
                                                     /\ wire'[i] = wire[i]
  BY <1>1
<1>3. \A p \in Posts, i \in DOMAIN wire : wire[i] = Post(p) => p \in PostsIn(wire)
  BY DEF PostsIn
<1>4. WireOnce'
  BY <1>2, <1>3, CommandKinds DEF WireOnce
<1>5. QED BY <1>1, <1>4, AppendIn

\* The node reads a frame: a post is gone from the wire.
LEMMA ReadFrame ==
  ASSUME TypeOK, WireOnce, wire # <<>>, wire' = Tail(wire)
  PROVE  /\ WireOnce'
         /\ \A p \in Posts : Head(wire) = Post(p) => p \notin PostsIn(wire')
         /\ PostsIn(wire) = PostsIn(wire') \cup Sends(Head(wire))
<1>1. wire \in Seq(Frames)
  BY DEF TypeOK
<1>2. /\ 1 \in DOMAIN wire /\ Head(wire) = wire[1]
      /\ \A i \in DOMAIN wire' : i + 1 \in DOMAIN wire /\ wire'[i] = wire[i + 1]
      /\ \A i \in DOMAIN wire' : i \in Nat /\ i # 0
  BY <1>1
<1>3. WireOnce'
  <2> SUFFICES ASSUME NEW i \in DOMAIN wire', NEW j \in DOMAIN wire',
                      NEW p \in Posts, wire'[i] = Post(p), wire'[j] = Post(p)
               PROVE  i = j
    BY DEF WireOnce
  <2>1. i + 1 = j + 1
    BY <1>2 DEF WireOnce
  <2>2. QED BY <1>2, <2>1
<1>4. ASSUME NEW p \in Posts, Head(wire) = Post(p) PROVE p \notin PostsIn(wire')
  <2> SUFFICES ASSUME NEW i \in DOMAIN wire', wire'[i] = Post(p) PROVE FALSE
    BY DEF PostsIn
  <2>1. i + 1 = 1
    BY <1>2, <1>4 DEF WireOnce
  <2>2. QED BY <1>2, <2>1
<1>5. QED BY <1>1, <1>3, <1>4, TailIn

-----------------------------------------------------------------------------
(* The inductive step.                                                     *)

\* What a step that is no business of the post lane leaves alone.
LEMMA Elsewhere ==
  ASSUME PostInv, UNCHANGED <<postVars, oneshot, got, pending, seen, strays, executed>>,
         QueueOrdered', WireOnce', TaskIdle',
         PostsIn(queue') = PostsIn(queue), CancelsIn(queue') = CancelsIn(queue),
         PostsIn(wire') = PostsIn(wire)
  PROVE  PostInv'
BY DEF PostInv, OnePlace, Untraced, CallConsistent, Tracked, IdsDistinct,
       WaiterHasSender, postVars

\* A connection ends: whoever awaited a reply on it is told, and the frames
\* the node has not read go astray.
LEMMA Disconnect ==
  ASSUME TypeOK, PostInv, NEW lost, lost \subseteq Posts,
         EndConnection(lost), UNCHANGED <<postVars, got, executed>>,
         QueueOrdered', TaskIdle',
         PostsIn(queue) = PostsIn(queue') \cup lost, PostsIn(queue') \cap lost = {},
         CancelsIn(queue') = CancelsIn(queue)
  PROVE  PostInv'
<1> USE DEF PostInv, EndConnection, postVars
<1>1. /\ PostsIn(wire) \subseteq Posts /\ PostsIn(queue') \subseteq Posts
      /\ CancelsIn(queue) \subseteq Posts /\ wire' = <<>> /\ PostsIn(wire') = {}
  BY EmptyIn DEF PostsIn, CancelsIn
<1>2. \A p \in Posts : oneshot'[p] = IF p \in pending \cup lost /\ oneshot[p] = "open"
                                     THEN "dropped" ELSE oneshot[p]
  BY DEF Dropped
<1>3. WireOnce'
  BY <1>1 DEF WireOnce
<1>4. OnePlace'
  BY <1>1 DEF OnePlace
<1>5. Untraced'
  BY <1>1, <1>2 DEF OnePlace, Untraced
<1>6. CallConsistent'
  BY <1>2 DEF CallConsistent, TypeOK
<1>7. Tracked'
  BY <1>1, <1>2 DEF Tracked, OnePlace
<1>8. WaiterHasSender'
  BY <1>2 DEF WaiterHasSender
<1>9. QED BY <1>3, <1>4, <1>5, <1>6, <1>7, <1>8 DEF IdsDistinct

\* One step per action.
LEMMA PostStep == TypeOK /\ PostInv /\ [Next]_vars => PostInv'
<1> SUFFICES ASSUME TypeOK, PostInv, [Next]_vars PROVE PostInv'
  OBVIOUS
<1> USE DEF vars, callVars, postVars, lifeVars, dialVars, nodeVars
<1>a. /\ QueueOrdered /\ WireOnce /\ TaskIdle
      /\ queue \in Seq(Commands) /\ wire \in Seq(Frames)
  BY DEF PostInv, TypeOK
<1>i. pending \subseteq Posts /\ \A q : PostsIn(q) \subseteq Posts /\ CancelsIn(q) \subseteq Posts
  BY DEF PostsIn, CancelsIn, TypeOK
<1>b. UNCHANGED queue => /\ QueueOrdered' /\ PostsIn(queue') = PostsIn(queue)
                         /\ CancelsIn(queue') = CancelsIn(queue)
  BY <1>a DEF QueueOrdered
<1>c. UNCHANGED wire => WireOnce' /\ PostsIn(wire') = PostsIn(wire)
  BY <1>a DEF WireOnce
<1>d. ASSUME NEW e \in SubCommands \cup {Shutdown}, queue' = Append(queue, e)
      PROVE  /\ QueueOrdered' /\ PostsIn(queue') = PostsIn(queue)
             /\ CancelsIn(queue') = CancelsIn(queue)
  <2>1. e \in Commands /\ \A p \in Posts : e # Post(p)
    BY CommandKinds DEF Commands
  <2>2. /\ QueueOrdered' /\ PostsIn(queue') = PostsIn(queue) \cup Sends(e)
        /\ CancelsIn(queue') = CancelsIn(queue) \cup Evicts(e)
    BY <1>a, <1>d, <2>1, Enqueue
  <2>3. QED BY <2>2, CommandSets
<1>e. ASSUME queue # <<>>, Head(queue) \in SubCommands \cup {Shutdown},
             queue' = Tail(queue)
      PROVE  /\ QueueOrdered' /\ PostsIn(queue') = PostsIn(queue)
             /\ CancelsIn(queue') = CancelsIn(queue)
  BY <1>a, <1>e, CommandSets, Dequeue
<1>f. ASSUME NEW e \in SubCommands, wire' = Append(wire, e)
      PROVE  WireOnce' /\ PostsIn(wire') = PostsIn(wire)
  <2>1. e \in Frames /\ \A p \in Posts : e # Post(p)
    BY CommandKinds DEF Frames
  <2>2. WireOnce' /\ PostsIn(wire') = PostsIn(wire) \cup Sends(e)
    BY <1>a, <1>f, <2>1, WriteFrame
  <2>3. QED BY <2>2, CommandSets
<1>g. \A s \in Subs : Subscribe(s) \in SubCommands
  BY DEF SubCommands
<1>1. ASSUME NEW c \in Callers, NEW cmd, Register(c, cmd) PROVE PostInv'
  BY <1>1, <1>a, <1>b, <1>c, Elsewhere DEF Register, TaskIdle
<1>2. ASSUME NEW c \in Callers, SendSub(c) PROVE PostInv'
  <2>1. CASE QueueOpen
    <3>1. PICK e \in SubCommands : pc[c] = <<e>>
      BY <1>2 DEF SendSub, TypeOK
    <3>2. queue' = Append(queue, e)
      BY <1>2, <2>1, <3>1, <1>a DEF SendSub
    <3>3. QED BY <1>2, <2>1, <3>2, <1>a, <1>c, <1>d, Elsewhere
              DEF SendSub, TaskIdle, QueueOpen
  <2>2. CASE ~QueueOpen
    BY <1>2, <2>2, <1>a, <1>b, <1>c, Elsewhere DEF SendSub, TaskIdle
  <2>3. QED BY <2>1, <2>2
<1>3. ASSUME NEW p \in Posts, TakeId(p) PROVE PostInv'
  <2>1. /\ \A q \in Posts : q # p => stage'[q] = stage[q] /\ pid'[q] = pid[q]
        /\ stage[p] = "new" /\ stage'[p] = "numbered" /\ pid'[p] = nextId
        /\ nextId' = nextId + 1 /\ nextId \in Nat
        /\ \A q \in Posts : pid[q] \in Nat
    BY <1>3 DEF TakeId, TypeOK
  <2>2. ASSUME NEW a \in Posts, stage'[a] # "new"
        PROVE  /\ pid'[a] < nextId'
               /\ \A b \in Posts : stage'[b] # "new" /\ pid'[b] = pid'[a] => b = a
    <3>1. \A q \in Posts : stage[q] # "new" =>
            /\ pid[q] < nextId
            /\ \A b \in Posts : stage[b] # "new" /\ pid[b] = pid[q] => b = q
      BY DEF PostInv, IdsDistinct
    <3>2. CASE a = p
      <4>1. pid'[a] < nextId'
        BY <2>1, <3>2
      <4>2. ASSUME NEW b \in Posts, stage'[b] # "new", pid'[b] = pid'[a], b # a
            PROVE  FALSE
        <5>1. pid[b] = nextId /\ pid[b] < nextId
          BY <2>1, <3>1, <3>2, <4>2
        <5>2. QED BY <5>1, <2>1
      <4>3. QED BY <4>1, <4>2
    <3>3. CASE a # p
      <4>1. pid'[a] = pid[a] /\ stage[a] # "new" /\ pid[a] < nextId
        BY <2>1, <2>2, <3>1, <3>3
      <4>2. pid'[a] < nextId'
        BY <4>1, <2>1
      <4>3. ASSUME NEW b \in Posts, stage'[b] # "new", pid'[b] = pid'[a], b # a
            PROVE  FALSE
        <5>1. CASE b = p
          BY <2>1, <4>1, <4>3, <5>1
        <5>2. CASE b # p
          BY <2>1, <3>1, <4>1, <4>3, <5>2
        <5>3. QED BY <5>1, <5>2
      <4>4. QED BY <4>2, <4>3
    <3>4. QED BY <3>2, <3>3
  <2>3. TaskIdle' /\ WaiterHasSender' /\ OnePlace' /\ Tracked'
    BY <1>3, <1>a, <1>b, <1>c
       DEF TakeId, PostInv, TaskIdle, WaiterHasSender, OnePlace, Tracked
  <2>4. Untraced' /\ CallConsistent'
    BY <1>3, <1>b, <1>c, <2>1 DEF TakeId, PostInv, Untraced, CallConsistent
  <2>5. IdsDistinct'
    BY <2>2 DEF IdsDistinct
  <2>6. QED BY <1>3, <1>b, <1>c, <2>3, <2>4, <2>5 DEF TakeId, PostInv
<1>4. ASSUME NEW p \in Posts, SendPost(p) PROVE PostInv'
  <2>0. /\ \A q \in Posts : q # p => /\ stage'[q] = stage[q]
                                  /\ oneshot'[q] = oneshot[q]
                                  /\ ret'[q] = ret[q]
        /\ stage[p] = "numbered"
    BY <1>4 DEF SendPost, TypeOK
  <2>1. CASE QueueOpen
    <3>1. /\ queue' = Append(queue, Post(p)) /\ ret' = ret
          /\ stage'[p] = "waiting" /\ oneshot'[p] = "open"
      BY <1>4, <2>1 DEF SendPost, TypeOK
    <3>2. p \notin PostsIn(queue) \cup CancelsIn(queue)
      BY <2>0 DEF PostInv, Untraced
    <3>3. Post(p) \in Commands
      BY DEF Commands
    <3>4. QueueOrdered'
      BY <3>1, <3>2, <3>3, <1>a, Enqueue, CommandKinds
    <3>5. /\ PostsIn(queue') = PostsIn(queue) \cup {p}
          /\ CancelsIn(queue') = CancelsIn(queue)
      <4>1. \A q \in Posts : Post(p) = Post(q) => q \notin PostsIn(queue) \cup CancelsIn(queue)
        BY <3>2, CommandKinds
      <4>2. /\ PostsIn(queue') = PostsIn(queue) \cup Sends(Post(p))
            /\ CancelsIn(queue') = CancelsIn(queue) \cup Evicts(Post(p))
        BY <3>1, <3>3, <4>1, <1>a, Enqueue
      <4>3. QED BY <4>2, CommandSets
    <3>6. OnePlace'
      BY <1>4, <2>0, <3>5, <1>c DEF SendPost, PostInv, OnePlace, Untraced
    <3>7. Untraced'
      BY <1>4, <2>0, <3>1, <3>5, <1>c DEF SendPost, PostInv, Untraced
    <3>8. CallConsistent'
      BY <1>4, <2>0, <3>1 DEF SendPost, PostInv, CallConsistent, Untraced
    <3>9. Tracked' /\ WaiterHasSender'
      BY <1>4, <2>0, <3>1, <3>5, <1>i
         DEF SendPost, PostInv, Tracked, WaiterHasSender, CallConsistent
    <3>10. IdsDistinct' /\ TaskIdle'
      BY <1>4, <2>0, <2>1, <1>a
         DEF SendPost, PostInv, IdsDistinct, TaskIdle, QueueOpen
    <3>11. QED BY <1>4, <1>c, <3>4, <3>6, <3>7, <3>8, <3>9, <3>10
               DEF SendPost, PostInv
  <2>2. CASE ~QueueOpen
    <3>1. /\ UNCHANGED <<queue, oneshot>>
          /\ stage'[p] = "done" /\ ret'[p] = "dead"
      BY <1>4, <2>2 DEF SendPost, TypeOK
    <3>2. PostsIn(queue) = {} /\ CancelsIn(queue) = {} /\ pending = {}
      BY <1>a, <2>2, EmptyIn DEF TaskIdle, QueueOpen
    <3>3. OnePlace' /\ Untraced'
      BY <1>4, <2>0, <3>1, <1>b, <1>c DEF SendPost, PostInv, OnePlace, Untraced
    <3>4. CallConsistent'
      BY <1>4, <2>0, <3>1 DEF SendPost, PostInv, CallConsistent, Untraced
    <3>5. Tracked' /\ WaiterHasSender' /\ IdsDistinct' /\ TaskIdle'
      BY <1>4, <2>0, <3>1, <3>2, <1>a, <1>b
         DEF SendPost, PostInv, Tracked, WaiterHasSender, IdsDistinct, TaskIdle
    <3>6. QED BY <1>4, <1>b, <1>c, <3>1, <3>3, <3>4, <3>5 DEF SendPost, PostInv
  <2>3. QED BY <2>1, <2>2
<1>5. ASSUME NEW p \in Posts, TakeReply(p) PROVE PostInv'
  <2>1. /\ \A q \in Posts : q # p => stage'[q] = stage[q] /\ ret'[q] = ret[q]
        /\ stage[p] = "waiting" /\ stage'[p] = "done"
        /\ oneshot[p] \in {"value", "dropped"}
        /\ ret'[p] = IF oneshot[p] = "value" THEN "answered" ELSE "closed"
    BY <1>5 DEF TakeReply, TypeOK
  <2>2. OnePlace' /\ Untraced' /\ WaiterHasSender' /\ IdsDistinct' /\ TaskIdle'
    BY <1>5, <2>1, <1>a, <1>b, <1>c
       DEF TakeReply, PostInv, OnePlace, Untraced, WaiterHasSender, IdsDistinct,
           TaskIdle
  <2>3. CallConsistent'
    BY <1>5, <2>1 DEF TakeReply, PostInv, CallConsistent
  <2>4. Tracked'
    BY <1>5, <2>1, <1>b DEF TakeReply, PostInv, Tracked
  <2>5. QED BY <1>5, <1>b, <1>c, <2>2, <2>3, <2>4 DEF TakeReply, PostInv
<1>6. ASSUME NEW p \in Posts, Timeout(p) \/ Abandon(p) PROVE PostInv'
  <2>1. /\ UNCHANGED <<queue, wire, pending, seen, strays, executed, pid, nextId,
                       phase, got>>
        /\ \A q \in Posts : q # p => /\ stage'[q] = stage[q] /\ ret'[q] = ret[q]
                                     /\ oneshot'[q] = oneshot[q]
        /\ stage[p] = "waiting" /\ oneshot'[p] = "gone"
        /\ \/ stage'[p] = "cancelling" /\ ret'[p] = ret[p]
           \/ stage'[p] = "done" /\ ret'[p] = "abandoned"
    BY <1>6 DEF Timeout, Abandon, TypeOK
  <2>2. OnePlace' /\ Untraced' /\ WaiterHasSender' /\ IdsDistinct' /\ TaskIdle'
    BY <2>1, <1>a, <1>b, <1>c
       DEF PostInv, OnePlace, Untraced, WaiterHasSender, IdsDistinct, TaskIdle
  <2>3. CallConsistent'
    BY <2>1 DEF PostInv, CallConsistent
  <2>4. Tracked'
    BY <2>1, <1>b, <1>i DEF PostInv, Tracked, CallConsistent
  <2>5. QED BY <2>1, <1>b, <1>c, <2>2, <2>3, <2>4 DEF PostInv
<1>7. ASSUME NEW p \in Posts, SendCancel(p) PROVE PostInv'
  <2>1. /\ \A q \in Posts : q # p => stage'[q] = stage[q] /\ ret'[q] = ret[q]
        /\ stage[p] = "cancelling" /\ stage'[p] = "done" /\ ret'[p] = "timedout"
    BY <1>7 DEF SendCancel, TypeOK
  <2>2. /\ QueueOrdered' /\ PostsIn(queue') = PostsIn(queue)
        /\ CancelsIn(queue) \subseteq CancelsIn(queue')
        /\ CancelsIn(queue') \subseteq CancelsIn(queue) \cup {p}
        /\ QueueOpen => p \in CancelsIn(queue')
        /\ ~QueueOpen => queue' = queue
    <3>1. CASE QueueOpen
      <4>1. queue' = Append(queue, CancelPost(p)) /\ CancelPost(p) \in Commands
        BY <1>7, <3>1 DEF SendCancel, Commands, CancelPost
      <4>2. \A q \in Posts : CancelPost(p) # Post(q)
        BY CommandKinds
      <4>3. /\ QueueOrdered'
            /\ PostsIn(queue') = PostsIn(queue) \cup Sends(CancelPost(p))
            /\ CancelsIn(queue') = CancelsIn(queue) \cup Evicts(CancelPost(p))
        BY <4>1, <4>2, <1>a, Enqueue
      <4>4. QED BY <3>1, <4>3, CommandSets
    <3>2. CASE ~QueueOpen
      BY <1>7, <3>2, <1>b DEF SendCancel
    <3>3. QED BY <3>1, <3>2
  <2>3. ~QueueOpen => queue = <<>> /\ pending = {} /\ PostsIn(queue) = {}
    BY <1>a, EmptyIn DEF TaskIdle, QueueOpen
  <2>4. OnePlace' /\ WaiterHasSender' /\ IdsDistinct'
    BY <1>7, <2>1, <2>2, <1>c
       DEF SendCancel, PostInv, OnePlace, WaiterHasSender, IdsDistinct
  <2>5. Untraced' /\ TaskIdle'
    BY <1>7, <2>1, <2>2, <2>3, <1>a, <1>c
       DEF SendCancel, PostInv, Untraced, TaskIdle, QueueOpen
  <2>6. CallConsistent'
    BY <1>7, <2>1 DEF SendCancel, PostInv, CallConsistent
  <2>7. Tracked'
    BY <1>7, <2>1, <2>2, <2>3, <1>i DEF SendCancel, PostInv, Tracked, CallConsistent
  <2>8. QED BY <1>7, <1>c, <2>2, <2>4, <2>5, <2>6, <2>7 DEF SendCancel, PostInv
<1>8. ASSUME SendShutdown PROVE PostInv'
  <2>1. CASE QueueOpen
    BY <1>8, <2>1, <1>a, <1>c, <1>d, Elsewhere DEF SendShutdown, TaskIdle, QueueOpen
  <2>2. CASE ~QueueOpen
    BY <1>8, <2>2, <1>a, <1>b, <1>c, Elsewhere DEF SendShutdown, TaskIdle
  <2>3. QED BY <2>1, <2>2
<1>9. ASSUME ClearAlive \/ DropLastClone PROVE PostInv'
  BY <1>9, <1>a, <1>b, <1>c, Elsewhere DEF ClearAlive, DropLastClone, TaskIdle
<1>10. ASSUME Connect \/ ConnectFails \/ Wake \/ StartLoop PROVE PostInv'
  BY <1>10, <1>a, <1>b, <1>c, Elsewhere
     DEF Connect, ConnectFails, Wake, StartLoop, TaskIdle
<1>11. ASSUME NEW s \in Subs, Replay(s) PROVE PostInv'
  BY <1>11, <1>a, <1>b, <1>f, <1>g, Elsewhere DEF Replay, TaskIdle
<1>12. ASSUME LoseConnection PROVE PostInv'
  <2>1. TaskIdle'
    BY <1>12 DEF LoseConnection, EndConnection, TaskIdle
  <2>2. QED BY <1>12, <2>1, <1>b, Disconnect DEF LoseConnection
<1>13. ASSUME HandleSub PROVE PostInv'
  BY <1>13, <1>a, <1>e, <1>f, Elsewhere DEF HandleSub, TaskIdle
<1>14. ASSUME SendFails PROVE PostInv'
  <2> DEFINE lost == PostsIn(<<Head(queue)>>)
  <2>1. TaskIdle'
    BY <1>14 DEF SendFails, EndConnection, TaskIdle
  <2>2. lost = Sends(Head(queue)) /\ lost \subseteq Posts
    BY DEF PostsIn, Sends
  <2>3. /\ QueueOrdered' /\ PostsIn(queue') \cap lost = {}
        /\ PostsIn(queue) = PostsIn(queue') \cup lost
    BY <1>14, <1>a, <2>2, Dequeue DEF SendFails, Sends
  <2>4. CancelsIn(queue) = CancelsIn(queue')
    <3>1. Evicts(Head(queue)) = {}
      BY <1>14, CommandSets DEF SendFails, Frames
    <3>2. QED BY <1>14, <3>1, <1>a, Dequeue DEF SendFails
  <2>5. EndConnection(lost) /\ UNCHANGED <<postVars, got, executed>>
    BY <1>14 DEF SendFails
  <2>6. QED BY <2>1, <2>2, <2>3, <2>4, <2>5, Disconnect
<1>15. ASSUME Stop PROVE PostInv'
  <2>1. TaskIdle'
    BY <1>15 DEF Stop, EndConnection, TaskIdle
  <2>2. /\ QueueOrdered' /\ PostsIn(queue') = PostsIn(queue)
        /\ CancelsIn(queue') = CancelsIn(queue)
    BY <1>15, <1>b, <1>e DEF Stop
  <2>3. QED BY <1>15, <2>1, <2>2, Disconnect DEF Stop
<1>16. ASSUME Exit PROVE PostInv'
  <2>1. \A p \in Posts : oneshot'[p] = IF p \in PostsIn(queue) /\ oneshot[p] = "open"
                                       THEN "dropped" ELSE oneshot[p]
    BY <1>16 DEF Exit, Dropped
  <2>2. /\ queue' = <<>> /\ QueueOrdered' /\ PostsIn(queue') = {}
        /\ CancelsIn(queue') = {} /\ pending = {} /\ pending' = {}
    BY <1>16, <1>a, EmptyIn DEF Exit, QueueOrdered, TaskIdle
  <2>3. OnePlace' /\ Untraced' /\ IdsDistinct' /\ TaskIdle' /\ Tracked'
    BY <1>16, <2>1, <2>2, <1>c
       DEF Exit, PostInv, OnePlace, Untraced, IdsDistinct, TaskIdle, Tracked
  <2>4. CallConsistent'
    BY <1>16, <2>1 DEF Exit, PostInv, CallConsistent, TypeOK
  <2>5. WaiterHasSender'
    BY <2>1, <2>2 DEF PostInv, WaiterHasSender
  <2>6. QED BY <1>16, <1>c, <2>2, <2>3, <2>4, <2>5 DEF Exit, PostInv
\* A sender under the id of a call in use is that call's own.
<1>h. \A p \in Posts : stage[p] # "new" => SameId(p) \subseteq {p}
  BY DEF SameId, PostInv, IdsDistinct, Untraced, TypeOK
<1>17. ASSUME NEW p \in Posts, HandlePost(p) PROVE PostInv'
  <2>1. p \in PostsIn(queue)
    BY <1>17, <1>a, CommandSets, Dequeue DEF HandlePost
  <2>2. /\ stage[p] # "new" /\ stage[p] # "numbered" /\ executed[p] = 0
        /\ p \notin PostsIn(wire) \cup strays \cup pending
    BY <2>1 DEF PostInv, OnePlace, Untraced
  <2>3. SameId(p) = {} /\ pending' = pending \cup {p}
    BY <1>17, <1>h, <2>2 DEF HandlePost, SameId
  <2>4. \A q \in Posts : oneshot'[q] = oneshot[q]
    BY <1>17, <2>3 DEF HandlePost, Dropped
  <2>5. /\ QueueOrdered' /\ p \notin PostsIn(queue')
        /\ PostsIn(queue) = PostsIn(queue') \cup {p}
        /\ CancelsIn(queue) = CancelsIn(queue')
    BY <1>17, <1>a, Dequeue, CommandSets DEF HandlePost
  <2>6. WireOnce' /\ PostsIn(wire') = PostsIn(wire) \cup {p}
    BY <1>17, <1>a, <2>2, WriteFrame, CommandKinds, CommandSets DEF HandlePost, Frames
  <2>7. OnePlace'
    BY <1>17, <2>2, <2>3, <2>5, <2>6 DEF HandlePost, PostInv, OnePlace
  <2>8. Untraced' /\ TaskIdle' /\ IdsDistinct'
    BY <1>17, <2>2, <2>3, <2>4, <2>5, <2>6, <1>a
       DEF HandlePost, PostInv, Untraced, TaskIdle, IdsDistinct
  <2>9. CallConsistent'
    BY <1>17, <2>4 DEF HandlePost, PostInv, CallConsistent
  <2>10. Tracked' /\ WaiterHasSender'
    BY <1>17, <2>1, <2>3, <2>4, <2>5, <1>i
       DEF HandlePost, PostInv, Tracked, WaiterHasSender, TypeOK
  <2>11. QED BY <2>5, <2>6, <2>7, <2>8, <2>9, <2>10 DEF PostInv
<1>18. ASSUME NEW p \in Posts, HandleCancel(p) PROVE PostInv'
  <2>1. p \in CancelsIn(queue)
    BY <1>18, <1>a, CommandSets, Dequeue DEF HandleCancel
  <2>2. stage[p] # "new"
    BY <2>1 DEF PostInv, Untraced
  <2>3. /\ QueueOrdered' /\ p \notin PostsIn(queue)
        /\ PostsIn(queue) = PostsIn(queue')
        /\ CancelsIn(queue) = CancelsIn(queue') \cup {p}
    BY <1>18, <1>a, Dequeue, CommandSets DEF HandleCancel
  <2>4. pending' = pending \ {p}
    BY <1>18, <1>h, <2>2 DEF HandleCancel, SameId, TypeOK
  <2>5. /\ \A q \in Posts : q # p => oneshot'[q] = oneshot[q]
        /\ oneshot'[p] = oneshot[p] \/ (oneshot[p] = "open" /\ oneshot'[p] = "dropped")
        /\ oneshot[p] = "open" => oneshot'[p] = "dropped"
    <3>1. oneshot[p] = "open" => p \in SameId(p)
      BY <2>3 DEF PostInv, WaiterHasSender, SameId
    <3>2. QED BY <1>18, <1>h, <2>2, <3>1 DEF HandleCancel, Dropped
  <2>6. OnePlace' /\ Untraced' /\ TaskIdle' /\ IdsDistinct'
    BY <1>18, <2>2, <2>3, <2>4, <2>5, <1>a, <1>c
       DEF HandleCancel, PostInv, OnePlace, Untraced, TaskIdle, IdsDistinct
  <2>7. CallConsistent'
    BY <1>18, <2>5 DEF HandleCancel, PostInv, CallConsistent
  <2>8. Tracked' /\ WaiterHasSender'
    BY <1>18, <2>3, <2>4, <2>5, <1>i
       DEF HandleCancel, PostInv, Tracked, WaiterHasSender
  <2>9. QED BY <1>18, <1>c, <2>3, <2>6, <2>7, <2>8 DEF HandleCancel, PostInv
<1>19. ASSUME NEW p \in Posts, Reply(p) PROVE PostInv'
  <2>1. executed[p] = 1 /\ stage[p] # "new"
    BY <1>19 DEF Reply, PostInv, OnePlace, Untraced
  <2>2. SameId(p) = pending \cap {p} /\ pending' = pending \ {p}
    BY <1>19, <1>h, <2>1 DEF Reply, SameId, TypeOK
  <2>3. /\ \A q \in Posts : q # p => oneshot'[q] = oneshot[q] /\ got'[q] = got[q]
        /\ \/ p \notin pending \/ oneshot[p] # "open"
           \/ oneshot'[p] = "value" /\ got'[p] = got[p] \cup {p}
        /\ \/ p \in pending /\ oneshot[p] = "open"
           \/ oneshot'[p] = oneshot[p] /\ got'[p] = got[p]
    BY <1>19, <2>2 DEF Reply
  <2>4. OnePlace' /\ Untraced' /\ TaskIdle' /\ IdsDistinct'
    BY <1>19, <2>1, <2>2, <2>3, <1>a, <1>b, <1>c
       DEF Reply, PostInv, OnePlace, Untraced, TaskIdle, IdsDistinct
  <2>5. CallConsistent'
    BY <1>19, <2>1, <2>3 DEF Reply, PostInv, CallConsistent
  <2>6. p \notin PostsIn(queue)
    BY <2>1 DEF PostInv, OnePlace
  <2>7. Tracked' /\ WaiterHasSender'
    BY <1>19, <2>2, <2>3, <2>6, <1>b, <1>i
       DEF Reply, PostInv, Tracked, WaiterHasSender
  <2>8. QED BY <1>19, <1>b, <1>c, <2>4, <2>5, <2>7 DEF Reply, PostInv
<1>20. ASSUME NodeReadsSub PROVE PostInv'
  <2>1. WireOnce' /\ PostsIn(wire') = PostsIn(wire)
    BY <1>20, <1>a, ReadFrame, CommandSets DEF NodeReadsSub
  <2>2. QED BY <1>20, <2>1, <1>a, <1>b, Elsewhere DEF NodeReadsSub, TaskIdle
<1>21. ASSUME NEW p \in Posts, NodeReadsPost(p) PROVE PostInv'
  <2>1. /\ WireOnce' /\ p \notin PostsIn(wire')
        /\ PostsIn(wire) = PostsIn(wire') \cup {p}
    BY <1>21, <1>a, ReadFrame, CommandSets DEF NodeReadsPost
  <2>2. /\ executed[p] = 0 /\ p \notin PostsIn(queue) \cup strays
        /\ stage[p] # "new" /\ stage[p] # "numbered"
    BY <2>1 DEF PostInv, OnePlace, Untraced
  <2>3. /\ \A q \in Posts : q # p => executed'[q] = executed[q]
        /\ executed'[p] = 1
    BY <1>21, <2>2 DEF NodeReadsPost, TypeOK
  <2>4. OnePlace' /\ Untraced'
    BY <1>21, <2>1, <2>2, <2>3, <1>b DEF NodeReadsPost, PostInv, OnePlace, Untraced
  <2>5. CallConsistent'
    BY <1>21, <2>3 DEF NodeReadsPost, PostInv, CallConsistent
  <2>6. Tracked' /\ WaiterHasSender' /\ IdsDistinct' /\ TaskIdle'
    BY <1>21, <1>a, <1>b
       DEF NodeReadsPost, PostInv, Tracked, WaiterHasSender, IdsDistinct, TaskIdle
  <2>7. QED BY <1>21, <1>b, <2>1, <2>4, <2>5, <2>6 DEF NodeReadsPost, PostInv
<1>22. ASSUME NEW p \in Posts, NodeReadsStray(p) PROVE PostInv'
  <2>1. /\ executed[p] = 0 /\ p \notin PostsIn(queue) \cup PostsIn(wire)
        /\ stage[p] # "new" /\ stage[p] # "numbered"
    BY <1>22 DEF NodeReadsStray, PostInv, OnePlace, Untraced
  <2>2. /\ \A q \in Posts : q # p => executed'[q] = executed[q]
        /\ executed'[p] = 1
    BY <1>22, <2>1 DEF NodeReadsStray, TypeOK
  <2>3. OnePlace' /\ Untraced'
    BY <1>22, <2>1, <2>2, <1>b, <1>c DEF NodeReadsStray, PostInv, OnePlace, Untraced
  <2>4. CallConsistent'
    BY <1>22, <2>2 DEF NodeReadsStray, PostInv, CallConsistent
  <2>5. Tracked' /\ WaiterHasSender' /\ IdsDistinct' /\ TaskIdle'
    BY <1>22, <1>a, <1>b
       DEF NodeReadsStray, PostInv, Tracked, WaiterHasSender, IdsDistinct, TaskIdle
  <2>6. QED BY <1>22, <1>b, <1>c, <2>3, <2>4, <2>5 DEF NodeReadsStray, PostInv
<1>23. ASSUME UNCHANGED vars PROVE PostInv'
  BY <1>23, <1>a, <1>b, <1>c, Elsewhere DEF TaskIdle
<1>24. QED
  BY <1>1, <1>2, <1>3, <1>4, <1>5, <1>6, <1>7, <1>8, <1>9, <1>10, <1>11, <1>12,
     <1>13, <1>14, <1>15, <1>16, <1>17, <1>18, <1>19, <1>20, <1>21, <1>22, <1>23
     DEF Next, Calls, Task, Node

\* PostInv holds in every reachable state.
THEOREM PostLane == Spec => []PostInv
<1>1. Init => PostInv
  BY EmptyIn DEF Init, PostInv, QueueOrdered, WireOnce, OnePlace, Untraced,
     CallConsistent, Tracked, IdsDistinct, WaiterHasSender, TaskIdle
<1>2. QED BY <1>1, PostStep, TypeCorrect, PTL DEF Spec

-----------------------------------------------------------------------------
(* What the lane promises.                                                 *)

\* Whatever breaks, times out or reconnects, the node carries a signed action
\* out at most once.
THEOREM PostsAtMostOnce == Spec => []AtMostOnce
<1>1. PostInv => AtMostOnce
  BY DEF PostInv, OnePlace, AtMostOnce
<1>2. QED BY <1>1, PostLane, PTL

\* A caller is handed the response to its own request or none.
THEOREM PostsOwnReply == Spec => []OwnReply
<1>1. PostInv => OwnReply
  BY DEF PostInv, CallConsistent, OwnReply
<1>2. QED BY <1>1, PostLane, PTL

\* No caller awaits a one-shot that nobody holds.
THEOREM NoStrandedWaiter == Spec => []WaiterHasSender
<1>1. PostInv => WaiterHasSender
  BY DEF PostInv
<1>2. QED BY <1>1, PostLane, PTL

\* The correlation map keeps no entry that nobody will remove, but for a
\* future dropped while it waits.
THEOREM NoLeakedEntry == Spec => []NoOrphanEntry
<1>1. TypeOK /\ PostInv => NoOrphanEntry
  <2> SUFFICES ASSUME TypeOK, PostInv, NEW p \in pending
               PROVE  \/ stage[p] \in {"waiting", "cancelling"}
                      \/ p \in CancelsIn(queue) \/ ret[p] = "abandoned"
    BY DEF NoOrphanEntry
  <2>0. /\ p \in Posts
        /\ stage[p] \in {"waiting", "cancelling", "done"}
    BY DEF TypeOK, PostInv, Untraced
  <2>1. stage[p] = "done" => oneshot[p] = "gone"
    BY <2>0 DEF PostInv, Tracked, CallConsistent
  <2>2. stage[p] = "done" => ret[p] \in {"timedout", "abandoned"}
    BY <2>0, <2>1 DEF PostInv, CallConsistent
  <2>3. QED BY <2>0, <2>2 DEF PostInv, Tracked
<1>2. QED BY <1>1, PostLane, TypeCorrect, PTL

\* A waiting caller is told "connection closed" only when it did close.
THEOREM ClosedMeansClosed == Spec => OnlyDisconnectDrops
<1> DEFINE Kept == \A p \in Posts : oneshot[p] = "open" /\ oneshot'[p] = "dropped"
                                    => ~(phase = "up" /\ phase' = "up")
<1>1. TypeOK /\ PostInv /\ Next => Kept
  <2> SUFFICES ASSUME TypeOK, PostInv, Next, NEW p \in Posts,
                      oneshot[p] = "open", oneshot'[p] = "dropped",
                      phase = "up", phase' = "up"
               PROVE  FALSE
    BY DEF Kept
  <2>a. queue \in Seq(Commands)
    BY DEF TypeOK
  <2>1. ASSUME Calls PROVE FALSE
    <3>1. PICK q \in Posts : \/ TakeId(q) \/ SendPost(q) \/ TakeReply(q)
                             \/ Timeout(q) \/ SendCancel(q) \/ Abandon(q)
      BY <2>1 DEF Calls, Register, SendSub, SendShutdown, ClearAlive, DropLastClone
    <3>2. QED
      BY <3>1 DEF TakeId, SendPost, TakeReply, Timeout, SendCancel, Abandon, TypeOK
  <2>2. ASSUME NEW q \in Posts, HandlePost(q) PROVE FALSE
    <3>1. q \in PostsIn(queue)
      BY <2>2, <2>a, TailIn, CommandSets DEF HandlePost
    <3>2. p \in SameId(q) \ {q} /\ pid[p] = pid[q] /\ p \in pending
      BY <2>2 DEF HandlePost, Dropped, SameId
    <3>3. stage[p] # "new" /\ stage[q] # "new"
      BY <3>1, <3>2 DEF PostInv, Untraced
    <3>4. QED BY <3>2, <3>3 DEF PostInv, IdsDistinct
  <2>3. ASSUME NEW q \in Posts, HandleCancel(q) PROVE FALSE
    <3>1. q \in CancelsIn(queue)
      BY <2>3, <2>a, TailIn, CommandSets DEF HandleCancel
    <3>2. pid[p] = pid[q] /\ p \in pending
      BY <2>3 DEF HandleCancel, Dropped, SameId
    <3>3. stage[p] # "new" /\ stage[q] # "new"
      BY <3>1, <3>2 DEF PostInv, Untraced
    <3>4. p = q
      BY <3>2, <3>3 DEF PostInv, IdsDistinct
    <3>5. QED BY <3>1, <3>4 DEF PostInv, Tracked
  <2>4. ASSUME NEW q \in Posts, Reply(q) PROVE FALSE
    BY <2>4 DEF Reply
  <2>5. ASSUME Connect \/ ConnectFails \/ Wake \/ StartLoop \/ LoseConnection
               \/ HandleSub \/ SendFails \/ Stop \/ Exit \/ \E s \in Subs : Replay(s)
        PROVE  FALSE
    BY <2>5 DEF Connect, ConnectFails, Wake, StartLoop, LoseConnection, HandleSub,
                SendFails, Stop, Exit, Replay
  <2>6. ASSUME Node PROVE FALSE
    BY <2>6 DEF Node, NodeReadsSub, NodeReadsPost, NodeReadsStray
  <2>7. QED BY <2>1, <2>2, <2>3, <2>4, <2>5, <2>6 DEF Next, Task
<1>2. TypeOK /\ PostInv /\ [Next]_vars => [Kept]_vars
  BY <1>1
<1>3. QED BY <1>2, TypeCorrect, PostLane, PTL DEF Spec, OnlyDisconnectDrops

-----------------------------------------------------------------------------
(* The lane implements PostService.                                        *)

LEMMA ResultType ==
  ASSUME TypeOK, NEW p \in Posts
  PROVE  /\ stage[p] = "new" => ResultOf(p) = "idle"
         /\ stage[p] \in {"numbered", "waiting", "cancelling"} => ResultOf(p) = "called"
         /\ stage[p] = "done" => ResultOf(p) = IF ret[p] = "answered" THEN "answered"
                                               ELSE "failed"
BY DEF ResultOf, TypeOK

\* A step of the client is a step of the service, or no step of it.
LEMMA ServiceStep ==
  ASSUME TypeOK, TypeOK', PostInv, [Next]_vars
  PROVE  [Service!Next]_(Service!vars)
<1> DEFINE result == [p \in Posts |-> ResultOf(p)]
<1>a. ASSUME UNCHANGED <<stage, ret>>
      PROVE  \A p \in Posts : ResultOf(p)' = ResultOf(p)
  BY <1>a DEF ResultOf
<1>b. ASSUME UNCHANGED <<stage, ret, executed>> PROVE UNCHANGED Service!vars
  BY <1>a, <1>b DEF Service!vars
<1>c. ASSUME NEW p \in Posts, \A q \in Posts : q # p => stage'[q] = stage[q] /\ ret'[q] = ret[q]
      PROVE  \A q \in Posts : q # p => ResultOf(q)' = ResultOf(q)
  BY <1>c DEF ResultOf
<1>d. ASSUME NEW p \in Posts, UNCHANGED <<stage, ret>>, executed[p] = 0,
             stage[p] # "new", executed' = [executed EXCEPT ![p] = @ + 1]
      PROVE  Service!Next
  <2>1. result[p] \in {"called", "failed"}
    <3>1. ret[p] # "answered"
      <4>1. ret[p] = "answered" => stage[p] = "done"
        BY DEF PostInv, CallConsistent
      <4>2. stage[p] = "done" /\ ret[p] = "answered" => oneshot[p] = "value"
        BY DEF PostInv, CallConsistent, TypeOK
      <4>3. oneshot[p] = "value" => executed[p] = 1
        BY DEF PostInv, CallConsistent
      <4>4. QED BY <1>d, <4>1, <4>2, <4>3
    <3>2. QED BY <1>d, <3>1, ResultType DEF TypeOK
  <2>2. result' = result
    BY <1>a, <1>d
  <2>3. executed' = [executed EXCEPT ![p] = 1]
    BY <1>d DEF TypeOK
  <2>4. Service!Effect(p)
    BY <1>d, <2>1, <2>2, <2>3 DEF Service!Effect
  <2>5. QED BY <2>4 DEF Service!Next
<1>e. ASSUME NEW p \in Posts, UNCHANGED executed,
             \A q \in Posts : q # p => stage'[q] = stage[q] /\ ret'[q] = ret[q],
             stage[p] \in {"numbered", "waiting", "cancelling"}
      PROVE  /\ stage'[p] \in {"waiting", "cancelling"} => UNCHANGED Service!vars
             /\ stage'[p] = "done" /\ ret'[p] # "answered" => Service!Next
             /\ stage'[p] = "done" /\ ret'[p] = "answered" /\ executed[p] = 1
                  => Service!Next
  <2>1. result[p] = "called"
    BY <1>e, ResultType
  <2>2. /\ stage'[p] \in {"waiting", "cancelling"} => result'[p] = "called"
        /\ stage'[p] = "done" /\ ret'[p] # "answered" => result'[p] = "failed"
        /\ stage'[p] = "done" /\ ret'[p] = "answered" => result'[p] = "answered"
    BY DEF ResultOf
  <2>3. \A q \in Posts : q # p => result'[q] = result[q]
    BY <1>c, <1>e
  <2>4. stage'[p] \in {"waiting", "cancelling"} => UNCHANGED Service!vars
    BY <1>e, <2>1, <2>2, <2>3 DEF Service!vars
  <2>5. \A r : result'[p] = r => result' = [result EXCEPT ![p] = r]
    BY <2>3
  <2>6. stage'[p] = "done" /\ ret'[p] # "answered" => Service!Fail(p)
    BY <1>e, <2>1, <2>2, <2>5 DEF Service!Fail
  <2>7. stage'[p] = "done" /\ ret'[p] = "answered" /\ executed[p] = 1
          => Service!Answer(p)
    BY <1>e, <2>1, <2>2, <2>5 DEF Service!Answer
  <2>8. QED BY <2>4, <2>6, <2>7 DEF Service!Next
<1> USE DEF vars, callVars, postVars, lifeVars, dialVars, nodeVars
<1>1. ASSUME NEW p \in Posts, TakeId(p) PROVE Service!Next
  <2>1. /\ \A q \in Posts : q # p => stage'[q] = stage[q] /\ ret'[q] = ret[q]
        /\ stage[p] = "new" /\ stage'[p] = "numbered" /\ executed' = executed
    BY <1>1 DEF TakeId, TypeOK
  <2>2. result[p] = "idle" /\ result'[p] = "called"
    BY <2>1 DEF ResultOf
  <2>3. \A q \in Posts : q # p => result'[q] = result[q]
    BY <2>1, <1>c
  <2>4. result' = [result EXCEPT ![p] = "called"]
    BY <2>2, <2>3
  <2>5. Service!Call(p)
    BY <2>1, <2>2, <2>4 DEF Service!Call
  <2>6. QED BY <2>5 DEF Service!Next
<1>2. ASSUME NEW p \in Posts,
             SendPost(p) \/ Timeout(p) \/ SendCancel(p) \/ Abandon(p) \/ TakeReply(p)
      PROVE  Service!Next \/ UNCHANGED Service!vars
  <2>1. /\ \A q \in Posts : q # p => stage'[q] = stage[q] /\ ret'[q] = ret[q]
        /\ UNCHANGED executed
        /\ stage[p] \in {"numbered", "waiting", "cancelling"}
    BY <1>2 DEF SendPost, Timeout, SendCancel, Abandon, TakeReply, TypeOK
  <2>2. \/ stage'[p] \in {"waiting", "cancelling"}
        \/ stage'[p] = "done" /\ ret'[p] # "answered"
        \/ stage'[p] = "done" /\ ret'[p] = "answered" /\ oneshot[p] = "value"
    BY <1>2 DEF SendPost, Timeout, SendCancel, Abandon, TakeReply, TypeOK
  <2>3. oneshot[p] = "value" => executed[p] = 1
    BY DEF PostInv, CallConsistent
  <2>4. QED BY <2>1, <2>2, <2>3, <1>e
<1>3. ASSUME NEW p \in Posts, NodeReadsPost(p) PROVE Service!Next
  <2>1. p \in PostsIn(wire)
    BY <1>3, TailIn, CommandSets DEF NodeReadsPost, TypeOK
  <2>2. executed[p] = 0 /\ stage[p] # "new"
    BY <2>1 DEF PostInv, OnePlace, Untraced
  <2>3. QED BY <1>3, <2>2, <1>d DEF NodeReadsPost
<1>4. ASSUME NEW p \in Posts, NodeReadsStray(p) PROVE Service!Next
  <2>1. executed[p] = 0 /\ stage[p] # "new"
    BY <1>4 DEF NodeReadsStray, PostInv, OnePlace, Untraced
  <2>2. QED BY <1>4, <2>1, <1>d DEF NodeReadsStray
<1>5. ASSUME \/ \E c \in Callers : (\E cmd : Register(c, cmd)) \/ SendSub(c)
             \/ SendShutdown \/ ClearAlive \/ DropLastClone
      PROVE  UNCHANGED Service!vars
  BY <1>5, <1>b DEF Register, SendSub, SendShutdown, ClearAlive, DropLastClone
<1>6. ASSUME Task \/ NodeReadsSub PROVE UNCHANGED Service!vars
  <2>1. UNCHANGED <<stage, ret, executed>>
    BY <1>6 DEF Task, NodeReadsSub, Connect, ConnectFails, Wake, StartLoop,
       LoseConnection, HandleSub, SendFails, Stop, Exit, Replay, HandlePost,
       HandleCancel, Reply, EndConnection
  <2>2. QED BY <2>1, <1>b
<1>7. ASSUME UNCHANGED vars PROVE UNCHANGED Service!vars
  BY <1>7, <1>b
<1>8. QED
  BY <1>1, <1>2, <1>3, <1>4, <1>5, <1>6, <1>7 DEF Next, Calls, Node

\* The post lane of the client implements the abstract service: each call
\* takes effect at most once, and is answered only after it did.
THEOREM PostRefinement == Spec => ImplementsPostService
<1>1. Init => Service!Init
  <2>1. Init => /\ \A p \in Posts : ResultOf(p) = "idle"
                /\ executed = [p \in Posts |-> 0]
    BY DEF Init, ResultOf
  <2>2. QED BY <2>1 DEF Service!Init
<1>2. TypeOK /\ TypeOK' /\ PostInv /\ [Next]_vars => [Service!Next]_(Service!vars)
  BY ServiceStep
<1>3. QED
  BY <1>1, <1>2, TypeCorrect, PostLane, PTL
     DEF Spec, ImplementsPostService, Service!Spec
=============================================================================
