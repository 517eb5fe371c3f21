------------------------- MODULE WsClientProperties -------------------------
(***************************************************************************)
(* What the WebSocket client must guarantee, and what its documentation    *)
(* says it does.                                                           *)
(***************************************************************************)
EXTENDS WsClient

\* The variables range over the values the code can give them.
TypeOK ==
  /\ active \subseteq Subs /\ replay \subseteq Subs /\ view \subseteq Subs
  /\ queue \in Seq(Commands) /\ wire \in Seq(Frames)
  /\ alive \in BOOLEAN /\ handles \in BOOLEAN /\ offer \in BOOLEAN
  /\ shut \in {"no", "sent", "done"}
  /\ nextId \in Nat /\ backoff \in Nat /\ drops \in Nat
  /\ pc \in [Callers -> {<<>>} \cup {<<cmd>> : cmd \in SubCommands}]
  /\ calls \in [Callers -> Nat]
  /\ stage \in [Posts -> {"new", "numbered", "waiting", "cancelling", "done"}]
  /\ pid \in [Posts -> Nat]
  /\ oneshot \in [Posts -> {"none", "open", "value", "dropped", "gone"}]
  /\ ret \in [Posts -> {"none", "answered", "closed", "timedout", "dead",
                        "abandoned"}]
  /\ got \in [Posts -> SUBSET Posts]
  /\ phase \in {"connecting", "sleeping", "replaying", "up", "stopping",
                "stopped"}
  /\ pending \subseteq Posts /\ seen \subseteq Posts /\ strays \subseteq Posts
  /\ executed \in [Posts -> Nat]

-----------------------------------------------------------------------------
(* The post lane.                                                          *)

\* A signed action is one-shot: whatever breaks, times out or reconnects, the
\* node carries a post out at most once (client.rs:519-521).
AtMostOnce == \A p \in Posts : executed[p] <= 1

\* A response is handed only to the call it answers, and only once the node
\* has carried that call out: ids are never shared, across reconnects too.
OwnReply == \A p \in Posts : got[p] # {} => got[p] = {p} /\ executed[p] = 1

\* No caller waits on a one-shot that nobody can complete: its sender is in
\* the queue or in the correlation map until it is used or dropped.
WaiterHasSender ==
  \A p \in Posts : oneshot[p] = "open" => p \in pending \cup PostsIn(queue)

CancelsIn(seq) == {p \in Posts : \E i \in DOMAIN seq : seq[i] = CancelPost(p)}

\* An entry of the correlation map has a caller behind it, or its eviction is
\* on the way; only a future dropped mid-wait can leave one behind.
NoOrphanEntry ==
  \A p \in pending : \/ stage[p] \in {"waiting", "cancelling"}
                     \/ p \in CancelsIn(queue)
                     \/ ret[p] = "abandoned"

\* While a connection lives nothing drops the sender of a waiting caller:
\* "connection closed before response" is said only when it did close.
OnlyDisconnectDrops ==
  [][\A p \in Posts : oneshot[p] = "open" /\ oneshot'[p] = "dropped"
                        => ~(phase = "up" /\ phase' = "up")]_vars

\* The lane implements PostService: the effect of a call is the node's, and
\* the caller's view of it is the stage and outcome of post_request.
ResultOf(p) == CASE stage[p] = "new" -> "idle"
                 [] stage[p] \in {"numbered", "waiting", "cancelling"} -> "called"
                 [] stage[p] = "done" -> IF ret[p] = "answered" THEN "answered"
                                         ELSE "failed"
Service == INSTANCE PostService
             WITH result <- [p \in Posts |-> ResultOf(p)], effects <- executed
ImplementsPostService == Service!Spec

-----------------------------------------------------------------------------
(* Why the post lane is safe: the inductive invariant behind the above.    *)

\* Each post is queued once, and its eviction behind it.
QueueOrdered ==
  \A i, j \in DOMAIN queue : \A p \in Posts :
    queue[i] = Post(p) => /\ queue[j] = Post(p) => i = j
                          /\ queue[j] = CancelPost(p) => i < j
WireOnce ==
  \A i, j \in DOMAIN wire : \A p \in Posts :
    wire[i] = Post(p) /\ wire[j] = Post(p) => i = j

\* A post is in one place: queued, on the wire, astray or carried out.
OnePlace ==
  \A p \in Posts :
    /\ p \in PostsIn(queue) => /\ p \notin PostsIn(wire) \cup strays \cup pending
                               /\ executed[p] = 0
    /\ p \in PostsIn(wire) => p \notin strays /\ executed[p] = 0
    /\ p \in strays => executed[p] = 0
    /\ p \in seen => executed[p] = 1
    /\ executed[p] \in {0, 1}

\* A call that has sent nothing has left no trace.
Untraced ==
  \A p \in Posts : stage[p] \in {"new", "numbered"} =>
    /\ p \notin PostsIn(queue) \cup CancelsIn(queue) \cup PostsIn(wire)
    /\ p \notin strays \cup pending
    /\ executed[p] = 0 /\ oneshot[p] = "none"

\* The one-shot, the outcome and the response agree with the stage.
CallConsistent ==
  \A p \in Posts :
    /\ stage[p] = "waiting" => oneshot[p] \in {"open", "value", "dropped"}
    /\ oneshot[p] = "open" => stage[p] = "waiting" /\ got[p] = {}
    /\ stage[p] = "cancelling" => oneshot[p] = "gone"
    /\ stage[p] # "done" => ret[p] = "none"
    /\ stage[p] = "done" =>
         ret[p] \in (CASE oneshot[p] = "value" -> {"answered"}
                       [] oneshot[p] = "dropped" -> {"closed"}
                       [] oneshot[p] = "none" -> {"dead"}
                       [] OTHER -> {"timedout", "abandoned"})
    /\ oneshot[p] \in {"none", "dropped"} => got[p] = {}
    /\ oneshot[p] = "value" => got[p] = {p}
    /\ got[p] # {} => got[p] = {p} /\ executed[p] = 1

\* A tracked sender is that of a caller who waits or gave up, and a caller
\* whose timeout returned, and only that one, has its eviction queued.
Tracked ==
  /\ \A p \in pending \cup PostsIn(queue) :
       /\ oneshot[p] \in {"open", "gone"}
       /\ ret[p] = "timedout" => p \in CancelsIn(queue)
  /\ \A p \in CancelsIn(queue) : ret[p] = "timedout" /\ oneshot[p] = "gone"

\* Ids in use are distinct and below the counter.
IdsDistinct ==
  \A p \in Posts : stage[p] # "new" =>
    /\ pid[p] < nextId
    /\ \A q \in Posts : stage[q] # "new" /\ pid[q] = pid[p] => q = p

\* Only a running connection tracks senders, and a stopped task has no queue.
TaskIdle == /\ phase # "up" => pending = {}
            /\ phase = "stopped" => queue = <<>>

\* All of it together; it is inductive.
PostInv == /\ QueueOrdered /\ WireOnce /\ OnePlace /\ Untraced
           /\ CallConsistent /\ Tracked /\ IdsDistinct /\ WaiterHasSender
           /\ TaskIdle

-----------------------------------------------------------------------------
(* Subscriptions.                                                          *)

\* The active set never holds two books of one coin, so that no replay can
\* resurrect stale parameters (client.rs:167-170).
OneViewPerCoin == \A s, t \in active : s \in Slot(t) => s = t

IsSub(cmd) == cmd.op \in {"subscribe", "unsubscribe"}
\* The connection is up and every subscription command has reached the node.
Settled == /\ phase = "up"
           /\ \A c \in Callers : pc[c] = <<>>
           /\ \A i \in DOMAIN queue : ~IsSub(queue[i])
           /\ \A i \in DOMAIN wire : ~IsSub(wire[i])

\* Once settled, the node serves exactly the active set: what was subscribed
\* before, during or after an outage is served, what was dropped is not.
Converged == Settled => view = active

-----------------------------------------------------------------------------
(* Reconnecting and stopping.                                              *)

\* Scheduling: the executor runs every ready task, timers fire, a dial and a
\* write end one way or the other.  Callers are free to make no further call,
\* the network to break and the node to answer or not.
Dial == Connect \/ ConnectFails
TaskFairness ==
  /\ WF_vars(Dial) /\ WF_vars(Wake) /\ WF_vars(StartLoop) /\ WF_vars(Exit)
  /\ WF_vars(Stop) /\ WF_vars(HandleSub)
  /\ \A s \in Subs : WF_vars(Replay(s))
  /\ \A p \in Posts : WF_vars(HandlePost(p)) /\ WF_vars(HandleCancel(p))
CallFairness ==
  /\ \A c \in Callers : WF_vars(SendSub(c))
  /\ \A p \in Posts : /\ WF_vars(SendPost(p)) /\ WF_vars(SendCancel(p))
                      /\ WF_vars(TakeReply(p)) /\ WF_vars(Timeout(p))
  /\ WF_vars(ClearAlive)
NodeFairness == WF_vars(NodeReadsSub) /\ \A p \in Posts : WF_vars(NodeReadsPost(p))

FairSpec == Spec /\ TaskFairness /\ CallFairness /\ NodeFairness

\* The gateway is not down for ever: dials that are repeated succeed at last.
ReachableSpec == FairSpec /\ SF_vars(Connect)

\* Every post returns: with a response, an error or a timeout, whether the
\* socket is up, down or gone.
PostsReturn == \A p \in Posts : stage[p] = "numbered" ~> stage[p] = "done"

\* shutdown(), or the drop of the last clone, stops the task.
StopsWhenAsked == (shut # "no" \/ ~handles) ~> phase = "stopped"

\* When outages and calls end, the node comes to serve the active set for
\* good, unless the client was stopped.
EventuallyServed == <>[](view = active \/ phase \in {"stopping", "stopped"})

=============================================================================
