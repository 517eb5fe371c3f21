------------------------------ MODULE WsClient ------------------------------
(***************************************************************************)
(* The WebSocket client of ws/client.rs: cloneable handles used by many    *)
(* caller threads, one background task that owns the socket, and between   *)
(* them an unbounded command queue, the shared set of active               *)
(* subscriptions, one one-shot reply channel per `post` and two atomics.   *)
(*                                                                         *)
(* A caller's step ends where another thread can see or change what it     *)
(* touched (lock, channel send, atomic), a task's step at an await.  The   *)
(* node and the network are external: a connection breaks at any time, a   *)
(* frame that was on a broken connection may still be carried out, and     *)
(* replies come late, twice or never.                                      *)
(***************************************************************************)
EXTENDS Naturals, Sequences, FiniteSets

CONSTANTS
  Callers,         \* threads that hold a clone of the client and (un)subscribe
  Subs,            \* subscriptions
  L2,              \* those that are l2_book channels
  Coin,            \* Coin[s] for s \in L2: the coin of the book
  Manages,         \* Manages[c]: the subscriptions caller c asks for or drops
  Posts,           \* calls of post_request
  MayAbandon,      \* those whose future may be dropped while it waits
  InitialBackoff, MaxBackoff,
  MayRefuse,       \* TRUE if the gateway may refuse the subprotocol offer
  MayStop,         \* TRUE if shutdown() is called or the last clone dropped
  MaxCalls,        \* bound: subscribe / unsubscribe calls per caller
  MaxDrops         \* bound: connections that break

ASSUME SubsAssumption == /\ L2 \subseteq Subs
                         /\ Coin \in [L2 -> {Coin[s] : s \in L2}]
                         /\ Manages \in [Callers -> SUBSET Subs]
ASSUME PostsAssumption == MayAbandon \subseteq Posts
ASSUME BoundsAssumption == /\ InitialBackoff \in Nat /\ MaxBackoff \in Nat
                           /\ MayRefuse \in BOOLEAN /\ MayStop \in BOOLEAN
                           /\ MaxCalls \in Nat /\ MaxDrops \in Nat

VARIABLES
  \* shared by the clones
  active,      \* subscriptions to replay on reconnect
  queue,       \* commands sent to the task and not yet received by it
  alive,       \* the AtomicBool behind is_alive()
  nextId,      \* the AtomicU64 correlation id source
  handles,     \* some clone of the client still exists
  shut,        \* shutdown(): "no", "sent" (command queued), "done" (returned)
  \* per subscribe / unsubscribe call
  pc,          \* pc[c]: <<cmd>> between the update of active and the send
  calls,       \* calls[c]: number of calls c has made
  \* per post call
  stage, pid, oneshot, ret,
  got,         \* got[p]: the requests whose responses were handed to p
  \* the background task
  phase, backoff, offer, replay, pending,
  \* network and node
  wire,        \* frames written to the socket, not yet read by the node
  view,        \* subscriptions the node serves on this connection
  seen,        \* posts the node has read on this connection
  strays,      \* posts written to a broken connection: may yet be carried out
  executed,    \* executed[p]: how often the node carried p out
  drops

callVars == <<pc, calls, active>>
postVars == <<nextId, stage, pid, ret>>
lifeVars == <<alive, handles, shut>>
dialVars == <<backoff, offer>>
nodeVars == <<view, seen, strays, executed>>
vars == <<callVars, postVars, lifeVars, dialVars, nodeVars,
          queue, oneshot, got, phase, replay, pending, wire, drops>>

-----------------------------------------------------------------------------
(* Commands and the two tables they edit.                                  *)

Subscribe(s)   == [op |-> "subscribe", s |-> s]
Unsubscribe(s) == [op |-> "unsubscribe", s |-> s]
Post(p)        == [op |-> "post", p |-> p]
CancelPost(p)  == [op |-> "cancel", p |-> p]
Shutdown       == [op |-> "shutdown"]

SubCommands == {Subscribe(s) : s \in Subs} \cup {Unsubscribe(s) : s \in Subs}
Commands == SubCommands \cup {Post(p) : p \in Posts}
              \cup {CancelPost(p) : p \in Posts} \cup {Shutdown}
Frames == SubCommands \cup {Post(p) : p \in Posts}

\* The subscriptions that exclude s: a book is keyed by coin, whatever its
\* aggregation parameters; any other channel is keyed by itself.
Slot(s) == IF s \in L2 THEN {x \in L2 : Coin[x] = Coin[s]} ELSE {s}

\* Mutants: a book matched with its parameters; the command itself stored.
RegisteredByEquality(set, cmd) ==
  (set \ {cmd.s}) \cup (IF cmd.op = "subscribe" THEN {cmd.s} ELSE {})
RegisteredCommand(set, cmd) ==
  (set \ Slot(cmd.s)) \cup (IF cmd.op = "subscribe" THEN {cmd} ELSE {})

\* How subscribe() and unsubscribe() edit the active set.
Registered(set, cmd) ==
  (set \ Slot(cmd.s)) \cup (IF cmd.op = "subscribe" THEN {cmd.s} ELSE {})

\* How the node edits what it serves: one book per coin, replaced by a new
\* subscription and dropped by coin.
Served(set, cmd) ==
  (set \ Slot(cmd.s)) \cup (IF cmd.op = "subscribe" THEN {cmd.s} ELSE {})

PostsIn(seq) == {p \in Posts : \E i \in DOMAIN seq : seq[i] = Post(p)}

Connected == phase \in {"replaying", "up"}
QueueOpen == phase # "stopped"

-----------------------------------------------------------------------------
Init ==
  /\ active = {} /\ queue = <<>> /\ alive = TRUE /\ nextId = 1
  /\ handles = TRUE /\ shut = "no"
  /\ pc = [c \in Callers |-> <<>>]
  /\ calls = [c \in Callers |-> 0]
  /\ stage = [p \in Posts |-> "new"]
  /\ pid = [p \in Posts |-> 0]
  /\ oneshot = [p \in Posts |-> "none"]
  /\ ret = [p \in Posts |-> "none"]
  /\ got = [p \in Posts |-> {}]
  /\ phase = "connecting" /\ backoff = InitialBackoff /\ offer = TRUE
  /\ replay = {} /\ pending = {}
  /\ wire = <<>> /\ view = {} /\ seen = {} /\ strays = {}
  /\ executed = [p \in Posts |-> 0]
  /\ drops = 0

-----------------------------------------------------------------------------
(* Callers: subscribe and unsubscribe.                                     *)

\* First half of the call: lock active, edit it, unlock.
Register(c, cmd) ==
  /\ handles /\ pc[c] = <<>> /\ calls[c] < MaxCalls
  /\ active' = Registered(active, cmd)
  /\ pc' = [pc EXCEPT ![c] = <<cmd>>]
  /\ calls' = [calls EXCEPT ![c] = @ + 1]
  /\ UNCHANGED <<postVars, lifeVars, dialVars, nodeVars,
                 queue, oneshot, got, phase, replay, pending, wire, drops>>

\* Mutant: while no connection is up the command is left to the replay.
SendSubWhenUp(c) ==
  /\ pc[c] # <<>>
  /\ queue' = IF phase = "up" THEN queue \o pc[c] ELSE queue
  /\ pc' = [pc EXCEPT ![c] = <<>>]
  /\ UNCHANGED <<calls, active, postVars, lifeVars, dialVars, nodeVars,
                 oneshot, got, phase, replay, pending, wire, drops>>

\* Second half: send the command; an error if the receiver is gone.
SendSub(c) ==
  /\ pc[c] # <<>>
  /\ queue' = IF QueueOpen THEN queue \o pc[c] ELSE queue
  /\ pc' = [pc EXCEPT ![c] = <<>>]
  /\ UNCHANGED <<calls, active, postVars, lifeVars, dialVars, nodeVars,
                 oneshot, got, phase, replay, pending, wire, drops>>

-----------------------------------------------------------------------------
(* Callers: post_request.                                                  *)

\* Mutant: the counter is read and not advanced.
TakeIdUnchanged(p) ==
  /\ handles /\ stage[p] = "new"
  /\ stage' = [stage EXCEPT ![p] = "numbered"]
  /\ pid' = [pid EXCEPT ![p] = nextId]
  /\ UNCHANGED <<callVars, nextId, ret, lifeVars, dialVars, nodeVars, queue,
                 oneshot, got, phase, replay, pending, wire, drops>>

\* fetch_add on the shared counter.
TakeId(p) ==
  /\ handles /\ stage[p] = "new"
  /\ stage' = [stage EXCEPT ![p] = "numbered"]
  /\ pid' = [pid EXCEPT ![p] = nextId]
  /\ nextId' = nextId + 1
  /\ UNCHANGED <<callVars, ret, lifeVars, dialVars, nodeVars, queue, oneshot,
                 got, phase, replay, pending, wire, drops>>

\* Create the one-shot and send the command.
SendPost(p) ==
  /\ stage[p] = "numbered"
  /\ IF QueueOpen
     THEN /\ queue' = Append(queue, Post(p))
          /\ oneshot' = [oneshot EXCEPT ![p] = "open"]
          /\ stage' = [stage EXCEPT ![p] = "waiting"]
          /\ UNCHANGED ret
     ELSE /\ stage' = [stage EXCEPT ![p] = "done"]
          /\ ret' = [ret EXCEPT ![p] = "dead"]
          /\ UNCHANGED <<queue, oneshot>>
  /\ UNCHANGED <<callVars, nextId, pid, lifeVars, dialVars, nodeVars,
                 got, phase, replay, pending, wire, drops>>

\* The awaited one-shot resolves: a response, or its sender was dropped.
TakeReply(p) ==
  /\ stage[p] = "waiting" /\ oneshot[p] \in {"value", "dropped"}
  /\ stage' = [stage EXCEPT ![p] = "done"]
  /\ ret' = [ret EXCEPT ![p] =
               IF oneshot[p] = "value" THEN "answered" ELSE "closed"]
  /\ UNCHANGED <<callVars, nextId, pid, lifeVars, dialVars, nodeVars, queue,
                 oneshot, got, phase, replay, pending, wire, drops>>

\* Mutants: a timeout that sends the request again; one that fires only while
\* the connection is down.
TimeoutRetries(p) ==
  /\ stage[p] = "waiting" /\ oneshot[p] = "open" /\ Len(queue) < 3
  /\ queue' = IF QueueOpen THEN Append(queue, Post(p)) ELSE queue
  /\ UNCHANGED <<callVars, postVars, lifeVars, dialVars, nodeVars, oneshot,
                 got, phase, replay, pending, wire, drops>>
TimeoutInOutage(p) ==
  /\ phase # "up"
  /\ stage[p] = "waiting" /\ oneshot[p] = "open"
  /\ stage' = [stage EXCEPT ![p] = "cancelling"]
  /\ oneshot' = [oneshot EXCEPT ![p] = "gone"]
  /\ UNCHANGED <<callVars, nextId, pid, ret, lifeVars, dialVars, nodeVars,
                 queue, got, phase, replay, pending, wire, drops>>

\* post_timeout elapses; the timer loses to a one-shot that is ready.
Timeout(p) ==
  /\ stage[p] = "waiting" /\ oneshot[p] = "open"
  /\ stage' = [stage EXCEPT ![p] = "cancelling"]
  /\ oneshot' = [oneshot EXCEPT ![p] = "gone"]
  /\ UNCHANGED <<callVars, nextId, pid, ret, lifeVars, dialVars, nodeVars,
                 queue, got, phase, replay, pending, wire, drops>>

\* Mutant: the eviction is forgotten.
SendNoCancel(p) ==
  /\ stage[p] = "cancelling"
  /\ stage' = [stage EXCEPT ![p] = "done"]
  /\ ret' = [ret EXCEPT ![p] = "timedout"]
  /\ UNCHANGED <<callVars, nextId, pid, lifeVars, dialVars, nodeVars, oneshot,
                 queue, got, phase, replay, pending, wire, drops>>

\* After a timeout: ask the task to evict the entry, best effort.
SendCancel(p) ==
  /\ stage[p] = "cancelling"
  /\ stage' = [stage EXCEPT ![p] = "done"]
  /\ ret' = [ret EXCEPT ![p] = "timedout"]
  /\ queue' = IF QueueOpen THEN Append(queue, CancelPost(p)) ELSE queue
  /\ UNCHANGED <<callVars, nextId, pid, lifeVars, dialVars, nodeVars, oneshot,
                 got, phase, replay, pending, wire, drops>>

\* The caller drops the future at its await: no CancelPost is sent.
Abandon(p) ==
  /\ p \in MayAbandon /\ stage[p] = "waiting"
  /\ stage' = [stage EXCEPT ![p] = "done"]
  /\ ret' = [ret EXCEPT ![p] = "abandoned"]
  /\ oneshot' = [oneshot EXCEPT ![p] = "gone"]
  /\ UNCHANGED <<callVars, nextId, pid, lifeVars, dialVars, nodeVars, queue,
                 got, phase, replay, pending, wire, drops>>

-----------------------------------------------------------------------------
(* Callers: shutdown() and dropping the last clone.                        *)

SendShutdown ==
  /\ MayStop /\ handles /\ shut = "no"
  /\ shut' = "sent"
  /\ queue' = IF QueueOpen THEN Append(queue, Shutdown) ELSE queue
  /\ UNCHANGED <<callVars, postVars, alive, handles, dialVars, nodeVars,
                 oneshot, got, phase, replay, pending, wire, drops>>

ClearAlive ==
  /\ shut = "sent"
  /\ shut' = "done"
  /\ alive' = FALSE
  /\ UNCHANGED <<callVars, postVars, handles, dialVars, nodeVars, queue,
                 oneshot, got, phase, replay, pending, wire, drops>>

\* Every call borrows its clone, so none is in progress.
DropLastClone ==
  /\ MayStop /\ handles /\ shut # "sent"
  /\ \A c \in Callers : pc[c] = <<>>
  /\ \A p \in Posts : stage[p] \in {"new", "done"}
  /\ handles' = FALSE
  /\ UNCHANGED <<callVars, postVars, alive, shut, dialVars, nodeVars, queue,
                 oneshot, got, phase, replay, pending, wire, drops>>

-----------------------------------------------------------------------------
(* The task: run_background's loop around run_connection.                  *)

\* A refused offer is withdrawn for good before the plain dial that follows.
OfferAfterDial == IF offer /\ MayRefuse THEN {TRUE, FALSE} ELSE {offer}

\* Mutant: a new connection is not told the active subscriptions.
ConnectWithoutReplay ==
  /\ phase = "connecting"
  /\ phase' = "replaying"
  /\ offer' \in OfferAfterDial
  /\ UNCHANGED <<callVars, postVars, lifeVars, backoff, nodeVars,
                 queue, oneshot, got, replay, pending, wire, drops>>

\* The dial succeeds; the active set is cloned under its lock for the replay.
Connect ==
  /\ phase = "connecting"
  /\ phase' = "replaying"
  /\ offer' \in OfferAfterDial
  /\ replay' = active
  /\ UNCHANGED <<callVars, postVars, lifeVars, backoff, nodeVars,
                 queue, oneshot, got, pending, wire, drops>>

ConnectFails ==
  /\ phase = "connecting"
  /\ phase' = "sleeping"
  /\ offer' \in OfferAfterDial
  /\ UNCHANGED <<callVars, postVars, lifeVars, backoff, nodeVars,
                 queue, oneshot, got, replay, pending, wire, drops>>

\* The sleep of `backoff` ends; the task does not look at the queue meanwhile.
Wake ==
  /\ phase = "sleeping"
  /\ phase' = "connecting"
  /\ backoff' = IF 2 * backoff < MaxBackoff THEN 2 * backoff ELSE MaxBackoff
  /\ UNCHANGED <<callVars, postVars, lifeVars, offer, nodeVars,
                 queue, oneshot, got, replay, pending, wire, drops>>

\* One-shots whose senders, those of the posts in set, are dropped unused.
Dropped(set) ==
  [p \in Posts |-> IF p \in set /\ oneshot[p] = "open" THEN "dropped"
                   ELSE oneshot[p]]

\* Mutant: the senders outlive the connection that would use them.
EndKeepingSenders(lost) ==
  /\ oneshot' = Dropped(lost)
  /\ pending' = {} /\ replay' = {} /\ wire' = <<>>
  /\ view' = {} /\ seen' = {}
  /\ strays' = strays \cup PostsIn(wire) \cup lost

\* run_connection returns: the correlation map and the socket go with it.
\* `lost` is the post in hand, if any: its sender goes too, its frame may have
\* left like those the node has not read.
EndConnection(lost) ==
  /\ oneshot' = Dropped(pending \cup lost)
  /\ pending' = {} /\ replay' = {} /\ wire' = <<>>
  /\ view' = {} /\ seen' = {}
  /\ strays' = strays \cup PostsIn(wire) \cup lost

\* A replayed subscription is written.
Replay(s) ==
  /\ phase = "replaying" /\ s \in replay
  /\ wire' = Append(wire, Subscribe(s))
  /\ replay' = replay \ {s}
  /\ UNCHANGED <<callVars, postVars, lifeVars, dialVars, nodeVars,
                 queue, oneshot, got, phase, pending, drops>>

StartLoop ==
  /\ phase = "replaying" /\ replay = {}
  /\ phase' = "up"
  /\ UNCHANGED <<callVars, postVars, lifeVars, dialVars, nodeVars,
                 queue, oneshot, got, replay, pending, wire, drops>>

\* The socket breaks: a failed replay or ping, a close or an error read.
LoseConnection ==
  /\ phase = "up" \/ (phase = "replaying" /\ replay # {})
  /\ drops < MaxDrops
  /\ EndConnection({})
  /\ phase' = "sleeping"
  /\ drops' = drops + 1
  /\ UNCHANGED <<callVars, postVars, lifeVars, dialVars, executed, queue, got>>

\* select! takes a subscribe or unsubscribe command.
HandleSub ==
  /\ phase = "up" /\ queue # <<>> /\ Head(queue) \in SubCommands
  /\ wire' = Append(wire, Head(queue))
  /\ queue' = Tail(queue)
  /\ UNCHANGED <<callVars, postVars, lifeVars, dialVars, nodeVars,
                 oneshot, got, phase, replay, pending, drops>>

\* The entries of the correlation map under the id of p.
SameId(p) == {q \in pending : pid[q] = pid[p]}

\* select! takes a post: write the frame, then enter its reply sender under
\* its id, dropping the sender that was there.
HandlePost(p) ==
  /\ phase = "up" /\ queue # <<>> /\ Head(queue) = Post(p)
  /\ wire' = Append(wire, Post(p))
  /\ queue' = Tail(queue)
  /\ pending' = (pending \ SameId(p)) \cup {p}
  /\ oneshot' = Dropped(SameId(p) \ {p})
  /\ UNCHANGED <<callVars, postVars, lifeVars, dialVars, nodeVars,
                 got, phase, replay, drops>>

\* select! takes an eviction.
HandleCancel(p) ==
  /\ phase = "up" /\ queue # <<>> /\ Head(queue) = CancelPost(p)
  /\ queue' = Tail(queue)
  /\ pending' = pending \ SameId(p)
  /\ oneshot' = Dropped(SameId(p))
  /\ UNCHANGED <<callVars, postVars, lifeVars, dialVars, nodeVars,
                 got, phase, replay, wire, drops>>

\* Mutant: the command whose write failed is kept for the next connection.
SendFailsRequeues ==
  /\ phase = "up" /\ queue # <<>> /\ Head(queue) \in Frames
  /\ drops < MaxDrops
  /\ oneshot' = Dropped(pending)
  /\ pending' = {} /\ replay' = {} /\ wire' = <<>> /\ view' = {} /\ seen' = {}
  /\ strays' = strays \cup PostsIn(wire) \cup PostsIn(<<Head(queue)>>)
  /\ phase' = "sleeping"
  /\ drops' = drops + 1
  /\ UNCHANGED <<callVars, postVars, lifeVars, dialVars, executed, queue, got>>

\* The write of a frame fails: the command is consumed, the connection ends,
\* and the frame may or may not have left.
SendFails ==
  /\ phase = "up" /\ queue # <<>> /\ Head(queue) \in Frames
  /\ drops < MaxDrops
  /\ EndConnection(PostsIn(<<Head(queue)>>))
  /\ queue' = Tail(queue)
  /\ phase' = "sleeping"
  /\ drops' = drops + 1
  /\ UNCHANGED <<callVars, postVars, lifeVars, dialVars, executed, got>>

\* Mutant: the loop does not notice that every clone is gone.
StopOnCommand ==
  /\ phase = "up" /\ queue # <<>> /\ Head(queue) = Shutdown
  /\ queue' = Tail(queue)
  /\ EndConnection({})
  /\ phase' = "stopping"
  /\ UNCHANGED <<callVars, postVars, lifeVars, dialVars, executed, got, drops>>

\* select! takes the Shutdown command, or finds every sender gone.
Stop ==
  /\ phase = "up"
  /\ \/ queue # <<>> /\ Head(queue) = Shutdown /\ queue' = Tail(queue)
     \/ queue = <<>> /\ ~handles /\ UNCHANGED queue
  /\ EndConnection({})
  /\ phase' = "stopping"
  /\ UNCHANGED <<callVars, postVars, lifeVars, dialVars, executed, got, drops>>

\* run_background leaves its loop; its receiver goes with the queued commands.
Exit ==
  /\ phase = "stopping"
  /\ phase' = "stopped"
  /\ alive' = FALSE
  /\ oneshot' = Dropped(PostsIn(queue))
  /\ queue' = <<>>
  /\ UNCHANGED <<callVars, postVars, handles, shut, dialVars, nodeVars,
                 got, replay, pending, wire, drops>>

\* A {channel:"post"} frame with the id and the response of p is dispatched.
Reply(p) ==
  /\ phase = "up" /\ p \in seen
  /\ LET waiting == {q \in SameId(p) : oneshot[q] = "open"}
     IN  /\ oneshot' = [q \in Posts |->
                          IF q \in waiting THEN "value" ELSE oneshot[q]]
         /\ got' = [q \in Posts |->
                      IF q \in waiting THEN got[q] \cup {p} ELSE got[q]]
  /\ pending' = pending \ SameId(p)
  /\ UNCHANGED <<callVars, postVars, lifeVars, dialVars, nodeVars,
                 queue, phase, replay, wire, drops>>

-----------------------------------------------------------------------------
(* The node (external).                                                    *)

NodeReadsSub ==
  /\ Connected /\ wire # <<>> /\ Head(wire) \in SubCommands
  /\ view' = Served(view, Head(wire))
  /\ wire' = Tail(wire)
  /\ UNCHANGED <<callVars, postVars, lifeVars, dialVars, seen, strays, executed,
                 queue, oneshot, got, phase, replay, pending, drops>>

NodeReadsPost(p) ==
  /\ Connected /\ wire # <<>> /\ Head(wire) = Post(p)
  /\ executed' = [executed EXCEPT ![p] = @ + 1]
  /\ seen' = seen \cup {p}
  /\ wire' = Tail(wire)
  /\ UNCHANGED <<callVars, postVars, lifeVars, dialVars, view, strays,
                 queue, oneshot, got, phase, replay, pending, drops>>

\* A post of a broken connection had reached the node after all.
NodeReadsStray(p) ==
  /\ p \in strays
  /\ strays' = strays \ {p}
  /\ executed' = [executed EXCEPT ![p] = @ + 1]
  /\ UNCHANGED <<callVars, postVars, lifeVars, dialVars, view, seen,
                 queue, oneshot, got, phase, replay, pending, wire, drops>>

-----------------------------------------------------------------------------
Calls ==
  \/ \E c \in Callers : \/ \E s \in Manages[c] : \/ Register(c, Subscribe(s))
                                                 \/ Register(c, Unsubscribe(s))
                        \/ SendSub(c)
  \/ \E p \in Posts : \/ TakeId(p) \/ SendPost(p) \/ TakeReply(p)
                      \/ Timeout(p) \/ SendCancel(p) \/ Abandon(p)
  \/ SendShutdown \/ ClearAlive \/ DropLastClone

Task ==
  \/ Connect \/ ConnectFails \/ Wake \/ StartLoop \/ LoseConnection
  \/ HandleSub \/ SendFails \/ Stop \/ Exit
  \/ \E s \in Subs : Replay(s)
  \/ \E p \in Posts : HandlePost(p) \/ HandleCancel(p) \/ Reply(p)

Node ==
  \/ NodeReadsSub
  \/ \E p \in Posts : NodeReadsPost(p) \/ NodeReadsStray(p)

Next == Calls \/ Task \/ Node

Spec == Init /\ [][Next]_vars
=============================================================================
