# A TLA+ model of the MetaFlux Rust client

Specifications, model-checking configurations and proofs for
`metaflux-client` (the crate under `src/src`). The crate is an SDK: it signs
actions, posts them over REST or a WebSocket, and keeps a stream of
subscriptions alive. The exchange node is not part of it; here it is external
and modelled only by what the client relies on.

`PROJECT.json` lists the runs, the mutants that show each property can fail,
the map from definitions to source lines, the findings, the hazards and the
theorems.

## 1. Inventory

| component | state | operations | talks to | hard behaviour | correct when |
|---|---|---|---|---|---|
| WebSocket client `ws/client.rs` | active set (mutex), command queue, `alive`, `post_id`, correlation map, back-off, dial offer | subscribe, unsubscribe, post, shutdown, drop; connect, replay, select loop, dispatch | callers by queue and one-shots, gateway by socket | callers race each other and the task; outages, late frames, timeouts, dropped futures | the node serves the active set; a post happens at most once, answers its own caller, and always returns |
| Nonce source `rest/exchange.rs` `next_nonce` | one process-wide atomic | next_nonce | every signer | relaxed atomics, weak exchange, a clock set back, saturation | nonces are unique and follow real time |
| `place_order` `rest/place.rs` | loop index, sent, not_sent | perp batch, spot sequence | nonce source, signed lane, node | an answer lost or given before the commit, an action late, the caller gone | stops at an error; what it goes on behind is decided, or reported as pending; reports what was and was not sent |
| HTTP envelope `rest/mod.rs` | none | post_json, decode_envelope | node | body against status | never turns a rejection into an Ok |
| Trading actions `rest/exchange.rs`, `wallet/typed_orders.rs`, `types/` | none | sixteen actions, their `_as` and WebSocket forms | nonce source, node | the signed struct and the posted body are built side by side, after guards and a coercion; presence chooses the type string | what is posted verifies against itself, acts for the right account, and a signature has one meaning |
| Account, governance and deploy actions `rest/exchange_typed.rs`, `rest/exchange.rs`, `wallet/typed.rs`, `wallet/typed_account.rs`, `wallet/multisig.rs` | none | about ninety methods, the params-struct methods that end in them, their `_as` forms, bundles of a roster | nonce source, node | keys that are renamed or left out, Options flattened into the struct, codes against names, two APIs for one action, a nonce that is not drawn | what is signed is what is posted; a signature has one meaning; a bundle speaks for its roster and no other |
| Inbound frames `ws/compress.rs`, `ws/subscriptions.rs`, `run_connection` and `dispatch` of `ws/client.rs` | the offer, the mode of a connection, the broadcast ring | handshake and its retry, decode, broadcast, `messages()` | gateway, receivers | a gateway replaced between two handshakes, bad frames, lag, silent reconnects | what arrives whole is read; one extra handshake in all; no reader applies a change over a gap |
| Grid and TWAP planning `grid.rs`, `twap_plan.rs` | none | rounding, slicing | none | floors, overflow, order of checks | the best point of the grid within what was asked; the most slices that meet the floor |
| MIP-3 kit and CLI `mip3/`, `bin/mip3-deploy.rs` (deprecated: the node refuses its requests) | polling delay, step index | bid, wait for credit, deploy sequence | node | a step fails half way | stops at the first failure |
| Faucet `faucet.rs` | none | one signed claim | faucet | none | |
| Wallet `wallet/key.rs`, `sign.rs`, `multisig.rs` | key | digests, signatures | none | cryptography | |
| Info reads `rest/info*`, wire types `types/` | none | request and decode | node | schema drift | |

## 2. Modules

    PostService  <--refines--  WsClient  --EXTENDS-->  WsClientProperties
                                                          |         |
                                                      MCWsClient  WsClientProofs, WsPostProofs
    NonceSource  <--refines--  NonceClock  ->  MCNonceClock, NonceProofs
         ^
         '---- instantiated by  PlaceOrder  ->  MCPlaceOrder, PlaceProofs
    TradeLane  ->  MCTradeLane, TradeLaneProofs
    TypedActions  <--EXTENDS--  ActionMethods  <--EXTENDS--  AccountLane  ->  MCAccountLane, AccountLaneProofs
    WsInbound  ->  InboundProofs
    Planner  ->  MCPlanner, PlannerProofs

**`WsClient`** models `ws/client.rs`: the handles the callers hold, the
unbounded queue, the shared active set, the one-shots of posts, and the
background task.

* A step of a caller ends where another thread can see or change what it
  touched: `subscribe` is two steps (`Register`: lock, edit, unlock; `SendSub`:
  queue the command), `post_request` is up to four (`TakeId`, `SendPost`, then
  `TakeReply`, or `Timeout` and `SendCancel`), `shutdown` is two.
  `Abandon` is a future dropped at its await.
* A step of the task ends at an await. `phase` is the point it stands at:
  dialling, sleeping, replaying, in the select loop, between loop and exit,
  gone. The write of a frame succeeds (`HandleSub`, `HandlePost`, `Replay`) or
  ends the connection (`SendFails`, `LoseConnection`); in the second case the
  frame may still have left.
* `oneshot[p]` is the state of one reply channel: not created, open, holding a
  value, its sender dropped, its receiver gone. `pending` is the correlation
  map, keyed by `pid` as in the code: two posts under one id would displace
  each other, so that uniqueness of ids is a property and not an assumption.
* `Slot(s)` is the set of subscriptions that exclude `s`: a book is keyed by
  coin alone. The `Vec` of active subscriptions is a set: nothing reads its
  order, and `subscribe` keeps it free of duplicates.
* The compression offer is the flag that is cleared for good; what it leads to
  is `WsInbound`. Pings appear as a write that may fail.
* External: the gateway reads frames in order on a live connection, keeps one
  book per coin, replies late, twice or never (`seen` is never consumed), and
  may carry out what was written to a connection that broke (`strays`).

**`PostService`** is what the post lane promises: call, effect, answer or
failure, the effect at most once and possibly after the failure.
`WsClientProperties` maps `WsClient` to it (`ImplementsPostService`) and holds
every property and the fairness.

**`NonceClock`** models `next_nonce` at the level of single atomic accesses.
All are `Relaxed`: a load, and the value reported by a failed exchange, may be
any value the atomic held that is not older than what the call saw. The wall
clock moves to any value at any time. **`NonceSource`** is the atomic source it
implements.

**`PlaceOrder`** models `place_order` with `batch_order`/`spot_order` down to
the post: the nonce, the signature, the wait, the answer. It draws nonces from
`NonceSource`, which is sound because `NonceClock` implements it for every
number of callers (proved). The node checks a nonce as `error.rs:78-88` says:
used, or more than a window below the newest, is dropped at commit, and that
comes back as a status inside an Ok. An action that was admitted (`NodeAdmits`)
may be answered before it is decided: the gateway's wait for a commit ends, the
answer is a 200 with the status "pending" (types/order.rs:515-523), the post
returns Ok and the loop posts the next order. `Answer` is the table of what a
post returns for what the node made of it, and the node may commit a pending
order at any later time (`NodeCommits`): behind the next order of its own call,
or never, because that order pushed its nonce out of the window. The properties
say so: an order is behind a later one of its call, or dropped on account of it,
only if the call reports it as pending. Whether a committed order rests, fills
or is rejected by the book makes no difference here and is not told apart.

**`TradeLane`** models the signed trading actions from the method to the wire.
A call takes a request, and is refused by a guard (`Reject`), refused by the
digest with its nonce spent (`FailToSign`), or posts an envelope (`Post`).
`Body` and `Payload` are what a method posts and what it signs; `Digest` is the
struct: the kind with the names its type string signs, their words, the owner,
nonce and expiry. A hash is the value it is taken of, so two digests are equal
exactly when every word and the type string are; that the encodings of single
words are injective is taken for granted, while the zero forms of absent fields
and the flat hash of a batch are modelled. The node is external: it rebuilds
the struct from the envelope, and reads the owner of a batch from the batch and
not from its legs (order.rs:383). `WellFormed` says what the types of a payload
admit: its fields, Options and enums. That a cancel has an oid or a cloid and
not both is documented (order.rs:330) and not a matter of types: requests with
both are posted in the model, and `SignedMeansOne` asks for `NamesOnce`.

**`AccountLane`** does the same for the account, governance and deploy actions,
with the facts about single actions in tables. `TypedActions` is the digest
side: `Structs`, the fields of every `TypedAction`; the frozen type strings,
which do not follow one order; the words `encode_data` hashes, one operator for
each action whose words are not its fields in order; and how an owner and an
expiry are folded into both (`BindOwner`, `FoldedType`, `HashStruct`).
`ActionMethods` is the API side: the arguments of every method of
`exchange_typed.rs`, the struct behind every method of `exchange.rs`, and in
which order the second hands its fields to the first. `AccountLane` is what
happens in between. `Args` unwraps the Options of a params struct; `Signed`
turns arguments into the struct (a flag for each Option, a code for each enum);
`Body` turns them into the posted params (keys renamed, empty Options and an
expiry of zero left out, names where the struct has codes). `Invalid` are the
guards. `Reject`, `Post` and `PostAtNonce` are the three ways a call ends: the
third posts a bundle at the nonce its roster signed and draws none. `RequestAssumption` is what the types of the methods admit: which of a
method's arguments may be None (`Options`, `Held`, `MayBeNone`), and of which
names an enum is (`Variants`). The large tables are written by topic and put
together by `Merged`, so that a proof can look an action up in its own table. The
signature of a member carries what the member meant by it (`meant`), so that
what the node counts can be compared with what was intended. The node is
external: it has the envelope, rebuilds the struct from the keys and counts the
members of a bundle.

**`WsInbound`** models what comes in. A handshake is made with the offer while
that stands (`Connect`); a gateway that answers none of the tokens fails it, the
offer is cleared, and a plain handshake follows at once and may fail too
(`ConnectPlain`). The mode is what `from_selected` makes of the answer.
`Receive` is `dispatch`: the opcode and the mode say what decodes, replies to
posts stay with the task, everything else goes to the broadcast ring if there is
a receiver. `messages(r)` gives a receiver its place. External: the gateway,
whose versions (`current`, `stale`, `old`) replace each other at any time while
an open connection stays with the one it was made with; a channel whose frames
are a snapshot and then changes (client.rs:391-392); tokio's broadcast, which
keeps `Capacity` frames and tells a receiver when it lagged; and the reader, who
applies changes from a snapshot on and starts afresh when told of a lag. `ring`
is every frame that was ever broadcast; what of it is kept is `Oldest` and up.
`spoiled`, `unread` and `torn` are history.

**`Planner`** holds the pure helpers as operators: `RoundOrder`
(`round_order_to_grid`), `UsdSize` (`usd_to_wire_size`) and `PlanTwap`
(`twap_from_duration`), with the checks in the order of the code. A behaviour
is one request and its answer. A decimal string is a fraction `num / den` or
`Unreadable`; `Scaled` truncates it onto a plane as `decimal_to_scaled` does,
and `Parses` refuses what does not fit u128. 10^sz_decimals is the constant
`lot` of a market.

## 3. Runs

`PROJECT.json` "runs" names the cfg and the properties. Bounds are the
constants of each cfg.

| run | instance | shows |
|---|---|---|
| `subscriptions` | two callers with disjoint channels, two views of one book plus another channel, offers refused, an outage | `OneViewPerCoin`, `Converged` |
| `posts` | two posts, one of which may be dropped, broken connections | `PostInv` and the six properties of the lane |
| `liveness` | one subscriber, one post, one stop, one outage | `PostsReturn`, `StopsWhenAsked`, `EventuallyServed`, `TypeOK` |
| `nonces` | three calls, range 0..4 | uniqueness, order, refinement |
| `placing` | three spot orders, a perp batch, an empty request, window 1, nonces up to 5 | `PlaceInv`, `NotSentStaysOut`, `KnownBeforeNext`, `OnlyOvertaken`, `CallsReturn` |
| `planning` | every schedule up to a duration of 15, markets of every kind of grid with sizes and prices up to 15, with a price plane of 10, u64 = 0..15 and u128 = 0..255 | `OrderIsBest`, `CadenceKept`, `WindowKept`, `NotionalKept` |
| `trading_actions` | two calls over 16 kinds, 4 lanes and about 400 payloads that differ in the fields an encoding could merge: presence of each optional field, zero against absent, kinds, time in force, triggers, owners, legs of batches up to two | `Verifies`, `SignedMeansOne`, `ActsForAsked`, `FitForNode` |
| `account_actions` | two calls over every method of both APIs: of each a base request and those that differ from it in one field (presence, zero, the edges of a width, every name of an enum), in owner, signer or expiry; bundles of two accounts that share a roster, signed by either scheme | `Verifies`, `SignedMeansOne`, `ActsForAsked`, `RosterSpeaks`, `WordsFollowType` |
| `inbound` | two receivers, a ring of one frame, three commits, a frame of another channel, one replacement of the gateway, three handshakes, frames that may be spoiled | `EveryFrameRead`, `OneExtraHandshake`, `NoGapApplied` |
| the other three | the smallest instance that disagrees | one documented claim each, refuted (see "findings") |

Why the bounds are enough. The post lane treats posts one by one, and
interaction needs two: a shared id, an eviction of another's entry, a reply for
another. Two outages reach every order of loss, replay and late delivery; a
third repeats the second, as nothing but the back-off survives a connection,
and that saturates at its cap. Two views of one coin and one other channel are
the kinds of slot there are. For nonces, three calls give one call that loses
the exchange twice. Three spot orders have a first, a middle and a last,
and with a window of 1 the third can push the nonce of a pending first out of it.
`SignedMeansOne` relates two calls, so two are enough, in `trading_actions` and
in `account_actions`; the two calls are interchangeable, hence the symmetry. A
field of an account action is encoded by itself, so requests that differ in one
field show what two encodings could merge. For `inbound`, a ring of one frame
makes every receiver lag that can; three commits are a snapshot, a change and a
change over a gap; three handshakes are a refused one, its successor and one
after an outage. For `planning` the widths are small so that both overflow within the
inputs, and the grids hold one of each kind: whole, on the plane, finer than
the plane, zero, too large, unreadable. What
is proved below does not depend on the bounds at all.

Deadlock checking is off in every cfg: calls are bounded and a client that was
stopped does nothing more.

### Fairness

`WsClientProperties!FairSpec` assumes that the executor runs ready tasks, that
timers fire, and that a dial and a write end in success or failure. Nothing
makes a caller call, a connection break, or a node answer. The select loop of
tokio picks a ready branch at random, so a queue that stays non-empty is
served: weak fairness of its branches. A write has no timeout of its own in the code; that it ends is TCP's
doing, which may take long. `ReachableSpec` adds strong fairness of `Connect`:
a gateway that is dialled for ever answers at last. Where a stop is requested
while the gateway is down for good, the run `stop_unreachable` shows that
nothing stops the task. `PlaceOrder!FairSpec` assumes the 30 s timeout
of `RestClient::new`; a client built by `from_http` has whatever its caller
configured. So `PostsReturn` and `CallsReturn` say that a timeout does end its
call, whatever became of the request; they cannot see a reply sender that was
lost (`WaiterHasSender` does) or a client that has no timeout (nothing does).
`NoOrphanEntry` speaks of callers that wait for their answer: the entry that an
abandoned future leaves behind stays until the connection ends.

### Findings

Three places where the documentation says more than the code does; each is a
run with the counterexample, and "findings" quotes both sides. In short: two
clones racing over one book can leave the node on the other view; `shutdown()`
does not reach a task that cannot connect; the guard of a limit trigger misses
what the market coercion does after it, and the WebSocket lane has no guard.

Others were met and have no run of their own:

* a peer that is connected and says nothing is never recycled, though
  ws/mod.rs:28-29 says that one without data for 60 seconds is: a ping is a write,
  and nothing waits for its pong (client.rs:687-691);
* `sent` lists an order whose request failed before it left, though
  types/place.rs:307-311 calls those orders reached (place.rs:95);
* exchange_typed.rs:573-574 sends the caller of a parented vault to
  `Exchange::create_vault`, which drops the parent (exchange.rs:1235-1236);
* `create_vault_typed` takes any u8 for the kind: a 2 is signed as 2 and posted
  as "User", which is why `Verifies` asks for `KindKnown`;
* exchange_typed.rs:203-204 says that the typed approval of an agent has no
  expiry; the method takes one, signs it and posts it (exchange_typed.rs:211-228);
* `vault_modify` signs a None and an empty name alike, and posts them
  differently, against "exactly the keys that were signed"
  (exchange_typed.rs:607); the node refuses an empty name, so `Asks` reads both
  as none;
* types/account.rs:7-14 says that the margin actions sign no owner; the code
  binds one and has `_as` forms;
* the comment on `MAX_DECODED_BYTES` speaks of a frame that is dropped; it is
  cut off, and dropped because what is left is no JSON (compress.rs:57-59, 104);
* "sending on would place orders against an unknown state" (place.rs:104-105) is
  why a spot request stops at a failed send; a pending order is in such a state as
  well, and the loop sends on behind it (see `PlaceOrder`);
* `noop` is documented to free the nonce of an action in flight
  (exchange_typed.rs:1562-1564), and draws a fresh nonce;
* `messages()` "returns None once the task has shut down" (client.rs:402-403):
  every clone keeps a sender, so a receiver ends only with the last clone;
* a `channel_capacity` of zero panics, and nothing says that it may not be.

Smaller ones need no run: `is_alive()` turns false before the task stops
(client.rs:561 against 551); a `subscribe` made after `shutdown()` returned still
queues its command and returns Ok until the task has exited (client.rs:559-561
against 557-558); a post made
while the socket is down is sent by the next connection rather than refused
(client.rs:509 against 442); the first reconnect delay is not capped
(client.rs:587 against 44-45); with a floor near the top of u64 the effective
duration saturates and may equal, not exceed, the one asked for
(twap_plan.rs:207 against 164-165), hence the last case of `WindowKept`;
a cancel by cloid alone is refused by the digest though exchange.rs:164 offers
it (typed_orders.rs:346-353); twap.rs:36-42 says that `twap_order` signs no
owner, which typed_orders.rs binds; the owner a leg of a `batch_cancel` carries
is posted and not signed, against exchange.rs:554-556; `new_with_owner` speaks
of six actions with an owner of their own where there are ten
(typed_orders.rs:762 against 424); a cancel that has both an oid and a cloid
("mutually exclusive", order.rs:330) is accepted, and posts a cloid that nothing
signs (typed_orders.rs:346-353).

## 4. Proofs

All theorems hold for every value of the constants that satisfies the named
assumptions, and are checked to the last leaf.

* `WsClientProofs!TypeCorrect`: `Spec => []TypeOK`. Assumptions:
  `SubsAssumption`, `BoundsAssumption`, `PostsAssumption`. One step per action; lemmas
  say that appending to and dropping from the queue and the wire stay in type.
* `WsPostProofs!PostLane`: `Spec => []PostInv`. `AtMostOnce` is not inductive:
  it needs that a post is in one place at a time (`OnePlace`: queued, on the
  wire, astray or carried out), that the queue holds each post once with its
  eviction behind it (`QueueOrdered`), that a call that has sent nothing left
  no trace (`Untraced`), that one-shot, outcome and stage agree
  (`CallConsistent`), that a tracked sender belongs to a caller who waits or
  whose eviction is queued (`Tracked`), and that ids are distinct
  (`IdsDistinct`). Lemmas describe what a command entering or leaving the queue
  and the wire does to these sets, and `Disconnect` covers the four ways a
  connection ends.
* From it: `PostsAtMostOnce`, `PostsOwnReply`, `NoStrandedWaiter`,
  `NoLeakedEntry`, the action property `ClosedMeansClosed`, and
  `PostRefinement` (every step of the client is a step of `PostService` or a
  stutter).
* `NonceProofs`: `NonceSafety` (the values seen are never ahead of the counter,
  which only grows), `NoncesUnique`, `NoncesOrdered`, `NonceRefinement`. Only a
  successful exchange needs an argument. `NonceTypes`: `Spec => []TypeOK`, for
  what a call has read is a value of the clock or of the counter.
* `PlaceProofs!Placing`: `Spec => [](TypeOK /\ PlaceInv)`, from
  `RequestsAssumption` and `NonceAssumption`. What a call reports is a function
  of where its loop stands (`LoopInv`); the node decides an action once, a plain
  Ok is about a decided action and a pending one about an admitted action
  (`NodeInv`); the nonces of a call ascend (`NonceInv`). The two properties that
  carry themselves, `InOrder` and `OnlyOvertaken`, each rest on one argument: an
  action that is still undecided was either not answered, so nothing behind it
  was posted (`AnsweredBefore`), or answered pending, which is the case that the
  properties name (`Answers`, `OvertakenByNewer`). From it: `PlaceTypes`,
  `NotSentTruthful`, `FateKnown`, `DroppedOnlyOvertaken`.
* `TradeLaneProofs`: `PostedVerifies`, `PostedForAsked`, `PostedFit`,
  `OneMeaning`, from `RequestAssumption` (what the Rust types admit). The invariant `Traced` says
  that every entry is a refusal or the envelope of an accepted request; the rest
  is about one envelope: its words are those of its body (`SignedAsPosted`: the
  owner put into `params` is not read by any word, and derived weights are not
  signed), its owner is that of its body (`OwnerAsPosted`), and an expiry of
  zero survives being left out (`ExpiryAsPosted`). `OneMeaning` (`Spec =>
  []SignedMeansOne`) goes the other way, from words to bodies. What is posted has
  the shape of a payload (`BodyShaped`); a type string is told by what is present,
  and a word tells its field, zero form or not, because no cloid and no side is the
  empty string (`FieldRead`, `TriggerRead`). So two bodies with equal words read
  alike, kind by kind (`OneReading`; batches by their length and items), and the
  owner that is signed, or the signer where the owner-less form verifies, is the
  account (`OwnerRead`).
* `WsClientProofs!OneBookPerCoin`: `Spec => []OneViewPerCoin`; slots are
  symmetric, and only `Register` edits the active set.
* `WsClientProofs!DisjointConverge`: if no two callers manage one slot,
  `Spec => []Converged`. What the node will serve of a slot is decided by the
  last command about it: one a caller has in hand (`CallsAgree`), else the last
  in the queue (`QueueAgrees`), else the last on the wire or still to be
  replayed, else what the node serves (`LinkAgrees`); `SubInv` says that each
  agrees with the active set. `ReplayClear` is needed for the replay: it is the
  first word about each slot on its connection. The lemmas `Appended` and
  `Taken` say what a command entering or leaving a sequence does to its last
  word. Without `DisjointCallers` the claim is false (run `racing_subscribers`).
* `InboundProofs!Inbound`: `Spec => []InboundInv`, from `CapacityAssumption`.
  A second handshake is made by a task that still had the offer (`RefusedOnce`);
  the frames of a connection have the form its mode reads (`Readable`). For the
  readers, `StreamInv` holds while nothing was spoiled: in the ring and on the
  wire a change follows what it changes (`RingInOrder`, `WireInOrder`), the wire
  goes on where the ring ends (`WireFollowsRing`) and ends at what was committed
  (`WireUpToDate`), and a reader's state is that of the last of the stream it
  was handed (`ViewsInOrder`). The lemmas `Heard`, `SentAppended` and
  `SentTaken` say where the stream stands once a frame is added or taken. From
  it: `FramesRead`, `OneRetry`, `GapsNoticed`.
* `AccountLaneProofs`: `CallsTraced`, `BodiesVerify`, `WordsInOrder`,
  `AskedIsPosted`, `OneMeaning` and `RosterHeard`, from `RequestAssumption` (what
  the types of the methods admit) and `BundleAssumption` (the signatures of a
  bundle were made by `sign_multisig_inner`, by either scheme). The invariant
  `Traced` says that an entry is a refusal of a request or its envelope, a bundle's
  with the nonce that its roster signed; the rest is about one or two envelopes,
  and about every action at once. The argument has four stages.
  * The tables. Those of one kind share no key (`StructsApart`, `MethodsApart`,
    `CallsApart`), so each row is found where it was written (`StructsAt`,
    `TypesAt`, `MethodsAt`, `DelegatesAt`). A frozen string names every field of its
    struct and nothing else (`TypesNamed`); the arguments of a method fill its
    struct (`MethodsFit`); what a method of `exchange.rs` hands on meets the
    argument of that name (`CallsHandOn`).
  * One request. It has every argument, None only where the type is an Option
    (`Argued`); what the node finds under a key is that argument, unless it was left
    out, and what may be left out is told by its absence (`GivenKey`, `GivenField`,
    `LeavingOut`). So the node rebuilds each field as it was signed (`FieldRebuilt`,
    `Rebuilt`), and the digest verifies. `create_vault_typed` with a kind that is
    no kind is the exception, which `Verifies` excludes (`KindKnown`).
  * Its words. Hand-written or not, they follow the frozen string (`Encoded`), also
    once an owner and an expiry are folded in (`NamesFollowed`).
  * Two requests. The words tell the owner and every field (`WordsTell`), and the
    struct tells what was asked: a flag that is down is an Option left out, a code
    is one name (`FieldTold`, `Telling`). Hence `OneReading`.

  For bundles, `SignatureSpeaks` says that a signature matches the node's digest if
  and only if its member meant just that, for the two schemes never agree on a
  digest; the members that the node counts are then those who meant it (`OneBundle`).
* `PlannerProofs`: `BestOrder`, `CadenceBest`, `WindowBest` and
  `NotionalBest`, from `WidthAssumption` and `RequestAssumption`. A request is
  never changed and is answered once (`Answering`), so each theorem is a fact
  about one operator. All rest on `Division` (what a quotient says of products)
  and `Snapping` (a snapped number is the largest multiple not above it);
  `Counting` splits the slice count on whether the wanted cadence meets the
  floor.

Every safety invariant of the passing runs, and every action property and
refinement, is stated by one of these theorems. Model-checked only: liveness
(`PostsReturn`, `StopsWhenAsked`, `EventuallyServed`, `CallsReturn`), which rests on
fairness and ENABLED and is out of this prover's reach. No recursive definition is
used in a module that is proved about, and no induction over data is needed.

## 5. Not modelled

* The MIP-3 kit and its CLI: deprecated. The node answers the kit's read with
  400 and refuses its digests (mip3/params.rs:3-12, auction.rs:113-115), so every
  command ends at its first request and nothing behind it can be reached.
* A write that blocks: see fairness.
* Two processes signing for one account: they share no state in this code.
* Hashing, the encoding of a single word, keys and signatures: cryptography over
  bytes. `core_evm_transfer_v2` has a digest and no method that signs it.
* Info reads, the typed decode of `ws/typed.rs` and the wire types: stateless
  decode of data.
* The faucet: one signed claim, one request.
* The per-channel wrappers of the WebSocket client, which only build the
  subscription that they pass on.

## 6. Plan

Order of work, most important behaviour first.

1. (done) `PostService`, `WsClient`, `WsClientProperties`, their runs and proofs.
2. (done) `NonceSource`, `NonceClock` and `PlaceOrder` with runs and proofs.
3. (done) `TradeLane` with its runs and proofs.
4. (done) `TypedActions`, `ActionMethods` and `AccountLane` with their run, and
   `AccountLaneProofs`.
5. (done) `WsInbound` with its run and proofs.
6. (done) `Planner` with its run and proofs.
7. (done) Proofs of `OneViewPerCoin` and, for disjoint callers, `Converged`.
8. `Envelope`: body, status and error half of `rest/mod.rs`, and what each
   caller sees of it; abstract specification: a rejection is never an Ok.
9. (done) Proofs: `SignedMeansOne` of `TradeLane` kind by kind; `Verifies`,
   `SignedMeansOne`, `ActsForAsked` and `WordsFollowType` of `AccountLane` from
   facts about its tables; the type invariants of `NonceClock` and `PlaceOrder`.
