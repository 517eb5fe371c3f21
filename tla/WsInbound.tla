----------------------------- MODULE WsInbound -----------------------------
(***************************************************************************)
(* Inbound frames of WsClient: the compression that a handshake settles    *)
(* (ws/compress.rs and run_connection of ws/client.rs), the frames that a  *)
(* connection then reads, and the broadcast to the receivers that          *)
(* messages() returns (dispatch, WsFrame::from_value).                     *)
(*                                                                         *)
(* Not code under src/: the gateway, which may be replaced by another      *)
(* version at any time, the open connection staying with the old one; the  *)
(* broadcast channel of tokio, which keeps the last Capacity frames and    *)
(* tells a receiver when it missed some; and the reader behind a receiver, *)
(* who follows the changes of one channel from a snapshot on.              *)
(***************************************************************************)
EXTENDS Naturals, Sequences

CONSTANTS Receivers,      \* what calls of messages() returned
          Capacity,       \* WsConfig::channel_capacity
          MaxCommits,     \* bound: what the node commits
          MaxOthers,      \* bound: frames of other channels
          MaxRedeploys,   \* bound: how often the gateway is replaced
          MaxConnects     \* bound: handshakes that are begun

ASSUME CapacityAssumption == Capacity \in Nat \ {0}
ASSUME BoundsAssumption ==
  MaxCommits \in Nat /\ MaxOthers \in Nat /\ MaxRedeploys \in Nat /\ MaxConnects \in Nat

VARIABLES gateway,     \* the version that answers a handshake
          offer,       \* TaskState::offer_compression
          conn,        \* "down", "refused" (the offer was), or "up"
          mode,        \* WireMode of the connection
          serves,      \* how the gateway sends data frames on it
          wire,        \* frames under way on it
          commits,     \* what the node committed, from one on
          ring,        \* every frame that was ever broadcast
          at,          \* receiver -> the position it reads next, 0 before messages()
          view,        \* receiver -> the commit its reader's state is of, 0 for none
          torn,        \* receiver -> whether a change was applied over a gap
          spoiled,     \* whether a frame that arrived was not what was sent
          unread,      \* whether a frame that arrived whole was not dispatched
          count        \* frames of other channels, redeploys, handshakes, second ones

linkVars == <<offer, conn, mode, serves>>
readerVars == <<at, view, torn>>
ghosts == <<spoiled, unread>>
vars == <<gateway, linkVars, wire, commits, ring, readerVars, ghosts, count>>

-----------------------------------------------------------------------------
(* Frames.                                                                  *)

\* WsMessage: the channels that are typed.
Channels ==
  {"subscriptionResponse", "error", "l2_book", "trades", "bbo", "candles", "fills",
   "order_updates", "notifications", "ledger_updates", "user_fundings",
   "user_twap_slice_fills", "user_twap_history", "account_state", "clearinghouse_state",
   "option_state", "spot_margin_state", "active_asset_data", "open_orders", "markets",
   "pong"}

Bytes == {"fine", "spoiled"}  \* spoiled: other bytes, or more than MAX_DECODED_BYTES

\* The channel the readers follow sends "an on-subscribe snapshot, then per-commit
\* changed-row deltas" (client.rs:391-392).  A channel newer than this client, and
\* the replies to posts, which "stay TEXT in every mode", come in between.
StreamFrames(n, snapshot, form) ==
  [channel : {"markets"}, no : {n}, is_snapshot : {snapshot}, form : {form}, bytes : Bytes]
OtherFrames(form) ==
  [channel : {"new_channel"}, no : {0}, is_snapshot : {FALSE}, form : {form}, bytes : Bytes]
    \cup [channel : {"post"}, no : {0}, is_snapshot : {FALSE}, form : {"text"}, bytes : Bytes]

\* WsFrame::from_value: a channel it does not know comes through as unknown, and
\* a flag that is not there reads as false.
from_value(f) ==
  [message |-> IF f.channel \in Channels THEN f.channel ELSE "unknown",
   no |-> f.no, is_snapshot |-> f.is_snapshot]

-----------------------------------------------------------------------------
(* Compression.                                                             *)

\* In order of preference.  The token of the dictionary is derived from its bytes.
Offered == <<"zstd_dict", "zstd">>

\* What a version of the gateway can serve: "stale" holds another dictionary, "old"
\* knows no compression and selects nothing.
Supports == [current |-> {"zstd_dict", "zstd"}, stale |-> {"zstd"}, old |-> {}]
Answers(g) == {i \in DOMAIN Offered : Offered[i] \in Supports[g]}
Selected(g) == Offered[CHOOSE i \in Answers(g) : \A j \in Answers(g) : i <= j]

\* Mutant: any token of the two is taken for the plain one.
from_selected_plain(token) == IF token \in {"zstd_dict", "zstd"} THEN "zstd" ELSE "text"

from_selected(token) == CASE token = "zstd_dict" -> "zstd_dict"
                          [] token = "zstd" -> "zstd"
                          [] OTHER -> "text"

\* Decoder::decode: whether the bytes are a zstd frame it can read.  Frames are
\* independent; with a dictionary it also reads frames made without.
Decodes(m, f) == \/ m = "zstd" /\ f.form = "zstd"
                 \/ m = "zstd_dict" /\ f.form \in {"zstd", "zstd_dict"}

\* The opcode tells text from binary.  What does not decode is dropped; spoiled
\* bytes, and text cut off at MAX_DECODED_BYTES, are no JSON and are dropped too.
Dispatched(m, f) == f.bytes = "fine" /\ (f.form = "text" \/ Decodes(m, f))

-----------------------------------------------------------------------------
Init ==
  /\ gateway \in DOMAIN Supports
  /\ offer = TRUE /\ conn = "down" /\ mode = "text" /\ serves = "text"
  /\ wire = <<>> /\ commits = 1 /\ ring = <<>>
  /\ at = [r \in Receivers |-> 0] /\ view = [r \in Receivers |-> 0]
  /\ torn = [r \in Receivers |-> FALSE]
  /\ spoiled = FALSE /\ unread = FALSE
  /\ count = [others |-> 0, redeploys |-> 0, connects |-> 0, second |-> 0]

Redeploy ==
  /\ count.redeploys < MaxRedeploys
  /\ gateway' \in DOMAIN Supports \ {gateway}
  /\ count' = [count EXCEPT !.redeploys = @ + 1]
  /\ UNCHANGED <<linkVars, wire, commits, ring, readerVars, ghosts>>

\* Mutant: the subscriptions are sent once, and not replayed after an outage.
OpenedSilent(m, s) ==
  /\ conn' = "up" /\ mode' = m /\ serves' = s
  /\ \E f \in StreamFrames(commits, TRUE, s) :
       wire' = IF count.connects = 0 THEN <<f>> ELSE <<>>

\* A connection is up, and its replay is answered by a snapshot.
Opened(m, s) ==
  /\ conn' = "up" /\ mode' = m /\ serves' = s
  /\ \E f \in StreamFrames(commits, TRUE, s) : wire' = <<f>>

\* Mutant: the offer is cleared only once the plain handshake went through.
ConnectForgetting ==
  /\ conn = "down" /\ count.connects < MaxConnects
  /\ count' = [count EXCEPT !.connects = @ + 1]
  /\ IF ~offer THEN Opened("text", "text") /\ UNCHANGED offer
     ELSE IF Answers(gateway) = {}
          THEN conn' = "refused" /\ UNCHANGED <<offer, mode, serves, wire>>
          ELSE /\ Opened(from_selected(Selected(gateway)), Selected(gateway))
               /\ UNCHANGED offer
  /\ UNCHANGED <<gateway, commits, ring, readerVars, ghosts>>

\* The first handshake of run_connection, made with the offer while that stands.  A
\* gateway that echoes nothing fails it, and the offer is cleared for good.
Connect ==
  /\ conn = "down" /\ count.connects < MaxConnects
  /\ count' = [count EXCEPT !.connects = @ + 1]
  /\ IF ~offer THEN Opened("text", "text") /\ UNCHANGED offer
     ELSE IF Answers(gateway) = {}
          THEN conn' = "refused" /\ offer' = FALSE /\ UNCHANGED <<mode, serves, wire>>
          ELSE /\ Opened(from_selected(Selected(gateway)), Selected(gateway))
               /\ UNCHANGED offer
  /\ UNCHANGED <<gateway, commits, ring, readerVars, ghosts>>

\* The handshake without the offer that follows a refusal at once, or fails as any
\* handshake may.
ConnectPlain ==
  /\ conn = "refused"
  /\ count' = [count EXCEPT !.second = @ + 1]
  /\ \/ Opened("text", "text")
     \/ conn' = "down" /\ UNCHANGED <<mode, serves, wire>>
  /\ UNCHANGED <<gateway, offer, commits, ring, readerVars, ghosts>>

\* The connection breaks, with what is under way; the task reconnects.
Break ==
  /\ conn = "up" /\ conn' = "down" /\ wire' = <<>>
  /\ UNCHANGED <<gateway, offer, mode, serves, commits, ring, readerVars, ghosts, count>>

\* The node commits, and a connection that is up is sent the change.
Commit ==
  /\ commits < MaxCommits /\ commits' = commits + 1
  /\ IF conn = "up"
     THEN \E f \in StreamFrames(commits + 1, FALSE, serves) : wire' = Append(wire, f)
     ELSE UNCHANGED wire
  /\ UNCHANGED <<gateway, linkVars, ring, readerVars, ghosts, count>>

GatewaySends ==
  /\ conn = "up" /\ count.others < MaxOthers
  /\ \E f \in OtherFrames(serves) : wire' = Append(wire, f)
  /\ count' = [count EXCEPT !.others = @ + 1]
  /\ UNCHANGED <<gateway, linkVars, commits, ring, readerVars, ghosts>>

\* dispatch: a reply goes to the pending posts, anything else to the receivers,
\* and to nobody where there is none.
Receive ==
  /\ conn = "up" /\ wire # <<>> /\ wire' = Tail(wire)
  /\ LET f == Head(wire)
         broadcast == Dispatched(mode, f) /\ f.channel # "post"
     IN  /\ ring' = IF broadcast /\ \E r \in Receivers : at[r] # 0
                    THEN Append(ring, from_value(f)) ELSE ring
         /\ spoiled' = (spoiled \/ f.bytes # "fine")
         /\ unread' = (unread \/ (f.bytes = "fine" /\ ~Dispatched(mode, f)))
  /\ UNCHANGED <<gateway, linkVars, commits, readerVars, count>>

\* messages(): a receiver hears what is broadcast from now on.
messages(r) ==
  /\ at[r] = 0 /\ at' = [at EXCEPT ![r] = Len(ring) + 1]
  /\ UNCHANGED <<gateway, linkVars, wire, commits, ring, view, torn, ghosts, count>>

Oldest == IF Len(ring) > Capacity THEN Len(ring) - Capacity + 1 ELSE 1

\* A receiver that fell behind is told so and goes on with the oldest frame that is
\* kept; its reader then knows nothing until the next snapshot.
Lagged(r) ==
  /\ at[r] # 0 /\ at[r] < Oldest
  /\ at' = [at EXCEPT ![r] = Oldest]
  /\ view' = [view EXCEPT ![r] = 0] /\ torn' = [torn EXCEPT ![r] = FALSE]
  /\ UNCHANGED <<gateway, linkVars, wire, commits, ring, ghosts, count>>

\* A reader takes a snapshot as it is and applies a change to the state it has.
Recv(r) ==
  /\ at[r] \in Oldest .. Len(ring)
  /\ at' = [at EXCEPT ![r] = @ + 1]
  /\ LET f == ring[at[r]]
         applies == f.message = "markets" /\ (f.is_snapshot \/ view[r] # 0)
     IN  /\ view' = IF applies THEN [view EXCEPT ![r] = f.no] ELSE view
         /\ torn' = IF applies THEN [torn EXCEPT ![r] = ~f.is_snapshot /\ (@ \/ f.no # view[r] + 1)]
                    ELSE torn
  /\ UNCHANGED <<gateway, linkVars, wire, commits, ring, ghosts, count>>

Next == \/ Redeploy \/ Connect \/ ConnectPlain \/ Break \/ Commit \/ GatewaySends \/ Receive
        \/ \E r \in Receivers : messages(r) \/ Lagged(r) \/ Recv(r)
Spec == Init /\ [][Next]_vars

-----------------------------------------------------------------------------
\* "Frames are independent, so one bad frame spoils no later one" and "a stale
\* dictionary id degrades AT THE HANDSHAKE" (compress.rs:105, 18): whatever the
\* versions of the gateway that came and went, every frame that arrives whole on a
\* connection can be read in the mode that its handshake settled.
EveryFrameRead == ~unread

\* "An older gateway costs one extra handshake, not one per reconnect"
\* (client.rs:576-577): however often the task reconnects, and though the retry itself
\* may fail.
OneExtraHandshake == count.second <= 1

\* A reader who starts at a snapshot, applies what comes, and starts afresh when it
\* is told that it lagged, never applies a change over a gap: reconnects, which it
\* is not told of, begin with a snapshot, and no frame in between is kept from it.
\* Only a frame whose bytes were spoiled is lost without a word.
NoGapApplied == ~spoiled => \A r \in Receivers : ~torn[r]
=============================================================================
