--------------------------- MODULE InboundProofs ---------------------------
(***************************************************************************)
(* Why no reader applies a change over a gap (NoGapApplied), why every     *)
(* frame that arrives whole is read (EveryFrameRead) and why an older      *)
(* gateway costs one extra handshake (OneExtraHandshake), for any number   *)
(* of receivers, any capacity and any bounds.                              *)
(***************************************************************************)
EXTENDS WsInbound, TLAPS

Forms == {"text", "zstd", "zstd_dict"}
Frame == [channel : {"markets", "new_channel", "post"}, no : Nat, is_snapshot : BOOLEAN,
          form : Forms, bytes : Bytes]
Counts == [others : Nat, redeploys : Nat, connects : Nat, second : Nat]
Item == [message : {"markets", "unknown"}, no : Nat, is_snapshot : BOOLEAN]

TypeOK ==
  /\ offer \in BOOLEAN /\ conn \in {"down", "refused", "up"} /\ gateway \in DOMAIN Supports
  /\ mode \in Forms /\ serves \in Forms
  /\ wire \in Seq(Frame) /\ ring \in Seq(Item) /\ commits \in Nat
  /\ at \in [Receivers -> Nat] /\ view \in [Receivers -> Nat]
  /\ torn \in [Receivers -> BOOLEAN] /\ spoiled \in BOOLEAN /\ unread \in BOOLEAN
  /\ count \in Counts

-----------------------------------------------------------------------------
(* The handshake.                                                           *)

\* A second handshake is made once, by the task that gives up the offer.
RefusedOnce == /\ offer => count.second = 0
               /\ conn = "refused" => ~offer /\ count.second = 0
               /\ count.second <= 1

\* What is under way on a connection can be read in its mode.
Readable == conn = "up" =>
  /\ mode = from_selected(serves)
  /\ \A i \in DOMAIN wire : wire[i].form \in {"text", serves}

-----------------------------------------------------------------------------
(* The stream, from what was broadcast on to what is under way.             *)

IsStream(f) == f.channel = "markets"
IsStreamItem(x) == x.message = "markets"

\* i is the last place of the stream among the first p of the wire, of the ring.
LastSent(w, p, i) == /\ i \in 1 .. p /\ IsStream(w[i])
                     /\ \A j \in i + 1 .. p : ~IsStream(w[j])
LastHeard(s, p, i) == /\ i \in 1 .. p /\ IsStreamItem(s[i])
                      /\ \A j \in i + 1 .. p : ~IsStreamItem(s[j])
\* Nothing of the stream is among the first p of the wire.
NoneSent(w, p) == \A j \in 1 .. p : ~IsStream(w[j])

\* Nobody listens and nothing is kept, or each receiver has its place.
Places == /\ (\A r \in Receivers : at[r] = 0) => ring = <<>>
          /\ \A r \in Receivers : /\ at[r] <= Len(ring) + 1
                                  /\ at[r] = 0 => view[r] = 0 /\ ~torn[r]

\* In the ring, and on the wire, a change follows what it changes.
RingInOrder ==
  \A j \in DOMAIN ring : IsStreamItem(ring[j]) /\ ~ring[j].is_snapshot =>
    \A i \in Nat : LastHeard(ring, j - 1, i) => ring[j].no = ring[i].no + 1
WireInOrder ==
  \A j \in DOMAIN wire : IsStream(wire[j]) /\ ~wire[j].is_snapshot =>
    \A i \in Nat : LastSent(wire, j - 1, i) => wire[j].no = wire[i].no + 1

\* The wire goes on where the ring ends, and ends at what was committed.
WireFollowsRing ==
  \A j \in DOMAIN wire :
    IsStream(wire[j]) /\ ~wire[j].is_snapshot /\ NoneSent(wire, j - 1) =>
      \A i \in Nat : LastHeard(ring, Len(ring), i) => wire[j].no = ring[i].no + 1
WireUpToDate ==
  /\ \A i \in Nat : LastSent(wire, Len(wire), i) => wire[i].no = commits
  /\ NoneSent(wire, Len(wire)) =>
       \A i \in Nat : LastHeard(ring, Len(ring), i) => ring[i].no = commits

\* A reader that has a state has that of the last of the stream it was handed.
ViewsInOrder ==
  \A r \in Receivers : view[r] # 0 =>
    \E i \in Nat : LastHeard(ring, at[r] - 1, i) /\ ring[i].no = view[r]

StreamOnWire == WireInOrder /\ WireFollowsRing /\ WireUpToDate
StreamOnRing == RingInOrder /\ ViewsInOrder /\ \A r \in Receivers : ~torn[r]

\* All of it together, while nothing was spoiled; it is inductive.
StreamInv == ~spoiled => StreamOnRing /\ (conn = "up" => StreamOnWire)
InboundInv == TypeOK /\ RefusedOnce /\ Readable /\ ~unread /\ Places /\ StreamInv

-----------------------------------------------------------------------------
(* Frames.                                                                  *)

LEMMA FramesTyped ==
  /\ \A n \in Nat, b \in BOOLEAN, g \in Forms : StreamFrames(n, b, g) \subseteq Frame
  /\ \A g \in Forms : OtherFrames(g) \subseteq Frame
<1>1. ASSUME NEW n \in Nat, NEW b \in BOOLEAN, NEW g \in Forms
      PROVE  StreamFrames(n, b, g) \subseteq Frame
  BY DEF StreamFrames, Frame
<1>2. ASSUME NEW g \in Forms PROVE OtherFrames(g) \subseteq Frame
  <2>1. ASSUME NEW h \in Forms, NEW c \in {"new_channel", "post"}, NEW b \in BOOLEAN, NEW n \in Nat
        PROVE  [channel : {c}, no : {n}, is_snapshot : {b}, form : {h}, bytes : Bytes]
                 \subseteq Frame
    BY DEF Frame
  <2>2. "text" \in Forms
    BY DEF Forms
  <2> HIDE DEF Frame
  <2> QED BY <2>1, <2>2 DEF OtherFrames
<1> QED BY <1>1, <1>2

LEMMA ItemsTyped == \A f \in Frame : /\ from_value(f) \in Item
                                     /\ IsStreamItem(from_value(f)) <=> IsStream(f)
                                     /\ from_value(f).no = f.no
                                     /\ from_value(f).is_snapshot = f.is_snapshot
  BY DEF Frame, Item, from_value, Channels, IsStream, IsStreamItem

LEMMA CountsKept ==
  ASSUME NEW c \in Counts
  PROVE  /\ [c EXCEPT !.others = @ + 1] \in Counts
         /\ [c EXCEPT !.redeploys = @ + 1] \in Counts
         /\ [c EXCEPT !.connects = @ + 1] \in Counts
         /\ [c EXCEPT !.second = @ + 1] \in Counts
  BY DEF Counts

\* What a gateway selects is one of the tokens that were offered.
LEMMA SelectedOffered ==
  ASSUME NEW g \in DOMAIN Supports, Answers(g) # {}
  PROVE  Selected(g) \in {"zstd_dict", "zstd"}
<1>1. Answers(g) \subseteq {1, 2}
  BY DEF Answers, Offered
<1>2. \E i \in Answers(g) : \A j \in Answers(g) : i <= j
  <2>1. CASE 1 \in Answers(g)
    BY <1>1, <2>1
  <2>2. CASE 1 \notin Answers(g)
    BY <1>1, <2>2
  <2> QED BY <2>1, <2>2
<1>3. (CHOOSE i \in Answers(g) : \A j \in Answers(g) : i <= j) \in {1, 2}
  BY <1>1, <1>2
<1>4. Offered[1] = "zstd_dict" /\ Offered[2] = "zstd"
  BY DEF Offered
<1> QED BY <1>3, <1>4 DEF Selected

LEMMA ModeFollows == \A s \in Forms : from_selected(s) = s
  BY DEF from_selected, Forms

-----------------------------------------------------------------------------
(* Where the stream stands once a frame is added or taken.                  *)

LEMMA Heard ==
  ASSUME NEW s \in Seq(Item), NEW x \in Item
  PROVE  /\ \A p \in 0 .. Len(s), i \in Nat : LastHeard(Append(s, x), p, i) <=> LastHeard(s, p, i)
         /\ IsStreamItem(x) =>
              \A i \in Nat : LastHeard(Append(s, x), Len(s) + 1, i) <=> i = Len(s) + 1
         /\ ~IsStreamItem(x) =>
              \A i \in Nat : LastHeard(Append(s, x), Len(s) + 1, i) <=> LastHeard(s, Len(s), i)
<1> DEFINE t == Append(s, x)
<1>1. /\ Len(t) = Len(s) + 1 /\ t[Len(s) + 1] = x /\ Len(s) \in Nat
      /\ \A i \in 1 .. Len(s) : t[i] = s[i]
  OBVIOUS
<1> HIDE DEF t
<1>2. \A p \in 0 .. Len(s), i \in Nat : LastHeard(t, p, i) <=> LastHeard(s, p, i)
  BY <1>1 DEF LastHeard
<1>3. IsStreamItem(x) => \A i \in Nat : LastHeard(t, Len(s) + 1, i) <=> i = Len(s) + 1
  BY <1>1 DEF LastHeard
<1>4. ~IsStreamItem(x) => \A i \in Nat : LastHeard(t, Len(s) + 1, i) <=> LastHeard(s, Len(s), i)
  BY <1>1 DEF LastHeard
<1> QED BY <1>2, <1>3, <1>4 DEF t

LEMMA SentAppended ==
  ASSUME NEW w \in Seq(Frame), NEW f \in Frame
  PROVE  /\ \A p \in 0 .. Len(w), i \in Nat : LastSent(Append(w, f), p, i) <=> LastSent(w, p, i)
         /\ \A p \in 0 .. Len(w) : NoneSent(Append(w, f), p) <=> NoneSent(w, p)
         /\ IsStream(f) =>
              /\ \A i \in Nat : LastSent(Append(w, f), Len(w) + 1, i) <=> i = Len(w) + 1
              /\ ~NoneSent(Append(w, f), Len(w) + 1)
         /\ ~IsStream(f) =>
              /\ \A i \in Nat : LastSent(Append(w, f), Len(w) + 1, i) <=> LastSent(w, Len(w), i)
              /\ NoneSent(Append(w, f), Len(w) + 1) <=> NoneSent(w, Len(w))
<1> DEFINE t == Append(w, f)
<1>1. /\ Len(t) = Len(w) + 1 /\ t[Len(w) + 1] = f /\ Len(w) \in Nat
      /\ \A i \in 1 .. Len(w) : t[i] = w[i]
  OBVIOUS
<1> HIDE DEF t
<1>2. \A p \in 0 .. Len(w), i \in Nat : LastSent(t, p, i) <=> LastSent(w, p, i)
  BY <1>1 DEF LastSent
<1>3. \A p \in 0 .. Len(w) : NoneSent(t, p) <=> NoneSent(w, p)
  BY <1>1 DEF NoneSent
<1>4. IsStream(f) => /\ \A i \in Nat : LastSent(t, Len(w) + 1, i) <=> i = Len(w) + 1
                     /\ ~NoneSent(t, Len(w) + 1)
  BY <1>1 DEF LastSent, NoneSent
<1>5. ~IsStream(f) => \A i \in Nat : LastSent(t, Len(w) + 1, i) <=> LastSent(w, Len(w), i)
  BY <1>1 DEF LastSent
<1>6. ~IsStream(f) => (NoneSent(t, Len(w) + 1) <=> NoneSent(w, Len(w)))
  BY <1>1 DEF NoneSent
<1> QED BY <1>2, <1>3, <1>4, <1>5, <1>6 DEF t

LEMMA SentTaken ==
  ASSUME NEW w \in Seq(Frame), w # <<>>
  PROVE  /\ Tail(w) \in Seq(Frame) /\ Len(Tail(w)) = Len(w) - 1 /\ Head(w) = w[1] /\ w[1] \in Frame
         /\ \A j \in DOMAIN Tail(w) : j + 1 \in DOMAIN w /\ Tail(w)[j] = w[j + 1]
         /\ \A p \in 0 .. Len(w) - 1, i \in Nat :
              LastSent(Tail(w), p, i) => LastSent(w, p + 1, i + 1)
         /\ \A p \in 0 .. Len(w) - 1 : NoneSent(Tail(w), p) =>
              IF IsStream(w[1]) THEN LastSent(w, p + 1, 1) ELSE NoneSent(w, p + 1)
<1> DEFINE t == Tail(w)
<1>1. /\ t \in Seq(Frame) /\ Len(t) = Len(w) - 1 /\ Head(w) = w[1] /\ w[1] \in Frame
      /\ Len(w) \in Nat \ {0} /\ DOMAIN t = 1 .. Len(w) - 1 /\ DOMAIN w = 1 .. Len(w)
      /\ \A j \in 1 .. Len(w) - 1 : t[j] = w[j + 1]
  OBVIOUS
<1> HIDE DEF t
<1>2. \A p \in 0 .. Len(w) - 1, i \in Nat : LastSent(t, p, i) => LastSent(w, p + 1, i + 1)
  <2> SUFFICES ASSUME NEW p \in 0 .. Len(w) - 1, NEW i \in Nat, LastSent(t, p, i)
               PROVE  LastSent(w, p + 1, i + 1)
    OBVIOUS
  <2>1. i \in 1 .. p /\ IsStream(w[i + 1])
    BY <1>1 DEF LastSent
  <2>2. ASSUME NEW j \in i + 2 .. p + 1 PROVE ~IsStream(w[j])
    <3>1. j - 1 \in i + 1 .. p /\ t[j - 1] = w[j]
      BY <1>1, <2>1
    <3> QED BY <3>1 DEF LastSent
  <2> QED BY <2>1, <2>2 DEF LastSent
<1>3. ASSUME NEW p \in 0 .. Len(w) - 1, NoneSent(t, p)
      PROVE  IF IsStream(w[1]) THEN LastSent(w, p + 1, 1) ELSE NoneSent(w, p + 1)
  <2>1. ASSUME NEW j \in 2 .. p + 1 PROVE ~IsStream(w[j])
    <3>1. j - 1 \in 1 .. p /\ t[j - 1] = w[j]
      BY <1>1
    <3> QED BY <1>3, <3>1 DEF NoneSent
  <2> QED BY <2>1 DEF LastSent, NoneSent
<1> QED BY <1>1, <1>2, <1>3 DEF t

-----------------------------------------------------------------------------
(* The steps, part by part: types first.                                    *)

LEMMA OpenedTyped ==
  ASSUME TypeOK, NEW s \in Forms, NEW m \in Forms, Opened(m, s)
  PROVE  /\ conn' = "up" /\ mode' = m /\ serves' = s
         /\ \E f \in Frame : /\ wire' = <<f>> /\ wire' \in Seq(Frame)
                             /\ f.form = s /\ f.is_snapshot /\ f.no = commits /\ IsStream(f)
<1>1. PICK f \in StreamFrames(commits, TRUE, s) : wire' = <<f>>
  BY DEF Opened
<1>2. f \in Frame
  BY <1>1, FramesTyped DEF TypeOK
<1>3. f.form = s /\ f.is_snapshot /\ f.no = commits /\ IsStream(f)
  BY <1>1 DEF StreamFrames, IsStream
<1>4. wire' \in Seq(Frame)
  BY <1>1, <1>2
<1> QED BY <1>1, <1>2, <1>3, <1>4 DEF Opened

LEMMA Types == TypeOK /\ [Next]_vars => TypeOK'
<1> SUFFICES ASSUME TypeOK, [Next]_vars PROVE TypeOK'
  OBVIOUS
<1> USE DEF TypeOK
<1>1. CASE Redeploy
  <2>1. count' \in Counts /\ gateway' \in DOMAIN Supports
    BY <1>1, CountsKept DEF Redeploy
  <2> QED BY <1>1, <2>1 DEF Redeploy, linkVars, readerVars, ghosts
<1>2. CASE Connect
  <2>1. count' \in Counts
    BY <1>2, CountsKept DEF Connect
  <2>2. conn' \in {"down", "refused", "up"} /\ mode' \in Forms /\ serves' \in Forms
        /\ wire' \in Seq(Frame) /\ offer' \in BOOLEAN
    <3>1. CASE ~offer
      <4>1. "text" \in Forms /\ Opened("text", "text") /\ UNCHANGED offer
        BY <1>2, <3>1 DEF Connect, Forms
      <4> QED BY <4>1, OpenedTyped
    <3>2. CASE offer /\ Answers(gateway) = {}
      BY <1>2, <3>2 DEF Connect
    <3>3. CASE offer /\ Answers(gateway) # {}
      <4>1. Selected(gateway) \in Forms
        BY <3>3, SelectedOffered DEF Forms
      <4>2. from_selected(Selected(gateway)) \in Forms
        BY <4>1, ModeFollows
      <4>3. Opened(from_selected(Selected(gateway)), Selected(gateway)) /\ UNCHANGED offer
        BY <1>2, <3>3 DEF Connect
      <4> QED BY <4>1, <4>2, <4>3, OpenedTyped
    <3> QED BY <3>1, <3>2, <3>3
  <2> QED BY <1>2, <2>1, <2>2 DEF Connect, readerVars, ghosts
<1>3. CASE ConnectPlain
  <2>1. count' \in Counts
    BY <1>3, CountsKept DEF ConnectPlain
  <2>2. conn' \in {"down", "refused", "up"} /\ mode' \in Forms /\ serves' \in Forms
        /\ wire' \in Seq(Frame)
    <3>1. CASE Opened("text", "text")
      <4>1. "text" \in Forms
        BY DEF Forms
      <4> QED BY <3>1, <4>1, OpenedTyped
    <3>2. CASE conn' = "down" /\ UNCHANGED <<mode, serves, wire>>
      BY <3>2
    <3> QED BY <1>3, <3>1, <3>2 DEF ConnectPlain
  <2> QED BY <1>3, <2>1, <2>2 DEF ConnectPlain, readerVars, ghosts
<1>4. CASE Break
  BY <1>4 DEF Break, readerVars, ghosts
<1>5. CASE Commit
  <2>1. wire' \in Seq(Frame)
    <3>1. CASE conn = "up"
      <4>1. PICK f \in StreamFrames(commits + 1, FALSE, serves) : wire' = Append(wire, f)
        BY <1>5, <3>1 DEF Commit
      <4>2. commits + 1 \in Nat /\ serves \in Forms
        OBVIOUS
      <4>3. f \in Frame
        BY <4>1, <4>2, FramesTyped
      <4> QED BY <4>1, <4>3
    <3> QED BY <1>5, <3>1 DEF Commit
  <2> QED BY <1>5, <2>1 DEF Commit, linkVars, readerVars, ghosts
<1>6. CASE GatewaySends
  <2>1. PICK f \in OtherFrames(serves) : wire' = Append(wire, f)
    BY <1>6 DEF GatewaySends
  <2>2. f \in Frame
    BY <2>1, FramesTyped
  <2>3. wire' \in Seq(Frame)
    BY <2>1, <2>2
  <2>4. count' \in Counts
    BY <1>6, CountsKept DEF GatewaySends
  <2> QED BY <1>6, <2>3, <2>4 DEF GatewaySends, linkVars, readerVars, ghosts
<1>7. CASE Receive
  <2>1. wire' \in Seq(Frame) /\ Head(wire) \in Frame
    BY <1>7 DEF Receive
  <2>2. ring' \in Seq(Item)
    BY <1>7, <2>1, ItemsTyped DEF Receive
  <2>3. spoiled' \in BOOLEAN /\ unread' \in BOOLEAN
    BY <1>7 DEF Receive
  <2> QED BY <1>7, <2>1, <2>2, <2>3 DEF Receive, linkVars, readerVars
<1>8. ASSUME NEW r \in Receivers, messages(r) PROVE TypeOK'
  BY <1>8 DEF messages, linkVars, ghosts
<1>9. ASSUME NEW r \in Receivers, Lagged(r) PROVE TypeOK'
  <2>1. Oldest \in Nat
    BY CapacityAssumption DEF Oldest
  <2> QED BY <1>9, <2>1 DEF Lagged, linkVars, ghosts
<1>10. ASSUME NEW r \in Receivers, Recv(r) PROVE TypeOK'
  <2>1. Oldest \in Nat \ {0}
    BY CapacityAssumption DEF Oldest
  <2>2. ring[at[r]] \in Item
    BY <1>10, <2>1 DEF Recv
  <2>3. ring[at[r]].no \in Nat
    BY <2>2 DEF Item
  <2>4. at' \in [Receivers -> Nat]
    BY <1>10 DEF Recv
  <2>5. view' \in [Receivers -> Nat]
    BY <1>10, <2>3 DEF Recv
  <2>6. torn' \in [Receivers -> BOOLEAN]
    <3>1. \/ torn' = torn
          \/ \E b \in BOOLEAN : torn' = [torn EXCEPT ![r] = b]
      BY <1>10 DEF Recv
    <3> QED BY <3>1
  <2> QED BY <1>10, <2>4, <2>5, <2>6 DEF Recv, linkVars, ghosts
<1>11. CASE UNCHANGED vars
  BY <1>11 DEF vars, linkVars, readerVars, ghosts
<1> QED BY <1>1, <1>2, <1>3, <1>4, <1>5, <1>6, <1>7, <1>8, <1>9, <1>10, <1>11 DEF Next

-----------------------------------------------------------------------------
(* The handshake, and what it makes readable.                               *)

LEMMA Handshakes == TypeOK /\ RefusedOnce /\ [Next]_vars => RefusedOnce'
<1> SUFFICES ASSUME TypeOK, RefusedOnce, [Next]_vars PROVE RefusedOnce'
  OBVIOUS
<1> USE DEF RefusedOnce
<1>1. CASE Redeploy
  <2>1. count'.second = count.second
    BY <1>1 DEF Redeploy, TypeOK, Counts
  <2> QED BY <1>1, <2>1 DEF Redeploy, linkVars
<1>2. CASE Connect
  <2>1. count'.second = count.second
    BY <1>2 DEF Connect, TypeOK, Counts
  <2>2. \/ conn' = "up" /\ UNCHANGED offer
        \/ conn' = "refused" /\ offer /\ ~offer'
    BY <1>2 DEF Connect, Opened, TypeOK
  <2> QED BY <2>1, <2>2 DEF TypeOK
<1>3. CASE ConnectPlain
  <2>1. count'.second = count.second + 1
    BY <1>3 DEF ConnectPlain, TypeOK, Counts
  <2>2. conn = "refused" /\ conn' \in {"up", "down"} /\ UNCHANGED offer
    BY <1>3 DEF ConnectPlain, Opened
  <2> QED BY <2>1, <2>2
<1>4. CASE Break
  BY <1>4 DEF Break
<1>5. CASE Commit
  BY <1>5 DEF Commit, linkVars
<1>6. CASE GatewaySends
  <2>1. count'.second = count.second
    BY <1>6 DEF GatewaySends, TypeOK, Counts
  <2> QED BY <1>6, <2>1 DEF GatewaySends, linkVars
<1>7. CASE Receive
  BY <1>7 DEF Receive, linkVars
<1>8. ASSUME NEW r \in Receivers, messages(r) \/ Lagged(r) \/ Recv(r) PROVE RefusedOnce'
  BY <1>8 DEF messages, Lagged, Recv, linkVars
<1>9. CASE UNCHANGED vars
  BY <1>9 DEF vars, linkVars
<1> QED BY <1>1, <1>2, <1>3, <1>4, <1>5, <1>6, <1>7, <1>8, <1>9 DEF Next

LEMMA OpenedReadable ==
  ASSUME TypeOK, NEW s \in Forms, Opened(from_selected(s), s) PROVE Readable'
<1>1. PICK f \in Frame : wire' = <<f>> /\ f.form = s
  BY OpenedTyped, ModeFollows
<1>2. mode' = from_selected(serves')
  BY DEF Opened
<1>3. serves' = s
  BY DEF Opened
<1> QED BY <1>1, <1>2, <1>3 DEF Readable

LEMMA AppendReadable ==
  ASSUME TypeOK, Readable, NEW f \in Frame, f.form \in {"text", serves},
         wire' = Append(wire, f), UNCHANGED linkVars
  PROVE  Readable'
<1>1. ASSUME NEW i \in DOMAIN wire' PROVE i \in DOMAIN wire \/ wire'[i] = f
  BY DEF TypeOK
<1>2. \A i \in DOMAIN wire : wire'[i] = wire[i]
  BY DEF TypeOK
<1> QED BY <1>1, <1>2 DEF Readable, linkVars

LEMMA AllReadable == TypeOK /\ Readable /\ [Next]_vars => Readable'
<1> SUFFICES ASSUME TypeOK, Readable, [Next]_vars PROVE Readable'
  OBVIOUS
<1>1. CASE Connect
  <2>1. CASE ~offer
    <3>1. "text" \in Forms /\ from_selected("text") = "text"
      BY ModeFollows DEF Forms
    <3>2. Opened("text", "text")
      BY <1>1, <2>1 DEF Connect
    <3> QED BY <3>1, <3>2, OpenedReadable
  <2>2. CASE offer /\ Answers(gateway) = {}
    BY <1>1, <2>2 DEF Connect, Readable
  <2>3. CASE offer /\ Answers(gateway) # {}
    <3>1. Selected(gateway) \in Forms
      BY <2>3, SelectedOffered DEF Forms, TypeOK
    <3>2. Opened(from_selected(Selected(gateway)), Selected(gateway))
      BY <1>1, <2>3 DEF Connect
    <3> QED BY <3>1, <3>2, OpenedReadable
  <2> QED BY <2>1, <2>2, <2>3 DEF TypeOK
<1>2. CASE ConnectPlain
  <2>1. CASE Opened("text", "text")
    <3>1. "text" \in Forms /\ from_selected("text") = "text"
      BY ModeFollows DEF Forms
    <3> QED BY <2>1, <3>1, OpenedReadable
  <2>2. CASE conn' = "down"
    BY <2>2 DEF Readable
  <2> QED BY <1>2, <2>1, <2>2 DEF ConnectPlain
<1>3. CASE Break
  BY <1>3 DEF Break, Readable
<1>4. CASE Commit
  <2>1. CASE conn = "up"
    <3>1. PICK f \in StreamFrames(commits + 1, FALSE, serves) : wire' = Append(wire, f)
      BY <1>4, <2>1 DEF Commit
    <3>2. commits + 1 \in Nat /\ serves \in Forms
      BY DEF TypeOK
    <3>3. f \in Frame /\ f.form = serves
      BY <3>1, <3>2, FramesTyped DEF StreamFrames
    <3> QED BY <1>4, <3>1, <3>3, AppendReadable DEF Commit
  <2>2. CASE conn # "up"
    BY <1>4, <2>2 DEF Commit, linkVars, Readable
  <2> QED BY <2>1, <2>2
<1>5. CASE GatewaySends
  <2>1. PICK f \in OtherFrames(serves) : wire' = Append(wire, f)
    BY <1>5 DEF GatewaySends
  <2>2. f \in Frame /\ f.form \in {"text", serves}
    BY <2>1, FramesTyped DEF OtherFrames, TypeOK
  <2> QED BY <1>5, <2>1, <2>2, AppendReadable DEF GatewaySends
<1>6. CASE Receive
  <2>1. \A j \in DOMAIN wire' : j + 1 \in DOMAIN wire /\ wire'[j] = wire[j + 1]
    BY <1>6, SentTaken DEF Receive, TypeOK
  <2> QED BY <1>6, <2>1 DEF Receive, linkVars, Readable
<1>7. CASE Redeploy \/ UNCHANGED vars
  BY <1>7 DEF Redeploy, vars, linkVars, Readable
<1>8. ASSUME NEW r \in Receivers, messages(r) \/ Lagged(r) \/ Recv(r) PROVE Readable'
  BY <1>8 DEF messages, Lagged, Recv, linkVars, Readable
<1> QED BY <1>1, <1>2, <1>3, <1>4, <1>5, <1>6, <1>7, <1>8 DEF Next

\* A frame that arrives whole is dispatched.
LEMMA WholeIsDispatched ==
  ASSUME TypeOK, Readable, Receive, Head(wire).bytes = "fine"
  PROVE  Dispatched(mode, Head(wire))
<1>1. Head(wire).form \in {"text", serves}
  BY SentTaken DEF Receive, Readable, TypeOK
<1>2. mode = serves /\ serves \in {"text", "zstd", "zstd_dict"}
  BY ModeFollows DEF Receive, Readable, TypeOK, Forms
<1> QED BY <1>1, <1>2 DEF Dispatched, Decodes

LEMMA AllRead == TypeOK /\ Readable /\ ~unread /\ [Next]_vars => ~unread'
<1> SUFFICES ASSUME TypeOK, Readable, ~unread, [Next]_vars PROVE ~unread'
  OBVIOUS
<1>1. CASE Receive
  BY <1>1, WholeIsDispatched DEF Receive
<1>2. CASE Redeploy \/ Connect \/ ConnectPlain \/ Break \/ Commit \/ GatewaySends
  BY <1>2 DEF Redeploy, Connect, ConnectPlain, Break, Commit, GatewaySends, ghosts
<1>3. ASSUME NEW r \in Receivers, messages(r) \/ Lagged(r) \/ Recv(r) PROVE ~unread'
  BY <1>3 DEF messages, Lagged, Recv, ghosts
<1>4. CASE UNCHANGED vars
  BY <1>4 DEF vars, ghosts
<1> QED BY <1>1, <1>2, <1>3, <1>4 DEF Next

-----------------------------------------------------------------------------
(* The places of the receivers.                                             *)

LEMMA OldestBounded == TypeOK => Oldest \in 1 .. Len(ring) + 1
  BY CapacityAssumption DEF TypeOK, Oldest

LEMMA PlacesKept == TypeOK /\ Places /\ [Next]_vars => Places'
<1> SUFFICES ASSUME TypeOK, Places, [Next]_vars PROVE Places'
  OBVIOUS
<1> USE DEF Places
<1>1. CASE Receive
  <2>1. \/ ring' = ring
        \/ (\E r \in Receivers : at[r] # 0) /\ Len(ring') = Len(ring) + 1
    BY <1>1 DEF Receive, TypeOK
  <2> QED BY <1>1, <2>1 DEF Receive, readerVars, TypeOK
<1>2. CASE Redeploy \/ Connect \/ ConnectPlain \/ Break \/ Commit \/ GatewaySends
  BY <1>2 DEF Redeploy, Connect, ConnectPlain, Break, Commit, GatewaySends, readerVars
<1>3. ASSUME NEW r \in Receivers, messages(r) PROVE Places'
  <2>1. \A q \in Receivers : at'[q] = IF q = r THEN Len(ring) + 1 ELSE at[q]
    BY <1>3 DEF messages, TypeOK
  <2>2. Len(ring) + 1 # 0
    BY DEF TypeOK
  <2> QED BY <1>3, <2>1, <2>2 DEF messages, TypeOK
<1>4. ASSUME NEW r \in Receivers, Lagged(r) PROVE Places'
  <2>1. /\ \A q \in Receivers : at'[q] = IF q = r THEN Oldest ELSE at[q]
        /\ \A q \in Receivers \ {r} : view'[q] = view[q] /\ torn'[q] = torn[q]
    BY <1>4 DEF Lagged, TypeOK
  <2>2. Oldest # 0 /\ Oldest <= Len(ring) + 1
    BY OldestBounded DEF TypeOK
  <2> QED BY <1>4, <2>1, <2>2 DEF Lagged, TypeOK
<1>5. ASSUME NEW r \in Receivers, Recv(r) PROVE Places'
  <2>1. at[r] \in 1 .. Len(ring)
    BY <1>5, OldestBounded DEF Recv, TypeOK
  <2>2. \A q \in Receivers : at'[q] = IF q = r THEN at[r] + 1 ELSE at[q]
    BY <1>5 DEF Recv, TypeOK
  <2>3. \A q \in Receivers \ {r} : view'[q] = view[q] /\ torn'[q] = torn[q]
    BY <1>5 DEF Recv, TypeOK
  <2> QED BY <1>5, <2>1, <2>2, <2>3 DEF Recv, TypeOK
<1>6. CASE UNCHANGED vars
  BY <1>6 DEF vars, readerVars
<1> QED BY <1>1, <1>2, <1>3, <1>4, <1>5, <1>6 DEF Next

-----------------------------------------------------------------------------
(* The stream.                                                              *)

\* A connection begins with a snapshot.
LEMMA OpenedInOrder ==
  ASSUME TypeOK, NEW s \in Forms, NEW m \in Forms, Opened(m, s), UNCHANGED <<commits, ring>>
  PROVE  StreamOnWire'
<1>1. PICK f \in Frame : wire' = <<f>> /\ f.is_snapshot /\ f.no = commits /\ IsStream(f)
  BY OpenedTyped
<1>2. Len(wire') = 1 /\ DOMAIN wire' = {1} /\ wire'[1] = f
  BY <1>1
<1>3. WireInOrder' /\ WireFollowsRing'
  BY <1>1, <1>2 DEF WireInOrder, WireFollowsRing
<1>4. ~NoneSent(wire', 1)
  BY <1>1, <1>2 DEF NoneSent
<1>5. \A i \in Nat : LastSent(wire', 1, i) => i = 1
  BY DEF LastSent
<1>6. WireUpToDate'
  BY <1>1, <1>2, <1>4, <1>5 DEF WireUpToDate
<1> QED BY <1>3, <1>6 DEF StreamOnWire

\* A change that is sent goes on from what was committed before.
LEMMA CommitInOrder ==
  ASSUME TypeOK, StreamOnWire, Commit, conn = "up"
  PROVE  StreamOnWire'
<1>1. PICK f \in StreamFrames(commits + 1, FALSE, serves) : wire' = Append(wire, f)
  BY DEF Commit
<1>2. f \in Frame /\ IsStream(f) /\ f.no = commits + 1
  <2>1. commits + 1 \in Nat /\ serves \in Forms
    BY DEF TypeOK
  <2> QED BY <1>1, <2>1, FramesTyped DEF StreamFrames, IsStream
<1>3. /\ wire \in Seq(Frame) /\ Len(wire') = Len(wire) + 1 /\ wire'[Len(wire) + 1] = f
      /\ \A j \in DOMAIN wire : wire'[j] = wire[j] /\ j - 1 \in 0 .. Len(wire)
      /\ DOMAIN wire' = DOMAIN wire \cup {Len(wire) + 1} /\ Len(wire) + 1 - 1 = Len(wire)
      /\ Len(wire) \in 0 .. Len(wire) /\ DOMAIN wire = 1 .. Len(wire)
  BY <1>1, <1>2 DEF TypeOK
<1>4. /\ \A q \in 0 .. Len(wire), i \in Nat : LastSent(wire', q, i) <=> LastSent(wire, q, i)
      /\ \A q \in 0 .. Len(wire) : NoneSent(wire', q) <=> NoneSent(wire, q)
      /\ \A i \in Nat : LastSent(wire', Len(wire) + 1, i) <=> i = Len(wire) + 1
      /\ ~NoneSent(wire', Len(wire) + 1)
  BY <1>1, <1>2, <1>3, SentAppended
<1>5. \A q \in 0 .. Len(wire), i \in Nat : LastSent(wire, q, i) => i \in DOMAIN wire
  BY <1>3 DEF LastSent
<1>6. UNCHANGED ring /\ commits' = commits + 1
  BY DEF Commit
<1>7. WireInOrder'
  <2> SUFFICES ASSUME NEW j \in DOMAIN wire', IsStream(wire'[j]), ~wire'[j].is_snapshot,
                      NEW i \in Nat, LastSent(wire', j - 1, i)
               PROVE  wire'[j].no = wire'[i].no + 1
    BY DEF WireInOrder
  <2>1. CASE j \in DOMAIN wire
    BY <1>3, <1>4, <1>5, <2>1 DEF StreamOnWire, WireInOrder
  <2>2. CASE j = Len(wire) + 1
    <3>1. LastSent(wire, Len(wire), i)
      BY <1>3, <1>4, <2>2
    <3>2. wire[i].no = commits /\ wire'[i] = wire[i]
      BY <1>3, <1>5, <3>1 DEF StreamOnWire, WireUpToDate
    <3> QED BY <1>2, <1>3, <2>2, <3>2
  <2> QED BY <1>3, <2>1, <2>2
<1>8. WireFollowsRing'
  <2> SUFFICES ASSUME NEW j \in DOMAIN wire', IsStream(wire'[j]), ~wire'[j].is_snapshot,
                      NoneSent(wire', j - 1), NEW i \in Nat, LastHeard(ring, Len(ring), i)
               PROVE  wire'[j].no = ring[i].no + 1
    BY <1>6 DEF WireFollowsRing
  <2>1. CASE j \in DOMAIN wire
    BY <1>3, <1>4, <2>1 DEF StreamOnWire, WireFollowsRing
  <2>2. CASE j = Len(wire) + 1
    <3>1. NoneSent(wire, Len(wire))
      BY <1>3, <1>4, <2>2
    <3>2. ring[i].no = commits
      BY <3>1 DEF StreamOnWire, WireUpToDate
    <3> QED BY <1>2, <1>3, <2>2, <3>2
  <2> QED BY <1>3, <2>1, <2>2
<1>9. WireUpToDate'
  BY <1>2, <1>3, <1>4, <1>6 DEF WireUpToDate
<1> QED BY <1>7, <1>8, <1>9 DEF StreamOnWire

\* What is not of the stream changes nothing.
LEMMA OthersInOrder ==
  ASSUME TypeOK, StreamOnWire, GatewaySends
  PROVE  StreamOnWire'
<1>1. PICK f \in OtherFrames(serves) : wire' = Append(wire, f)
  BY DEF GatewaySends
<1>2. f \in Frame /\ ~IsStream(f)
  BY <1>1, FramesTyped DEF OtherFrames, IsStream, TypeOK
<1>3. /\ wire \in Seq(Frame) /\ Len(wire') = Len(wire) + 1 /\ wire'[Len(wire) + 1] = f
      /\ \A j \in DOMAIN wire : wire'[j] = wire[j] /\ j - 1 \in 0 .. Len(wire)
      /\ DOMAIN wire' = DOMAIN wire \cup {Len(wire) + 1}
      /\ Len(wire) \in 0 .. Len(wire) /\ DOMAIN wire = 1 .. Len(wire)
  BY <1>1, <1>2 DEF TypeOK
<1>4. /\ \A q \in 0 .. Len(wire), i \in Nat : LastSent(wire', q, i) <=> LastSent(wire, q, i)
      /\ \A q \in 0 .. Len(wire) : NoneSent(wire', q) <=> NoneSent(wire, q)
      /\ \A i \in Nat : LastSent(wire', Len(wire) + 1, i) <=> LastSent(wire, Len(wire), i)
      /\ NoneSent(wire', Len(wire) + 1) <=> NoneSent(wire, Len(wire))
  BY <1>1, <1>2, <1>3, SentAppended
<1>5. \A q \in 0 .. Len(wire), i \in Nat : LastSent(wire, q, i) => i \in DOMAIN wire
  BY <1>3 DEF LastSent
<1>6. UNCHANGED ring /\ UNCHANGED commits
  BY DEF GatewaySends
<1>7. WireInOrder'
  BY <1>2, <1>3, <1>4, <1>5 DEF StreamOnWire, WireInOrder
<1>8. WireFollowsRing'
  BY <1>2, <1>3, <1>4, <1>6 DEF StreamOnWire, WireFollowsRing
<1>9. WireUpToDate'
  BY <1>3, <1>4, <1>5, <1>6 DEF StreamOnWire, WireUpToDate
<1> QED BY <1>7, <1>8, <1>9 DEF StreamOnWire

\* The frame that is taken off the wire goes on from the ring, and is what the rest
\* of the wire goes on from.
LEMMA ReceiveInOrder ==
  ASSUME TypeOK, Readable, Places, StreamOnWire, StreamOnRing, Receive, ~spoiled'
  PROVE  StreamOnWire' /\ StreamOnRing'
<1> DEFINE f == wire[1]
           x == from_value(f)
<1>1. /\ wire \in Seq(Frame) /\ wire # <<>> /\ wire' = Tail(wire) /\ Head(wire) = f /\ f \in Frame
      /\ ring \in Seq(Item) /\ UNCHANGED <<commits, at, view, torn>>
  BY SentTaken DEF TypeOK, Receive, readerVars
<1>2. Dispatched(mode, f)
  <2>1. f.bytes = "fine"
    BY <1>1 DEF Receive, Frame, Bytes, TypeOK
  <2> QED BY <1>1, <2>1, WholeIsDispatched
<1>3. /\ x \in Item /\ (IsStreamItem(x) <=> IsStream(f))
      /\ x.no = f.no /\ x.is_snapshot = f.is_snapshot
  BY <1>1, ItemsTyped
<1>4. \/ IsStream(f) /\ ring' = Append(ring, x)
      \/ ~IsStream(f) /\ ring' \in {ring, Append(ring, x)}
      \/ ring' = <<>> /\ ring = <<>>
  <2>1. CASE \A r \in Receivers : at[r] = 0
    BY <1>1, <2>1 DEF Receive, Places
  <2>2. CASE \E r \in Receivers : at[r] # 0
    <3>1. f.channel # "post" => ring' = Append(ring, x)
      BY <1>1, <1>2, <2>2 DEF Receive
    <3>2. f.channel = "post" => ring' = ring /\ ~IsStream(f)
      BY <1>1 DEF Receive, IsStream
    <3> QED BY <3>1, <3>2
  <2> QED BY <2>1, <2>2
<1>5. /\ Tail(wire) \in Seq(Frame) /\ Len(wire') = Len(wire) - 1 /\ Len(wire) \in Nat \ {0}
      /\ DOMAIN wire' = 1 .. Len(wire) - 1
      /\ \A j \in DOMAIN wire' : j + 1 \in DOMAIN wire /\ wire'[j] = wire[j + 1]
      /\ \A q \in 0 .. Len(wire) - 1, i \in Nat :
           LastSent(wire', q, i) => LastSent(wire, q + 1, i + 1)
      /\ \A q \in 0 .. Len(wire) - 1 : NoneSent(wire', q) =>
           IF IsStream(f) THEN LastSent(wire, q + 1, 1) ELSE NoneSent(wire, q + 1)
  BY <1>1, SentTaken
<1> HIDE DEF f, x
<1>6. \A q \in 0 .. Len(wire) - 1, i \in Nat :
        LastSent(wire', q, i) => i \in DOMAIN wire' /\ i + 1 \in Nat
  BY <1>5 DEF LastSent
<1>7. WireInOrder'
  <2> SUFFICES ASSUME NEW j \in DOMAIN wire', IsStream(wire'[j]), ~wire'[j].is_snapshot,
                      NEW i \in Nat, LastSent(wire', j - 1, i)
               PROVE  wire'[j].no = wire'[i].no + 1
    BY DEF WireInOrder
  <2>1. j - 1 \in 0 .. Len(wire) - 1 /\ j + 1 - 1 = j - 1 + 1
    BY <1>5
  <2>2. LastSent(wire, j + 1 - 1, i + 1) /\ i + 1 \in Nat /\ wire'[i] = wire[i + 1]
    BY <1>5, <1>6, <2>1
  <2> QED BY <1>5, <2>2 DEF StreamOnWire, WireInOrder
<1>8. \A i \in Nat : LastSent(wire', Len(wire'), i) => wire'[i].no = commits'
  <2> SUFFICES ASSUME NEW i \in Nat, LastSent(wire', Len(wire'), i)
               PROVE  wire'[i].no = commits'
    OBVIOUS
  <2>1. Len(wire') \in 0 .. Len(wire) - 1 /\ Len(wire') + 1 = Len(wire)
    BY <1>5
  <2>2. LastSent(wire, Len(wire), i + 1) /\ i + 1 \in Nat /\ wire'[i] = wire[i + 1]
    BY <1>5, <1>6, <2>1
  <2> QED BY <1>1, <2>2 DEF StreamOnWire, WireUpToDate
<1>9. \A j \in DOMAIN wire' : j - 1 \in 0 .. Len(wire) - 1 /\ (j + 1) - 1 = j /\ (j - 1) + 1 = j
  BY <1>5
<1>10. CASE IsStream(f) /\ ring' = Append(ring, x)
  <2>1. /\ Len(ring') = Len(ring) + 1 /\ ring'[Len(ring) + 1] = x /\ Len(ring) \in Nat
        /\ \A j \in 1 .. Len(ring) : ring'[j] = ring[j] /\ j - 1 \in 0 .. Len(ring)
        /\ DOMAIN ring' = 1 .. Len(ring) + 1 /\ DOMAIN ring = 1 .. Len(ring)
    BY <1>1, <1>3, <1>10
  <2>2. /\ \A q \in 0 .. Len(ring), i \in Nat : LastHeard(ring', q, i) <=> LastHeard(ring, q, i)
        /\ \A i \in Nat : LastHeard(ring', Len(ring) + 1, i) <=> i = Len(ring) + 1
    BY <1>1, <1>3, <1>10, Heard
  <2>3. \A q \in 0 .. Len(ring), i \in Nat : LastHeard(ring, q, i) => i \in 1 .. Len(ring)
    BY <2>1 DEF LastHeard
  <2>4. ASSUME ~f.is_snapshot, NEW i \in Nat, LastHeard(ring, Len(ring), i)
        PROVE  f.no = ring[i].no + 1
    <3>1. 1 \in DOMAIN wire /\ NoneSent(wire, 1 - 1)
      BY <1>5, <1>1 DEF NoneSent
    <3> QED BY <1>10, <2>4, <3>1 DEF StreamOnWire, WireFollowsRing, f
  <2>5. RingInOrder'
    <3> SUFFICES ASSUME NEW j \in DOMAIN ring', IsStreamItem(ring'[j]), ~ring'[j].is_snapshot,
                        NEW i \in Nat, LastHeard(ring', j - 1, i)
                 PROVE  ring'[j].no = ring'[i].no + 1
      BY DEF RingInOrder
    <3>1. CASE j \in 1 .. Len(ring)
      BY <2>1, <2>2, <2>3, <3>1 DEF StreamOnRing, RingInOrder
    <3>2. CASE j = Len(ring) + 1
      <4>1. LastHeard(ring, Len(ring), i) /\ ring'[i] = ring[i]
        BY <2>1, <2>2, <2>3, <3>2
      <4> QED BY <1>3, <2>1, <2>4, <3>2, <4>1
    <3> QED BY <2>1, <3>1, <3>2
  <2>6. ViewsInOrder' /\ \A r \in Receivers : ~torn'[r]
    <3> SUFFICES ASSUME NEW r \in Receivers, view[r] # 0
                 PROVE  \E i \in Nat : LastHeard(ring', at[r] - 1, i) /\ ring'[i].no = view[r]
      BY <1>1 DEF ViewsInOrder, StreamOnRing
    <3>1. PICK i \in Nat : LastHeard(ring, at[r] - 1, i) /\ ring[i].no = view[r]
      BY DEF StreamOnRing, ViewsInOrder
    <3>2. at[r] - 1 \in 0 .. Len(ring)
      BY DEF Places, TypeOK
    <3> QED BY <2>1, <2>2, <2>3, <3>1, <3>2
  <2>7. WireFollowsRing'
    <3> SUFFICES ASSUME NEW j \in DOMAIN wire', IsStream(wire'[j]), ~wire'[j].is_snapshot,
                        NoneSent(wire', j - 1)
                 PROVE  wire'[j].no = x.no + 1
      BY <2>1, <2>2 DEF WireFollowsRing
    <3>1. LastSent(wire, j, 1)
      BY <1>5, <1>9, <1>10
    <3>2. wire[j + 1].no = wire[1].no + 1
      BY <1>5, <1>9, <3>1 DEF StreamOnWire, WireInOrder
    <3> QED BY <1>3, <1>5, <3>2 DEF f
  <2>8. NoneSent(wire', Len(wire')) => x.no = commits'
    <3> SUFFICES ASSUME NoneSent(wire', Len(wire')) PROVE x.no = commits'
      OBVIOUS
    <3>1. Len(wire') \in 0 .. Len(wire) - 1 /\ Len(wire') + 1 = Len(wire)
      BY <1>5
    <3>2. LastSent(wire, Len(wire), 1)
      BY <1>5, <1>10, <3>1
    <3> QED BY <1>1, <1>3, <3>2 DEF StreamOnWire, WireUpToDate, f
  <2>9. WireUpToDate'
    BY <1>8, <2>1, <2>2, <2>8 DEF WireUpToDate
  <2> QED BY <1>7, <2>5, <2>6, <2>7, <2>9 DEF StreamOnWire, StreamOnRing
<1>11. CASE \/ ~IsStream(f) /\ ring' \in {ring, Append(ring, x)}
            \/ ring' = <<>> /\ ring = <<>>
  <2>1. /\ Len(ring') \in {Len(ring), Len(ring) + 1} /\ Len(ring) \in Nat
        /\ \A j \in 1 .. Len(ring) : ring'[j] = ring[j] /\ j - 1 \in 0 .. Len(ring)
        /\ DOMAIN ring' = 1 .. Len(ring') /\ DOMAIN ring = 1 .. Len(ring)
        /\ \A j \in DOMAIN ring' : j \in 1 .. Len(ring) \/ ~IsStreamItem(ring'[j])
        /\ ring = <<>> \/ ~IsStream(f)
    BY <1>1, <1>3, <1>11
  <2>2. /\ \A q \in 0 .. Len(ring), i \in Nat : LastHeard(ring', q, i) <=> LastHeard(ring, q, i)
        /\ \A i \in Nat : LastHeard(ring', Len(ring'), i) <=> LastHeard(ring, Len(ring), i)
    <3>1. CASE ring' = ring
      BY <3>1
    <3>2. CASE ~IsStream(f) /\ ring' = Append(ring, x)
      <4>1. Len(ring') = Len(ring) + 1
        BY <1>1, <1>3, <3>2
      <4> QED BY <1>1, <1>3, <3>2, <4>1, Heard
    <3> QED BY <1>11, <3>1, <3>2
  <2>3. \A q \in 0 .. Len(ring), i \in Nat : LastHeard(ring, q, i) => i \in 1 .. Len(ring)
    BY <1>1 DEF LastHeard
  <2>4. ring = <<>> => \A i \in Nat : ~LastHeard(ring, Len(ring), i)
    BY DEF LastHeard
  <2>5. RingInOrder'
    BY <2>1, <2>2, <2>3 DEF StreamOnRing, RingInOrder
  <2>6. ViewsInOrder' /\ \A r \in Receivers : ~torn'[r]
    <3> SUFFICES ASSUME NEW r \in Receivers, view[r] # 0
                 PROVE  \E i \in Nat : LastHeard(ring', at[r] - 1, i) /\ ring'[i].no = view[r]
      BY <1>1 DEF ViewsInOrder, StreamOnRing
    <3>1. PICK i \in Nat : LastHeard(ring, at[r] - 1, i) /\ ring[i].no = view[r]
      BY DEF StreamOnRing, ViewsInOrder
    <3>2. at[r] - 1 \in 0 .. Len(ring)
      BY DEF Places, TypeOK
    <3> QED BY <2>1, <2>2, <2>3, <3>1, <3>2
  <2>7. Len(ring) \in 0 .. Len(ring)
    BY <1>1
  <2>8. WireFollowsRing'
    <3> SUFFICES ASSUME NEW j \in DOMAIN wire', IsStream(wire'[j]), ~wire'[j].is_snapshot,
                        NoneSent(wire', j - 1), NEW i \in Nat, LastHeard(ring, Len(ring), i)
                 PROVE  wire'[j].no = ring[i].no + 1
      BY <2>1, <2>2, <2>3, <2>7 DEF WireFollowsRing
    <3>1. NoneSent(wire, (j + 1) - 1)
      BY <1>5, <1>9, <2>1, <2>4
    <3> QED BY <1>5, <3>1 DEF StreamOnWire, WireFollowsRing
  <2>9. WireUpToDate'
    <3> SUFFICES ASSUME NoneSent(wire', Len(wire')), NEW i \in Nat,
                        LastHeard(ring, Len(ring), i)
                 PROVE  ring[i].no = commits
      BY <1>1, <1>8, <2>1, <2>2, <2>3, <2>7 DEF WireUpToDate
    <3>1. Len(wire') \in 0 .. Len(wire) - 1 /\ Len(wire') + 1 = Len(wire)
      BY <1>5
    <3>2. NoneSent(wire, Len(wire))
      BY <1>5, <2>1, <2>4, <3>1
    <3> QED BY <3>2 DEF StreamOnWire, WireUpToDate
  <2> QED BY <1>7, <2>5, <2>6, <2>8, <2>9 DEF StreamOnWire, StreamOnRing
<1> QED BY <1>4, <1>10, <1>11

-----------------------------------------------------------------------------
(* The readers.                                                             *)

\* A reader's state is that of the last of the stream it was handed.
LEMMA RecvInOrder ==
  ASSUME TypeOK, StreamOnRing, NEW r \in Receivers, Recv(r)
  PROVE  StreamOnRing'
<1> DEFINE f == ring[at[r]]
           applies == f.message = "markets" /\ (f.is_snapshot \/ view[r] # 0)
<1>1. /\ at[r] \in 1 .. Len(ring) /\ Len(ring) \in Nat /\ at[r] \in DOMAIN ring
      /\ f \in Item
  BY OldestBounded DEF Recv, TypeOK
<1>2. /\ \A q \in Receivers \ {r} : at'[q] = at[q] /\ view'[q] = view[q] /\ torn'[q] = torn[q]
      /\ at'[r] = at[r] + 1 /\ at'[r] - 1 = at[r] /\ UNCHANGED ring
      /\ applies => /\ view'[r] = f.no
                    /\ torn'[r] = (~f.is_snapshot /\ (torn[r] \/ f.no # view[r] + 1))
      /\ ~applies => view'[r] = view[r] /\ torn'[r] = torn[r]
  BY <1>1 DEF Recv, TypeOK
<1>3. RingInOrder'
  BY <1>2 DEF StreamOnRing, RingInOrder
<1>4. ASSUME view[r] # 0
      PROVE  \E i \in Nat : LastHeard(ring, at[r] - 1, i) /\ ring[i].no = view[r]
  BY <1>4 DEF StreamOnRing, ViewsInOrder
<1> HIDE DEF f
<1>5. CASE applies
  <2>1. IsStreamItem(f) /\ LastHeard(ring, at[r], at[r])
    BY <1>1, <1>5 DEF IsStreamItem, LastHeard, f
  <2>2. ViewsInOrder'
    <3> SUFFICES ASSUME NEW q \in Receivers, view'[q] # 0
                 PROVE  \E i \in Nat : LastHeard(ring, at'[q] - 1, i) /\ ring[i].no = view'[q]
      BY <1>2 DEF ViewsInOrder
    <3>1. CASE q = r
      BY <1>1, <1>2, <1>5, <2>1, <3>1 DEF f
    <3>2. CASE q # r
      BY <1>2, <3>2 DEF StreamOnRing, ViewsInOrder
    <3> QED BY <3>1, <3>2
  <2>3. ~f.is_snapshot => f.no = view[r] + 1
    <3> SUFFICES ASSUME ~f.is_snapshot PROVE f.no = view[r] + 1
      OBVIOUS
    <3>1. PICK i \in Nat : LastHeard(ring, at[r] - 1, i) /\ ring[i].no = view[r]
      BY <1>4, <1>5
    <3> QED BY <1>1, <2>1, <3>1 DEF StreamOnRing, RingInOrder, f
  <2>4. \A q \in Receivers : ~torn'[q]
    BY <1>2, <1>5, <2>3 DEF StreamOnRing
  <2> QED BY <1>3, <2>2, <2>4 DEF StreamOnRing
<1>6. CASE ~applies
  <2>1. ViewsInOrder'
    <3> SUFFICES ASSUME NEW q \in Receivers, view'[q] # 0
                 PROVE  \E i \in Nat : LastHeard(ring, at'[q] - 1, i) /\ ring[i].no = view'[q]
      BY <1>2 DEF ViewsInOrder
    <3>1. CASE q = r
      <4>1. view[r] # 0 /\ ~IsStreamItem(f)
        BY <1>2, <1>6, <3>1 DEF IsStreamItem
      <4>2. PICK i \in Nat : LastHeard(ring, at[r] - 1, i) /\ ring[i].no = view[r]
        BY <1>4, <4>1
      <4>3. LastHeard(ring, at[r], i)
        BY <1>1, <4>1, <4>2 DEF LastHeard, f
      <4> QED BY <1>2, <1>6, <3>1, <4>2, <4>3
    <3>2. CASE q # r
      BY <1>2, <3>2 DEF StreamOnRing, ViewsInOrder
    <3> QED BY <3>1, <3>2
  <2>2. \A q \in Receivers : ~torn'[q]
    BY <1>2, <1>6 DEF StreamOnRing
  <2> QED BY <1>3, <2>1, <2>2 DEF StreamOnRing
<1> QED BY <1>5, <1>6

LEMMA RingUntouched ==
  ASSUME StreamOnRing, UNCHANGED <<ring, at, view, torn>> PROVE StreamOnRing'
  BY DEF StreamOnRing, RingInOrder, ViewsInOrder

LEMMA WireUntouched ==
  ASSUME StreamOnWire, UNCHANGED <<ring, wire, commits>> PROVE StreamOnWire'
  BY DEF StreamOnWire, WireInOrder, WireFollowsRing, WireUpToDate

LEMMA StreamKept ==
  TypeOK /\ Readable /\ Places /\ StreamInv /\ [Next]_vars => StreamInv'
<1> SUFFICES ASSUME TypeOK, Readable, Places, StreamInv, [Next]_vars, ~spoiled'
             PROVE  StreamOnRing' /\ (conn' = "up" => StreamOnWire')
  BY DEF StreamInv
<1>1. ~spoiled
  <2>1. CASE Receive
    BY <2>1 DEF Receive
  <2>2. CASE Redeploy \/ Connect \/ ConnectPlain \/ Break \/ Commit \/ GatewaySends
    BY <2>2 DEF Redeploy, Connect, ConnectPlain, Break, Commit, GatewaySends, ghosts
  <2>3. ASSUME NEW r \in Receivers, messages(r) \/ Lagged(r) \/ Recv(r) PROVE ~spoiled
    BY <2>3 DEF messages, Lagged, Recv, ghosts
  <2>4. CASE UNCHANGED vars
    BY <2>4 DEF vars, ghosts
  <2> QED BY <2>1, <2>2, <2>3, <2>4 DEF Next
<1>2. StreamOnRing /\ (conn = "up" => StreamOnWire)
  BY <1>1 DEF StreamInv
<1>3. CASE Redeploy \/ UNCHANGED vars
  BY <1>2, <1>3, RingUntouched, WireUntouched DEF Redeploy, vars, linkVars, readerVars
<1>4. CASE Connect
  <2>1. StreamOnRing' /\ UNCHANGED <<commits, ring>>
    BY <1>2, <1>4, RingUntouched DEF Connect, readerVars
  <2>2. CASE ~offer
    <3>1. "text" \in Forms /\ Opened("text", "text")
      BY <1>4, <2>2 DEF Connect, Forms
    <3> QED BY <2>1, <3>1, OpenedInOrder
  <2>3. CASE offer /\ Answers(gateway) = {}
    BY <1>4, <2>1, <2>3 DEF Connect
  <2>4. CASE offer /\ Answers(gateway) # {}
    <3>1. Selected(gateway) \in Forms
      BY <2>4, SelectedOffered DEF Forms, TypeOK
    <3>2. from_selected(Selected(gateway)) \in Forms
      BY <3>1, ModeFollows
    <3>3. Opened(from_selected(Selected(gateway)), Selected(gateway))
      BY <1>4, <2>4 DEF Connect
    <3> QED BY <2>1, <3>1, <3>2, <3>3, OpenedInOrder
  <2> QED BY <2>2, <2>3, <2>4 DEF TypeOK
<1>5. CASE ConnectPlain
  <2>1. StreamOnRing' /\ UNCHANGED <<commits, ring>>
    BY <1>2, <1>5, RingUntouched DEF ConnectPlain, readerVars
  <2>2. CASE Opened("text", "text")
    <3>1. "text" \in Forms
      BY DEF Forms
    <3> QED BY <2>1, <2>2, <3>1, OpenedInOrder
  <2>3. CASE conn' = "down"
    BY <2>1, <2>3
  <2> QED BY <1>5, <2>2, <2>3 DEF ConnectPlain
<1>6. CASE Break
  BY <1>2, <1>6, RingUntouched DEF Break, readerVars
<1>7. CASE Commit
  <2>1. StreamOnRing'
    BY <1>2, <1>7, RingUntouched DEF Commit, readerVars
  <2>2. conn' = conn
    BY <1>7 DEF Commit, linkVars
  <2> QED BY <1>2, <1>7, <2>1, <2>2, CommitInOrder
<1>8. CASE GatewaySends
  <2>1. StreamOnRing' /\ conn = "up"
    BY <1>2, <1>8, RingUntouched DEF GatewaySends, readerVars
  <2> QED BY <1>2, <1>8, <2>1, OthersInOrder
<1>9. CASE Receive
  <2>1. conn = "up"
    BY <1>9 DEF Receive
  <2> QED BY <1>2, <1>9, <2>1, ReceiveInOrder
<1>10. ASSUME NEW r \in Receivers, messages(r) \/ Lagged(r)
       PROVE  StreamOnRing' /\ (conn' = "up" => StreamOnWire')
  <2>1. conn' = conn /\ UNCHANGED <<ring, wire, commits>>
    BY <1>10 DEF messages, Lagged, linkVars
  <2>2. conn' = "up" => StreamOnWire'
    BY <1>2, <2>1, WireUntouched
  <2>3. RingInOrder'
    BY <1>2, <2>1 DEF StreamOnRing, RingInOrder
  <2>4. view'[r] = 0 /\ ~torn'[r]
    BY <1>2, <1>10 DEF messages, Lagged, Places, StreamOnRing, TypeOK
  <2>5. \A q \in Receivers \ {r} : at'[q] = at[q] /\ view'[q] = view[q] /\ torn'[q] = torn[q]
    BY <1>10 DEF messages, Lagged, TypeOK
  <2>6. ViewsInOrder' /\ \A q \in Receivers : ~torn'[q]
    BY <1>2, <2>1, <2>4, <2>5 DEF StreamOnRing, ViewsInOrder
  <2> QED BY <2>2, <2>3, <2>6 DEF StreamOnRing
<1>11. ASSUME NEW r \in Receivers, Recv(r)
       PROVE  StreamOnRing' /\ (conn' = "up" => StreamOnWire')
  <2>1. conn' = conn /\ UNCHANGED <<ring, wire, commits>>
    BY <1>11 DEF Recv, linkVars
  <2>2. conn' = "up" => StreamOnWire'
    BY <1>2, <2>1, WireUntouched
  <2> QED BY <1>2, <1>11, <2>2, RecvInOrder
<1> QED BY <1>3, <1>4, <1>5, <1>6, <1>7, <1>8, <1>9, <1>10, <1>11 DEF Next

-----------------------------------------------------------------------------
LEMMA InboundInit == Init => InboundInv
<1> SUFFICES ASSUME Init PROVE InboundInv
  OBVIOUS
<1>1. TypeOK
  <2>1. wire \in Seq(Frame) /\ ring \in Seq(Item)
    BY DEF Init
  <2>2. count \in Counts
    BY DEF Init, Counts
  <2> QED BY <2>1, <2>2 DEF Init, TypeOK, Forms
<1>2. RefusedOnce /\ Readable /\ ~unread /\ Places
  BY DEF Init, RefusedOnce, Readable, Places
<1>3. StreamInv
  BY DEF Init, StreamInv, StreamOnRing, RingInOrder, ViewsInOrder
<1> QED BY <1>1, <1>2, <1>3 DEF InboundInv

LEMMA InboundStep == InboundInv /\ [Next]_vars => InboundInv'
  BY Types, Handshakes, AllReadable, AllRead, PlacesKept, StreamKept DEF InboundInv

\* Every behaviour of the link keeps InboundInv.
THEOREM Inbound == Spec => []InboundInv
<1>1. Init => InboundInv
  BY InboundInit
<1>2. InboundInv /\ [Next]_vars => InboundInv'
  BY InboundStep
<1> QED BY <1>1, <1>2, PTL DEF Spec

\* Whatever versions of the gateway came and went, what arrives whole is read.
THEOREM FramesRead == Spec => []EveryFrameRead
<1>1. InboundInv => EveryFrameRead
  BY DEF InboundInv, EveryFrameRead
<1> QED BY <1>1, Inbound, PTL

\* However often the task reconnects, one handshake is made twice.
THEOREM OneRetry == Spec => []OneExtraHandshake
<1>1. InboundInv => OneExtraHandshake
  BY DEF InboundInv, RefusedOnce, OneExtraHandshake
<1> QED BY <1>1, Inbound, PTL

\* No reader that starts at a snapshot, and starts afresh when it lagged, applies a
\* change over a gap, whatever the capacity and however many readers there are.
THEOREM GapsNoticed == Spec => []NoGapApplied
<1>1. InboundInv => NoGapApplied
  BY DEF InboundInv, StreamInv, StreamOnRing, NoGapApplied
<1> QED BY <1>1, Inbound, PTL
=============================================================================
