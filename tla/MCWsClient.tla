------------------------------ MODULE MCWsClient -----------------------------
(* Instances of WsClient for TLC.                                           *)
EXTENDS WsClientProperties, TLC

CONSTANTS c1, c2, p1, p2, full, grouped, trades

\* Two views of one coin's book and another channel.
MCSubs == {full, grouped, trades}
MCL2 == {full, grouped}
MCCoin == [s \in MCL2 |-> "BTC"]

\* Each caller looks after channels of its own.
Disjoint == [c \in Callers |-> IF c = c1 THEN MCL2 ELSE {trades}]
\* Two callers ask for different views of the same book.
Racing == [c \in Callers |-> IF c = c1 THEN {full} ELSE {grouped}]
\* One caller, one channel.
OneChannel == [c \in Callers |-> {trades}]
NoCaller == [c \in {} |-> {}]
NoCoin == [s \in {} |-> "BTC"]
=============================================================================
