---------------------------- MODULE PostService ----------------------------
(***************************************************************************)
(* What the `post` lane of the WebSocket client promises its callers, with *)
(* no queue, no connection and no correlation id in sight.  A signed       *)
(* action is one-shot: its effect happens at most once, before or after    *)
(* the call returns, and a call answers only with the outcome of its own   *)
(* effect.  A failure says nothing about the effect, so nobody may retry   *)
(* on the caller's behalf.  (post_request in ws/client.rs.)                *)
(***************************************************************************)
EXTENDS Naturals

CONSTANT Posts      \* the calls of post_request, each made at most once

VARIABLES result,   \* result[p]: what the caller of p has been told so far
          effects   \* effects[p]: how often the node has carried p out

vars == <<result, effects>>

Results == {"idle", "called", "answered", "failed"}

TypeOK == /\ result \in [Posts -> Results]
          /\ effects \in [Posts -> {0, 1}]

Init == /\ result = [p \in Posts |-> "idle"]
        /\ effects = [p \in Posts |-> 0]

\* The caller issues the request.
Call(p) == /\ result[p] = "idle"
           /\ result' = [result EXCEPT ![p] = "called"]
           /\ UNCHANGED effects

\* The node carries the request out; a failed call may still take effect.
Effect(p) == /\ result[p] \in {"called", "failed"}
             /\ effects[p] = 0
             /\ effects' = [effects EXCEPT ![p] = 1]
             /\ UNCHANGED result

\* The caller gets the response of a request that was carried out.
Answer(p) == /\ result[p] = "called"
             /\ effects[p] = 1
             /\ result' = [result EXCEPT ![p] = "answered"]
             /\ UNCHANGED effects

\* The caller gets an error, or walks away.
Fail(p) == /\ result[p] = "called"
           /\ result' = [result EXCEPT ![p] = "failed"]
           /\ UNCHANGED effects

Next == \E p \in Posts : Call(p) \/ Effect(p) \/ Answer(p) \/ Fail(p)

Spec == Init /\ [][Next]_vars
=============================================================================
