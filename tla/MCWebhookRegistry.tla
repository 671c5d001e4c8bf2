-------------------------- MODULE MCWebhookRegistry --------------------------
(* Instances of WebhookRegistry for TLC. *)
EXTENDS WebhookRegistry, TLC

CONSTANTS w1, r1, r2

OneWebhook == {w1}
OneRequest == {r1}
TwoRequests == {r1, r2}
TwoEvents == {"created", "alert"}
TwoTargets == {"url1", "url2"}

\* Bodies that set nothing, or one field.
Keep == [event |-> "keep", enabled |-> "keep", secret |-> "keep", target |-> "keep"]
SingleFields ==
  {Keep, [Keep EXCEPT !.secret = "set"], [Keep EXCEPT !.target = "url2"]}
    \cup {[Keep EXCEPT !.event = e] : e \in {"alert", "*"}}
    \cup {[Keep EXCEPT !.enabled = b] : b \in {"on", "off"}}

Symmetry == Permutations({r1, r2})
=============================================================================
