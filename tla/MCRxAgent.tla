------------------------------ MODULE MCRxAgent ------------------------------
(* Two senders on one VM and a flow-set of another class on a second.           *)
EXTENDS RxAgent, TLC

CONSTANTS d1, d2, f1, f2, f3

MCFlowSets == {f1, f2, f3}
MCDstOf == f1 :> d1 @@ f2 :> d1 @@ f3 :> d2
MCClsOf == f1 :> "rdma" @@ f2 :> "rdma" @@ f3 :> "tcp"
Pol(cap) ==
  [weight |-> d1 :> 2 @@ d2 :> 1,
   maxRate |-> d1 :> cap @@ d2 :> Unlimited,
   clsWeight |-> [d \in {d1, d2} |-> [c \in {"rdma", "tcp"} |-> 1]],
   fsWeight |-> [f \in MCFlowSets |-> 1]]
MCPolicies == {Pol(36), Pol(Unlimited)}
==============================================================================
