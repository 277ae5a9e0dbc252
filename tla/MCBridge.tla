------------------------------ MODULE MCBridge ------------------------------
(***************************************************************************)
(* The bridge on small instances: which entry of a poll has which key.     *)
(* Durations are scaled down in the cfgs; what is kept is their order.     *)
(***************************************************************************)
EXTENDS Bridge, TLC

CONSTANTS h1, h2, k1, k2

OneHeadset == h1 :> k1

TwoModels == h1 :> k1 @@ h2 :> k2
=============================================================================
