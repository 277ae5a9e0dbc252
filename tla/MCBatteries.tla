----------------------------- MODULE MCBatteries -----------------------------
(***************************************************************************)
(* The bridge and its vectors on a small instance of three models.         *)
(***************************************************************************)
EXTENDS Batteries

CONSTANTS h1, h2, h3, k1, k2, k3

ThreeModels == h1 :> k1 @@ h2 :> k2 @@ h3 :> k3
=============================================================================
