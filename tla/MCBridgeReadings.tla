-------------------------- MODULE MCBridgeReadings --------------------------
(***************************************************************************)
(* The bridge, its readings and what the desktop shows of them on a small  *)
(* instance.                                                               *)
(***************************************************************************)
EXTENDS BridgeReadings, BridgeDesktop, TLC

CONSTANTS h1, k1

OneHeadset == h1 :> k1
=============================================================================
