--------------------------- MODULE MCBridgeHistory ---------------------------
(***************************************************************************)
(* The bridge and its history on small instances.                          *)
(***************************************************************************)
EXTENDS BridgeHistory, TLC

CONSTANTS h1, h2, k1

OneDongle == h1 :> k1

\* Two dongles of one model: their headsets share a key.
TwoDongles == h1 :> k1 @@ h2 :> k1
=============================================================================
