------------------------------ MODULE MCDongle ------------------------------
(***************************************************************************)
(* A small instance of Dongle.  Times are in seconds of the model: what    *)
(* matters is that the first question waits, that there is a quick one     *)
(* after it, and that both paces differ.                                   *)
(***************************************************************************)
EXTENDS Dongle

OneAgain == <<1>>
=============================================================================
