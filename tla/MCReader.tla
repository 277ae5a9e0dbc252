------------------------------ MODULE MCReader ------------------------------
(***************************************************************************)
(* The reader and its history on small instances.                          *)
(***************************************************************************)
EXTENDS ReaderHistory, TLC

CONSTANTS n1, n2, p1

\* One dongle, whose node may change when it re-enumerates.
SameModel == n1 :> p1 @@ n2 :> p1

OneAtATime == {{}, {n1}, {n2}}

Both == {{n1, n2}}

TwoExtraQuestions == <<1, 2>>

Interchangeable == Permutations({n1, n2})

Messages == {n1, n2} \X {"gone", "other"}
=============================================================================
