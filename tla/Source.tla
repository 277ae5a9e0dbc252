------------------------------- MODULE Source -------------------------------
(***************************************************************************)
(* Which reader answers a poll (src/src/source.rs): the native one, or     *)
(* headsetcontrol.  What a native poll finds is Reader's business; here it *)
(* is one of the lists of headsets in NativeReports.                       *)
(***************************************************************************)
EXTENDS HeadsetControl

CONSTANTS
  Backends,      \* those of "Auto", "Native" and "HeadsetControl" considered
  NativeReports, \* what the native reader may report
  ReenumerationGrace

ASSUME SourceAssumption ==
  /\ Backends \subseteq {"Auto", "Native", "HeadsetControl"}
  /\ ReenumerationGrace \in Nat

VARIABLES
  backend,       \* --backend
  native,        \* whether the last probe was answered by the native reader
  native_seen_at \* how long ago it had a dongle, stopping at the grace

sourceVars == <<backend, native, native_seen_at>>

dongle_is_coming_back ==
  native_seen_at # None /\ native_seen_at < ReenumerationGrace

\* Not the code: the gap counts as a poll of headsetcontrol.
MissesNative(found) == backend = "Native" \/ (backend = "Auto" /\ found # {})

\* The native reader answers, with the list it found.
AnswersNative(found) ==
  \/ backend = "Native"
  \/ backend = "Auto" /\ (found # {} \/ dongle_is_coming_back)

\* last_probe_was_native, after a poll whose native pass found that.
PacedNative(found) == AnswersNative(found)

\* The native part of probe.  found is {} for a backend without it.
ProbeNative(found) ==
  /\ backend = "HeadsetControl" => found = {}
  /\ native' = PacedNative(found)
  /\ native_seen_at' = IF backend = "Auto" /\ found # {} THEN 0 ELSE native_seen_at
  /\ UNCHANGED backend

SourcePass ==
  /\ native_seen_at' = IF native_seen_at = None THEN None
                       ELSE Least(native_seen_at + 1, ReenumerationGrace)
  /\ UNCHANGED <<backend, native>>

SourceInit == backend \in Backends /\ native = FALSE /\ native_seen_at = None

SourceTypeOK ==
  /\ backend \in Backends
  /\ native \in BOOLEAN
  /\ native_seen_at \in 0..ReenumerationGrace \cup {None}
=============================================================================
