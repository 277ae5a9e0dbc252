------------------------------ MODULE MCDaemon ------------------------------
(***************************************************************************)
(* A small instance of Daemon.  Durations are in REAP_INTERVALs, and keep  *)
(* the order the code's have: a native tick is shorter than a retry, both  *)
(* than a wait, a wait than the interval between two runs of               *)
(* headsetcontrol.                                                         *)
(***************************************************************************)
EXTENDS Daemon

Device(n, battery, status, level) ==
  [name |-> n, capabilities |-> IF battery THEN {"CAP_BATTERY_STATUS"} ELSE {},
   status |-> status, level |-> level]

\* No device; one without a battery; a headset that is off, one that answers
\* with a level no battery has; two headsets with levels.
SomeReports ==
  {{}, {Device(1, FALSE, "BATTERY_UNAVAILABLE", 0)},
   {Device(1, TRUE, "BATTERY_AVAILABLE", 101)},
   {Device(1, TRUE, "BATTERY_AVAILABLE", 40), Device(2, TRUE, "BATTERY_CHARGING", -1)},
   {Device(1, TRUE, "BATTERY_AVAILABLE", 40), Device(2, TRUE, "BATTERY_CHARGING", 9)}}

Maxwell(state, percent) ==
  [name |-> 1, supports_battery |-> TRUE,
   battery |-> [state |-> state, percent |-> percent]]

SomeNativeReports == {{Maxwell("Disconnected", None)}, {Maxwell("Discharging", 40)}}

=============================================================================
