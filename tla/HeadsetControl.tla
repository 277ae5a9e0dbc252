--------------------------- MODULE HeadsetControl ---------------------------
(***************************************************************************)
(* One run of the headsetcontrol binary (src/src/headsetcontrol.rs): the   *)
(* child, what it may have started, its two pipes, the thread that drains  *)
(* each of them, and the loop that waits for the child.                    *)
(*                                                                         *)
(* The unit of time is REAP_INTERVAL.  What a process writes is counted in *)
(* chunks, of which a pipe holds PipeSize.  The child may be a wrapper     *)
(* that waits for the process it started; one that ends before that        *)
(* process is left out, as the comment at lines 122-123 leaves it out.     *)
(***************************************************************************)
EXTENDS Policy, FiniteSets

CONSTANTS
  Timeout,     \* --timeout
  PipeSize,    \* how much a pipe holds
  MostOutput,  \* bound of the model: how much a run writes to one pipe
  Reports      \* the documents headsetcontrol may print: sets of devices

ASSUME RunAssumption == /\ Timeout \in Nat
                        /\ PipeSize \in Nat \ {0}
                        /\ MostOutput \in Nat

Pipe == {"stdout", "stderr"}

VARIABLES
  runner,   \* where run is: "idle", "check", "asleep", "join" or "failed"
  procs,    \* the live processes of the run, "child" and "helper"
  written,  \* what they wrote to each pipe
  read,     \* what the pipe's thread read of it
  elapsed   \* since the probe started

runVars == <<runner, procs, written, read, elapsed>>

-----------------------------------------------------------------------------
(* What a document says (parse). *)

State == {"Discharging", "Charging", "Unavailable", "Disconnected"}

Level(level) == IF level \in 0..100 THEN level ELSE None

battery_state(status, level) ==
  CASE status = "BATTERY_AVAILABLE" /\ Level(level) # None ->
         [state |-> "Discharging", percent |-> Level(level)]
    [] status = "BATTERY_CHARGING" -> [state |-> "Charging", percent |-> Level(level)]
    [] OTHER -> [state |-> "Unavailable", percent |-> None]

\* A document names a device once, so a set keeps all of them.
parse(report) ==
  {[name |-> device.name,
    supports_battery |-> "CAP_BATTERY_STATUS" \in device.capabilities,
    battery |-> battery_state(device.status, device.level)] : device \in report}

-----------------------------------------------------------------------------
(* The processes. *)

Write(p) ==
  /\ procs # {}
  /\ written[p] < MostOutput
  /\ written[p] - read[p] < PipeSize
  /\ written' = [written EXCEPT ![p] = @ + 1]
  /\ UNCHANGED <<runner, procs, read, elapsed>>

\* A wrapper outlives what it started, unless it is killed.
Exit(process) ==
  /\ process \in procs
  /\ process = "child" => "helper" \notin procs
  /\ procs' = procs \ {process}
  /\ UNCHANGED <<runner, written, read, elapsed>>

(* The draining threads. *)

Unread(p) == written[p] # read[p]

Drain(p) ==
  /\ Unread(p)
  /\ read' = [read EXCEPT ![p] = written[p]]
  /\ UNCHANGED <<runner, procs, written, elapsed>>

-----------------------------------------------------------------------------
(* The loop of run.  A turn is one step: nothing it looks at can be        *)
(* undone between its tests.                                               *)

Spawn ==
  /\ runner = "idle"
  /\ runner' = "check"
  /\ procs' \in {{"child"}, {"child", "helper"}}
  /\ UNCHANGED <<written, read, elapsed>>

SpawnFails ==
  /\ runner = "idle"
  /\ runner' = "failed"
  /\ UNCHANGED <<procs, written, read, elapsed>>

Reap ==
  /\ runner = "check" /\ "child" \notin procs
  /\ runner' = "join"
  /\ UNCHANGED <<procs, written, read, elapsed>>

\* The processes and threads of the run are left to themselves.
Forget == /\ procs' = {}
          /\ written' = [p \in Pipe |-> 0] /\ read' = [p \in Pipe |-> 0]

\* Not the code: the threads are joined after a kill too.
KillAndJoin ==
  runner' = "join" /\ procs' = procs \ {"child"} /\ UNCHANGED <<written, read>>

\* The child is killed and reaped; neither what it started nor the threads are
\* waited for.
kill == runner' = "failed" /\ Forget

Cut(stopped) ==
  /\ runner = "check" /\ "child" \in procs
  /\ stopped \/ elapsed >= Timeout
  /\ kill
  /\ UNCHANGED elapsed

\* try_wait failed: the child is neither killed nor awaited.
LoseTheChild ==
  runner = "check" /\ runner' = "failed" /\ Forget /\ UNCHANGED elapsed

Sleep(stopped) ==
  /\ runner = "check" /\ "child" \in procs
  /\ ~stopped /\ elapsed < Timeout
  /\ runner' = "asleep"
  /\ UNCHANGED <<procs, written, read, elapsed>>

\* Both threads saw the end of their pipe.
Joined == runner = "join" /\ procs = {} /\ \A p \in Pipe : ~Unread(p)

\* An assumption about time: each thread reads what is in its pipe in no time that
\* counts.  A process takes as long as it pleases.
Blocked ==
  /\ runner = "asleep" \/ (runner = "join" /\ ~Joined)
  /\ \A p \in Pipe : ~Unread(p)

RunPass ==
  /\ Blocked
  /\ runner' = IF runner = "asleep" THEN "check" ELSE runner
  /\ elapsed' = elapsed + 1
  /\ UNCHANGED <<procs, written, read>>

\* The result of the run was taken.
RunOver == runner' = "idle" /\ Forget /\ elapsed' = 0

RunInit == /\ runner = "idle" /\ procs = {} /\ elapsed = 0
           /\ written = [p \in Pipe |-> 0] /\ read = [p \in Pipe |-> 0]

RunTypeOK ==
  /\ runner \in {"idle", "check", "asleep", "join", "failed"}
  /\ procs \subseteq {"child", "helper"}
  /\ written \in [Pipe -> Nat] /\ read \in [Pipe -> Nat]
  /\ elapsed \in Nat
=============================================================================
