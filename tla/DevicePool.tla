----------------------------- MODULE DevicePool -----------------------------
(***************************************************************************)
(* The pool of /dev/uhid handles (DevicePool in src/src/bridge/mod.rs).    *)
(* Handles are interchangeable, so the pool is their number.  The service  *)
(* manager passes Inherited of them; only a daemon that was passed none    *)
(* may open the node itself.                                               *)
(***************************************************************************)
EXTENDS Integers

CONSTANT Inherited  \* how many handles the service manager passed

ASSUME InheritedAssumption == Inherited \in Nat

VARIABLE spare  \* handles not in use by a device

MayOpen == Inherited = 0

PoolInit == spare = Inherited

\* acquire succeeds out of the spare handles, or else by opening the node.
CanAcquire == spare > 0 \/ MayOpen

\* acquire can fail: there is no spare handle, and the node may not be opened
\* or opening it fails.
MayBeRefused == spare = 0

\* What the pool holds while an acquired handle is out.
Taken == IF spare > 0 THEN spare - 1 ELSE 0

\* Not the code: a device takes a handle opened for it, spare ones or not.
AcquireAnew == CanAcquire /\ UNCHANGED spare

\* acquire, and the handle stays with the device.
Acquire == CanAcquire /\ spare' = Taken

\* acquire, and the handle comes back.
Borrow == CanAcquire /\ spare' = Taken + 1

put_back(n) == spare' = spare + n
=============================================================================
