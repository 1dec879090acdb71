---------------------------- MODULE FittingPromise ----------------------------
(***************************************************************************)
(* What the register promises about GPS units, without rows, snapshots or  *)
(* requests: each vehicle names at most one device, and a fitting moves    *)
(* one device in a single step - off the vehicle it was on, onto a vehicle *)
(* whose previous device comes off at the same moment.                     *)
(***************************************************************************)
CONSTANTS Devices, Vehicles, None

VARIABLE device  \* the device each vehicle names

Init == device = [v \in Vehicles |-> None]

Put(t, v) ==
  device' = [u \in Vehicles |->
               IF u = v THEN t ELSE IF device[u] = t THEN None ELSE device[u]]

TakeOff(t) ==
  /\ \E v \in Vehicles : device[v] = t
  /\ device' = [u \in Vehicles |-> IF device[u] = t THEN None ELSE device[u]]

Next == \E t \in Devices : TakeOff(t) \/ \E v \in Vehicles : Put(t, v)

Spec == Init /\ [][Next]_device
=============================================================================
