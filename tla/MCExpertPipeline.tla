-------------------------- MODULE MCExpertPipeline --------------------------
(***************************************************************************)
(* Small instances of the two halves of an expert's way to its kernel:     *)
(* from storage into host memory under the engine (three experts on two    *)
(* layers), and from host memory into the kernels of the CUDA backend      *)
(* (three experts and two dense weights, room for three bytes).  A         *)
(* behaviour is of one half or of the other.                               *)
(***************************************************************************)
EXTENDS ExpertPipeline, DeviceExperts, TLC

CONSTANTS
  a, b, c, w1,             \* of the host's half
  x, y, z, down, up        \* of the device's half

VARIABLE half

MCKeys == {a, b, c}
MCBytes == [k \in Keys |-> IF k = b THEN 2 ELSE 1]
MCLayer == [k \in Keys |-> IF k = c THEN 0 ELSE 1]
OneWorker == {w1}

MCExperts == {x, y, z}
MCWeightBytes == [w \in Weights |-> IF w = z THEN 2 ELSE 1]

HalvesInit ==
  /\ Init /\ BackendInit
  /\ \/ half = "host" /\ setup = "grid"
     \/ half = "device" /\ mode = "lru"

HostStep == half = "host" /\ Next /\ UNCHANGED <<half, backendVars>>
DeviceStep == half = "device" /\ BackendNext /\ UNCHANGED <<half, vars>>

HalvesNext == HostStep \/ DeviceStep

HalvesSpec ==
  HalvesInit /\ [][HalvesNext]_<<half, vars, backendVars>> /\ Fairness
=============================================================================
