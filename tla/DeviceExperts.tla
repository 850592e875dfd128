--------------------------- MODULE DeviceExperts ---------------------------
(***************************************************************************)
(* Weights on their way into the kernels of the CUDA backend, for a MoE    *)
(* layer after the other: the table of resident weights                    *)
(* (runtime/cuda/resident_weights.cu), the asynchronous transfer of the    *)
(* experts of a layer (async_mxfp4_pipeline.cu), the operations that use   *)
(* them (backend_cuda.cu) and their order in a layer (Engine::moe).        *)
(*                                                                         *)
(* The host enqueues copies and kernels and goes on; the device executes   *)
(* the compute stream and the transfer stream when it likes.  A kernel     *)
(* reads whatever is at its location by then.  An operation that fails     *)
(* returns at once and leaves what it has enqueued to the device.          *)
(*                                                                         *)
(* A resident weight's location is named by the weight itself.  An expert  *)
(* counts as one weight; activations, sizes of scratch buffers and timing  *)
(* are left out.  External: a copy out of ordinary memory has taken its    *)
(* data when it is enqueued, one out of pinned memory takes it when it     *)
(* runs, and cudaFree waits until the device has nothing to do.            *)
(***************************************************************************)
EXTENDS Naturals, FiniteSets, Sequences, SequencesExt

CONSTANTS
  Experts,     \* the weights that are routed experts; the others are dense
  Down, Up,    \* routed_down_proj and routed_up_proj of a layer
  WeightBytes, MaxWeightBytes,  \* the size of each weight, and the largest
  Room,        \* cuda_resident_bytes
  Setups,      \* how a backend may be made: "prefetch" (transient weights),
               \* "group", "grid", "layer" (resident weights, synchronous)
  TopExperts,  \* the largest number of experts a layer selects
  MaxFaults,   \* bound: CUDA calls that fail
  Nothing      \* what is in memory that nobody wrote

VARIABLES
  setup,      \* which of the setups the backend was made with
  lru,        \* the resident weights, least recently used first
  residentBytes,  \* resident_weight_bytes, of the entries of the table
  kept,       \* protected_keys
  memory,     \* device memory: what is at each location
  stream,     \* commands of the compute stream that have not run
  pinned,     \* the experts staged in the pinned buffer
  uploading,  \* the transfer stream has its copy still to run
  transfer,   \* pending: the experts prefetched, and whether consumed
  agenda,     \* the operations of the layer that remain
  handles,    \* where each weight of the current operation will be read
  launched,   \* how many of its uses of a weight have been enqueued
  faults

tableVars == <<lru, residentBytes, kept>>
deviceVars == <<memory, stream, uploading>>
hostVars == <<agenda, handles, launched>>
backendVars ==
  <<setup, tableVars, deviceVars, pinned, transfer, hostVars, faults>>

Weights == Experts \cup {Down, Up}
Locations == Weights \cup {"scratch", "buffer"}

\* valid_payload refuses an empty weight.
ASSUME DeviceAssumption ==
  /\ IsFiniteSet(Experts) /\ Down \notin Experts /\ Up \notin Experts
  /\ "scratch" \notin Weights /\ "buffer" \notin Weights
  /\ MaxWeightBytes \in Nat /\ WeightBytes \in [Weights -> 1..MaxWeightBytes]
  /\ Room \in Nat /\ TopExperts \in Nat /\ MaxFaults \in Nat
  /\ Setups \subseteq {"prefetch", "group", "grid", "layer"}

Table == INSTANCE ExpertBytes WITH
  Keys <- Weights, Bytes <- WeightBytes, MaxBytes <- MaxWeightBytes

NoTransfer == [of |-> {}, consumed |-> FALSE]

BackendInit ==
  /\ setup \in Setups
  /\ lru = << >> /\ residentBytes = 0 /\ kept = {}
  /\ memory = [l \in Locations |-> Nothing]
  /\ stream = << >> /\ uploading = FALSE /\ pinned = {}
  /\ transfer = NoTransfer
  /\ agenda = << >> /\ handles = << >> /\ launched = 0
  /\ faults = 0

-----------------------------------------------------------------------------
(* A layer, as the engine runs it.                                         *)

Operation(kind, weights) == [kind |-> kind, weights |-> weights]

MatvecOf(w) == Operation("matvec", <<w>>)

LayerOf(chosen) ==
  CASE setup = "prefetch" ->
         <<Operation("prefetch", chosen), MatvecOf(Down),
           Operation("prepared", chosen), MatvecOf(Up)>>
    [] setup = "layer" ->
         <<Operation("protect", << >>), Operation("protect", chosen),
           Operation("layer", <<Down, Up>> \o chosen)>>
    [] OTHER ->
         <<Operation("protect", << >>), MatvecOf(Down),
           Operation("protect", chosen), Operation(setup, chosen),
           MatvecOf(Up)>>

\* The selections of a router: distinct experts in the order of their slots.
Routings ==
  {s \in UNION {[1..n -> Experts] : n \in 1..TopExperts} : IsInjective(s)}

BeginLayer ==
  /\ agenda = << >>
  /\ \E chosen \in Routings : agenda' = LayerOf(chosen)
  /\ UNCHANGED <<setup, tableVars, deviceVars, pinned, transfer, handles,
                 launched, faults>>

Doing(kinds) == agenda # << >> /\ Head(agenda).kind \in kinds
Asked == Head(agenda).weights

Done == agenda' = Tail(agenda) /\ handles' = << >> /\ launched' = 0

\* A failed operation makes the forward throw: the layer is over.
Fails ==
  /\ faults < MaxFaults /\ faults' = faults + 1
  /\ agenda' = << >> /\ handles' = << >> /\ launched' = 0

-----------------------------------------------------------------------------
(* The table of resident weights.                                          *)

BeginAccessSet ==
  /\ Doing({"protect"})
  /\ kept' = Range(Asked)
  /\ Done
  /\ UNCHANGED <<setup, lru, residentBytes, deviceVars, pinned, transfer,
                 faults>>

Acquiring ==
  /\ setup # "prefetch" /\ Doing({"matvec", "layer", "grid", "group"})
  /\ Len(handles) < Len(Asked)
Sought == Asked[Len(handles) + 1]

\* The operation will read this weight at that location.
Handed(location) ==
  /\ handles' = Append(handles, location)
  /\ UNCHANGED <<setup, pinned, transfer, agenda, launched, uploading>>

Missed == Acquiring /\ Sought \notin Range(lru)
HasRoom == residentBytes + WeightBytes[Sought] <= Room
TooLarge == WeightBytes[Sought] > Room
Evictable == {i \in DOMAIN lru : lru[i] \notin kept}

\* evict_one, which acquire repeats until there is room: the oldest entry that
\* is not protected is freed, for which the device has to be idle.
Evict ==
  /\ Missed /\ ~HasRoom /\ ~TooLarge
  /\ stream = << >> /\ ~uploading
  /\ \E i \in Evictable :
       LET bytes == WeightBytes[lru[i]] IN
       /\ \A j \in Evictable : i <= j
       /\ lru' = RemoveAt(lru, i)
       /\ residentBytes' =
            IF residentBytes >= bytes THEN residentBytes - bytes ELSE 0
       /\ memory' = [memory EXCEPT ![lru[i]] = Nothing]
  /\ UNCHANGED <<setup, kept, stream, uploading, pinned, transfer, hostVars,
                 faults>>

AcquireHit ==
  /\ Acquiring
  /\ \E i \in DOMAIN lru :
       lru[i] = Sought /\ lru' = Append(RemoveAt(lru, i), Sought)
  /\ kept' = kept \cup {Sought}
  /\ Handed(Sought)
  /\ UNCHANGED <<residentBytes, memory, stream, faults>>

AcquireBypass ==
  /\ Missed /\ ~HasRoom
  /\ TooLarge \/ Evictable = {}
  /\ Handed("scratch")
  /\ UNCHANGED <<tableVars, memory, stream, faults>>

CopyTo(location, w) == [kind |-> "copy", at |-> location, of |-> w]
KernelAt(location, w) == [kind |-> "kernel", at |-> location, of |-> w]
WaitForTransfer == [kind |-> "wait", at |-> "buffer", of |-> {}]

\* Mutant: only begin_access_set protects, not acquire.
AdmitUnprotected ==
  /\ Missed /\ HasRoom
  /\ lru' = Append(lru, Sought)
  /\ residentBytes' = residentBytes + WeightBytes[Sought]
  /\ memory' = [memory EXCEPT ![Sought] = Nothing]
  /\ stream' = Append(stream, CopyTo(Sought, Sought))
  /\ Handed(Sought)
  /\ UNCHANGED <<kept, faults>>

AcquireAdmit ==
  /\ Missed /\ HasRoom
  /\ lru' = Append(lru, Sought)
  /\ residentBytes' = residentBytes + WeightBytes[Sought]
  /\ kept' = kept \cup {Sought}
  /\ memory' = [memory EXCEPT ![Sought] = Nothing]
  /\ stream' = Append(stream, CopyTo(Sought, Sought))
  /\ Handed(Sought)
  /\ UNCHANGED faults

\* Mutant: the bytes are counted before the allocation.
FailsCounted ==
  /\ Missed /\ HasRoom
  /\ residentBytes' = residentBytes + WeightBytes[Sought]
  /\ Fails
  /\ UNCHANGED <<setup, lru, kept, deviceVars, pinned, transfer>>

\* The allocation or the upload fails, when the victims are gone already.
AcquireFails ==
  /\ Missed /\ HasRoom
  /\ Fails
  /\ UNCHANGED <<setup, tableVars, deviceVars, pinned, transfer>>

-----------------------------------------------------------------------------
(* Operations on the compute stream.                                       *)

\* Without a table every weight goes through a scratch buffer.
Places ==
  IF setup = "prefetch" THEN [i \in DOMAIN Asked |-> "scratch"] ELSE handles

\* A grid and a whole layer need every weight resident.  Else a grid starts
\* over as a group, and the engine takes the layer's operations one by one.
FallsBack ==
  /\ Doing({"grid", "layer"}) /\ Len(handles) = Len(Asked)
  /\ "scratch" \in Range(handles)
Instead ==
  IF Doing({"grid"}) THEN <<Operation("group", Asked)>>
  ELSE <<MatvecOf(Down), Operation("grid", SubSeq(Asked, 3, Len(Asked))),
         MatvecOf(Up)>>
FallBack ==
  /\ FallsBack
  /\ agenda' = Instead \o Tail(agenda)
  /\ handles' = << >>
  /\ UNCHANGED <<setup, tableVars, deviceVars, pinned, transfer, launched,
                 faults>>

\* consume makes the compute stream wait for the transfer, and happens once.
Consumable == Doing({"prepared"}) /\ ~transfer.consumed

Consume ==
  /\ Consumable
  /\ stream' = Append(stream, WaitForTransfer)
  /\ transfer' = [transfer EXCEPT !.consumed = TRUE]
  /\ UNCHANGED <<setup, tableVars, memory, uploading, pinned, hostVars, faults>>

\* It may fail between the wait and the note that it has been done.
ConsumeFails ==
  /\ Consumable
  /\ stream' \in {stream, Append(stream, WaitForTransfer)}
  /\ Fails
  /\ UNCHANGED <<setup, tableVars, memory, uploading, pinned, transfer>>

Launching ==
  \/ /\ Doing({"matvec", "layer", "grid", "group"})
     /\ DOMAIN Places = DOMAIN Asked /\ ~FallsBack
  \/ Doing({"prepared"}) /\ transfer.consumed

\* What an operation enqueues for its next weight; a weight that has no place
\* of its own is copied right before its kernel.
Weight == Asked[launched + 1]
Place == IF Doing({"prepared"}) THEN "buffer" ELSE Places[launched + 1]
Copied == IF Place = "scratch" THEN <<CopyTo("scratch", Weight)>> ELSE << >>
Kernel == KernelAt(Place, IF Place = "buffer" THEN Range(Asked) ELSE Weight)

Launch ==
  /\ Launching /\ launched < Len(Asked)
  /\ stream' = Append(stream \o Copied, Kernel)
  /\ launched' = launched + 1
  /\ UNCHANGED <<setup, tableVars, memory, uploading, pinned, transfer, agenda,
                 handles, faults>>

LaunchFails ==
  /\ Launching /\ launched < Len(Asked)
  /\ stream' \in {stream, stream \o Copied}
  /\ Fails
  /\ UNCHANGED <<setup, tableVars, memory, uploading, pinned, transfer>>

\* The stream has drained; a prepared operation completes its transfer.
Synchronize ==
  /\ Launching /\ launched = Len(Asked) /\ stream = << >>
  /\ transfer' = IF Doing({"prepared"}) THEN NoTransfer ELSE transfer
  /\ Done
  /\ UNCHANGED <<setup, tableVars, deviceVars, pinned, faults>>

\* The synchronization fails, or the timing of the transfer does; the timing of
\* the kernels comes after the transfer was completed.
SynchronizeFails ==
  /\ Launching /\ launched = Len(Asked)
  /\ \/ UNCHANGED transfer
     \/ Doing({"prepared"}) /\ stream = << >> /\ transfer' = NoTransfer
  /\ Fails
  /\ UNCHANGED <<setup, tableVars, deviceVars, pinned>>

-----------------------------------------------------------------------------
(* The asynchronous transfer.                                              *)

PrefetchAllowed == transfer = NoTransfer

Prefetch ==
  /\ Doing({"prefetch"}) /\ PrefetchAllowed
  /\ pinned' = Range(Asked) /\ uploading' = TRUE
  /\ transfer' = [of |-> Range(Asked), consumed |-> FALSE]
  /\ Done
  /\ UNCHANGED <<setup, tableVars, memory, stream, faults>>

\* The copy is not enqueued, or the transfer stream is drained before prepare
\* returns; either way nothing is pending.
PrefetchFails ==
  /\ Doing({"prefetch"}) /\ PrefetchAllowed
  /\ pinned' = Range(Asked)
  /\ memory' \in {memory, [memory EXCEPT !["buffer"] = Range(Asked)]}
  /\ Fails
  /\ UNCHANGED <<setup, tableVars, stream, uploading, transfer>>

\* A transfer that an earlier failure left pending keeps the buffer.
PrefetchRefused ==
  /\ Doing({"prefetch"}) /\ ~PrefetchAllowed
  /\ agenda' = << >>
  /\ UNCHANGED <<setup, tableVars, deviceVars, pinned, transfer, handles,
                 launched, faults>>

-----------------------------------------------------------------------------
(* The device.                                                             *)

Runs(command) == stream # << >> /\ Head(stream).kind = command

RunCopy ==
  /\ Runs("copy")
  /\ memory' = [memory EXCEPT ![Head(stream).at] = Head(stream).of]
  /\ stream' = Tail(stream)
  /\ UNCHANGED <<setup, tableVars, uploading, pinned, transfer, hostVars,
                 faults>>

RunKernel ==
  /\ Runs("kernel")
  /\ stream' = Tail(stream)
  /\ UNCHANGED <<setup, tableVars, memory, uploading, pinned, transfer,
                 hostVars, faults>>

PassWait ==
  /\ Runs("wait") /\ ~uploading
  /\ stream' = Tail(stream)
  /\ UNCHANGED <<setup, tableVars, memory, uploading, pinned, transfer,
                 hostVars, faults>>

Upload ==
  /\ uploading
  /\ uploading' = FALSE
  /\ memory' = [memory EXCEPT !["buffer"] = pinned]
  /\ UNCHANGED <<setup, tableVars, stream, pinned, transfer, hostVars, faults>>

-----------------------------------------------------------------------------
BackendNext ==
  \/ BeginLayer \/ BeginAccessSet
  \/ Evict \/ AcquireHit \/ AcquireBypass \/ AcquireAdmit \/ AcquireFails
  \/ FallBack \/ Consume \/ ConsumeFails \/ Launch \/ LaunchFails
  \/ Synchronize \/ SynchronizeFails
  \/ Prefetch \/ PrefetchFails \/ PrefetchRefused
  \/ RunCopy \/ RunKernel \/ PassWait \/ Upload

BackendSpec == BackendInit /\ [][BackendNext]_backendVars

-----------------------------------------------------------------------------
(* Properties                                                              *)

\* The kernel that may run now finds the weight it was launched for: no
\* location it was given has been freed, refilled or not yet written, and no
\* copy into the prefetch buffer runs beside it.
KernelsReadTheirWeights ==
  LET kernel == Head(stream) IN
  stream # << >> /\ kernel.kind = "kernel" =>
    /\ memory[kernel.at] = kernel.of
    /\ kernel.at = "buffer" => ~uploading

\* resident_weight_bytes counts the entries of the table and nothing else,
\* never more than the limit, also after an acquire that failed half way; an
\* entry has a location and is listed once, and what was evicted is freed.
ResidentBytesAreExact ==
  /\ residentBytes = Table!Charged(Range(lru)) /\ residentBytes <= Room
  /\ IsInjective(lru)
  /\ \A w \in Weights : memory[w] # Nothing => w \in Range(lru)
=============================================================================
