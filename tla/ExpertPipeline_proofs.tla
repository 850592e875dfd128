----------------------- MODULE ExpertPipeline_proofs -----------------------
(***************************************************************************)
(* The generation thread uses the loader and the store as their modules    *)
(* allow: every step of the pipeline is a step of each of them or leaves   *)
(* it alone, so what is proved of them for any callers holds of them here. *)
(* With where a load is, and that a pool that is idle has answered all of  *)
(* them, it follows that no load outlives the batch it was selected for.   *)
(*                                                                         *)
(* Whatever the device executes late and whichever CUDA call fails, a      *)
(* kernel finds the weight it was launched for, and the bytes of the       *)
(* resident table are exact, for any experts, sizes, limit and setups.     *)
(* The argument is about the stream as a whole: of every command still to  *)
(* run it says what the commands before it will have done by then.  A      *)
(* command enqueued or run keeps the claim by two lemmas, AppendFollows    *)
(* and TailFollows.                                                        *)
(***************************************************************************)
EXTENDS ExpertPipeline, DeviceExperts, FiniteSetTheorems, SequenceTheorems, TLAPS

PoolP == INSTANCE DeadlineExpertLoader_proofs WITH
  Clients <- {Generation}, LatestStart <- [k \in Tickets |-> 0]
StoreP == INSTANCE HostExpertStore_proofs WITH
  Callers <- [m \in Modes |-> Threads],
  MaxCalls <- [m \in Modes |-> MaxBatches * TopK],
  MaxAccessSets <- [m \in Modes |-> MaxBatches], Scores <- {0}

-----------------------------------------------------------------------------
(* The instances                                                           *)

\* What the loader assumes of its constants.
LEMMA PoolFits ==
  /\ PoolP!IsFiniteSet(Tickets)
  /\ PoolP!IsFiniteSet(Workers) /\ Workers # {}
  /\ PoolP!IsFiniteSet({Generation})
  /\ MaxPending \in Nat \ {0}
  /\ [k \in Tickets |-> 0] \in [Tickets -> Nat]
  /\ NoTicket \notin Tickets
<1>0. 1 \in Int /\ MaxBatches \in Int /\ TopK \in Int
  BY PipelineAssumption
<1>1. IsFiniteSet(1..MaxBatches) /\ IsFiniteSet(Slots)
  BY <1>0, FS_Interval, Zenon DEF Slots
<1>2. IsFiniteSet(Tickets)
  BY <1>1, FS_Product DEF Tickets
<1>3. IsFiniteSet({Generation})
  BY FS_Singleton
<1> QED
  BY <1>1, <1>2, <1>3, PipelineAssumption DEF IsFiniteSet, PoolP!IsFiniteSet

\* What the store assumes of its constants.
LEMMA StoreFits ==
  /\ StoreP!IsFiniteSet(Keys)
  /\ MaxBytes \in Nat /\ Bytes \in [Keys -> 1..MaxBytes]
  /\ Keys # {}
  /\ Layer \in [Keys -> Nat] /\ Capacity \in Nat /\ Modes \subseteq StoreP!AllModes
  /\ [m \in Modes |-> Threads] \in [Modes -> SUBSET Threads]
  /\ [m \in Modes |-> MaxBatches * TopK] \in [Modes -> Nat]
  /\ [m \in Modes |-> MaxBatches] \in [Modes -> Nat]
  /\ {0} \subseteq Nat
<1>1. MaxBatches \in Nat /\ MaxBatches * TopK \in Nat
  BY PipelineAssumption
<1>2. StoreP!IsFiniteSet(Keys)
  BY PipelineAssumption DEF IsFiniteSet, StoreP!IsFiniteSet
<1>3. Modes \subseteq StoreP!AllModes
  BY PipelineAssumption DEF Store!AllModes, StoreP!AllModes
<1>4. [m \in Modes |-> MaxBatches * TopK] \in [Modes -> Nat]
  BY <1>1
<1> QED
  BY <1>1, <1>2, <1>3, <1>4, PipelineAssumption

\* The two instances of the loader are the same.
LEMMA SamePool ==
  /\ Pool!Init <=> PoolP!Init
  /\ Pool!TypeOK <=> PoolP!TypeOK
  /\ [Pool!Next]_(Pool!vars) <=> [PoolP!Next]_(PoolP!vars)
<1> USE DEF Pool!poolVars, PoolP!poolVars, Pool!ticketVars, PoolP!ticketVars,
            Pool!counters, PoolP!counters, Pool!workerVars, PoolP!workerVars,
            Pool!clientVars, PoolP!clientVars, Pool!WorkerGoes, PoolP!WorkerGoes,
            Pool!ClientGoes, PoolP!ClientGoes
<1>1. Pool!Init <=> PoolP!Init
  BY DEF Pool!Init, PoolP!Init
<1>2. UNCHANGED Pool!vars <=> UNCHANGED PoolP!vars
  BY DEF Pool!vars, PoolP!vars
<1>3. Pool!TypeOK <=> PoolP!TypeOK
  BY DEF Pool!TypeOK, PoolP!TypeOK, Pool!Phases, PoolP!Phases, Pool!WorkerPlaces,
         PoolP!WorkerPlaces, Pool!ClientPlaces, PoolP!ClientPlaces
<1>c. \A S : Pool!Cardinality(S) = PoolP!Cardinality(S)
  BY DEF Pool!Cardinality, PoolP!Cardinality
<1>4. ASSUME NEW c, NEW k
      PROVE  /\ Pool!Submit(c, k) <=> PoolP!Submit(c, k)
             /\ Pool!SubmitResident(c, k) <=> PoolP!SubmitResident(c, k)
             /\ Pool!Wait(c, k) <=> PoolP!Wait(c, k)
  <2>1. Pool!Submit(c, k) <=> PoolP!Submit(c, k)
    BY <1>c DEF Pool!Submit, PoolP!Submit, Pool!HasRoom, PoolP!HasRoom, Pool!Larger, PoolP!Larger
  <2>2. Pool!SubmitResident(c, k) <=> PoolP!SubmitResident(c, k)
    BY DEF Pool!SubmitResident, PoolP!SubmitResident
  <2>3. Pool!Wait(c, k) <=> PoolP!Wait(c, k)
    BY DEF Pool!Wait, PoolP!Wait
  <2> QED
    BY <2>1, <2>2, <2>3
<1>5. ASSUME NEW c
      PROVE  /\ Pool!ClientStep(c) <=> PoolP!ClientStep(c)
             /\ Pool!WaitIdle(c) <=> PoolP!WaitIdle(c)
             /\ Pool!SpuriousTicketWake(c) <=> PoolP!SpuriousTicketWake(c)
             /\ Pool!SpuriousIdleWake(c) <=> PoolP!SpuriousIdleWake(c)
  <2>1. Pool!NotifyOne(c) <=> PoolP!NotifyOne(c)
    BY DEF Pool!NotifyOne, PoolP!NotifyOne
  <2>2. Pool!FinishInline(c) <=> PoolP!FinishInline(c)
    BY DEF Pool!FinishInline, PoolP!FinishInline
  <2>3. Pool!Recheck(c) <=> PoolP!Recheck(c)
    BY DEF Pool!Recheck, PoolP!Recheck
  <2>4. Pool!Collect(c) <=> PoolP!Collect(c)
    BY DEF Pool!Collect, PoolP!Collect
  <2>5. Pool!RecheckIdle(c) <=> PoolP!RecheckIdle(c)
    BY DEF Pool!RecheckIdle, PoolP!RecheckIdle, Pool!Idle, PoolP!Idle
  <2>6. /\ Pool!WaitIdle(c) <=> PoolP!WaitIdle(c)
        /\ Pool!SpuriousTicketWake(c) <=> PoolP!SpuriousTicketWake(c)
        /\ Pool!SpuriousIdleWake(c) <=> PoolP!SpuriousIdleWake(c)
    BY DEF Pool!WaitIdle, PoolP!WaitIdle, Pool!SpuriousTicketWake, PoolP!SpuriousTicketWake,
           Pool!SpuriousIdleWake, PoolP!SpuriousIdleWake, Pool!Idle, PoolP!Idle
  <2> QED
    BY <2>1, <2>2, <2>3, <2>4, <2>5, <2>6, Zenon DEF Pool!ClientStep, PoolP!ClientStep
<1>6. ASSUME NEW w
      PROVE  /\ Pool!WorkerStep(w) <=> PoolP!WorkerStep(w)
             /\ Pool!SpuriousWake(w) <=> PoolP!SpuriousWake(w)
  <2>1. Pool!Take(w) <=> PoolP!Take(w)
    BY DEF Pool!Take, PoolP!Take, Pool!StartsBefore, PoolP!StartsBefore
  <2>2. /\ Pool!Sleep(w) <=> PoolP!Sleep(w)
        /\ Pool!Exit(w) <=> PoolP!Exit(w)
        /\ Pool!SpuriousWake(w) <=> PoolP!SpuriousWake(w)
    BY DEF Pool!Sleep, PoolP!Sleep, Pool!Exit, PoolP!Exit, Pool!SpuriousWake, PoolP!SpuriousWake
  <2>3. Pool!Publish(w) <=> PoolP!Publish(w)
    BY DEF Pool!Publish, PoolP!Publish
  <2>4. Pool!Count(w) <=> PoolP!Count(w)
    BY DEF Pool!Count, PoolP!Count
  <2>5. Pool!Signal(w) <=> PoolP!Signal(w)
    BY DEF Pool!Signal, PoolP!Signal
  <2>6. Pool!Retire(w) <=> PoolP!Retire(w)
    BY DEF Pool!Retire, PoolP!Retire
  <2>7. Pool!NotifyIdle(w) <=> PoolP!NotifyIdle(w)
    BY DEF Pool!NotifyIdle, PoolP!NotifyIdle
  <2> QED
    BY <2>1, <2>2, <2>3, <2>4, <2>5, <2>6, <2>7, Zenon DEF Pool!WorkerStep, PoolP!WorkerStep
<1>7. /\ Pool!Stop <=> PoolP!Stop
      /\ Pool!NotifyWorkers <=> PoolP!NotifyWorkers
      /\ Pool!Join <=> PoolP!Join
  BY DEF Pool!Stop, PoolP!Stop, Pool!NotifyWorkers, PoolP!NotifyWorkers, Pool!Join, PoolP!Join
<1>8. Pool!Next <=> PoolP!Next
  BY <1>4, <1>5, <1>6, <1>7, Zenon DEF Pool!Next, PoolP!Next
<1> QED
  BY <1>1, <1>2, <1>3, <1>8

\* And those of the store.
LEMMA SameStore ==
  /\ Store!Init <=> StoreP!Init
  /\ Store!TypeOK <=> StoreP!TypeOK
  /\ [Store!Next]_(Store!vars) <=> [StoreP!Next]_(StoreP!vars)
<1> USE DEF Store!policyVars, StoreP!policyVars, Store!cacheVars, StoreP!cacheVars,
            Store!Goto, StoreP!Goto, Store!Finish, StoreP!Finish
<1>1. Store!Init <=> StoreP!Init
  BY DEF Store!Init, StoreP!Init, Store!Blank, StoreP!Blank, Store!ZeroStats, StoreP!ZeroStats
<1>2. UNCHANGED Store!vars <=> UNCHANGED StoreP!vars
  BY DEF Store!vars, StoreP!vars
<1>3. Store!TypeOK <=> StoreP!TypeOK
  BY DEF Store!TypeOK, StoreP!TypeOK, Store!Metadata, StoreP!Metadata, Store!Stats, StoreP!Stats,
         Store!Positions, StoreP!Positions, Store!Outcomes, StoreP!Outcomes
<1>c. \A S : Store!Cardinality(S) = StoreP!Cardinality(S)
  BY DEF Store!Cardinality, StoreP!Cardinality
<1>b. \A S : Store!Charged(S) = StoreP!Charged(S)
  BY <1>c DEF Store!Charged, StoreP!Charged, Store!Occupied, StoreP!Occupied
<1>e. Store!Evictable = StoreP!Evictable
  BY DEF Store!Evictable, StoreP!Evictable
<1>r. \A k, D : Store!RoomAfter(k, D) = StoreP!RoomAfter(k, D)
  BY <1>b DEF Store!RoomAfter, StoreP!RoomAfter
<1>m. \A k : Store!MayEvictFor(k) = StoreP!MayEvictFor(k)
  BY <1>r DEF Store!MayEvictFor, StoreP!MayEvictFor
<1>s. \A t : Store!Missed(t) = StoreP!Missed(t)
  BY DEF Store!Missed, StoreP!Missed
<1>4. ASSUME NEW t
      PROVE  /\ \A k : Store!Call(t, k) <=> StoreP!Call(t, k)
             /\ Store!SpuriousWake(t) <=> StoreP!SpuriousWake(t)
             /\ Store!ThreadStep(t) <=> StoreP!ThreadStep(t)
  <2>1. \A k : Store!Call(t, k) <=> StoreP!Call(t, k)
    BY DEF Store!Call, StoreP!Call
  <2>2. Store!Hit(t) <=> StoreP!Hit(t)
    BY DEF Store!Hit, StoreP!Hit
  <2>3. /\ Store!Own(t) <=> StoreP!Own(t)
        /\ Store!Block(t) <=> StoreP!Block(t)
        /\ Store!SpuriousWake(t) <=> StoreP!SpuriousWake(t)
    BY DEF Store!Own, StoreP!Own, Store!Block, StoreP!Block, Store!SpuriousWake, StoreP!SpuriousWake
  <2>4. /\ Store!LoaderFails(t) <=> StoreP!LoaderFails(t)
        /\ Store!LoaderSucceeds(t) <=> StoreP!LoaderSucceeds(t)
    BY DEF Store!LoaderFails, StoreP!LoaderFails, Store!LoaderSucceeds, StoreP!LoaderSucceeds
  <2>5. Store!Bypass(t) <=> StoreP!Bypass(t)
    BY <1>m, <1>s DEF Store!Bypass, StoreP!Bypass
  <2>6. Store!EvictAndBypass(t) <=> StoreP!EvictAndBypass(t)
    BY <1>m, <1>s, <1>e, <1>r, <1>b, <1>c DEF Store!EvictAndBypass, StoreP!EvictAndBypass, Store!Blank, StoreP!Blank
  <2>7. \A D : Store!IsVictimSet(D, want[t]) <=> StoreP!IsVictimSet(D, want[t])
    <3>1. \A v, u : Store!Preferred(v, u) <=> StoreP!Preferred(v, u)
      BY DEF Store!Preferred, StoreP!Preferred, Store!Older, StoreP!Older, Store!SpatiallyBefore,
             StoreP!SpatiallyBefore
    <3> QED
      BY <3>1, <1>r, <1>e DEF Store!IsVictimSet, StoreP!IsVictimSet
  <2>8. \A D : Store!AdmitEvicting(t, D) <=> StoreP!AdmitEvicting(t, D)
    <3>1. \A k, D : Store!ResidentAfter(k, D) = StoreP!ResidentAfter(k, D)
      BY <1>b DEF Store!ResidentAfter, StoreP!ResidentAfter
    <3>2. \A m, n : Store!Larger(m, n) = StoreP!Larger(m, n)
      BY DEF Store!Larger, StoreP!Larger
    <3> QED
      BY <3>1, <3>2, <1>s, <1>c DEF Store!AdmitEvicting, StoreP!AdmitEvicting, Store!Blank, StoreP!Blank
  <2>9. Store!Admit(t) <=> StoreP!Admit(t)
    BY <2>7, <2>8, <1>m, <1>r, <1>e DEF Store!Admit, StoreP!Admit
  <2>10. /\ Store!Release(t) <=> StoreP!Release(t)
         /\ Store!Notify(t) <=> StoreP!Notify(t)
    BY DEF Store!Release, StoreP!Release, Store!Notify, StoreP!Notify
  <2> QED
    BY <2>1, <2>2, <2>3, <2>4, <2>5, <2>6, <2>9, <2>10, Zenon DEF Store!ThreadStep, StoreP!ThreadStep
<1>5. \A fresh, layer, selected :
        Store!BeginAccessSet(fresh, layer, selected) <=> StoreP!BeginAccessSet(fresh, layer, selected)
  BY DEF Store!BeginAccessSet, StoreP!BeginAccessSet
<1>6. Store!Layers = StoreP!Layers
  BY DEF Store!Layers, StoreP!Layers
<1>7. Store!Next <=> StoreP!Next
  BY <1>4, <1>5, <1>6, Zenon DEF Store!Next, StoreP!Next
<1> QED
  BY <1>1, <1>2, <1>3, <1>7
-----------------------------------------------------------------------------
(* The inductive invariant                                                 *)

ChosenLists == UNION {[1..n -> Keys] : n \in Slots}
Submitting == {"residents", "running", "others"}
Running == Submitting \cup {"collecting", "waiting"}

\* The engine's own state, and the experts begin_access_set protects.
EngineTypes ==
  /\ stage \in Stages
  /\ chosen \in Seq(ChosenLists)
  /\ Len(chosen) = accessSets
  /\ accessSets \in 0..MaxBatches
  /\ resident \subseteq Slots
  /\ slot \in 0..(TopK + 1)
  /\ answer \in [Tickets -> Answers]
  /\ stage # "between" => accessSets > 0
  /\ stage \in Running => slot \in 1..(SlotsInUse + 1)
  /\ stage \in Submitting => resident \subseteq 1..SlotsInUse
  /\ accessSets > 0 => protected = {chosen[accessSets][i] : i \in 1..SlotsInUse}

\* Where the generation thread is inside of the loader.
ClientFollows ==
  /\ stage \in {"between", "selected", "residents", "collecting"} =>
       client[Generation] = "idle"
  /\ stage = "others" => client[Generation] \in {"idle", "notify"}
  /\ stage = "running" => client[Generation] = "inline"
  /\ stage = "waiting" => client[Generation] \in {"waiting", "woken", "found", "late"}
  /\ stage = "ending" => client[Generation] \in {"idle", "idling", "checking"}
  /\ stage \in {"running", "waiting"} =>
       slot <= SlotsInUse /\ ticket[Generation] = TicketOf(slot)
  /\ client[Generation] \in {"found", "late"} => ticket[Generation] \in ready

\* A thread is in the store only with the load it was given.
LoadsAreCalls ==
  /\ \A w \in Workers : pc[w] # "idle" => worker[w] = "loading" /\ want[w] = KeyOf(job[w])
  /\ pc[Generation] # "idle" => stage = "running" /\ want[Generation] = KeyOf(TicketOf(slot))

\* Only tickets of the batch in force are unanswered, and those that have been
\* waited for are answered.
BatchesEnd ==
  /\ \A k \in issued : k[1] \in 1..accessSets /\ k[2] \in 1..Len(chosen[k[1]])
  /\ \A k \in issued \ ready : k[1] = accessSets
  /\ stage \in {"between", "selected"} => issued \subseteq ready
  /\ stage \in {"collecting", "waiting"} =>
       \A k \in issued : k[2] < slot => k \in ready

EngineInv == EngineTypes /\ ClientFollows /\ LoadsAreCalls /\ BatchesEnd
PipelineInv == PoolP!LoaderInv /\ StoreP!StoreInv /\ EngineInv

\* Before the first layer there is nothing in flight.
LEMMA PipelineInit == Init => PipelineInv
<1> SUFFICES ASSUME Init PROVE PipelineInv
  OBVIOUS
<1>1. PoolP!LoaderInv /\ StoreP!StoreInv
  BY PoolFits, StoreFits, SamePool, SameStore, PoolP!LoaderInit, StoreP!StoreInit DEF Init
<1>2. /\ accessSets = 0 /\ pc = [t \in Threads |-> "idle"] /\ issued = {} /\ ready = {}
      /\ client = [c \in {Generation} |-> "idle"]
  BY DEF Init, Store!Init, Pool!Init
<1>3. stage = "between" /\ chosen = << >> /\ resident = {} /\ slot = 0
      /\ answer = [k \in Tickets |-> "none"]
  BY DEF Init
<1>4. << >> \in Seq(ChosenLists) /\ Len(<< >>) = 0
  BY EmptySeq
<1>5. EngineTypes
  BY <1>2, <1>3, <1>4, PipelineAssumption DEF EngineTypes, Stages, Answers, Running, Submitting
<1> QED
  BY <1>1, <1>2, <1>3, <1>5 DEF PipelineInv, EngineInv, ClientFollows, LoadsAreCalls, BatchesEnd, Threads

-----------------------------------------------------------------------------
(* What the loader's and the store's invariants say of the engine's calls  *)

\* A load is queued or at a worker only while it is unanswered.
LEMMA PoolFacts ==
  ASSUME PipelineInv
  PROVE  /\ queue \subseteq issued /\ ready \subseteq issued /\ issued \subseteq Tickets
         /\ queue \cap ready = {}
         /\ \A w \in Workers : worker[w] = "loading" => job[w] \in issued \ ready
         /\ worker \in [Workers -> Pool!WorkerPlaces]
         /\ job \in [Workers -> Tickets \cup {NoTicket}]
         /\ client \in [{Generation} -> Pool!ClientPlaces]
         /\ ticket \in [{Generation} -> Tickets \cup {NoTicket}]
<1>1. PoolP!TypeOK /\ PoolP!Placed
  BY DEF PipelineInv, PoolP!LoaderInv
<1>2. Pool!TypeOK
  BY <1>1, SamePool
<1> QED
  BY <1>1, <1>2 DEF PoolP!Placed, Pool!TypeOK, PoolP!WorkersAt

\* When wait_idle may return, every load has been answered.
LEMMA IdleAnswers ==
  ASSUME PipelineInv, Pool!Idle, client[Generation] # "inline"
  PROVE  issued \subseteq ready
<1>1. PoolP!TypeOK /\ PoolP!Placed /\ PoolP!ActiveCounts
  BY DEF PipelineInv, PoolP!LoaderInv
<1>2. PoolP!Cardinality(PoolP!WorkersAt(PoolP!Busy)) = 0 /\ queue = {}
  BY <1>1 DEF PoolP!ActiveCounts, Pool!Idle
<1>3. PoolP!WorkersAt(PoolP!Busy) = {}
  <2>1. PoolP!WorkersAt(PoolP!Busy) \in SUBSET Workers
    BY DEF PoolP!WorkersAt
  <2>2. \A S : Cardinality(S) = PoolP!Cardinality(S)
    BY DEF Cardinality, PoolP!Cardinality
  <2> QED
    BY <1>2, <2>1, <2>2, FS_Subset, FS_EmptySet, PipelineAssumption
<1>4. PoolP!WorkersAt({"loading"}) = {} /\ PoolP!ClientsAt({"inline"}) = {}
  BY <1>3 DEF PoolP!WorkersAt, PoolP!ClientsAt, PoolP!Busy
<1> QED
  BY <1>1, <1>2, <1>4 DEF PoolP!Placed

LEMMA StoreFacts ==
  ASSUME PipelineInv
  PROVE  /\ mode \in Modes /\ entries \subseteq Keys /\ protected \subseteq Keys
         /\ pc \in [Threads -> Store!Positions] /\ want \in [Threads -> Keys]
         /\ outcome \in [Threads -> Answers]
<1>1. StoreP!TypeOK
  BY DEF PipelineInv, StoreP!StoreInv
<1>2. Store!TypeOK
  BY <1>1, SameStore
<1> QED
  BY <1>2 DEF Store!TypeOK, Store!Outcomes, Answers

\* A layer's slots hold keys.
LEMMA SlotsHoldKeys ==
  ASSUME EngineTypes, NEW b \in 1..accessSets
  PROVE  /\ Len(chosen[b]) \in Slots /\ chosen[b] \in [1..Len(chosen[b]) -> Keys]
<1>1. chosen[b] \in ChosenLists
  BY ElementOfSeq DEF EngineTypes
<1>2. PICK n \in Slots : chosen[b] \in [1..n -> Keys]
  BY <1>1 DEF ChosenLists
<1>3. n \in Nat /\ DOMAIN chosen[b] = 1..n
  BY <1>2, PipelineAssumption DEF Slots
<1>4. chosen[b] \in Seq(Keys)
  BY <1>2, <1>3, SeqDef
<1>5. Len(chosen[b]) = n
  BY <1>3, <1>4, LenProperties
<1> QED
  BY <1>2, <1>5

\* The tickets of the batch in force.
LEMMA TicketsOfBatch ==
  ASSUME EngineTypes, stage # "between", NEW i \in 1..SlotsInUse
  PROVE  /\ TicketOf(i) \in Tickets /\ KeyOf(TicketOf(i)) \in Keys
         /\ KeyOf(TicketOf(i)) \in protected
         /\ TicketOf(i)[1] = accessSets /\ TicketOf(i)[2] = i
<1>1. accessSets \in 1..accessSets /\ accessSets \in 1..MaxBatches
      /\ protected = {chosen[accessSets][j] : j \in 1..SlotsInUse}
  BY PipelineAssumption DEF EngineTypes
<1>2. SlotsInUse \in Slots /\ chosen[accessSets] \in [1..SlotsInUse -> Keys]
  BY <1>1, SlotsHoldKeys DEF SlotsInUse
<1>3. i \in Slots
  BY <1>2, PipelineAssumption DEF Slots
<1> QED
  BY <1>1, <1>2, <1>3 DEF TicketOf, KeyOf, Tickets

\* A load that is queued or at a worker is of the batch in force, its expert
\* is one of those selected, and the layer is not between batches.
LEMMA InFlight ==
  ASSUME PipelineInv, NEW k \in issued \ ready
  PROVE  /\ k[1] = accessSets /\ KeyOf(k) \in Keys /\ KeyOf(k) \in protected
         /\ k \in Tickets /\ stage \notin {"between", "selected"}
<1>1. EngineTypes /\ BatchesEnd /\ k \in Tickets
  BY PoolFacts DEF PipelineInv, EngineInv
<1>2. k[1] = accessSets /\ k[2] \in 1..SlotsInUse /\ stage \notin {"between", "selected"}
  BY <1>1 DEF BatchesEnd, SlotsInUse
<1>3. k = TicketOf(k[2])
  BY <1>1, <1>2 DEF Tickets, TicketOf
<1> QED
  BY <1>1, <1>2, <1>3, TicketsOfBatch

\* Between batches nothing is queued and nobody is in the store.
LEMMA Settled ==
  ASSUME PipelineInv, issued \subseteq ready, stage # "running"
  PROVE  /\ queue = {}
         /\ \A w \in Workers : worker[w] # "loading"
         /\ \A t \in Threads : pc[t] = "idle"
<1>1. queue = {} /\ \A w \in Workers : worker[w] # "loading"
  BY PoolFacts
<1>2. \A t \in Threads : pc[t] = "idle"
  BY <1>1 DEF PipelineInv, EngineInv, LoadsAreCalls, Threads
<1> QED
  BY <1>1, <1>2

-----------------------------------------------------------------------------
(* Steps of the generation thread                                          *)

\* A step that leaves loader and store alone, and the access set.
LEMMA BothRest ==
  ASSUME UNCHANGED <<storeVars, poolVars>>
  PROVE  UNCHANGED Pool!vars /\ UNCHANGED Store!vars
BY DEF storeVars, poolVars, Pool!vars, Store!vars, Pool!poolVars, Pool!ticketVars, Pool!counters,
       Pool!workerVars, Pool!clientVars

LEMMA SelectExpertsKeeps ==
  ASSUME PipelineInv, NEW fresh \in BOOLEAN, NEW layer \in Store!Layers,
         NEW selected \in Selections(layer), SelectExperts(fresh, layer, selected)
  PROVE  EngineInv' /\ Store!Next /\ UNCHANGED Pool!vars
<1>1. /\ stage = "between" /\ stage' = "selected" /\ chosen' = Append(chosen, selected)
      /\ Store!BeginAccessSet(fresh, layer, {selected[i] : i \in 1..Len(selected)})
      /\ UNCHANGED <<poolVars, resident, slot, answer>>
  BY DEF SelectExperts, At
<1>2. PICK n \in Slots : selected \in [1..n -> {k \in Keys : Layer[k] = layer}]
  BY DEF Selections
<1>3. /\ n \in Nat /\ n \in 1..TopK /\ Len(selected) = n /\ selected \in ChosenLists
  <2>1. n \in Nat /\ n \in 1..TopK /\ selected \in ChosenLists /\ DOMAIN selected = 1..n
    BY <1>2, PipelineAssumption, SMTT(30) DEF Slots, ChosenLists
  <2>2. selected \in Seq(Keys)
    BY <1>2, <2>1, SeqDef
  <2> QED
    BY <2>1, <2>2, LenProperties
<1>4. Store!Next
  <2>1. {selected[i] : i \in 1..Len(selected)} \in SUBSET {k \in Keys : Layer[k] = layer}
    BY <1>2, <1>3
  <2> QED
    BY <1>1, <2>1 DEF Store!Next
<1>5. UNCHANGED Pool!vars
  BY <1>1 DEF poolVars, Pool!vars, Pool!poolVars, Pool!ticketVars, Pool!counters,
     Pool!workerVars, Pool!clientVars
<1>6. /\ accessSets < MaxBatches /\ accessSets' = accessSets + 1
      /\ protected' = {selected[i] : i \in 1..Len(selected)}
      /\ UNCHANGED <<mode, pc, want>>
  BY <1>1, StoreFacts DEF Store!BeginAccessSet
<1>7. /\ EngineTypes /\ ClientFollows /\ LoadsAreCalls /\ BatchesEnd
  BY DEF PipelineInv, EngineInv
<1>8. /\ chosen' \in Seq(ChosenLists) /\ Len(chosen') = accessSets'
      /\ \A b \in 1..accessSets : chosen'[b] = chosen[b]
      /\ chosen'[accessSets'] = selected
  BY <1>1, <1>3, <1>6, <1>7, AppendProperties DEF EngineTypes
<1>9. issued \subseteq ready /\ stage # "running"
  BY <1>1, <1>7 DEF BatchesEnd
<1>10. EngineTypes'
  <2>1. SlotsInUse' = n
    BY <1>3, <1>8 DEF SlotsInUse
  <2> QED
    BY <1>1, <1>3, <1>6, <1>7, <1>8, <2>1, PipelineAssumption DEF EngineTypes, Stages, Running, Submitting
<1>11. ClientFollows'
  BY <1>1, <1>7 DEF ClientFollows, poolVars
<1>12. LoadsAreCalls'
  BY <1>9, <1>6, Settled DEF LoadsAreCalls, Threads
<1>13. BatchesEnd'
  BY <1>1, <1>6, <1>7, <1>8, <1>9 DEF BatchesEnd, poolVars, EngineTypes
<1> QED
  BY <1>4, <1>5, <1>10, <1>11, <1>12, <1>13 DEF EngineInv

\* Looking up, passing over slots and the end of a layer change only the
\* engine's own state.
LEMMA EngineAloneKeeps ==
  ASSUME PipelineInv, LookUp \/ PassOver \/ LayerDone
  PROVE  EngineInv' /\ UNCHANGED Store!vars /\ UNCHANGED Pool!vars
<1>1. UNCHANGED <<storeVars, poolVars, chosen, answer>>
  BY DEF LookUp, PassOver, LayerDone
<1>2. /\ UNCHANGED <<accessSets, protected, pc, want, entries>>
      /\ UNCHANGED <<issued, ready, worker, job, client, ticket>>
      /\ SlotsInUse' = SlotsInUse
  BY <1>1 DEF storeVars, poolVars, SlotsInUse
<1>3. EngineTypes /\ ClientFollows /\ LoadsAreCalls /\ BatchesEnd
  BY DEF PipelineInv, EngineInv
<1>4. stage # "between" /\ SlotsInUse \in Nat /\ SlotsInUse \in 1..TopK
  <2>1. stage # "between"
    BY DEF LookUp, PassOver, LayerDone, At
  <2>2. accessSets \in 1..accessSets
    BY <1>3, <2>1 DEF EngineTypes
  <2> QED
    BY <1>3, <2>1, <2>2, SlotsHoldKeys, PipelineAssumption DEF SlotsInUse, Slots
<1>5. EngineTypes'
  <2>1. CASE LookUp
    BY <1>1, <1>2, <1>3, <1>4, <2>1, PipelineAssumption
    DEF EngineTypes, LookUp, At, ResidentSlots, Running, Submitting, Stages, Slots
  <2>2. CASE PassOver
    BY <1>1, <1>2, <1>3, <1>4, <2>2, PipelineAssumption DEF EngineTypes, PassOver, At, Running, Submitting, Stages
  <2>3. CASE LayerDone
    BY <1>1, <1>2, <1>3, <1>4, <2>3 DEF EngineTypes, LayerDone, At, Running, Submitting, Stages
  <2> QED
    BY <2>1, <2>2, <2>3
<1>6. ClientFollows'
  BY <1>2, <1>3 DEF ClientFollows, LookUp, PassOver, LayerDone, At
<1>7. stage # "running" /\ stage' # "running"
  BY DEF LookUp, PassOver, LayerDone, At
<1>8. LoadsAreCalls'
  BY <1>1, <1>2, <1>3, <1>7 DEF LoadsAreCalls, KeyOf
<1>9. BatchesEnd'
  <2>1. CASE LookUp
    BY <1>1, <1>2, <1>3, <2>1 DEF BatchesEnd, LookUp, At
  <2>2. CASE PassOver
    BY <1>1, <1>2, <1>3, <2>2 DEF BatchesEnd, PassOver, At, EngineTypes
  <2>3. CASE LayerDone
    <3>1. issued \subseteq ready
      <4> SUFFICES ASSUME NEW k \in issued PROVE k \in ready
        OBVIOUS
      <4>1. CASE k[1] = accessSets
        <5>1. k[2] \in 1..SlotsInUse
          BY <1>3, <4>1 DEF BatchesEnd, SlotsInUse
        <5>2. k[2] < slot /\ stage = "collecting"
          BY <1>3, <1>4, <2>3, <5>1 DEF LayerDone, EngineTypes, At
        <5> QED
          BY <1>3, <5>2 DEF BatchesEnd
      <4>2. CASE k[1] # accessSets
        BY <1>3, <4>2 DEF BatchesEnd
      <4> QED
        BY <4>1, <4>2
    <3> QED
      BY <1>1, <1>2, <1>3, <2>3, <3>1 DEF BatchesEnd, LayerDone, At
  <2> QED
    BY <2>1, <2>2, <2>3
<1> QED
  BY <1>1, <1>5, <1>6, <1>8, <1>9, BothRest DEF EngineInv

\* A submission of the batch in force is new to the pool and of that batch.
LEMMA NewTicket ==
  ASSUME EngineTypes, BatchesEnd, stage \in {"residents", "others"},
         slot \in 1..SlotsInUse, issued' = issued \cup {TicketOf(slot)}, ready \subseteq ready',
         UNCHANGED <<chosen, accessSets>>, stage' \in {"running", "others"}
  PROVE  BatchesEnd'
<1>1. /\ TicketOf(slot)[1] = accessSets /\ TicketOf(slot)[2] = slot
      /\ accessSets \in 1..accessSets
  BY DEF TicketOf, EngineTypes
<1>2. slot \in 1..Len(chosen[accessSets])
  BY DEF SlotsInUse
<1> QED
  BY <1>1, <1>2 DEF BatchesEnd

\* The slots of a layer that has begun.
LEMMA SlotsAre ==
  ASSUME EngineTypes, stage # "between"
  PROVE  accessSets \in 1..accessSets /\ SlotsInUse \in Nat /\ SlotsInUse \in 1..TopK
<1>1. accessSets \in 1..accessSets
  BY DEF EngineTypes
<1> QED
  BY <1>1, SlotsHoldKeys, PipelineAssumption DEF SlotsInUse, Slots

\* Steps within a layer, and those that give it up.
LEMMA TypesStay ==
  ASSUME EngineTypes, UNCHANGED <<chosen, accessSets, resident, protected>>,
         answer' \in [Tickets -> Answers], stage \in Running, slot' \in 1..(SlotsInUse + 1),
         \/ stage' \in Running /\ (stage' \in Submitting => stage \in Submitting)
         \/ stage' \in {"between", "ending"}
  PROVE  EngineTypes'
<1>1. SlotsInUse' = SlotsInUse /\ SlotsInUse \in Nat /\ SlotsInUse \in 1..TopK
  BY SlotsAre DEF SlotsInUse, Running, Submitting
<1>2. stage' \in Stages /\ stage # "between" /\ slot' \in 0..(TopK + 1)
  BY <1>1, PipelineAssumption DEF Running, Submitting, Stages
<1> QED
  BY <1>1, <1>2 DEF EngineTypes, Running, Submitting

\* A resident expert is loaded by the generation thread itself.
LEMMA SubmitInlineKeeps ==
  ASSUME PipelineInv, SubmitInline
  PROVE  EngineInv' /\ Store!Next /\ Pool!Next
<1>1. /\ stage = "residents" /\ stage' = "running" /\ slot \in resident
      /\ Pool!SubmitResident(Generation, TicketOf(slot))
      /\ Store!Call(Generation, KeyOf(TicketOf(slot)))
      /\ UNCHANGED <<chosen, resident, slot, answer>>
  BY DEF SubmitInline, At
<1>2. /\ EngineTypes /\ ClientFollows /\ LoadsAreCalls /\ BatchesEnd
  BY DEF PipelineInv, EngineInv
<1>3. slot \in 1..SlotsInUse
  BY <1>1, <1>2 DEF EngineTypes, Submitting
<1>4. TicketOf(slot) \in Tickets /\ KeyOf(TicketOf(slot)) \in Keys
  BY <1>1, <1>2, <1>3, TicketsOfBatch
<1>5. Store!Next /\ Pool!Next
  BY <1>1, <1>4 DEF Store!Next, Pool!Next, Threads
<1>6. /\ client' = [client EXCEPT ![Generation] = "inline"] /\ client[Generation] = "idle"
      /\ ticket' = [ticket EXCEPT ![Generation] = TicketOf(slot)]
      /\ issued' = issued \cup {TicketOf(slot)} /\ UNCHANGED <<ready, worker, job>>
  BY <1>1 DEF Pool!SubmitResident, Pool!ClientGoes, Pool!workerVars
<1>7. /\ \A t \in Threads : t # Generation => pc'[t] = pc[t] /\ want'[t] = want[t]
      /\ want'[Generation] = KeyOf(TicketOf(slot))
      /\ UNCHANGED <<accessSets, protected>>
  BY <1>1, StoreFacts DEF Store!Call, Store!Goto, Store!policyVars, Threads
<1>8. TicketOf(slot)' = TicketOf(slot) /\ SlotsInUse' = SlotsInUse
  BY <1>1, <1>7 DEF TicketOf, SlotsInUse
<1>9. EngineTypes'
  BY <1>1, <1>2, <1>3, <1>7, SlotsAre, TypesStay DEF EngineTypes, Running, Submitting
<1>10. ClientFollows'
  BY <1>1, <1>3, <1>6, <1>8, PoolFacts DEF ClientFollows
<1>11. LoadsAreCalls'
  BY <1>1, <1>2, <1>6, <1>7, <1>8, PipelineAssumption DEF LoadsAreCalls, Threads, KeyOf
<1>12. BatchesEnd'
  BY <1>1, <1>2, <1>3, <1>6, <1>7, NewTicket
<1> QED
  BY <1>5, <1>9, <1>10, <1>11, <1>12 DEF EngineInv

LEMMA InlineReturnsKeeps ==
  ASSUME PipelineInv, InlineReturns
  PROVE  EngineInv' /\ UNCHANGED Store!vars /\ Pool!Next
<1>1. /\ stage = "running" /\ stage' = "residents" /\ pc[Generation] = "idle"
      /\ Pool!FinishInline(Generation) /\ slot' = slot + 1
      /\ answer' = [answer EXCEPT ![TicketOf(slot)] = outcome[Generation]]
      /\ UNCHANGED <<storeVars, chosen, resident>>
  BY DEF InlineReturns, At
<1>2. /\ EngineTypes /\ ClientFollows /\ LoadsAreCalls /\ BatchesEnd
  BY DEF PipelineInv, EngineInv
<1>3. Pool!Next
  BY <1>1 DEF Pool!Next, Pool!ClientStep
<1>4. UNCHANGED Store!vars /\ UNCHANGED <<pc, want, accessSets, protected>>
  BY <1>1 DEF storeVars, Store!vars
<1>5. /\ client' = [client EXCEPT ![Generation] = "idle"]
      /\ ready' = ready \cup {TicketOf(slot)}
      /\ UNCHANGED <<issued, worker, job>>
  BY <1>1, <1>2 DEF Pool!FinishInline, Pool!ClientGoes, Pool!workerVars, ClientFollows
<1>6. answer' \in [Tickets -> Answers]
  BY <1>1, <1>2, StoreFacts DEF EngineTypes, Threads
<1>7. slot' \in 1..(SlotsInUse + 1)
  BY <1>1, <1>2, SlotsAre DEF EngineTypes, ClientFollows, Running, Submitting
<1>8. EngineTypes'
  BY <1>1, <1>2, <1>4, <1>6, <1>7, TypesStay DEF EngineTypes, Running, Submitting
<1>9. ClientFollows'
  BY <1>1, <1>5, PoolFacts DEF ClientFollows
<1>10. LoadsAreCalls'
  BY <1>1, <1>2, <1>4, <1>5 DEF LoadsAreCalls, KeyOf
<1>11. BatchesEnd'
  BY <1>1, <1>2, <1>4, <1>5 DEF BatchesEnd
<1> QED
  BY <1>3, <1>4, <1>8, <1>9, <1>10, <1>11 DEF EngineInv

\* A refused submission gives the generation up.
LEMMA SubmitToPoolKeeps ==
  ASSUME PipelineInv, SubmitToPool
  PROVE  EngineInv' /\ UNCHANGED Store!vars /\ [Pool!Next]_(Pool!vars)
<1>1. /\ stage = "others" /\ slot <= SlotsInUse /\ slot \notin resident
      /\ UNCHANGED <<storeVars, chosen, resident, answer>>
  BY DEF SubmitToPool
<1>2. /\ EngineTypes /\ ClientFollows /\ LoadsAreCalls /\ BatchesEnd
  BY DEF PipelineInv, EngineInv
<1>3. slot \in 1..SlotsInUse
  BY <1>1, <1>2, SlotsAre DEF EngineTypes, Running, Submitting
<1>4. TicketOf(slot) \in Tickets
  BY <1>1, <1>2, <1>3, TicketsOfBatch
<1>5. UNCHANGED Store!vars /\ UNCHANGED <<pc, want, accessSets, protected>>
  BY <1>1 DEF storeVars, Store!vars
<1>6. CASE Pool!Submit(Generation, TicketOf(slot)) /\ slot' = slot + 1 /\ stage' = stage
  <2>1. Pool!Next
    BY <1>4, <1>6 DEF Pool!Next
  <2>2. /\ client' = [client EXCEPT ![Generation] = "notify"]
        /\ issued' = issued \cup {TicketOf(slot)}
        /\ UNCHANGED <<ready, worker, job, ticket>>
    BY <1>6 DEF Pool!Submit, Pool!ClientGoes, Pool!workerVars
  <2>3. EngineTypes'
    BY <1>1, <1>2, <1>3, <1>5, <1>6, SlotsAre, TypesStay DEF EngineTypes, Running, Submitting
  <2>4. ClientFollows'
    BY <1>1, <1>6, <2>2, PoolFacts DEF ClientFollows
  <2>5. LoadsAreCalls'
    BY <1>1, <1>2, <1>5, <1>6, <2>2 DEF LoadsAreCalls, KeyOf
  <2>6. BatchesEnd'
    BY <1>1, <1>2, <1>3, <1>5, <1>6, <2>2, NewTicket
  <2> QED
    BY <1>5, <2>1, <2>3, <2>4, <2>5, <2>6 DEF EngineInv
<1>7. CASE client[Generation] = "idle" /\ stage' = "ending" /\ UNCHANGED <<poolVars, slot>>
  <2>1. /\ UNCHANGED Pool!vars
        /\ UNCHANGED <<issued, ready, worker, job, client, ticket>>
    BY <1>1, <1>7, BothRest DEF poolVars
  <2>2. EngineTypes'
    BY <1>1, <1>2, <1>3, <1>5, <1>7, SlotsAre, TypesStay DEF EngineTypes, Running, Submitting
  <2>3. ClientFollows'
    BY <1>7, <2>1 DEF ClientFollows
  <2>4. LoadsAreCalls'
    BY <1>1, <1>2, <1>5, <1>7, <2>1 DEF LoadsAreCalls, KeyOf
  <2>5. BatchesEnd'
    BY <1>1, <1>2, <1>5, <1>7, <2>1 DEF BatchesEnd
  <2> QED
    BY <1>5, <2>1, <2>2, <2>3, <2>4, <2>5 DEF EngineInv
<1> QED
  BY <1>6, <1>7 DEF SubmitToPool

\* notify_one may wake a worker, which has no load in its hands.
LEMMA NotifyPoolKeeps ==
  ASSUME PipelineInv, NotifyPool
  PROVE  EngineInv' /\ UNCHANGED Store!vars /\ Pool!Next
<1>1. Pool!NotifyOne(Generation) /\ UNCHANGED <<storeVars, engineVars, answer>>
  BY DEF NotifyPool
<1>2. /\ EngineTypes /\ ClientFollows /\ LoadsAreCalls /\ BatchesEnd
  BY DEF PipelineInv, EngineInv
<1>3. Pool!Next
  BY <1>1 DEF Pool!Next, Pool!ClientStep
<1>4. /\ UNCHANGED Store!vars /\ UNCHANGED <<pc, want, accessSets, protected>>
      /\ UNCHANGED <<stage, chosen, resident, slot, answer>>
  BY <1>1 DEF storeVars, Store!vars, engineVars
<1>5. /\ client[Generation] = "notify" /\ client' = [client EXCEPT ![Generation] = "idle"]
      /\ UNCHANGED <<issued, ready, job, ticket>>
      /\ \A w \in Workers : worker[w] = "loading" => worker'[w] = "loading"
  BY <1>1, PoolFacts DEF Pool!NotifyOne, Pool!ClientGoes, Pool!WorkerGoes, Pool!ticketVars
<1>6. EngineTypes'
  BY <1>2, <1>4 DEF EngineTypes, SlotsInUse
<1>7. ClientFollows'
  BY <1>2, <1>4, <1>5, PoolFacts DEF ClientFollows
<1>8. LoadsAreCalls'
  BY <1>2, <1>4, <1>5 DEF LoadsAreCalls, KeyOf, TicketOf
<1>9. BatchesEnd'
  BY <1>2, <1>4, <1>5 DEF BatchesEnd
<1> QED
  BY <1>3, <1>4, <1>6, <1>7, <1>8, <1>9 DEF EngineInv

LEMMA WaitForTicketKeeps ==
  ASSUME PipelineInv, WaitForTicket
  PROVE  EngineInv' /\ UNCHANGED Store!vars /\ Pool!Next
<1>1. /\ stage = "collecting" /\ stage' = "waiting" /\ slot <= SlotsInUse
      /\ Pool!Wait(Generation, TicketOf(slot))
      /\ UNCHANGED <<storeVars, chosen, resident, slot, answer>>
  BY DEF WaitForTicket, At
<1>2. /\ EngineTypes /\ ClientFollows /\ LoadsAreCalls /\ BatchesEnd
  BY DEF PipelineInv, EngineInv
<1>3. slot \in 1..SlotsInUse /\ slot \in 1..(SlotsInUse + 1)
  BY <1>1, <1>2, SlotsAre DEF EngineTypes, Running, Submitting
<1>4. TicketOf(slot) \in Tickets
  BY <1>1, <1>2, <1>3, TicketsOfBatch
<1>5. Pool!Next
  BY <1>1, <1>4 DEF Pool!Next
<1>6. UNCHANGED Store!vars /\ UNCHANGED <<pc, want, accessSets, protected>>
  BY <1>1 DEF storeVars, Store!vars
<1>7. /\ client' = [client EXCEPT ![Generation] =
                      IF TicketOf(slot) \in ready THEN "found" ELSE "waiting"]
      /\ ticket' = [ticket EXCEPT ![Generation] = TicketOf(slot)]
      /\ UNCHANGED <<issued, ready, worker, job>>
  BY <1>1 DEF Pool!Wait, Pool!ClientGoes, Pool!workerVars
<1>8. TicketOf(slot)' = TicketOf(slot) /\ SlotsInUse' = SlotsInUse
  BY <1>1, <1>6 DEF TicketOf, SlotsInUse
<1>9. EngineTypes'
  BY <1>1, <1>2, <1>3, <1>6, TypesStay DEF EngineTypes, Running, Submitting
<1>10. ClientFollows'
  BY <1>1, <1>7, <1>8, PoolFacts DEF ClientFollows
<1>11. LoadsAreCalls'
  BY <1>1, <1>2, <1>6, <1>7 DEF LoadsAreCalls, KeyOf
<1>12. BatchesEnd'
  BY <1>1, <1>2, <1>6, <1>7 DEF BatchesEnd
<1> QED
  BY <1>5, <1>6, <1>9, <1>10, <1>11, <1>12 DEF EngineInv

\* A ticket that is collected is answered.
LEMMA CollectTicketKeeps ==
  ASSUME PipelineInv, CollectTicket
  PROVE  EngineInv' /\ UNCHANGED Store!vars /\ Pool!Next
<1>1. /\ stage = "waiting" /\ stage' \in {"collecting", "ending"}
      /\ Pool!Collect(Generation) /\ slot' = slot + 1
      /\ UNCHANGED <<storeVars, chosen, resident, answer>>
  BY DEF CollectTicket
<1>2. /\ EngineTypes /\ ClientFollows /\ LoadsAreCalls /\ BatchesEnd
  BY DEF PipelineInv, EngineInv
<1>3. Pool!Next
  BY <1>1 DEF Pool!Next, Pool!ClientStep
<1>4. UNCHANGED Store!vars /\ UNCHANGED <<pc, want, accessSets, protected>>
  BY <1>1 DEF storeVars, Store!vars
<1>5. /\ client[Generation] \in {"found", "late"}
      /\ client' = [client EXCEPT ![Generation] = "idle"]
      /\ UNCHANGED <<issued, ready, worker, job>>
  BY <1>1 DEF Pool!Collect, Pool!ClientGoes, Pool!workerVars, Pool!ticketVars
<1>6. slot \in Nat /\ slot' \in 1..(SlotsInUse + 1) /\ TicketOf(slot) \in ready
  BY <1>1, <1>2, <1>5, SlotsAre DEF EngineTypes, ClientFollows, Running, Submitting
<1>7. EngineTypes'
  BY <1>1, <1>2, <1>4, <1>6, TypesStay DEF EngineTypes, Running, Submitting
<1>8. ClientFollows'
  BY <1>1, <1>5, PoolFacts DEF ClientFollows
<1>9. LoadsAreCalls'
  BY <1>1, <1>2, <1>4, <1>5 DEF LoadsAreCalls, KeyOf
<1>10. ASSUME NEW k \in issued, k[2] < slot + 1
       PROVE  k \in ready
  <2>1. k \in Tickets /\ k[2] \in Nat
    BY PoolFacts DEF Tickets, Slots
  <2>2. CASE k[1] # accessSets
    BY <1>2, <2>2 DEF BatchesEnd
  <2>3. CASE k[2] < slot
    BY <1>1, <1>2, <2>3 DEF BatchesEnd
  <2>4. CASE k[1] = accessSets /\ ~(k[2] < slot)
    <3>1. k[2] = slot
      BY <1>6, <1>10, <2>1, <2>4
    <3> QED
      BY <1>6, <2>1, <2>4, <3>1 DEF TicketOf, Tickets
  <2> QED
    BY <2>2, <2>3, <2>4
<1>11. BatchesEnd'
  BY <1>1, <1>2, <1>4, <1>5, <1>10 DEF BatchesEnd
<1> QED
  BY <1>3, <1>4, <1>7, <1>8, <1>9, <1>11 DEF EngineInv

\* A generation ends when the pool is idle, and then every load is answered.
LEMMA EndGenerationKeeps ==
  ASSUME PipelineInv, EndGeneration
  PROVE  EngineInv' /\ UNCHANGED Store!vars /\ [Pool!Next]_(Pool!vars)
<1>1. /\ stage = "ending" /\ client[Generation] = "idle"
      /\ UNCHANGED <<storeVars, chosen, resident, slot, answer>>
  BY DEF EndGeneration
<1>2. /\ EngineTypes /\ ClientFollows /\ LoadsAreCalls /\ BatchesEnd
  BY DEF PipelineInv, EngineInv
<1>3. UNCHANGED Store!vars /\ UNCHANGED <<pc, want, accessSets, protected>>
  BY <1>1 DEF storeVars, Store!vars
<1>4. CASE Pool!Idle
  <2>1. stage' = "between" /\ UNCHANGED poolVars
    BY <1>4 DEF EndGeneration
  <2>2. /\ UNCHANGED Pool!vars
        /\ UNCHANGED <<issued, ready, worker, job, client, ticket>>
    BY <1>1, <2>1, BothRest DEF poolVars
  <2>3. issued \subseteq ready
    BY <1>1, <1>4, IdleAnswers
  <2>4. EngineTypes'
    BY <1>1, <1>2, <1>3, <2>1 DEF EngineTypes, Running, Submitting, Stages, SlotsInUse
  <2>5. ClientFollows'
    BY <1>1, <2>1, <2>2 DEF ClientFollows
  <2>6. LoadsAreCalls'
    BY <1>1, <1>2, <1>3, <2>1, <2>2 DEF LoadsAreCalls, KeyOf
  <2>7. BatchesEnd'
    BY <1>1, <1>2, <1>3, <2>1, <2>2, <2>3 DEF BatchesEnd
  <2> QED
    BY <1>3, <2>2, <2>4, <2>5, <2>6, <2>7 DEF EngineInv
<1>5. CASE ~Pool!Idle
  <2>1. stage' = stage /\ Pool!WaitIdle(Generation)
    BY <1>5 DEF EndGeneration
  <2>2. Pool!Next
    BY <2>1 DEF Pool!Next
  <2>3. /\ client' = [client EXCEPT ![Generation] = "idling"]
        /\ UNCHANGED <<issued, ready, worker, job, ticket>>
    BY <2>1 DEF Pool!WaitIdle, Pool!ClientGoes, Pool!workerVars, Pool!ticketVars
  <2>4. EngineTypes'
    BY <1>1, <1>2, <1>3, <2>1 DEF EngineTypes, SlotsInUse
  <2>5. ClientFollows'
    BY <1>1, <2>1, <2>3, PoolFacts DEF ClientFollows
  <2>6. LoadsAreCalls'
    BY <1>1, <1>2, <1>3, <2>1, <2>3 DEF LoadsAreCalls, KeyOf
  <2>7. BatchesEnd'
    BY <1>1, <1>2, <1>3, <2>1, <2>3 DEF BatchesEnd
  <2> QED
    BY <1>3, <2>2, <2>4, <2>5, <2>6, <2>7 DEF EngineInv
<1> QED
  BY <1>4, <1>5

LEMMA RecheckKeeps ==
  ASSUME PipelineInv, Recheck
  PROVE  EngineInv' /\ UNCHANGED Store!vars /\ Pool!Next
<1>1. /\ UNCHANGED <<storeVars, chosen, resident, slot, answer>>
      /\ \/ Pool!Recheck(Generation) /\ stage' = stage
         \/ Pool!RecheckIdle(Generation) /\ stage' = IF Pool!Idle THEN "between" ELSE stage
  BY DEF Recheck
<1>2. /\ EngineTypes /\ ClientFollows /\ LoadsAreCalls /\ BatchesEnd
  BY DEF PipelineInv, EngineInv
<1>3. UNCHANGED Store!vars /\ UNCHANGED <<pc, want, accessSets, protected>>
  BY <1>1 DEF storeVars, Store!vars
<1>4. Pool!Next
  BY <1>1 DEF Pool!Next, Pool!ClientStep
<1>5. UNCHANGED <<issued, ready, worker, job, ticket>>
  BY <1>1 DEF Pool!Recheck, Pool!RecheckIdle, Pool!workerVars, Pool!ticketVars
<1>6. CASE Pool!Recheck(Generation) /\ stage' = stage
  <2>1. /\ client[Generation] = "woken"
        /\ client' = [client EXCEPT ![Generation] =
                        IF ticket[Generation] \in ready THEN "late" ELSE "waiting"]
    BY <1>6 DEF Pool!Recheck, Pool!ClientGoes
  <2>2. stage = "waiting"
    BY <1>2, <2>1 DEF ClientFollows, EngineTypes, Stages
  <2>3. EngineTypes'
    BY <1>1, <1>2, <1>3, <1>6 DEF EngineTypes, SlotsInUse
  <2>4. SlotsInUse' = SlotsInUse /\ TicketOf(slot)' = TicketOf(slot)
    BY <1>1, <1>3 DEF SlotsInUse, TicketOf
  <2>5. ClientFollows'
    BY <1>1, <1>2, <1>5, <1>6, <2>1, <2>2, <2>4, PoolFacts DEF ClientFollows
  <2>6. LoadsAreCalls'
    BY <1>1, <1>2, <1>3, <1>5, <1>6, <2>2 DEF LoadsAreCalls, KeyOf
  <2>7. BatchesEnd'
    BY <1>1, <1>2, <1>3, <1>5, <1>6 DEF BatchesEnd
  <2> QED
    BY <1>3, <1>4, <2>3, <2>5, <2>6, <2>7 DEF EngineInv
<1>7. CASE Pool!RecheckIdle(Generation) /\ stage' = IF Pool!Idle THEN "between" ELSE stage
  <2>1. /\ client[Generation] = "checking"
        /\ client' = [client EXCEPT ![Generation] = IF Pool!Idle THEN "idle" ELSE "idling"]
    BY <1>7 DEF Pool!RecheckIdle, Pool!ClientGoes
  <2>2. stage = "ending"
    BY <1>2, <2>1 DEF ClientFollows, EngineTypes, Stages
  <2>3. Pool!Idle => issued \subseteq ready
    BY <2>1, IdleAnswers
  <2>4. EngineTypes'
    BY <1>1, <1>2, <1>3, <1>7, <2>2 DEF EngineTypes, Running, Submitting, Stages, SlotsInUse
  <2>5. ClientFollows'
    BY <1>7, <2>1, <2>2, PoolFacts DEF ClientFollows
  <2>6. LoadsAreCalls'
    BY <1>1, <1>2, <1>3, <1>5, <1>7, <2>2 DEF LoadsAreCalls, KeyOf
  <2>7. BatchesEnd'
    BY <1>1, <1>2, <1>3, <1>5, <1>7, <2>2, <2>3 DEF BatchesEnd
  <2> QED
    BY <1>3, <1>4, <2>4, <2>5, <2>6, <2>7 DEF EngineInv
<1> QED
  BY <1>1, <1>6, <1>7

-----------------------------------------------------------------------------
(* Steps of the workers and of the store                                   *)

\* A worker calls the store for the load it has taken.
LEMMA WorkerTakesKeeps ==
  ASSUME PipelineInv, NEW w \in Workers, WorkerTakes(w)
  PROVE  EngineInv' /\ Store!Next /\ Pool!Next
<1>1. /\ Pool!Take(w) /\ Store!Call(w, KeyOf(job'[w]))
      /\ UNCHANGED <<stage, chosen, resident, slot, answer>>
  BY DEF WorkerTakes, engineVars
<1>2. /\ EngineTypes /\ ClientFollows /\ LoadsAreCalls /\ BatchesEnd
  BY DEF PipelineInv, EngineInv
<1>3. PICK k \in queue : job' = [job EXCEPT ![w] = k]
  BY <1>1 DEF Pool!Take
<1>4. k \in issued \ ready /\ job'[w] = k
  BY <1>3, PoolFacts
<1>5. Store!Next /\ Pool!Next
  <2>1. Pool!Next
    BY <1>1 DEF Pool!Next, Pool!WorkerStep
  <2>2. Store!Next
    BY <1>1, <1>4, InFlight DEF Store!Next, Threads
  <2> QED
    BY <2>1, <2>2
<1>6. /\ worker' = [worker EXCEPT ![w] = "loading"] /\ UNCHANGED <<issued, ready, client, ticket>>
  BY <1>1 DEF Pool!Take, Pool!WorkerGoes, Pool!ticketVars, Pool!clientVars
<1>7. /\ \A t \in Threads : t # w => pc'[t] = pc[t] /\ want'[t] = want[t]
      /\ want'[w] = KeyOf(k) /\ UNCHANGED <<accessSets, protected>>
  BY <1>1, <1>4, StoreFacts DEF Store!Call, Store!Goto, Store!policyVars, Threads
<1>8. EngineTypes'
  BY <1>1, <1>2, <1>7 DEF EngineTypes, SlotsInUse
<1>9. ClientFollows'
  BY <1>1, <1>2, <1>6, <1>7 DEF ClientFollows, SlotsInUse, TicketOf
<1>10. LoadsAreCalls'
  <2>1. \A v \in Workers : v # w => job'[v] = job[v] /\ worker'[v] = worker[v]
    BY <1>3, <1>6, PoolFacts
  <2>2. \A v \in Workers : pc'[v] # "idle" => worker'[v] = "loading" /\ want'[v] = KeyOf(job'[v])
    BY <1>2, <1>3, <1>4, <1>6, <1>7, <2>1, PoolFacts DEF LoadsAreCalls, Threads
  <2>3. Generation \in Threads /\ Generation # w
    BY PipelineAssumption DEF Threads
  <2> QED
    BY <1>1, <1>2, <1>7, <2>2, <2>3 DEF LoadsAreCalls, KeyOf, TicketOf
<1>11. BatchesEnd'
  BY <1>1, <1>2, <1>6, <1>7 DEF BatchesEnd
<1> QED
  BY <1>5, <1>8, <1>9, <1>10, <1>11 DEF EngineInv

\* A worker's result is that of the store's call, which has returned.
LEMMA WorkerPublishesKeeps ==
  ASSUME PipelineInv, NEW w \in Workers, WorkerPublishes(w)
  PROVE  EngineInv' /\ UNCHANGED Store!vars /\ Pool!Next
<1>1. /\ pc[w] = "idle" /\ Pool!Publish(w) /\ answer' = [answer EXCEPT ![job[w]] = outcome[w]]
      /\ UNCHANGED <<storeVars, stage, chosen, resident, slot>>
  BY DEF WorkerPublishes, engineVars
<1>2. /\ EngineTypes /\ ClientFollows /\ LoadsAreCalls /\ BatchesEnd
  BY DEF PipelineInv, EngineInv
<1>3. Pool!Next
  BY <1>1 DEF Pool!Next, Pool!WorkerStep
<1>4. UNCHANGED Store!vars /\ UNCHANGED <<pc, want, accessSets, protected>>
  BY <1>1 DEF storeVars, Store!vars
<1>5. /\ worker' = [worker EXCEPT ![w] = "published"] /\ ready \subseteq ready'
      /\ UNCHANGED <<issued, job, client, ticket>>
  BY <1>1 DEF Pool!Publish, Pool!WorkerGoes, Pool!clientVars
<1>6. answer' \in [Tickets -> Answers]
  BY <1>1, <1>2, StoreFacts DEF EngineTypes, Threads
<1>7. EngineTypes'
  BY <1>1, <1>2, <1>4, <1>6 DEF EngineTypes, SlotsInUse
<1>8. ClientFollows'
  BY <1>1, <1>2, <1>4, <1>5 DEF ClientFollows, SlotsInUse, TicketOf
<1>9. LoadsAreCalls'
  BY <1>1, <1>2, <1>4, <1>5, PoolFacts DEF LoadsAreCalls, KeyOf, TicketOf
<1>10. BatchesEnd'
  BY <1>1, <1>2, <1>4, <1>5 DEF BatchesEnd
<1> QED
  BY <1>3, <1>4, <1>7, <1>8, <1>9, <1>10 DEF EngineInv

LEMMA WorkerMovesKeeps ==
  ASSUME PipelineInv, NEW w \in Workers, WorkerMoves(w)
  PROVE  EngineInv' /\ UNCHANGED Store!vars /\ Pool!Next
<1>1. /\ Pool!Sleep(w) \/ Pool!Count(w) \/ Pool!Signal(w) \/ Pool!Retire(w) \/ Pool!NotifyIdle(w)
      /\ UNCHANGED <<storeVars, stage, chosen, resident, slot, answer>>
  BY DEF WorkerMoves, engineVars
<1>2. /\ EngineTypes /\ ClientFollows /\ LoadsAreCalls /\ BatchesEnd
  BY DEF PipelineInv, EngineInv
<1>3. Pool!Next
  BY <1>1 DEF Pool!Next, Pool!WorkerStep
<1>4. UNCHANGED Store!vars /\ UNCHANGED <<pc, want, accessSets, protected>>
  BY <1>1 DEF storeVars, Store!vars
<1>5. UNCHANGED <<issued, ready, ticket>>
  BY <1>1 DEF Pool!Sleep, Pool!Count, Pool!Signal, Pool!Retire, Pool!NotifyIdle, Pool!ticketVars,
     Pool!clientVars
<1>6. /\ worker[w] # "loading"
      /\ \A v \in Workers : v # w => worker'[v] = worker[v] /\ job'[v] = job[v]
  BY <1>1, PoolFacts DEF Pool!Sleep, Pool!Count, Pool!Signal, Pool!Retire, Pool!NotifyIdle,
     Pool!WorkerGoes
<1>7. \/ client'[Generation] = client[Generation]
      \/ client[Generation] = "waiting" /\ client'[Generation] = "woken"
      \/ client[Generation] = "idling" /\ client'[Generation] = "checking"
  BY <1>1 DEF Pool!Sleep, Pool!Count, Pool!Signal, Pool!Retire, Pool!NotifyIdle, Pool!clientVars
<1>8. EngineTypes'
  BY <1>1, <1>2, <1>4 DEF EngineTypes, SlotsInUse
<1>9. ClientFollows'
  <2>1. SlotsInUse' = SlotsInUse /\ TicketOf(slot)' = TicketOf(slot)
    BY <1>1, <1>4 DEF SlotsInUse, TicketOf
  <2> QED
    BY <1>1, <1>2, <1>5, <1>7, <2>1 DEF ClientFollows
<1>10. LoadsAreCalls'
  BY <1>1, <1>2, <1>4, <1>6 DEF LoadsAreCalls, KeyOf, TicketOf
<1>11. BatchesEnd'
  BY <1>1, <1>2, <1>4, <1>5 DEF BatchesEnd
<1> QED
  BY <1>3, <1>4, <1>8, <1>9, <1>10, <1>11 DEF EngineInv

\* Inside of the store a thread keeps the key it called with.
LEMMA StoreMovesKeeps ==
  ASSUME PipelineInv, NEW t \in Threads, StoreMoves(t)
  PROVE  EngineInv' /\ Store!Next /\ UNCHANGED Pool!vars
<1>1. Store!ThreadStep(t) /\ UNCHANGED <<poolVars, stage, chosen, resident, slot, answer>>
  BY DEF StoreMoves, engineVars
<1>2. /\ EngineTypes /\ ClientFollows /\ LoadsAreCalls /\ BatchesEnd
  BY DEF PipelineInv, EngineInv
<1>3. Store!Next
  BY <1>1 DEF Store!Next
<1>4. /\ UNCHANGED Pool!vars /\ UNCHANGED <<issued, ready, worker, job, client, ticket>>
  BY <1>1 DEF poolVars, Pool!vars, Pool!poolVars, Pool!ticketVars, Pool!counters,
     Pool!workerVars, Pool!clientVars
<1>5. /\ UNCHANGED <<want, accessSets, protected>>
      /\ \A u \in Threads : pc[u] = "idle" => pc'[u] = "idle"
  <2> USE <1>1, StoreFacts DEF Store!Goto, Store!policyVars
  <2>1. CASE Store!Hit(t)
    BY <2>1 DEF Store!Hit
  <2>2. CASE Store!Own(t) \/ Store!Block(t) \/ Store!LoaderFails(t) \/ Store!LoaderSucceeds(t)
    BY <2>2 DEF Store!Own, Store!Block, Store!LoaderFails, Store!LoaderSucceeds
  <2>3. CASE Store!Bypass(t) \/ Store!EvictAndBypass(t) \/ Store!Admit(t)
    BY <2>3 DEF Store!Bypass, Store!EvictAndBypass, Store!Admit
  <2>4. CASE Store!Release(t) \/ Store!Notify(t)
    BY <2>4 DEF Store!Release, Store!Notify
  <2> QED
    BY <2>1, <2>2, <2>3, <2>4 DEF Store!ThreadStep
<1>6. EngineTypes'
  BY <1>1, <1>2, <1>5 DEF EngineTypes, SlotsInUse
<1>7. ClientFollows'
  BY <1>1, <1>2, <1>4, <1>5 DEF ClientFollows, SlotsInUse, TicketOf
<1>8. LoadsAreCalls'
  BY <1>1, <1>2, <1>4, <1>5 DEF LoadsAreCalls, KeyOf, TicketOf, Threads
<1>9. BatchesEnd'
  BY <1>1, <1>2, <1>4, <1>5 DEF BatchesEnd
<1> QED
  BY <1>3, <1>4, <1>6, <1>7, <1>8, <1>9 DEF EngineInv

-----------------------------------------------------------------------------
(* Every step                                                              *)

LEMMA PipelineUses ==
  ASSUME PipelineInv, [Next]_vars
  PROVE  EngineInv' /\ [Store!Next]_(Store!vars) /\ [Pool!Next]_(Pool!vars)
<1>1. CASE UNCHANGED vars
  <2>1. UNCHANGED <<storeVars, poolVars, stage, chosen, resident, slot, answer>>
    BY <1>1 DEF vars, engineVars
  <2>2. EngineInv'
    BY <2>1 DEF PipelineInv, EngineInv, storeVars, poolVars, EngineTypes, ClientFollows,
       LoadsAreCalls, BatchesEnd, SlotsInUse, TicketOf, KeyOf
  <2> QED
    BY <2>1, <2>2, BothRest
<1>2. CASE EngineStep
  BY <1>2, EngineAloneKeeps, SubmitInlineKeeps, InlineReturnsKeeps, SubmitToPoolKeeps,
     NotifyPoolKeeps, WaitForTicketKeeps, CollectTicketKeeps, EndGenerationKeeps, RecheckKeeps
  DEF EngineStep
<1>3. CASE \E fresh \in BOOLEAN, layer \in Store!Layers :
             \E selected \in Selections(layer) : SelectExperts(fresh, layer, selected)
  BY <1>3, SelectExpertsKeeps
<1>4. CASE \E w \in Workers : WorkerStep(w)
  BY <1>4, WorkerTakesKeeps, WorkerPublishesKeeps, WorkerMovesKeeps DEF WorkerStep
<1>5. CASE \E t \in Threads : StoreMoves(t)
  BY <1>5, StoreMovesKeeps
<1> QED
  BY <1>1, <1>2, <1>3, <1>4, <1>5 DEF Next

LEMMA PipelineStep == PipelineInv /\ [Next]_vars => PipelineInv'
<1> SUFFICES ASSUME PipelineInv, [Next]_vars PROVE PipelineInv'
  OBVIOUS
<1>1. EngineInv' /\ [Store!Next]_(Store!vars) /\ [Pool!Next]_(Pool!vars)
  BY PipelineUses
<1>2. [StoreP!Next]_(StoreP!vars) /\ [PoolP!Next]_(PoolP!vars)
  BY <1>1, SameStore, SamePool
<1>3. PoolP!LoaderInv'
  BY <1>2, PoolFits, PoolP!LoaderStep DEF PipelineInv
<1>4. StoreP!StoreInv'
  BY <1>2, StoreFits, StoreP!StoreStep DEF PipelineInv
<1> QED
  BY <1>1, <1>3, <1>4 DEF PipelineInv

\* Every state of the pipeline satisfies the invariant.
THEOREM PipelineInvariant == Spec => []PipelineInv
BY PipelineInit, PipelineStep, PTL DEF Spec

\* The engine's variables, and those of its loader and store, keep their types.
THEOREM PipelineTypeCorrect == Spec => []TypeOK
<1>1. PipelineInv => TypeOK
  <2> SUFFICES ASSUME PipelineInv PROVE TypeOK
    OBVIOUS
  <2>1. Pool!TypeOK /\ Store!TypeOK
    BY SamePool, SameStore DEF PipelineInv, PoolP!LoaderInv, StoreP!StoreInv
  <2>2. EngineTypes
    BY DEF PipelineInv, EngineInv
  <2>3. \A b \in 1..accessSets : chosen[b] \in ChosenLists
    BY <2>2, ElementOfSeq DEF EngineTypes
  <2> QED
    BY <2>1, <2>2, <2>3 DEF TypeOK, EngineTypes, ChosenLists
<1> QED
  BY <1>1, PipelineInvariant, PTL

\* Every load that is queued, at a worker or in the store belongs to the
\* layer in force, whatever failed before.
THEOREM InFlightIsSelectedCorrect == Spec => []InFlightIsSelected
<1>1. PipelineInv => InFlightIsSelected
  <2> SUFFICES ASSUME PipelineInv PROVE InFlightIsSelected
    OBVIOUS
  <2>1. ASSUME NEW w \in Workers, pc[w] # "idle"
        PROVE  want[w] \in protected
    <3>1. worker[w] = "loading" /\ want[w] = KeyOf(job[w])
      BY <2>1 DEF PipelineInv, EngineInv, LoadsAreCalls
    <3> QED
      BY <3>1, PoolFacts, InFlight
  <2>2. ASSUME pc[Generation] # "idle"
        PROVE  want[Generation] \in protected
    <3>1. EngineTypes /\ stage = "running" /\ slot <= SlotsInUse
          /\ want[Generation] = KeyOf(TicketOf(slot))
      BY <2>2 DEF PipelineInv, EngineInv, LoadsAreCalls, ClientFollows
    <3>2. slot \in 1..SlotsInUse
      BY <3>1, SlotsAre DEF EngineTypes, Running, Submitting
    <3> QED
      BY <3>1, <3>2, TicketsOfBatch
  <2>3. \A k \in queue : k[1] = accessSets
    BY PoolFacts, InFlight
  <2> QED
    BY <2>1, <2>2, <2>3 DEF InFlightIsSelected, Threads
<1> QED
  BY <1>1, PipelineInvariant, PTL

\* The engine calls the loader as its specification allows.
THEOREM UsesTheLoader == Spec => Pool!Spec
<1>1. Init => Pool!Init
  BY DEF Init
<1>2. PipelineInv /\ [Next]_vars => [Pool!Next]_(Pool!vars)
  BY PipelineUses
<1> QED
  BY <1>1, <1>2, PipelineInvariant, PTL DEF Spec, Pool!Spec

\* Engine and workers call the store as its specification allows.
THEOREM UsesTheStore == Spec => Store!Spec
<1>1. Init => Store!Init
  BY DEF Init
<1>2. PipelineInv /\ [Next]_vars => [Store!Next]_(Store!vars)
  BY PipelineUses
<1> QED
  BY <1>1, <1>2, PipelineInvariant, PTL DEF Spec, Store!Spec

\* What is proved of sums of bytes.
TableP == INSTANCE ExpertBytes_proofs WITH
  Keys <- Weights, Bytes <- WeightBytes, MaxBytes <- MaxWeightBytes

-----------------------------------------------------------------------------
(* The inductive invariant                                                 *)

\* The entry is written, or will be before command i of the stream runs.
Written(s, mem, w, i) ==
  mem[w] = w \/ \E j \in 1..(i - 1) : s[j] = CopyTo(w, w)

\* A transfer has arrived, or will have before command i runs.
Arrived(s, coming, i) ==
  ~coming \/ \E j \in 1..(i - 1) : s[j] = WaitForTransfer

\* Command i of a stream s, with mem in the device's memory, the given entries
\* in the table and the granted experts for kernels to use in the buffer, into
\* which a copy may be coming: a kernel will find its weight when what is before
\* it in the stream has run.
Command == [kind : {"copy", "kernel", "wait"}, at : Locations,
            of : Weights \cup SUBSET Experts]
IsCopy(command, table) ==
  /\ command.kind = "copy" /\ command.of \in Weights
  /\ \/ command.at = "scratch"
     \/ command.at \in table /\ command.of = command.at
KernelFinds(s, mem, table, granted, coming, i) ==
  LET command == s[i] IN
  /\ command.kind = "kernel"
  /\ \/ /\ command.at \in table /\ command.of = command.at
        /\ Written(s, mem, command.at, i)
     \/ /\ command.at = "scratch" /\ command.of \in Weights
        /\ IF i = 1 THEN mem["scratch"] = command.of
           ELSE s[i - 1] = CopyTo("scratch", command.of)
     \/ /\ command.at = "buffer" /\ command.of \in granted
        /\ Arrived(s, coming, i)
Enqueued(s, mem, table, granted, coming, i) ==
  \/ IsCopy(s[i], table)
  \/ KernelFinds(s, mem, table, granted, coming, i)
  \/ s[i] = WaitForTransfer
Follows(s, mem, table, granted, coming) ==
  /\ s \in Seq(Command)
  /\ \A i \in 1..Len(s) : Enqueued(s, mem, table, granted, coming, i)
  /\ \A w \in table : Written(s, mem, w, Len(s) + 1)
  /\ \A w \in Weights \ table : mem[w] = Nothing

Granted == IF transfer.consumed THEN {pinned} ELSE {}
StreamFollows == Follows(stream, memory, Range(lru), Granted, uploading)

Kinds == {"protect", "matvec", "layer", "grid", "group", "prefetch", "prepared"}
TableKinds == {"protect", "matvec", "layer", "grid", "group"}

BackendTypes ==
  /\ setup \in {"prefetch", "group", "grid", "layer"}
  /\ lru \in Seq(Weights) /\ kept \subseteq Weights
  /\ memory \in [Locations -> Weights \cup {Nothing} \cup SUBSET Experts]
  /\ uploading \in BOOLEAN /\ pinned \subseteq Experts
  /\ transfer \in [of : SUBSET Experts, consumed : BOOLEAN]
  /\ agenda \in Seq([kind : Kinds, weights : Seq(Weights)])
  /\ handles \in Seq(Weights \cup {"scratch"})
  /\ launched \in Nat

\* The transfer: what is pending is in the pinned buffer, and in the device's
\* unless its copy has still to run; once it was consumed, a wait is before
\* whatever will be enqueued.
TransferHolds ==
  /\ transfer = NoTransfer => ~uploading
  /\ transfer # NoTransfer =>
       pinned = transfer.of /\ (uploading \/ memory["buffer"] = pinned)
  /\ transfer.consumed => Arrived(stream, uploading, Len(stream) + 1)

\* The operations of a layer that remain.
Prepares(picked) == transfer # NoTransfer /\ transfer.of = Range(picked)
PrefetchFollows(picked) ==
  LET prepared == Operation("prepared", picked) IN
  \/ agenda = <<Operation("prefetch", picked), MatvecOf(Down), prepared, MatvecOf(Up)>>
  \/ agenda = <<MatvecOf(Down), prepared, MatvecOf(Up)>> /\ Prepares(picked)
  \/ agenda = <<prepared, MatvecOf(Up)>> /\ Prepares(picked)
  \/ agenda = <<MatvecOf(Up)>>
AgendaFollows ==
  /\ setup = "prefetch" =>
       agenda = << >> \/ \E picked \in Routings : PrefetchFollows(picked)
  /\ setup # "prefetch" => \A i \in 1..Len(agenda) : agenda[i].kind \in TableKinds

\* A location that was handed out is that of an entry which cannot be evicted.
HandlesHold ==
  /\ handles # << >> =>
       agenda # << >> /\ setup # "prefetch" /\ Len(handles) <= Len(Asked)
  /\ \A i \in 1..Len(handles) :
       handles[i] # "scratch" =>
         handles[i] = Asked[i] /\ handles[i] \in Range(lru) \cap kept

\* The sum and the list of the table.
TableExact ==
  /\ residentBytes = Table!Charged(Range(lru)) /\ residentBytes <= Room
  /\ IsInjective(lru)

DeviceInv ==
  /\ BackendTypes /\ StreamFollows /\ TransferHolds /\ AgendaFollows
  /\ HandlesHold /\ TableExact

-----------------------------------------------------------------------------
(* The table                                                               *)

\* What the sums of the table assume of the sizes.
LEMMA WeightsFit ==
  /\ TableP!IsFiniteSet(Weights)
  /\ MaxWeightBytes \in Nat /\ WeightBytes \in [Weights -> 1..MaxWeightBytes]
<1>1. IsFiniteSet(Experts \cup {Down}) 
  BY DeviceAssumption, FS_AddElement
<1>2. IsFiniteSet((Experts \cup {Down}) \cup {Up})
  BY <1>1, FS_AddElement
<1>3. Weights = (Experts \cup {Down}) \cup {Up}
  BY DEF Weights
<1> QED
  BY <1>2, <1>3, DeviceAssumption DEF IsFiniteSet, TableP!IsFiniteSet

\* Both instances sum the same bytes.
LEMMA SameCharges ==
  ASSUME NEW S
  PROVE  Table!Charged(S) = TableP!Charged(S)
BY DEF Table!Charged, TableP!Charged, Table!Occupied, TableP!Occupied,
       Table!Cardinality, TableP!Cardinality

\* The bytes of the table when an entry comes or goes.
LEMMA ChargesChange ==
  ASSUME NEW S \in SUBSET Weights, NEW w \in Weights
  PROVE  /\ WeightBytes[w] \in Nat \ {0}
         /\ Table!Charged(S) \in Nat
         /\ w \notin S => Table!Charged(S \cup {w}) = Table!Charged(S) + WeightBytes[w]
         /\ w \in S => /\ Table!Charged(S \ {w}) = Table!Charged(S) - WeightBytes[w]
                       /\ WeightBytes[w] <= Table!Charged(S)
<1>1. TableP!Charged(S) \in Nat
  BY WeightsFit, TableP!ChargedType
<1>2. w \notin S => TableP!Charged(S \cup {w}) = TableP!Charged(S) + WeightBytes[w]
  BY WeightsFit, TableP!ChargedAdd
<1>3. w \in S => /\ TableP!Charged(S \ {w}) = TableP!Charged(S) - TableP!Charged({w})
                 /\ TableP!Charged({w}) <= TableP!Charged(S)
  <2> HAVE w \in S
  <2>1. {w} \in SUBSET S
    OBVIOUS
  <2> QED
    BY <2>1, WeightsFit, TableP!ChargedRemove
<1>4. TableP!Charged({w}) = WeightBytes[w]
  BY WeightsFit, TableP!ChargedOne
<1>5. WeightBytes[w] \in Nat \ {0}
  BY WeightsFit
<1> QED
  BY <1>1, <1>2, <1>3, <1>4, <1>5, SameCharges

\* The list without its entry at i.
LEMMA WithoutEntry ==
  ASSUME NEW s \in Seq(Weights), NEW i \in 1..Len(s)
  PROVE  /\ RemoveAt(s, i) \in Seq(Weights) /\ Len(RemoveAt(s, i)) = Len(s) - 1
         /\ \A j \in 1..Len(s) - 1 : RemoveAt(s, i)[j] = IF j < i THEN s[j] ELSE s[j + 1]
<1> DEFINE before == SubSeq(s, 1, i - 1)
           after == SubSeq(s, i + 1, Len(s))
<1>1. /\ Len(s) \in Nat /\ before \in Seq(Weights) /\ after \in Seq(Weights)
      /\ Len(before) = i - 1 /\ \A j \in 1..i - 1 : before[j] = s[j]
      /\ Len(after) = Len(s) - i /\ \A j \in 1..Len(s) - i : after[j] = s[i + j]
  OBVIOUS
<1>2. RemoveAt(s, i) = before \o after
  BY DEF RemoveAt
<1> HIDE DEF before, after
<1>3. /\ before \o after \in Seq(Weights)
      /\ Len(before \o after) = Len(before) + Len(after)
      /\ \A j \in 1..Len(before) + Len(after) :
           (before \o after)[j] =
             IF j <= Len(before) THEN before[j] ELSE after[j - Len(before)]
  BY <1>1, ConcatProperties
<1>4. \A j \in 1..Len(s) - 1 :
        (before \o after)[j] = IF j < i THEN s[j] ELSE s[j + 1]
  <2> TAKE j \in 1..Len(s) - 1
  <2>1. CASE j < i
    BY <1>1, <1>3, <2>1
  <2>2. CASE ~(j < i)
    <3>1. j - (i - 1) \in 1..Len(s) - i /\ i + (j - (i - 1)) = j + 1
      BY <1>1, <2>2
    <3>2. after[j - (i - 1)] = s[j + 1]
      BY <1>1, <3>1
    <3> QED
      BY <1>1, <1>3, <2>2, <3>2
  <2> QED
    BY <2>1, <2>2
<1> QED
  BY <1>1, <1>2, <1>3, <1>4

\* A list that names each weight once, without one of them.
LEMMA EntryGoes ==
  ASSUME NEW s \in Seq(Weights), IsInjective(s), NEW i \in 1..Len(s)
  PROVE  /\ RemoveAt(s, i) \in Seq(Weights) /\ IsInjective(RemoveAt(s, i))
         /\ Range(RemoveAt(s, i)) = Range(s) \ {s[i]}
<1> DEFINE r == RemoveAt(s, i)
           at(j) == IF j < i THEN j ELSE j + 1
<1>1. /\ Len(s) \in Nat /\ DOMAIN s = 1..Len(s)
      /\ \A j, k \in 1..Len(s) : s[j] = s[k] => j = k
  BY DEF IsInjective
<1>2. /\ r \in Seq(Weights) /\ Len(r) = Len(s) - 1
      /\ \A j \in 1..Len(s) - 1 : r[j] = IF j < i THEN s[j] ELSE s[j + 1]
  BY WithoutEntry
<1> HIDE DEF r
<1>3. DOMAIN r = 1..Len(s) - 1
  BY <1>1, <1>2
<1>4. /\ \A j \in 1..Len(s) - 1 : at(j) \in 1..Len(s) /\ at(j) # i /\ r[j] = s[at(j)]
      /\ \A j, k \in 1..Len(s) - 1 : at(j) = at(k) => j = k
  BY <1>1, <1>2
<1>5. \A k \in 1..Len(s) : k # i => \E j \in 1..Len(s) - 1 : at(j) = k
  <2> TAKE k \in 1..Len(s)
  <2> HAVE k # i
  <2> DEFINE j == IF k < i THEN k ELSE k - 1
  <2>1. j \in 1..Len(s) - 1 /\ at(j) = k
    BY <1>1
  <2> QED
    BY <2>1
<1> HIDE DEF at
<1>6. IsInjective(r)
  BY <1>1, <1>3, <1>4 DEF IsInjective
<1>7. \A j \in 1..Len(s) - 1 : r[j] \in Range(s) \ {s[i]}
  BY <1>1, <1>4 DEF Range
<1>8. \A x \in Range(s) \ {s[i]} : \E j \in 1..Len(s) - 1 : r[j] = x
  <2> TAKE x \in Range(s) \ {s[i]}
  <2>1. PICK k \in 1..Len(s) : s[k] = x /\ k # i
    BY <1>1 DEF Range
  <2>2. PICK j \in 1..Len(s) - 1 : at(j) = k
    BY <1>5, <2>1
  <2> QED
    BY <1>4, <2>1, <2>2
<1>9. Range(r) = Range(s) \ {s[i]}
  BY <1>3, <1>7, <1>8 DEF Range
<1> QED
  BY <1>2, <1>6, <1>9 DEF r

\* A weight not yet in the list is the youngest.
LEMMA EntryComes ==
  ASSUME NEW s \in Seq(Weights), IsInjective(s), NEW w \in Weights, w \notin Range(s)
  PROVE  /\ Append(s, w) \in Seq(Weights) /\ IsInjective(Append(s, w))
         /\ Range(Append(s, w)) = Range(s) \cup {w}
<1> DEFINE a == Append(s, w)
<1>1. /\ a \in Seq(Weights) /\ Len(s) \in Nat /\ DOMAIN s = 1..Len(s)
      /\ DOMAIN a = 1..(Len(s) + 1)
      /\ \A j \in 1..Len(s) : a[j] = s[j]
      /\ a[Len(s) + 1] = w
  OBVIOUS
<1> HIDE DEF a
<1>2. IsInjective(a)
  BY <1>1 DEF IsInjective, Range
<1>3. Range(a) = Range(s) \cup {w}
  BY <1>1 DEF Range
<1> QED
  BY <1>1, <1>2, <1>3 DEF a

-----------------------------------------------------------------------------
(* The stream                                                              *)

\* Appending a command that will find its weight, or another one.
LEMMA AppendFollows ==
  ASSUME NEW s, NEW mem, NEW table \in SUBSET Weights, NEW granted, NEW coming,
         Follows(s, mem, table, granted, coming), NEW command \in Command,
         \/ IsCopy(command, table)
         \/ command = WaitForTransfer
         \/ KernelFinds(Append(s, command), mem, table, granted, coming, Len(s) + 1)
  PROVE  Follows(Append(s, command), mem, table, granted, coming)
<1> DEFINE t == Append(s, command)
<1>1. /\ s \in Seq(Command) /\ Len(s) \in Nat /\ t \in Seq(Command)
      /\ Len(t) = Len(s) + 1 /\ t[Len(s) + 1] = command
      /\ \A i \in 1..Len(s) : t[i] = s[i]
  BY DEF Follows
<1>2. ASSUME NEW i \in 1..(Len(s) + 1), NEW w
      PROVE  Written(s, mem, w, i) => Written(t, mem, w, i)
  <2> HIDE DEF t
  <2> QED
    BY <1>1 DEF Written
<1>3. ASSUME NEW w PROVE Written(t, mem, w, Len(s) + 1) => Written(t, mem, w, Len(t) + 1)
  <2> HIDE DEF t
  <2> QED
    BY <1>1 DEF Written
<1>4. ASSUME NEW i \in 1..Len(s) PROVE Arrived(s, coming, i) => Arrived(t, coming, i)
  <2> HIDE DEF t
  <2> QED
    BY <1>1 DEF Arrived
<1>5. ASSUME NEW i \in 1..Len(s) PROVE Enqueued(t, mem, table, granted, coming, i)
  <2> HIDE DEF t
  <2>1. t[i] = s[i] /\ (i # 1 => i - 1 \in 1..Len(s) /\ t[i - 1] = s[i - 1])
    BY <1>1
  <2>2. Enqueued(s, mem, table, granted, coming, i)
    BY DEF Follows
  <2>3. CASE KernelFinds(s, mem, table, granted, coming, i)
    <3>1. \A w : Written(s, mem, w, i) => Written(t, mem, w, i)
      BY <1>1, <1>2
    <3>2. KernelFinds(t, mem, table, granted, coming, i)
      BY <1>4, <2>1, <2>3, <3>1 DEF KernelFinds
    <3> QED
      BY <3>2 DEF Enqueued
  <2> QED
    BY <2>1, <2>2, <2>3 DEF Enqueued
<1>6. Enqueued(t, mem, table, granted, coming, Len(s) + 1)
  <2> HIDE DEF t
  <2> QED
    BY <1>1 DEF Enqueued, t
<1>7. \A w \in table : Written(t, mem, w, Len(t) + 1)
  <2>1. Len(s) + 1 \in 1..(Len(s) + 1)
    BY <1>1
  <2> QED
    BY <1>2, <1>3, <2>1 DEF Follows
<1>8. \A i \in 1..Len(t) : Enqueued(t, mem, table, granted, coming, i)
  <2> HIDE DEF t
  <2>1. \A i \in 1..Len(t) : i \in 1..Len(s) \/ i = Len(s) + 1
    BY <1>1
  <2> QED
    BY <1>5, <1>6, <2>1
<1> QED
  BY <1>1, <1>7, <1>8 DEF Follows

\* What the device has written when it has run a command.
After(mem, command) ==
  IF command.kind = "copy" THEN [mem EXCEPT ![command.at] = command.of] ELSE mem

\* Running the first command, which is a wait only if no copy is coming.
LEMMA TailFollows ==
  ASSUME NEW s, NEW mem, NEW table \in SUBSET Weights, NEW granted, NEW coming,
         Follows(s, mem, table, granted, coming), s # << >>,
         Locations \subseteq DOMAIN mem,
         Head(s) = WaitForTransfer => ~coming
  PROVE  /\ Follows(Tail(s), After(mem, Head(s)), table, granted, coming)
         /\ Arrived(s, coming, Len(s) + 1) => Arrived(Tail(s), coming, Len(s))
<1> DEFINE t == Tail(s)
           now == After(mem, Head(s))
<1>1. /\ s \in Seq(Command) /\ Len(s) \in Nat \ {0} /\ t \in Seq(Command)
      /\ Len(t) = Len(s) - 1 /\ Head(s) = s[1] /\ Head(s) \in Command
      /\ \A i \in 1..Len(t) : t[i] = s[i + 1] /\ i + 1 \in 1..Len(s)
  BY DEF Follows
<1>2. Enqueued(s, mem, table, granted, coming, 1)
  BY <1>1 DEF Follows
<1>w. "scratch" \notin Weights /\ "buffer" \notin Weights
  BY DeviceAssumption
<1>c. ASSUME Head(s).kind = "copy"
      PROVE  IsCopy(Head(s), table)
  BY <1>1, <1>2, <1>c DEF Enqueued, KernelFinds, WaitForTransfer
<1>3. \A w \in Weights : mem[w] = w => now[w] = w
  <2>1. CASE Head(s).kind = "copy"
    <3>1. IsCopy(Head(s), table)
      BY <1>c, <2>1
    <3> QED
      BY <1>w, <2>1, <3>1 DEF After, IsCopy, Locations
  <2>2. CASE Head(s).kind # "copy"
    BY <2>2 DEF After
  <2> QED
    BY <2>1, <2>2
<1>4. \A w \in Weights : s[1] = CopyTo(w, w) => now[w] = w
  BY <1>1 DEF After, CopyTo, Locations
<1>5. \A w \in Weights \ table : mem[w] = Nothing => now[w] = Nothing
  <2>1. CASE Head(s).kind = "copy"
    <3>1. IsCopy(Head(s), table)
      BY <1>c, <2>1
    <3> QED
      BY <1>w, <2>1, <3>1 DEF After, IsCopy, Locations
  <2>2. CASE Head(s).kind # "copy"
    BY <2>2 DEF After
  <2> QED
    BY <2>1, <2>2
<1>6. \A w \in Weights : s[1] = CopyTo("scratch", w) => now["scratch"] = w
  BY <1>1 DEF After, CopyTo, Locations
<1> HIDE DEF t, now
<1>7. ASSUME NEW w \in Weights, NEW i \in 1..Len(s), Written(s, mem, w, i + 1)
      PROVE  Written(t, now, w, i)
  <2>1. CASE mem[w] = w
    BY <1>3, <2>1 DEF Written
  <2>2. CASE \E j \in 1..((i + 1) - 1) : s[j] = CopyTo(w, w)
    <3>1. PICK j \in 1..i : s[j] = CopyTo(w, w)
      BY <2>2
    <3>2. CASE j = 1
      BY <1>4, <3>1, <3>2 DEF Written
    <3>3. CASE j # 1
      <4>1. j - 1 \in 1..(i - 1) /\ j - 1 \in 1..Len(t) /\ (j - 1) + 1 = j
        BY <1>1, <3>3
      <4>2. t[j - 1] = CopyTo(w, w)
        BY <1>1, <3>1, <4>1
      <4> QED
        BY <4>1, <4>2 DEF Written
    <3> QED
      BY <3>2, <3>3
  <2> QED
    BY <1>7, <2>1, <2>2 DEF Written
<1>8. ASSUME NEW i \in 1..Len(s), Arrived(s, coming, i + 1)
      PROVE  Arrived(t, coming, i)
  <2>1. CASE ~coming
    BY <2>1 DEF Arrived
  <2>2. CASE coming
    <3>1. PICK j \in 1..i : s[j] = WaitForTransfer
      BY <1>8, <2>2 DEF Arrived
    <3>2. j # 1
      BY <1>1, <2>2, <3>1
    <3>3. j - 1 \in 1..(i - 1) /\ j - 1 \in 1..Len(t) /\ (j - 1) + 1 = j
      BY <1>1, <3>2
    <3>4. t[j - 1] = WaitForTransfer
      BY <1>1, <3>1, <3>3
    <3> QED
      BY <3>3, <3>4 DEF Arrived
  <2> QED
    BY <2>1, <2>2
<1>9. ASSUME NEW i \in 1..Len(t) PROVE Enqueued(t, now, table, granted, coming, i)
  <2>1. t[i] = s[i + 1] /\ i + 1 \in 1..Len(s) /\ i \in 1..Len(s) /\ i + 1 # 1 /\ (i + 1) - 1 = i
    BY <1>1
  <2>2. Enqueued(s, mem, table, granted, coming, i + 1)
    BY <2>1 DEF Follows
  <2>3. CASE KernelFinds(s, mem, table, granted, coming, i + 1)
    <3> DEFINE command == t[i]
    <3>1. CASE /\ command.at \in table /\ command.of = command.at
               /\ Written(s, mem, command.at, i + 1)
      <4>1. Written(t, now, command.at, i)
        BY <1>7, <2>1, <3>1
      <4> QED
        BY <2>1, <2>3, <3>1, <4>1 DEF Enqueued, KernelFinds
    <3>2. CASE /\ command.at = "scratch" /\ command.of \in Weights
               /\ s[i] = CopyTo("scratch", command.of)
      <4>1. CASE i = 1
        BY <1>6, <2>1, <2>3, <3>2, <4>1 DEF Enqueued, KernelFinds
      <4>2. CASE i # 1
        <5>1. i - 1 \in 1..Len(t) /\ (i - 1) + 1 = i
          BY <1>1, <4>2
        <5>2. t[i - 1] = CopyTo("scratch", command.of)
          BY <1>1, <3>2, <5>1
        <5> QED
          BY <2>1, <2>3, <3>2, <4>2, <5>2 DEF Enqueued, KernelFinds
      <4> QED
        BY <4>1, <4>2
    <3>3. CASE /\ command.at = "buffer" /\ command.of \in granted
               /\ Arrived(s, coming, i + 1)
      <4>1. Arrived(t, coming, i)
        BY <1>8, <2>1, <3>3
      <4> QED
        BY <2>1, <2>3, <3>3, <4>1 DEF Enqueued, KernelFinds
    <3> QED
      BY <2>1, <2>3, <3>1, <3>2, <3>3 DEF KernelFinds
  <2> QED
    BY <2>1, <2>2, <2>3 DEF Enqueued
<1>10. \A w \in table : Written(t, now, w, Len(t) + 1)
  <2> TAKE w \in table
  <2>1. Written(s, mem, w, Len(s) + 1) /\ Len(s) \in 1..Len(s) /\ Len(t) + 1 = Len(s)
    BY <1>1 DEF Follows
  <2> QED
    BY <1>7, <2>1
<1>11. \A w \in Weights \ table : now[w] = Nothing
  BY <1>5 DEF Follows
<1>12. Follows(t, now, table, granted, coming)
  BY <1>1, <1>9, <1>10, <1>11 DEF Follows
<1>13. Len(s) \in 1..Len(s)
  BY <1>1
<1> QED
  BY <1>8, <1>12, <1>13 DEF t, now

\* A stream that goes on holds what it held.
LEMMA ArrivedOn ==
  ASSUME NEW s \in Seq(Command), NEW coming, NEW command \in Command,
         Arrived(s, coming, Len(s) + 1) \/ command = WaitForTransfer
  PROVE  Arrived(Append(s, command), coming, Len(Append(s, command)) + 1)
<1> DEFINE t == Append(s, command)
<1>1. /\ Len(s) \in Nat /\ Len(t) = Len(s) + 1 /\ t[Len(s) + 1] = command
      /\ \A i \in 1..Len(s) : t[i] = s[i]
  OBVIOUS
<1> HIDE DEF t
<1>2. Arrived(t, coming, Len(t) + 1)
  BY <1>1 DEF Arrived
<1> QED
  BY <1>2 DEF t

\* A copy and the kernel behind it.
LEMMA CopyThenKernel ==
  ASSUME NEW s, NEW mem, NEW table \in SUBSET Weights, NEW granted, NEW coming,
         Follows(s, mem, table, granted, coming), NEW w \in Weights
  PROVE  LET t == Append(s, CopyTo("scratch", w)) IN
         /\ CopyTo("scratch", w) \in Command /\ KernelAt("scratch", w) \in Command
         /\ Follows(t, mem, table, granted, coming)
         /\ Follows(Append(t, KernelAt("scratch", w)), mem, table, granted, coming)
<1> DEFINE t == Append(s, CopyTo("scratch", w))
           u == Append(t, KernelAt("scratch", w))
<1>1. CopyTo("scratch", w) \in Command /\ KernelAt("scratch", w) \in Command
  BY DEF CopyTo, KernelAt, Command, Locations
<1>2. IsCopy(CopyTo("scratch", w), table)
  BY DEF IsCopy, CopyTo
<1>3. Follows(t, mem, table, granted, coming)
  BY <1>1, <1>2, AppendFollows
<1>4. /\ s \in Seq(Command) /\ t \in Seq(Command) /\ Len(s) \in Nat
      /\ Len(t) = Len(s) + 1 /\ t[Len(s) + 1] = CopyTo("scratch", w)
      /\ u[Len(t)] = t[Len(t)] /\ u[Len(t) + 1] = KernelAt("scratch", w)
  BY <1>1 DEF Follows
<1>5. KernelFinds(u, mem, table, granted, coming, Len(t) + 1)
  <2> HIDE DEF t, u
  <2>1. (Len(t) + 1) - 1 = Len(t) /\ Len(t) + 1 # 1
    BY <1>4
  <2> QED
    BY <1>4, <2>1 DEF KernelFinds, KernelAt
<1>6. Follows(u, mem, table, granted, coming)
  <2> HIDE DEF t
  <2> QED
    BY <1>1, <1>3, <1>5, AppendFollows
<1> QED
  BY <1>1, <1>3, <1>6

\* A kernel at an entry of the table.
LEMMA KernelAtEntry ==
  ASSUME NEW s, NEW mem, NEW table \in SUBSET Weights, NEW granted, NEW coming,
         Follows(s, mem, table, granted, coming), NEW w \in table
  PROVE  /\ KernelAt(w, w) \in Command
         /\ Follows(Append(s, KernelAt(w, w)), mem, table, granted, coming)
<1> DEFINE t == Append(s, KernelAt(w, w))
<1>1. KernelAt(w, w) \in Command
  BY DEF KernelAt, Command, Locations
<1>2. /\ s \in Seq(Command) /\ Len(s) \in Nat /\ t[Len(s) + 1] = KernelAt(w, w)
      /\ \A i \in 1..Len(s) : t[i] = s[i]
  BY <1>1 DEF Follows
<1>3. Written(s, mem, w, Len(s) + 1)
  BY DEF Follows
<1>4. KernelFinds(t, mem, table, granted, coming, Len(s) + 1)
  <2> HIDE DEF t
  <2>1. Written(t, mem, w, Len(s) + 1)
    BY <1>2, <1>3 DEF Written
  <2> QED
    BY <1>2, <2>1 DEF KernelFinds, KernelAt
<1>5. Follows(t, mem, table, granted, coming)
  BY <1>1, <1>4, AppendFollows
<1> QED
  BY <1>1, <1>5

\* A kernel at the buffer, behind a wait for its transfer.
LEMMA KernelAtBuffer ==
  ASSUME NEW s, NEW mem, NEW table \in SUBSET Weights, NEW granted, NEW coming,
         Follows(s, mem, table, granted, coming),
         Arrived(s, coming, Len(s) + 1), NEW S \in SUBSET Experts, S \in granted
  PROVE  /\ KernelAt("buffer", S) \in Command
         /\ Follows(Append(s, KernelAt("buffer", S)), mem, table, granted, coming)
<1> DEFINE t == Append(s, KernelAt("buffer", S))
<1>1. KernelAt("buffer", S) \in Command
  BY DEF KernelAt, Command, Locations
<1>2. /\ s \in Seq(Command) /\ Len(s) \in Nat /\ t[Len(s) + 1] = KernelAt("buffer", S)
      /\ \A i \in 1..Len(s) : t[i] = s[i]
  BY <1>1 DEF Follows
<1>4. KernelFinds(t, mem, table, granted, coming, Len(s) + 1)
  <2> HIDE DEF t
  <2>1. Arrived(t, coming, Len(s) + 1)
    BY <1>2 DEF Arrived
  <2> QED
    BY <1>2, <2>1 DEF KernelFinds, KernelAt
<1>5. Follows(t, mem, table, granted, coming)
  BY <1>1, <1>4, AppendFollows
<1> QED
  BY <1>1, <1>5

-----------------------------------------------------------------------------
(* A layer                                                                 *)

\* A selection is a sequence of experts.
LEMMA RoutingsAre ==
  ASSUME NEW picked \in Routings
  PROVE  picked \in Seq(Experts) /\ picked \in Seq(Weights) /\ Range(picked) \in SUBSET Experts
<1>1. PICK n \in 1..TopExperts : picked \in [1..n -> Experts]
  BY DEF Routings
<1>2. n \in Nat
  BY DeviceAssumption
<1>3. picked \in Seq(Experts)
  BY <1>1, <1>2
<1>4. Experts \subseteq Weights
  BY DEF Weights
<1>5. Range(picked) \in SUBSET Experts
  BY <1>1 DEF Range
<1> QED
  BY <1>1, <1>2, <1>3, <1>4, <1>5

Operations == [kind : Kinds, weights : Seq(Weights)]

\* What the operation at hand asks for.
LEMMA AskedType ==
  ASSUME BackendTypes, agenda # << >>
  PROVE  /\ Head(agenda) \in Operations /\ Asked \in Seq(Weights) /\ Len(Asked) \in Nat
         /\ \A i \in 1..Len(Asked) : Asked[i] \in Weights
         /\ Tail(agenda) \in Seq(Operations)
<1>1. agenda \in Seq(Operations)
  BY DEF BackendTypes, Operations
<1>2. Head(agenda) \in Operations /\ Tail(agenda) \in Seq(Operations)
  BY <1>1
<1>3. Asked \in Seq(Weights)
  BY <1>2 DEF Asked, Operations
<1> QED
  BY <1>2, <1>3

\* The tails of a layer that prefetches.
LEMMA TupleTails ==
  ASSUME NEW o, NEW p, NEW q, NEW r
  PROVE  /\ Head(<<o, p, q, r>>) = o /\ Tail(<<o, p, q, r>>) = <<p, q, r>>
         /\ Head(<<p, q, r>>) = p /\ Tail(<<p, q, r>>) = <<q, r>>
         /\ Head(<<q, r>>) = q /\ Tail(<<q, r>>) = <<r>>
         /\ Head(<<r>>) = r /\ Tail(<<r>>) = << >>
OBVIOUS

\* What may be at the head of an agenda that began with a prefetch.
LEMMA PrefetchAgenda ==
  ASSUME AgendaFollows, setup = "prefetch", agenda # << >>
  PROVE  \E picked \in Routings :
           LET prepared == Operation("prepared", picked) IN
           \/ /\ Head(agenda) = Operation("prefetch", picked)
              /\ Tail(agenda) = <<MatvecOf(Down), prepared, MatvecOf(Up)>>
           \/ /\ Head(agenda) = MatvecOf(Down)
              /\ Tail(agenda) = <<prepared, MatvecOf(Up)>> /\ Prepares(picked)
           \/ /\ Head(agenda) = prepared
              /\ Tail(agenda) = <<MatvecOf(Up)>> /\ Prepares(picked)
           \/ Head(agenda) = MatvecOf(Up) /\ Tail(agenda) = << >>
<1>1. PICK picked \in Routings : PrefetchFollows(picked)
  BY DEF AgendaFollows
<1> DEFINE prefetch == Operation("prefetch", picked)
           prepared == Operation("prepared", picked)
           down == MatvecOf(Down)
           up == MatvecOf(Up)
<1> HIDE DEF prefetch, prepared, down, up
<1>2. \/ agenda = <<prefetch, down, prepared, up>>
      \/ agenda = <<down, prepared, up>> /\ Prepares(picked)
      \/ agenda = <<prepared, up>> /\ Prepares(picked)
      \/ agenda = <<up>>
  BY <1>1 DEF PrefetchFollows, prefetch, prepared, down, up
<1>3. \/ Head(agenda) = prefetch /\ Tail(agenda) = <<down, prepared, up>>
      \/ Head(agenda) = down /\ Tail(agenda) = <<prepared, up>> /\ Prepares(picked)
      \/ Head(agenda) = prepared /\ Tail(agenda) = <<up>> /\ Prepares(picked)
      \/ Head(agenda) = up /\ Tail(agenda) = << >>
  <2>1. CASE agenda = <<prefetch, down, prepared, up>>
    BY <2>1, TupleTails
  <2>2. CASE agenda = <<down, prepared, up>> /\ Prepares(picked)
    BY <2>2, TupleTails
  <2>3. CASE agenda = <<prepared, up>> /\ Prepares(picked)
    BY <2>3, TupleTails
  <2>4. CASE agenda = <<up>>
    BY <2>4, TupleTails
  <2> QED
    BY <1>2, <2>1, <2>2, <2>3, <2>4
<1> QED
  BY <1>3 DEF prefetch, prepared, down, up

\* Which setup an operation at the head belongs to.
LEMMA HeadBelongs ==
  ASSUME BackendTypes, AgendaFollows, agenda # << >>
  PROVE  /\ Doing({"prefetch", "prepared"}) => setup = "prefetch"
         /\ Doing({"protect", "layer", "grid", "group"}) => setup # "prefetch"
<1>1. /\ agenda \in Seq(Operations) /\ 1 \in 1..Len(agenda) /\ Head(agenda) = agenda[1]
  BY DEF BackendTypes, Operations
<1>2. CASE setup # "prefetch"
  BY <1>1, <1>2 DEF AgendaFollows, Doing, TableKinds
<1>3. CASE setup = "prefetch"
  <2>1. Head(agenda).kind \in {"prefetch", "matvec", "prepared"}
    BY <1>3, PrefetchAgenda DEF Operation, MatvecOf
  <2> QED
    BY <1>3, <2>1 DEF Doing
<1> QED
  BY <1>2, <1>3

\* The host when an operation has ended its layer.
LEMMA LayerOver ==
  ASSUME agenda' = << >>, handles' = << >>, launched' = 0
  PROVE  /\ AgendaFollows' /\ HandlesHold'
         /\ agenda' \in Seq([kind : Kinds, weights : Seq(Weights)])
         /\ handles' \in Seq(Weights \cup {"scratch"}) /\ launched' \in Nat
<1>1. /\ Len(agenda') = 0 /\ Len(handles') = 0
      /\ agenda' \in Seq([kind : Kinds, weights : Seq(Weights)])
      /\ handles' \in Seq(Weights \cup {"scratch"})
  OBVIOUS
<1> QED
  BY <1>1 DEF AgendaFollows, HandlesHold

\* The host when an operation is done; a prefetch has made its transfer pending.
LEMMA OperationOver ==
  ASSUME BackendTypes, AgendaFollows, agenda # << >>, Done, setup' = setup,
         \/ ~Doing({"prefetch"}) /\ transfer' = transfer
         \/ Doing({"prepared"})
         \/ Doing({"prefetch"}) /\ transfer' # NoTransfer /\ transfer'.of = Range(Asked)
  PROVE  /\ AgendaFollows' /\ HandlesHold'
         /\ agenda' \in Seq([kind : Kinds, weights : Seq(Weights)])
         /\ handles' \in Seq(Weights \cup {"scratch"}) /\ launched' \in Nat
<1>1. /\ agenda' = Tail(agenda) /\ handles' = << >> /\ launched' = 0
      /\ agenda' \in Seq([kind : Kinds, weights : Seq(Weights)])
      /\ handles' \in Seq(Weights \cup {"scratch"}) /\ Len(handles') = 0
  BY AskedType DEF Done, Operations
<1>2. HandlesHold'
  BY <1>1 DEF HandlesHold
<1>3. AgendaFollows'
  <2>1. CASE setup # "prefetch"
    <3>1. /\ agenda \in Seq(Operations) /\ Len(agenda) \in Nat \ {0}
          /\ Len(agenda') = Len(agenda) - 1
          /\ \A i \in 1..Len(agenda') : agenda'[i] = agenda[i + 1] /\ i + 1 \in 1..Len(agenda)
      BY <1>1 DEF BackendTypes, Operations
    <3> QED
      BY <2>1, <3>1 DEF AgendaFollows
  <2>2. CASE setup = "prefetch"
    <3>1. PICK picked \in Routings :
            LET prepared == Operation("prepared", picked) IN
            \/ /\ Head(agenda) = Operation("prefetch", picked)
               /\ Tail(agenda) = <<MatvecOf(Down), prepared, MatvecOf(Up)>>
            \/ /\ Head(agenda) = MatvecOf(Down)
               /\ Tail(agenda) = <<prepared, MatvecOf(Up)>> /\ Prepares(picked)
            \/ /\ Head(agenda) = prepared
               /\ Tail(agenda) = <<MatvecOf(Up)>> /\ Prepares(picked)
            \/ Head(agenda) = MatvecOf(Up) /\ Tail(agenda) = << >>
      BY <2>2, PrefetchAgenda
    <3>2. CASE /\ Head(agenda) = Operation("prefetch", picked)
               /\ Tail(agenda) = <<MatvecOf(Down), Operation("prepared", picked), MatvecOf(Up)>>
      <4>1. Head(agenda).kind = "prefetch" /\ Head(agenda).weights = picked
        BY <3>2 DEF Operation
      <4>2. transfer' # NoTransfer /\ transfer'.of = Range(picked)
        BY <4>1 DEF Doing, Asked
      <4>3. PrefetchFollows(picked)'
        BY <1>1, <3>2, <4>2 DEF PrefetchFollows, Prepares
      <4> QED
        BY <2>2, <4>3 DEF AgendaFollows
    <3>3. CASE /\ Head(agenda) = MatvecOf(Down)
               /\ Tail(agenda) = <<Operation("prepared", picked), MatvecOf(Up)>>
               /\ Prepares(picked)
      <4>1. Head(agenda).kind = "matvec"
        BY <3>3 DEF Operation, MatvecOf
      <4>2. transfer' = transfer
        BY <4>1 DEF Doing
      <4>3. PrefetchFollows(picked)'
        BY <1>1, <3>3, <4>2 DEF PrefetchFollows, Prepares
      <4> QED
        BY <2>2, <4>3 DEF AgendaFollows
    <3>4. CASE Tail(agenda) = <<MatvecOf(Up)>>
      <4>1. PrefetchFollows(picked)'
        BY <1>1, <3>4 DEF PrefetchFollows
      <4> QED
        BY <2>2, <4>1 DEF AgendaFollows
    <3>5. CASE Tail(agenda) = << >>
      BY <1>1, <2>2, <3>5 DEF AgendaFollows
    <3> QED
      BY <3>1, <3>2, <3>3, <3>4, <3>5
  <2> QED
    BY <2>1, <2>2
<1> QED
  BY <1>1, <1>2, <1>3

-----------------------------------------------------------------------------
(* The actions                                                             *)

\* A step that leaves the device, the transfer and the entries alone.
LEMMA DeviceRests ==
  ASSUME StreamFollows, TransferHolds, Range(lru') = Range(lru),
         UNCHANGED <<deviceVars, pinned, transfer>>
  PROVE  StreamFollows' /\ TransferHolds'
BY DEF StreamFollows, TransferHolds, Granted, deviceVars

LEMMA BackendInitInv == BackendInit => DeviceInv
<1> HAVE BackendInit
<1>1. /\ setup \in {"prefetch", "group", "grid", "layer"}
      /\ lru = << >> /\ residentBytes = 0 /\ kept = {} /\ Room \in Nat
      /\ memory = [l \in Locations |-> Nothing]
      /\ stream = << >> /\ uploading = FALSE /\ pinned = {} /\ transfer = NoTransfer
      /\ agenda = << >> /\ handles = << >> /\ launched = 0
  BY DeviceAssumption DEF BackendInit
<1>2. /\ << >> \in Seq(Weights) /\ << >> \in Seq(Weights \cup {"scratch"})
      /\ << >> \in Seq([kind : Kinds, weights : Seq(Weights)]) /\ << >> \in Seq(Command)
      /\ Len(<< >>) = 0 /\ DOMAIN << >> = {}
  OBVIOUS
<1>3. Range(lru) = {} /\ IsInjective(lru)
  BY <1>1, <1>2 DEF Range, IsInjective
<1>4. BackendTypes
  BY <1>1, <1>2 DEF BackendTypes, NoTransfer
<1>5. Weights \subseteq Locations
  BY DEF Locations
<1>6. Follows(stream, memory, {}, Granted, uploading)
  BY <1>1, <1>2, <1>5 DEF Follows
<1>7. Table!Charged({}) = 0
  BY WeightsFit, TableP!ChargedNothing, SameCharges
<1>8. TransferHolds
  BY <1>1 DEF TransferHolds, NoTransfer
<1>9. AgendaFollows /\ HandlesHold
  BY <1>1, <1>2 DEF AgendaFollows, HandlesHold
<1>10. StreamFollows
  BY <1>3, <1>6, Zenon DEF StreamFollows
<1>11. Table!Charged(Range(lru)) = 0
  BY <1>3, <1>7, Zenon
<1>12. TableExact
  BY <1>1, <1>3, <1>11 DEF TableExact
<1> QED
  BY <1>4, <1>8, <1>9, <1>10, <1>12 DEF DeviceInv

LEMMA BeginLayerKeeps == DeviceInv /\ BeginLayer => DeviceInv'
<1> SUFFICES ASSUME DeviceInv, BeginLayer PROVE DeviceInv'
  OBVIOUS
<1> USE DEF DeviceInv
<1>1. /\ agenda = << >>
      /\ UNCHANGED <<setup, tableVars, deviceVars, pinned, transfer, handles, launched, faults>>
  BY DEF BeginLayer
<1>2. PICK picked \in Routings : agenda' = LayerOf(picked)
  BY DEF BeginLayer
<1>3. picked \in Seq(Weights)
  BY <1>2, RoutingsAre
<1>4. handles = << >>
  BY <1>1 DEF HandlesHold
<1>w. <<Down, Up>> \o picked \in Seq(Weights) /\ << >> \in Seq(Weights)
  <2>1. <<Down, Up>> \in Seq(Weights)
    BY DEF Weights
  <2> QED
    BY <1>3, <2>1
<1>o. /\ \A kind \in Kinds, ws \in Seq(Weights) : Operation(kind, ws) \in Operations
      /\ MatvecOf(Down) \in Operations /\ MatvecOf(Up) \in Operations
  BY DEF Operation, MatvecOf, Operations, Kinds, Weights
<1>5. ASSUME setup = "prefetch"
      PROVE  agenda' \in Seq(Operations) /\ AgendaFollows'
  <2>1. agenda' = <<Operation("prefetch", picked), MatvecOf(Down),
                    Operation("prepared", picked), MatvecOf(Up)>>
    BY <1>2, <1>5 DEF LayerOf
  <2>2. AgendaFollows'
    BY <1>1, <1>5, <2>1 DEF AgendaFollows, PrefetchFollows
  <2>3. Operation("prefetch", picked) \in Operations /\ Operation("prepared", picked) \in Operations
    BY <1>3, <1>o DEF Kinds
  <2>4. agenda' \in Seq(Operations)
    BY <1>o, <2>1, <2>3
  <2> QED
    BY <2>2, <2>4
<1>6. ASSUME setup = "layer"
      PROVE  agenda' \in Seq(Operations) /\ AgendaFollows'
  <2>1. agenda' = <<Operation("protect", << >>), Operation("protect", picked),
                    Operation("layer", <<Down, Up>> \o picked)>>
    BY <1>2, <1>6 DEF LayerOf
  <2>2. /\ Operation("protect", << >>) \in Operations /\ Operation("protect", picked) \in Operations
        /\ Operation("layer", <<Down, Up>> \o picked) \in Operations
    BY <1>3, <1>o, <1>w DEF Kinds
  <2>3. agenda' \in Seq(Operations)
    BY <2>1, <2>2
  <2>4. \A i \in 1..Len(agenda') : agenda'[i].kind \in TableKinds
    BY <2>1 DEF Operation, TableKinds
  <2> QED
    BY <1>1, <1>6, <2>3, <2>4 DEF AgendaFollows
<1>7. ASSUME setup \notin {"prefetch", "layer"}
      PROVE  agenda' \in Seq(Operations) /\ AgendaFollows'
  <2>1. setup \in {"group", "grid"}
    BY <1>7 DEF BackendTypes
  <2>2. agenda' = <<Operation("protect", << >>), MatvecOf(Down), Operation("protect", picked),
                    Operation(setup, picked), MatvecOf(Up)>>
    BY <1>2, <1>7 DEF LayerOf
  <2>3. /\ Operation("protect", << >>) \in Operations /\ Operation("protect", picked) \in Operations
        /\ Operation(setup, picked) \in Operations
    BY <1>3, <1>o, <1>w, <2>1 DEF Kinds
  <2>4. agenda' \in Seq(Operations)
    BY <1>o, <2>2, <2>3
  <2>5. \A i \in 1..Len(agenda') : agenda'[i].kind \in TableKinds
    BY <2>1, <2>2 DEF Operation, MatvecOf, TableKinds
  <2> QED
    BY <1>1, <2>1, <2>4, <2>5 DEF AgendaFollows
<1>8. agenda' \in Seq(Operations) /\ AgendaFollows'
  BY <1>5, <1>6, <1>7
<1>9. StreamFollows' /\ TransferHolds'
  BY <1>1, DeviceRests DEF tableVars
<1>10. HandlesHold'
  BY <1>1, <1>4 DEF HandlesHold
<1>11. TableExact'
  BY <1>1 DEF TableExact, tableVars
<1>12. BackendTypes'
  BY <1>1, <1>8 DEF BackendTypes, Operations, tableVars, deviceVars
<1> QED
  BY <1>8, <1>9, <1>10, <1>11, <1>12

LEMMA BeginAccessSetKeeps == DeviceInv /\ BeginAccessSet => DeviceInv'
<1> SUFFICES ASSUME DeviceInv, BeginAccessSet PROVE DeviceInv'
  OBVIOUS
<1> USE DEF DeviceInv
<1>1. /\ agenda # << >> /\ Head(agenda).kind = "protect" /\ kept' = Range(Asked) /\ Done
      /\ UNCHANGED <<setup, lru, residentBytes, deviceVars, pinned, transfer, faults>>
  BY DEF BeginAccessSet, Doing
<1>2. ~Doing({"prefetch"})
  BY <1>1 DEF Doing
<1>3. /\ AgendaFollows' /\ HandlesHold'
      /\ agenda' \in Seq([kind : Kinds, weights : Seq(Weights)])
      /\ handles' \in Seq(Weights \cup {"scratch"}) /\ launched' \in Nat
  BY <1>1, <1>2, OperationOver
<1>4. kept' \subseteq Weights
  BY <1>1, AskedType DEF Range
<1>5. StreamFollows' /\ TransferHolds'
  BY <1>1, DeviceRests
<1>6. TableExact'
  BY <1>1 DEF TableExact
<1>7. BackendTypes'
  BY <1>1, <1>3, <1>4 DEF BackendTypes, deviceVars
<1> QED
  BY <1>3, <1>5, <1>6, <1>7

\* What acquire knows of the weight it is asked for.
LEMMA SoughtIs ==
  ASSUME DeviceInv, Acquiring
  PROVE  /\ Sought \in Weights /\ agenda # << >> /\ setup # "prefetch"
         /\ Len(handles) \in Nat /\ Len(handles) + 1 \in 1..Len(Asked)
<1>1. agenda # << >> /\ setup # "prefetch" /\ Len(handles) < Len(Asked)
  BY DEF Acquiring, Doing
<1>2. Len(handles) \in Nat
  BY DEF DeviceInv, BackendTypes
<1>3. Len(Asked) \in Nat /\ \A i \in 1..Len(Asked) : Asked[i] \in Weights
  BY <1>1, AskedType DEF DeviceInv
<1> QED
  BY <1>1, <1>2, <1>3 DEF Sought

\* The host when acquire has answered.
LEMMA HandedHolds ==
  ASSUME DeviceInv, Acquiring, NEW location \in {"scratch", Sought}, Handed(location),
         kept \subseteq kept', Range(lru) \subseteq Range(lru'),
         location # "scratch" => Sought \in Range(lru') \cap kept'
  PROVE  /\ AgendaFollows' /\ HandlesHold'
         /\ agenda' \in Seq([kind : Kinds, weights : Seq(Weights)])
         /\ handles' \in Seq(Weights \cup {"scratch"}) /\ launched' \in Nat
         /\ UNCHANGED <<setup, pinned, transfer, uploading>>
<1> USE DEF DeviceInv
<1>1. /\ handles' = Append(handles, location)
      /\ UNCHANGED <<setup, pinned, transfer, agenda, launched, uploading>>
  BY DEF Handed
<1>2. /\ Sought \in Weights /\ agenda # << >> /\ setup # "prefetch"
      /\ Len(handles) \in Nat /\ Len(handles) + 1 \in 1..Len(Asked)
  BY SoughtIs
<1>3. location \in Weights \cup {"scratch"} /\ handles \in Seq(Weights \cup {"scratch"})
  BY <1>2 DEF BackendTypes
<1>4. /\ handles' \in Seq(Weights \cup {"scratch"}) /\ Len(handles') = Len(handles) + 1
      /\ handles'[Len(handles) + 1] = location
      /\ \A i \in 1..Len(handles) : handles'[i] = handles[i]
  BY <1>1, <1>3
<1>5. Asked' = Asked
  BY <1>1 DEF Asked
<1>6. /\ agenda' # << >> /\ setup' # "prefetch" /\ Len(handles') <= Len(Asked')
  BY <1>1, <1>2, <1>4, <1>5
<1>7. ASSUME NEW i \in 1..Len(handles'), handles'[i] # "scratch"
      PROVE  handles'[i] = Asked'[i] /\ handles'[i] \in Range(lru') \cap kept'
  <2>1. CASE i \in 1..Len(handles)
    BY <1>4, <1>5, <1>7, <2>1 DEF HandlesHold
  <2>2. CASE i = Len(handles) + 1
    BY <1>4, <1>5, <1>7, <2>2 DEF Sought
  <2> QED
    BY <1>2, <1>4, <2>1, <2>2
<1>8. HandlesHold'
  BY <1>6, <1>7 DEF HandlesHold
<1>9. AgendaFollows'
  BY <1>1, <1>2 DEF AgendaFollows
<1> QED
  BY <1>1, <1>4, <1>8, <1>9 DEF BackendTypes

\* The victim is in no hands, and with the device idle in no command either.
LEMMA EvictKeeps == DeviceInv /\ Evict => DeviceInv'
<1> SUFFICES ASSUME DeviceInv, Evict PROVE DeviceInv'
  OBVIOUS
<1> USE DEF DeviceInv
<1>1. /\ stream = << >> /\ ~uploading /\ Acquiring
      /\ UNCHANGED <<setup, kept, stream, uploading, pinned, transfer, hostVars, faults>>
  BY DEF Evict, Missed
<1>2. PICK i \in Evictable :
        LET bytes == WeightBytes[lru[i]] IN
        /\ lru' = RemoveAt(lru, i)
        /\ residentBytes' = IF residentBytes >= bytes THEN residentBytes - bytes ELSE 0
        /\ memory' = [memory EXCEPT ![lru[i]] = Nothing]
  BY DEF Evict
<1> DEFINE w == lru[i]
<1>3. /\ i \in 1..Len(lru) /\ w \notin kept /\ w \in Range(lru) /\ w \in Weights
      /\ lru \in Seq(Weights) /\ IsInjective(lru)
  BY <1>2 DEF Evictable, BackendTypes, TableExact, Range
<1>4. lru' \in Seq(Weights) /\ IsInjective(lru') /\ Range(lru') = Range(lru) \ {w}
  BY <1>2, <1>3, EntryGoes
<1>5. Range(lru) \in SUBSET Weights
  BY <1>3 DEF Range
<1> HIDE DEF w
<1>6. /\ WeightBytes[w] \in Nat \ {0} /\ Table!Charged(Range(lru)) \in Nat
      /\ Table!Charged(Range(lru) \ {w}) = Table!Charged(Range(lru)) - WeightBytes[w]
      /\ WeightBytes[w] <= Table!Charged(Range(lru))
  BY <1>3, <1>5, ChargesChange
<1>7. /\ residentBytes' = IF residentBytes >= WeightBytes[w]
                            THEN residentBytes - WeightBytes[w] ELSE 0
      /\ memory' = [memory EXCEPT ![w] = Nothing]
  BY <1>2 DEF w
<1>8. residentBytes' = Table!Charged(Range(lru')) /\ residentBytes' <= Room
  BY <1>4, <1>6, <1>7, DeviceAssumption DEF TableExact
<1>9. TableExact'
  BY <1>4, <1>8 DEF TableExact
<1>10. memory \in [Locations -> Weights \cup {Nothing} \cup SUBSET Experts] /\ w \in Locations
       /\ w # "buffer" /\ w # "scratch"
  BY <1>3, DeviceAssumption DEF BackendTypes, Locations
<1>11. /\ memory' \in [Locations -> Weights \cup {Nothing} \cup SUBSET Experts]
       /\ \A l \in Locations : l # w => memory'[l] = memory[l]
       /\ memory'[w] = Nothing
  BY <1>7, <1>10
<1>12. Follows(stream, memory', Range(lru'), Granted, uploading)
  <2>1. Follows(stream, memory, Range(lru), Granted, uploading)
    BY DEF StreamFollows
  <2>2. stream \in Seq(Command) /\ Len(stream) = 0
    BY <1>1, <2>1 DEF Follows
  <2>3. \A v \in Range(lru') : Written(stream, memory', v, Len(stream) + 1)
    <3> TAKE v \in Range(lru')
    <3>1. v \in Range(lru) /\ v # w /\ v \in Locations
      BY <1>4, <1>5 DEF Locations
    <3>2. memory[v] = v
      BY <2>1, <2>2, <3>1 DEF Follows, Written
    <3> QED
      BY <1>11, <3>1, <3>2 DEF Written
  <2>4. \A v \in Weights \ Range(lru') : memory'[v] = Nothing
    BY <1>4, <1>11, <2>1 DEF Follows, Locations
  <2> QED
    BY <2>2, <2>3, <2>4 DEF Follows
<1>13. StreamFollows'
  BY <1>1, <1>12 DEF StreamFollows, Granted
<1>14. TransferHolds'
  <2>1. memory'["buffer"] = memory["buffer"]
    BY <1>10, <1>11 DEF Locations
  <2> QED
    BY <1>1, <2>1 DEF TransferHolds
<1>15. HandlesHold'
  BY <1>1, <1>3, <1>4 DEF HandlesHold, hostVars, Asked
<1>16. AgendaFollows'
  BY <1>1 DEF AgendaFollows, hostVars, PrefetchFollows, Prepares
<1>17. BackendTypes'
  BY <1>1, <1>4, <1>11 DEF BackendTypes, hostVars
<1> QED
  BY <1>9, <1>13, <1>14, <1>15, <1>16, <1>17

LEMMA AcquireHitKeeps == DeviceInv /\ AcquireHit => DeviceInv'
<1> SUFFICES ASSUME DeviceInv, AcquireHit PROVE DeviceInv'
  OBVIOUS
<1> USE DEF DeviceInv
<1>1. /\ Acquiring /\ kept' = kept \cup {Sought} /\ Handed(Sought)
      /\ UNCHANGED <<residentBytes, memory, stream, faults>>
  BY DEF AcquireHit
<1>2. PICK i \in DOMAIN lru : lru[i] = Sought /\ lru' = Append(RemoveAt(lru, i), Sought)
  BY DEF AcquireHit
<1>3. Sought \in Weights
  BY <1>1, SoughtIs
<1>4. lru \in Seq(Weights) /\ IsInjective(lru) /\ i \in 1..Len(lru) /\ Sought \in Range(lru)
  BY <1>2 DEF BackendTypes, TableExact, Range
<1> DEFINE r == RemoveAt(lru, i)
<1>5. r \in Seq(Weights) /\ IsInjective(r) /\ Range(r) = Range(lru) \ {Sought}
  BY <1>2, <1>4, EntryGoes
<1> HIDE DEF r
<1>6. /\ Append(r, Sought) \in Seq(Weights) /\ IsInjective(Append(r, Sought))
      /\ Range(Append(r, Sought)) = Range(r) \cup {Sought}
  BY <1>3, <1>5, EntryComes
<1>7. lru' \in Seq(Weights) /\ IsInjective(lru') /\ Range(lru') = Range(lru)
  BY <1>2, <1>4, <1>5, <1>6 DEF r
<1>8. /\ AgendaFollows' /\ HandlesHold'
      /\ agenda' \in Seq([kind : Kinds, weights : Seq(Weights)])
      /\ handles' \in Seq(Weights \cup {"scratch"}) /\ launched' \in Nat
      /\ UNCHANGED <<setup, pinned, transfer, uploading>>
  BY <1>1, <1>4, <1>7, HandedHolds
<1>9. StreamFollows' /\ TransferHolds'
  BY <1>1, <1>7, <1>8, DeviceRests DEF deviceVars
<1>10. TableExact'
  BY <1>1, <1>7 DEF TableExact
<1>11. BackendTypes'
  BY <1>1, <1>3, <1>7, <1>8 DEF BackendTypes
<1> QED
  BY <1>8, <1>9, <1>10, <1>11

LEMMA AcquireBypassKeeps == DeviceInv /\ AcquireBypass => DeviceInv'
<1> SUFFICES ASSUME DeviceInv, AcquireBypass PROVE DeviceInv'
  OBVIOUS
<1> USE DEF DeviceInv
<1>1. /\ Acquiring /\ Handed("scratch")
      /\ UNCHANGED <<tableVars, memory, stream, faults>>
  BY DEF AcquireBypass, Missed
<1>2. /\ AgendaFollows' /\ HandlesHold'
      /\ agenda' \in Seq([kind : Kinds, weights : Seq(Weights)])
      /\ handles' \in Seq(Weights \cup {"scratch"}) /\ launched' \in Nat
      /\ UNCHANGED <<setup, pinned, transfer, uploading>>
  BY <1>1, HandedHolds DEF tableVars
<1>3. StreamFollows' /\ TransferHolds'
  BY <1>1, <1>2, DeviceRests DEF deviceVars, tableVars
<1>4. TableExact'
  BY <1>1 DEF TableExact, tableVars
<1>5. BackendTypes'
  BY <1>1, <1>2 DEF BackendTypes, tableVars
<1> QED
  BY <1>2, <1>3, <1>4, <1>5

LEMMA AcquireAdmitKeeps == DeviceInv /\ AcquireAdmit => DeviceInv'
<1> SUFFICES ASSUME DeviceInv, AcquireAdmit PROVE DeviceInv'
  OBVIOUS
<1> USE DEF DeviceInv
<1> DEFINE w == Sought
<1>1. /\ Acquiring /\ w \notin Range(lru) /\ residentBytes + WeightBytes[w] <= Room
      /\ lru' = Append(lru, w) /\ residentBytes' = residentBytes + WeightBytes[w]
      /\ kept' = kept \cup {w} /\ memory' = [memory EXCEPT ![w] = Nothing]
      /\ stream' = Append(stream, CopyTo(w, w)) /\ Handed(w)
  BY DEF AcquireAdmit, Missed, HasRoom
<1>2. w \in Weights
  BY <1>1, SoughtIs
<1>3. lru \in Seq(Weights) /\ IsInjective(lru) /\ Range(lru) \in SUBSET Weights
  BY DEF BackendTypes, TableExact, Range
<1>a. w \in {"scratch", Sought} /\ Handed(w)
  BY <1>1
<1> HIDE DEF w
<1>4. lru' \in Seq(Weights) /\ IsInjective(lru') /\ Range(lru') = Range(lru) \cup {w}
  BY <1>1, <1>2, <1>3, EntryComes
<1>5. /\ AgendaFollows' /\ HandlesHold'
      /\ agenda' \in Seq([kind : Kinds, weights : Seq(Weights)])
      /\ handles' \in Seq(Weights \cup {"scratch"}) /\ launched' \in Nat
      /\ UNCHANGED <<setup, pinned, transfer, uploading>>
  BY <1>1, <1>4, <1>a, HandedHolds DEF w
<1>6. /\ WeightBytes[w] \in Nat \ {0} /\ Table!Charged(Range(lru)) \in Nat
      /\ Table!Charged(Range(lru) \cup {w}) = Table!Charged(Range(lru)) + WeightBytes[w]
  BY <1>1, <1>2, <1>3, ChargesChange
<1>7. TableExact'
  BY <1>1, <1>4, <1>6 DEF TableExact
<1>8. /\ w \in Locations /\ w # "buffer" /\ w # "scratch"
      /\ memory \in [Locations -> Weights \cup {Nothing} \cup SUBSET Experts]
  BY <1>2, DeviceAssumption DEF BackendTypes, Locations
<1>9. /\ memory' \in [Locations -> Weights \cup {Nothing} \cup SUBSET Experts]
      /\ memory'["buffer"] = memory["buffer"] /\ memory'["scratch"] = memory["scratch"]
      /\ \A v \in Weights : v # w => memory'[v] = memory[v]
      /\ memory'[w] = Nothing
  BY <1>1, <1>8 DEF Locations
<1>10. Follows(stream, memory, Range(lru), Granted, uploading)
  BY DEF StreamFollows
<1>11. /\ stream \in Seq(Command) /\ Len(stream) \in Nat
       /\ \A i \in 1..Len(stream) : Enqueued(stream, memory, Range(lru), Granted, uploading, i)
       /\ \A v \in Range(lru) : Written(stream, memory, v, Len(stream) + 1)
       /\ \A v \in Weights \ Range(lru) : memory[v] = Nothing
  BY <1>10 DEF Follows
<1>12. CopyTo(w, w) \in Command
  BY <1>2, <1>8 DEF CopyTo, Command
<1>13. /\ stream' \in Seq(Command) /\ Len(stream') = Len(stream) + 1
       /\ stream'[Len(stream) + 1] = CopyTo(w, w)
       /\ \A i \in 1..Len(stream) : stream'[i] = stream[i]
  BY <1>1, <1>11, <1>12
<1>14. ASSUME NEW v \in Range(lru), NEW i \in 1..(Len(stream) + 1),
              Written(stream, memory, v, i)
       PROVE  Written(stream', memory', v, i)
  <2>1. v # w /\ memory'[v] = memory[v]
    BY <1>1, <1>3, <1>9
  <2>2. \A j \in 1..(i - 1) : stream'[j] = stream[j]
    BY <1>11, <1>13
  <2> QED
    BY <1>14, <2>1, <2>2 DEF Written
<1>15. ASSUME NEW i \in 1..Len(stream)
       PROVE  Enqueued(stream', memory', Range(lru'), Granted, uploading, i)
  <2>1. /\ Enqueued(stream, memory, Range(lru), Granted, uploading, i)
        /\ stream'[i] = stream[i] /\ i \in 1..(Len(stream) + 1)
        /\ i # 1 => i - 1 \in 1..Len(stream) /\ stream'[i - 1] = stream[i - 1]
    BY <1>11, <1>13
  <2>2. CASE IsCopy(stream[i], Range(lru))
    BY <1>4, <2>1, <2>2 DEF Enqueued, IsCopy
  <2>3. CASE KernelFinds(stream, memory, Range(lru), Granted, uploading, i)
    <3>1. \A v \in Range(lru) : Written(stream, memory, v, i) => Written(stream', memory', v, i)
      BY <1>14, <2>1
    <3>2. Arrived(stream, uploading, i) => Arrived(stream', uploading, i)
      <4>1. \A j \in 1..(i - 1) : stream'[j] = stream[j]
        BY <1>11, <1>13
      <4> QED
        BY <4>1 DEF Arrived
    <3>3. KernelFinds(stream', memory', Range(lru'), Granted, uploading, i)
      BY <1>4, <1>9, <2>1, <2>3, <3>1, <3>2 DEF KernelFinds
    <3> QED
      BY <3>3 DEF Enqueued
  <2>4. CASE stream[i] = WaitForTransfer
    BY <2>1, <2>4 DEF Enqueued
  <2> QED
    BY <2>1, <2>2, <2>3, <2>4 DEF Enqueued
<1>16. Enqueued(stream', memory', Range(lru'), Granted, uploading, Len(stream) + 1)
  BY <1>2, <1>4, <1>13 DEF Enqueued, IsCopy, CopyTo
<1>17. \A v \in Range(lru') : Written(stream', memory', v, Len(stream') + 1)
  <2> TAKE v \in Range(lru')
  <2>1. CASE v = w
    BY <1>11, <1>13, <2>1 DEF Written
  <2>2. CASE v \in Range(lru)
    <3>1. Written(stream', memory', v, Len(stream) + 1)
      BY <1>11, <1>14, <2>2
    <3> QED
      BY <1>11, <1>13, <3>1 DEF Written
  <2> QED
    BY <1>4, <2>1, <2>2
<1>18. \A v \in Weights \ Range(lru') : memory'[v] = Nothing
  BY <1>4, <1>9, <1>11
<1>19. \A i \in 1..Len(stream') : Enqueued(stream', memory', Range(lru'), Granted, uploading, i)
  <2>1. \A i \in 1..Len(stream') : i \in 1..Len(stream) \/ i = Len(stream) + 1
    BY <1>11, <1>13
  <2> QED
    BY <1>15, <1>16, <2>1
<1>20. StreamFollows'
  BY <1>5, <1>13, <1>17, <1>18, <1>19 DEF StreamFollows, Follows, Granted
<1>21. TransferHolds'
  <2>1. Arrived(stream, uploading, Len(stream) + 1)
          => Arrived(stream', uploading, Len(stream') + 1)
    BY <1>1, <1>11, <1>12, ArrivedOn
  <2> QED
    BY <1>5, <1>9, <2>1 DEF TransferHolds
<1>22. BackendTypes'
  BY <1>1, <1>2, <1>4, <1>5, <1>9 DEF BackendTypes
<1> QED
  BY <1>5, <1>7, <1>20, <1>21, <1>22

\* A failed operation that left the device, the transfer and the table alone.
LEMMA FailureKeeps ==
  ASSUME DeviceInv, setup' = setup, kept' = kept, lru' = lru, residentBytes' = residentBytes,
         UNCHANGED <<deviceVars, pinned, transfer>>,
         agenda' = << >>, handles' = << >>, launched' = 0
  PROVE  DeviceInv'
<1> USE DEF DeviceInv
<1>1. /\ AgendaFollows' /\ HandlesHold'
      /\ agenda' \in Seq([kind : Kinds, weights : Seq(Weights)])
      /\ handles' \in Seq(Weights \cup {"scratch"}) /\ launched' \in Nat
  BY LayerOver
<1>2. StreamFollows' /\ TransferHolds'
  BY DeviceRests
<1>3. TableExact'
  BY DEF TableExact
<1>4. BackendTypes'
  BY <1>1 DEF BackendTypes, deviceVars
<1> QED
  BY <1>1, <1>2, <1>3, <1>4

LEMMA AcquireFailsKeeps == DeviceInv /\ AcquireFails => DeviceInv'
BY FailureKeeps DEF AcquireFails, Fails, tableVars

LEMMA FallBackKeeps == DeviceInv /\ FallBack => DeviceInv'
<1> SUFFICES ASSUME DeviceInv, FallBack PROVE DeviceInv'
  OBVIOUS
<1> USE DEF DeviceInv
<1>1. /\ Doing({"grid", "layer"}) /\ agenda # << >>
      /\ agenda' = Instead \o Tail(agenda) /\ handles' = << >>
      /\ UNCHANGED <<setup, tableVars, deviceVars, pinned, transfer, launched, faults>>
  BY DEF FallBack, FallsBack, Doing
<1>2. setup # "prefetch"
  BY <1>1, HeadBelongs DEF Doing
<1>3. /\ Asked \in Seq(Weights) /\ Len(Asked) \in Nat /\ Tail(agenda) \in Seq(Operations)
  BY <1>1, AskedType
<1>4. \A i \in 1..Len(Tail(agenda)) : Tail(agenda)[i].kind \in TableKinds
  <2>1. /\ agenda \in Seq(Operations) /\ Len(agenda) \in Nat \ {0}
        /\ Len(Tail(agenda)) = Len(agenda) - 1
        /\ \A i \in 1..Len(Tail(agenda)) :
             Tail(agenda)[i] = agenda[i + 1] /\ i + 1 \in 1..Len(agenda)
    BY <1>1 DEF BackendTypes, Operations
  <2> QED
    BY <1>2, <2>1 DEF AgendaFollows
<1>o. /\ \A kind \in Kinds, ws \in Seq(Weights) : Operation(kind, ws) \in Operations
      /\ MatvecOf(Down) \in Operations /\ MatvecOf(Up) \in Operations
  BY DEF Operation, MatvecOf, Operations, Kinds, Weights
<1>5. Instead \in Seq(Operations) /\ \A i \in 1..Len(Instead) : Instead[i].kind \in TableKinds
  <2>1. CASE Doing({"grid"})
    <3>1. Operation("group", Asked) \in Operations
      BY <1>3, <1>o DEF Kinds
    <3>2. Instead = <<Operation("group", Asked)>>
      BY <2>1 DEF Instead
    <3>3. \A i \in 1..Len(Instead) : Instead[i].kind \in TableKinds
      BY <3>2 DEF Operation, TableKinds
    <3> QED
      BY <3>1, <3>2, <3>3
  <2>2. CASE ~Doing({"grid"})
    <3> DEFINE rest == SubSeq(Asked, 3, Len(Asked))
    <3>1. rest \in Seq(Weights)
      BY <1>3, SubSeqProperties
    <3> HIDE DEF rest
    <3>2. Operation("grid", rest) \in Operations
      BY <1>o, <3>1 DEF Kinds
    <3>3. Instead = <<MatvecOf(Down), Operation("grid", rest), MatvecOf(Up)>>
      BY <2>2 DEF Instead, rest
    <3>4. \A i \in 1..Len(Instead) : Instead[i].kind \in TableKinds
      BY <3>3 DEF Operation, MatvecOf, TableKinds
    <3> QED
      BY <1>o, <3>2, <3>3, <3>4
  <2> QED
    BY <2>1, <2>2
<1> DEFINE o == Instead \o Tail(agenda)
<1>6. /\ o \in Seq(Operations) /\ Len(o) = Len(Instead) + Len(Tail(agenda))
      /\ \A i \in 1..Len(Instead) + Len(Tail(agenda)) :
           o[i] = IF i <= Len(Instead) THEN Instead[i] ELSE Tail(agenda)[i - Len(Instead)]
  BY <1>3, <1>5, ConcatProperties
<1>7. Len(Instead) \in Nat /\ Len(Tail(agenda)) \in Nat
  BY <1>3, <1>5
<1> HIDE DEF o
<1>8. \A i \in 1..Len(o) : o[i].kind \in TableKinds
  <2> TAKE i \in 1..Len(o)
  <2>1. CASE i <= Len(Instead)
    BY <1>5, <1>6, <1>7, <2>1
  <2>2. CASE ~(i <= Len(Instead))
    <3>1. i - Len(Instead) \in 1..Len(Tail(agenda))
      BY <1>6, <1>7, <2>2
    <3> QED
      BY <1>4, <1>6, <2>2, <3>1
  <2> QED
    BY <2>1, <2>2
<1>9. agenda' = o
  BY <1>1 DEF o
<1>10. AgendaFollows'
  BY <1>1, <1>2, <1>8, <1>9 DEF AgendaFollows
<1>11. HandlesHold'
  BY <1>1 DEF HandlesHold
<1>12. StreamFollows' /\ TransferHolds'
  BY <1>1, DeviceRests DEF tableVars
<1>13. TableExact'
  BY <1>1 DEF TableExact, tableVars
<1>14. handles' \in Seq(Weights \cup {"scratch"})
  BY <1>1
<1>15. BackendTypes'
  BY <1>1, <1>6, <1>9, <1>14 DEF BackendTypes, tableVars, deviceVars, Operations
<1> QED
  BY <1>10, <1>11, <1>12, <1>13, <1>15

\* What is prepared at the head is what the transfer holds.
LEMMA PreparedIsPending ==
  ASSUME DeviceInv, Doing({"prepared"})
  PROVE  /\ setup = "prefetch" /\ transfer # NoTransfer
         /\ pinned = transfer.of /\ pinned = Range(Asked)
<1> USE DEF DeviceInv
<1>1. agenda # << >> /\ Head(agenda).kind = "prepared" /\ setup = "prefetch"
  BY HeadBelongs DEF Doing
<1>2. PICK picked \in Routings :
        Head(agenda) = Operation("prepared", picked) /\ Prepares(picked)
  BY <1>1, PrefetchAgenda DEF Operation, MatvecOf
<1>3. Asked = picked
  BY <1>2 DEF Asked, Operation
<1> QED
  BY <1>1, <1>2, <1>3 DEF Prepares, TransferHolds

\* The wait in the stream; the agenda stays.
LEMMA WaitFollows ==
  ASSUME DeviceInv
  PROVE  /\ WaitForTransfer \in Command /\ stream \in Seq(Command)
         /\ Follows(Append(stream, WaitForTransfer), memory, Range(lru), Granted, uploading)
         /\ Arrived(Append(stream, WaitForTransfer), uploading,
                    Len(Append(stream, WaitForTransfer)) + 1)
<1> USE DEF DeviceInv
<1>1. WaitForTransfer \in Command
  BY DEF WaitForTransfer, Command, Locations
<1>2. Follows(stream, memory, Range(lru), Granted, uploading) /\ Range(lru) \in SUBSET Weights
  BY DEF StreamFollows, BackendTypes, Range
<1>3. stream \in Seq(Command)
  BY <1>2 DEF Follows
<1>4. Follows(Append(stream, WaitForTransfer), memory, Range(lru), Granted, uploading)
  BY <1>1, <1>2, AppendFollows
<1> QED
  BY <1>1, <1>3, <1>4, ArrivedOn

\* More may be granted than is used.
LEMMA GrantMore ==
  ASSUME NEW s, NEW mem, NEW table, NEW granted, NEW more, NEW coming,
         Follows(s, mem, table, granted, coming), granted \subseteq more
  PROVE  Follows(s, mem, table, more, coming)
<1>1. \A i \in 1..Len(s) : KernelFinds(s, mem, table, granted, coming, i)
                             => KernelFinds(s, mem, table, more, coming, i)
  BY DEF KernelFinds
<1> QED
  BY <1>1 DEF Follows, Enqueued

LEMMA ConsumeKeeps == DeviceInv /\ Consume => DeviceInv'
<1> SUFFICES ASSUME DeviceInv, Consume PROVE DeviceInv'
  OBVIOUS
<1> USE DEF DeviceInv
<1>1. /\ Doing({"prepared"}) /\ ~transfer.consumed
      /\ stream' = Append(stream, WaitForTransfer)
      /\ transfer' = [transfer EXCEPT !.consumed = TRUE]
      /\ UNCHANGED <<setup, tableVars, memory, uploading, pinned, hostVars, faults>>
  BY DEF Consume, Consumable
<1>2. /\ transfer' \in [of : SUBSET Experts, consumed : BOOLEAN]
      /\ transfer'.of = transfer.of /\ transfer'.consumed /\ transfer' # NoTransfer
  BY <1>1 DEF BackendTypes, NoTransfer
<1>3. transfer # NoTransfer
  BY <1>1, PreparedIsPending
<1>4. /\ Follows(stream', memory, Range(lru), Granted, uploading)
      /\ Arrived(stream', uploading, Len(stream') + 1)
  BY <1>1, WaitFollows
<1>5. Granted \subseteq {pinned}
  BY DEF Granted
<1>6. Follows(stream', memory, Range(lru), {pinned}, uploading)
  BY <1>4, <1>5, GrantMore
<1>7. StreamFollows'
  BY <1>1, <1>2, <1>6 DEF StreamFollows, Granted, tableVars
<1>8. TransferHolds'
  BY <1>1, <1>2, <1>3, <1>4 DEF TransferHolds
<1>9. AgendaFollows' /\ HandlesHold'
  BY <1>1, <1>2, <1>3 DEF AgendaFollows, HandlesHold, PrefetchFollows, Prepares, hostVars,
                          tableVars, Asked
<1>10. TableExact' /\ BackendTypes'
  BY <1>1, <1>2 DEF TableExact, BackendTypes, tableVars, hostVars
<1> QED
  BY <1>7, <1>8, <1>9, <1>10

\* A failed operation that has enqueued something which the stream can take.
LEMMA PartlyEnqueued ==
  ASSUME DeviceInv, Fails,
         Follows(stream', memory, Range(lru), Granted, uploading),
         transfer.consumed => Arrived(stream', uploading, Len(stream') + 1),
         UNCHANGED <<setup, tableVars, memory, uploading, pinned, transfer>>
  PROVE  DeviceInv'
<1> USE DEF DeviceInv
<1>1. /\ AgendaFollows' /\ HandlesHold'
      /\ agenda' \in Seq([kind : Kinds, weights : Seq(Weights)])
      /\ handles' \in Seq(Weights \cup {"scratch"}) /\ launched' \in Nat
  BY LayerOver DEF Fails
<1>2. StreamFollows'
  BY DEF StreamFollows, Granted, tableVars
<1>3. TransferHolds'
  BY DEF TransferHolds
<1>4. TableExact' /\ BackendTypes'
  BY <1>1 DEF TableExact, BackendTypes, tableVars
<1> QED
  BY <1>1, <1>2, <1>3, <1>4

LEMMA ConsumeFailsKeeps == DeviceInv /\ ConsumeFails => DeviceInv'
<1> SUFFICES ASSUME DeviceInv, ConsumeFails PROVE DeviceInv'
  OBVIOUS
<1>1. /\ stream' = stream \/ stream' = Append(stream, WaitForTransfer)
      /\ Fails /\ UNCHANGED <<setup, tableVars, memory, uploading, pinned, transfer>>
  BY DEF ConsumeFails
<1>2. CASE stream' = stream
  BY <1>1, <1>2, PartlyEnqueued DEF DeviceInv, StreamFollows, TransferHolds
<1>3. CASE stream' = Append(stream, WaitForTransfer)
  BY <1>1, <1>3, WaitFollows, PartlyEnqueued
<1> QED
  BY <1>1, <1>2, <1>3

\* What launching enqueues can follow, all of it and the copy alone.
LEMMA LaunchFollows ==
  ASSUME DeviceInv, Launching, launched < Len(Asked)
  PROVE  /\ Follows(stream \o Copied, memory, Range(lru), Granted, uploading)
         /\ Follows(Append(stream \o Copied, Kernel), memory, Range(lru), Granted, uploading)
         /\ transfer.consumed =>
              /\ Arrived(stream \o Copied, uploading, Len(stream \o Copied) + 1)
              /\ Arrived(Append(stream \o Copied, Kernel), uploading,
                         Len(Append(stream \o Copied, Kernel)) + 1)
<1> USE DEF DeviceInv
<1>1. agenda # << >>
  BY DEF Launching, Doing
<1>2. /\ Asked \in Seq(Weights) /\ Len(Asked) \in Nat /\ launched \in Nat
      /\ launched + 1 \in 1..Len(Asked) /\ Weight \in Weights
  BY <1>1, AskedType DEF Weight, BackendTypes
<1>3. /\ Follows(stream, memory, Range(lru), Granted, uploading) /\ stream \in Seq(Command)
      /\ Range(lru) \in SUBSET Weights
      /\ transfer.consumed => Arrived(stream, uploading, Len(stream) + 1)
  <2>1. Follows(stream, memory, Range(lru), Granted, uploading)
    BY DEF StreamFollows
  <2>2. stream \in Seq(Command)
    BY <2>1 DEF Follows
  <2>3. Range(lru) \in SUBSET Weights
    BY DEF BackendTypes, Range
  <2> QED
    BY <2>1, <2>2, <2>3 DEF TransferHolds
<1>4. ASSUME Copied = << >>, Kernel \in Command,
             Follows(Append(stream, Kernel), memory, Range(lru), Granted, uploading)
      PROVE  /\ Follows(stream \o Copied, memory, Range(lru), Granted, uploading)
             /\ Follows(Append(stream \o Copied, Kernel), memory, Range(lru), Granted, uploading)
             /\ transfer.consumed =>
                  /\ Arrived(stream \o Copied, uploading, Len(stream \o Copied) + 1)
                  /\ Arrived(Append(stream \o Copied, Kernel), uploading,
                             Len(Append(stream \o Copied, Kernel)) + 1)
  <2>1. stream \o Copied = stream
    BY <1>3, <1>4, ConcatEmptySeq
  <2> QED
    BY <1>3, <1>4, <2>1, ArrivedOn
<1>5. CASE Doing({"prepared"})
  <2>1. setup = "prefetch" /\ transfer # NoTransfer /\ pinned = Range(Asked)
    BY <1>5, PreparedIsPending
  <2>2. transfer.consumed
    BY <1>5 DEF Launching, Doing
  <2>3. Place = "buffer" /\ Copied = << >> /\ Kernel = KernelAt("buffer", pinned)
    BY <1>5, <2>1 DEF Place, Copied, Kernel
  <2>4. pinned \in SUBSET Experts /\ pinned \in Granted
    BY <2>2 DEF BackendTypes, Granted
  <2>5. /\ KernelAt("buffer", pinned) \in Command
        /\ Follows(Append(stream, KernelAt("buffer", pinned)), memory, Range(lru), Granted, uploading)
    BY <1>3, <2>2, <2>4, KernelAtBuffer
  <2> QED
    BY <1>4, <2>3, <2>5
<1>6. CASE ~Doing({"prepared"})
  <2>1. Place = Places[launched + 1] /\ DOMAIN Places = DOMAIN Asked /\ launched + 1 \in DOMAIN Asked
    BY <1>2, <1>6 DEF Place, Launching
  <2>2. CASE Place = "scratch"
    <3> DEFINE copy == CopyTo("scratch", Weight)
    <3>1. Copied = <<copy>> /\ Kernel = KernelAt("scratch", Weight)
      BY <2>2 DEF Copied, Kernel
    <3>2. /\ copy \in Command /\ KernelAt("scratch", Weight) \in Command
          /\ Follows(Append(stream, copy), memory, Range(lru), Granted, uploading)
          /\ Follows(Append(Append(stream, copy), KernelAt("scratch", Weight)), memory,
                     Range(lru), Granted, uploading)
      BY <1>2, <1>3, CopyThenKernel
    <3> HIDE DEF copy
    <3>3. stream \o Copied = Append(stream, copy) /\ Append(stream, copy) \in Seq(Command)
      BY <1>3, <3>1, <3>2, AppendIsConcat
    <3>4. transfer.consumed =>
            Arrived(Append(stream, copy), uploading, Len(Append(stream, copy)) + 1)
      BY <1>3, <3>2, ArrivedOn
    <3> DEFINE u == Append(stream, copy)
    <3>5. transfer.consumed =>
            Arrived(Append(u, Kernel), uploading, Len(Append(u, Kernel)) + 1)
      <4> HIDE DEF u
      <4> QED
        BY <3>1, <3>2, <3>3, <3>4, ArrivedOn DEF u
    <3> QED
      BY <3>1, <3>2, <3>3, <3>4, <3>5
  <2>3. CASE Place # "scratch"
    <3>1. setup # "prefetch"
      BY <2>1, <2>3 DEF Places
    <3>2. Place = handles[launched + 1] /\ launched + 1 \in 1..Len(handles)
      BY <1>2, <2>1, <3>1 DEF Places, BackendTypes
    <3>3. Place = Weight /\ Place \in Range(lru)
      BY <2>3, <3>2 DEF HandlesHold, Weight
    <3>4. Place # "buffer"
      BY <1>2, <3>3, DeviceAssumption
    <3>5. Copied = << >> /\ Kernel = KernelAt(Weight, Weight)
      BY <2>3, <3>3, <3>4 DEF Copied, Kernel
    <3>6. /\ KernelAt(Weight, Weight) \in Command
          /\ Follows(Append(stream, KernelAt(Weight, Weight)), memory, Range(lru), Granted, uploading)
      BY <1>3, <3>3, KernelAtEntry
    <3> QED
      BY <1>4, <3>5, <3>6
  <2> QED
    BY <2>2, <2>3
<1> QED
  BY <1>5, <1>6

LEMMA LaunchKeeps == DeviceInv /\ Launch => DeviceInv'
<1> SUFFICES ASSUME DeviceInv, Launch PROVE DeviceInv'
  OBVIOUS
<1> USE DEF DeviceInv
<1>1. /\ Launching /\ launched < Len(Asked)
      /\ stream' = Append(stream \o Copied, Kernel) /\ launched' = launched + 1
      /\ UNCHANGED <<setup, tableVars, memory, uploading, pinned, transfer, agenda, handles, faults>>
  BY DEF Launch
<1>2. /\ Follows(stream', memory, Range(lru), Granted, uploading)
      /\ transfer.consumed => Arrived(stream', uploading, Len(stream') + 1)
  BY <1>1, LaunchFollows
<1>3. StreamFollows'
  BY <1>1, <1>2 DEF StreamFollows, Granted, tableVars
<1>4. TransferHolds'
  BY <1>1, <1>2 DEF TransferHolds
<1>5. AgendaFollows' /\ HandlesHold'
  BY <1>1 DEF AgendaFollows, HandlesHold, PrefetchFollows, Prepares, tableVars, Asked
<1>6. TableExact' /\ BackendTypes'
  BY <1>1 DEF TableExact, BackendTypes, tableVars
<1> QED
  BY <1>3, <1>4, <1>5, <1>6

LEMMA LaunchFailsKeeps == DeviceInv /\ LaunchFails => DeviceInv'
<1> SUFFICES ASSUME DeviceInv, LaunchFails PROVE DeviceInv'
  OBVIOUS
<1>1. /\ Launching /\ launched < Len(Asked)
      /\ stream' = stream \/ stream' = stream \o Copied
      /\ Fails /\ UNCHANGED <<setup, tableVars, memory, uploading, pinned, transfer>>
  BY DEF LaunchFails
<1>2. CASE stream' = stream
  BY <1>1, <1>2, PartlyEnqueued DEF DeviceInv, StreamFollows, TransferHolds
<1>3. CASE stream' = stream \o Copied
  BY <1>1, <1>3, LaunchFollows, PartlyEnqueued
<1> QED
  BY <1>1, <1>2, <1>3

\* With nothing in the stream and no copy coming, a transfer can be completed.
LEMMA CompleteKeeps ==
  ASSUME DeviceInv, Doing({"prepared"}), transfer.consumed, stream = << >>,
         transfer' = NoTransfer, UNCHANGED <<setup, tableVars, deviceVars, pinned>>
  PROVE  StreamFollows' /\ TransferHolds'
<1> USE DEF DeviceInv
<1>1. Len(stream) = 0 /\ stream' = << >> /\ Len(stream') = 0
  BY DEF deviceVars
<1>2. ~uploading
  BY <1>1 DEF TransferHolds, Arrived
<1>3. TransferHolds'
  BY <1>2 DEF TransferHolds, NoTransfer, deviceVars
<1>4. Follows(stream, memory, Range(lru), Granted', uploading)
  BY <1>1 DEF StreamFollows, Follows
<1> QED
  BY <1>3, <1>4 DEF StreamFollows, deviceVars, tableVars

LEMMA SynchronizeKeeps == DeviceInv /\ Synchronize => DeviceInv'
<1> SUFFICES ASSUME DeviceInv, Synchronize PROVE DeviceInv'
  OBVIOUS
<1> USE DEF DeviceInv
<1>1. /\ Launching /\ stream = << >> /\ Done /\ agenda # << >>
      /\ transfer' = IF Doing({"prepared"}) THEN NoTransfer ELSE transfer
      /\ UNCHANGED <<setup, tableVars, deviceVars, pinned, faults>>
  BY DEF Synchronize, Launching, Doing
<1>2. Doing({"prepared"}) => transfer.consumed
  BY <1>1 DEF Launching, Doing
<1>3. ~Doing({"prefetch"})
  BY <1>1 DEF Launching, Doing
<1>4. /\ AgendaFollows' /\ HandlesHold'
      /\ agenda' \in Seq([kind : Kinds, weights : Seq(Weights)])
      /\ handles' \in Seq(Weights \cup {"scratch"}) /\ launched' \in Nat
  BY <1>1, <1>3, OperationOver
<1>5. StreamFollows' /\ TransferHolds'
  <2>1. CASE Doing({"prepared"})
    BY <1>1, <1>2, <2>1, CompleteKeeps
  <2>2. CASE ~Doing({"prepared"})
    BY <1>1, <2>2, DeviceRests DEF tableVars
  <2> QED
    BY <2>1, <2>2
<1>6. transfer' \in [of : SUBSET Experts, consumed : BOOLEAN]
  BY <1>1 DEF BackendTypes, NoTransfer
<1>7. TableExact' /\ BackendTypes'
  BY <1>1, <1>4, <1>6 DEF TableExact, BackendTypes, tableVars, deviceVars
<1> QED
  BY <1>4, <1>5, <1>7

LEMMA SynchronizeFailsKeeps == DeviceInv /\ SynchronizeFails => DeviceInv'
<1> SUFFICES ASSUME DeviceInv, SynchronizeFails PROVE DeviceInv'
  OBVIOUS
<1> USE DEF DeviceInv
<1>1. /\ Launching /\ Fails /\ UNCHANGED <<setup, tableVars, deviceVars, pinned>>
      /\ \/ UNCHANGED transfer
         \/ Doing({"prepared"}) /\ stream = << >> /\ transfer' = NoTransfer
  BY DEF SynchronizeFails
<1>2. CASE UNCHANGED transfer
  BY <1>1, <1>2, FailureKeeps DEF Fails, tableVars
<1>3. CASE Doing({"prepared"}) /\ stream = << >> /\ transfer' = NoTransfer
  <2>1. transfer.consumed
    BY <1>1, <1>3 DEF Launching, Doing
  <2>2. StreamFollows' /\ TransferHolds'
    BY <1>1, <1>3, <2>1, CompleteKeeps
  <2>3. /\ AgendaFollows' /\ HandlesHold'
        /\ agenda' \in Seq([kind : Kinds, weights : Seq(Weights)])
        /\ handles' \in Seq(Weights \cup {"scratch"}) /\ launched' \in Nat
    BY <1>1, LayerOver DEF Fails
  <2>4. transfer' \in [of : SUBSET Experts, consumed : BOOLEAN]
    BY <1>3 DEF NoTransfer
  <2>5. TableExact' /\ BackendTypes'
    BY <1>1, <2>3, <2>4 DEF TableExact, BackendTypes, tableVars, deviceVars
  <2> QED
    BY <2>2, <2>3, <2>5
<1> QED
  BY <1>1, <1>2, <1>3

\* With no transfer pending nothing is granted, so the buffer is free.
LEMMA NothingGranted ==
  ASSUME DeviceInv, transfer = NoTransfer, NEW mem, NEW coming, NEW granted,
         \A l \in Weights \cup {"scratch"} : mem[l] = memory[l]
  PROVE  Follows(stream, mem, Range(lru), granted, coming)
<1> USE DEF DeviceInv
<1>1. Granted = {}
  BY DEF Granted, NoTransfer
<1>2. Follows(stream, memory, Range(lru), {}, uploading) /\ Range(lru) \in SUBSET Weights
  BY <1>1 DEF StreamFollows, BackendTypes, Range
<1>3. \A w \in Weights, i \in 1..(Len(stream) + 1) :
        Written(stream, memory, w, i) => Written(stream, mem, w, i)
  BY DEF Written
<1>4. Len(stream) \in Nat
  BY <1>2 DEF Follows
<1>5. \A i \in 1..Len(stream) :
        KernelFinds(stream, memory, Range(lru), {}, uploading, i)
          => KernelFinds(stream, mem, Range(lru), granted, coming, i)
  BY <1>2, <1>3, <1>4 DEF KernelFinds
<1>6. \A w \in Range(lru) : Written(stream, mem, w, Len(stream) + 1)
  BY <1>2, <1>3, <1>4 DEF Follows
<1> QED
  BY <1>2, <1>5, <1>6 DEF Follows, Enqueued

LEMMA PrefetchKeeps == DeviceInv /\ Prefetch => DeviceInv'
<1> SUFFICES ASSUME DeviceInv, Prefetch PROVE DeviceInv'
  OBVIOUS
<1> USE DEF DeviceInv
<1>1. /\ Doing({"prefetch"}) /\ transfer = NoTransfer /\ agenda # << >> /\ Done
      /\ pinned' = Range(Asked) /\ uploading' = TRUE
      /\ transfer' = [of |-> Range(Asked), consumed |-> FALSE]
      /\ UNCHANGED <<setup, tableVars, memory, stream, faults>>
  BY DEF Prefetch, PrefetchAllowed, Doing
<1>2. PICK picked \in Routings : Head(agenda) = Operation("prefetch", picked)
  <2>1. setup = "prefetch"
    BY <1>1, HeadBelongs DEF Doing
  <2> QED
    BY <1>1, <2>1, PrefetchAgenda DEF Doing, Operation, MatvecOf
<1>3. Asked = picked /\ Range(Asked) \in SUBSET Experts /\ picked \in Seq(Experts)
  BY <1>2, RoutingsAre DEF Asked, Operation
<1>4. transfer' # NoTransfer /\ transfer'.of = Range(Asked) /\ ~transfer'.consumed
  <2>1. Range(picked) # {}
    <3>1. PICK n \in 1..TopExperts : picked \in [1..n -> Experts]
      BY DEF Routings
    <3>2. 1 \in DOMAIN picked
      BY <3>1, DeviceAssumption
    <3> QED
      BY <3>2 DEF Range
  <2> QED
    BY <1>1, <1>3, <2>1 DEF NoTransfer
<1>5. /\ AgendaFollows' /\ HandlesHold'
      /\ agenda' \in Seq([kind : Kinds, weights : Seq(Weights)])
      /\ handles' \in Seq(Weights \cup {"scratch"}) /\ launched' \in Nat
  BY <1>1, <1>4, OperationOver
<1>6. Follows(stream, memory, Range(lru), Granted', TRUE)
  BY <1>1, NothingGranted
<1>7. StreamFollows'
  BY <1>1, <1>6 DEF StreamFollows, tableVars
<1>8. TransferHolds'
  BY <1>1, <1>4 DEF TransferHolds
<1>9. TableExact' /\ BackendTypes'
  BY <1>1, <1>3, <1>5 DEF TableExact, BackendTypes, tableVars
<1> QED
  BY <1>5, <1>7, <1>8, <1>9

LEMMA PrefetchFailsKeeps == DeviceInv /\ PrefetchFails => DeviceInv'
<1> SUFFICES ASSUME DeviceInv, PrefetchFails PROVE DeviceInv'
  OBVIOUS
<1> USE DEF DeviceInv
<1>1. /\ Doing({"prefetch"}) /\ transfer = NoTransfer /\ agenda # << >> /\ Fails
      /\ pinned' = Range(Asked)
      /\ memory' \in {memory, [memory EXCEPT !["buffer"] = Range(Asked)]}
      /\ UNCHANGED <<setup, tableVars, stream, uploading, transfer>>
  BY DEF PrefetchFails, PrefetchAllowed, Doing
<1>2. Range(Asked) \in SUBSET Experts
  <2>1. setup = "prefetch"
    BY <1>1, HeadBelongs DEF Doing
  <2>2. PICK picked \in Routings : Head(agenda) = Operation("prefetch", picked)
    BY <1>1, <2>1, PrefetchAgenda DEF Doing, Operation, MatvecOf
  <2> QED
    BY <2>2, RoutingsAre DEF Asked, Operation
<1>3. /\ memory' \in [Locations -> Weights \cup {Nothing} \cup SUBSET Experts]
      /\ \A l \in Weights \cup {"scratch"} : memory'[l] = memory[l]
  <2>1. "buffer" \notin Weights /\ memory \in [Locations -> Weights \cup {Nothing} \cup SUBSET Experts]
    BY DeviceAssumption DEF BackendTypes
  <2> QED
    BY <1>1, <1>2, <2>1 DEF Locations
<1>4. Follows(stream, memory', Range(lru), Granted', uploading)
  BY <1>1, <1>3, NothingGranted
<1>5. StreamFollows'
  BY <1>1, <1>4 DEF StreamFollows, tableVars
<1>6. TransferHolds'
  BY <1>1 DEF TransferHolds, NoTransfer
<1>7. /\ AgendaFollows' /\ HandlesHold'
      /\ agenda' \in Seq([kind : Kinds, weights : Seq(Weights)])
      /\ handles' \in Seq(Weights \cup {"scratch"}) /\ launched' \in Nat
  BY <1>1, LayerOver DEF Fails
<1>8. TableExact' /\ BackendTypes'
  BY <1>1, <1>2, <1>3, <1>7 DEF TableExact, BackendTypes, tableVars
<1> QED
  BY <1>5, <1>6, <1>7, <1>8

LEMMA PrefetchRefusedKeeps == DeviceInv /\ PrefetchRefused => DeviceInv'
<1> SUFFICES ASSUME DeviceInv, PrefetchRefused PROVE DeviceInv'
  OBVIOUS
<1> USE DEF DeviceInv
<1>1. /\ Doing({"prefetch"}) /\ agenda # << >> /\ agenda' = << >>
      /\ UNCHANGED <<setup, tableVars, deviceVars, pinned, transfer, handles, launched, faults>>
  BY DEF PrefetchRefused, Doing
<1>2. handles = << >>
  BY <1>1, HeadBelongs DEF Doing, HandlesHold
<1>3. AgendaFollows' /\ HandlesHold' /\ agenda' \in Seq([kind : Kinds, weights : Seq(Weights)])
  BY <1>1, <1>2 DEF AgendaFollows, HandlesHold
<1>4. StreamFollows' /\ TransferHolds'
  BY <1>1, DeviceRests DEF tableVars
<1>5. TableExact' /\ BackendTypes'
  BY <1>1, <1>3 DEF TableExact, BackendTypes, tableVars, deviceVars
<1> QED
  BY <1>3, <1>4, <1>5

\* The device runs the first command of the stream.
LEMMA CommandKeeps ==
  ASSUME DeviceInv, stream # << >>, memory' = After(memory, Head(stream)),
         stream' = Tail(stream), Head(stream) = WaitForTransfer => ~uploading,
         UNCHANGED <<setup, tableVars, uploading, pinned, transfer, hostVars, faults>>
  PROVE  DeviceInv'
<1> USE DEF DeviceInv
<1>1. /\ Follows(stream, memory, Range(lru), Granted, uploading)
      /\ Range(lru) \in SUBSET Weights /\ DOMAIN memory = Locations
      /\ stream \in Seq(Command) /\ Len(stream) \in Nat \ {0}
      /\ Head(stream) \in Command /\ Head(stream) = stream[1]
      /\ Len(stream') + 1 = Len(stream)
  <2>1. Follows(stream, memory, Range(lru), Granted, uploading)
    BY DEF StreamFollows
  <2>2. stream \in Seq(Command)
    BY <2>1 DEF Follows
  <2>3. Range(lru) \in SUBSET Weights /\ DOMAIN memory = Locations
    BY DEF BackendTypes, Range
  <2>4. /\ Len(stream) \in Nat \ {0} /\ Head(stream) \in Command /\ Head(stream) = stream[1]
        /\ Len(Tail(stream)) + 1 = Len(stream)
    BY <2>2
  <2> QED
    BY <2>1, <2>2, <2>3, <2>4
<1>2. /\ Follows(stream', memory', Range(lru), Granted, uploading)
      /\ Arrived(stream, uploading, Len(stream) + 1) => Arrived(stream', uploading, Len(stream))
  BY <1>1, TailFollows
<1>3. StreamFollows'
  BY <1>2 DEF StreamFollows, Granted, tableVars
<1>4. /\ memory' \in [Locations -> Weights \cup {Nothing} \cup SUBSET Experts]
      /\ memory'["buffer"] = memory["buffer"]
  <2>1. Enqueued(stream, memory, Range(lru), Granted, uploading, 1)
    BY <1>1 DEF Follows
  <2>2. CASE Head(stream).kind = "copy"
    <3>1. /\ Head(stream).of \in Weights /\ Head(stream).at # "buffer"
      BY <1>1, <2>1, <2>2, DeviceAssumption DEF Enqueued, IsCopy, KernelFinds, WaitForTransfer
    <3>2. memory' = [memory EXCEPT ![Head(stream).at] = Head(stream).of]
      BY <2>2 DEF After
    <3>3. /\ memory \in [Locations -> Weights \cup {Nothing} \cup SUBSET Experts]
          /\ Head(stream).at \in Locations /\ "buffer" \in Locations
      BY <1>1 DEF BackendTypes, Command, Locations
    <3> HIDE DEF DeviceInv
    <3> QED
      BY <3>1, <3>2, <3>3
  <2>3. CASE Head(stream).kind # "copy"
    BY <2>3 DEF After, BackendTypes
  <2> QED
    BY <2>2, <2>3
<1>5. TransferHolds'
  BY <1>1, <1>2, <1>4 DEF TransferHolds
<1>6. AgendaFollows' /\ HandlesHold'
  BY DEF AgendaFollows, HandlesHold, PrefetchFollows, Prepares, hostVars, tableVars, Asked
<1>7. TableExact' /\ BackendTypes'
  BY <1>4 DEF TableExact, BackendTypes, tableVars, hostVars
<1> QED
  BY <1>3, <1>5, <1>6, <1>7

LEMMA RunCopyKeeps == DeviceInv /\ RunCopy => DeviceInv'
<1> SUFFICES ASSUME DeviceInv, RunCopy PROVE DeviceInv'
  OBVIOUS
<1>1. Head(stream) # WaitForTransfer /\ memory' = After(memory, Head(stream))
  BY DEF RunCopy, Runs, WaitForTransfer, After
<1> QED
  BY <1>1, CommandKeeps DEF RunCopy, Runs

LEMMA RunKernelKeeps == DeviceInv /\ RunKernel => DeviceInv'
<1> SUFFICES ASSUME DeviceInv, RunKernel PROVE DeviceInv'
  OBVIOUS
<1>1. Head(stream) # WaitForTransfer /\ memory' = After(memory, Head(stream))
  BY DEF RunKernel, Runs, WaitForTransfer, After
<1> QED
  BY <1>1, CommandKeeps DEF RunKernel, Runs

LEMMA PassWaitKeeps == DeviceInv /\ PassWait => DeviceInv'
<1> SUFFICES ASSUME DeviceInv, PassWait PROVE DeviceInv'
  OBVIOUS
<1>1. memory' = After(memory, Head(stream))
  BY DEF PassWait, Runs, After
<1> QED
  BY <1>1, CommandKeeps DEF PassWait, Runs

LEMMA UploadKeeps == DeviceInv /\ Upload => DeviceInv'
<1> SUFFICES ASSUME DeviceInv, Upload PROVE DeviceInv'
  OBVIOUS
<1> USE DEF DeviceInv
<1>1. /\ uploading /\ uploading' = FALSE /\ memory' = [memory EXCEPT !["buffer"] = pinned]
      /\ UNCHANGED <<setup, tableVars, stream, pinned, transfer, hostVars, faults>>
  BY DEF Upload
<1>2. /\ memory' \in [Locations -> Weights \cup {Nothing} \cup SUBSET Experts]
      /\ memory'["buffer"] = pinned
      /\ \A l \in Weights \cup {"scratch"} : memory'[l] = memory[l]
  <2>1. "buffer" \notin Weights /\ memory \in [Locations -> Weights \cup {Nothing} \cup SUBSET Experts]
        /\ pinned \in SUBSET Experts
    BY DeviceAssumption DEF BackendTypes
  <2> QED
    BY <1>1, <2>1 DEF Locations
<1>3. Follows(stream, memory, Range(lru), Granted, uploading) /\ Range(lru) \in SUBSET Weights
  BY DEF StreamFollows, BackendTypes, Range
<1>4. \A w \in Weights, i \in 1..(Len(stream) + 1) :
        Written(stream, memory, w, i) => Written(stream, memory', w, i)
  BY <1>2 DEF Written
<1>5. Len(stream) \in Nat
  BY <1>3 DEF Follows
<1>6. \A i \in 1..Len(stream) :
        KernelFinds(stream, memory, Range(lru), Granted, uploading, i)
          => KernelFinds(stream, memory', Range(lru), Granted, FALSE, i)
  BY <1>2, <1>3, <1>4, <1>5 DEF KernelFinds, Arrived
<1>7. \A w \in Range(lru) : Written(stream, memory', w, Len(stream) + 1)
  BY <1>3, <1>4, <1>5 DEF Follows
<1>8. Follows(stream, memory', Range(lru), Granted, FALSE)
  BY <1>2, <1>3, <1>6, <1>7 DEF Follows, Enqueued
<1>9. StreamFollows'
  BY <1>1, <1>8 DEF StreamFollows, Granted, tableVars
<1>10. TransferHolds'
  BY <1>1, <1>2 DEF TransferHolds, Arrived
<1>11. AgendaFollows' /\ HandlesHold'
  BY <1>1 DEF AgendaFollows, HandlesHold, PrefetchFollows, Prepares, hostVars, tableVars, Asked
<1>12. TableExact' /\ BackendTypes'
  BY <1>1, <1>2 DEF TableExact, BackendTypes, tableVars, hostVars
<1> QED
  BY <1>9, <1>10, <1>11, <1>12

LEMMA BackendStepKeeps == DeviceInv /\ [BackendNext]_backendVars => DeviceInv'
<1> SUFFICES ASSUME DeviceInv, [BackendNext]_backendVars PROVE DeviceInv'
  OBVIOUS
<1>1. CASE BackendNext
  BY <1>1, BeginLayerKeeps, BeginAccessSetKeeps, EvictKeeps, AcquireHitKeeps,
     AcquireBypassKeeps, AcquireAdmitKeeps, AcquireFailsKeeps, FallBackKeeps, ConsumeKeeps,
     ConsumeFailsKeeps, LaunchKeeps, LaunchFailsKeeps, SynchronizeKeeps,
     SynchronizeFailsKeeps, PrefetchKeeps, PrefetchFailsKeeps, PrefetchRefusedKeeps,
     RunCopyKeeps, RunKernelKeeps, PassWaitKeeps, UploadKeeps DEF BackendNext
<1>2. CASE UNCHANGED backendVars
  <2>1. UNCHANGED <<setup, lru, residentBytes, kept, memory, stream, uploading, pinned,
                    transfer, agenda, handles, launched, faults>>
    BY <1>2 DEF backendVars, tableVars, deviceVars, hostVars
  <2>2. BackendTypes' /\ TableExact'
    BY <2>1 DEF DeviceInv, BackendTypes, TableExact
  <2>3. StreamFollows' /\ TransferHolds'
    BY <2>1, DeviceRests DEF DeviceInv, deviceVars
  <2>4. AgendaFollows' /\ HandlesHold'
    BY <2>1 DEF DeviceInv, AgendaFollows, HandlesHold, PrefetchFollows, Prepares, Asked
  <2> QED
    BY <2>2, <2>3, <2>4 DEF DeviceInv
<1> QED
  BY <1>1, <1>2

\* The inductive invariant of the CUDA backend's side.
THEOREM DeviceInvariant == BackendSpec => []DeviceInv
BY BackendInitInv, BackendStepKeeps, PTL DEF BackendSpec

\* Whatever the device executes late, a kernel finds the weight it was launched
\* for at the location it was given (the operations of backend_cuda.cu).
THEOREM KernelsReadTheirWeightsCorrect == BackendSpec => []KernelsReadTheirWeights
<1>1. DeviceInv => KernelsReadTheirWeights
  <2> SUFFICES ASSUME DeviceInv, stream # << >>, Head(stream).kind = "kernel"
               PROVE  /\ memory[Head(stream).at] = Head(stream).of
                      /\ Head(stream).at = "buffer" => ~uploading
    BY DEF KernelsReadTheirWeights
  <2>1. Follows(stream, memory, Range(lru), Granted, uploading)
    BY DEF DeviceInv, StreamFollows
  <2>2. /\ stream \in Seq(Command) /\ 1 \in 1..Len(stream) /\ Head(stream) = stream[1]
    BY <2>1 DEF Follows
  <2>3. KernelFinds(stream, memory, Range(lru), Granted, uploading, 1)
    BY <2>1, <2>2 DEF Follows, Enqueued, IsCopy, WaitForTransfer
  <2>4. Range(lru) \subseteq Weights
    BY DEF DeviceInv, BackendTypes, Range
  <2>5. Head(stream).at = "buffer" =>
          ~uploading /\ transfer.consumed /\ Head(stream).of = pinned
    BY <2>2, <2>3, <2>4, DeviceAssumption DEF KernelFinds, Arrived, Granted
  <2>6. transfer.consumed => transfer # NoTransfer
    BY DEF NoTransfer
  <2>7. CASE Head(stream).at = "buffer"
    BY <2>5, <2>6, <2>7 DEF DeviceInv, TransferHolds
  <2>8. CASE Head(stream).at # "buffer"
    BY <2>2, <2>3, <2>8 DEF KernelFinds, Written
  <2> QED
    BY <2>7, <2>8
<1> QED
  BY <1>1, DeviceInvariant, PTL

\* resident_weight_bytes (resident_weights.cu) is the sum of the table's
\* entries and within the limit, also after an acquire that failed half way.
THEOREM ResidentBytesAreExactCorrect == BackendSpec => []ResidentBytesAreExact
<1>1. DeviceInv => ResidentBytesAreExact
  BY DEF DeviceInv, ResidentBytesAreExact, TableExact, StreamFollows, Follows
<1> QED
  BY <1>1, DeviceInvariant, PTL
=============================================================================
