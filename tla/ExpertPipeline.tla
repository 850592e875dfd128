--------------------------- MODULE ExpertPipeline ---------------------------
(***************************************************************************)
(* How the engine of runtime/src/model.cpp drives the deadline loader and  *)
(* the expert store of a session.  A generation runs one MoE layer after   *)
(* the other; each begins an access set with the experts its router chose, *)
(* looks up which of them are resident, submits the resident ones (which   *)
(* load inline) and then the others (which the workers load), and waits    *)
(* for the tickets in slot order.  A failed load or a refused submission   *)
(* ends the generation, and the catch of generate_greedy waits until the   *)
(* pool is idle, as does a generation that succeeds.                       *)
(*                                                                         *)
(* The pool and the store are the modules DeadlineExpertLoader and         *)
(* HostExpertStore; their threads are the workers and the generation       *)
(* thread, of which there is one at a time (acquire_generation_guard).     *)
(***************************************************************************)
EXTENDS Naturals, FiniteSets, Sequences

CONSTANTS
  Keys, Bytes, MaxBytes, Layer, Capacity, Modes,  \* of the store
  Workers, MaxPending,                            \* of the pool
  Generation,   \* the generation thread
  TopK,         \* the experts selected for a layer
  MaxBatches,   \* bound: MoE layers run in a behaviour
  NoTicket

VARIABLES
  mode, entries, meta, protected, evictedNow, activeLayer, score,
  accessSets, calls, clock, loading, stats, pc, want, outcome,
  queue, sequence, nextSequence, active, phase, issued, ready, consumed,
  submissions, inlineHits, completions, readyBefore, lateAtUse, highWater,
  worker, job, client, ticket,
  stage,      \* what the generation thread is doing in the MoE layer
  chosen,     \* chosen[b]: the key of each slot of layer b, as the loads
              \* submitted for it have captured it
  resident,   \* the slots whose expert the store contained
  slot,       \* the slot being submitted or waited for
  answer      \* answer[k]: what the load of ticket k returned

Slots == 1..TopK
Tickets == (1..MaxBatches) \X Slots
Threads == Workers \cup {Generation}

Store == INSTANCE HostExpertStore WITH
  Callers <- [m \in Modes |-> Threads],
  MaxCalls <- [m \in Modes |-> MaxBatches * TopK],
  MaxAccessSets <- [m \in Modes |-> MaxBatches], Scores <- {0}
Pool == INSTANCE DeadlineExpertLoader WITH
  Clients <- {Generation}, LatestStart <- [k \in Tickets |-> 0]

ASSUME PipelineAssumption ==
  /\ Generation \notin Workers /\ IsFiniteSet(Workers) /\ Workers # {}
  /\ TopK \in Nat \ {0} /\ MaxBatches \in Nat
  /\ MaxPending \in Nat \ {0} /\ NoTicket \notin Tickets
  /\ IsFiniteSet(Keys) /\ Keys # {}
  /\ MaxBytes \in Nat /\ Bytes \in [Keys -> 1..MaxBytes]
  /\ Layer \in [Keys -> Nat] /\ Capacity \in Nat
  /\ Modes \subseteq Store!AllModes

storeVars ==
  <<mode, entries, meta, protected, evictedNow, activeLayer, score,
    accessSets, calls, clock, loading, stats, pc, want, outcome>>
poolVars ==
  <<queue, sequence, nextSequence, active, phase, issued, ready, consumed,
    submissions, inlineHits, completions, readyBefore, lateAtUse, highWater,
    worker, job, client, ticket>>
engineVars == <<stage, chosen, resident, slot>>
vars == <<storeVars, poolVars, engineVars, answer>>

Stages == {"between", "selected", "residents", "others", "running",
           "collecting", "waiting", "ending"}
Answers == {"none", "handle", "failure"}

Init ==
  /\ Store!Init
  /\ Pool!Init
  /\ stage = "between"
  /\ chosen = << >>
  /\ resident = {}
  /\ slot = 0
  /\ answer = [k \in Tickets |-> "none"]

At(from, to) == stage = from /\ stage' = to
TicketOf(i) == <<accessSets, i>>
KeyOf(k) == chosen[k[1]][k[2]]
SlotsInUse == Len(chosen[accessSets])

-----------------------------------------------------------------------------
(* The generation thread in the MoE layer.                                 *)

\* A layer is run between generations or after another one has collected.
\* The router selects distinct experts of that layer.
SelectExperts(fresh, layer, selected) ==
  /\ At("between", "selected")
  /\ chosen' = Append(chosen, selected)
  /\ Store!BeginAccessSet(fresh, layer, {selected[i] : i \in 1..Len(selected)})
  /\ UNCHANGED <<poolVars, resident, slot, answer>>

\* contains(), for every slot, before anything is submitted.
ResidentSlots == {i \in 1..SlotsInUse : KeyOf(TicketOf(i)) \in entries}

LookUp ==
  /\ At("selected", "residents")
  /\ resident' = ResidentSlots
  /\ slot' = 1
  /\ UNCHANGED <<storeVars, poolVars, chosen, answer>>

\* The loop over the slots, once for the resident ones, once for the others.
PassOver ==
  /\ client[Generation] = "idle"
  /\ \/ /\ stage \in {"residents", "others"}
        /\ slot <= SlotsInUse
        /\ (slot \in resident) # (stage = "residents")
        /\ slot' = slot + 1
        /\ stage' = stage
     \/ /\ At("residents", "others") \/ At("others", "collecting")
        /\ slot > SlotsInUse
        /\ slot' = 1
  /\ UNCHANGED <<storeVars, poolVars, chosen, resident, answer>>

\* submit runs the load of a resident expert on this thread.
SubmitInline ==
  /\ At("residents", "running")
  /\ slot \in resident
  /\ Pool!SubmitResident(Generation, TicketOf(slot))
  /\ Store!Call(Generation, KeyOf(TicketOf(slot)))
  /\ UNCHANGED <<chosen, resident, slot, answer>>

InlineReturns ==
  /\ At("running", "residents")
  /\ pc[Generation] = "idle"
  /\ Pool!FinishInline(Generation)
  /\ answer' = [answer EXCEPT ![TicketOf(slot)] = outcome[Generation]]
  /\ slot' = slot + 1
  /\ UNCHANGED <<storeVars, chosen, resident>>

SubmitToPool ==
  /\ stage = "others"
  /\ slot <= SlotsInUse
  /\ slot \notin resident
  /\ \/ /\ Pool!Submit(Generation, TicketOf(slot))
        /\ slot' = slot + 1
        /\ UNCHANGED stage
     \/ /\ ~Pool!HasRoom
        /\ client[Generation] = "idle"
        /\ stage' = "ending"
        /\ UNCHANGED <<poolVars, slot>>
  /\ UNCHANGED <<storeVars, chosen, resident, answer>>

NotifyPool ==
  /\ Pool!NotifyOne(Generation)
  /\ UNCHANGED <<storeVars, engineVars, answer>>

WaitForTicket ==
  /\ At("collecting", "waiting")
  /\ slot <= SlotsInUse
  /\ Pool!Wait(Generation, TicketOf(slot))
  /\ UNCHANGED <<storeVars, chosen, resident, slot, answer>>

\* Mutant: a failed load returns from the generation without wait_idle.
CollectOrQuit ==
  /\ stage = "waiting"
  /\ Pool!Collect(Generation)
  /\ \/ answer[TicketOf(slot)] = "handle" /\ stage' = "collecting"
     \/ answer[TicketOf(slot)] # "handle" /\ stage' = "between"
  /\ slot' = slot + 1
  /\ UNCHANGED <<storeVars, chosen, resident, answer>>

\* A missing expert throws out of the generation.
CollectTicket ==
  /\ stage = "waiting"
  /\ Pool!Collect(Generation)
  /\ \/ answer[TicketOf(slot)] = "handle" /\ stage' = "collecting"
     \/ answer[TicketOf(slot)] # "handle" /\ stage' = "ending"
  /\ slot' = slot + 1
  /\ UNCHANGED <<storeVars, chosen, resident, answer>>

\* All tickets are collected: the next layer, or the end of the generation.
LayerDone ==
  /\ At("collecting", "between") \/ At("collecting", "ending")
  /\ slot > SlotsInUse
  /\ UNCHANGED <<storeVars, poolVars, chosen, resident, slot, answer>>

\* wait_idle at the end of a generation, of a failed one as well.
EndGeneration ==
  /\ client[Generation] = "idle"
  /\ stage = "ending"
  /\ IF Pool!Idle
       THEN stage' = "between" /\ UNCHANGED poolVars
       ELSE Pool!WaitIdle(Generation) /\ UNCHANGED stage
  /\ UNCHANGED <<storeVars, chosen, resident, slot, answer>>

Recheck ==
  /\ \/ Pool!Recheck(Generation) /\ UNCHANGED stage
     \/ /\ Pool!RecheckIdle(Generation)
        /\ stage' = IF Pool!Idle THEN "between" ELSE stage
  /\ UNCHANGED <<storeVars, chosen, resident, slot, answer>>

-----------------------------------------------------------------------------
(* The workers, and the store under all threads.                           *)

\* A worker that takes a load calls get_or_load for its key.
WorkerTakes(w) ==
  /\ Pool!Take(w)
  /\ Store!Call(w, KeyOf(job'[w]))
  /\ UNCHANGED <<engineVars, answer>>

WorkerPublishes(w) ==
  /\ pc[w] = "idle"
  /\ Pool!Publish(w)
  /\ answer' = [answer EXCEPT ![job[w]] = outcome[w]]
  /\ UNCHANGED <<storeVars, engineVars>>

WorkerMoves(w) ==
  /\ Pool!Sleep(w) \/ Pool!Count(w) \/ Pool!Signal(w) \/ Pool!Retire(w)
       \/ Pool!NotifyIdle(w)
  /\ UNCHANGED <<storeVars, engineVars, answer>>

StoreMoves(t) ==
  /\ Store!ThreadStep(t)
  /\ UNCHANGED <<poolVars, engineVars, answer>>

-----------------------------------------------------------------------------
\* What the generation thread does without being asked for another layer.
EngineStep ==
  \/ LookUp \/ PassOver \/ SubmitInline \/ InlineReturns \/ SubmitToPool
  \/ NotifyPool \/ WaitForTicket \/ CollectTicket \/ LayerDone
  \/ EndGeneration \/ Recheck

WorkerStep(w) == WorkerTakes(w) \/ WorkerPublishes(w) \/ WorkerMoves(w)

\* The ways a router may fill the slots with experts of one layer.
Selections(layer) ==
  {s \in UNION {[1..n -> {k \in Keys : Layer[k] = layer}] : n \in Slots} :
     \A i, j \in DOMAIN s : s[i] = s[j] => i = j}

Next ==
  \/ EngineStep
  \/ \E fresh \in BOOLEAN, layer \in Store!Layers :
       \E selected \in Selections(layer) : SelectExperts(fresh, layer, selected)
  \/ \E w \in Workers : WorkerStep(w)
  \/ \E t \in Threads : StoreMoves(t)

Spec == Init /\ [][Next]_vars

\* Every thread runs and loaders return; nobody has to start a layer.
Fairness ==
  /\ WF_vars(EngineStep)
  /\ \A w \in Workers : WF_vars(WorkerStep(w))
  /\ \A t \in Threads : WF_vars(StoreMoves(t))
FairSpec == Spec /\ Fairness

-----------------------------------------------------------------------------
(* Properties                                                              *)

TypeOK ==
  /\ Store!TypeOK
  /\ Pool!TypeOK
  /\ stage \in Stages
  /\ Len(chosen) = accessSets
  /\ \A b \in 1..accessSets : chosen[b] \in UNION {[1..n -> Keys] : n \in Slots}
  /\ resident \subseteq Slots
  /\ slot \in 0..(TopK + 1)
  /\ answer \in [Tickets -> Answers]

\* Every load that is queued or in the store is of the access set in force,
\* so the experts that begin_access_set protects are those that the loads in
\* flight were selected with.
InFlightIsSelected ==
  /\ \A t \in Threads : pc[t] # "idle" => want[t] \in protected
  /\ \A k \in queue : k[1] = accessSets

\* Every layer that is begun is collected or fails, and then another one
\* may begin.
EveryLayerEnds == stage # "between" ~> stage = "between"
=============================================================================
