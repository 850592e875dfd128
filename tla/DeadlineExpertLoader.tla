------------------------ MODULE DeadlineExpertLoader ------------------------
(***************************************************************************)
(* The worker pool of runtime/src/expert_scheduler.cpp.  submit queues a   *)
(* load, or runs it inline when the expert is resident, and returns a      *)
(* ticket; workers run the queued loads, the earliest latest start first;  *)
(* wait consumes the result of a ticket; wait_idle waits for the pool; the *)
(* destructor drains the queue and joins the workers.                      *)
(*                                                                         *)
(* A step is a critical section of the pool's mutex or of a ticket's, an   *)
(* update of an atomic counter, or a notification.  The three condition    *)
(* variables are the sets of threads asleep on them, so that a             *)
(* notification nobody waits for is lost, as it is in the program.  The    *)
(* time a load takes is not modelled, nor are the byte, nanosecond and     *)
(* deadline-miss counters, which nothing reads back.  A loader that throws *)
(* has a result as well (invoke_loader), so results are not told apart.    *)
(***************************************************************************)
EXTENDS Naturals, FiniteSets

CONSTANTS
  Tickets,      \* bound: the loads that may be submitted
  Workers,      \* the worker threads
  Clients,      \* the threads that submit and wait
  MaxPending,   \* maximum_pending
  LatestStart,  \* LatestStart[k]: use time less fetch latency of load k
  NoTicket      \* what job and ticket hold outside of a load or a call

ASSUME LoaderAssumption ==
  /\ IsFiniteSet(Tickets)
  /\ IsFiniteSet(Workers) /\ Workers # {}
  /\ IsFiniteSet(Clients)
  /\ MaxPending \in Nat \ {0}
  /\ LatestStart \in [Tickets -> Nat]
  /\ NoTicket \notin Tickets

VARIABLES
  queue,         \* the loads in the priority queue
  sequence,      \* sequence[k]: next_sequence when load k was queued
  nextSequence,
  active,        \* active_workers
  phase,         \* how far the destructor has got
  issued,        \* the tickets whose submission has been accepted
  ready,         \* the tickets that have a result
  consumed,      \* the tickets that wait has been called on
  submissions, inlineHits, completions, readyBefore, lateAtUse, highWater,
  worker,        \* worker[w]: where worker w is in run
  job,           \* job[w]: the load it is at
  client,        \* client[c]: where client c is in its call
  ticket         \* ticket[c]: the ticket of that call

poolVars == <<queue, sequence, nextSequence, active, phase>>
ticketVars == <<issued, ready, consumed>>
counters == <<submissions, inlineHits, completions, readyBefore, lateAtUse,
              highWater>>
workerVars == <<worker, job>>
clientVars == <<client, ticket>>
vars == <<poolVars, ticketVars, counters, workerVars, clientVars>>

WorkerPlaces == {"head", "asleep", "loading", "published", "counted",
                 "signalled", "retired", "exited"}
ClientPlaces == {"idle", "notify", "inline", "waiting", "woken", "found",
                 "late", "idling", "checking"}
Phases == {"open", "stopped", "joining", "gone"}

Init ==
  /\ queue = {}
  /\ sequence = [k \in Tickets |-> 0]
  /\ nextSequence = 0
  /\ active = 0
  /\ phase = "open"
  /\ issued = {} /\ ready = {} /\ consumed = {}
  /\ submissions = 0 /\ inlineHits = 0 /\ completions = 0
  /\ readyBefore = 0 /\ lateAtUse = 0 /\ highWater = 0
  /\ worker = [w \in Workers |-> "head"]
  /\ job = [w \in Workers |-> NoTicket]
  /\ client = [c \in Clients |-> "idle"]
  /\ ticket = [c \in Clients |-> NoTicket]

WorkerGoes(w, from, to) ==
  worker[w] = from /\ worker' = [worker EXCEPT ![w] = to]
ClientGoes(c, from, to) ==
  client[c] = from /\ client' = [client EXCEPT ![c] = to]
Larger(m, n) == IF m < n THEN n ELSE m

-----------------------------------------------------------------------------
(* submit                                                                  *)

\* A full queue refuses the load, which then has no ticket.
HasRoom == Cardinality(queue) < MaxPending

Submit(c, k) ==
  /\ phase = "open"
  /\ k \notin issued
  /\ HasRoom
  /\ ClientGoes(c, "idle", "notify")
  /\ issued' = issued \cup {k}
  /\ queue' = queue \cup {k}
  /\ sequence' = [sequence EXCEPT ![k] = nextSequence]
  /\ nextSequence' = nextSequence + 1
  /\ submissions' = submissions + 1
  /\ highWater' = Larger(highWater, Cardinality(queue'))
  /\ UNCHANGED <<active, phase, ready, consumed, inlineHits, completions,
                 readyBefore, lateAtUse, workerVars, ticket>>

\* Mutant: the push is not followed by a notification.
NotifyNone(c) ==
  /\ ClientGoes(c, "notify", "idle")
  /\ UNCHANGED <<poolVars, ticketVars, counters, workerVars, ticket>>

\* condition.notify_one(), after the mutex is released.
NotifyOne(c) ==
  /\ ClientGoes(c, "notify", "idle")
  /\ IF \E w \in Workers : worker[w] = "asleep"
       THEN \E w \in Workers : WorkerGoes(w, "asleep", "head")
       ELSE UNCHANGED worker
  /\ UNCHANGED <<poolVars, ticketVars, counters, job, ticket>>

\* The load of a resident expert runs on the caller's thread.
SubmitResident(c, k) ==
  /\ phase = "open"
  /\ k \notin issued
  /\ ClientGoes(c, "idle", "inline")
  /\ ticket' = [ticket EXCEPT ![c] = k]
  /\ issued' = issued \cup {k}
  /\ submissions' = submissions + 1
  /\ inlineHits' = inlineHits + 1
  /\ UNCHANGED <<poolVars, ready, consumed, completions, readyBefore,
                 lateAtUse, highWater, workerVars>>

\* Nobody else has the ticket yet, so its result and the count are one step.
FinishInline(c) ==
  /\ ClientGoes(c, "inline", "idle")
  /\ ready' = ready \cup {ticket[c]}
  /\ ticket' = [ticket EXCEPT ![c] = NoTicket]
  /\ completions' = completions + 1
  /\ UNCHANGED <<poolVars, issued, consumed, submissions, inlineHits,
                 readyBefore, lateAtUse, highWater, workerVars>>

-----------------------------------------------------------------------------
(* run: the loop of a worker                                               *)

StartsBefore(j, k) ==
  \/ LatestStart[j] < LatestStart[k]
  \/ LatestStart[j] = LatestStart[k] /\ sequence[j] < sequence[k]

\* Mutant: the load is copied from the queue but not popped.
TakeUnpopped(w) ==
  /\ WorkerGoes(w, "head", "loading")
  /\ \E k \in queue :
       /\ \A j \in queue \ {k} : StartsBefore(k, j)
       /\ job' = [job EXCEPT ![w] = k]
  /\ active' = active + 1
  /\ UNCHANGED <<queue, sequence, nextSequence, phase, ticketVars, counters,
                 clientVars>>

Take(w) ==
  /\ WorkerGoes(w, "head", "loading")
  /\ \E k \in queue :
       /\ \A j \in queue \ {k} : StartsBefore(k, j)
       /\ queue' = queue \ {k}
       /\ job' = [job EXCEPT ![w] = k]
  /\ active' = active + 1
  /\ UNCHANGED <<sequence, nextSequence, phase, ticketVars, counters,
                 clientVars>>

\* condition.wait(lock): nothing to do and not stopping.
Sleep(w) ==
  /\ queue = {}
  /\ phase = "open"
  /\ WorkerGoes(w, "head", "asleep")
  /\ UNCHANGED <<poolVars, ticketVars, counters, job, clientVars>>

SpuriousWake(w) ==
  /\ WorkerGoes(w, "asleep", "head")
  /\ UNCHANGED <<poolVars, ticketVars, counters, job, clientVars>>

\* Mutant: a stopping pool abandons the loads that are still queued.
ExitAtOnce(w) ==
  /\ phase # "open"
  /\ WorkerGoes(w, "head", "exited")
  /\ UNCHANGED <<poolVars, ticketVars, counters, job, clientVars>>

\* A worker leaves only when the pool is stopping and the queue is empty.
Exit(w) ==
  /\ queue = {}
  /\ phase # "open"
  /\ WorkerGoes(w, "head", "exited")
  /\ UNCHANGED <<poolVars, ticketVars, counters, job, clientVars>>

\* The loader has returned; its result is stored under the ticket's mutex.
Publish(w) ==
  /\ WorkerGoes(w, "loading", "published")
  /\ ready' = ready \cup {job[w]}
  /\ UNCHANGED <<poolVars, issued, consumed, counters, job, clientVars>>

Count(w) ==
  /\ WorkerGoes(w, "published", "counted")
  /\ completions' = completions + 1
  /\ UNCHANGED <<poolVars, ticketVars, submissions, inlineHits, readyBefore,
                 lateAtUse, highWater, job, clientVars>>

\* Mutant: nobody is notified of the result.
SignalNobody(w) ==
  /\ WorkerGoes(w, "counted", "signalled")
  /\ UNCHANGED <<poolVars, ticketVars, counters, job, clientVars>>

\* state->condition.notify_all()
Signal(w) ==
  /\ WorkerGoes(w, "counted", "signalled")
  /\ client' = [c \in Clients |->
                  IF client[c] = "waiting" /\ ticket[c] = job[w]
                    THEN "woken" ELSE client[c]]
  /\ UNCHANGED <<poolVars, ticketVars, counters, job, ticket>>

Retire(w) ==
  /\ WorkerGoes(w, "signalled", "retired")
  /\ active' = active - 1
  /\ UNCHANGED <<queue, sequence, nextSequence, phase, ticketVars, counters,
                 job, clientVars>>

\* idle_condition.notify_all()
NotifyIdle(w) ==
  /\ WorkerGoes(w, "retired", "head")
  /\ client' = [c \in Clients |->
                  IF client[c] = "idling" THEN "checking" ELSE client[c]]
  /\ job' = [job EXCEPT ![w] = NoTicket]
  /\ UNCHANGED <<poolVars, ticketVars, counters, ticket>>

-----------------------------------------------------------------------------
(* ExpertLoadTicket::wait                                                  *)

\* Mutant: a second wait is not refused.
WaitAgain(c, k) ==
  /\ k \in issued
  /\ \A d \in Clients : client[d] = "inline" => ticket[d] # k
  /\ ClientGoes(c, "idle", IF k \in ready THEN "found" ELSE "waiting")
  /\ ticket' = [ticket EXCEPT ![c] = k]
  /\ consumed' = consumed \cup {k}
  /\ UNCHANGED <<poolVars, issued, ready, counters, workerVars>>

\* A ticket exists once submit has returned it, and outlives the pool.  A
\* second wait is refused and changes nothing.
Wait(c, k) ==
  /\ k \in issued \ consumed
  /\ \A d \in Clients : client[d] = "inline" => ticket[d] # k
  /\ ClientGoes(c, "idle", IF k \in ready THEN "found" ELSE "waiting")
  /\ ticket' = [ticket EXCEPT ![c] = k]
  /\ consumed' = consumed \cup {k}
  /\ UNCHANGED <<poolVars, issued, ready, counters, workerVars>>

SpuriousTicketWake(c) ==
  /\ ClientGoes(c, "waiting", "woken")
  /\ UNCHANGED <<poolVars, ticketVars, counters, workerVars, ticket>>

\* The predicate of the wait is looked at again, under the ticket's mutex.
Recheck(c) ==
  /\ ClientGoes(c, "woken", IF ticket[c] \in ready THEN "late" ELSE "waiting")
  /\ UNCHANGED <<poolVars, ticketVars, counters, workerVars, ticket>>

\* wait counts whether the result was there already, and returns it.
Collect(c) ==
  /\ \/ /\ ClientGoes(c, "found", "idle")
        /\ readyBefore' = readyBefore + 1 /\ UNCHANGED lateAtUse
     \/ /\ ClientGoes(c, "late", "idle")
        /\ lateAtUse' = lateAtUse + 1 /\ UNCHANGED readyBefore
  /\ ticket' = [ticket EXCEPT ![c] = NoTicket]
  /\ UNCHANGED <<poolVars, ticketVars, submissions, inlineHits, completions,
                 highWater, workerVars>>

-----------------------------------------------------------------------------
(* wait_idle                                                               *)

\* Mutant: a load that has been taken is no longer pending.
IdleQueueEmpty == queue = {}

Idle == queue = {} /\ active = 0

WaitIdle(c) ==
  /\ phase = "open"
  /\ ~Idle
  /\ ClientGoes(c, "idle", "idling")
  /\ UNCHANGED <<poolVars, ticketVars, counters, workerVars, ticket>>

SpuriousIdleWake(c) ==
  /\ ClientGoes(c, "idling", "checking")
  /\ UNCHANGED <<poolVars, ticketVars, counters, workerVars, ticket>>

RecheckIdle(c) ==
  /\ ClientGoes(c, "checking", IF Idle THEN "idle" ELSE "idling")
  /\ UNCHANGED <<poolVars, ticketVars, counters, workerVars, ticket>>

-----------------------------------------------------------------------------
(* ~Impl                                                                   *)

\* Destroying the loader while a thread is inside submit or wait_idle would
\* be an error of that thread; a thread inside wait holds its own state.
Stop ==
  /\ phase = "open"
  /\ \A c \in Clients :
       client[c] \notin {"notify", "inline", "idling", "checking"}
  /\ phase' = "stopped"
  /\ UNCHANGED <<queue, sequence, nextSequence, active, ticketVars, counters,
                 workerVars, clientVars>>

\* Mutant: the destructor wakes one worker.
NotifyOneWorker ==
  /\ phase = "stopped"
  /\ phase' = "joining"
  /\ IF \E w \in Workers : worker[w] = "asleep"
       THEN \E w \in Workers : WorkerGoes(w, "asleep", "head")
       ELSE UNCHANGED worker
  /\ UNCHANGED <<queue, sequence, nextSequence, active, ticketVars, counters,
                 job, clientVars>>

\* condition.notify_all()
NotifyWorkers ==
  /\ phase = "stopped"
  /\ phase' = "joining"
  /\ worker' = [w \in Workers |->
                  IF worker[w] = "asleep" THEN "head" ELSE worker[w]]
  /\ UNCHANGED <<queue, sequence, nextSequence, active, ticketVars, counters,
                 job, clientVars>>

Join ==
  /\ phase = "joining"
  /\ \A w \in Workers : worker[w] = "exited"
  /\ phase' = "gone"
  /\ UNCHANGED <<queue, sequence, nextSequence, active, ticketVars, counters,
                 workerVars, clientVars>>

-----------------------------------------------------------------------------
WorkerStep(w) ==
  \/ Take(w) \/ Sleep(w) \/ Exit(w) \/ Publish(w) \/ Count(w)
  \/ Signal(w) \/ Retire(w) \/ NotifyIdle(w)

\* The steps that finish a call.
ClientStep(c) ==
  \/ NotifyOne(c) \/ FinishInline(c) \/ Recheck(c) \/ Collect(c)
  \/ RecheckIdle(c)

Next ==
  \/ \E c \in Clients, k \in Tickets :
       Submit(c, k) \/ SubmitResident(c, k) \/ Wait(c, k)
  \/ \E c \in Clients :
       ClientStep(c) \/ WaitIdle(c) \/ SpuriousTicketWake(c)
         \/ SpuriousIdleWake(c)
  \/ \E w \in Workers : WorkerStep(w) \/ SpuriousWake(w)
  \/ Stop \/ NotifyWorkers \/ Join

Spec == Init /\ [][Next]_vars

\* Threads run, loaders return, and a destructor that has begun goes on.
\* Nobody has to submit, wait or destroy.
Fairness ==
  /\ \A w \in Workers : WF_vars(WorkerStep(w))
  /\ \A c \in Clients : WF_vars(ClientStep(c))
  /\ WF_vars(NotifyWorkers \/ Join)
FairSpec == Spec /\ Fairness

-----------------------------------------------------------------------------
(* Properties                                                              *)

TypeOK ==
  /\ queue \in SUBSET Tickets
  /\ sequence \in [Tickets -> Nat]
  /\ nextSequence \in Nat
  /\ active \in Nat
  /\ phase \in Phases
  /\ issued \in SUBSET Tickets
  /\ ready \in SUBSET Tickets
  /\ consumed \in SUBSET Tickets
  /\ submissions \in Nat /\ inlineHits \in Nat /\ completions \in Nat
  /\ readyBefore \in Nat /\ lateAtUse \in Nat /\ highWater \in Nat
  /\ worker \in [Workers -> WorkerPlaces]
  /\ job \in [Workers -> Tickets \cup {NoTicket}]
  /\ client \in [Clients -> ClientPlaces]
  /\ ticket \in [Clients -> Tickets \cup {NoTicket}]

WorkersAt(places) == {w \in Workers : worker[w] \in places}
ClientsAt(places) == {c \in Clients : client[c] \in places}

\* Every accepted load is in exactly one place: queued, held by one worker,
\* running inline on one client, or answered.  None is lost, run twice or
\* answered before it ran.
JobConservation ==
  LET held == {job[w] : w \in WorkersAt({"loading"})}
      inline == {ticket[c] : c \in ClientsAt({"inline"})}
  IN /\ issued = queue \cup held \cup inline \cup ready
     /\ Cardinality(issued) = Cardinality(queue)
          + Cardinality(WorkersAt({"loading"}))
          + Cardinality(ClientsAt({"inline"})) + Cardinality(ready)

\* Submissions that are not yet completions are loads that are queued,
\* running, or answered but not counted yet.
CountersAgree ==
  submissions = completions + Cardinality(queue)
    + Cardinality(WorkersAt({"loading", "published"}))
    + Cardinality(ClientsAt({"inline"}))

\* The queue never exceeds its limit, and the high-water mark covers it.
QueueBounded ==
  Cardinality(queue) <= highWater /\ highWater <= MaxPending

\* Each ticket's result is handed out once: results waited for and results
\* counted as ready or late agree.
SingleConsumption ==
  Cardinality(consumed) = readyBefore + lateAtUse
    + Cardinality(ClientsAt({"waiting", "woken", "found", "late"}))

\* What wait_idle waits for: when it returns, everything that was queued has
\* been answered and counted, and no worker still runs a load.
IdleMeansComplete ==
  Idle =>
    /\ submissions = completions + Cardinality(ClientsAt({"inline"}))
    /\ WorkersAt({"loading", "published", "counted"}) = {}

\* Once the destructor has returned no worker runs, and every ticket that was
\* ever issued has its result.
DestructionDrains ==
  phase = "gone" =>
    /\ WorkersAt({"exited"}) = Workers
    /\ ready = issued
    /\ submissions = completions

\* Whoever calls wait or wait_idle returns, once its load is answered or the pool is idle.
EveryWaitReturns ==
  \A c \in Clients : client[c] # "idle" ~> client[c] = "idle"

\* A destructor that has begun joins every worker.
DestructionEnds == phase = "stopped" ~> phase = "gone"
=============================================================================
