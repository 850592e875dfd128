-------------------- MODULE DeadlineExpertLoader_proofs --------------------
(***************************************************************************)
(* What the worker pool guarantees for every number of threads, loads and  *)
(* queue places.  The invariant is inductive because it says of a load not *)
(* only where it is (Placed) but who is counted for it: active_workers for *)
(* the workers between the pop and the decrement (ActiveCounts), and who   *)
(* may still be inside a call once the destructor has begun (Draining).    *)
(***************************************************************************)
EXTENDS DeadlineExpertLoader, FiniteSetTheorems, FunctionTheorems, TLAPS

-----------------------------------------------------------------------------
(* Counting                                                                *)

\* When one member of a finite set moves, the members at the given places are
\* one more, one fewer, or as many as before.
LEMMA CountMove ==
  ASSUME NEW S, IsFiniteSet(S), NEW T, NEW f \in [S -> T],
         NEW x \in S, NEW to \in T, NEW g, g = [f EXCEPT ![x] = to], NEW P,
         NEW A, A = {s \in S : f[s] \in P},
         NEW B, B = {s \in S : g[s] \in P}
  PROVE  /\ Cardinality(A) \in Nat /\ Cardinality(B) \in Nat
         /\ (f[x] \in P <=> to \in P) => Cardinality(B) = Cardinality(A)
         /\ f[x] \notin P /\ to \in P => Cardinality(B) = Cardinality(A) + 1
         /\ f[x] \in P /\ to \notin P => Cardinality(B) = Cardinality(A) - 1
<1>1. A \in SUBSET S /\ B \in SUBSET S
  OBVIOUS
<1>2. IsFiniteSet(A) /\ IsFiniteSet(B)
  BY <1>1, FS_Subset, Zenon
<1>3. Cardinality(A) \in Nat /\ Cardinality(B) \in Nat
  BY <1>2, FS_CardinalityType, Zenon
<1>4. (f[x] \in P <=> to \in P) => B = A
  OBVIOUS
<1>5. f[x] \notin P /\ to \in P => B = A \cup {x} /\ x \notin A
  OBVIOUS
<1>6. f[x] \in P /\ to \notin P => B = A \ {x} /\ x \in A
  OBVIOUS
<1>7. Cardinality(A \cup {x}) = IF x \in A THEN Cardinality(A) ELSE Cardinality(A) + 1
  BY <1>2, FS_AddElement, Zenon
<1>8. Cardinality(A \ {x}) = IF x \in A THEN Cardinality(A) - 1 ELSE Cardinality(A)
  BY <1>2, FS_RemoveElement, Zenon
<1> QED
  BY <1>3, <1>4, <1>5, <1>6, <1>7, <1>8

\* A function that tells the members of a finite set apart has as many values.
LEMMA SameSize ==
  ASSUME NEW S, IsFiniteSet(S), NEW f, \A x, y \in S : f[x] = f[y] => x = y,
         NEW T, T = {f[x] : x \in S}
  PROVE  IsFiniteSet(T) /\ Cardinality(T) = Cardinality(S)
<1> DEFINE g == [x \in S |-> f[x]]
<1>1. g \in [S -> T] /\ (\A x, y \in S : g[x] = g[y] => x = y) /\ \A t \in T : \E x \in S : g[x] = t
  OBVIOUS
<1>2. g \in Bijection(S, T)
  BY <1>1, Fun_IsBij, Zenon
<1>3. ExistsBijection(S, T)
  BY <1>2 DEF ExistsBijection
<1> QED
  BY <1>3, FS_Bijection

\* Disjoint finite sets add up.
LEMMA DisjointUnion ==
  ASSUME NEW S, NEW T, IsFiniteSet(S), IsFiniteSet(T), S \cap T = {}
  PROVE  /\ IsFiniteSet(S \cup T)
         /\ Cardinality(S \cup T) = Cardinality(S) + Cardinality(T)
<1>1. IsFiniteSet(S \cup T)
      /\ Cardinality(S \cup T) = Cardinality(S) + Cardinality(T) - Cardinality(S \cap T)
  BY FS_Union, Zenon
<1>2. Cardinality(S \cap T) = 0
  BY FS_EmptySet
<1>3. Cardinality(S) \in Nat /\ Cardinality(T) \in Nat
  BY FS_CardinalityType
<1> QED
  BY <1>1, <1>2, <1>3

\* The same of the workers.
LEMMA WorkerMoves ==
  ASSUME TypeOK, NEW w \in Workers, NEW from, NEW to \in WorkerPlaces,
         WorkerGoes(w, from, to), NEW P
  PROVE  /\ Cardinality(WorkersAt(P)) \in Nat /\ Cardinality(WorkersAt(P)') \in Nat
         /\ (from \in P <=> to \in P) => Cardinality(WorkersAt(P)') = Cardinality(WorkersAt(P))
         /\ from \notin P /\ to \in P => Cardinality(WorkersAt(P)') = Cardinality(WorkersAt(P)) + 1
         /\ from \in P /\ to \notin P => Cardinality(WorkersAt(P)') = Cardinality(WorkersAt(P)) - 1
<1>1. IsFiniteSet(Workers) /\ worker \in [Workers -> WorkerPlaces]
      /\ worker[w] = from /\ worker' = [worker EXCEPT ![w] = to]
  BY LoaderAssumption DEF TypeOK, WorkerGoes
<1>2. /\ WorkersAt(P) = {s \in Workers : worker[s] \in P}
      /\ WorkersAt(P)' = {s \in Workers : worker'[s] \in P}
  BY DEF WorkersAt
<1> DEFINE A == WorkersAt(P)
           B == WorkersAt(P)'
<1>3. A = {s \in Workers : worker[s] \in P} /\ B = {s \in Workers : worker'[s] \in P}
  BY <1>2
<1> HIDE DEF A, B
<1>4. /\ Cardinality(A) \in Nat /\ Cardinality(B) \in Nat
      /\ (worker[w] \in P <=> to \in P) => Cardinality(B) = Cardinality(A)
      /\ worker[w] \notin P /\ to \in P => Cardinality(B) = Cardinality(A) + 1
      /\ worker[w] \in P /\ to \notin P => Cardinality(B) = Cardinality(A) - 1
  BY <1>1, <1>3, CountMove
<1> QED
  BY <1>1, <1>4 DEF A, B

\* The same of the clients.
LEMMA ClientMoves ==
  ASSUME TypeOK, NEW c \in Clients, NEW from, NEW to \in ClientPlaces,
         ClientGoes(c, from, to), NEW P
  PROVE  /\ Cardinality(ClientsAt(P)) \in Nat /\ Cardinality(ClientsAt(P)') \in Nat
         /\ (from \in P <=> to \in P) => Cardinality(ClientsAt(P)') = Cardinality(ClientsAt(P))
         /\ from \notin P /\ to \in P => Cardinality(ClientsAt(P)') = Cardinality(ClientsAt(P)) + 1
         /\ from \in P /\ to \notin P => Cardinality(ClientsAt(P)') = Cardinality(ClientsAt(P)) - 1
<1>1. IsFiniteSet(Clients) /\ client \in [Clients -> ClientPlaces]
      /\ client[c] = from /\ client' = [client EXCEPT ![c] = to]
  BY LoaderAssumption DEF TypeOK, ClientGoes
<1>2. /\ ClientsAt(P) = {s \in Clients : client[s] \in P}
      /\ ClientsAt(P)' = {s \in Clients : client'[s] \in P}
  BY DEF ClientsAt
<1> DEFINE A == ClientsAt(P)
           B == ClientsAt(P)'
<1>3. A = {s \in Clients : client[s] \in P} /\ B = {s \in Clients : client'[s] \in P}
  BY <1>2
<1> HIDE DEF A, B
<1>4. /\ Cardinality(A) \in Nat /\ Cardinality(B) \in Nat
      /\ (client[c] \in P <=> to \in P) => Cardinality(B) = Cardinality(A)
      /\ client[c] \notin P /\ to \in P => Cardinality(B) = Cardinality(A) + 1
      /\ client[c] \in P /\ to \notin P => Cardinality(B) = Cardinality(A) - 1
  BY <1>1, <1>3, CountMove
<1> QED
  BY <1>1, <1>4 DEF A, B

-----------------------------------------------------------------------------
(* The inductive invariant                                                 *)

\* Every accepted load is in exactly one place.
Placed ==
  /\ queue \subseteq issued /\ ready \subseteq issued /\ queue \cap ready = {}
  /\ \A w \in WorkersAt({"loading"}) : job[w] \in issued \ (queue \cup ready)
  /\ \A c \in ClientsAt({"inline"}) : ticket[c] \in issued \ (queue \cup ready)
  /\ \A v, w \in WorkersAt({"loading"}) : job[v] = job[w] => v = w
  /\ \A b, c \in ClientsAt({"inline"}) : ticket[b] = ticket[c] => b = c
  /\ \A w \in WorkersAt({"loading"}), c \in ClientsAt({"inline"}) : job[w] # ticket[c]
  /\ \A k \in issued \ (queue \cup ready) :
        \/ \E w \in WorkersAt({"loading"}) : job[w] = k
        \/ \E c \in ClientsAt({"inline"}) : ticket[c] = k

\* active_workers counts the workers between the pop and the decrement.
Busy == {"loading", "published", "counted", "signalled"}
ActiveCounts == active = Cardinality(WorkersAt(Busy))

\* Only a stopping pool with an empty queue lets workers go, and while it
\* stops nobody is inside submit or wait_idle.
Draining ==
  /\ \A w \in WorkersAt({"exited"}) : phase # "open" /\ queue = {}
  /\ phase # "open" => ClientsAt({"notify", "inline", "idling", "checking"}) = {}
  /\ phase = "gone" => WorkersAt({"exited"}) = Workers

LoaderInv ==
  /\ TypeOK /\ Placed /\ ActiveCounts /\ CountersAgree /\ QueueBounded
  /\ SingleConsumption /\ Draining

\* A new pool establishes it.
LEMMA LoaderInit == Init => LoaderInv
<1> SUFFICES ASSUME Init PROVE LoaderInv
  OBVIOUS
<1>1. TypeOK
  BY DEF Init, TypeOK, Phases, WorkerPlaces, ClientPlaces
<1>2. /\ WorkersAt({"loading"}) = {} /\ WorkersAt(Busy) = {}
      /\ WorkersAt({"loading", "published"}) = {} /\ WorkersAt({"exited"}) = {}
      /\ ClientsAt({"inline"}) = {}
      /\ ClientsAt({"waiting", "woken", "found", "late"}) = {}
  BY DEF Init, WorkersAt, ClientsAt, Busy
<1>3. Cardinality({}) = 0
  BY FS_EmptySet
<1>4. Placed /\ Draining
  BY <1>2 DEF Init, Placed, Draining
<1>5. ActiveCounts /\ CountersAgree /\ QueueBounded /\ SingleConsumption
  <2>1. ActiveCounts
    BY <1>2, <1>3 DEF Init, ActiveCounts
  <2>2. CountersAgree
    <3>1. submissions = 0 /\ completions = 0 /\ queue = {}
      BY DEF Init
    <3>2. 0 = 0 + 0 + 0 + 0
      OBVIOUS
    <3> QED
      BY <1>2, <1>3, <3>1, <3>2, Zenon DEF CountersAgree
  <2>3. QueueBounded
    BY <1>3, LoaderAssumption DEF Init, QueueBounded
  <2>4. SingleConsumption
    <3>1. consumed = {} /\ readyBefore = 0 /\ lateAtUse = 0
      BY DEF Init
    <3>2. 0 = 0 + 0 + 0
      OBVIOUS
    <3> QED
      BY <1>2, <1>3, <3>1, <3>2, Zenon DEF SingleConsumption
  <2> QED
    BY <2>1, <2>2, <2>3, <2>4
<1> QED
  BY <1>1, <1>4, <1>5 DEF LoaderInv

-----------------------------------------------------------------------------
(* One lemma for each part of the invariant                                *)

\* The sets of loads are finite, and so are their numbers.
LEMMA Finite ==
  ASSUME TypeOK
  PROVE  /\ \A S \in SUBSET Tickets : IsFiniteSet(S) /\ Cardinality(S) \in Nat
         /\ \A S \in SUBSET Workers : IsFiniteSet(S) /\ Cardinality(S) \in Nat
         /\ \A S \in SUBSET Clients : IsFiniteSet(S) /\ Cardinality(S) \in Nat
<1>1. ASSUME NEW U, IsFiniteSet(U), NEW S \in SUBSET U
      PROVE  IsFiniteSet(S) /\ Cardinality(S) \in Nat
  BY <1>1, FS_Subset, FS_CardinalityType, Zenon
<1> QED
  BY <1>1, LoaderAssumption, Zenon

\* Types are kept; the decrement of active_workers needs that it counts.
LEMMA TypePreserved ==
  ASSUME LoaderInv, [Next]_vars
  PROVE  TypeOK'
<1> USE DEF LoaderInv, TypeOK, Phases, WorkerPlaces, ClientPlaces, WorkerGoes, ClientGoes,
            poolVars, ticketVars, counters, workerVars, clientVars
<1>1. CASE UNCHANGED vars
  BY <1>1 DEF vars
<1>2. ASSUME NEW c \in Clients, NEW k \in Tickets,
             Submit(c, k) \/ SubmitResident(c, k) \/ Wait(c, k)
      PROVE  TypeOK'
  <2>1. CASE Submit(c, k)
    <3>1. Cardinality(queue') \in Nat
      BY <2>1, Finite DEF Submit
    <3>2. highWater' \in Nat
      BY <2>1, <3>1 DEF Submit, Larger
    <3> QED
      BY <2>1, <3>2 DEF Submit
  <2>2. CASE SubmitResident(c, k)
    BY <2>2 DEF SubmitResident
  <2>3. CASE Wait(c, k)
    BY <2>3 DEF Wait
  <2> QED
    BY <1>2, <2>1, <2>2, <2>3
<1>3. ASSUME NEW c \in Clients,
             ClientStep(c) \/ WaitIdle(c) \/ SpuriousTicketWake(c) \/ SpuriousIdleWake(c)
      PROVE  TypeOK'
  <2>1. CASE NotifyOne(c)
    BY <2>1 DEF NotifyOne
  <2>2. CASE FinishInline(c)
    <3>1. ticket[c] \in issued
      BY <2>2 DEF FinishInline, Placed, ClientsAt
    <3> QED
      BY <2>2, <3>1 DEF FinishInline
  <2>3. CASE Recheck(c)
    BY <2>3 DEF Recheck
  <2>4. CASE Collect(c)
    BY <2>4 DEF Collect
  <2>5. CASE RecheckIdle(c) \/ WaitIdle(c) \/ SpuriousTicketWake(c) \/ SpuriousIdleWake(c)
    BY <2>5 DEF RecheckIdle, WaitIdle, SpuriousTicketWake, SpuriousIdleWake
  <2> QED
    BY <1>3, <2>1, <2>2, <2>3, <2>4, <2>5 DEF ClientStep
<1>4. ASSUME NEW w \in Workers, WorkerStep(w) \/ SpuriousWake(w)
      PROVE  TypeOK'
  <2>1. CASE Take(w)
    BY <2>1 DEF Take
  <2>2. CASE Sleep(w) \/ Exit(w) \/ SpuriousWake(w)
    BY <2>2 DEF Sleep, Exit, SpuriousWake
  <2>3. CASE Publish(w)
    <3>1. job[w] \in issued
      BY <2>3 DEF Publish, Placed, WorkersAt
    <3> QED
      BY <2>3, <3>1 DEF Publish
  <2>4. CASE Count(w)
    BY <2>4 DEF Count
  <2>5. CASE Signal(w)
    BY <2>5 DEF Signal
  <2>6. CASE Retire(w)
    <3>1. Cardinality(WorkersAt(Busy)') \in Nat
          /\ Cardinality(WorkersAt(Busy)') = Cardinality(WorkersAt(Busy)) - 1
      <4>1. TypeOK /\ WorkerGoes(w, "signalled", "retired") /\ "retired" \in WorkerPlaces
        BY <2>6 DEF Retire
      <4>2. "signalled" \in Busy /\ "retired" \notin Busy
        BY DEF Busy
      <4> HIDE DEF TypeOK, WorkerPlaces, WorkerGoes
      <4> QED
        BY <4>1, <4>2, WorkerMoves
    <3>2. active - 1 \in Nat
      BY <3>1 DEF ActiveCounts
    <3> QED
      BY <2>6, <3>2 DEF Retire
  <2>7. CASE NotifyIdle(w)
    BY <2>7 DEF NotifyIdle
  <2> QED
    BY <1>4, <2>1, <2>2, <2>3, <2>4, <2>5, <2>6, <2>7 DEF WorkerStep
<1>5. CASE Stop \/ NotifyWorkers \/ Join
  BY <1>5 DEF Stop, NotifyWorkers, Join
<1> QED
  BY <1>1, <1>2, <1>3, <1>4, <1>5 DEF Next

-----------------------------------------------------------------------------
(* One lemma for each kind of step                                         *)

\* The parts of the invariant beside the types.
Rest ==
  /\ Placed /\ ActiveCounts /\ CountersAgree /\ QueueBounded
  /\ SingleConsumption /\ Draining

Waiting == {"waiting", "woken", "found", "late"}

\* Placed survives steps that leave the loads where they are.
LEMMA PlacedStays ==
  ASSUME Placed, UNCHANGED <<queue, issued, ready>>,
         WorkersAt({"loading"})' = WorkersAt({"loading"}),
         ClientsAt({"inline"})' = ClientsAt({"inline"}),
         \A w \in WorkersAt({"loading"}) : job'[w] = job[w],
         \A c \in ClientsAt({"inline"}) : ticket'[c] = ticket[c]
  PROVE  Placed'
BY DEF Placed

\* submit: a load is queued.
LEMMA SubmitPreserves ==
  ASSUME LoaderInv, NEW c \in Clients, NEW k \in Tickets, Submit(c, k)
  PROVE  Rest'
<1>1. ClientGoes(c, "idle", "notify") /\ TypeOK /\ "notify" \in ClientPlaces
  BY DEF Submit, LoaderInv, ClientPlaces
<1>2. /\ Cardinality(ClientsAt({"inline"})') = Cardinality(ClientsAt({"inline"}))
      /\ Cardinality(ClientsAt(Waiting)') = Cardinality(ClientsAt(Waiting))
  <2>1. "idle" \notin {"inline"} /\ "notify" \notin {"inline"}
        /\ "idle" \notin Waiting /\ "notify" \notin Waiting
    BY DEF Waiting
  <2> QED
    BY <1>1, <2>1, ClientMoves
<1>3. UNCHANGED <<worker, job, ticket, active, ready, consumed, completions, readyBefore,
                  lateAtUse, phase>>
  BY DEF Submit, workerVars
<1>4. k \notin queue /\ queue' = queue \cup {k} /\ queue \in SUBSET Tickets
  BY DEF Submit, LoaderInv, Placed, TypeOK
<1>5. Cardinality(queue') = Cardinality(queue) + 1 /\ Cardinality(queue) \in Nat
  <2>1. IsFiniteSet(queue) /\ Cardinality(queue) \in Nat
    BY <1>1, <1>4, Finite
  <2> QED
    BY <1>4, <2>1, FS_AddElement
<1>6. Placed'
  BY <1>1, <1>3 DEF LoaderInv, TypeOK, Placed, Submit, ClientGoes, WorkersAt, ClientsAt
<1>7. ActiveCounts'
  BY <1>3 DEF LoaderInv, ActiveCounts, WorkersAt
<1>8. CountersAgree'
  <2>1. submissions' = submissions + 1 /\ UNCHANGED <<completions, worker>>
    BY <1>3 DEF Submit
  <2>2. WorkersAt({"loading", "published"})' = WorkersAt({"loading", "published"})
    BY <2>1 DEF WorkersAt
  <2>3. /\ Cardinality(WorkersAt({"loading", "published"})) \in Nat
        /\ Cardinality(ClientsAt({"inline"})) \in Nat /\ completions \in Nat
    BY <1>1, Finite DEF WorkersAt, ClientsAt, TypeOK
  <2> QED
    BY <1>2, <1>5, <2>1, <2>2, <2>3 DEF LoaderInv, CountersAgree
<1>9. QueueBounded'
  BY <1>5, LoaderAssumption DEF LoaderInv, TypeOK, QueueBounded, Submit, HasRoom, Larger
<1>10. SingleConsumption'
  BY <1>2, <1>3 DEF LoaderInv, SingleConsumption, Waiting
<1>11. Draining'
  BY <1>1, <1>3 DEF LoaderInv, TypeOK, Draining, Submit, WorkersAt
<1> QED
  BY <1>6, <1>7, <1>8, <1>9, <1>10, <1>11 DEF Rest

\* submit of a resident expert, and its end on the caller's thread.
LEMMA InlinePreserves ==
  ASSUME LoaderInv, NEW c \in Clients,
         (\E k \in Tickets : SubmitResident(c, k)) \/ FinishInline(c)
  PROVE  Rest'
<1>1. TypeOK /\ UNCHANGED <<worker, job, queue, active, consumed, readyBefore, lateAtUse,
                            highWater, phase>>
  BY DEF LoaderInv, SubmitResident, FinishInline, poolVars, workerVars
<1>2. /\ Cardinality(WorkersAt({"loading", "published"})) \in Nat /\ Cardinality(queue) \in Nat
      /\ Cardinality(ClientsAt({"inline"})) \in Nat /\ completions \in Nat
  BY <1>1, Finite DEF WorkersAt, ClientsAt, TypeOK
<1>3. /\ WorkersAt({"loading", "published"})' = WorkersAt({"loading", "published"})
      /\ WorkersAt({"loading"})' = WorkersAt({"loading"})
      /\ WorkersAt(Busy)' = WorkersAt(Busy) /\ WorkersAt({"exited"})' = WorkersAt({"exited"})
  BY <1>1 DEF WorkersAt
<1>4. "idle" \notin Waiting /\ "inline" \notin Waiting
      /\ "idle" \in ClientPlaces /\ "inline" \in ClientPlaces
  BY DEF Waiting, ClientPlaces
<1>5. ActiveCounts' /\ QueueBounded'
  BY <1>1, <1>3 DEF LoaderInv, ActiveCounts, QueueBounded
<1>6. CASE \E k \in Tickets : SubmitResident(c, k)
  <2> PICK k \in Tickets : SubmitResident(c, k)
    BY <1>6
  <2>1. ClientGoes(c, "idle", "inline") /\ submissions' = submissions + 1
        /\ completions' = completions /\ phase = "open"
    BY DEF SubmitResident
  <2>2. /\ Cardinality(ClientsAt({"inline"})') = Cardinality(ClientsAt({"inline"})) + 1
        /\ Cardinality(ClientsAt(Waiting)') = Cardinality(ClientsAt(Waiting))
    BY <1>1, <1>4, <2>1, ClientMoves
  <2>3. Placed'
    BY <1>1, <1>3 DEF LoaderInv, TypeOK, Placed, SubmitResident, ClientGoes, ClientsAt
  <2>4. CountersAgree' /\ SingleConsumption'
    BY <1>1, <1>2, <1>3, <2>1, <2>2 DEF LoaderInv, CountersAgree, SingleConsumption, Waiting
  <2>5. Draining'
    BY <1>1, <1>3, <2>1 DEF LoaderInv, Draining
  <2> QED
    BY <1>5, <2>3, <2>4, <2>5 DEF Rest
<1>7. CASE FinishInline(c)
  <2>1. ClientGoes(c, "inline", "idle") /\ submissions' = submissions
        /\ completions' = completions + 1
    BY <1>7 DEF FinishInline
  <2>2. /\ Cardinality(ClientsAt({"inline"})') = Cardinality(ClientsAt({"inline"})) - 1
        /\ Cardinality(ClientsAt(Waiting)') = Cardinality(ClientsAt(Waiting))
    BY <1>1, <1>4, <2>1, ClientMoves
  <2>3. Placed'
    BY <1>1, <1>3, <1>7 DEF LoaderInv, TypeOK, Placed, FinishInline, ClientGoes, ClientsAt
  <2>4. CountersAgree' /\ SingleConsumption'
    BY <1>1, <1>2, <1>3, <2>1, <2>2 DEF LoaderInv, CountersAgree, SingleConsumption, Waiting
  <2>5. Draining'
    BY <1>1, <1>3, <2>1 DEF LoaderInv, TypeOK, Draining, ClientGoes, ClientsAt
  <2> QED
    BY <1>5, <2>3, <2>4, <2>5 DEF Rest
<1> QED
  BY <1>6, <1>7

\* wait takes a ticket.
LEMMA WaitPreserves ==
  ASSUME LoaderInv, NEW c \in Clients, NEW k \in Tickets, Wait(c, k)
  PROVE  Rest'
<1> DEFINE to == IF k \in ready THEN "found" ELSE "waiting"
<1>1. TypeOK /\ UNCHANGED <<poolVars, issued, ready, counters, workerVars>>
      /\ ClientGoes(c, "idle", to)
  BY DEF LoaderInv, Wait
<1>2. to \in {"found", "waiting"}
  OBVIOUS
<1> HIDE DEF to
<1>3. to \in ClientPlaces /\ to \in Waiting /\ to \notin {"inline"} /\ "idle" \notin Waiting
      /\ "idle" \notin {"inline"}
  BY <1>2 DEF ClientPlaces, Waiting
<1>4. /\ Cardinality(ClientsAt({"inline"})') = Cardinality(ClientsAt({"inline"}))
      /\ Cardinality(ClientsAt(Waiting)') = Cardinality(ClientsAt(Waiting)) + 1
      /\ Cardinality(ClientsAt(Waiting)) \in Nat
  BY <1>1, <1>3, ClientMoves
<1>5. Cardinality(consumed') = Cardinality(consumed) + 1
  <2>1. k \notin consumed /\ consumed' = consumed \cup {k} /\ consumed \in SUBSET Tickets
    BY <1>1 DEF Wait, TypeOK
  <2>2. IsFiniteSet(consumed)
    BY <1>1, <2>1, Finite
  <2> QED
    BY <2>1, <2>2, FS_AddElement
<1>6. Placed'
  BY <1>1, <1>3 DEF LoaderInv, TypeOK, Placed, Wait, ClientGoes, ClientsAt, WorkersAt,
     poolVars, workerVars
<1>7. ActiveCounts' /\ QueueBounded'
  BY <1>1 DEF LoaderInv, ActiveCounts, QueueBounded, WorkersAt, poolVars, workerVars, counters
<1>8. CountersAgree'
  BY <1>1, <1>4 DEF LoaderInv, CountersAgree, WorkersAt, poolVars, workerVars, counters
<1>9. SingleConsumption'
  BY <1>1, <1>4, <1>5 DEF LoaderInv, TypeOK, SingleConsumption, Waiting, counters
<1>10. Draining'
  BY <1>1, <1>2 DEF LoaderInv, TypeOK, Draining, ClientGoes, ClientsAt, WorkersAt, poolVars,
     workerVars
<1> QED
  BY <1>6, <1>7, <1>8, <1>9, <1>10 DEF Rest

\* The steps of clients that count nothing.
LEMMA ClientQuietPreserves ==
  ASSUME LoaderInv, NEW c \in Clients,
         \/ Recheck(c) \/ SpuriousTicketWake(c)
         \/ RecheckIdle(c) \/ WaitIdle(c) \/ SpuriousIdleWake(c)
         \/ NotifyOne(c) /\ UNCHANGED worker
  PROVE  Rest'
<1>1. TypeOK /\ UNCHANGED <<poolVars, ticketVars, counters, workerVars, ticket>>
  BY DEF LoaderInv, Recheck, SpuriousTicketWake, RecheckIdle, WaitIdle, SpuriousIdleWake,
     NotifyOne, workerVars
<1>2. PICK from \in ClientPlaces, to \in ClientPlaces :
        /\ ClientGoes(c, from, to)
        /\ from # "inline" /\ to # "inline" /\ to # "notify" /\ (from \in Waiting <=> to \in Waiting)
        /\ to \in {"idling", "checking"} => from \in {"idling", "checking"} \/ phase = "open"
  BY DEF Recheck, SpuriousTicketWake, RecheckIdle, WaitIdle, SpuriousIdleWake, NotifyOne,
     ClientPlaces, Waiting
<1>3. /\ Cardinality(ClientsAt({"inline"})') = Cardinality(ClientsAt({"inline"}))
      /\ Cardinality(ClientsAt(Waiting)') = Cardinality(ClientsAt(Waiting))
  BY <1>1, <1>2, ClientMoves
<1>4. ClientsAt({"inline"})' = ClientsAt({"inline"})
  BY <1>1, <1>2 DEF TypeOK, ClientGoes, ClientsAt
<1>5. \A P : WorkersAt(P)' = WorkersAt(P)
  BY <1>1 DEF WorkersAt, workerVars
<1>6. Placed'
  BY <1>1, <1>4, <1>5, PlacedStays DEF LoaderInv, poolVars, ticketVars, workerVars
<1>7. ActiveCounts' /\ QueueBounded' /\ CountersAgree'
  BY <1>1, <1>3, <1>5
  DEF LoaderInv, ActiveCounts, QueueBounded, CountersAgree, poolVars, counters
<1>8. SingleConsumption'
  BY <1>1, <1>3 DEF LoaderInv, SingleConsumption, Waiting, counters, ticketVars
<1>9. Draining'
  BY <1>1, <1>2, <1>5 DEF LoaderInv, TypeOK, Draining, ClientGoes, ClientsAt, poolVars
<1> QED
  BY <1>6, <1>7, <1>8, <1>9 DEF Rest

\* wait returns its result.
LEMMA CollectPreserves ==
  ASSUME LoaderInv, NEW c \in Clients, Collect(c)
  PROVE  Rest'
<1>1. TypeOK /\ UNCHANGED <<poolVars, ticketVars, submissions, inlineHits, completions,
                            highWater, workerVars>>
      /\ ticket' = [ticket EXCEPT ![c] = NoTicket]
  BY DEF LoaderInv, Collect
<1>2. PICK from \in {"found", "late"} :
        /\ ClientGoes(c, from, "idle")
        /\ \/ readyBefore' = readyBefore + 1 /\ lateAtUse' = lateAtUse
           \/ readyBefore' = readyBefore /\ lateAtUse' = lateAtUse + 1
  BY <1>1 DEF Collect, TypeOK
<1>3. from \in Waiting /\ "idle" \notin Waiting /\ from \notin {"inline"} /\ "idle" \notin {"inline"}
      /\ "idle" \in ClientPlaces
  BY <1>2 DEF Waiting, ClientPlaces
<1>4. /\ Cardinality(ClientsAt({"inline"})') = Cardinality(ClientsAt({"inline"}))
      /\ Cardinality(ClientsAt(Waiting)') = Cardinality(ClientsAt(Waiting)) - 1
      /\ Cardinality(ClientsAt(Waiting)) \in Nat
  BY <1>1, <1>2, <1>3, ClientMoves
<1>5. \A P : WorkersAt(P)' = WorkersAt(P)
  BY <1>1 DEF WorkersAt, workerVars
<1>6. Placed'
  <2>1. ClientsAt({"inline"})' = ClientsAt({"inline"})
        /\ \A d \in ClientsAt({"inline"}) : ticket'[d] = ticket[d]
    BY <1>1, <1>2 DEF TypeOK, ClientGoes, ClientsAt
  <2> QED
    BY <1>1, <1>5, <2>1, PlacedStays DEF LoaderInv, poolVars, ticketVars, workerVars
<1>7. ActiveCounts' /\ QueueBounded' /\ CountersAgree'
  BY <1>1, <1>4, <1>5 DEF LoaderInv, ActiveCounts, QueueBounded, CountersAgree, poolVars
<1>8. SingleConsumption'
  <2>1. consumed' = consumed /\ readyBefore \in Nat /\ lateAtUse \in Nat
    BY <1>1 DEF TypeOK, ticketVars
  <2>2. Cardinality(consumed) = readyBefore + lateAtUse + Cardinality(ClientsAt(Waiting))
    BY DEF LoaderInv, SingleConsumption, Waiting
  <2>3. Cardinality(consumed) = readyBefore' + lateAtUse' + Cardinality(ClientsAt(Waiting)')
    BY <1>2, <1>4, <2>1, <2>2
  <2> QED
    BY <2>1, <2>3 DEF SingleConsumption, Waiting
<1>9. Draining'
  BY <1>1, <1>2, <1>5 DEF LoaderInv, TypeOK, Draining, ClientGoes, ClientsAt, poolVars
<1> QED
  BY <1>6, <1>7, <1>8, <1>9 DEF Rest

\* The steps of workers that neither take nor answer a load, and the
\* notification of a worker.
LEMMA WorkerQuietPreserves ==
  ASSUME LoaderInv, NEW w \in Workers,
         \/ Sleep(w) \/ Exit(w) \/ SpuriousWake(w)
         \/ \E c \in Clients : NotifyOne(c) /\ WorkerGoes(w, "asleep", "head")
  PROVE  Rest'
<1>1. TypeOK /\ UNCHANGED <<poolVars, ticketVars, counters, job, ticket>>
  BY DEF LoaderInv, Sleep, Exit, SpuriousWake, NotifyOne, clientVars
<1>2. PICK from \in {"head", "asleep"}, to \in {"head", "asleep", "exited"} :
        WorkerGoes(w, from, to) /\ (to = "exited" => queue = {} /\ phase # "open")
  BY DEF Sleep, Exit, SpuriousWake
<1>3. \/ client' = client
      \/ \E c \in Clients : ClientGoes(c, "notify", "idle")
  BY DEF Sleep, Exit, SpuriousWake, NotifyOne, clientVars
<1>4. /\ WorkersAt({"loading"})' = WorkersAt({"loading"}) /\ WorkersAt(Busy)' = WorkersAt(Busy)
      /\ WorkersAt({"loading", "published"})' = WorkersAt({"loading", "published"})
      /\ WorkersAt({"exited"})' \subseteq WorkersAt({"exited"}) \cup {w}
      /\ WorkersAt({"exited"}) \subseteq WorkersAt({"exited"})'
      /\ to # "exited" => WorkersAt({"exited"})' = WorkersAt({"exited"})
  BY <1>1, <1>2 DEF TypeOK, WorkerGoes, WorkersAt, Busy
<1>5. /\ ClientsAt({"inline"})' = ClientsAt({"inline"}) /\ ClientsAt(Waiting)' = ClientsAt(Waiting)
      /\ ClientsAt({"notify", "inline", "idling", "checking"})'
           \subseteq ClientsAt({"notify", "inline", "idling", "checking"})
  BY <1>1, <1>3 DEF TypeOK, ClientGoes, ClientsAt, Waiting
<1>6. Placed'
  BY <1>1, <1>4, <1>5, PlacedStays DEF LoaderInv, poolVars, ticketVars
<1>7. ActiveCounts' /\ QueueBounded' /\ CountersAgree'
  BY <1>1, <1>4, <1>5 DEF LoaderInv, ActiveCounts, QueueBounded, CountersAgree, poolVars, counters
<1>8. SingleConsumption'
  BY <1>1, <1>5 DEF LoaderInv, SingleConsumption, Waiting, counters, ticketVars
<1>9. Draining'
  <2>1. queue' = queue /\ phase' = phase /\ Draining
    BY <1>1 DEF poolVars, LoaderInv
  <2>2. \A v \in WorkersAt({"exited"})' : phase # "open" /\ queue = {}
    <3>1. CASE to = "exited"
      BY <1>2, <3>1
    <3>2. CASE to # "exited"
      BY <1>4, <2>1, <3>2 DEF Draining
    <3> QED
      BY <3>1, <3>2
  <2>3. WorkersAt({"exited"})' \subseteq Workers
    BY DEF WorkersAt
  <2>4. phase = "gone" => WorkersAt({"exited"})' = Workers
    BY <1>4, <2>1, <2>3 DEF Draining
  <2> QED
    BY <2>1, <2>2, <2>3, <2>4, <1>5 DEF Draining
<1> QED
  BY <1>6, <1>7, <1>8, <1>9 DEF Rest

\* A worker pops a load.
LEMMA TakePreserves ==
  ASSUME LoaderInv, NEW w \in Workers, Take(w)
  PROVE  Rest'
<1>1. TypeOK /\ UNCHANGED <<phase, ticketVars, counters, clientVars>>
      /\ WorkerGoes(w, "head", "loading") /\ "loading" \in WorkerPlaces
  BY DEF LoaderInv, Take, WorkerPlaces
<1>2. PICK k \in queue : queue' = queue \ {k} /\ job' = [job EXCEPT ![w] = k]
  BY DEF Take
<1>3. /\ Cardinality(WorkersAt(Busy)') = Cardinality(WorkersAt(Busy)) + 1
      /\ Cardinality(WorkersAt({"loading", "published"})')
           = Cardinality(WorkersAt({"loading", "published"})) + 1
      /\ Cardinality(WorkersAt({"loading", "published"})) \in Nat
  <2>1. "head" \notin Busy /\ "loading" \in Busy /\ "head" \notin {"loading", "published"}
        /\ "loading" \in {"loading", "published"}
    BY DEF Busy
  <2> QED
    BY <1>1, <2>1, WorkerMoves
<1>4. Cardinality(queue') = Cardinality(queue) - 1 /\ Cardinality(queue) \in Nat
      /\ Cardinality(queue') \in Nat
  <2>1. IsFiniteSet(queue) /\ Cardinality(queue) \in Nat /\ Cardinality(queue \ {k}) \in Nat
    BY <1>1, Finite DEF TypeOK
  <2> QED
    BY <1>2, <2>1, FS_RemoveElement
<1>5. \A P : ClientsAt(P)' = ClientsAt(P)
  BY <1>1 DEF ClientsAt, clientVars
<1>6. Placed'
  <2>1. WorkersAt({"loading"})' = WorkersAt({"loading"}) \cup {w} /\ w \notin WorkersAt({"loading"})
    BY <1>1 DEF TypeOK, WorkerGoes, WorkersAt
  <2>2. /\ job'[w] = k
        /\ \A v \in WorkersAt({"loading"}) : job'[v] = job[v]
    BY <1>1, <1>2, <2>1 DEF TypeOK, WorkersAt
  <2> QED
    BY <1>1, <1>2, <1>5, <2>1, <2>2 DEF LoaderInv, Placed, ticketVars, clientVars
<1>7. ActiveCounts'
  BY <1>3 DEF LoaderInv, ActiveCounts, Take
<1>8. CountersAgree'
  <2>1. Cardinality(ClientsAt({"inline"})) \in Nat /\ completions \in Nat
    BY <1>1, Finite DEF ClientsAt, TypeOK
  <2> QED
    BY <1>1, <1>3, <1>4, <1>5, <2>1 DEF LoaderInv, CountersAgree, counters
<1>9. QueueBounded'
  BY <1>1, <1>4, LoaderAssumption DEF LoaderInv, TypeOK, QueueBounded, counters
<1>10. SingleConsumption'
  BY <1>1, <1>5 DEF LoaderInv, SingleConsumption, counters, ticketVars
<1>11. Draining'
  <2>1. WorkersAt({"exited"})' = WorkersAt({"exited"}) /\ WorkersAt({"exited"}) = {}
    BY <1>1, <1>2 DEF LoaderInv, TypeOK, Draining, WorkerGoes, WorkersAt
  <2> QED
    BY <1>1, <1>5, <2>1 DEF LoaderInv, Draining
<1> QED
  BY <1>6, <1>7, <1>8, <1>9, <1>10, <1>11 DEF Rest

\* The steps that answer a load: its result, the count and the decrement of
\* active_workers, with the notifications between and after them.
LEMMA AnswerPreserves ==
  ASSUME LoaderInv, NEW w \in Workers,
         Publish(w) \/ Count(w) \/ Signal(w) \/ Retire(w) \/ NotifyIdle(w)
  PROVE  Rest'
<1>1. TypeOK /\ UNCHANGED <<queue, phase, issued, consumed, submissions, readyBefore,
                            lateAtUse, highWater, ticket>>
  BY DEF LoaderInv, Publish, Count, Signal, Retire, NotifyIdle, poolVars, ticketVars, counters,
     clientVars
<1>2. PICK from \in WorkerPlaces, to \in WorkerPlaces :
        /\ WorkerGoes(w, from, to)
        /\ <<from, to>> \in {<<"loading", "published">>, <<"published", "counted">>,
              <<"counted", "signalled">>, <<"signalled", "retired">>, <<"retired", "head">>}
  BY DEF Publish, Count, Signal, Retire, NotifyIdle, WorkerPlaces
<1>3. /\ ClientsAt({"inline"})' = ClientsAt({"inline"}) /\ ClientsAt(Waiting)' = ClientsAt(Waiting)
      /\ ClientsAt({"notify", "inline", "idling", "checking"})'
           = ClientsAt({"notify", "inline", "idling", "checking"})
  BY <1>1 DEF TypeOK, Publish, Count, Signal, Retire, NotifyIdle, ClientsAt, Waiting, clientVars
<1>4. WorkersAt({"exited"})' = WorkersAt({"exited"})
  BY <1>1, <1>2 DEF TypeOK, WorkerGoes, WorkersAt
<1>5. SingleConsumption' /\ QueueBounded' /\ Draining'
  BY <1>1, <1>3, <1>4 DEF LoaderInv, SingleConsumption, Waiting, QueueBounded, Draining
<1>6. ActiveCounts'
  <2>1. CASE Retire(w)
    <3>1. "signalled" \in Busy /\ "retired" \notin Busy /\ "retired" \in WorkerPlaces
          /\ WorkerGoes(w, "signalled", "retired") /\ active' = active - 1
      BY <2>1 DEF Busy, WorkerPlaces, Retire
    <3>2. Cardinality(WorkersAt(Busy)') = Cardinality(WorkersAt(Busy)) - 1
      BY <1>1, <3>1, WorkerMoves
    <3> QED
      BY <3>1, <3>2 DEF LoaderInv, ActiveCounts
  <2>2. CASE ~Retire(w)
    <3>1. active' = active /\ WorkersAt(Busy)' = WorkersAt(Busy)
      BY <1>1, <2>2 DEF TypeOK, Publish, Count, Signal, NotifyIdle, WorkerGoes, WorkersAt, Busy,
         poolVars
    <3> QED
      BY <3>1 DEF LoaderInv, ActiveCounts
  <2> QED
    BY <2>1, <2>2
<1>7. CountersAgree'
  <2>1. CASE Count(w)
    <3>1. "published" \in {"loading", "published"} /\ "counted" \notin {"loading", "published"}
          /\ WorkerGoes(w, "published", "counted") /\ "counted" \in WorkerPlaces
          /\ completions' = completions + 1
      BY <2>1 DEF Count, WorkerPlaces
    <3>2. Cardinality(WorkersAt({"loading", "published"})')
            = Cardinality(WorkersAt({"loading", "published"})) - 1
      BY <1>1, <3>1, WorkerMoves
    <3>3. Cardinality(ClientsAt({"inline"})) \in Nat /\ completions \in Nat
          /\ Cardinality(queue) \in Nat /\ Cardinality(WorkersAt({"loading", "published"})) \in Nat
      BY <1>1, Finite DEF ClientsAt, WorkersAt, TypeOK
    <3> QED
      BY <1>1, <1>3, <3>1, <3>2, <3>3 DEF LoaderInv, CountersAgree
  <2>2. CASE ~Count(w)
    <3>1. completions' = completions
          /\ WorkersAt({"loading", "published"})' = WorkersAt({"loading", "published"})
      BY <1>1, <2>2 DEF TypeOK, Publish, Signal, Retire, NotifyIdle, WorkerGoes, WorkersAt, counters
    <3> QED
      BY <1>1, <1>3, <3>1 DEF LoaderInv, CountersAgree
  <2> QED
    BY <2>1, <2>2
<1>8. Placed'
  <2>1. CASE Publish(w)
    <3>1. /\ ready' = ready \cup {job[w]} /\ job' = job
          /\ WorkersAt({"loading"})' = WorkersAt({"loading"}) \ {w} /\ w \in WorkersAt({"loading"})
      BY <1>1, <2>1 DEF TypeOK, Publish, WorkerGoes, WorkersAt
    <3> QED
      BY <1>1, <1>3, <3>1 DEF LoaderInv, Placed
  <2>2. CASE ~Publish(w)
    <3>1. /\ ready' = ready /\ WorkersAt({"loading"})' = WorkersAt({"loading"})
          /\ \A v \in WorkersAt({"loading"}) : job'[v] = job[v]
      BY <1>1, <2>2 DEF TypeOK, Count, Signal, Retire, NotifyIdle, WorkerGoes, WorkersAt, ticketVars
    <3> QED
      BY <1>1, <1>3, <3>1, PlacedStays DEF LoaderInv
  <2> QED
    BY <2>1, <2>2
<1> QED
  BY <1>5, <1>6, <1>7, <1>8 DEF Rest

\* The destructor.
LEMMA StopPreserves ==
  ASSUME LoaderInv, Stop \/ NotifyWorkers \/ Join
  PROVE  Rest'
<1>1. TypeOK /\ UNCHANGED <<queue, active, ticketVars, counters, job, clientVars>>
  BY DEF LoaderInv, Stop, NotifyWorkers, Join, workerVars
<1>2. /\ WorkersAt({"loading"})' = WorkersAt({"loading"}) /\ WorkersAt(Busy)' = WorkersAt(Busy)
      /\ WorkersAt({"loading", "published"})' = WorkersAt({"loading", "published"})
      /\ WorkersAt({"exited"})' = WorkersAt({"exited"})
  BY <1>1 DEF TypeOK, Stop, NotifyWorkers, Join, WorkersAt, Busy, workerVars
<1>3. \A P : ClientsAt(P)' = ClientsAt(P)
  BY <1>1 DEF ClientsAt, clientVars
<1>4. Placed'
  BY <1>1, <1>2, <1>3, PlacedStays DEF LoaderInv, ticketVars, clientVars
<1>5. ActiveCounts' /\ QueueBounded' /\ CountersAgree' /\ SingleConsumption'
  BY <1>1, <1>2, <1>3
  DEF LoaderInv, ActiveCounts, QueueBounded, CountersAgree, SingleConsumption, counters, ticketVars
<1>6. Draining'
  <2>1. phase' # "open" /\ ClientsAt({"notify", "inline", "idling", "checking"}) = {}
    BY DEF LoaderInv, Draining, Stop, NotifyWorkers, Join, ClientsAt
  <2>2. phase' = "gone" => WorkersAt({"exited"}) = Workers
    BY DEF Stop, NotifyWorkers, Join, WorkersAt
  <2> QED
    BY <1>1, <1>2, <1>3, <2>1, <2>2 DEF LoaderInv, Draining
<1> QED
  BY <1>4, <1>5, <1>6 DEF Rest

-----------------------------------------------------------------------------
(* The invariant, and what follows from it                                 *)

\* Every step preserves the invariant.
LEMMA LoaderStep == LoaderInv /\ [Next]_vars => LoaderInv'
<1> SUFFICES ASSUME LoaderInv, [Next]_vars PROVE Rest'
  BY TypePreserved DEF LoaderInv, Rest
<1>1. CASE UNCHANGED vars
  BY <1>1 DEF LoaderInv, Rest, Placed, ActiveCounts, CountersAgree, QueueBounded,
     SingleConsumption, Draining, WorkersAt, ClientsAt, vars, poolVars, ticketVars, counters,
     workerVars, clientVars
<1>2. ASSUME NEW c \in Clients, NEW k \in Tickets,
             Submit(c, k) \/ SubmitResident(c, k) \/ Wait(c, k)
      PROVE  Rest'
  BY <1>2, SubmitPreserves, InlinePreserves, WaitPreserves
<1>3. ASSUME NEW c \in Clients,
             ClientStep(c) \/ WaitIdle(c) \/ SpuriousTicketWake(c) \/ SpuriousIdleWake(c)
      PROVE  Rest'
  <2>1. CASE NotifyOne(c)
    <3>1. CASE \E w \in Workers : worker[w] = "asleep"
      BY <2>1, <3>1, WorkerQuietPreserves DEF NotifyOne
    <3>2. CASE ~\E w \in Workers : worker[w] = "asleep"
      BY <2>1, <3>2, ClientQuietPreserves DEF NotifyOne
    <3> QED
      BY <3>1, <3>2
  <2>2. CASE ~NotifyOne(c)
    BY <1>3, <2>2, InlinePreserves, ClientQuietPreserves, CollectPreserves DEF ClientStep
  <2> QED
    BY <2>1, <2>2
<1>4. ASSUME NEW w \in Workers, WorkerStep(w) \/ SpuriousWake(w)
      PROVE  Rest'
  BY <1>4, WorkerQuietPreserves, TakePreserves, AnswerPreserves DEF WorkerStep
<1>5. CASE Stop \/ NotifyWorkers \/ Join
  BY <1>5, StopPreserves
<1> QED
  BY <1>1, <1>2, <1>3, <1>4, <1>5 DEF Next

\* Every variable keeps its type.
THEOREM LoaderTypeCorrect == Spec => []TypeOK
<1>1. LoaderInv => TypeOK
  BY DEF LoaderInv
<1> QED
  BY LoaderInit, LoaderStep, <1>1, PTL DEF Spec

\* Every accepted load is in exactly one place: queued, held by one worker,
\* running inline, or answered.
THEOREM JobConservationCorrect == Spec => []JobConservation
<1>1. LoaderInv => JobConservation
  <2> SUFFICES ASSUME LoaderInv PROVE JobConservation
    OBVIOUS
  <2> DEFINE W == WorkersAt({"loading"})
             C == ClientsAt({"inline"})
             held == {job[w] : w \in W}
             inline == {ticket[c] : c \in C}
  <2>1. /\ IsFiniteSet(queue) /\ IsFiniteSet(ready) /\ IsFiniteSet(W) /\ IsFiniteSet(C)
        /\ Cardinality(queue) \in Nat /\ Cardinality(ready) \in Nat
        /\ Cardinality(W) \in Nat /\ Cardinality(C) \in Nat
    BY Finite DEF LoaderInv, TypeOK, WorkersAt, ClientsAt
  <2>2. Cardinality(held) = Cardinality(W) /\ IsFiniteSet(held)
    <3>1. \A v, w \in W : job[v] = job[w] => v = w
      BY DEF LoaderInv, Placed
    <3> QED
      BY <2>1, <3>1, SameSize
  <2>3. Cardinality(inline) = Cardinality(C) /\ IsFiniteSet(inline)
    <3>1. \A b, c \in C : ticket[b] = ticket[c] => b = c
      BY DEF LoaderInv, Placed
    <3> QED
      BY <2>1, <3>1, SameSize
  <2>4. /\ issued = (queue \cup ready) \cup (held \cup inline)
        /\ queue \cap ready = {} /\ held \cap inline = {}
        /\ (queue \cup ready) \cap (held \cup inline) = {}
    BY DEF LoaderInv, Placed
  <2> HIDE DEF W, C, held, inline
  <2>5. /\ IsFiniteSet(queue \cup ready)
        /\ Cardinality(queue \cup ready) = Cardinality(queue) + Cardinality(ready)
    BY <2>1, <2>4, DisjointUnion
  <2>6. /\ IsFiniteSet(held \cup inline)
        /\ Cardinality(held \cup inline) = Cardinality(W) + Cardinality(C)
    BY <2>2, <2>3, <2>4, DisjointUnion
  <2>7. Cardinality(issued) = (Cardinality(queue) + Cardinality(ready))
                                + (Cardinality(W) + Cardinality(C))
    BY <2>4, <2>5, <2>6, DisjointUnion
  <2>8. Cardinality(issued) = Cardinality(queue) + Cardinality(W) + Cardinality(C)
                                + Cardinality(ready)
    BY <2>1, <2>7
  <2>9. issued = queue \cup held \cup inline \cup ready
    BY <2>4
  <2> QED
    BY <2>8, <2>9 DEF JobConservation, W, C, held, inline
<1> QED
  BY LoaderInit, LoaderStep, <1>1, PTL DEF Spec

\* Each ticket's result is handed out once.
THEOREM SingleConsumptionCorrect == Spec => []SingleConsumption
<1>1. LoaderInv => SingleConsumption
  BY DEF LoaderInv
<1> QED
  BY LoaderInit, LoaderStep, <1>1, PTL DEF Spec

\* When nothing is queued and active_workers is zero, everything queued has
\* been answered and counted: what wait_idle promises.
THEOREM IdleMeansCompleteCorrect == Spec => []IdleMeansComplete
<1>1. LoaderInv => IdleMeansComplete
  <2> SUFFICES ASSUME LoaderInv, Idle
               PROVE  /\ submissions = completions + Cardinality(ClientsAt({"inline"}))
                      /\ WorkersAt({"loading", "published", "counted"}) = {}
    BY DEF IdleMeansComplete
  <2>1. WorkersAt(Busy) = {}
    <3>1. IsFiniteSet(WorkersAt(Busy)) /\ Cardinality(WorkersAt(Busy)) = 0
      BY Finite DEF LoaderInv, WorkersAt, ActiveCounts, Idle
    <3> QED
      BY <3>1, FS_EmptySet, Zenon
  <2>2. /\ WorkersAt({"loading", "published"}) = {} /\ queue = {}
        /\ WorkersAt({"loading", "published", "counted"}) = {}
    BY <2>1 DEF WorkersAt, Busy, Idle
  <2>3. Cardinality(queue) = 0 /\ Cardinality(WorkersAt({"loading", "published"})) = 0
    BY <2>2, FS_EmptySet
  <2>4. completions \in Nat /\ Cardinality(ClientsAt({"inline"})) \in Nat
    BY Finite DEF LoaderInv, TypeOK, ClientsAt
  <2> QED
    BY <2>2, <2>3, <2>4 DEF LoaderInv, CountersAgree
<1> QED
  BY LoaderInit, LoaderStep, <1>1, PTL DEF Spec

\* When the destructor has returned no worker runs and every ticket has its
\* result.
THEOREM DestructionDrainsCorrect == Spec => []DestructionDrains
<1>1. LoaderInv => DestructionDrains
  <2> SUFFICES ASSUME LoaderInv, phase = "gone"
               PROVE  /\ WorkersAt({"exited"}) = Workers
                      /\ ready = issued /\ submissions = completions
    BY DEF DestructionDrains
  <2>1. WorkersAt({"exited"}) = Workers /\ queue = {}
    BY LoaderAssumption DEF LoaderInv, Draining
  <2>2. /\ WorkersAt({"loading"}) = {} /\ WorkersAt({"loading", "published"}) = {}
        /\ ClientsAt({"inline"}) = {}
    BY <2>1 DEF LoaderInv, Draining, WorkersAt, ClientsAt
  <2>3. ready = issued
    BY <2>1, <2>2 DEF LoaderInv, Placed
  <2>4. Cardinality(queue) = 0 /\ Cardinality(WorkersAt({"loading", "published"})) = 0
        /\ Cardinality(ClientsAt({"inline"})) = 0
    BY <2>1, <2>2, FS_EmptySet
  <2>5. submissions = completions
    BY <2>4 DEF LoaderInv, TypeOK, CountersAgree
  <2> QED
    BY <2>1, <2>3, <2>5
<1> QED
  BY LoaderInit, LoaderStep, <1>1, PTL DEF Spec
=============================================================================
