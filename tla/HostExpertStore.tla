--------------------------- MODULE HostExpertStore ---------------------------
(***************************************************************************)
(* The L1 expert store of runtime/src/host_expert_store.cpp: a cache of    *)
(* immutable expert payloads, bounded in bytes, shared by the deadline     *)
(* workers and the generation thread.  get_or_load looks the key up under  *)
(* mutex_, runs the loader outside of it, and takes it again to admit the  *)
(* payload; loading_ keeps a second thread from loading the same key.      *)
(*                                                                         *)
(* A step of this module is a critical section of mutex_, a run of the     *)
(* loader, or a notification, which is sent after the mutex is released.   *)
(* last_access keeps its counter (bounded by MaxCalls); last_cycle is only *)
(* ever compared with active_cycle_ and is kept as that comparison.        *)
(* insertion is dropped: it breaks ties of last_access, which is unique.   *)
(***************************************************************************)
EXTENDS ExpertBytes

CONSTANTS
  Threads,        \* the threads that may call the store
  Layer,          \* Layer[k]: the decoder layer of expert k
  Capacity,       \* capacity_bytes_
  Modes,          \* the cache modes a behaviour may be configured with
  Callers,        \* Callers[m]: the threads that do so in mode m
  MaxCalls,       \* bound: MaxCalls[m] calls of get_or_load in mode m
  MaxAccessSets,  \* bound: MaxAccessSets[m] calls of begin_access_set in mode m
  Scores          \* the usefulness values a profile may give

AllModes ==
  {"disabled", "static", "lru", "lfu", "least_stale", "profiled"}

ASSUME StoreAssumption ==
  /\ Keys # {}
  /\ Layer \in [Keys -> Nat]
  /\ Capacity \in Nat
  /\ Modes \subseteq AllModes
  /\ Callers \in [Modes -> SUBSET Threads]
  /\ MaxCalls \in [Modes -> Nat]
  /\ MaxAccessSets \in [Modes -> Nat]
  /\ Scores \subseteq Nat

VARIABLES
  mode,         \* mode_, fixed by the constructor
  entries,      \* the keys of entries_
  meta,         \* last_cycle = active_cycle_, last_access, frequency
  protected,    \* protected_
  evictedNow,   \* the keys whose evicted_cycle_ is active_cycle_
  activeLayer,  \* active_layer_
  score,        \* profile_->usefulness, as of the last observation
  accessSets,   \* how many access sets have begun
  calls,        \* how many calls have begun
  clock,        \* next_access_
  loading,      \* loading_
  stats,        \* stats_
  pc,           \* pc[t]: where thread t is in get_or_load
  want,         \* want[t]: the key of its current or last call
  outcome       \* outcome[t]: how its last call returned

policyVars == <<protected, activeLayer, score, accessSets>>
cacheVars == <<entries, meta, evictedNow, clock, stats>>
vars == <<mode, entries, meta, protected, evictedNow, activeLayer, score,
          accessSets, calls, clock, loading, stats, pc, want, outcome>>

Stats == [hits : Nat, misses : Nat, bypasses : Nat, evictions : Nat,
          collisions : Nat, resident : Nat, peak : Nat]
ZeroStats == [hits |-> 0, misses |-> 0, bypasses |-> 0, evictions |-> 0,
              collisions |-> 0, resident |-> 0, peak |-> 0]
Metadata == [current : BOOLEAN, access : Nat, frequency : Nat]
Blank == [current |-> FALSE, access |-> 0, frequency |-> 0]
Outcomes == {"none", "handle", "failure"}
Positions ==
  {"idle", "enter", "blocked", "loading", "admit", "release", "notify"}

Init ==
  /\ mode \in Modes
  /\ entries = {}
  /\ meta = [k \in Keys |-> Blank]
  /\ protected = {}
  /\ evictedNow = {}
  /\ activeLayer = 0
  /\ score = [k \in Keys |-> 0]
  /\ accessSets = 0
  /\ calls = 0
  /\ clock = 0
  /\ loading = {}
  /\ stats = ZeroStats
  /\ pc = [t \in Threads |-> "idle"]
  /\ want = [t \in Threads |-> CHOOSE k \in Keys : TRUE]
  /\ outcome = [t \in Threads |-> "none"]

Goto(t, from, to) == pc[t] = from /\ pc' = [pc EXCEPT ![t] = to]
Finish(t, how) == outcome' = [outcome EXCEPT ![t] = how]

-----------------------------------------------------------------------------
(* Entering get_or_load.                                                   *)

\* A call looks its key up unless the cache is disabled.
Call(t, k) ==
  /\ t \in Callers[mode]
  /\ calls < MaxCalls[mode]
  /\ calls' = calls + 1
  /\ want' = [want EXCEPT ![t] = k]
  /\ Finish(t, "none")
  /\ Goto(t, "idle", IF mode = "disabled" THEN "loading" ELSE "enter")
  /\ UNCHANGED <<mode, loading, policyVars, cacheVars>>

Hit(t) ==
  /\ want[t] \in entries
  /\ Goto(t, "enter", "idle")
  /\ Finish(t, "handle")
  /\ stats' = [stats EXCEPT !.hits = @ + 1]
  /\ meta' = [meta EXCEPT ![want[t]] =
                [current |-> TRUE, access |-> clock, frequency |-> @.frequency + 1]]
  /\ clock' = clock + 1
  /\ UNCHANGED <<mode, entries, evictedNow, loading, calls, want, policyVars>>

\* Mutant: the key is not looked up in loading_.
OwnUnderAnotherLoad(t) ==
  /\ want[t] \notin entries
  /\ loading' = loading \cup {want[t]}
  /\ Goto(t, "enter", "loading")
  /\ UNCHANGED <<mode, calls, want, outcome, policyVars, cacheVars>>

\* The first thread to miss owns the load of the key.
Own(t) ==
  /\ want[t] \notin entries
  /\ want[t] \notin loading
  /\ loading' = loading \cup {want[t]}
  /\ Goto(t, "enter", "loading")
  /\ UNCHANGED <<mode, calls, want, outcome, policyVars, cacheVars>>

\* load_condition_.wait(lock) while another thread loads the key.
Block(t) ==
  /\ want[t] \notin entries
  /\ want[t] \in loading
  /\ Goto(t, "enter", "blocked")
  /\ UNCHANGED <<mode, loading, calls, want, outcome, policyVars, cacheVars>>

\* A condition variable may wake a waiter nobody notified.
SpuriousWake(t) ==
  /\ Goto(t, "blocked", "enter")
  /\ UNCHANGED <<mode, loading, calls, want, outcome, policyVars, cacheVars>>

-----------------------------------------------------------------------------
(* The loader, outside the mutex.                                          *)

\* Mutant: the error path returns without finish_load.
LoaderFailsUnreleased(t) ==
  /\ Goto(t, "loading", "idle")
  /\ Finish(t, "failure")
  /\ UNCHANGED <<mode, loading, calls, want, policyVars, cacheVars>>

\* The loader throws, returns an error, or returns a payload that
\* charged_bytes rejects.  Only the owner of a load has a key to release.
LoaderFails(t) ==
  /\ Goto(t, "loading", IF mode = "disabled" THEN "idle" ELSE "release")
  /\ Finish(t, "failure")
  /\ UNCHANGED <<mode, loading, calls, want, policyVars, cacheVars>>

LoaderSucceeds(t) ==
  /\ Goto(t, "loading", IF mode = "disabled" THEN "idle" ELSE "admit")
  /\ Finish(t, "handle")
  /\ UNCHANGED <<mode, loading, calls, want, policyVars, cacheVars>>

-----------------------------------------------------------------------------
(* Choosing victims.                                                       *)

\* Mutant: the victim loop does not skip the access set.
AnyEntry == entries

Evictable == entries \ protected

\* Mutant: the new payload is compared with the capacity alone.
RoomForOne(k, D) == Bytes[k] <= Capacity + Charged(D)

\* bytes <= capacity_bytes_ - stats_.resident_bytes once D is evicted
RoomAfter(k, D) == Bytes[k] + stats.resident <= Capacity + Charged(D)

\* Experts of layers already run come before experts of layers to come:
\* the former from the first layer up, the latter from the last layer down.
SpatiallyBefore(a, b) ==
  \/ Layer[a] <= activeLayer /\ Layer[b] > activeLayer
  \/ Layer[a] < Layer[b] /\ Layer[b] <= activeLayer
  \/ Layer[a] > Layer[b] /\ Layer[b] > activeLayer

Older(a, b) == meta[a].access < meta[b].access

\* Mutant: the position of the layer is compared before the cycle.
PreferredByLayer(a, b) ==
  \/ SpatiallyBefore(a, b)
  \/ Layer[a] = Layer[b] /\ Older(a, b)

\* a is a better victim than b
Preferred(a, b) ==
  \/ mode = "lru" /\ Older(a, b)
  \/ /\ mode = "lfu"
     /\ \/ meta[a].frequency < meta[b].frequency
        \/ meta[a].frequency = meta[b].frequency /\ Older(a, b)
  \/ /\ mode = "least_stale"
     /\ \/ ~meta[a].current /\ meta[b].current
        \/ /\ meta[a].current = meta[b].current
           /\ \/ SpatiallyBefore(a, b)
              \/ Layer[a] = Layer[b] /\ Older(a, b)
  \/ /\ mode = "profiled"
     /\ \/ score[a] < score[b]
        \/ score[a] = score[b] /\ Older(a, b)

\* The loop evicts the best victim until k fits or none is left: what it
\* evicts is nothing when k fits, and otherwise the shortest initial part of
\* the preference order that makes room for k, or everything that may go.
IsVictimSet(D, k) ==
  /\ RoomAfter(k, {}) => D = {}
  /\ \A v \in D, u \in Evictable \ D : Preferred(v, u)
  /\ RoomAfter(k, D) \/ D = Evictable
  /\ \A v \in D :
       (\A u \in D \ {v} : Preferred(u, v)) => ~RoomAfter(k, D \ {v})

\* An oversized expert, and in static mode one without room, is not admitted
\* and evicts nothing.
MayEvictFor(k) ==
  /\ Bytes[k] <= Capacity
  /\ mode = "static" => RoomAfter(k, {})

\* What every admission attempt counts.
Missed(t) ==
  [stats EXCEPT !.misses = @ + 1,
                !.collisions = IF want[t] \in evictedNow THEN @ + 1 ELSE @]

-----------------------------------------------------------------------------
(* Admission, under the mutex.                                             *)

\* Mutant: an early return forgets to count the bypass.
BypassUncounted(t) ==
  /\ Goto(t, "admit", "release")
  /\ ~MayEvictFor(want[t])
  /\ stats' = Missed(t)
  /\ UNCHANGED <<mode, entries, meta, evictedNow, clock, loading, calls,
                 want, outcome, policyVars>>

Bypass(t) ==
  /\ Goto(t, "admit", "release")
  /\ ~MayEvictFor(want[t])
  /\ stats' = [Missed(t) EXCEPT !.bypasses = @ + 1]
  /\ UNCHANGED <<mode, entries, meta, evictedNow, clock, loading, calls,
                 want, outcome, policyVars>>

\* Everything evictable goes and the payload still does not fit: the victims
\* stay evicted and the payload is returned without being admitted.
EvictAndBypass(t) ==
  /\ Goto(t, "admit", "release")
  /\ MayEvictFor(want[t])
  /\ ~RoomAfter(want[t], Evictable)
  /\ entries' = entries \ Evictable
  /\ meta' = [k \in Keys |-> IF k \in Evictable THEN Blank ELSE meta[k]]
  /\ evictedNow' = evictedNow \cup Evictable
  /\ stats' = [Missed(t) EXCEPT
                 !.bypasses = @ + 1,
                 !.evictions = @ + Cardinality(Evictable),
                 !.resident = @ - Charged(Evictable)]
  /\ UNCHANGED <<mode, clock, loading, calls, want, outcome, policyVars>>

\* Mutant: the counter is set instead of adjusted.
ResidentReset(k, D) == Bytes[k] - Charged(D)

ResidentAfter(k, D) == (stats.resident - Charged(D)) + Bytes[k]

Larger(m, n) == IF m < n THEN n ELSE m

\* The entry of want[t] replaces the victims D.
AdmitEvicting(t, D) ==
  LET k == want[t]
  IN /\ entries' = (entries \ D) \cup {k}
     /\ meta' = [j \in Keys |->
           IF j = k
             THEN [current |-> TRUE, access |-> clock, frequency |-> 1]
             ELSE IF j \in D THEN Blank ELSE meta[j]]
     /\ evictedNow' = evictedNow \cup D
     /\ stats' = [Missed(t) EXCEPT
                    !.evictions = @ + Cardinality(D),
                    !.resident = ResidentAfter(k, D),
                    !.peak = Larger(@, ResidentAfter(k, D))]

Admit(t) ==
  /\ Goto(t, "admit", "release")
  /\ MayEvictFor(want[t])
  /\ \E D \in SUBSET Evictable :
       /\ IsVictimSet(D, want[t])
       /\ RoomAfter(want[t], D)
       /\ AdmitEvicting(t, D)
  /\ clock' = clock + 1
  /\ UNCHANGED <<mode, loading, calls, want, outcome, policyVars>>

-----------------------------------------------------------------------------
(* finish_load: a critical section of its own, then notify_all.            *)

Release(t) ==
  /\ Goto(t, "release", "notify")
  /\ loading' = loading \ {want[t]}
  /\ UNCHANGED <<mode, calls, want, outcome, policyVars, cacheVars>>

\* Mutant: nobody is notified.
NotifyNobody(t) ==
  /\ Goto(t, "notify", "idle")
  /\ UNCHANGED <<mode, loading, calls, want, outcome, policyVars, cacheVars>>

\* There is one condition variable for all keys.
Notify(t) ==
  /\ pc[t] = "notify"
  /\ pc' = [u \in Threads |-> IF u = t THEN "idle"
                              ELSE IF pc[u] = "blocked" THEN "enter"
                              ELSE pc[u]]
  /\ UNCHANGED <<mode, loading, calls, want, outcome, policyVars, cacheVars>>

-----------------------------------------------------------------------------
(* begin_access_set: the experts selected for a layer become protected.    *)

\* "fresh" tells whether forward_cycle differs from active_cycle_.  Cycles
\* come from RuntimeSession::acquire_forward_cycle, which never repeats one.
\* An observation may change the usefulness of every expert.
BeginAccessSet(fresh, layer, selected) ==
  /\ accessSets < MaxAccessSets[mode]
  /\ accessSets' = accessSets + 1
  /\ activeLayer' = layer
  /\ protected' = selected
  /\ evictedNow' = IF fresh THEN {} ELSE evictedNow
  /\ meta' = [k \in Keys |-> [meta[k] EXCEPT
                 !.current = \/ k \in selected \cap entries
                             \/ @ /\ ~fresh]]
  /\ score' \in IF mode = "profiled" THEN [Keys -> Scores] ELSE {score}
  /\ UNCHANGED <<mode, entries, calls, clock, loading, stats, pc, want,
                 outcome>>

-----------------------------------------------------------------------------
ThreadStep(t) ==
  \/ Hit(t) \/ Own(t) \/ Block(t)
  \/ LoaderFails(t) \/ LoaderSucceeds(t)
  \/ Bypass(t) \/ EvictAndBypass(t) \/ Admit(t)
  \/ Release(t) \/ Notify(t)

Layers == {Layer[k] : k \in Keys}

Next ==
  \/ \E t \in Threads :
       \/ \E k \in Keys : Call(t, k)
       \/ ThreadStep(t)
       \/ SpuriousWake(t)
  \/ \E fresh \in BOOLEAN, layer \in Layers :
       \E selected \in SUBSET {k \in Keys : Layer[k] = layer} :
         BeginAccessSet(fresh, layer, selected)

Spec == Init /\ [][Next]_vars

\* Every thread that can take a step takes one: the operating system runs
\* it, a free mutex is acquired, and a loader returns.  Nobody has to call.
Fairness == \A t \in Threads : WF_vars(ThreadStep(t))
FairSpec == Spec /\ Fairness

-----------------------------------------------------------------------------
(* Properties.                                                             *)

\* The type invariant: stats_ and the maps of the store keep their types.
TypeOK ==
  /\ mode \in Modes
  /\ entries \in SUBSET Keys
  /\ meta \in [Keys -> Metadata]
  /\ protected \in SUBSET Keys
  /\ evictedNow \in SUBSET Keys
  /\ activeLayer \in Nat
  /\ score \in [Keys -> Nat]
  /\ accessSets \in Nat
  /\ calls \in Nat
  /\ clock \in Nat
  /\ loading \in SUBSET Keys
  /\ stats \in Stats
  /\ pc \in [Threads -> Positions]
  /\ want \in [Threads -> Keys]
  /\ outcome \in [Threads -> Outcomes]

\* The thread that inserted want[t] into loading_ and has not erased it yet.
Owns(t) == mode # "disabled" /\ pc[t] \in {"loading", "admit", "release"}

\* Per-key in-flight deduplication: a key is in loading_ exactly while one
\* thread owns its load.  No second thread loads it, and no return path of
\* get_or_load leaves it behind for waiters to wait on.
SingleFlight ==
  /\ \A t \in Threads : Owns(t) => want[t] \in loading
  /\ \A k \in loading : \E t \in Threads : Owns(t) /\ want[t] = k
  /\ \A t, u \in Threads :
       Owns(t) /\ Owns(u) /\ want[t] = want[u] => t = u

\* Until its owner admits it, a key whose load is in flight is absent: the
\* emplace of the admission never meets an entry and so never charges the
\* bytes of an entry twice.
InFlightAbsent ==
  \A t \in Threads :
    Owns(t) /\ pc[t] # "release" => want[t] \notin entries

\* A disabled store caches nothing, counts nothing and blocks nobody.
DisabledIsTransient ==
  mode = "disabled" =>
    /\ entries = {}
    /\ stats = ZeroStats
    /\ \A t \in Threads : pc[t] \in {"idle", "loading"}

\* Resident bytes are the bytes of the entries, whatever interleaving of
\* admissions and evictions led there, and never exceed the hard capacity.
ExactCapacity ==
  /\ stats.resident = Charged(entries)
  /\ stats.resident <= stats.peak
  /\ stats.peak <= Capacity

\* Exact cache accounting: every successful load outside of disabled mode is
\* counted as one miss, which is still resident, was evicted, or bypassed.
ExactAccounting ==
  stats.misses = stats.bypasses + stats.evictions + Cardinality(entries)

\* Loading one selected expert never evicts another one of the access set,
\* under every policy, even when nothing else can make room.
ProtectedStay == [][protected \cap entries \subseteq entries']_vars

\* least_stale: an expert touched in the current cycle goes only together
\* with every unprotected expert of earlier cycles.
StaleGoFirst ==
  [][\A v \in entries \ entries' :
       mode = "least_stale" /\ meta[v].current
         => \A u \in Evictable : ~meta[u].current => u \notin entries']_vars

\* Every call of get_or_load returns, waiters of a load that fails or whose
\* payload is not admitted included.
EveryCallReturns == \A t \in Threads : pc[t] # "idle" ~> pc[t] = "idle"

-----------------------------------------------------------------------------
(* The store implements the bounded single-flight cache (disabled mode,    *)
(* which shares nothing, does not).                                        *)

Progress(t) ==
  CASE pc[t] = "idle" -> "idle"
    [] pc[t] \in {"enter", "blocked"} -> "asked"
    [] pc[t] \in {"loading", "admit"} -> "fetching"
    [] OTHER -> "done"

Abstract ==
  INSTANCE BoundedCache WITH
    cached <- entries, pinned <- protected,
    status <- [t \in Threads |-> Progress(t)]

\* Whatever its mode, an enabled store is a bounded cache that pins the
\* access set and fetches each absent expert once at a time.
IsBoundedCache == Abstract!Spec
=============================================================================
