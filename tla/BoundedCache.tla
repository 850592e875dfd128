---------------------------- MODULE BoundedCache ----------------------------
(***************************************************************************)
(* What the host expert store promises its callers, whatever the eviction  *)
(* policy: a cache of experts that never holds more than Capacity bytes,   *)
(* never drops a pinned expert, and fetches an expert at most once at a    *)
(* time, only while it is absent.  A caller asks for an expert and gets it *)
(* from the cache or by fetching it; a fetch may fail, and a fetched       *)
(* expert need not be kept.                                                *)
(***************************************************************************)
EXTENDS ExpertBytes

CONSTANTS Threads, Capacity

VARIABLES
  cached,   \* the experts the cache holds
  pinned,   \* the experts of the current access set
  status,   \* status[t]: how far the request of thread t has got
  want      \* want[t]: the expert thread t asks for

cacheVars == <<cached, pinned, status, want>>

Init ==
  /\ cached = {}
  /\ pinned = {}
  /\ status = [t \in Threads |-> "idle"]
  /\ want = [t \in Threads |-> CHOOSE k \in Keys : TRUE]

Step(t, from, to) == status[t] = from /\ status' = [status EXCEPT ![t] = to]

Request(t, k) ==
  /\ Step(t, "idle", "asked")
  /\ want' = [want EXCEPT ![t] = k]
  /\ UNCHANGED <<cached, pinned>>

Hit(t) ==
  /\ want[t] \in cached
  /\ Step(t, "asked", "idle")
  /\ UNCHANGED <<cached, pinned, want>>

\* Only one thread fetches an expert, and only when it is absent.
Fetch(t) ==
  /\ want[t] \notin cached
  /\ \A u \in Threads : status[u] = "fetching" => want[u] # want[t]
  /\ Step(t, "asked", "fetching")
  /\ UNCHANGED <<cached, pinned, want>>

Fail(t) ==
  /\ Step(t, "fetching", "done")
  /\ UNCHANGED <<cached, pinned, want>>

\* The fetched expert is kept after the victims D are dropped, or not kept.
Settle(t) ==
  /\ Step(t, "fetching", "done")
  /\ \E D \in SUBSET (cached \ pinned) :
       \/ /\ Charged((cached \ D) \cup {want[t]}) <= Capacity
          /\ cached' = (cached \ D) \cup {want[t]}
       \/ cached' = cached \ D
  /\ UNCHANGED <<pinned, want>>

Return(t) ==
  /\ Step(t, "done", "idle")
  /\ UNCHANGED <<cached, pinned, want>>

Pin(S) ==
  /\ pinned' = S
  /\ UNCHANGED <<cached, status, want>>

Next ==
  \/ \E t \in Threads :
       \/ \E k \in Keys : Request(t, k)
       \/ Hit(t) \/ Fetch(t) \/ Fail(t) \/ Settle(t) \/ Return(t)
  \/ \E S \in SUBSET Keys : Pin(S)

Spec == Init /\ [][Next]_cacheVars
=============================================================================
