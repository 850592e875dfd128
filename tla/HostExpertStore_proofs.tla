----------------------- MODULE HostExpertStore_proofs -----------------------
(***************************************************************************)
(* For every set of threads, keys, sizes and layers, every capacity and    *)
(* every cache mode: the invariants of the host expert store.  None of     *)
(* them is inductive alone.  An admission is well typed only because the   *)
(* bytes it subtracts are resident, it charges a key once only because a   *)
(* key in flight is absent, and that rests on a load having one owner.     *)
(***************************************************************************)
EXTENDS HostExpertStore, ExpertBytes_proofs

\* The inductive invariant of the store.
StoreInv ==
  /\ TypeOK
  /\ DisabledIsTransient
  /\ SingleFlight
  /\ InFlightAbsent
  /\ ExactCapacity
  /\ ExactAccounting

\* The constructor establishes the invariant.
LEMMA StoreInit == Init => StoreInv
<1> SUFFICES ASSUME Init PROVE StoreInv
  OBVIOUS
<1>1. (CHOOSE k \in Keys : TRUE) \in Keys
  BY StoreAssumption
<1>2. TypeOK
  BY <1>1, StoreAssumption
  DEF Init, TypeOK, Metadata, Blank, Stats, ZeroStats, Positions, Outcomes
<1>3. DisabledIsTransient /\ SingleFlight /\ InFlightAbsent
  BY DEF Init, DisabledIsTransient, SingleFlight, InFlightAbsent, Owns
<1>4. ExactCapacity
  BY ChargedNothing, StoreAssumption DEF Init, ExactCapacity, ZeroStats
<1>5. ExactAccounting
  BY FS_EmptySet DEF Init, ExactAccounting, ZeroStats
<1> QED
  BY <1>2, <1>3, <1>4, <1>5 DEF StoreInv

-----------------------------------------------------------------------------
(* Steps that leave the cache alone: ExactCapacity and ExactAccounting     *)
(* speak only of the cache, so only the positions of the threads matter.   *)

\* An invariant of the cache survives what does not touch the cache.
LEMMA CacheUntouched ==
  ASSUME StoreInv, UNCHANGED cacheVars
  PROVE  ExactCapacity' /\ ExactAccounting'
BY DEF StoreInv, ExactCapacity, ExactAccounting, cacheVars

\* A call that starts preserves the invariant.
LEMMA CallPreserves ==
  ASSUME StoreInv, NEW t \in Threads, NEW k \in Keys, Call(t, k)
  PROVE  StoreInv'
<1>1. TypeOK'
  BY DEF StoreInv, TypeOK, Call, Goto, Finish, policyVars, cacheVars,
         Positions, Outcomes
<1>2. DisabledIsTransient'
  BY DEF StoreInv, TypeOK, DisabledIsTransient, Call, Goto, policyVars, cacheVars
<1>3. SingleFlight'
  BY DEF StoreInv, TypeOK, SingleFlight, Owns, Call, Goto, policyVars, cacheVars
<1>4. InFlightAbsent'
  BY DEF StoreInv, TypeOK, InFlightAbsent, Owns, Call, Goto, policyVars, cacheVars
<1>5. ExactCapacity' /\ ExactAccounting'
  BY CacheUntouched DEF Call
<1> QED
  BY <1>1, <1>2, <1>3, <1>4, <1>5 DEF StoreInv

\* The steps of a call that change neither the cache nor the configuration.
Quiet(t) ==
  \/ Own(t) \/ Block(t) \/ SpuriousWake(t)
  \/ LoaderFails(t) \/ LoaderSucceeds(t)
  \/ Release(t) \/ Notify(t)

\* They preserve the invariant.
LEMMA QuietPreserves ==
  ASSUME StoreInv, NEW t \in Threads, Quiet(t)
  PROVE  StoreInv'
<1>1. UNCHANGED <<mode, calls, want, policyVars, cacheVars>>
  BY DEF Quiet, Own, Block, SpuriousWake, LoaderFails, LoaderSucceeds,
         Release, Notify
<1>2. ExactCapacity' /\ ExactAccounting'
  BY <1>1, CacheUntouched
<1>3. CASE Own(t)
  <2>1. TypeOK'
    BY <1>1, <1>3 DEF StoreInv, TypeOK, Own, Goto, policyVars, cacheVars, Positions
  <2>2. DisabledIsTransient'
    BY <1>1, <1>3 DEF StoreInv, TypeOK, DisabledIsTransient, Own, Goto,
                      policyVars, cacheVars
  <2>3. SingleFlight'
    BY <1>1, <1>3 DEF StoreInv, TypeOK, DisabledIsTransient, SingleFlight,
                      Owns, Own, Goto, policyVars, cacheVars
  <2>4. InFlightAbsent'
    BY <1>1, <1>3 DEF StoreInv, TypeOK, InFlightAbsent, Owns, Own, Goto,
                      policyVars, cacheVars
  <2> QED
    BY <1>2, <2>1, <2>2, <2>3, <2>4 DEF StoreInv
<1>4. CASE Block(t) \/ SpuriousWake(t) \/ Notify(t)
  <2>1. /\ pc' \in [Threads -> Positions]
        /\ UNCHANGED <<loading, outcome>>
        /\ \A u \in Threads : pc[u] # pc'[u] =>
             /\ pc[u] \in {"enter", "blocked", "notify"}
             /\ pc'[u] \in {"enter", "blocked", "idle"}
    BY <1>4 DEF StoreInv, TypeOK, Block, SpuriousWake, Notify, Goto, Positions
  <2>2. TypeOK'
    BY <1>1, <2>1 DEF StoreInv, TypeOK, policyVars, cacheVars
  <2>3. \A u \in Threads : Owns(u)' <=> Owns(u)
    BY <1>1, <2>1 DEF Owns
  <2>4. DisabledIsTransient'
    BY <1>1, <2>1 DEF StoreInv, DisabledIsTransient, policyVars, cacheVars
  <2>5. SingleFlight'
    BY <1>1, <2>1, <2>3 DEF StoreInv, SingleFlight
  <2>6. InFlightAbsent'
    BY <1>1, <2>1, <2>3 DEF StoreInv, InFlightAbsent, cacheVars, Owns
  <2> QED
    BY <1>2, <2>2, <2>4, <2>5, <2>6 DEF StoreInv
<1>5. CASE LoaderFails(t) \/ LoaderSucceeds(t)
  <2>1. /\ loading' = loading /\ outcome' \in [Threads -> Outcomes]
        /\ pc[t] = "loading"
        /\ \/ mode = "disabled" /\ pc' = [pc EXCEPT ![t] = "idle"]
           \/ mode # "disabled" /\ pc' = [pc EXCEPT ![t] = "release"]
           \/ mode # "disabled" /\ pc' = [pc EXCEPT ![t] = "admit"]
    BY <1>5 DEF StoreInv, TypeOK, LoaderFails, LoaderSucceeds, Goto, Finish, Outcomes
  <2>2. TypeOK'
    BY <1>1, <2>1 DEF StoreInv, TypeOK, policyVars, cacheVars, Positions
  <2>3. \A u \in Threads : Owns(u)' <=> Owns(u)
    BY <1>1, <2>1 DEF StoreInv, TypeOK, Owns
  <2>4. DisabledIsTransient'
    BY <1>1, <2>1 DEF StoreInv, TypeOK, DisabledIsTransient, policyVars, cacheVars
  <2>5. SingleFlight'
    BY <1>1, <2>1, <2>3 DEF StoreInv, SingleFlight
  <2>6. InFlightAbsent'
    BY <1>1, <2>1 DEF StoreInv, TypeOK, InFlightAbsent, Owns, cacheVars
  <2> QED
    BY <1>2, <2>2, <2>4, <2>5, <2>6 DEF StoreInv
<1>6. CASE Release(t)
  <2>1. TypeOK'
    BY <1>1, <1>6 DEF StoreInv, TypeOK, Release, Goto, policyVars, cacheVars, Positions
  <2>2. DisabledIsTransient'
    BY <1>1, <1>6 DEF StoreInv, TypeOK, DisabledIsTransient, Release, Goto,
                      policyVars, cacheVars
  <2>3. mode # "disabled"
    BY <1>6 DEF StoreInv, DisabledIsTransient, Release, Goto
  <2>4. SingleFlight'
    BY <1>1, <1>6, <2>3 DEF StoreInv, TypeOK, SingleFlight, Owns, Release, Goto
  <2>5. InFlightAbsent'
    BY <1>1, <1>6 DEF StoreInv, TypeOK, InFlightAbsent, Owns, Release, Goto, cacheVars
  <2> QED
    BY <1>2, <2>1, <2>2, <2>4, <2>5 DEF StoreInv
<1> QED
  BY <1>3, <1>4, <1>5, <1>6 DEF Quiet

-----------------------------------------------------------------------------
(* Steps that change the cache.                                            *)

\* A hit changes only the recency of an entry and a counter.
LEMMA HitPreserves ==
  ASSUME StoreInv, NEW t \in Threads, Hit(t)
  PROVE  StoreInv'
<1>1. stats.hits + 1 \in Nat /\ clock + 1 \in Nat
  BY DEF StoreInv, TypeOK, Stats
<1>2. meta' \in [Keys -> Metadata]
  <2>1. want[t] \in Keys /\ meta \in [Keys -> Metadata] /\ clock \in Nat
    BY DEF StoreInv, TypeOK
  <2>2. meta[want[t]].frequency + 1 \in Nat
    BY <2>1 DEF Metadata
  <2> QED
    BY <2>1, <2>2 DEF Hit, Metadata
<1>3. stats' \in Stats
  BY <1>1 DEF StoreInv, TypeOK, Stats, Hit
<1>4. TypeOK'
  BY <1>1, <1>2, <1>3 DEF StoreInv, TypeOK, Hit, Goto, Finish, policyVars,
                          Positions, Outcomes
<1>5. mode # "disabled"
  BY DEF StoreInv, DisabledIsTransient, Hit, Goto
<1>6. DisabledIsTransient'
  BY <1>5 DEF Hit, DisabledIsTransient
<1>7. SingleFlight'
  BY DEF StoreInv, TypeOK, SingleFlight, Owns, Hit, Goto
<1>8. InFlightAbsent'
  BY DEF StoreInv, TypeOK, InFlightAbsent, Owns, Hit, Goto
<1>9. ExactCapacity' /\ ExactAccounting'
  BY DEF StoreInv, TypeOK, Stats, ExactCapacity, ExactAccounting, Hit
<1> QED
  BY <1>4, <1>6, <1>7, <1>8, <1>9 DEF StoreInv

\* A new access set changes recency and protection, never the entries.
LEMMA BeginAccessSetPreserves ==
  ASSUME StoreInv,
         NEW fresh \in BOOLEAN, NEW layer \in Layers,
         NEW selected \in SUBSET {k \in Keys : Layer[k] = layer},
         BeginAccessSet(fresh, layer, selected)
  PROVE  StoreInv'
<1>1. meta' \in [Keys -> Metadata]
  <2>1. \A k \in Keys : meta[k] \in Metadata
    BY DEF StoreInv, TypeOK
  <2>2. \A k \in Keys, x \in BOOLEAN : [meta[k] EXCEPT !.current = x] \in Metadata
    BY <2>1 DEF Metadata
  <2>3. \A k \in Keys :
          (k \in selected \cap entries \/ (meta[k].current /\ ~fresh)) \in BOOLEAN
    OBVIOUS
  <2>4. \A k \in Keys : meta'[k] \in Metadata
    BY <2>1, <2>2, <2>3 DEF BeginAccessSet
  <2>5. meta' = [k \in Keys |-> meta'[k]]
    BY DEF BeginAccessSet
  <2> QED
    BY <2>4, <2>5
<1>2. score' \in [Keys -> Nat]
  BY StoreAssumption DEF StoreInv, TypeOK, BeginAccessSet
<1>3. layer \in Nat
  BY StoreAssumption DEF Layers
<1>4. TypeOK'
  BY <1>1, <1>2, <1>3 DEF StoreInv, TypeOK, BeginAccessSet
<1>5. DisabledIsTransient' /\ SingleFlight' /\ InFlightAbsent'
  BY DEF StoreInv, DisabledIsTransient, SingleFlight, InFlightAbsent, Owns,
         BeginAccessSet
<1>6. ExactCapacity' /\ ExactAccounting'
  BY DEF StoreInv, ExactCapacity, ExactAccounting, BeginAccessSet
<1> QED
  BY <1>4, <1>5, <1>6 DEF StoreInv

\* An admission attempt that adds at most its own key keeps the invariants
\* of the loads in flight: no other owner loads that key.
LEMMA AdmissionAttempt ==
  ASSUME StoreInv, NEW t \in Threads,
         Goto(t, "admit", "release"),
         UNCHANGED <<mode, loading, want>>,
         entries' \subseteq entries \cup {want[t]}
  PROVE  /\ mode # "disabled" /\ want[t] \in Keys /\ want[t] \notin entries
         /\ pc' \in [Threads -> Positions]
         /\ DisabledIsTransient' /\ SingleFlight' /\ InFlightAbsent'
<1>1. pc \in [Threads -> Positions] /\ want \in [Threads -> Keys]
  BY DEF StoreInv, TypeOK
<1>2. mode # "disabled"
  BY DEF StoreInv, DisabledIsTransient, Goto
<1>3. Owns(t) /\ want[t] \notin entries
  BY <1>2 DEF StoreInv, InFlightAbsent, Owns, Goto
<1>4. \A u \in Threads : Owns(u)' <=> Owns(u)
  BY <1>1 DEF Owns, Goto
<1>5. SingleFlight'
  BY <1>4 DEF StoreInv, SingleFlight
<1>6. InFlightAbsent'
  <2> SUFFICES ASSUME NEW u \in Threads, Owns(u)', pc'[u] # "release"
               PROVE  want[u] \notin entries'
    BY DEF InFlightAbsent
  <2>1. u # t /\ pc[u] # "release"
    BY <1>1 DEF Goto
  <2>2. want[u] # want[t]
    BY <1>3, <1>4, <2>1 DEF StoreInv, SingleFlight
  <2>3. want[u] \notin entries
    BY <1>4, <2>1 DEF StoreInv, InFlightAbsent
  <2> QED
    BY <2>2, <2>3
<1> QED
  BY <1>1, <1>2, <1>3, <1>5, <1>6 DEF DisabledIsTransient, Goto, Positions

\* What an admission attempt counts is well typed.
LEMMA MissedType ==
  ASSUME StoreInv, NEW t \in Threads
  PROVE  /\ Missed(t) \in Stats
         /\ Missed(t).misses = stats.misses + 1
         /\ Missed(t).bypasses = stats.bypasses
         /\ Missed(t).evictions = stats.evictions
         /\ Missed(t).resident = stats.resident
         /\ Missed(t).peak = stats.peak
<1> DEFINE counted == [stats EXCEPT !.misses = stats.misses + 1]
           n == IF want[t] \in evictedNow THEN stats.collisions + 1
                                          ELSE stats.collisions
<1>1. stats \in Stats
  BY DEF StoreInv, TypeOK
<1>2. /\ counted \in Stats
      /\ counted.misses = stats.misses + 1
      /\ counted.bypasses = stats.bypasses
      /\ counted.evictions = stats.evictions
      /\ counted.resident = stats.resident
      /\ counted.peak = stats.peak
  BY <1>1 DEF Stats
<1>3. n \in Nat
  BY <1>1 DEF Stats
<1>4. Missed(t) = [counted EXCEPT !.collisions = n]
  BY <1>1, Zenon DEF Missed
<1> HIDE DEF counted, n
<1> QED
  BY <1>2, <1>3, <1>4 DEF Stats

\* A bypass counts one miss and one bypass.
LEMMA BypassPreserves ==
  ASSUME StoreInv, NEW t \in Threads, Bypass(t)
  PROVE  StoreInv'
<1>1. /\ pc' \in [Threads -> Positions]
      /\ DisabledIsTransient' /\ SingleFlight' /\ InFlightAbsent'
  BY AdmissionAttempt DEF Bypass
<1>2. stats' = [Missed(t) EXCEPT !.bypasses = @ + 1]
  BY DEF Bypass
<1>3. /\ stats' \in Stats
      /\ stats'.misses = stats.misses + 1
      /\ stats'.bypasses = stats.bypasses + 1
      /\ stats'.evictions = stats.evictions
      /\ stats'.resident = stats.resident
      /\ stats'.peak = stats.peak
  BY <1>2, MissedType DEF Stats
<1>4. TypeOK'
  BY <1>1, <1>3 DEF StoreInv, TypeOK, Bypass, policyVars
<1>5. ExactCapacity'
  BY <1>3 DEF StoreInv, ExactCapacity, Bypass
<1>6. ExactAccounting'
  <2>1. entries' = entries /\ Cardinality(entries) \in Nat
    BY BytesAssumption, FS_Subset, FS_CardinalityType DEF StoreInv, TypeOK, Bypass
  <2> QED
    BY <1>3, <2>1 DEF StoreInv, TypeOK, Stats, ExactAccounting
<1> QED
  BY <1>1, <1>4, <1>5, <1>6 DEF StoreInv

\* What evicting D leaves: the bytes and the number of the other entries.
LEMMA Evicting ==
  ASSUME StoreInv, NEW D \in SUBSET entries
  PROVE  /\ entries \ D \in SUBSET Keys
         /\ Charged(D) \in Nat /\ Cardinality(D) \in Nat
         /\ Charged(entries \ D) \in Nat /\ IsFiniteSet(entries \ D)
         /\ Charged(entries \ D) = stats.resident - Charged(D)
         /\ Cardinality(entries) \in Nat /\ Cardinality(entries \ D) \in Nat
         /\ Cardinality(entries \ D) = Cardinality(entries) - Cardinality(D)
<1>1. entries \in SUBSET Keys /\ D \in SUBSET Keys
  BY DEF StoreInv, TypeOK
<1>2. IsFiniteSet(entries) /\ IsFiniteSet(D) /\ IsFiniteSet(entries \ D)
  BY <1>1, BytesAssumption, FS_Subset
<1>3. /\ Charged(entries \ D) = stats.resident - Charged(D)
      /\ Charged(D) \in Nat /\ Charged(entries \ D) \in Nat
  BY <1>1, ChargedRemove, ChargedType DEF StoreInv, ExactCapacity
<1>4. entries \cap D = D
  OBVIOUS
<1>5. Cardinality(entries \ D) = Cardinality(entries) - Cardinality(entries \cap D)
  BY <1>2, FS_Difference, Zenon
<1>6. /\ Cardinality(entries) \in Nat /\ Cardinality(D) \in Nat
      /\ Cardinality(entries \ D) \in Nat
  BY <1>2, FS_CardinalityType
<1> QED
  BY <1>1, <1>2, <1>3, <1>4, <1>5, <1>6, Zenon

\* Evicting whatever may go, and admitting nothing, keeps every invariant.
LEMMA EvictAndBypassPreserves ==
  ASSUME StoreInv, NEW t \in Threads, EvictAndBypass(t)
  PROVE  StoreInv'
<1> DEFINE bytes == Charged(Evictable)
           gone == Cardinality(Evictable)
<1>1. Evictable \in SUBSET entries
  BY DEF Evictable
<1>2. /\ pc' \in [Threads -> Positions]
      /\ DisabledIsTransient' /\ SingleFlight' /\ InFlightAbsent'
  BY AdmissionAttempt DEF EvictAndBypass
<1>3. entries' = entries \ Evictable
  BY DEF EvictAndBypass
<1>4. /\ entries' \in SUBSET Keys
      /\ bytes \in Nat /\ gone \in Nat
      /\ Charged(entries') = stats.resident - bytes
      /\ Charged(entries') \in Nat
      /\ Cardinality(entries) \in Nat
      /\ Cardinality(entries') = Cardinality(entries) - gone
  BY <1>1, <1>3, Evicting
<1>5. /\ stats \in Stats
      /\ stats.misses = stats.bypasses + stats.evictions + Cardinality(entries)
      /\ stats.resident <= stats.peak /\ stats.peak <= Capacity
  BY DEF StoreInv, TypeOK, ExactAccounting, ExactCapacity
<1>6. /\ stats' \in Stats
      /\ stats'.misses = stats.misses + 1
      /\ stats'.bypasses = stats.bypasses + 1
      /\ stats'.evictions = stats.evictions + gone
      /\ stats'.resident = stats.resident - bytes
      /\ stats'.peak = stats.peak
  <2> DEFINE s1 == [Missed(t) EXCEPT !.bypasses = stats.bypasses + 1]
             s2 == [s1 EXCEPT !.evictions = stats.evictions + gone]
  <2>1. /\ s1 \in Stats
        /\ s1.misses = stats.misses + 1 /\ s1.bypasses = stats.bypasses + 1
        /\ s1.evictions = stats.evictions /\ s1.resident = stats.resident
        /\ s1.peak = stats.peak
    BY MissedType DEF Stats
  <2> HIDE DEF s1, gone, bytes
  <2>2. /\ s2 \in Stats
        /\ s2.misses = stats.misses + 1 /\ s2.bypasses = stats.bypasses + 1
        /\ s2.evictions = stats.evictions + gone
        /\ s2.resident = stats.resident /\ s2.peak = stats.peak
    BY <1>4, <1>5, <2>1 DEF Stats
  <2>3. stats' = [s2 EXCEPT !.resident = stats.resident - bytes]
    BY MissedType, Zenon DEF EvictAndBypass, s1, bytes, gone
  <2> HIDE DEF s2
  <2>4. stats.resident - bytes \in Nat
    BY <1>4
  <2> QED
    BY <2>2, <2>3, <2>4 DEF Stats
<1> HIDE DEF bytes, gone
<1>7. meta' \in [Keys -> Metadata] /\ evictedNow' \in SUBSET Keys
  BY <1>1 DEF StoreInv, TypeOK, EvictAndBypass, Metadata, Blank
<1>8. TypeOK'
  BY <1>2, <1>4, <1>6, <1>7 DEF StoreInv, TypeOK, EvictAndBypass, policyVars
<1>9. ExactCapacity'
  <2>1. stats.resident - bytes <= stats.peak /\ Capacity' = Capacity
    BY <1>4, <1>5, StoreAssumption DEF Stats
  <2>2. Charged(entries)' = Charged(entries')
    BY DEF Charged, Occupied
  <2> QED
    BY <1>4, <1>5, <1>6, <2>1, <2>2 DEF ExactCapacity
<1>10. ExactAccounting'
  BY <1>4, <1>5, <1>6 DEF ExactAccounting, Stats
<1> QED
  BY <1>2, <1>8, <1>9, <1>10 DEF StoreInv

\* What an admission counts, once its victims D are chosen.
LEMMA AdmitStats ==
  ASSUME StoreInv, NEW t \in Threads, NEW D \in SUBSET entries,
         RoomAfter(want[t], D), want[t] \in Keys, AdmitEvicting(t, D)
  PROVE  /\ stats' \in Stats
         /\ stats'.misses = stats.misses + 1
         /\ stats'.bypasses = stats.bypasses
         /\ stats'.evictions = stats.evictions + Cardinality(D)
         /\ stats'.resident = ResidentAfter(want[t], D)
         /\ stats'.resident <= stats'.peak
         /\ stats'.peak <= Capacity
<1> DEFINE room == ResidentAfter(want[t], D)
           gone == Cardinality(D)
           peak == Larger(stats.peak, room)
           s1 == [Missed(t) EXCEPT !.evictions = stats.evictions + gone]
           s2 == [s1 EXCEPT !.resident = room]
<1>1. /\ Charged(D) \in Nat /\ gone \in Nat
      /\ stats.resident - Charged(D) \in Nat
  BY Evicting
<1>2. Bytes[want[t]] \in Nat /\ stats \in Stats /\ stats.peak <= Capacity
  BY BytesAssumption DEF StoreInv, TypeOK, ExactCapacity
<1>3. room \in Nat /\ room <= Capacity
  <2>1. /\ Bytes[want[t]] + stats.resident <= Capacity + Charged(D)
        /\ room = (stats.resident - Charged(D)) + Bytes[want[t]]
    BY DEF RoomAfter, ResidentAfter
  <2> HIDE DEF room
  <2>2. stats.resident \in Nat /\ Capacity \in Nat
    BY <1>2, StoreAssumption DEF Stats
  <2> QED
    BY <1>1, <1>2, <2>1, <2>2
<1>4. /\ Missed(t) \in Stats
      /\ Missed(t).misses = stats.misses + 1
      /\ Missed(t).bypasses = stats.bypasses
      /\ Missed(t).evictions = stats.evictions
      /\ Missed(t).resident = stats.resident
      /\ Missed(t).peak = stats.peak
  BY MissedType
<1>5. stats' = [s2 EXCEPT !.peak = peak]
  BY <1>4, Zenon DEF AdmitEvicting
<1> HIDE DEF room, gone
<1>6. peak \in Nat /\ room <= peak /\ peak <= Capacity
  BY <1>2, <1>3, StoreAssumption DEF Larger, Stats
<1> HIDE DEF peak
<1>7. /\ s1 \in Stats
      /\ s1.misses = stats.misses + 1 /\ s1.bypasses = stats.bypasses
      /\ s1.evictions = stats.evictions + gone
  BY <1>1, <1>2, <1>4 DEF Stats
<1> HIDE DEF s1
<1>8. /\ s2 \in Stats
      /\ s2.misses = stats.misses + 1 /\ s2.bypasses = stats.bypasses
      /\ s2.evictions = stats.evictions + gone /\ s2.resident = room
  BY <1>3, <1>7 DEF Stats
<1> HIDE DEF s2
<1>9. /\ stats' \in Stats
      /\ stats'.misses = stats.misses + 1 /\ stats'.bypasses = stats.bypasses
      /\ stats'.evictions = stats.evictions + gone
      /\ stats'.resident = room /\ stats'.peak = peak
  BY <1>5, <1>6, <1>8 DEF Stats
<1> QED
  BY <1>6, <1>9 DEF room, gone

\* An admission charges its key once and stays within the capacity.
LEMMA AdmitPreserves ==
  ASSUME StoreInv, NEW t \in Threads, Admit(t)
  PROVE  StoreInv'
<1> DEFINE k == want[t]
<1>1. PICK D \in SUBSET Evictable : RoomAfter(k, D) /\ AdmitEvicting(t, D)
  BY DEF Admit
<1>2. D \in SUBSET entries
  BY DEF Evictable
<1>3. entries' = (entries \ D) \cup {k}
  BY <1>1 DEF AdmitEvicting
<1>4. /\ k \in Keys /\ k \notin entries
      /\ pc' \in [Threads -> Positions]
      /\ DisabledIsTransient' /\ SingleFlight' /\ InFlightAbsent'
  BY <1>3, AdmissionAttempt DEF Admit
<1>5. /\ stats' \in Stats
      /\ stats'.misses = stats.misses + 1
      /\ stats'.bypasses = stats.bypasses
      /\ stats'.evictions = stats.evictions + Cardinality(D)
      /\ stats'.resident = ResidentAfter(k, D)
      /\ stats'.resident <= stats'.peak
      /\ stats'.peak <= Capacity
  BY <1>1, <1>2, <1>4, AdmitStats
<1>6. /\ entries \ D \in SUBSET Keys /\ IsFiniteSet(entries \ D)
      /\ Charged(entries \ D) = stats.resident - Charged(D)
      /\ Cardinality(D) \in Nat /\ Cardinality(entries) \in Nat
      /\ Cardinality(entries \ D) = Cardinality(entries) - Cardinality(D)
  BY <1>2, Evicting
<1>7. k \notin entries \ D
  BY <1>4
<1>8. TypeOK'
  <2>1. meta' \in [Keys -> Metadata]
    BY <1>1 DEF AdmitEvicting, StoreInv, TypeOK, Metadata, Blank
  <2>2. evictedNow' \in SUBSET Keys /\ entries' \in SUBSET Keys
    BY <1>1, <1>2, <1>3, <1>4 DEF AdmitEvicting, StoreInv, TypeOK
  <2>3. clock' \in Nat
    BY DEF StoreInv, TypeOK, Admit
  <2> QED
    BY <1>4, <1>5, <2>1, <2>2, <2>3 DEF StoreInv, TypeOK, Admit, policyVars
<1>9. ExactCapacity'
  <2>1. Charged((entries \ D) \cup {k}) = Charged(entries \ D) + Bytes[k]
    BY <1>4, <1>6, <1>7, ChargedAdd
  <2>2. Charged(entries)' = Charged((entries \ D) \cup {k})
    BY <1>3 DEF Charged, Occupied
  <2>3. stats'.resident = Charged(entries)'
    BY <1>5, <1>6, <2>1, <2>2 DEF ResidentAfter
  <2> QED
    BY <1>5, <2>3 DEF ExactCapacity
<1>10. ExactAccounting'
  <2>1. Cardinality(entries') = Cardinality(entries \ D) + 1
    BY <1>3, <1>6, <1>7, FS_AddElement
  <2>2. stats.misses = stats.bypasses + stats.evictions + Cardinality(entries)
    BY DEF StoreInv, ExactAccounting
  <2>3. stats \in Stats
    BY DEF StoreInv, TypeOK
  <2> QED
    BY <1>5, <1>6, <2>1, <2>2, <2>3 DEF ExactAccounting, Stats
<1> QED
  BY <1>4, <1>8, <1>9, <1>10 DEF StoreInv

-----------------------------------------------------------------------------
\* Every step preserves the invariant.
LEMMA StoreStep == StoreInv /\ [Next]_vars => StoreInv'
<1> SUFFICES ASSUME StoreInv, [Next]_vars PROVE StoreInv'
  OBVIOUS
<1>1. ASSUME NEW t \in Threads, NEW k \in Keys, Call(t, k) PROVE StoreInv'
  BY <1>1, CallPreserves
<1>2. ASSUME NEW t \in Threads, Quiet(t) PROVE StoreInv'
  BY <1>2, QuietPreserves
<1>3. ASSUME NEW t \in Threads, Hit(t) PROVE StoreInv'
  BY <1>3, HitPreserves
<1>4. ASSUME NEW t \in Threads, Bypass(t) PROVE StoreInv'
  BY <1>4, BypassPreserves
<1>5. ASSUME NEW t \in Threads, EvictAndBypass(t) PROVE StoreInv'
  BY <1>5, EvictAndBypassPreserves
<1>6. ASSUME NEW t \in Threads, Admit(t) PROVE StoreInv'
  BY <1>6, AdmitPreserves
<1>7. ASSUME NEW fresh \in BOOLEAN, NEW layer \in Layers,
             NEW selected \in SUBSET {k \in Keys : Layer[k] = layer},
             BeginAccessSet(fresh, layer, selected)
      PROVE  StoreInv'
  BY <1>7, BeginAccessSetPreserves
<1>8. CASE UNCHANGED vars
  BY <1>8 DEF vars, StoreInv, TypeOK, DisabledIsTransient, SingleFlight,
              InFlightAbsent, Owns, ExactCapacity, ExactAccounting
<1> QED
  BY <1>1, <1>2, <1>3, <1>4, <1>5, <1>6, <1>7, <1>8 DEF Next, ThreadStep, Quiet

\* The invariant holds in every reachable state.
THEOREM StoreInvariant == Spec => []StoreInv
<1> QED
  BY StoreInit, StoreStep, PTL DEF Spec

\* The store's variables keep their types: in particular its byte counter
\* never goes below zero.
THEOREM TypeCorrect == Spec => []TypeOK
<1>1. StoreInv => TypeOK
  BY DEF StoreInv
<1> QED
  BY <1>1, StoreInvariant, PTL

\* A key in flight has exactly one loading thread.
THEOREM SingleFlightCorrect == Spec => []SingleFlight
<1>1. StoreInv => SingleFlight
  BY DEF StoreInv
<1> QED
  BY <1>1, StoreInvariant, PTL

\* Resident bytes are exact and never exceed the capacity.
THEOREM CapacityCorrect == Spec => []ExactCapacity
<1>1. StoreInv => ExactCapacity
  BY DEF StoreInv
<1> QED
  BY <1>1, StoreInvariant, PTL

\* Misses, bypasses, evictions and entries always add up.
THEOREM AccountingCorrect == Spec => []ExactAccounting
<1>1. StoreInv => ExactAccounting
  BY DEF StoreInv
<1> QED
  BY <1>1, StoreInvariant, PTL

\* No step evicts an expert of the access set that is in force.
THEOREM ProtectionCorrect == Spec => ProtectedStay
<1>1. [Next]_vars => [protected \cap entries \subseteq entries']_vars
  <2> SUFFICES ASSUME Next PROVE protected \cap entries \subseteq entries'
    OBVIOUS
  <2>1. ASSUME NEW t \in Threads, Admit(t)
        PROVE  protected \cap entries \subseteq entries'
    BY <2>1 DEF Admit, AdmitEvicting, Evictable
  <2>2. ASSUME NEW t \in Threads, EvictAndBypass(t)
        PROVE  protected \cap entries \subseteq entries'
    BY <2>2 DEF EvictAndBypass, Evictable
  <2>3. ASSUME NEW t \in Threads,
               \/ \E k \in Keys : Call(t, k)
               \/ Hit(t) \/ Bypass(t) \/ Quiet(t)
        PROVE  entries' = entries
    BY <2>3 DEF Call, Hit, Bypass, Quiet, Own, Block, SpuriousWake,
                LoaderFails, LoaderSucceeds, Release, Notify, cacheVars
  <2>4. ASSUME NEW fresh \in BOOLEAN, NEW layer \in Layers,
               NEW selected \in SUBSET {k \in Keys : Layer[k] = layer},
               BeginAccessSet(fresh, layer, selected)
        PROVE  entries' = entries
    BY <2>4 DEF BeginAccessSet
  <2> QED
    BY <2>1, <2>2, <2>3, <2>4 DEF Next, ThreadStep, Quiet
<1> QED
  BY <1>1, PTL DEF Spec, ProtectedStay

\* least_stale: an expert of the running cycle is evicted only with all experts
\* of earlier cycles that may go.
THEOREM StaleGoFirstCorrect == Spec => StaleGoFirst
<1> DEFINE StaleStep ==
      \A v \in entries \ entries' :
        mode = "least_stale" /\ meta[v].current
          => \A u \in Evictable : ~meta[u].current => u \notin entries'
<1>1. StoreInv /\ [Next]_vars => [StaleStep]_vars
  <2> SUFFICES ASSUME StoreInv, Next,
                      NEW v \in entries \ entries', mode = "least_stale", meta[v].current,
                      NEW u \in Evictable, ~meta[u].current
               PROVE  u \notin entries'
    OBVIOUS
  <2>1. ASSUME NEW t \in Threads, Admit(t)
        PROVE  u \notin entries'
    <3>1. PICK D \in SUBSET Evictable : IsVictimSet(D, want[t]) /\ AdmitEvicting(t, D)
      BY <2>1 DEF Admit
    <3>2. entries' = (entries \ D) \cup {want[t]}
      BY <3>1 DEF AdmitEvicting
    <3>3. want[t] \notin entries
      BY <2>1 DEF StoreInv, InFlightAbsent, Owns, Admit, Goto
    <3>4. u \in D
      <4> SUFFICES ASSUME u \notin D PROVE FALSE
        OBVIOUS
      <4>1. Preferred(v, u)
        BY <3>1, <3>2 DEF IsVictimSet
      <4> QED
        BY <4>1 DEF Preferred
    <3> QED
      BY <3>2, <3>3, <3>4 DEF Evictable
  <2>2. ASSUME NEW t \in Threads, EvictAndBypass(t)
        PROVE  u \notin entries'
    BY <2>2 DEF EvictAndBypass
  <2>3. ASSUME NEW t \in Threads,
               \/ \E k \in Keys : Call(t, k)
               \/ Hit(t) \/ Bypass(t) \/ Quiet(t)
        PROVE  entries' = entries
    BY <2>3 DEF Call, Hit, Bypass, Quiet, Own, Block, SpuriousWake,
                LoaderFails, LoaderSucceeds, Release, Notify, cacheVars
  <2>4. ASSUME NEW fresh \in BOOLEAN, NEW layer \in Layers,
               NEW selected \in SUBSET {k \in Keys : Layer[k] = layer},
               BeginAccessSet(fresh, layer, selected)
        PROVE  entries' = entries
    BY <2>4 DEF BeginAccessSet
  <2> QED
    BY <2>1, <2>2, <2>3, <2>4 DEF Next, ThreadStep, Quiet
<1> QED
  BY <1>1, StoreInvariant, PTL DEF Spec, StaleGoFirst

-----------------------------------------------------------------------------
(* Refinement: an enabled store is a bounded cache.                        *)

\* How far a thread has got, as the bounded cache sees it.
StatusOf == [t \in Threads |-> Progress(t)]

\* A step that moves thread t alone moves its status alone.
LEMMA StatusMoves ==
  ASSUME NEW t \in Threads, pc \in [Threads -> Positions],
         NEW p \in Positions, pc' = [pc EXCEPT ![t] = p]
  PROVE  \A s : Progress(t)' = s => StatusOf' = [StatusOf EXCEPT ![t] = s]
<1>1. \A u \in Threads : u # t => Progress(u)' = Progress(u)
  BY DEF Progress
<1> QED
  BY <1>1 DEF StatusOf

\* Every step of an enabled store is a step of the bounded cache, or changes
\* nothing that the bounded cache sees.
LEMMA StoreSimulates ==
  ASSUME "disabled" \notin Modes, StoreInv, [Next]_vars
  PROVE  [Abstract!Next]_(Abstract!cacheVars)
<1> USE DEF Abstract!cacheVars
<1>0. /\ mode # "disabled" /\ pc \in [Threads -> Positions]
      /\ want \in [Threads -> Keys] /\ entries \in SUBSET Keys
  BY DEF StoreInv, TypeOK
<1>1. ASSUME NEW t \in Threads, NEW k \in Keys, Call(t, k)
      PROVE  Abstract!Request(t, k)
  <2>1. /\ pc[t] = "idle" /\ pc' = [pc EXCEPT ![t] = "enter"]
        /\ want' = [want EXCEPT ![t] = k]
        /\ entries' = entries /\ protected' = protected
    BY <1>0, <1>1 DEF Call, Goto, cacheVars, policyVars
  <2>2. Progress(t) = "idle" /\ Progress(t)' = "asked"
    BY <1>0, <2>1 DEF Progress
  <2>3. StatusOf' = [StatusOf EXCEPT ![t] = "asked"]
    BY <1>0, <2>1, <2>2, StatusMoves DEF Positions
  <2> QED
    BY <2>1, <2>2, <2>3 DEF Abstract!Request, Abstract!Step, StatusOf
<1>2. ASSUME NEW t \in Threads, Hit(t) PROVE Abstract!Hit(t)
  <2>1. /\ pc[t] = "enter" /\ pc' = [pc EXCEPT ![t] = "idle"]
        /\ want[t] \in entries /\ want' = want
        /\ entries' = entries /\ protected' = protected
    BY <1>2 DEF Hit, Goto, policyVars
  <2>2. Progress(t) = "asked" /\ Progress(t)' = "idle"
    BY <1>0, <2>1 DEF Progress
  <2>3. StatusOf' = [StatusOf EXCEPT ![t] = "idle"]
    BY <1>0, <2>1, <2>2, StatusMoves DEF Positions
  <2> QED
    BY <2>1, <2>2, <2>3 DEF Abstract!Hit, Abstract!Step, StatusOf
<1>3. ASSUME NEW t \in Threads, Own(t) PROVE Abstract!Fetch(t)
  <2>1. /\ pc[t] = "enter" /\ pc' = [pc EXCEPT ![t] = "loading"]
        /\ want[t] \notin entries /\ want[t] \notin loading /\ want' = want
        /\ entries' = entries /\ protected' = protected
    BY <1>3 DEF Own, Goto, policyVars, cacheVars
  <2>2. Progress(t) = "asked" /\ Progress(t)' = "fetching"
    BY <1>0, <2>1 DEF Progress
  <2>3. StatusOf' = [StatusOf EXCEPT ![t] = "fetching"]
    BY <1>0, <2>1, <2>2, StatusMoves DEF Positions
  <2>4. \A u \in Threads : StatusOf[u] = "fetching" => want[u] # want[t]
    BY <1>0, <2>1 DEF StatusOf, Progress, StoreInv, SingleFlight, Owns
  <2> QED
    BY <2>1, <2>2, <2>3, <2>4 DEF Abstract!Fetch, Abstract!Step, StatusOf
<1>4. ASSUME NEW t \in Threads, LoaderFails(t) PROVE Abstract!Fail(t)
  <2>1. /\ pc[t] = "loading" /\ pc' = [pc EXCEPT ![t] = "release"]
        /\ want' = want /\ entries' = entries /\ protected' = protected
    BY <1>0, <1>4 DEF LoaderFails, Goto, policyVars, cacheVars
  <2>2. Progress(t) = "fetching" /\ Progress(t)' = "done"
    BY <1>0, <2>1 DEF Progress
  <2>3. StatusOf' = [StatusOf EXCEPT ![t] = "done"]
    BY <1>0, <2>1, <2>2, StatusMoves DEF Positions
  <2> QED
    BY <2>1, <2>2, <2>3 DEF Abstract!Fail, Abstract!Step, StatusOf
<1>5. ASSUME NEW t \in Threads,
             Bypass(t) \/ EvictAndBypass(t) \/ Admit(t)
      PROVE  Abstract!Settle(t)
  <2>1. /\ pc[t] = "admit" /\ pc' = [pc EXCEPT ![t] = "release"]
        /\ want' = want /\ protected' = protected
    BY <1>5 DEF Bypass, EvictAndBypass, Admit, Goto, policyVars
  <2>2. Progress(t) = "fetching" /\ Progress(t)' = "done"
    BY <1>0, <2>1 DEF Progress
  <2>3. StatusOf' = [StatusOf EXCEPT ![t] = "done"]
    BY <1>0, <2>1, <2>2, StatusMoves DEF Positions
  <2>4. \E D \in SUBSET (entries \ protected) :
          \/ /\ Charged((entries \ D) \cup {want[t]}) <= Capacity
             /\ entries' = (entries \ D) \cup {want[t]}
          \/ entries' = entries \ D
    <3>1. CASE Bypass(t)
      <4>1. entries' = entries \ {}
        BY <3>1 DEF Bypass
      <4> QED
        BY <4>1
    <3>2. CASE EvictAndBypass(t)
      BY <3>2 DEF EvictAndBypass, Evictable
    <3>3. CASE Admit(t)
      <4>1. PICK D \in SUBSET Evictable : RoomAfter(want[t], D) /\ AdmitEvicting(t, D)
        BY <3>3 DEF Admit
      <4>2. entries' = (entries \ D) \cup {want[t]}
        BY <4>1 DEF AdmitEvicting
      <4>3. ExactCapacity' /\ Capacity' = Capacity /\ stats' \in Stats
        BY <3>3, AdmitPreserves DEF StoreInv, TypeOK
      <4>4. Charged(entries)' = Charged((entries \ D) \cup {want[t]})
        BY <4>2 DEF Charged, Occupied
      <4>5. Charged((entries \ D) \cup {want[t]}) <= Capacity
        BY <4>3, <4>4, StoreAssumption DEF ExactCapacity, Stats
      <4> QED
        BY <4>1, <4>2, <4>5 DEF Evictable
    <3> QED
      BY <1>5, <3>1, <3>2, <3>3
  <2>5. ASSUME NEW S PROVE Abstract!Charged(S) = Charged(S)
    <3>1. Abstract!Occupied(S) = Occupied(S)
      BY Zenon DEF Abstract!Occupied, Occupied
    <3>2. Abstract!Cardinality(Occupied(S)) = Cardinality(Occupied(S))
      BY Zenon DEF Abstract!Cardinality, Cardinality
    <3> QED
      BY <3>1, <3>2, Zenon DEF Abstract!Charged, Charged
  <2> QED
    BY <2>1, <2>2, <2>3, <2>4, <2>5 DEF Abstract!Settle, Abstract!Step, StatusOf
<1>6. ASSUME NEW t \in Threads, Notify(t) PROVE Abstract!Return(t)
  <2>1. /\ pc[t] = "notify" /\ want' = want
        /\ entries' = entries /\ protected' = protected
    BY <1>6 DEF Notify, policyVars, cacheVars
  <2>2. Progress(t) = "done" /\ Progress(t)' = "idle"
    BY <1>0, <1>6 DEF Progress, Notify
  <2>3. \A u \in Threads : u # t => Progress(u)' = Progress(u)
    BY <1>0, <1>6 DEF Progress, Notify
  <2>4. StatusOf' = [StatusOf EXCEPT ![t] = "idle"]
    BY <2>2, <2>3 DEF StatusOf
  <2> QED
    BY <2>1, <2>2, <2>4 DEF Abstract!Return, Abstract!Step, StatusOf
<1>7. ASSUME NEW t \in Threads,
             Block(t) \/ SpuriousWake(t) \/ LoaderSucceeds(t) \/ Release(t)
      PROVE  UNCHANGED <<entries, protected, StatusOf, want>>
  <2>1. UNCHANGED <<entries, protected, want>>
    BY <1>7 DEF Block, SpuriousWake, LoaderSucceeds, Release, policyVars, cacheVars
  <2>2. \E p \in Positions :
          /\ pc' = [pc EXCEPT ![t] = p]
          /\ \/ {p, pc[t]} = {"enter", "blocked"}
             \/ p = "admit" /\ pc[t] = "loading"
             \/ p = "notify" /\ pc[t] = "release"
    BY <1>0, <1>7 DEF Block, SpuriousWake, LoaderSucceeds, Release, Goto, Positions
  <2>3. \A u \in Threads : Progress(u)' = Progress(u)
    BY <1>0, <2>2 DEF Progress
  <2> QED
    BY <2>1, <2>3 DEF StatusOf
<1>8. ASSUME NEW fresh \in BOOLEAN, NEW layer \in Layers,
             NEW selected \in SUBSET {k \in Keys : Layer[k] = layer},
             BeginAccessSet(fresh, layer, selected)
      PROVE  Abstract!Pin(selected) /\ selected \in SUBSET Keys
  BY <1>8 DEF BeginAccessSet, Abstract!Pin, Progress
<1>9. CASE UNCHANGED vars
  BY <1>9 DEF vars, Progress
<1>10. CASE Next
  BY <1>1, <1>2, <1>3, <1>4, <1>5, <1>6, <1>7, <1>8, <1>10
  DEF Next, ThreadStep, Abstract!Next, StatusOf
<1> QED
  BY <1>9, <1>10

\* Whatever its policy, an enabled store implements the bounded cache.
THEOREM StoreIsBoundedCache ==
  ASSUME "disabled" \notin Modes
  PROVE  Spec => IsBoundedCache
<1>1. Init => Abstract!Init
  BY DEF Init, Abstract!Init, Progress
<1>2. StoreInv /\ [Next]_vars => [Abstract!Next]_(Abstract!cacheVars)
  BY StoreSimulates
<1> QED
  BY <1>1, <1>2, StoreInvariant, PTL DEF Spec, IsBoundedCache, Abstract!Spec

=============================================================================
