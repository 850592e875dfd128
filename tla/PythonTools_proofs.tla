----------------------- MODULE PythonTools_proofs ------------------------
(***************************************************************************)
(* The packed expert cache and the ablation tools.                         *)
(*                                                                         *)
(* A get of the packed expert cache never returns weights of another       *)
(* digest or damaged bytes, for every number of threads, paths, calls and  *)
(* faults.  The host tier may hold payloads of any digest, so a hit in it  *)
(* is bound by the comparison alone; a pinned section has no digest of its *)
(* own, and is bound because an instance that stages serves one bundle.    *)
(* Of the tiers as LRU lists: their bytes and their order are those of the *)
(* payloads they hold and within capacity; in a process that serves one    *)
(* bundle a get finds what was there all the time.                         *)
(*                                                                         *)
(* An ablation tool, for every study and however often it is run in one    *)
(* directory: what a summary names and what the gates of the tools catch.  *)
(* Every study is first shown to be sound, that is to ask enough to tell   *)
(* its arms apart and of no arm what an honest runner cannot give; the     *)
(* invariant of a run then speaks of any sound study.                      *)
(***************************************************************************)
EXTENDS PackedExpertCache, Ablation, SequenceTheorems, WellFoundedInduction, TLAPS

Sizes == INSTANCE ExpertBytes_proofs WITH Keys <- Paths, Bytes <- Size, MaxBytes <- MaxSize

Slots == [Paths -> Payload \cup {None}]

\* Only the payloads of a tier matter here.
IsTier(tier) ==
    /\ \E o, b : tier = [held |-> tier.held, order |-> o, bytes |-> b]
    /\ tier.held \in Slots

Calls == [pc : {"idle", "host", "read", "stage", "decoded", "hit", "miss", "write",
                "replace", "drop"},
          path : Paths \cup {None}, asked : Digests \cup {None},
          data : Payload \cup {None}, staged : Payload \cup {None},
          cached : BOOLEAN, fresh : BOOLEAN, warm : BOOLEAN]

TypesOK ==
    /\ file \in Slots /\ IsTier(host) /\ IsTier(pinned)
    /\ usage \in Usages /\ call \in [Threads -> Calls]

\* What a call knows of the payload it is about to return.
CallBound(c) ==
    /\ c.pc # "idle" => /\ c.path \in Paths /\ c.asked \in Digests
                        /\ ~usage.shared => c.asked = usage.bundle
    /\ c.pc \in {"stage", "decoded", "hit"} => c.data \in Payload /\ c.data.digest = c.asked
    /\ c.pc \in {"decoded", "hit"} =>
          c.data.whole /\ c.staged = [digest |-> c.asked, whole |-> TRUE]
    /\ c.fresh => usage.nonBlocking

\* What is in the pinned tier is of the one bundle the instance serves.
PinnedBound == \A p \in Paths : Has(pinned, p) => pinned.held[p].digest = usage.bundle

CacheInv ==
    TypesOK /\ (\A t \in Threads : CallBound(call[t])) /\ CachedWasVerified /\ PinnedBound

-----------------------------------------------------------------------------
(* The operations of a tier                                                *)

\* A payload is its digest and its soundness.
LEMMA WholePayload ==
  ASSUME NEW x \in Payload, x.whole
  PROVE  x = [digest |-> x.digest, whole |-> TRUE]
BY DEF Payload

\* An empty tier holds nothing.
LEMMA EmptyHolds ==
  IsTier(EmptyTier) /\ \A p \in Paths : ~Has(EmptyTier, p)
BY DEF IsTier, EmptyTier, Has, Slots

\* A touched tier holds what it held.
LEMMA TouchHolds ==
  ASSUME NEW tier, IsTier(tier), NEW p
  PROVE  IsTier(Touch(tier, p)) /\ Touch(tier, p).held = tier.held
<1>1. PICK h, o, b : tier = [held |-> h, order |-> o, bytes |-> b]
  BY DEF IsTier
<1>2. PICK n : Touch(tier, p) = [tier EXCEPT !.order = n]
  BY DEF Touch
<1>3. [[held |-> h, order |-> o, bytes |-> b] EXCEPT !.order = n]
        = [held |-> h, order |-> n, bytes |-> b]
  OBVIOUS
<1>4. Touch(tier, p) = [held |-> h, order |-> n, bytes |-> b]
  BY <1>1, <1>2, <1>3, Zenon
<1>5. tier.held = h /\ Touch(tier, p).held = h
  BY <1>1, <1>4
<1> QED
  BY <1>4, <1>5 DEF IsTier

\* A tier from which paths were dropped holds the others.
LEMMA DropHolds ==
  ASSUME NEW tier, IsTier(tier), NEW gone, NEW order
  PROVE  /\ IsTier(Drop(tier, gone, order))
         /\ \A q \in Paths : Drop(tier, gone, order).held[q] \in {None, tier.held[q]}
<1>1. PICK o, b : Drop(tier, gone, order) =
        [held |-> [q \in Paths |-> IF q \in gone THEN None ELSE tier.held[q]],
         order |-> o, bytes |-> b]
  BY DEF Drop
<1>2. Drop(tier, gone, order).held = [q \in Paths |-> IF q \in gone THEN None ELSE tier.held[q]]
  BY <1>1
<1>3. Drop(tier, gone, order).held \in Slots
  BY <1>2 DEF IsTier, Slots
<1>4. \A q \in Paths : Drop(tier, gone, order).held[q] \in {None, tier.held[q]}
  BY <1>2
<1> QED
  BY <1>1, <1>2, <1>3, <1>4 DEF IsTier

\* A put adds at most the payload it was given.
LEMMA PutHolds ==
  ASSUME NEW tier, IsTier(tier), NEW p \in Paths, NEW data \in Payload, NEW capacity
  PROVE  /\ IsTier(Put(tier, p, data, capacity))
         /\ \A q \in Paths : Put(tier, p, data, capacity).held[q] \in {None, tier.held[q], data}
<1>1. CASE Size[p] > capacity
  BY <1>1 DEF Put
<1>2. CASE ~(Size[p] > capacity)
  <2> DEFINE others == Pop(tier, p)
             kept == Evict(others, Size[p], capacity)
             new == Put(tier, p, data, capacity)
  <2>1. IsTier(others) /\ \A q \in Paths : others.held[q] \in {None, tier.held[q]}
    BY DropHolds DEF Pop
  <2>2. IsTier(kept) /\ \A q \in Paths : kept.held[q] \in {None, others.held[q]}
    <3> HIDE DEF others
    <3> QED
      BY <2>1, DropHolds DEF Evict
  <2>3. PICK o, b : new = [held |-> [kept.held EXCEPT ![p] = data], order |-> o, bytes |-> b]
    BY <1>2 DEF Put, Insert, InsertInto
  <2> HIDE DEF others, kept, new
  <2>4. new.held = [kept.held EXCEPT ![p] = data]
    BY <2>3
  <2>5. new.held \in Slots /\ \A q \in Paths : new.held[q] \in {kept.held[q], data}
    BY <2>2, <2>4 DEF IsTier, Slots
  <2>6. IsTier(new)
    BY <2>3, <2>4, <2>5 DEF IsTier
  <2>7. \A q \in Paths : new.held[q] \in {None, tier.held[q], data}
    BY <2>1, <2>2, <2>5
  <2> QED
    BY <2>6, <2>7 DEF new
<1> QED
  BY <1>1, <1>2

-----------------------------------------------------------------------------
(* The steps                                                               *)

\* A new cache satisfies the invariant.
LEMMA CacheInit == Init => CacheInv
<1> SUFFICES ASSUME Init PROVE CacheInv
  OBVIOUS
<1>1. TypesOK
  BY EmptyHolds DEF Init, TypesOK, Slots, Calls, Idle
<1>2. \A t \in Threads : CallBound(call[t])
  BY DEF Init, Idle, CallBound
<1>3. CachedWasVerified /\ PinnedBound
  BY EmptyHolds DEF Init, CachedWasVerified, PinnedBound
<1> QED
  BY <1>1, <1>2, <1>3 DEF CacheInv

\* A step of one call leaves the others as they are.
LEMMA OneCall ==
  ASSUME CacheInv, NEW t \in Threads, NEW c \in Calls, CallBound(c), usage' = usage,
         call' = [call EXCEPT ![t] = c]
  PROVE  call' \in [Threads -> Calls] /\ \A s \in Threads : CallBound(call[s])'
<1>1. call' \in [Threads -> Calls]
  BY DEF CacheInv, TypesOK
<1>2. \A s \in Threads : call'[s] = call[s] \/ call'[s] = c
  BY DEF CacheInv, TypesOK
<1>3. \A s \in Threads : CallBound(call[s])'
  BY <1>2, ZenonT(30) DEF CacheInv, CallBound
<1> QED
  BY <1>1, <1>3

\* Nor do new marks on the gets that have missed a sound sidecar.
LEMMA MarksOnly ==
  ASSUME CacheInv, NEW c \in [Threads -> Calls], NEW f, usage' = usage,
         call' = StillWarm(c, f), \A s \in Threads : CallBound(c[s])
  PROVE  call' \in [Threads -> Calls] /\ \A s \in Threads : CallBound(call[s])'
<1>1. \A s \in Threads : \E b \in BOOLEAN : call'[s] = [c[s] EXCEPT !.warm = b]
  <2> TAKE s \in Threads
  <2> DEFINE b == c[s].warm /\ f[c[s].path] = [digest |-> c[s].asked, whole |-> TRUE]
  <2>1. b \in BOOLEAN
    OBVIOUS
  <2>2. call'[s] = [c[s] EXCEPT !.warm = b]
    BY DEF StillWarm, Calls
  <2> QED
    BY <2>1, <2>2
<1>2. \A s \in Threads : /\ call'[s] \in Calls
                         /\ call'[s].pc = c[s].pc /\ call'[s].path = c[s].path
                         /\ call'[s].asked = c[s].asked /\ call'[s].data = c[s].data
                         /\ call'[s].staged = c[s].staged /\ call'[s].fresh = c[s].fresh
  BY <1>1, ZenonT(30) DEF Calls
<1>3. call' = [s \in Threads |-> call'[s]]
  BY DEF StillWarm
<1>4. call' \in [Threads -> Calls]
  BY <1>2, <1>3
<1>5. \A s \in Threads : CallBound(call[s])'
  BY <1>2 DEF CallBound
<1> QED
  BY <1>4, <1>5

\* A call begins.
LEMMA BeginPreserves ==
  ASSUME CacheInv, NEW t \in Threads, Get(t) \/ PutExpert(t)
  PROVE  CacheInv'
<1>1. PICK pc \in {"host", "write"}, p \in Paths,
           d \in IF usage.shared THEN Digests ELSE {usage.bundle} :
        call' = [call EXCEPT ![t] = [Idle EXCEPT !.pc = pc, !.path = p, !.asked = d,
                                         !.warm = file[p] = [digest |-> d, whole |-> TRUE]]]
  BY DEF Get, PutExpert, Begin
<1>2. UNCHANGED <<file, host, pinned, usage>>
  BY DEF Get, PutExpert, Begin
<1>3. d \in Digests /\ (~usage.shared => d = usage.bundle)
  BY <1>1 DEF CacheInv, TypesOK, Usages
<1> DEFINE warm == file[p] = [digest |-> d, whole |-> TRUE]
           c == [Idle EXCEPT !.pc = pc, !.path = p, !.asked = d, !.warm = warm]
<1>4. warm \in BOOLEAN
  OBVIOUS
<1> HIDE DEF warm
<1>5. c \in Calls /\ CallBound(c)
  BY <1>1, <1>3, <1>4 DEF Idle, Calls, CallBound
<1>6. call' = [call EXCEPT ![t] = c]
  BY <1>1 DEF warm
<1> HIDE DEF c
<1>7. call' \in [Threads -> Calls] /\ \A s \in Threads : CallBound(call[s])'
  BY <1>2, <1>5, <1>6, OneCall
<1> QED
  BY <1>2, <1>7 DEF CacheInv, TypesOK, CachedWasVerified, PinnedBound, Has

\* A get looks into the host tier.
LEMMA HostGetPreserves ==
  ASSUME CacheInv, NEW t \in Threads, HostGet(t)
  PROVE  CacheInv'
<1> DEFINE p == call[t].path
<1>1. /\ call[t] \in Calls /\ CallBound(call[t]) /\ call[t].pc = "host" /\ p \in Paths
      /\ UNCHANGED <<file, pinned, usage>>
  BY DEF CacheInv, TypesOK, CallBound, HostGet
<1>2. host' = host \/ host' = Touch(host, p)
  BY DEF HostGet
<1>3. IsTier(host)' /\ host'.held = host.held
  BY <1>2, TouchHolds DEF CacheInv, TypesOK, IsTier
<1>4. PICK c \in Calls : call' = [call EXCEPT ![t] = c] /\ CallBound(c)
  <2>1. CASE ~Has(host, p)
    <3> DEFINE c == [call[t] EXCEPT !.pc = "read"]
    <3>1. c \in Calls /\ CallBound(c)
      BY <1>1 DEF Calls, CallBound
    <3>2. call' = [call EXCEPT ![t] = c]
      BY <1>1, <2>1 DEF HostGet, Goto
    <3> QED
      BY <3>1, <3>2
  <2>2. CASE Has(host, p) /\ Matches(host.held[p], call[t].asked)
    <3> DEFINE c == [call[t] EXCEPT !.pc = "stage", !.cached = TRUE, !.data = host.held[p]]
    <3>1. host.held[p] \in Payload /\ host.held[p].digest = call[t].asked
      BY <1>1, <2>2 DEF CacheInv, TypesOK, IsTier, Slots, Has, Matches
    <3>2. c \in Calls /\ CallBound(c)
      BY <1>1, <3>1 DEF Calls, CallBound
    <3>3. call' = [call EXCEPT ![t] = c]
      BY <1>1, <2>2 DEF HostGet
    <3> QED
      BY <3>2, <3>3
  <2>3. CASE Has(host, p) /\ ~Matches(host.held[p], call[t].asked)
    <3> DEFINE c == [call[t] EXCEPT !.pc = "miss"]
    <3>1. c \in Calls /\ CallBound(c)
      BY <1>1 DEF Calls, CallBound
    <3>2. call' = [call EXCEPT ![t] = c]
      BY <1>1, <2>3 DEF HostGet, Goto
    <3> QED
      BY <3>1, <3>2
  <2> QED
    BY <2>1, <2>2, <2>3
<1>5. call' \in [Threads -> Calls] /\ \A s \in Threads : CallBound(call[s])'
  BY <1>1, <1>4, OneCall
<1> QED
  BY <1>1, <1>3, <1>5 DEF CacheInv, TypesOK, CachedWasVerified, PinnedBound, Has

\* A get reads the sidecar.
LEMMA ReadPreserves ==
  ASSUME CacheInv, NEW t \in Threads, ReadSidecar(t)
  PROVE  CacheInv'
<1> DEFINE p == call[t].path
<1>1. /\ call[t] \in Calls /\ CallBound(call[t]) /\ call[t].pc = "read" /\ p \in Paths
      /\ UNCHANGED <<file, host, pinned, usage>>
  BY DEF CacheInv, TypesOK, CallBound, ReadSidecar
<1>2. PICK c \in Calls : call' = [call EXCEPT ![t] = c] /\ CallBound(c)
  <2>1. CASE file[p] # None /\ Matches(file[p], call[t].asked)
    <3> DEFINE c == [call[t] EXCEPT !.pc = "stage", !.data = file[p]]
    <3>1. file[p] \in Payload /\ file[p].digest = call[t].asked
      BY <1>1, <2>1 DEF CacheInv, TypesOK, Slots, Matches
    <3>2. c \in Calls /\ CallBound(c)
      BY <1>1, <3>1 DEF Calls, CallBound
    <3>3. call' = [call EXCEPT ![t] = c]
      BY <1>1, <2>1 DEF ReadSidecar
    <3> QED
      BY <3>2, <3>3
  <2>2. CASE ~(file[p] # None /\ Matches(file[p], call[t].asked))
    <3> DEFINE c == [call[t] EXCEPT !.pc = "miss"]
    <3>1. c \in Calls /\ CallBound(c)
      BY <1>1 DEF Calls, CallBound
    <3>2. call' = [call EXCEPT ![t] = c]
      BY <1>1, <2>2 DEF ReadSidecar, Goto
    <3> QED
      BY <3>1, <3>2
  <2> QED
    BY <2>1, <2>2
<1>3. call' \in [Threads -> Calls] /\ \A s \in Threads : CallBound(call[s])'
  BY <1>1, <1>2, OneCall
<1> QED
  BY <1>1, <1>3 DEF CacheInv, TypesOK, CachedWasVerified, PinnedBound, Has

\* A get decodes, from the pinned section if there is one.
LEMMA StagePreserves ==
  ASSUME CacheInv, NEW t \in Threads, Stage(t)
  PROVE  CacheInv'
<1> DEFINE p == call[t].path
           section == usage.nonBlocking /\ Has(pinned, p)
           fresh == usage.nonBlocking /\ ~Has(pinned, p)
           ok == Decodes(t) /\ (fresh => Stageable(p))
           staged == IF section THEN pinned.held[p] ELSE call[t].data
           pc == IF ok THEN "decoded" ELSE "miss"
           c == [call[t] EXCEPT !.pc = pc, !.fresh = fresh, !.staged = staged]
<1>1. /\ call[t] \in Calls /\ CallBound(call[t]) /\ call[t].pc = "stage" /\ p \in Paths
      /\ call[t].data \in Payload /\ call[t].data.digest = call[t].asked
      /\ UNCHANGED <<file, host, usage>>
  BY DEF CacheInv, TypesOK, CallBound, Stage
<1>2. pinned' = pinned \/ pinned' = Touch(pinned, p)
  BY DEF Stage
<1>3. IsTier(pinned)' /\ pinned'.held = pinned.held
  BY <1>2, TouchHolds DEF CacheInv, TypesOK, IsTier
<1>4. call' = [call EXCEPT ![t] = c]
  BY <1>1 DEF Stage
<1>5. section => /\ pinned.held[p] \in Payload
                 /\ pinned.held[p] = [digest |-> call[t].asked, whole |-> TRUE]
  <2> SUFFICES ASSUME section
               PROVE  /\ pinned.held[p] \in Payload
                      /\ pinned.held[p] = [digest |-> call[t].asked, whole |-> TRUE]
    OBVIOUS
  <2>1. pinned.held[p] \in Payload /\ pinned.held[p].whole
        /\ pinned.held[p].digest = usage.bundle
    BY <1>1 DEF CacheInv, TypesOK, IsTier, Slots, Has, CachedWasVerified, PinnedBound
  <2>2. call[t].asked = usage.bundle
    BY <1>1 DEF CacheInv, TypesOK, Usages, CallBound
  <2> QED
    BY <2>1, <2>2, WholePayload
<1>6. staged \in Payload
  BY <1>1, <1>5
<1>7. ok => call[t].data.whole /\ staged = [digest |-> call[t].asked, whole |-> TRUE]
  BY <1>1, <1>5, WholePayload DEF Decodes
<1>8. pc \in {"decoded", "miss"} /\ (pc = "decoded" => ok) /\ fresh \in BOOLEAN
      /\ (fresh => usage.nonBlocking)
  BY DEF CacheInv, TypesOK, Usages
<1> HIDE DEF pc, ok, staged, fresh
<1>9. c \in Calls /\ CallBound(c)
  BY <1>1, <1>6, <1>7, <1>8 DEF Calls, CallBound
<1>10. call' \in [Threads -> Calls] /\ \A s \in Threads : CallBound(call[s])'
  BY <1>1, <1>4, <1>9, OneCall
<1> QED
  BY <1>1, <1>3, <1>10 DEF CacheInv, TypesOK, CachedWasVerified, PinnedBound, Has

\* A get puts its sections and its payload into the tiers.
LEMMA KeepPreserves ==
  ASSUME CacheInv, NEW t \in Threads, Pin(t) \/ Keep(t)
  PROVE  CacheInv'
<1> DEFINE p == call[t].path
           data == call[t].data
<1>1. /\ call[t] \in Calls /\ CallBound(call[t]) /\ call[t].pc = "decoded" /\ p \in Paths
      /\ data \in Payload /\ data.whole /\ UNCHANGED <<file, usage>>
  BY DEF CacheInv, TypesOK, CallBound, Pin, Keep
<1>2. PICK c \in Calls : call' = [call EXCEPT ![t] = c] /\ CallBound(c)
  <2>1. CASE Pin(t)
    <3> DEFINE c == [call[t] EXCEPT !.fresh = FALSE]
    <3>1. c \in Calls /\ CallBound(c) /\ call' = [call EXCEPT ![t] = c]
      BY <1>1, <2>1 DEF Calls, CallBound, Pin
    <3> QED
      BY <3>1
  <2>2. CASE Keep(t)
    <3> DEFINE c == [call[t] EXCEPT !.pc = "hit"]
    <3>1. c \in Calls /\ CallBound(c) /\ call' = [call EXCEPT ![t] = c]
      BY <1>1, <2>2 DEF Calls, CallBound, Keep, Goto
    <3> QED
      BY <3>1
  <2> QED
    BY <2>1, <2>2
<1>3. call' \in [Threads -> Calls] /\ \A s \in Threads : CallBound(call[s])'
  BY <1>1, <1>2, OneCall
<1>4. /\ IsTier(host)'
      /\ \A q \in Paths : host'.held[q] \in {None, host.held[q], data}
  <2>1. host' = host \/ host' = Put(host, p, data, HostCapacity)
    BY DEF Pin, Keep
  <2>2. IsTier(host)
    BY DEF CacheInv, TypesOK
  <2> HIDE DEF p, data
  <2>3. CASE host' = host
    BY <2>2, <2>3 DEF IsTier
  <2>4. CASE host' = Put(host, p, data, HostCapacity)
    BY <1>1, <2>2, <2>4, PutHolds DEF IsTier
  <2> QED
    BY <2>1, <2>3, <2>4
<1>5. /\ IsTier(pinned)'
      /\ \A q \in Paths : pinned'.held[q] \in {None, pinned.held[q]}
            \/ (pinned'.held[q] = data /\ data.digest = usage.bundle)
  <2>1. pinned' = pinned \/ (pinned' = Put(pinned, p, data, PinnedCapacity) /\ call[t].fresh)
    BY DEF Pin, Keep
  <2>2. IsTier(pinned)
    BY DEF CacheInv, TypesOK
  <2>3. call[t].fresh => data.digest = usage.bundle
    BY <1>1 DEF CacheInv, TypesOK, Usages, CallBound
  <2> HIDE DEF p, data
  <2>4. CASE pinned' = pinned
    BY <2>2, <2>4 DEF IsTier
  <2>5. CASE pinned' = Put(pinned, p, data, PinnedCapacity) /\ call[t].fresh
    BY <1>1, <2>2, <2>3, <2>5, PutHolds DEF IsTier
  <2> QED
    BY <2>1, <2>4, <2>5
<1>6. CachedWasVerified' /\ PinnedBound'
  BY <1>1, <1>4, <1>5 DEF CacheInv, CachedWasVerified, PinnedBound, Has
<1> QED
  BY <1>1, <1>3, <1>4, <1>5, <1>6 DEF CacheInv, TypesOK

\* A get returns; a put takes the lock, fails, or drops what it has replaced.
LEMMA QuietPreserves ==
  ASSUME CacheInv, NEW t \in Threads,
         Return(t) \/ Write(t) \/ WriteFails(t) \/ Invalidate(t)
  PROVE  CacheInv'
<1>1. call[t] \in Calls /\ CallBound(call[t]) /\ UNCHANGED <<file, usage>>
  BY DEF CacheInv, TypesOK, Return, Write, WriteFails, Invalidate
<1>2. PICK c \in Calls : call' = [call EXCEPT ![t] = c] /\ CallBound(c)
  <2>1. Idle \in Calls /\ CallBound(Idle)
    BY DEF Idle, Calls, CallBound
  <2> DEFINE c == [call[t] EXCEPT !.pc = "replace"]
  <2>2. CASE Write(t)
    <3>1. c \in Calls /\ CallBound(c) /\ call' = [call EXCEPT ![t] = c]
      BY <1>1, <2>2 DEF Calls, CallBound, Write, Goto
    <3> QED
      BY <3>1
  <2>3. CASE Return(t) \/ WriteFails(t) \/ Invalidate(t)
    BY <2>1, <2>3 DEF Return, WriteFails, Invalidate
  <2> QED
    BY <2>2, <2>3
<1>3. call' \in [Threads -> Calls] /\ \A s \in Threads : CallBound(call[s])'
  BY <1>1, <1>2, OneCall
<1>4. /\ host' = host \/ host' = Pop(host, call[t].path)
      /\ pinned' = pinned \/ pinned' = Pop(pinned, call[t].path)
  BY DEF Return, Write, WriteFails, Invalidate
<1>5. IsTier(host) /\ IsTier(pinned)
  BY DEF CacheInv, TypesOK
<1>6. IsTier(host)' /\ \A q \in Paths : host'.held[q] \in {None, host.held[q]}
  BY <1>4, <1>5, DropHolds DEF IsTier, Pop
<1>7. IsTier(pinned)' /\ \A q \in Paths : pinned'.held[q] \in {None, pinned.held[q]}
  BY <1>4, <1>5, DropHolds DEF IsTier, Pop
<1>8. CachedWasVerified' /\ PinnedBound'
  BY <1>1, <1>6, <1>7 DEF CacheInv, CachedWasVerified, PinnedBound, Has
<1> QED
  BY <1>1, <1>3, <1>6, <1>7, <1>8 DEF CacheInv, TypesOK

\* A put replaces its sidecar.
LEMMA ReplacePreserves ==
  ASSUME CacheInv, NEW t \in Threads, Replace(t)
  PROVE  CacheInv'
<1>1. /\ call[t] \in Calls /\ CallBound(call[t]) /\ call[t].pc = "replace"
      /\ UNCHANGED <<host, pinned, usage>> /\ call[t].path \in Paths /\ call[t].asked \in Digests
  BY DEF CacheInv, TypesOK, CallBound, Replace, Publish
<1>2. file' \in Slots
  BY <1>1 DEF CacheInv, TypesOK, Slots, Payload, Replace, Publish
<1> DEFINE c == Goto(t, "drop")
<1>3. c \in [Threads -> Calls]
  BY <1>1 DEF CacheInv, TypesOK, Calls, Goto
<1>4. \A s \in Threads : CallBound(c[s])
  <2>1. CallBound([call[t] EXCEPT !.pc = "drop"])
    BY <1>1 DEF Calls, CallBound
  <2>2. \A s \in Threads : c[s] = call[s] \/ c[s] = [call[t] EXCEPT !.pc = "drop"]
    BY DEF CacheInv, TypesOK, Goto
  <2> QED
    BY <2>1, <2>2 DEF CacheInv
<1>5. call' = StillWarm(c, file')
  BY DEF Replace
<1> HIDE DEF c
<1>6. call' \in [Threads -> Calls] /\ \A s \in Threads : CallBound(call[s])'
  BY <1>1, <1>3, <1>4, <1>5, MarksOnly
<1> QED
  BY <1>1, <1>2, <1>6 DEF CacheInv, TypesOK, CachedWasVerified, PinnedBound, Has

\* A file is damaged or published by another process, or the process dies.
LEMMA FaultPreserves ==
  ASSUME CacheInv, Fault
  PROVE  CacheInv'
<1>1. CASE \E p \in Paths : Damage(p) \/ \E d \in Digests : ForeignPut(p, d)
  <2>1. UNCHANGED <<host, pinned, usage>> /\ call' = StillWarm(call, file')
    BY <1>1 DEF Damage, ForeignPut, Publish
  <2>2. file' \in Slots
    <3>1. ASSUME NEW p \in Paths, Damage(p) PROVE file' \in Slots
      <4>1. file[p] \in Payload /\ file' = [file EXCEPT ![p] = [file[p] EXCEPT !.whole = FALSE]]
        BY <3>1 DEF Damage, CacheInv, TypesOK, Slots
      <4>2. [file[p] EXCEPT !.whole = FALSE] \in Payload
        BY <4>1 DEF Payload
      <4> QED
        BY <4>1, <4>2 DEF CacheInv, TypesOK, Slots
    <3>2. ASSUME NEW p \in Paths, NEW d \in Digests, ForeignPut(p, d) PROVE file' \in Slots
      BY <3>2 DEF ForeignPut, Publish, CacheInv, TypesOK, Slots, Payload
    <3> QED
      BY <1>1, <3>1, <3>2
  <2>3. call \in [Threads -> Calls] /\ \A s \in Threads : CallBound(call[s])
    BY DEF CacheInv, TypesOK
  <2>4. call' \in [Threads -> Calls] /\ \A s \in Threads : CallBound(call[s])'
    BY <2>1, <2>3, MarksOnly
  <2> QED
    BY <2>1, <2>2, <2>4 DEF CacheInv, TypesOK, CachedWasVerified, PinnedBound, Has
<1>2. CASE Kill
  <2>1. file' = file /\ host' = EmptyTier /\ pinned' = EmptyTier /\ usage' \in Usages
        /\ call' = [t \in Threads |-> Idle]
    BY <1>2 DEF Kill
  <2>2. Idle \in Calls
    BY DEF Idle, Calls
  <2>3. \A t \in Threads : CallBound(call[t])'
    BY <2>1 DEF Idle, CallBound
  <2>4. CachedWasVerified' /\ PinnedBound'
    BY <2>1, EmptyHolds DEF CachedWasVerified, PinnedBound
  <2>5. IsTier(host)' /\ IsTier(pinned)'
    BY <2>1, EmptyHolds
  <2> QED
    BY <2>1, <2>2, <2>3, <2>4, <2>5 DEF CacheInv, TypesOK
<1> QED
  BY <1>1, <1>2 DEF Fault

\* Every step preserves the invariant.
LEMMA CacheStepPreserves == CacheInv /\ [Next]_vars => CacheInv'
<1> SUFFICES ASSUME CacheInv, [Next]_vars PROVE CacheInv'
  OBVIOUS
<1>1. CASE UNCHANGED vars
  BY <1>1 DEF CacheInv, TypesOK, CallBound, CachedWasVerified, PinnedBound, Has, IsTier, vars
<1>2. CASE Fault
  BY <1>2, FaultPreserves
<1>3. ASSUME NEW t \in Threads, Get(t) \/ PutExpert(t) \/ WriteFails(t) \/ Step(t)
      PROVE  CacheInv'
  BY <1>3, BeginPreserves, HostGetPreserves, ReadPreserves, StagePreserves, KeepPreserves,
     QuietPreserves, ReplacePreserves DEF Step
<1> QED
  BY <1>1, <1>2, <1>3 DEF Next

-----------------------------------------------------------------------------
(* What follows                                                            *)

\* A get that returns weights returns sound ones of the digest it was asked
\* for, whatever is published or damaged while it is on its way.
THEOREM FingerprintBoundCorrect == Spec => []FingerprintBound
<1>1. CacheInv => FingerprintBound
  BY DEF CacheInv, CallBound, FingerprintBound
<1> QED
  BY CacheInit, CacheStepPreserves, <1>1, PTL DEF Spec

\* What the tiers hold has passed its checksums.
THEOREM CachedWasVerifiedCorrect == Spec => []CachedWasVerified
<1>1. CacheInv => CachedWasVerified
  BY DEF CacheInv
<1> QED
  BY CacheInit, CacheStepPreserves, <1>1, PTL DEF Spec

-----------------------------------------------------------------------------
(* Bytes and orders                                                        *)

\* The bytes of a set of paths are those of the shared definition.
LEMMA SameBytes ==
  ASSUME NEW S
  PROVE  Charged(S) = Sizes!Charged(S) /\ (IsFiniteSet(S) <=> Sizes!IsFiniteSet(S))
<1>1. \A T : Cardinality(T) = Sizes!Cardinality(T)
  BY DEF Cardinality, Sizes!Cardinality
<1> QED
  BY <1>1 DEF Charged, Sizes!Charged, Occupied, Sizes!Occupied, IsFiniteSet, Sizes!IsFiniteSet

LEMMA SizesOK == Sizes!IsFiniteSet(Paths) /\ MaxSize \in Nat /\ Size \in [Paths -> 1..MaxSize]
BY PackedExpertCacheAssumption, SameBytes

\* Payloads are charged natural numbers, nothing is charged nothing.
LEMMA BytesOf ==
  ASSUME NEW S \in SUBSET Paths
  PROVE  Charged(S) \in Nat /\ Charged({}) = 0
  BY SameBytes, SizesOK, Sizes!ChargedType, Sizes!ChargedNothing

LEMMA BytesLess ==
  ASSUME NEW S \in SUBSET Paths, NEW D \in SUBSET S
  PROVE  Charged(S \ D) = Charged(S) - Charged(D)
  BY SameBytes, SizesOK, Sizes!ChargedRemove

LEMMA BytesMore ==
  ASSUME NEW S \in SUBSET Paths, NEW p \in Paths, p \notin S
  PROVE  Charged(S \cup {p}) = Charged(S) + Size[p]
  BY SameBytes, SizesOK, Sizes!ChargedAdd

\* A set of natural numbers has a least element.
LEMMA LeastOf ==
  ASSUME NEW S \in SUBSET Nat, S # {}
  PROVE  Min(S) \in S
<1> DEFINE R == {p \in Nat \X Nat : p[1] < p[2]}
<1>1. IsWellFoundedOn(R, Nat)
  BY NatLessThanWellFounded DEF OpToRel
<1>2. PICK i \in S : \A y \in S : ~(<<y, i>> \in R)
  <2> HIDE DEF R
  <2> QED
    BY <1>1, WFMin
<1>3. \A y \in S : y \in Nat /\ i \in Nat /\ ~(y < i)
  BY <1>2
<1>4. \A y \in S : i <= y
  BY <1>3
<1> QED
  BY <1>4 DEF Min

\* The first occurrence of an element is taken out at its place.
LEMMA FirstAt ==
  ASSUME NEW s, NEW e, \E i \in 1..Len(s) : s[i] = e, Len(s) \in Nat
  PROVE  \E i \in 1..Len(s) : s[i] = e /\ RemoveFirst(s, e) = RemoveAt(s, i)
<1> DEFINE I == {i \in 1..Len(s) : s[i] = e}
<1>1. RemoveFirst(s, e) = RemoveAt(s, Min(I))
  BY DEF RemoveFirst, SelectInSeq
<1>2. I \in SUBSET Nat /\ I # {}
  OBVIOUS
<1>3. Min(I) \in I
  <2> HIDE DEF I
  <2> QED
    BY <1>2, LeastOf
<1> QED
  BY <1>1, <1>3

\* A sequence without its element at i.
LEMMA WithoutAt ==
  ASSUME NEW T, NEW s \in Seq(T), NEW i \in 1..Len(s)
  PROVE  /\ RemoveAt(s, i) \in Seq(T) /\ Len(RemoveAt(s, i)) = Len(s) - 1
         /\ \A j \in 1..Len(s) - 1 : RemoveAt(s, i)[j] = IF j < i THEN s[j] ELSE s[j + 1]
<1> DEFINE a == SubSeq(s, 1, i - 1)
           b == SubSeq(s, i + 1, Len(s))
<1>1. /\ Len(s) \in Nat /\ a \in Seq(T) /\ b \in Seq(T)
      /\ Len(a) = i - 1 /\ \A j \in 1..i - 1 : a[j] = s[j]
      /\ Len(b) = Len(s) - i /\ \A j \in 1..Len(s) - i : b[j] = s[i + j]
  OBVIOUS
<1>2. RemoveAt(s, i) = a \o b
  BY DEF RemoveAt
<1> HIDE DEF a, b
<1>3. /\ a \o b \in Seq(T) /\ Len(a \o b) = Len(a) + Len(b)
      /\ \A j \in 1..Len(a) + Len(b) : (a \o b)[j] = IF j <= Len(a) THEN a[j] ELSE b[j - Len(a)]
  BY <1>1, ConcatProperties
<1>4. \A j \in 1..Len(s) - 1 : (a \o b)[j] = IF j < i THEN s[j] ELSE s[j + 1]
  <2> TAKE j \in 1..Len(s) - 1
  <2>1. CASE j < i
    BY <1>1, <1>3, <2>1
  <2>2. CASE ~(j < i)
    <3>1. j - (i - 1) \in 1..Len(s) - i /\ i + (j - (i - 1)) = j + 1
      BY <1>1, <2>2
    <3>2. b[j - (i - 1)] = s[j + 1]
      BY <1>1, <3>1
    <3> QED
      BY <1>1, <1>3, <2>2, <3>2
  <2> QED
    BY <2>1, <2>2
<1> QED
  BY <1>1, <1>2, <1>3, <1>4

\* A sequence without its entry of p, where each path is named once.
LEMMA PopOrder ==
  ASSUME NEW s \in Seq(Paths), IsInjective(s), NEW p
  PROVE  /\ RemoveFirst(s, p) \in Seq(Paths) /\ IsInjective(RemoveFirst(s, p))
         /\ ToSet(RemoveFirst(s, p)) = ToSet(s) \ {p}
<1>0. /\ Len(s) \in Nat /\ DOMAIN s = 1..Len(s)
      /\ \A j, k \in 1..Len(s) : s[j] = s[k] => j = k
  BY DEF IsInjective
<1>1. CASE \E i \in 1..Len(s) : s[i] = p
  <2>1. PICK i \in 1..Len(s) : s[i] = p /\ RemoveFirst(s, p) = RemoveAt(s, i)
    BY <1>0, <1>1, FirstAt
  <2> DEFINE r == RemoveAt(s, i)
             place(j) == IF j < i THEN j ELSE j + 1
  <2>2. /\ r \in Seq(Paths) /\ Len(r) = Len(s) - 1
        /\ \A j \in 1..Len(s) - 1 : r[j] = IF j < i THEN s[j] ELSE s[j + 1]
    BY WithoutAt
  <2> HIDE DEF r
  <2>3. DOMAIN r = 1..Len(s) - 1
    BY <1>0, <2>2
  <2>4. /\ \A j \in 1..Len(s) - 1 : place(j) \in 1..Len(s) /\ place(j) # i /\ r[j] = s[place(j)]
        /\ \A j, k \in 1..Len(s) - 1 : place(j) = place(k) => j = k
    BY <1>0, <2>2
  <2>5. \A k \in 1..Len(s) : k # i => \E j \in 1..Len(s) - 1 : place(j) = k
    <3> TAKE k \in 1..Len(s)
    <3> HAVE k # i
    <3> DEFINE j == IF k < i THEN k ELSE k - 1
    <3>1. j \in 1..Len(s) - 1 /\ place(j) = k
      BY <1>0
    <3> QED
      BY <3>1
  <2> HIDE DEF place
  <2>6. IsInjective(r)
    BY <1>0, <2>3, <2>4 DEF IsInjective
  <2>7. \A j \in 1..Len(s) - 1 : r[j] \in ToSet(s) \ {p}
    BY <1>0, <2>1, <2>4 DEF ToSet
  <2>8. \A x \in ToSet(s) \ {p} : \E j \in 1..Len(s) - 1 : r[j] = x
    <3> TAKE x \in ToSet(s) \ {p}
    <3>1. PICK k \in 1..Len(s) : s[k] = x /\ k # i
      BY <1>0, <2>1 DEF ToSet
    <3>2. PICK j \in 1..Len(s) - 1 : place(j) = k
      BY <2>5, <3>1
    <3> QED
      BY <2>4, <3>1, <3>2
  <2>9. ToSet(r) = ToSet(s) \ {p}
    BY <2>3, <2>7, <2>8 DEF ToSet
  <2> QED
    BY <2>1, <2>2, <2>6, <2>9 DEF r
<1>2. CASE ~\E i \in 1..Len(s) : s[i] = p
  <2>1. RemoveFirst(s, p) = s
    BY <1>2 DEF RemoveFirst
  <2>2. p \notin ToSet(s)
    BY <1>0, <1>2 DEF ToSet
  <2> QED
    BY <2>1, <2>2
<1> QED
  BY <1>1, <1>2

\* A path not yet in the order is the youngest.
LEMMA AppendOrder ==
  ASSUME NEW s \in Seq(Paths), IsInjective(s), NEW p \in Paths, p \notin ToSet(s)
  PROVE  /\ Append(s, p) \in Seq(Paths) /\ IsInjective(Append(s, p))
         /\ ToSet(Append(s, p)) = ToSet(s) \cup {p}
<1>1. /\ Append(s, p) \in Seq(Paths) /\ Len(s) \in Nat /\ DOMAIN s = 1..Len(s)
      /\ DOMAIN Append(s, p) = 1..(Len(s) + 1)
      /\ \A j \in 1..Len(s) : Append(s, p)[j] = s[j]
      /\ Append(s, p)[Len(s) + 1] = p
  OBVIOUS
<1> DEFINE a == Append(s, p)
<1> HIDE DEF a
<1> QED
  BY <1>1 DEF IsInjective, ToSet

\* The entries after the oldest n.
LEMMA SuffixOrder ==
  ASSUME NEW s \in Seq(Paths), IsInjective(s), NEW n \in 0..Len(s)
  PROVE  LET r == SubSeq(s, n + 1, Len(s)) IN
         r \in Seq(Paths) /\ IsInjective(r) /\ ToSet(r) = ToSet(s) \ Oldest(s, n)
<1> DEFINE r == SubSeq(s, n + 1, Len(s))
<1>1. /\ Len(s) \in Nat /\ DOMAIN s = 1..Len(s)
      /\ r \in Seq(Paths) /\ Len(r) = Len(s) - n /\ DOMAIN r = 1..Len(s) - n
      /\ \A j \in 1..Len(s) - n : r[j] = s[n + j]
  OBVIOUS
<1>2. \A j, k \in 1..Len(s) : s[j] = s[k] => j = k
  BY <1>1 DEF IsInjective
<1> HIDE DEF r
<1> DEFINE place(j) == n + j
<1>3. /\ \A j \in 1..Len(s) - n : place(j) \in 1..Len(s) /\ place(j) \notin 1..n /\ r[j] = s[place(j)]
      /\ \A j, k \in 1..Len(s) - n : place(j) = place(k) => j = k
  BY <1>1
<1>4. \A k \in 1..Len(s) : k \notin 1..n => \E j \in 1..Len(s) - n : place(j) = k
  <2> TAKE k \in 1..Len(s)
  <2> HAVE k \notin 1..n
  <2>1. k - n \in 1..Len(s) - n /\ place(k - n) = k
    BY <1>1
  <2> QED
    BY <2>1
<1>5. 1..n \subseteq 1..Len(s)
  BY <1>1
<1> HIDE DEF place
<1>6. IsInjective(r)
  <2>1. ASSUME NEW j \in 1..Len(s) - n, NEW k \in 1..Len(s) - n, r[j] = r[k]
        PROVE  j = k
    <3>1. /\ place(j) \in 1..Len(s) /\ place(k) \in 1..Len(s)
          /\ r[j] = s[place(j)] /\ r[k] = s[place(k)]
      BY <1>3
    <3>2. place(j) = place(k)
      BY <1>2, <2>1, <3>1, Zenon
    <3> QED
      BY <1>3, <3>2
  <2> QED
    BY <1>1, <2>1 DEF IsInjective
<1>7. \A j \in 1..Len(s) - n : r[j] \in ToSet(s) \ Oldest(s, n)
  BY <1>1, <1>2, <1>3, <1>5 DEF ToSet, Oldest
<1>8. \A x \in ToSet(s) \ Oldest(s, n) : \E j \in 1..Len(s) - n : r[j] = x
  <2> TAKE x \in ToSet(s) \ Oldest(s, n)
  <2>1. PICK k \in 1..Len(s) : s[k] = x /\ k \notin 1..n
    BY <1>1 DEF ToSet, Oldest
  <2>2. PICK j \in 1..Len(s) - n : place(j) = k
    BY <1>4, <2>1
  <2> QED
    BY <1>3, <2>1, <2>2
<1>9. ToSet(r) = ToSet(s) \ Oldest(s, n)
  BY <1>1, <1>7, <1>8, ZenonT(30) DEF ToSet
<1> QED
  BY <1>1, <1>6, <1>9 DEF r

\* Evictions stop where the payload fits, or where nothing is left.
LEMMA EvictionsFit ==
  ASSUME NEW tier, NEW size, NEW capacity, Len(tier.order) \in Nat
  PROVE  LET n == Evictions(tier, size, capacity) IN
         /\ n \in 0..Len(tier.order)
         /\ \/ n = Len(tier.order)
            \/ tier.bytes - Charged(Oldest(tier.order, n)) + size <= capacity
<1> DEFINE Fits(n) == \/ n = Len(tier.order)
                      \/ tier.bytes - Charged(Oldest(tier.order, n)) + size <= capacity
           S == {n \in 0..Len(tier.order) : Fits(n)}
<1>1. S \in SUBSET Nat /\ Len(tier.order) \in S
  OBVIOUS
<1>2. Min(S) \in S
  <2> HIDE DEF S
  <2> QED
    BY <1>1, LeastOf
<1>3. Evictions(tier, size, capacity) = Min(S)
  BY DEF Evictions
<1> QED
  BY <1>2, <1>3
-----------------------------------------------------------------------------
(* The tiers count what they hold                                          *)

\* What a tier is between two steps.
Kept(tier) == {p \in Paths : Has(tier, p)}

TierOK(tier, capacity) ==
    /\ IsTier(tier) /\ tier.order \in Seq(Paths) /\ TierIsExact(tier, capacity)

\* Taking out gone leaves a tier exact when the order loses the same.
LEMMA DropExact ==
  ASSUME NEW tier, NEW capacity \in Nat, TierOK(tier, capacity),
         NEW gone \in SUBSET Paths, NEW order \in Seq(Paths), IsInjective(order),
         ToSet(order) = ToSet(tier.order) \ gone
  PROVE  LET d == Drop(tier, gone, order) IN
         /\ TierOK(d, capacity) /\ d.order = order /\ Kept(d) = Kept(tier) \ gone
         /\ d.bytes = tier.bytes - Charged(Kept(tier) \cap gone)
<1> DEFINE d == Drop(tier, gone, order)
<1>1. IsTier(d)
  BY DropHolds DEF TierOK
<1>2. /\ d.held = [q \in Paths |-> IF q \in gone THEN None ELSE tier.held[q]]
      /\ d.order = order
      /\ d.bytes = tier.bytes - Charged({q \in gone : Has(tier, q)})
  BY DEF Drop
<1> HIDE DEF d
<1>3. {q \in gone : Has(tier, q)} = Kept(tier) \cap gone
  BY DEF Kept
<1>4. Kept(d) = Kept(tier) \ gone
  BY <1>2 DEF Kept, Has
<1>5. Kept(d) = Kept(tier) \ (Kept(tier) \cap gone)
  BY <1>4
<1>6. tier.bytes = Charged(Kept(tier)) /\ tier.bytes <= capacity
  BY DEF TierOK, TierIsExact, Kept
<1>7. /\ Charged(Kept(d)) = Charged(Kept(tier)) - Charged(Kept(tier) \cap gone)
      /\ Charged(Kept(d)) \in Nat /\ Charged(Kept(tier)) \in Nat
      /\ Charged(Kept(tier) \cap gone) \in Nat
  <2>1. Kept(tier) \in SUBSET Paths /\ Kept(tier) \cap gone \in SUBSET Kept(tier)
    BY DEF Kept
  <2>2. Kept(d) \in SUBSET Paths /\ Kept(tier) \cap gone \in SUBSET Paths
    BY <1>4, <2>1
  <2> QED
    BY <1>5, <2>1, <2>2, BytesOf, BytesLess
<1>8. d.bytes = Charged(Kept(d)) /\ d.bytes <= capacity
  <2>1. d.bytes = tier.bytes - Charged(Kept(tier) \cap gone)
    BY <1>2, <1>3
  <2> QED
    BY <1>6, <1>7, <2>1
<1>9. ToSet(order) = Kept(d)
  BY <1>4 DEF TierOK, TierIsExact, Kept
<1>10. TierOK(d, capacity)
  BY <1>1, <1>2, <1>8, <1>9 DEF TierOK, TierIsExact, Kept
<1> QED
  BY <1>2, <1>3, <1>4, <1>10 DEF d

\* Taking one entry out leaves a tier exact.
LEMMA PopExact ==
  ASSUME NEW tier, NEW capacity \in Nat, TierOK(tier, capacity), NEW p \in Paths
  PROVE  TierOK(Pop(tier, p), capacity) /\ Kept(Pop(tier, p)) = Kept(tier) \ {p}
<1>1. tier.order \in Seq(Paths) /\ IsInjective(tier.order)
  BY DEF TierOK, TierIsExact
<1> DEFINE order == RemoveFirst(tier.order, p)
<1>2. order \in Seq(Paths) /\ IsInjective(order) /\ ToSet(order) = ToSet(tier.order) \ {p}
  BY <1>1, PopOrder
<1>3. Pop(tier, p) = Drop(tier, {p}, order)
  BY DEF Pop
<1>4. {p} \in SUBSET Paths
  OBVIOUS
<1> HIDE DEF order
<1>5. TierOK(Drop(tier, {p}, order), capacity) /\ Kept(Drop(tier, {p}, order)) = Kept(tier) \ {p}
  BY <1>2, <1>4, DropExact
<1> QED
  BY <1>3, <1>5

\* A hit leaves a tier exact.
LEMMA TouchExact ==
  ASSUME NEW tier, NEW capacity \in Nat, TierOK(tier, capacity), NEW p \in Paths, Has(tier, p)
  PROVE  TierOK(Touch(tier, p), capacity)
<1> DEFINE rest == RemoveFirst(tier.order, p)
           order == Append(rest, p)
<1>1. /\ rest \in Seq(Paths) /\ IsInjective(rest) /\ ToSet(rest) = ToSet(tier.order) \ {p}
  BY PopOrder DEF TierOK, TierIsExact
<1>2. p \in ToSet(tier.order)
  BY DEF TierOK, TierIsExact
<1> HIDE DEF rest
<1>3. order \in Seq(Paths) /\ IsInjective(order) /\ ToSet(order) = ToSet(tier.order)
  <2>1. p \notin ToSet(rest) /\ ToSet(rest) \cup {p} = ToSet(tier.order)
    BY <1>1, <1>2
  <2> QED
    BY <1>1, <2>1, AppendOrder
<1> HIDE DEF order
<1>4. IsTier(Touch(tier, p)) /\ Touch(tier, p).held = tier.held
  BY TouchHolds DEF TierOK
<1>5. Touch(tier, p) = [tier EXCEPT !.order = order]
  BY DEF Touch, order, rest
<1>6. Touch(tier, p).order = order /\ Touch(tier, p).bytes = tier.bytes
  BY <1>5 DEF TierOK, IsTier
<1> HIDE DEF Touch
<1> QED
  BY <1>3, <1>4, <1>6 DEF TierOK, TierIsExact, Has

\* Evictions leave a tier exact, and room for what they were made for.
LEMMA EvictExact ==
  ASSUME NEW tier, NEW capacity \in Nat, TierOK(tier, capacity),
         NEW size \in Nat, size <= capacity
  PROVE  LET e == Evict(tier, size, capacity) IN
         /\ TierOK(e, capacity) /\ Kept(e) \subseteq Kept(tier)
         /\ e.bytes + size <= capacity
<1> DEFINE n == Evictions(tier, size, capacity)
           gone == Oldest(tier.order, n)
           order == SubSeq(tier.order, n + 1, Len(tier.order))
           e == Evict(tier, size, capacity)
<1>1. /\ tier.order \in Seq(Paths) /\ IsInjective(tier.order) /\ Len(tier.order) \in Nat
      /\ DOMAIN tier.order = 1..Len(tier.order)
      /\ ToSet(tier.order) = Kept(tier) /\ tier.bytes = Charged(Kept(tier))
  BY DEF TierOK, TierIsExact, Kept
<1>2. /\ n \in 0..Len(tier.order)
      /\ n = Len(tier.order) \/ tier.bytes - Charged(gone) + size <= capacity
  BY <1>1, EvictionsFit
<1>3. e = Drop(tier, gone, order)
  BY DEF Evict
<1> HIDE DEF n, e
<1>4. gone \in SUBSET Kept(tier) /\ (n = Len(tier.order) => gone = Kept(tier))
  BY <1>1, <1>2 DEF Oldest, ToSet
<1>5. gone \in SUBSET Paths /\ Kept(tier) \cap gone = gone
  BY <1>4 DEF Kept
<1>6. order \in Seq(Paths) /\ IsInjective(order) /\ ToSet(order) = ToSet(tier.order) \ gone
  BY <1>1, <1>2, SuffixOrder
<1> HIDE DEF gone, order
<1>7. /\ TierOK(e, capacity) /\ Kept(e) = Kept(tier) \ gone
      /\ e.bytes = tier.bytes - Charged(gone)
  <2> DEFINE d == Drop(tier, gone, order)
  <2>1. /\ TierOK(d, capacity) /\ Kept(d) = Kept(tier) \ gone
        /\ d.bytes = tier.bytes - Charged(Kept(tier) \cap gone)
    BY <1>5, <1>6, DropExact
  <2> QED
    BY <1>3, <1>5, <2>1
<1>8. e.bytes + size <= capacity
  <2>1. CASE n = Len(tier.order)
    <3>1. e.bytes = Charged(Kept(tier)) - Charged(Kept(tier))
      BY <1>1, <1>4, <1>7, <2>1
    <3>2. Charged(Kept(tier)) \in Nat
      BY BytesOf DEF Kept
    <3> QED
      BY <3>1, <3>2
  <2>2. CASE tier.bytes - Charged(gone) + size <= capacity
    BY <1>7, <2>2
  <2> QED
    BY <1>2, <2>1, <2>2
<1> QED
  BY <1>7, <1>8 DEF e

\* A put leaves a tier exact, the path it is of kept or not before.
LEMMA PutExact ==
  ASSUME NEW tier, NEW capacity \in Nat, TierOK(tier, capacity),
         NEW p \in Paths, NEW data \in Payload
  PROVE  TierOK(Put(tier, p, data, capacity), capacity)
<1>1. CASE Size[p] > capacity
  BY <1>1 DEF Put
<1>2. CASE ~(Size[p] > capacity)
  <2> DEFINE others == Pop(tier, p)
             kept == Evict(others, Size[p], capacity)
             new == Put(tier, p, data, capacity)
  <2>1. Size[p] \in Nat /\ Size[p] <= capacity
    BY <1>2, PackedExpertCacheAssumption
  <2>2. TierOK(others, capacity) /\ Kept(others) = Kept(tier) \ {p}
    BY PopExact
  <2>3. TierOK(kept, capacity) /\ Kept(kept) \subseteq Kept(others)
        /\ kept.bytes + Size[p] <= capacity
    <3> HIDE DEF others
    <3> QED
      BY <2>1, <2>2, EvictExact
  <2>4. new = [held |-> [kept.held EXCEPT ![p] = data], order |-> Append(kept.order, p),
               bytes |-> kept.bytes + Size[p]]
    BY <1>2 DEF Put, Insert, InsertInto
  <2> HIDE DEF others, kept
  <2>5. p \notin Kept(kept) /\ kept.order \in Seq(Paths) /\ IsInjective(kept.order)
        /\ ToSet(kept.order) = Kept(kept) /\ kept.bytes = Charged(Kept(kept))
    BY <2>2, <2>3 DEF TierOK, TierIsExact, Kept
  <2> DEFINE order == Append(kept.order, p)
  <2>6. order \in Seq(Paths) /\ IsInjective(order) /\ ToSet(order) = Kept(kept) \cup {p}
    BY <2>5, AppendOrder
  <2>7. new.held = [kept.held EXCEPT ![p] = data] /\ new.order = order
        /\ new.bytes = kept.bytes + Size[p]
    BY <2>4
  <2>8. IsTier(new)
    BY PutHolds DEF TierOK
  <2> HIDE DEF new, order
  <2>9. Kept(new) = Kept(kept) \cup {p}
    <3>1. data # None
      BY PackedExpertCacheAssumption DEF Payload
    <3>2. kept.held \in Slots
      BY <2>3 DEF TierOK, IsTier
    <3> QED
      BY <2>7, <3>1, <3>2 DEF Kept, Has, Slots
  <2>10. new.bytes = Charged(Kept(new))
    <3>1. Kept(kept) \in SUBSET Paths
      BY DEF Kept
    <3> QED
      BY <2>5, <2>7, <2>9, <3>1, BytesMore
  <2> QED
    BY <2>3, <2>6, <2>7, <2>8, <2>9, <2>10 DEF TierOK, TierIsExact, Kept, new
<1> QED
  BY <1>1, <1>2

\* An empty tier is exact.
LEMMA EmptyExact ==
  ASSUME NEW capacity \in Nat
  PROVE  TierOK(EmptyTier, capacity)
<1>1. Kept(EmptyTier) = {} /\ Charged({}) = 0
  BY EmptyHolds, BytesOf DEF Kept
<1>2. EmptyTier.order = <<>> /\ EmptyTier.bytes = 0
  BY DEF EmptyTier
<1>3. <<>> \in Seq(Paths) /\ IsInjective(<<>>) /\ ToSet(<<>>) = {}
  BY DEF IsInjective, ToSet
<1>4. TierIsExact(EmptyTier, capacity)
  <2>1. {p \in Paths : Has(EmptyTier, p)} = {}
    BY EmptyHolds
  <2>2. 0 <= capacity
    OBVIOUS
  <2> HIDE DEF EmptyTier
  <2> DEFINE S == {p \in Paths : Has(EmptyTier, p)}
             order == EmptyTier.order
  <2>3. S = {} /\ order = <<>>
    BY <1>2, <2>1
  <2>4. IsInjective(order) /\ ToSet(order) = S /\ EmptyTier.bytes = Charged(S)
        /\ EmptyTier.bytes <= capacity
    BY <1>1, <1>2, <1>3, <2>2, <2>3
  <2> QED
    BY <2>4 DEF TierIsExact
<1> QED
  BY <1>2, <1>3, <1>4, EmptyHolds DEF TierOK

\* What a step does to a tier.
Moves(tier, new, capacity) ==
    \/ new \in {tier, EmptyTier}
    \/ \E p \in Paths : \/ Has(tier, p) /\ new = Touch(tier, p)
                        \/ new = Pop(tier, p)
                        \/ \E data \in Payload : new = Put(tier, p, data, capacity)

\* Every step does one of these to each of the tiers.
LEMMA TierSteps ==
  ASSUME CacheInv, Next
  PROVE  Moves(host, host', HostCapacity) /\ Moves(pinned, pinned', PinnedCapacity)
<1>1. CASE Fault
  BY <1>1 DEF Fault, Damage, ForeignPut, Publish, Kill, Moves
<1>2. ASSUME NEW t \in Threads, Get(t) \/ PutExpert(t) \/ WriteFails(t) \/ Step(t)
      PROVE  Moves(host, host', HostCapacity) /\ Moves(pinned, pinned', PinnedCapacity)
  <2> DEFINE p == call[t].path
             data == call[t].data
  <2>1. CASE UNCHANGED <<host, pinned>>
    BY <2>1 DEF Moves
  <2>2. /\ call[t] \in Calls /\ CallBound(call[t])
    BY DEF CacheInv, TypesOK
  <2>3. call[t].pc # "idle" => p \in Paths
    BY <2>2 DEF CallBound
  <2>4. call[t].pc = "decoded" => data \in Payload
    BY <2>2 DEF CallBound
  <2> HIDE DEF p, data
  <2>5. CASE HostGet(t)
    BY <2>3, <2>5 DEF HostGet, Moves, p
  <2>6. CASE Stage(t)
    BY <2>3, <2>6 DEF Stage, Moves, p
  <2>7. CASE Pin(t) \/ Keep(t)
    BY <2>3, <2>4, <2>7 DEF Pin, Keep, Moves, p, data
  <2>8. CASE Invalidate(t)
    BY <2>3, <2>8 DEF Invalidate, Moves, p
  <2> QED
    BY <1>2, <2>1, <2>5, <2>6, <2>7, <2>8
       DEF Get, PutExpert, Begin, WriteFails, Step, ReadSidecar, Return, Write, Replace, Publish
<1> QED
  BY <1>1, <1>2 DEF Next

\* What a step does to a tier leaves it exact.
LEMMA MovesExact ==
  ASSUME NEW tier, NEW new, NEW capacity \in Nat, TierOK(tier, capacity),
         Moves(tier, new, capacity)
  PROVE  TierOK(new, capacity)
BY TouchExact, PopExact, PutExact, EmptyExact DEF Moves

\* Both tiers count what they hold, stay within their capacity, and name each
\* payload once in their order.
THEOREM TiersAreExactCorrect == Spec => []TiersAreExact
<1> DEFINE TiersOK == TierOK(host, HostCapacity) /\ TierOK(pinned, PinnedCapacity)
<1>0. HostCapacity \in Nat /\ PinnedCapacity \in Nat
  BY PackedExpertCacheAssumption
<1>1. Init => TiersOK
  BY <1>0, EmptyExact DEF Init
<1>2. CacheInv /\ TiersOK /\ [Next]_vars => TiersOK'
  <2> SUFFICES ASSUME CacheInv, TiersOK, [Next]_vars PROVE TiersOK'
    OBVIOUS
  <2>1. CASE UNCHANGED vars
    BY <2>1 DEF vars
  <2>2. CASE Next
    BY <1>0, <2>2, TierSteps, MovesExact
  <2> QED
    BY <2>1, <2>2
<1>3. TiersOK => TiersAreExact
  BY DEF TierOK, TiersAreExact
<1> HIDE DEF TiersOK
<1> QED
  BY CacheInit, CacheStepPreserves, <1>1, <1>2, <1>3, PTL DEF Spec

-----------------------------------------------------------------------------
(* A get whose file is sound finds it                                      *)

\* An instance that serves one bundle holds payloads of that bundle only.
HostBound ==
    ~usage.shared => \A p \in Paths : Has(host, p) => host.held[p].digest = usage.bundle

\* What is known of a call while its file has been sound since it began.
WarmBound(c) ==
    c.warm => /\ c.pc # "idle" /\ file[c.path] = [digest |-> c.asked, whole |-> TRUE]
              /\ c.pc = "stage" => c.data.whole
              /\ c.pc = "miss" =>
                    usage.shared \/ (usage.nonBlocking /\ Size[c.path] > PinnedCapacity)

WarmInv == HostBound /\ \A t \in Threads : WarmBound(call[t])

\* A payload comes into the host tier from a call that found it.
LEMMA HostStep ==
  ASSUME CacheInv, HostBound, Next
  PROVE  HostBound'
<1>1. CASE Kill
  BY <1>1, EmptyHolds DEF Kill, HostBound
<1>2. CASE usage' = usage /\ \E p \in Paths, data \in Payload :
              /\ host' = Put(host, p, data, HostCapacity)
              /\ ~usage.shared => data.digest = usage.bundle
  <2>1. PICK p \in Paths, data \in Payload :
              /\ host' = Put(host, p, data, HostCapacity)
              /\ ~usage.shared => data.digest = usage.bundle
    BY <1>2
  <2>2. \A q \in Paths : host'.held[q] \in {None, host.held[q], data}
    BY <2>1, PutHolds DEF CacheInv, TypesOK
  <2> QED
    BY <1>2, <2>1, <2>2 DEF HostBound, Has
<1>3. CASE usage' = usage /\ \A q \in Paths : host'.held[q] \in {None, host.held[q]}
  BY <1>3 DEF HostBound, Has
<1>4. IsTier(host)
  BY DEF CacheInv, TypesOK
<1>5. CASE Fault
  BY <1>1, <1>3, <1>5 DEF Fault, Damage, ForeignPut, Publish
<1>6. ASSUME NEW t \in Threads, Get(t) \/ PutExpert(t) \/ WriteFails(t) \/ Step(t)
      PROVE  HostBound'
  <2>1. CASE UNCHANGED <<host, usage>>
    BY <1>3, <2>1
  <2>2. CASE HostGet(t)
    <3>1. usage' = usage /\ (host' = host \/ host' = Touch(host, call[t].path))
      BY <2>2 DEF HostGet
    <3> QED
      BY <1>3, <1>4, <3>1, TouchHolds
  <2>3. CASE Keep(t)
    <3>1. /\ call[t].path \in Paths /\ call[t].data \in Payload
          /\ call[t].data.digest = call[t].asked /\ usage' = usage
          /\ ~usage.shared => call[t].asked = usage.bundle
      BY <2>3 DEF CacheInv, TypesOK, CallBound, Keep
    <3>2. host' = host \/ host' = Put(host, call[t].path, call[t].data, HostCapacity)
      BY <2>3 DEF Keep
    <3> QED
      BY <1>2, <1>3, <3>1, <3>2
  <2>4. CASE Invalidate(t)
    <3>1. usage' = usage /\ host' = Pop(host, call[t].path)
      BY <2>4 DEF Invalidate
    <3> QED
      BY <1>3, <1>4, <3>1, DropHolds DEF Pop
  <2> QED
    BY <1>6, <2>1, <2>2, <2>3, <2>4
       DEF Get, PutExpert, Begin, WriteFails, Step, ReadSidecar, Stage, Pin, Return, Write,
           Replace, Publish
<1> QED
  BY <1>5, <1>6 DEF Next

\* A step of one call that leaves the files alone.
LEMMA OneWarmCall ==
  ASSUME CacheInv, WarmInv, NEW t \in Threads, NEW c, UNCHANGED <<file, usage>>,
         call' = [call EXCEPT ![t] = c], WarmBound(c)
  PROVE  \A s \in Threads : WarmBound(call[s])'
<1>1. \A s \in Threads : call'[s] = call[s] \/ call'[s] = c
  BY DEF CacheInv, TypesOK
<1> QED
  BY <1>1 DEF WarmInv, WarmBound

\* A file changes: what is still warm is as asked.
LEMMA FilesChange ==
  ASSUME CacheInv, NEW c \in [Threads -> Calls], call' = StillWarm(c, file'),
         usage' = usage,
         \A s \in Threads : c[s].warm => \/ c[s] = call[s] /\ WarmBound(call[s])
                                         \/ c[s].pc \notin {"idle", "stage", "miss"}
  PROVE  \A s \in Threads : WarmBound(call[s])'
<1> SUFFICES ASSUME NEW s \in Threads, call'[s].warm PROVE WarmBound(call[s])'
  BY DEF WarmBound
<1> DEFINE w == c[s].warm /\ file'[c[s].path] = [digest |-> c[s].asked, whole |-> TRUE]
<1>1. call'[s] = [c[s] EXCEPT !.warm = w] /\ w \in BOOLEAN
  BY DEF StillWarm
<1> HIDE DEF w
<1>2. /\ call'[s].warm = w /\ call'[s].pc = c[s].pc /\ call'[s].path = c[s].path
      /\ call'[s].asked = c[s].asked /\ call'[s].data = c[s].data
  BY <1>1 DEF Calls
<1>3. c[s].warm /\ file'[c[s].path] = [digest |-> c[s].asked, whole |-> TRUE]
  BY <1>2 DEF w
<1>4. (c[s] = call[s] /\ WarmBound(call[s])) \/ c[s].pc \notin {"idle", "stage", "miss"}
  BY <1>3
<1> QED
  BY <1>2, <1>3, <1>4 DEF WarmBound

\* Every step of a call keeps what is known of it.
LEMMA WarmSteps ==
  ASSUME CacheInv, WarmInv, NEW t \in Threads,
         Get(t) \/ PutExpert(t) \/ WriteFails(t) \/ Step(t)
  PROVE  \A s \in Threads : WarmBound(call[s])'
<1> DEFINE p == call[t].path
<1>1. call[t] \in Calls /\ CallBound(call[t]) /\ WarmBound(call[t])
  BY DEF CacheInv, TypesOK, WarmInv
<1>2. CASE Get(t) \/ PutExpert(t)
  <2>1. PICK pc \in {"host", "write"}, q \in Paths,
           d \in IF usage.shared THEN Digests ELSE {usage.bundle} :
        call' = [call EXCEPT ![t] = [Idle EXCEPT !.pc = pc, !.path = q, !.asked = d,
                                         !.warm = file[q] = [digest |-> d, whole |-> TRUE]]]
    BY <1>2 DEF Get, PutExpert, Begin
  <2> DEFINE warm == file[q] = [digest |-> d, whole |-> TRUE]
             c == [Idle EXCEPT !.pc = pc, !.path = q, !.asked = d, !.warm = warm]
  <2>2. WarmBound(c)
    BY DEF Idle, WarmBound
  <2>3. UNCHANGED <<file, usage>>
    BY <1>2 DEF Get, PutExpert, Begin
  <2> QED
    BY <2>1, <2>2, <2>3, OneWarmCall
<1>3. CASE HostGet(t)
  <2>0. UNCHANGED <<file, usage>> /\ call[t].pc = "host" /\ p \in Paths
    BY <1>1, <1>3 DEF HostGet, CallBound
  <2>1. CASE ~Has(host, p)
    <3> DEFINE c == [call[t] EXCEPT !.pc = "read"]
    <3>1. WarmBound(c) /\ call' = [call EXCEPT ![t] = c]
      BY <1>1, <1>3, <2>0, <2>1 DEF WarmBound, Calls, HostGet, Goto
    <3> QED
      BY <2>0, <3>1, OneWarmCall
  <2>2. CASE Has(host, p) /\ Matches(host.held[p], call[t].asked)
    <3> DEFINE c == [call[t] EXCEPT !.pc = "stage", !.cached = TRUE, !.data = host.held[p]]
    <3>1. host.held[p].whole
      BY <2>0, <2>2 DEF CacheInv, CachedWasVerified
    <3>2. WarmBound(c)
      BY <1>1, <2>0, <3>1 DEF WarmBound, Calls
    <3>3. call' = [call EXCEPT ![t] = c]
      BY <1>3, <2>2 DEF HostGet
    <3> QED
      BY <2>0, <3>2, <3>3, OneWarmCall
  <2>3. CASE Has(host, p) /\ ~Matches(host.held[p], call[t].asked)
    <3> DEFINE c == [call[t] EXCEPT !.pc = "miss"]
    <3>1. usage.shared
      BY <1>1, <2>0, <2>3 DEF WarmInv, HostBound, CallBound, Matches
    <3>2. WarmBound(c) /\ call' = [call EXCEPT ![t] = c]
      BY <1>1, <1>3, <2>0, <2>3, <3>1 DEF WarmBound, Calls, HostGet, Goto
    <3> QED
      BY <2>0, <3>2, OneWarmCall
  <2> QED
    BY <2>1, <2>2, <2>3
<1>4. CASE ReadSidecar(t)
  <2>0. UNCHANGED <<file, usage>> /\ call[t].pc = "read" /\ p \in Paths
    BY <1>1, <1>4 DEF ReadSidecar, CallBound
  <2>1. CASE file[p] # None /\ Matches(file[p], call[t].asked)
    <3> DEFINE c == [call[t] EXCEPT !.pc = "stage", !.data = file[p]]
    <3>1. call[t].warm => file[p] = [digest |-> call[t].asked, whole |-> TRUE]
      BY <1>1 DEF WarmBound
    <3>2. call[t].warm => file[p].whole
      BY <3>1
    <3>3. c.warm = call[t].warm /\ c.pc = "stage" /\ c.path = p /\ c.asked = call[t].asked
          /\ c.data = file[p]
      BY <1>1 DEF Calls
    <3> HIDE DEF c
    <3>4. WarmBound(c)
      BY <3>1, <3>2, <3>3 DEF WarmBound
    <3>5. call' = [call EXCEPT ![t] = c]
      BY <1>4, <2>1 DEF ReadSidecar, c
    <3> QED
      BY <2>0, <3>4, <3>5, OneWarmCall
  <2>2. CASE ~(file[p] # None /\ Matches(file[p], call[t].asked))
    <3> DEFINE c == [call[t] EXCEPT !.pc = "miss"]
    <3>1. ~call[t].warm
      <4>1. \A d : [digest |-> d, whole |-> TRUE].digest = d
        OBVIOUS
      <4>2. call[t].asked \in Digests
        BY <1>1, <2>0 DEF CallBound
      <4>3. [digest |-> call[t].asked, whole |-> TRUE] # None
        <5>1. [digest |-> call[t].asked, whole |-> TRUE] \in [digest : Digests, whole : BOOLEAN]
          BY <4>2
        <5> QED
          BY <5>1, PackedExpertCacheAssumption
      <4> QED
        BY <1>1, <2>2, <4>1, <4>3 DEF WarmBound, Matches
    <3>2. WarmBound(c) /\ call' = [call EXCEPT ![t] = c]
      BY <1>1, <1>4, <2>0, <2>2, <3>1 DEF WarmBound, Calls, ReadSidecar, Goto
    <3> QED
      BY <2>0, <3>2, OneWarmCall
  <2> QED
    BY <2>1, <2>2
<1>5. CASE Stage(t)
  <2> DEFINE fresh == usage.nonBlocking /\ ~Has(pinned, p)
             staged == IF usage.nonBlocking /\ Has(pinned, p) THEN pinned.held[p] ELSE call[t].data
             ok == Decodes(t) /\ (fresh => Stageable(p))
             pc == IF ok THEN "decoded" ELSE "miss"
             c == [call[t] EXCEPT !.pc = pc, !.fresh = fresh, !.staged = staged]
  <2>0. UNCHANGED <<file, usage>> /\ call[t].pc = "stage" /\ p \in Paths
    BY <1>1, <1>5 DEF Stage, CallBound
  <2>1. call' = [call EXCEPT ![t] = c]
    BY <1>5 DEF Stage
  <2>2. call[t].warm /\ pc = "miss" => usage.nonBlocking /\ Size[p] > PinnedCapacity
    <3>1. call[t].warm => Decodes(t)
      BY <1>1, <2>0 DEF WarmBound, Decodes
    <3>2. Size[p] \in Nat /\ PinnedCapacity \in Nat
      BY <2>0, PackedExpertCacheAssumption
    <3> QED
      BY <3>1, <3>2 DEF Stageable
  <2>3. pc \in {"decoded", "miss"}
    OBVIOUS
  <2> HIDE DEF pc, fresh, staged
  <2>4. WarmBound(c)
    BY <1>1, <2>0, <2>2, <2>3 DEF WarmBound, Calls
  <2> QED
    BY <2>0, <2>1, <2>4, OneWarmCall
<1>6. CASE Pin(t) \/ Keep(t) \/ Write(t)
  <2> DEFINE cp == [call[t] EXCEPT !.fresh = FALSE]
             ck == [call[t] EXCEPT !.pc = "hit"]
             cw == [call[t] EXCEPT !.pc = "replace"]
  <2>0. UNCHANGED <<file, usage>> /\ call[t].pc \in {"decoded", "write"}
    BY <1>6 DEF Pin, Keep, Write
  <2>1. WarmBound(cp) /\ WarmBound(ck) /\ WarmBound(cw)
    BY <1>1, <2>0 DEF WarmBound, Calls
  <2>2. \E c \in {cp, ck, cw} : call' = [call EXCEPT ![t] = c]
    BY <1>6 DEF Pin, Keep, Write, Goto
  <2> QED
    BY <2>0, <2>1, <2>2, OneWarmCall
<1>7. CASE Return(t) \/ WriteFails(t) \/ Invalidate(t)
  <2>1. UNCHANGED <<file, usage>> /\ call' = [call EXCEPT ![t] = Idle]
    BY <1>7 DEF Return, WriteFails, Invalidate
  <2>2. WarmBound(Idle)
    BY DEF WarmBound, Idle
  <2> QED
    BY <2>1, <2>2, OneWarmCall
<1>8. CASE Replace(t)
  <2> DEFINE c == Goto(t, "drop")
  <2>1. call' = StillWarm(c, file') /\ usage' = usage
    BY <1>8 DEF Replace, Publish
  <2>2. c \in [Threads -> Calls]
    BY <1>1 DEF CacheInv, TypesOK, Calls, Goto
  <2>3. \A s \in Threads : \/ c[s] = call[s] /\ WarmBound(call[s])
                           \/ c[s].pc \notin {"idle", "stage", "miss"}
    <3>1. \A s \in Threads : c[s] = call[s] \/ c[s] = [call[t] EXCEPT !.pc = "drop"]
      BY DEF CacheInv, TypesOK, Goto
    <3>2. [call[t] EXCEPT !.pc = "drop"].pc = "drop"
      BY <1>1 DEF Calls
    <3> QED
      BY <3>1, <3>2 DEF WarmInv
  <2> HIDE DEF c
  <2> QED
    BY <2>1, <2>2, <2>3, FilesChange
<1> QED
  BY <1>2, <1>3, <1>4, <1>5, <1>6, <1>7, <1>8 DEF Step

\* Every step keeps what is known of the gets whose file has been sound.
LEMMA WarmStepPreserves == CacheInv /\ WarmInv /\ [Next]_vars => WarmInv'
<1> SUFFICES ASSUME CacheInv, WarmInv, [Next]_vars PROVE WarmInv'
  OBVIOUS
<1>1. CASE UNCHANGED vars
  BY <1>1 DEF WarmInv, HostBound, WarmBound, Has, vars
<1>2. CASE Next
  <2>1. HostBound'
    BY <1>2, HostStep DEF WarmInv
  <2>2. CASE Kill
    <3>1. call' = [t \in Threads |-> Idle]
      BY <2>2 DEF Kill
    <3>2. \A t \in Threads : ~call'[t].warm
      BY <3>1 DEF Idle
    <3> QED
      BY <2>1, <3>2 DEF WarmInv, WarmBound
  <2>3. CASE \E p \in Paths : Damage(p) \/ \E d \in Digests : ForeignPut(p, d)
    <3>1. usage' = usage /\ call' = StillWarm(call, file')
      BY <2>3 DEF Damage, ForeignPut, Publish
    <3>2. call \in [Threads -> Calls] /\ \A s \in Threads : WarmBound(call[s])
      BY DEF CacheInv, TypesOK, WarmInv
    <3>3. \A s \in Threads : WarmBound(call[s])'
      BY <3>1, <3>2, FilesChange
    <3> QED
      BY <2>1, <3>3 DEF WarmInv
  <2>4. CASE \E t \in Threads : Get(t) \/ PutExpert(t) \/ WriteFails(t) \/ Step(t)
    BY <2>1, <2>4, WarmSteps DEF WarmInv
  <2> QED
    BY <1>2, <2>2, <2>3, <2>4 DEF Next, Fault
<1> QED
  BY <1>1, <1>2

\* A get whose sidecar is sound and as asked all the time does not miss in an
\* instance that serves one bundle, unless the pinned tier is too small for it.
THEOREM WarmGetHitsCorrect == Spec => []WarmGetHits
<1>1. Init => WarmInv
  BY EmptyHolds DEF Init, Idle, WarmInv, HostBound, WarmBound
<1>2. WarmInv => WarmGetHits
  BY DEF WarmInv, WarmBound, WarmGetHits
<1> QED
  BY CacheInit, CacheStepPreserves, WarmStepPreserves, <1>1, <1>2, PTL DEF Spec

-----------------------------------------------------------------------------
(* The studies of the ablation tools                                       *)

\* The orders in which an arm takes its steps, and a tool its summary files.
Orders ==
  { <<"bench", "json", "csv">>, <<"bench", "json", "csv", "check">>,
    <<"bench", "json", "csv", "diagnose", "check">>, <<"bench", "diagnose", "check", "json", "csv">>,
    <<"bench", "check", "json", "csv">>, <<"bench", "check", "json">> }

Endings == { <<"summary.json">>, <<"summary.json", "summary.csv">>,
             <<"summary.csv", "summary.json">> }

Does(s, i, what) == what \in ToSet(s.arms[i].steps)

\* A study fits the procedure all tools follow.
Shaped(s) ==
  /\ \E n \in Nat \ {0} : DOMAIN s.arms = 1..n
  /\ s.writes \in Endings
  /\ \A i \in DOMAIN s.arms :
        /\ s.arms[i].steps \in Orders /\ s.arms[i].exact \in BOOLEAN
        /\ (s.arms[i].backend \notin {"cpu", "single"} => s.arms[i].exact)
        /\ (s.arms[i].class # "any" => s.skips)
  /\ (s.skips => s.based = {} /\ s.diagnosed = {} /\ s.exactly = {} /\ s.pairs = {})
  /\ (s.exactly # {} => \A i \in DOMAIN s.arms : Does(s, i, "diagnose"))
  /\ (s.diagnosed # {} => Does(s, 1, "diagnose"))
  /\ s.pairs \subseteq (DOMAIN s.arms) \X (DOMAIN s.arms)

\* It asks for the counters that tell the variant of an arm from the first one's.
TellsVariants(s) ==
  \A i \in DOMAIN s.arms :
    \/ s.name = "cuda-residency"
    \/ ~s.arms[i].shown
    \/ s.arms[i].ran = s.arms[1].ran
    \/ "shows" \in s.checked /\ Does(s, i, "check")
    \/ "shows" \in s.demanded /\ (Does(s, i, "diagnose") => ~s.baseline)
    \/ "shows" \in s.diagnosed /\ Does(s, i, "diagnose") /\ s.arms[i].backend # "single"

\* The tools that compare no measured tokens, and those that compare diagnosed ones.
Blind == {"cuda-residency", "cuda-expert-major", "cuda-expert-fusion",
          "cuda-released-moe-layer", "cuda-admission-validation"}
ByDiagnosis == {"speculative-verification", "expert-major-verification", "adaptive-routing",
                "cuda-aurora-grid", "cuda-aurora-moe-layer"}

TellsTokens(s) ==
  \/ s.name \in Blind
  \/ "tokens" \in s.matched
  \/ "tokens" \in s.based /\ \A i \in DOMAIN s.arms : Does(s, i, "check")
  \/ /\ s.name \in ByDiagnosis /\ "tokens" \in s.diagnosed \cup s.exactly
     /\ \A i \in DOMAIN s.arms : Does(s, i, "diagnose") /\ s.arms[i].backend = "cpu"

Even(s, i, j) == s.arms[i].exact = s.arms[j].exact

\* It asks of no arm what an honest runner cannot give.
AsksFairly(s) ==
  /\ s.checked \subseteq {"options", "error", "shows"}
  /\ s.based \subseteq {"tokens", "routes", "error"}
  /\ s.diagnosed \subseteq {"tokens", "routes", "error", "counts", "shows"}
  /\ s.demanded \subseteq {"options", "error", "shows"}
  /\ s.matched \subseteq {"place", "tokens", "routes"}
  /\ s.exactly \subseteq {"tokens", "error"}
  /\ s.paired \subseteq {"tokens", "routes", "error", "place"}
  /\ \A i \in DOMAIN s.arms :
       /\ ("error" \in s.checked \cup s.demanded => s.arms[i].exact)
       /\ ({"tokens", "error"} \cap (s.based \cup s.diagnosed \cup s.matched) # {} => Even(s, i, 1))
       /\ ("counts" \in s.diagnosed /\ Does(s, i, "diagnose") =>
             \A c \in DOMAIN s.arms[i].demanded :
                s.arms[i].counts[c] = s.arms[i].demanded[c])
  /\ (s.exactly # {} => s.arms[1].exact)
  /\ \A p \in s.pairs : Even(s, p[1], p[2])

SoundStudy(s) == Shaped(s) /\ TellsVariants(s) /\ TellsTokens(s) /\ AsksFairly(s)

\* All arms of a study are measured alike.
Alike(arms, n, backend, steps) ==
  /\ DOMAIN arms = 1..n
  /\ \A i \in 1..n : /\ arms[i].backend = backend /\ arms[i].steps = steps
                     /\ arms[i].shown = TRUE /\ arms[i].exact = TRUE

\* The orders that extend the one of benchmark_once, written out.
LEMMA LongerBench ==
  /\ Bench \o <<"check">> = <<"bench", "json", "csv", "check">>
  /\ Bench \o <<"diagnose", "check">> = <<"bench", "json", "csv", "diagnose", "check">>
<1> DEFINE S == {"bench", "json", "csv", "diagnose", "check"}
           one == <<"check">>
           two == <<"diagnose", "check">>
<1>1. /\ Bench \in Seq(S) /\ Len(Bench) = 3
      /\ Bench[1] = "bench" /\ Bench[2] = "json" /\ Bench[3] = "csv"
  BY DEF Bench
<1>2. /\ one \in Seq(S) /\ Len(one) = 1 /\ one[1] = "check"
      /\ two \in Seq(S) /\ Len(two) = 2 /\ two[1] = "diagnose" /\ two[2] = "check"
  OBVIOUS
<1> HIDE DEF one, two, S
<1>3. /\ Bench \o one \in Seq(S) /\ Len(Bench \o one) = 4
      /\ \A i \in 1..4 : (Bench \o one)[i] = IF i <= 3 THEN Bench[i] ELSE one[i - 3]
  <2>1. /\ Bench \o one \in Seq(S) /\ Len(Bench \o one) = Len(Bench) + Len(one)
        /\ \A i \in 1..(Len(Bench) + Len(one)) :
              (Bench \o one)[i] = IF i <= Len(Bench) THEN Bench[i] ELSE one[i - Len(Bench)]
    BY <1>1, <1>2, ConcatProperties, Zenon
  <2> QED
    BY <1>1, <1>2, <2>1
<1>4. /\ Bench \o two \in Seq(S) /\ Len(Bench \o two) = 5
      /\ \A i \in 1..5 : (Bench \o two)[i] = IF i <= 3 THEN Bench[i] ELSE two[i - 3]
  <2>1. /\ Bench \o two \in Seq(S) /\ Len(Bench \o two) = Len(Bench) + Len(two)
        /\ \A i \in 1..(Len(Bench) + Len(two)) :
              (Bench \o two)[i] = IF i <= Len(Bench) THEN Bench[i] ELSE two[i - Len(Bench)]
    BY <1>1, <1>2, ConcatProperties, Zenon
  <2> QED
    BY <1>1, <1>2, <2>1
<1>5. ASSUME NEW s \in Seq(S), Len(s) = 4, s[1] = "bench", s[2] = "json", s[3] = "csv",
             s[4] = "check"
      PROVE  s = <<"bench", "json", "csv", "check">>
  BY <1>5
<1>6. ASSUME NEW s \in Seq(S), Len(s) = 5, s[1] = "bench", s[2] = "json", s[3] = "csv",
             s[4] = "diagnose", s[5] = "check"
      PROVE  s = <<"bench", "json", "csv", "diagnose", "check">>
  BY <1>6
<1>7. Bench \o one = <<"bench", "json", "csv", "check">>
  <2>1. /\ (Bench \o one)[1] = "bench" /\ (Bench \o one)[2] = "json"
        /\ (Bench \o one)[3] = "csv" /\ (Bench \o one)[4] = "check"
    BY <1>1, <1>2, <1>3
  <2> QED
    BY <1>3, <1>5, <2>1, Zenon
<1>8. Bench \o two = <<"bench", "json", "csv", "diagnose", "check">>
  <2>1. /\ (Bench \o two)[1] = "bench" /\ (Bench \o two)[2] = "json"
        /\ (Bench \o two)[3] = "csv" /\ (Bench \o two)[4] = "diagnose"
        /\ (Bench \o two)[5] = "check"
    BY <1>1, <1>2, <1>4
  <2> QED
    BY <1>4, <1>6, <2>1, Zenon
<1> QED
  BY <1>7, <1>8 DEF one, two

\* For a study whose arms are measured alike a few facts suffice.
LEMMA AlikeSound ==
  ASSUME NEW s, NEW n \in Nat \ {0}, NEW backend, NEW steps \in Orders,
         Alike(s.arms, n, backend, steps),
         s.writes \in Endings, s.pairs \subseteq (1..n) \X (1..n),
         \A i \in 1..n : s.arms[i].class # "any" => s.skips,
         s.skips => s.based = {} /\ s.diagnosed = {} /\ s.exactly = {} /\ s.pairs = {},
         s.exactly = {}, s.diagnosed # {} => "diagnose" \in ToSet(steps),
         \/ s.name = "cuda-residency"
         \/ "shows" \in s.checked /\ "check" \in ToSet(steps)
         \/ "shows" \in s.demanded /\ ("diagnose" \in ToSet(steps) => ~s.baseline),
         \/ s.name \in Blind
         \/ "tokens" \in s.matched
         \/ "tokens" \in s.based /\ "check" \in ToSet(steps)
         \/ /\ s.name \in ByDiagnosis /\ "tokens" \in s.diagnosed
            /\ "diagnose" \in ToSet(steps) /\ backend = "cpu",
         s.checked \subseteq {"options", "error", "shows"},
         s.based \subseteq {"tokens", "routes", "error"},
         s.diagnosed \subseteq {"tokens", "routes", "error"},
         s.demanded \subseteq {"options", "error", "shows"},
         s.matched \subseteq {"place", "tokens", "routes"},
         s.paired \subseteq {"tokens", "routes", "error", "place"}
  PROVE  SoundStudy(s)
<1>1. /\ DOMAIN s.arms = 1..n /\ 1 \in 1..n
      /\ \A i \in 1..n : /\ s.arms[i].backend = backend /\ s.arms[i].steps = steps
                         /\ s.arms[i].shown = TRUE /\ s.arms[i].exact = TRUE
  BY DEF Alike
<1>2. Shaped(s)
  BY <1>1 DEF Shaped, Does
<1>3. TellsVariants(s)
  BY <1>1 DEF TellsVariants, Does
<1>4. TellsTokens(s)
  BY <1>1 DEF TellsTokens, Does
<1>5. AsksFairly(s)
  <2>1. "counts" \notin s.diagnosed
    OBVIOUS
  <2>2. \A p \in s.pairs : p[1] \in 1..n /\ p[2] \in 1..n
    OBVIOUS
  <2> QED
    BY <1>1, <2>1, <2>2 DEF AsksFairly, Even
<1> QED
  BY <1>2, <1>3, <1>4, <1>5 DEF SoundStudy

\* Which orders have the steps that are looked for.
LEMMA OrderSteps ==
  /\ Bench \in Orders /\ Bench \o <<"check">> \in Orders
  /\ Bench \o <<"diagnose", "check">> \in Orders
  /\ "diagnose" \notin ToSet(Bench) /\ "check" \in ToSet(Bench \o <<"check">>)
  /\ {"diagnose", "check"} \subseteq ToSet(Bench \o <<"diagnose", "check">>)
  /\ <<"bench", "check", "json", "csv">> \in Orders
  /\ <<"bench", "check", "json">> \in Orders
  /\ "check" \in ToSet(<<"bench", "check", "json", "csv">>)
  /\ "diagnose" \notin ToSet(<<"bench", "check", "json", "csv">>)
  /\ "check" \in ToSet(<<"bench", "check", "json">>)
  /\ "diagnose" \notin ToSet(<<"bench", "check", "json">>)
  BY LongerBench DEF Orders, Bench, ToSet

\* Arms that get their steps from the tool.
IsPlain(arm, backend) ==
  /\ {"name", "backend", "ran", "shown", "exact", "class", "steps"} \subseteq DOMAIN arm
  /\ arm.backend = backend /\ arm.shown = TRUE /\ arm.exact = TRUE

Plain(arms, n, backend) ==
  DOMAIN arms = 1..n /\ \A i \in 1..n : IsPlain(arms[i], backend)

\* Arm builds a plain arm, and what a tool changes in one leaves it plain.
LEMMA PlainArm ==
  ASSUME NEW name, NEW backend, NEW ran
  PROVE  IsPlain(Arm(name, backend, ran), backend) /\ Arm(name, backend, ran).class = "any"
BY DEF IsPlain, Arm

LEMMA PlainOfClass ==
  ASSUME NEW arm, NEW backend, IsPlain(arm, backend), NEW class
  PROVE  IsPlain([arm EXCEPT !.class = class], backend)
BY DEF IsPlain

LEMMA PlainRenamed ==
  ASSUME NEW arm, NEW backend, IsPlain(arm, backend), NEW name, NEW ran
  PROVE  IsPlain([arm EXCEPT !.name = name, !.ran = ran], backend)
BY DEF IsPlain

\* Plain arms that are given their steps are measured alike.
LEMMA PlainAlike ==
  ASSUME NEW arms, NEW n \in Nat, NEW backend, NEW steps, Plain(arms, n, backend)
  PROVE  Alike(WithSteps(steps, arms), n, backend, steps)
<1>1. ASSUME NEW i \in 1..n
      PROVE  LET a == [arms[i] EXCEPT !.steps = steps] IN
             /\ a.backend = backend /\ a.steps = steps /\ a.shown = TRUE /\ a.exact = TRUE
             /\ a.class = arms[i].class
  BY DEF Plain, IsPlain
<1> QED
  BY <1>1 DEF Plain, Alike, WithSteps

LEMMA PlainClasses ==
  ASSUME NEW arms, NEW n, NEW backend, NEW steps, Plain(arms, n, backend),
         \A i \in 1..n : arms[i].class = "any"
  PROVE  \A i \in 1..n : WithSteps(steps, arms)[i].class = "any"
BY DEF Plain, IsPlain, WithSteps

\* Two lists of arms, one behind the other.
LEMMA Appended ==
  ASSUME NEW m \in Nat, NEW n \in Nat, NEW f, NEW g,
         f = [i \in 1..m |-> f[i]], g = [i \in 1..n |-> g[i]]
  PROVE  /\ DOMAIN (f \o g) = 1..(m + n)
         /\ \A i \in 1..m : (f \o g)[i] = f[i]
         /\ \A i \in 1..n : (f \o g)[m + i] = g[i]
<1> DEFINE S == {f[i] : i \in 1..m} \cup {g[i] : i \in 1..n}
<1>1. f \in Seq(S) /\ Len(f) = m /\ g \in Seq(S) /\ Len(g) = n
  <2>1. f \in [1..m -> S] /\ g \in [1..n -> S]
    OBVIOUS
  <2> HIDE DEF S
  <2> QED
    BY <2>1
<1> HIDE DEF S
<1>2. /\ f \o g \in Seq(S) /\ Len(f \o g) = Len(f) + Len(g)
      /\ \A i \in 1..(Len(f) + Len(g)) :
            (f \o g)[i] = IF i <= Len(f) THEN f[i] ELSE g[i - Len(f)]
  BY <1>1, ConcatProperties, Zenon
<1>3. DOMAIN (f \o g) = 1..(m + n)
  BY <1>1, <1>2
<1>4. ASSUME NEW i \in 1..m PROVE (f \o g)[i] = f[i]
  BY <1>1, <1>2
<1>5. ASSUME NEW i \in 1..n PROVE (f \o g)[m + i] = g[i]
  BY <1>1, <1>2
<1> QED
  BY <1>3, <1>4, <1>5

\* One lemma for each tool: its study is sound.
LEMMA FfnSound == SoundStudy(Ffn)
<1>1. /\ Ffn.name = "cuda-ffn" /\ Ffn.arms = FfnArms
      /\ Ffn.writes = <<"summary.json">>
      /\ Ffn.checked = {} /\ Ffn.based = {}
      /\ Ffn.diagnosed = {} /\ Ffn.exactly = {}
      /\ Ffn.demanded = {"shows"} /\ Ffn.matched = {"place", "tokens"}
      /\ Ffn.paired = {}
      /\ Ffn.pairs = {} /\ Ffn.baseline = FALSE /\ Ffn.skips = FALSE
  BY DEF Ffn, Study
<1>2. /\ Alike(FfnArms, 4, "cuda", Bench)
      /\ \A i \in 1..4 : FfnArms[i].class = "any"
  BY DEF Alike, FfnArms, Arm
<1> QED
  BY <1>1, <1>2, OrderSteps, AlikeSound DEF Endings, Blind, ByDiagnosis

LEMMA FusionSound == SoundStudy(Fusion)
<1>1. /\ Fusion.name = "cuda-fusion" /\ Fusion.arms = FusionArms
      /\ Fusion.writes = <<"summary.json">>
      /\ Fusion.checked = {} /\ Fusion.based = {}
      /\ Fusion.diagnosed = {} /\ Fusion.exactly = {}
      /\ Fusion.demanded = {"error", "shows"} /\ Fusion.matched = {"place", "tokens", "routes"}
      /\ Fusion.paired = {}
      /\ Fusion.pairs = {} /\ Fusion.baseline = FALSE /\ Fusion.skips = FALSE
  BY DEF Fusion, Study
<1>2. /\ Alike(FusionArms, 4, "cuda", Bench)
      /\ \A i \in 1..4 : FusionArms[i].class = "any"
  BY DEF Alike, FusionArms, Arm
<1> QED
  BY <1>1, <1>2, OrderSteps, AlikeSound DEF Endings, Blind, ByDiagnosis

LEMMA TransferSound == SoundStudy(Transfer)
<1>1. /\ Transfer.name = "cuda-transfer" /\ Transfer.arms = TransferArms
      /\ Transfer.writes = <<"summary.json">>
      /\ Transfer.checked = {} /\ Transfer.based = {}
      /\ Transfer.diagnosed = {} /\ Transfer.exactly = {}
      /\ Transfer.demanded = {"options", "shows"} /\ Transfer.matched = {"place", "tokens", "routes"}
      /\ Transfer.paired = {}
      /\ Transfer.pairs = {} /\ Transfer.baseline = FALSE /\ Transfer.skips = FALSE
  BY DEF Transfer, Study
<1>2. /\ Alike(TransferArms, 4, "cuda", Bench)
      /\ \A i \in 1..4 : TransferArms[i].class = "any"
  BY DEF Alike, TransferArms, Arm
<1> QED
  BY <1>1, <1>2, OrderSteps, AlikeSound DEF Endings, Blind, ByDiagnosis

LEMMA ResidencySound == SoundStudy(Residency)
<1>1. /\ Residency.name = "cuda-residency" /\ Residency.arms = ResidencyArms
      /\ Residency.writes = <<"summary.json">>
      /\ Residency.checked = {} /\ Residency.based = {}
      /\ Residency.diagnosed = {} /\ Residency.exactly = {}
      /\ Residency.demanded = {} /\ Residency.matched = {}
      /\ Residency.paired = {}
      /\ Residency.pairs = {} /\ Residency.baseline = FALSE /\ Residency.skips = FALSE
  BY DEF Residency, Study
<1>2. /\ Alike(ResidencyArms, 4, "cuda", Bench)
      /\ \A i \in 1..4 : ResidencyArms[i].class = "any"
  BY DEF Alike, ResidencyArms, Arm
<1> QED
  BY <1>1, <1>2, OrderSteps, AlikeSound DEF Endings, Blind, ByDiagnosis

LEMMA L1CacheSound == SoundStudy(L1Cache)
<1>1. /\ L1Cache.name = "l1-expert-cache" /\ L1Cache.arms = L1Arms
      /\ L1Cache.writes = <<"summary.json">>
      /\ L1Cache.checked = {} /\ L1Cache.based = {}
      /\ L1Cache.diagnosed = {} /\ L1Cache.exactly = {}
      /\ L1Cache.demanded = {"options", "shows"} /\ L1Cache.matched = {"place", "tokens", "routes"}
      /\ L1Cache.paired = {}
      /\ L1Cache.pairs = {} /\ L1Cache.baseline = FALSE /\ L1Cache.skips = FALSE
  BY DEF L1Cache, Study
<1>2. /\ Alike(L1Arms, 4, "cuda", Bench)
      /\ \A i \in 1..4 : L1Arms[i].class = "any"
  BY DEF Alike, L1Arms, Arm
<1> QED
  BY <1>1, <1>2, OrderSteps, AlikeSound DEF Endings, Blind, ByDiagnosis

LEMMA L2ReaderSound == SoundStudy(L2Reader)
<1>1. /\ L2Reader.name = "l2-reader" /\ L2Reader.arms = WithSteps(Bench \o <<"check">>, ReaderArms)
      /\ L2Reader.writes = <<"summary.json">>
      /\ L2Reader.checked = {"options", "shows"} /\ L2Reader.based = {}
      /\ L2Reader.diagnosed = {} /\ L2Reader.exactly = {}
      /\ L2Reader.demanded = {} /\ L2Reader.matched = {"place", "tokens", "routes"}
      /\ L2Reader.paired = {}
      /\ L2Reader.pairs = {} /\ L2Reader.baseline = FALSE /\ L2Reader.skips = TRUE
  BY DEF L2Reader, Study
<1>2. Plain(ReaderArms, 4, "cpu")
  BY DEF Plain, IsPlain, ReaderArms, Arm
<1>4. Alike(WithSteps(Bench \o <<"check">>, ReaderArms), 4, "cpu", Bench \o <<"check">>)
  BY <1>2, PlainAlike, 4 \in Nat
<1> QED
  BY <1>1, <1>4, OrderSteps, AlikeSound DEF Endings, Blind, ByDiagnosis

LEMMA BoundedSliceSound == SoundStudy(BoundedSlice)
<1>1. /\ BoundedSlice.name = "bounded-slice" /\ BoundedSlice.arms = SliceArms
      /\ BoundedSlice.writes = <<"summary.json">>
      /\ BoundedSlice.checked = {"options", "shows"} /\ BoundedSlice.based = {}
      /\ BoundedSlice.diagnosed = {} /\ BoundedSlice.exactly = {}
      /\ BoundedSlice.demanded = {} /\ BoundedSlice.matched = {"place", "tokens"}
      /\ BoundedSlice.paired = {}
      /\ BoundedSlice.pairs = {} /\ BoundedSlice.baseline = FALSE /\ BoundedSlice.skips = TRUE
  BY DEF BoundedSlice, Study
<1>2. /\ Alike(SliceArms, 4, "single", <<"bench", "check", "json", "csv">>)
  BY DEF Alike, SliceArms, ReaderArms, Arm
<1> QED
  BY <1>1, <1>2, OrderSteps, AlikeSound DEF Endings, Blind, ByDiagnosis

LEMMA DeadlineLoaderSound == SoundStudy(DeadlineLoader)
<1>1. /\ DeadlineLoader.name = "deadline-expert-loader" /\ DeadlineLoader.arms = WithSteps(Bench \o <<"check">>, LoaderArms)
      /\ DeadlineLoader.writes = <<"summary.json">>
      /\ DeadlineLoader.checked = {"options", "shows"} /\ DeadlineLoader.based = {}
      /\ DeadlineLoader.diagnosed = {} /\ DeadlineLoader.exactly = {}
      /\ DeadlineLoader.demanded = {} /\ DeadlineLoader.matched = {"place", "tokens", "routes"}
      /\ DeadlineLoader.paired = {}
      /\ DeadlineLoader.pairs = {} /\ DeadlineLoader.baseline = FALSE /\ DeadlineLoader.skips = TRUE
  BY DEF DeadlineLoader, Study
<1>2. Plain(LoaderArms, 8, "cpu")
  <2>1. Plain(ReaderArms, 4, "cpu")
    BY DEF Plain, IsPlain, ReaderArms, Arm
  <2>2. ASSUME NEW i \in 1..8 PROVE IsPlain(LoaderArms[i], "cpu")
    <3> DEFINE e == ReaderArms[(i + 1) \div 2]
               schedule == IF i % 2 = 1 THEN "blocking" ELSE "deadline"
               name == Engine(schedule, e.class)
               arm == [e EXCEPT !.name = name, !.ran = schedule]
    <3>1. (i + 1) \div 2 \in 1..4
      OBVIOUS
    <3>2. IsPlain(e, "cpu")
      BY <2>1, <3>1 DEF Plain
    <3>3. LoaderArms[i] = arm
      BY DEF LoaderArms
    <3>4. IsPlain(arm, "cpu")
      <4> HIDE DEF e, schedule, name
      <4> QED
        BY <3>2, PlainRenamed
    <3> HIDE DEF arm
    <3> QED
      BY <3>3, <3>4
  <2>3. DOMAIN LoaderArms = 1..8
    BY DEF LoaderArms
  <2> QED
    BY <2>2, <2>3 DEF Plain
<1>4. Alike(WithSteps(Bench \o <<"check">>, LoaderArms), 8, "cpu", Bench \o <<"check">>)
  BY <1>2, PlainAlike, 8 \in Nat
<1> QED
  BY <1>1, <1>4, OrderSteps, AlikeSound DEF Endings, Blind, ByDiagnosis

LEMMA CachePoliciesSound == SoundStudy(CachePolicies)
<1>1. /\ CachePolicies.name = "expert-cache-policies" /\ CachePolicies.arms = WithSteps(Bench \o <<"check">>, PolicyArms)
      /\ CachePolicies.writes = <<"summary.json">>
      /\ CachePolicies.checked = {"options", "shows"} /\ CachePolicies.based = {"tokens", "routes", "error"}
      /\ CachePolicies.diagnosed = {} /\ CachePolicies.exactly = {}
      /\ CachePolicies.demanded = {} /\ CachePolicies.matched = {}
      /\ CachePolicies.paired = {}
      /\ CachePolicies.pairs = {} /\ CachePolicies.baseline = FALSE /\ CachePolicies.skips = FALSE
  BY DEF CachePolicies, Study
<1>a. /\ DOMAIN PolicyArms = 1..9
      /\ \A i \in 1..9 : \E name, ran : PolicyArms[i] = Arm(name, "cpu", ran)
  <2> DEFINE first == <<Arm("disabled", "cpu", "disabled")>>
             rest == [i \in 1..(Len(Capacities) * Len(Policies)) |->
                        LET policy == Policies[((i - 1) % Len(Policies)) + 1]
                            capacity == Capacities[((i - 1) \div Len(Policies)) + 1]
                        IN Arm(Engine(policy, capacity), "cpu",
                               IF policy = "static" THEN "static" ELSE "evicting")]
  <2>1. Len(Capacities) * Len(Policies) = 8
    BY DEF Capacities, Policies
  <2>2. DOMAIN rest = 1..8 /\ \A i \in 1..8 : \E name, ran : rest[i] = Arm(name, "cpu", ran)
    BY <2>1
  <2>3. first = [i \in 1..1 |-> first[i]] /\ first[1] = Arm("disabled", "cpu", "disabled")
    OBVIOUS
  <2>4. rest = [i \in 1..8 |-> rest[i]]
    BY <2>1
  <2>5. PolicyArms = first \o rest
    BY DEF PolicyArms
  <2> HIDE DEF first, rest
  <2>6. /\ DOMAIN PolicyArms = 1..(1 + 8)
        /\ \A i \in 1..1 : PolicyArms[i] = first[i]
        /\ \A i \in 1..8 : PolicyArms[1 + i] = rest[i]
    BY <2>3, <2>4, <2>5, Appended
  <2>7. ASSUME NEW i \in 1..9 PROVE \E name, ran : PolicyArms[i] = Arm(name, "cpu", ran)
    <3>1. i = 1 \/ (i - 1 \in 1..8 /\ i = 1 + (i - 1))
      OBVIOUS
    <3> QED
      BY <2>2, <2>3, <2>6, <3>1
  <2> QED
    BY <2>6, <2>7
<1>b. ASSUME NEW i \in 1..9 PROVE IsPlain(PolicyArms[i], "cpu") /\ PolicyArms[i].class = "any"
  <2>1. PICK name, ran : PolicyArms[i] = Arm(name, "cpu", ran)
    BY <1>a
  <2> QED
    BY <2>1, PlainArm
<1>2. Plain(PolicyArms, 9, "cpu")
  BY <1>a, <1>b DEF Plain
<1>3. \A i \in 1..9 : PolicyArms[i].class = "any"
  BY <1>b
<1>4. Alike(WithSteps(Bench \o <<"check">>, PolicyArms), 9, "cpu", Bench \o <<"check">>)
  BY <1>2, PlainAlike, 9 \in Nat
<1>5. \A i \in 1..9 : WithSteps(Bench \o <<"check">>, PolicyArms)[i].class = "any"
  BY <1>2, <1>3, PlainClasses, Zenon
<1> QED
  BY <1>1, <1>4, <1>5, OrderSteps, AlikeSound DEF Endings, Blind, ByDiagnosis

LEMMA TaskProfilesSound == SoundStudy(TaskProfiles)
<1>1. /\ TaskProfiles.name = "task-session-profiles" /\ TaskProfiles.arms = WithSteps(Bench \o <<"check">>, ProfileArms)
      /\ TaskProfiles.writes = <<"summary.json">>
      /\ TaskProfiles.checked = {"options", "shows"} /\ TaskProfiles.based = {"tokens", "routes", "error"}
      /\ TaskProfiles.diagnosed = {} /\ TaskProfiles.exactly = {}
      /\ TaskProfiles.demanded = {} /\ TaskProfiles.matched = {}
      /\ TaskProfiles.paired = {}
      /\ TaskProfiles.pairs = {} /\ TaskProfiles.baseline = FALSE /\ TaskProfiles.skips = FALSE
  BY DEF TaskProfiles, Study
<1>2. Plain(ProfileArms, 5, "cpu")
  <2>1. /\ IsPlain(ProfileArms[1], "cpu") /\ IsPlain(ProfileArms[2], "cpu")
        /\ IsPlain(ProfileArms[3], "cpu") /\ IsPlain(ProfileArms[4], "cpu")
        /\ IsPlain(ProfileArms[5], "cpu") /\ DOMAIN ProfileArms = 1..5
    BY PlainArm DEF ProfileArms
  <2> QED
    BY <2>1 DEF Plain
<1>3. ASSUME NEW i \in 1..5 PROVE ProfileArms[i].class = "any"
  BY DEF ProfileArms, Arm
<1>4. Alike(WithSteps(Bench \o <<"check">>, ProfileArms), 5, "cpu", Bench \o <<"check">>)
  BY <1>2, PlainAlike, 5 \in Nat
<1>5. \A i \in 1..5 : WithSteps(Bench \o <<"check">>, ProfileArms)[i].class = "any"
  BY <1>2, <1>3, PlainClasses, Zenon
<1> QED
  BY <1>1, <1>4, <1>5, OrderSteps, AlikeSound DEF Endings, Blind, ByDiagnosis

LEMMA AuroraReplaySound == SoundStudy(AuroraReplay)
<1>1. /\ AuroraReplay.name = "aurora-replay" /\ AuroraReplay.arms = ReplayArms
      /\ AuroraReplay.writes = <<"summary.json", "summary.csv">>
      /\ AuroraReplay.checked = {"shows"} /\ AuroraReplay.based = {"tokens"}
      /\ AuroraReplay.diagnosed = {"tokens", "routes", "error"} /\ AuroraReplay.exactly = {}
      /\ AuroraReplay.demanded = {} /\ AuroraReplay.matched = {}
      /\ AuroraReplay.paired = {"tokens"}
      /\ AuroraReplay.pairs = {} /\ AuroraReplay.baseline = TRUE /\ AuroraReplay.skips = FALSE
  BY DEF AuroraReplay, AuroraStudy, Study
<1>2. /\ Alike(ReplayArms, 7, "cpu", Bench \o <<"diagnose", "check">>)
      /\ \A i \in 1..7 : ReplayArms[i].class = "any"
  BY DEF Alike, ReplayArms, Arm
<1> QED
  BY <1>1, <1>2, OrderSteps, AlikeSound DEF Endings, Blind, ByDiagnosis

LEMMA PersistentAuroraSound == SoundStudy(PersistentAurora)
<1>1. /\ PersistentAurora.name = "persistent-aurora" /\ PersistentAurora.arms = PersistentArms
      /\ PersistentAurora.writes = <<"summary.csv", "summary.json">>
      /\ PersistentAurora.checked = {"shows"} /\ PersistentAurora.based = {"tokens"}
      /\ PersistentAurora.diagnosed = {"tokens", "routes", "error"} /\ PersistentAurora.exactly = {}
      /\ PersistentAurora.demanded = {} /\ PersistentAurora.matched = {}
      /\ PersistentAurora.paired = {"tokens"}
      /\ PersistentAurora.pairs = DraftPairs /\ PersistentAurora.baseline = TRUE /\ PersistentAurora.skips = FALSE
  BY DEF PersistentAurora, AuroraStudy, Study
<1>2. /\ Alike(PersistentArms, 9, "cpu", Bench \o <<"diagnose", "check">>)
      /\ \A i \in 1..9 : PersistentArms[i].class = "any"
  BY DEF Alike, PersistentArms, Paired, Arm
<1>3. DraftPairs \subseteq (1..9) \X (1..9)
  BY DEF DraftPairs
<1> QED
  BY <1>1, <1>2, <1>3, OrderSteps, AlikeSound DEF Endings, Blind, ByDiagnosis

LEMMA CudaAuroraDraftSound == SoundStudy(CudaAuroraDraft)
<1>1. /\ CudaAuroraDraft.name = "cuda-aurora-draft" /\ CudaAuroraDraft.arms = DraftArms
      /\ CudaAuroraDraft.writes = <<"summary.csv", "summary.json">>
      /\ CudaAuroraDraft.checked = {"shows"} /\ CudaAuroraDraft.based = {"tokens"}
      /\ CudaAuroraDraft.diagnosed = {"tokens", "routes", "error"} /\ CudaAuroraDraft.exactly = {}
      /\ CudaAuroraDraft.demanded = {} /\ CudaAuroraDraft.matched = {}
      /\ CudaAuroraDraft.paired = {"tokens"}
      /\ CudaAuroraDraft.pairs = DraftPairs /\ CudaAuroraDraft.baseline = TRUE /\ CudaAuroraDraft.skips = FALSE
  BY DEF CudaAuroraDraft, AuroraStudy, Study
<1>2. /\ Alike(DraftArms, 9, "cpu", Bench \o <<"diagnose", "check">>)
      /\ \A i \in 1..9 : DraftArms[i].class = "any"
  BY DEF Alike, DraftArms, Paired, Arm
<1>3. DraftPairs \subseteq (1..9) \X (1..9)
  BY DEF DraftPairs
<1> QED
  BY <1>1, <1>2, <1>3, OrderSteps, AlikeSound DEF Endings, Blind, ByDiagnosis

LEMMA CudaAuroraResidencySound == SoundStudy(CudaAuroraResidency)
<1>1. /\ CudaAuroraResidency.name = "cuda-aurora-residency" /\ CudaAuroraResidency.arms = DraftResidencyArms
      /\ CudaAuroraResidency.writes = <<"summary.csv", "summary.json">>
      /\ CudaAuroraResidency.checked = {"shows"} /\ CudaAuroraResidency.based = {"tokens"}
      /\ CudaAuroraResidency.diagnosed = {"tokens", "routes", "error"} /\ CudaAuroraResidency.exactly = {}
      /\ CudaAuroraResidency.demanded = {} /\ CudaAuroraResidency.matched = {}
      /\ CudaAuroraResidency.paired = {"tokens"}
      /\ CudaAuroraResidency.pairs = DraftPairs /\ CudaAuroraResidency.baseline = TRUE /\ CudaAuroraResidency.skips = FALSE
  BY DEF CudaAuroraResidency, AuroraStudy, Study
<1>2. /\ Alike(DraftResidencyArms, 9, "cpu", Bench \o <<"diagnose", "check">>)
      /\ \A i \in 1..9 : DraftResidencyArms[i].class = "any"
  BY DEF Alike, DraftResidencyArms, Paired, Arm
<1>3. DraftPairs \subseteq (1..9) \X (1..9)
  BY DEF DraftPairs
<1> QED
  BY <1>1, <1>2, <1>3, OrderSteps, AlikeSound DEF Endings, Blind, ByDiagnosis

LEMMA CudaAuroraGridSound == SoundStudy(CudaAuroraGrid)
<1>1. /\ CudaAuroraGrid.name = "cuda-aurora-grid" /\ CudaAuroraGrid.arms = GridArms
      /\ CudaAuroraGrid.writes = <<"summary.csv", "summary.json">>
      /\ CudaAuroraGrid.checked = {"shows"} /\ CudaAuroraGrid.based = {}
      /\ CudaAuroraGrid.diagnosed = {"tokens", "routes", "error"} /\ CudaAuroraGrid.exactly = {}
      /\ CudaAuroraGrid.demanded = {} /\ CudaAuroraGrid.matched = {}
      /\ CudaAuroraGrid.paired = {"tokens"}
      /\ CudaAuroraGrid.pairs = DraftPairs /\ CudaAuroraGrid.baseline = TRUE /\ CudaAuroraGrid.skips = FALSE
  BY DEF CudaAuroraGrid, AuroraStudy, Study
<1>2. /\ Alike(GridArms, 9, "cpu", Bench \o <<"diagnose", "check">>)
      /\ \A i \in 1..9 : GridArms[i].class = "any"
  BY DEF Alike, GridArms, Paired, Arm
<1>3. DraftPairs \subseteq (1..9) \X (1..9)
  BY DEF DraftPairs
<1> QED
  BY <1>1, <1>2, <1>3, OrderSteps, AlikeSound DEF Endings, Blind, ByDiagnosis

LEMMA CudaAuroraMoeLayerSound == SoundStudy(CudaAuroraMoeLayer)
<1>1. /\ CudaAuroraMoeLayer.name = "cuda-aurora-moe-layer" /\ CudaAuroraMoeLayer.arms = LayerArms
      /\ CudaAuroraMoeLayer.writes = <<"summary.csv", "summary.json">>
      /\ CudaAuroraMoeLayer.checked = {"shows"} /\ CudaAuroraMoeLayer.based = {}
      /\ CudaAuroraMoeLayer.diagnosed = {"tokens", "routes", "error"} /\ CudaAuroraMoeLayer.exactly = {}
      /\ CudaAuroraMoeLayer.demanded = {} /\ CudaAuroraMoeLayer.matched = {}
      /\ CudaAuroraMoeLayer.paired = {"tokens"}
      /\ CudaAuroraMoeLayer.pairs = DraftPairs /\ CudaAuroraMoeLayer.baseline = TRUE /\ CudaAuroraMoeLayer.skips = FALSE
  BY DEF CudaAuroraMoeLayer, AuroraStudy, Study
<1>2. /\ Alike(LayerArms, 9, "cpu", Bench \o <<"diagnose", "check">>)
      /\ \A i \in 1..9 : LayerArms[i].class = "any"
  BY DEF Alike, LayerArms, Paired, Arm
<1>3. DraftPairs \subseteq (1..9) \X (1..9)
  BY DEF DraftPairs
<1> QED
  BY <1>1, <1>2, <1>3, OrderSteps, AlikeSound DEF Endings, Blind, ByDiagnosis

LEMMA ExpertFusionSound == SoundStudy(ExpertFusion)
<1>1. /\ ExpertFusion.name = "cuda-expert-fusion" /\ ExpertFusion.arms = ExpertFusionArms
      /\ ExpertFusion.writes = <<"summary.json">>
      /\ ExpertFusion.checked = {} /\ ExpertFusion.based = {}
      /\ ExpertFusion.diagnosed = {} /\ ExpertFusion.exactly = {}
      /\ ExpertFusion.demanded = {"error", "shows"} /\ ExpertFusion.matched = {"place"}
      /\ ExpertFusion.paired = {}
      /\ ExpertFusion.pairs = {} /\ ExpertFusion.baseline = FALSE /\ ExpertFusion.skips = FALSE
  BY DEF ExpertFusion, Study
<1>2. /\ Alike(ExpertFusionArms, 2, "single", Bench)
      /\ \A i \in 1..2 : ExpertFusionArms[i].class = "any"
  BY DEF Alike, ExpertFusionArms, Arm
<1> QED
  BY <1>1, <1>2, OrderSteps, AlikeSound DEF Endings, Blind, ByDiagnosis

LEMMA ReleasedMoeLayerSound == SoundStudy(ReleasedMoeLayer)
<1>1. /\ ReleasedMoeLayer.name = "cuda-released-moe-layer" /\ ReleasedMoeLayer.arms = ReleasedArms
      /\ ReleasedMoeLayer.writes = <<"summary.csv", "summary.json">>
      /\ ReleasedMoeLayer.checked = {"options", "error", "shows"} /\ ReleasedMoeLayer.based = {}
      /\ ReleasedMoeLayer.diagnosed = {} /\ ReleasedMoeLayer.exactly = {}
      /\ ReleasedMoeLayer.demanded = {} /\ ReleasedMoeLayer.matched = {}
      /\ ReleasedMoeLayer.paired = {}
      /\ ReleasedMoeLayer.pairs = {} /\ ReleasedMoeLayer.baseline = FALSE /\ ReleasedMoeLayer.skips = FALSE
  BY DEF ReleasedMoeLayer, Study
<1>2. /\ Alike(ReleasedArms, 6, "single", <<"bench", "check", "json">>)
      /\ \A i \in 1..6 : ReleasedArms[i].class = "any"
  BY DEF Alike, ReleasedArms, Arm
<1> QED
  BY <1>1, <1>2, OrderSteps, AlikeSound DEF Endings, Blind, ByDiagnosis

LEMMA AdmissionValidationSound == SoundStudy(AdmissionValidation)
<1> DEFINE pairs == {<<2 * i - 1, 2 * i>> : i \in 1..9}
<1>1. /\ AdmissionValidation.name = "cuda-admission-validation" /\ AdmissionValidation.arms = AdmissionArms
      /\ AdmissionValidation.writes = <<"summary.csv", "summary.json">>
      /\ AdmissionValidation.checked = {"options", "error", "shows"} /\ AdmissionValidation.based = {}
      /\ AdmissionValidation.diagnosed = {} /\ AdmissionValidation.exactly = {}
      /\ AdmissionValidation.demanded = {} /\ AdmissionValidation.matched = {}
      /\ AdmissionValidation.paired = {"error"}
      /\ AdmissionValidation.pairs = pairs /\ AdmissionValidation.baseline = FALSE /\ AdmissionValidation.skips = FALSE
  BY DEF AdmissionValidation, Study
<1>2. /\ Alike(AdmissionArms, 18, "single", <<"bench", "check", "json">>)
      /\ \A i \in 1..18 : AdmissionArms[i].class = "any"
  BY DEF Alike, AdmissionArms, Arm
<1>3. pairs \subseteq (1..18) \X (1..18)
  OBVIOUS
<1> HIDE DEF pairs
<1>4. 18 \in Nat \ {0}
  OBVIOUS
<1> QED
  BY <1>1, <1>2, <1>3, <1>4, SMTT(60), OrderSteps, AlikeSound DEF Endings, Blind, ByDiagnosis

\* The counts after each block of a script.
Tally(h, script) ==
  h = [n \in 0..Len(script) |-> IF n = 0 THEN NoCounts ELSE AddBlock(h[n - 1], script[n])]

\* The scripts have at most four blocks.
LEMMA CountedBlocks ==
  ASSUME NEW script, Len(script) \in 0..4
  PROVE  \E h : /\ h[0] = NoCounts
                /\ \A n \in 1..Len(script) : h[n] = AddBlock(h[n - 1], script[n])
                /\ \A v : Counted(script, v) = IF v = "expert-major" THEN h[Len(script)]
                     ELSE LET c == h[Len(script)] IN
                          Counts(c.blocks, c.proposed, c.accepted, c.committed, 0, 0)
<1> DEFINE h == CHOOSE h : Tally(h, script)
           c1 == AddBlock(NoCounts, script[1])
           c2 == AddBlock(c1, script[2])
           c3 == AddBlock(c2, script[3])
           c4 == AddBlock(c3, script[4])
           g == [n \in 0..Len(script) |-> IF n = 0 THEN NoCounts ELSE IF n = 1 THEN c1
                    ELSE IF n = 2 THEN c2 ELSE IF n = 3 THEN c3 ELSE c4]
<1>0. PICK l \in 0..4 : l = Len(script)
  OBVIOUS
<1>1. Tally(g, script)
  <2>1. c1 = AddBlock(NoCounts, script[1]) /\ c2 = AddBlock(c1, script[2])
        /\ c3 = AddBlock(c2, script[3]) /\ c4 = AddBlock(c3, script[4])
    OBVIOUS
  <2> HIDE DEF c1, c2, c3, c4
  <2>2. ASSUME NEW n \in 0..Len(script), n # 0 PROVE g[n] = AddBlock(g[n - 1], script[n])
    <3>1. n = 1 \/ n = 2 \/ n = 3 \/ n = 4
      <4>1. n \in Int /\ n >= 0 /\ n <= 4
        BY <1>0
      <4> HIDE DEF g, h
      <4> QED
        BY <2>2, <4>1
    <3> QED
      BY <2>1, <2>2, <3>1
  <2>3. g[0] = NoCounts
    OBVIOUS
  <2> HIDE DEF g
  <2>4. DOMAIN g = 0..Len(script) /\ g = [n \in DOMAIN g |-> g[n]]
    BY DEF g
  <2> QED
    BY <2>2, <2>3, <2>4 DEF Tally
<1> HIDE DEF g
<1>2. Tally(h, script)
  BY <1>1, Zenon
<1>3. \A v : Counted(script, v) = IF v = "expert-major" THEN h[Len(script)]
                 ELSE LET c == h[Len(script)] IN
                      Counts(c.blocks, c.proposed, c.accepted, c.committed, 0, 0)
  BY DEF Counted, Tally
<1> HIDE DEF h
<1>4. h[0] = NoCounts /\ \A n \in 1..Len(script) : h[n] = AddBlock(h[n - 1], script[n])
  BY <1>2 DEF Tally
<1> QED
  BY <1>3, <1>4, Zenon

\* How many of at most two candidates are agreed.
LEMMA AgreedOf ==
  ASSUME NEW anchor \in Nat, NEW candidates \in Seq(Nat), Len(candidates) \in 0..2
  PROVE  Agreed(anchor, candidates)
           = IF Len(candidates) = 0 \/ candidates[1] # anchor + 1 THEN 0
             ELSE IF Len(candidates) = 1 \/ candidates[2] # anchor + 2 THEN 1 ELSE 2
<1> DEFINE P(j) == /\ \A i \in 1..j : candidates[i] = anchor + i
                   /\ j < Len(candidates) => candidates[j + 1] # anchor + j + 1
           k == IF Len(candidates) = 0 \/ candidates[1] # anchor + 1 THEN 0
                ELSE IF Len(candidates) = 1 \/ candidates[2] # anchor + 2 THEN 1 ELSE 2
<1>1. k \in 0..Len(candidates) /\ P(k)
  OBVIOUS
<1>2. ASSUME NEW j \in 0..Len(candidates), P(j) PROVE j = k
  <2>1. k \in 0..Len(candidates)
    BY <1>1
  <2>2. CASE j < k
    <3>1. j < Len(candidates) /\ j + 1 \in 1..k
      BY <2>1, <2>2
    <3> QED
      BY <1>1, <1>2, <3>1
  <2>3. CASE k < j
    <3>1. k < Len(candidates) /\ k + 1 \in 1..j
      BY <2>1, <2>3
    <3> QED
      BY <1>1, <1>2, <3>1
  <2> QED
    BY <2>1, <2>2, <2>3
<1>3. Agreed(anchor, candidates) = CHOOSE j \in 0..Len(candidates) : P(j)
  BY DEF Agreed
<1> HIDE DEF P, k
<1>4. Agreed(anchor, candidates) = k
  BY <1>1, <1>2, <1>3
<1> QED
  BY <1>4 DEF k

\* Nothing is agreed on where nothing is proposed.
LEMMA AgreedOfNothing ==
  ASSUME NEW anchor, NEW candidates, Len(candidates) = 0
  PROVE  Agreed(anchor, candidates) = 0
<1>1. 0..0 = {0}
  OBVIOUS
<1>2. Agreed(anchor, candidates)
        = CHOOSE k \in 0..0 : /\ \A i \in 1..k : candidates[i] = anchor + i
                              /\ k < 0 => candidates[k + 1] # anchor + k + 1
  BY Zenon DEF Agreed
<1>3. ASSUME NEW k \in 0..0
      PROVE  /\ \A i \in 1..k : candidates[i] = anchor + i
             /\ k < 0 => candidates[k + 1] # anchor + k + 1
  BY <1>1
<1> QED
  BY <1>1, <1>2, <1>3

\* What is counted for the three scripts.
LEMMA CountedNothing == Counted(<<>>, "token-major") = NoCounts
<1>1. Len(<<>>) \in 0..4 /\ Len(<<>>) = 0 /\ "token-major" # "expert-major"
  OBVIOUS
<1>2. PICK h : /\ h[0] = NoCounts
               /\ Counted(<<>>, "token-major") = LET c == h[0] IN
                     Counts(c.blocks, c.proposed, c.accepted, c.committed, 0, 0)
  BY <1>1, CountedBlocks
<1> QED
  BY <1>2 DEF NoCounts, Counts

\* What one verified block adds to the counts.
LEMMA AddsOneBlock ==
  ASSUME NEW counts, NEW entry, NEW k, NEW n, Agreed(entry.anchor, entry.candidates) = k,
         Len(entry.candidates) = n
  PROVE  AddBlock(counts, entry) =
            Counts(counts.blocks + 1, counts.proposed + n, counts.accepted + k,
                   counts.committed + k + 1, counts.evaluated + (n + 1),
                   counts.discarded + (n + 1) - (k + 1))
BY DEF AddBlock, Counts

LEMMA FieldsOfCounts ==
  ASSUME NEW b, NEW p, NEW a, NEW c, NEW e, NEW d
  PROVE  LET counts == Counts(b, p, a, c, e, d) IN
         /\ counts.blocks = b /\ counts.proposed = p /\ counts.accepted = a
         /\ counts.committed = c /\ counts.evaluated = e /\ counts.discarded = d
BY DEF Counts

\* What a draft counts when its target takes all of every block.
LEMMA CountedPerfect ==
  /\ Counted(Perfect, "token-major") = Counts(2, 3, 3, 5, 0, 0)
  /\ Counted(Perfect, "expert-major") = Counts(2, 3, 3, 5, 5, 0)
<1> DEFINE one == <<1, 2>>  two == <<4>>
<1>1. /\ Len(Perfect) = 2 /\ 2 \in 0..4
      /\ Perfect[1].anchor = 0 /\ Perfect[1].candidates = one
      /\ Perfect[2].anchor = 3 /\ Perfect[2].candidates = two
  BY DEF Perfect
<1>2. PICK h : /\ h[0] = NoCounts
               /\ \A n \in 1..2 : h[n] = AddBlock(h[n - 1], Perfect[n])
               /\ \A v : Counted(Perfect, v) = IF v = "expert-major" THEN h[2]
                     ELSE Counts(h[2].blocks, h[2].proposed, h[2].accepted, h[2].committed, 0, 0)
  <2>1. 2 = Len(Perfect) /\ 2 \in 0..4
    BY <1>1
  <2> QED
    BY <2>1, CountedBlocks
<1>3. h[1] = AddBlock(h[0], Perfect[1]) /\ h[2] = AddBlock(h[1], Perfect[2])
  BY <1>2
<1>4. /\ one \in Seq(Nat) /\ Len(one) = 2 /\ one[1] = 1 /\ one[2] = 2
      /\ two \in Seq(Nat) /\ Len(two) = 1 /\ two[1] = 4
  OBVIOUS
<1> HIDE DEF one, two
<1>5. AddBlock(Counts(0, 0, 0, 0, 0, 0), Perfect[1]) = Counts(1, 2, 2, 3, 3, 0)
  <2>1. Agreed(Perfect[1].anchor, Perfect[1].candidates) = 2
    BY <1>1, <1>4, AgreedOf
  <2>2. Len(Perfect[1].candidates) = 2
    BY <1>1, <1>4
  <2>3. AddBlock(Counts(0, 0, 0, 0, 0, 0), Perfect[1]) =
           LET counts == Counts(0, 0, 0, 0, 0, 0) IN
           Counts(counts.blocks + 1, counts.proposed + 2, counts.accepted + 2,
                  counts.committed + 2 + 1, counts.evaluated + (2 + 1),
                  counts.discarded + (2 + 1) - (2 + 1))
    BY <2>1, <2>2, AddsOneBlock, Zenon
  <2> QED
    BY <2>3, FieldsOfCounts
<1>6. AddBlock(Counts(1, 2, 2, 3, 3, 0), Perfect[2]) = Counts(2, 3, 3, 5, 5, 0)
  <2>1. Agreed(Perfect[2].anchor, Perfect[2].candidates) = 1
    BY <1>1, <1>4, AgreedOf
  <2>2. Len(Perfect[2].candidates) = 1
    BY <1>1, <1>4
  <2>3. AddBlock(Counts(1, 2, 2, 3, 3, 0), Perfect[2]) =
           LET counts == Counts(1, 2, 2, 3, 3, 0) IN
           Counts(counts.blocks + 1, counts.proposed + 1, counts.accepted + 1,
                  counts.committed + 1 + 1, counts.evaluated + (1 + 1),
                  counts.discarded + (1 + 1) - (1 + 1))
    BY <2>1, <2>2, AddsOneBlock, Zenon
  <2> QED
    BY <2>3, FieldsOfCounts
<1>7. h[2] = Counts(2, 3, 3, 5, 5, 0)
  <2>1. h[1] = Counts(1, 2, 2, 3, 3, 0)
    BY <1>2, <1>3, <1>5, Zenon DEF NoCounts
  <2> QED
    BY <1>3, <1>6, <2>1, Zenon
<1>8. Counts(h[2].blocks, h[2].proposed, h[2].accepted, h[2].committed, 0, 0) = Counts(2, 3, 3, 5, 0, 0)
  BY <1>7 DEF Counts
<1> QED
  BY <1>2, <1>7, <1>8

\* What the draft counts that the target takes in part.
LEMMA CountedMixed ==
  /\ Counted(Mixed, "token-major") = Counts(4, 4, 1, 5, 0, 0)
  /\ Counted(Mixed, "expert-major") = Counts(4, 4, 1, 5, 8, 3)
<1> DEFINE one == <<Wrong, 2>>  three == <<3, Wrong>>  empty == <<>>
<1>1. /\ Len(Mixed) = 4 /\ 4 \in 0..4
      /\ Mixed[1].anchor = 0 /\ Mixed[1].candidates = one
      /\ Mixed[2].anchor = 1 /\ Mixed[2].candidates = empty
      /\ Mixed[3].anchor = 2 /\ Mixed[3].candidates = three
      /\ Mixed[4].anchor = 4 /\ Mixed[4].candidates = empty
  BY DEF Mixed
<1>2. PICK h : /\ h[0] = NoCounts
               /\ \A n \in 1..4 : h[n] = AddBlock(h[n - 1], Mixed[n])
               /\ \A v : Counted(Mixed, v) = IF v = "expert-major" THEN h[4]
                     ELSE Counts(h[4].blocks, h[4].proposed, h[4].accepted, h[4].committed, 0, 0)
  <2>1. 4 = Len(Mixed) /\ 4 \in 0..4
    BY <1>1
  <2> QED
    BY <2>1, CountedBlocks
<1>3. /\ h[1] = AddBlock(h[0], Mixed[1]) /\ h[2] = AddBlock(h[1], Mixed[2])
      /\ h[3] = AddBlock(h[2], Mixed[3]) /\ h[4] = AddBlock(h[3], Mixed[4])
  BY <1>2
<1>4. /\ one \in Seq(Nat) /\ Len(one) = 2 /\ one[1] = 6
      /\ three \in Seq(Nat) /\ Len(three) = 2 /\ three[1] = 3 /\ three[2] = 6
      /\ empty \in Seq(Nat) /\ Len(empty) = 0
  <2>1. Wrong = 6
    BY DEF Wrong, TextLength
  <2>2. one \in Seq(Nat) /\ Len(one) = 2 /\ one[1] = 6
    BY <2>1
  <2>3. three \in Seq(Nat) /\ Len(three) = 2 /\ three[1] = 3 /\ three[2] = 6
    BY <2>1
  <2>4. empty \in Seq(Nat) /\ Len(empty) = 0
    OBVIOUS
  <2> QED
    BY <2>2, <2>3, <2>4
<1> HIDE DEF one, three, empty
<1>5. AddBlock(Counts(0, 0, 0, 0, 0, 0), Mixed[1]) = Counts(1, 2, 0, 1, 3, 2)
  <2>1. Agreed(Mixed[1].anchor, Mixed[1].candidates) = 0
    <3>1. Agreed(0, one) = 0
      BY <1>4, AgreedOf
    <3> QED
      BY <1>1, <3>1
  <2>2. Len(Mixed[1].candidates) = 2
    BY <1>1, <1>4
  <2>3. AddBlock(Counts(0, 0, 0, 0, 0, 0), Mixed[1]) =
           LET counts == Counts(0, 0, 0, 0, 0, 0) IN
           Counts(counts.blocks + 1, counts.proposed + 2, counts.accepted + 0,
                  counts.committed + 0 + 1, counts.evaluated + (2 + 1),
                  counts.discarded + (2 + 1) - (0 + 1))
    BY <2>1, <2>2, AddsOneBlock, Zenon
  <2> QED
    BY <2>3, FieldsOfCounts
<1>6. AddBlock(Counts(1, 2, 0, 1, 3, 2), Mixed[2]) = Counts(2, 2, 0, 2, 4, 2)
  <2>1. Agreed(Mixed[2].anchor, Mixed[2].candidates) = 0
    BY <1>1, <1>4, AgreedOfNothing
  <2>2. Len(Mixed[2].candidates) = 0
    BY <1>1, <1>4
  <2>3. AddBlock(Counts(1, 2, 0, 1, 3, 2), Mixed[2]) =
           LET counts == Counts(1, 2, 0, 1, 3, 2) IN
           Counts(counts.blocks + 1, counts.proposed + 0, counts.accepted + 0,
                  counts.committed + 0 + 1, counts.evaluated + (0 + 1),
                  counts.discarded + (0 + 1) - (0 + 1))
    BY <2>1, <2>2, AddsOneBlock, Zenon
  <2> QED
    BY <2>3, FieldsOfCounts
<1>7. AddBlock(Counts(2, 2, 0, 2, 4, 2), Mixed[3]) = Counts(3, 4, 1, 4, 7, 3)
  <2>1. Agreed(Mixed[3].anchor, Mixed[3].candidates) = 1
    <3>1. Agreed(2, three) = 1
      BY <1>4, AgreedOf
    <3> QED
      BY <1>1, <3>1
  <2>2. Len(Mixed[3].candidates) = 2
    BY <1>1, <1>4
  <2>3. AddBlock(Counts(2, 2, 0, 2, 4, 2), Mixed[3]) =
           LET counts == Counts(2, 2, 0, 2, 4, 2) IN
           Counts(counts.blocks + 1, counts.proposed + 2, counts.accepted + 1,
                  counts.committed + 1 + 1, counts.evaluated + (2 + 1),
                  counts.discarded + (2 + 1) - (1 + 1))
    BY <2>1, <2>2, AddsOneBlock, Zenon
  <2> QED
    BY <2>3, FieldsOfCounts
<1>8. AddBlock(Counts(3, 4, 1, 4, 7, 3), Mixed[4]) = Counts(4, 4, 1, 5, 8, 3)
  <2>1. Agreed(Mixed[4].anchor, Mixed[4].candidates) = 0
    BY <1>1, <1>4, AgreedOfNothing
  <2>2. Len(Mixed[4].candidates) = 0
    BY <1>1, <1>4
  <2>3. AddBlock(Counts(3, 4, 1, 4, 7, 3), Mixed[4]) =
           LET counts == Counts(3, 4, 1, 4, 7, 3) IN
           Counts(counts.blocks + 1, counts.proposed + 0, counts.accepted + 0,
                  counts.committed + 0 + 1, counts.evaluated + (0 + 1),
                  counts.discarded + (0 + 1) - (0 + 1))
    BY <2>1, <2>2, AddsOneBlock, Zenon
  <2> QED
    BY <2>3, FieldsOfCounts
<1>9. h[4] = Counts(4, 4, 1, 5, 8, 3)
  <2>1. h[1] = Counts(1, 2, 0, 1, 3, 2)
    BY <1>2, <1>3, <1>5, Zenon DEF NoCounts
  <2>2. h[2] = Counts(2, 2, 0, 2, 4, 2)
    BY <1>3, <1>6, <2>1, Zenon
  <2>3. h[3] = Counts(3, 4, 1, 4, 7, 3)
    BY <1>3, <1>7, <2>2, Zenon
  <2> QED
    BY <1>3, <1>8, <2>3, Zenon
<1>10. Counts(h[4].blocks, h[4].proposed, h[4].accepted, h[4].committed, 0, 0) = Counts(4, 4, 1, 5, 0, 0)
  BY <1>9 DEF Counts
<1> QED
  BY <1>2, <1>9, <1>10

\* Arms of the routing modes.
IsRouting(arm) ==
  /\ {"name", "backend", "ran", "shown", "exact", "class", "steps"} \subseteq DOMAIN arm
  /\ arm.backend = "cpu" /\ arm.class = "any" /\ arm.exact \in BOOLEAN

\* The arms of the routing modes.
LEMMA RoutingArm ==
  ASSUME NEW name, NEW ran, NEW exact \in BOOLEAN, NEW shown
  PROVE  /\ IsRouting(Routing(name, ran, exact, shown))
         /\ Routing(name, ran, exact, shown).exact = exact
BY DEF IsRouting, Routing, Arm

LEMMA RoutingArmsAre ==
  DOMAIN RoutingArms = 1..15 /\ \A i \in 1..15 : IsRouting(RoutingArms[i])
<1> DEFINE R(i) == IsRouting(RoutingArms[i])
<1>1. TRUE \in BOOLEAN /\ FALSE \in BOOLEAN
  OBVIOUS
<1>2. R(1) /\ R(2) /\ R(3) /\ R(4) /\ R(5)
  BY <1>1, RoutingArm DEF RoutingArms
<1>3. R(6) /\ R(7) /\ R(8) /\ R(9) /\ R(10)
  BY <1>1, RoutingArm DEF RoutingArms
<1>4. R(11) /\ R(12) /\ R(13) /\ R(14) /\ R(15)
  BY <1>1, RoutingArm DEF RoutingArms
<1>5. DOMAIN RoutingArms = 1..15
  BY DEF RoutingArms
<1> HIDE DEF R
<1>6. \A i \in 1..15 : R(i)
  BY <1>2, <1>3, <1>4
<1> QED
  BY <1>5, <1>6 DEF R

LEMMA AdaptiveRoutingSound == SoundStudy(AdaptiveRouting)
<1> DEFINE steps == <<"bench", "diagnose", "check", "json", "csv">>
           arms == WithSteps(steps, RoutingArms)
           s == AdaptiveRouting
<1>1. /\ s.name = "adaptive-routing" /\ s.arms = arms /\ s.writes = <<"summary.json">>
      /\ s.checked = {"options"} /\ s.based = {} /\ s.diagnosed = {"routes"}
      /\ s.exactly = {"tokens", "error"} /\ s.demanded = {"shows"} /\ s.matched = {}
      /\ s.paired = {"tokens", "routes", "error"} /\ s.pairs = {<<2, 15>>}
      /\ s.baseline = FALSE /\ s.skips = FALSE
  BY DEF AdaptiveRouting, Study
<1>2. DOMAIN arms = 1..15
  BY RoutingArmsAre DEF WithSteps
<1>3. ASSUME NEW i \in 1..15
      PROVE  /\ arms[i].backend = "cpu" /\ arms[i].class = "any" /\ arms[i].steps = steps
             /\ arms[i].exact \in BOOLEAN /\ arms[i].exact = RoutingArms[i].exact
  <2>1. arms[i] = [RoutingArms[i] EXCEPT !.steps = steps]
    BY RoutingArmsAre DEF WithSteps
  <2> HIDE DEF arms, steps
  <2> QED
    BY <2>1, RoutingArmsAre DEF IsRouting
<1>4. arms[1].exact = TRUE /\ arms[2].exact = FALSE /\ arms[15].exact = FALSE
  <2>1. /\ RoutingArms[1] = Routing("natural-k16", "natural", TRUE, FALSE)
        /\ RoutingArms[2] = Routing("fixed-k4", "k4", FALSE, FALSE)
        /\ RoutingArms[15] = Routing("fixed-k4-rescue", "rescued", FALSE, TRUE)
    BY DEF RoutingArms
  <2>2. RoutingArms[1].exact = TRUE /\ RoutingArms[2].exact = FALSE /\ RoutingArms[15].exact = FALSE
    BY <2>1 DEF Routing, Arm
  <2> HIDE DEF arms
  <2> QED
    BY <1>3, <2>2
<1>5. /\ steps \in Orders /\ "diagnose" \in ToSet(steps)
  BY DEF Orders, ToSet
<1>6. s.writes \in Endings
  BY <1>1 DEF Endings
<1>7. 15 \in Nat \ {0} /\ s.pairs \subseteq (1..15) \X (1..15)
  BY <1>1
<1> HIDE DEF arms, steps, s
<1>8. Shaped(s)
  <2>1. \A i \in 1..15 : Does(s, i, "diagnose")
    BY <1>1, <1>3, <1>5 DEF Does
  <2>2. \E n \in Nat \ {0} : DOMAIN s.arms = 1..n
    BY <1>1, <1>2, <1>7
  <2>3. \A i \in DOMAIN s.arms :
           /\ s.arms[i].steps \in Orders /\ s.arms[i].exact \in BOOLEAN
           /\ s.arms[i].backend = "cpu" /\ s.arms[i].class = "any"
    BY <1>1, <1>2, <1>3, <1>5
  <2>4. s.pairs \subseteq (DOMAIN s.arms) \X (DOMAIN s.arms)
    BY <1>1, <1>2, <1>7
  <2>5. s.skips = FALSE /\ 1 \in 1..15 /\ DOMAIN s.arms = 1..15
    BY <1>1, <1>2
  <2> QED
    BY <1>6, <2>1, <2>2, <2>3, <2>4, <2>5 DEF Shaped
<1>9. TellsVariants(s)
  BY <1>1 DEF TellsVariants
<1>10. TellsTokens(s)
  BY <1>1, <1>2, <1>3, <1>5 DEF TellsTokens, Does, ByDiagnosis
<1>11. AsksFairly(s)
  BY <1>1, <1>2, <1>3, <1>4 DEF AsksFairly, Even
<1> QED
  BY <1>8, <1>9, <1>10, <1>11 DEF SoundStudy, s

\* Arms with a script are asked for the counts that an honest runner has.
Draws(arm, backend) ==
  /\ arm.backend = backend /\ arm.class = "any" /\ arm.shown = TRUE /\ arm.exact = TRUE
  /\ arm.steps = Bench \o <<"diagnose", "check">>
  /\ \A c \in DOMAIN arm.demanded : arm.counts[c] = arm.demanded[c]

\* The arms that draft from a script, and what they count.
LEMMA ScriptedDraws ==
  ASSUME NEW name, NEW backend, NEW script, NEW verification, NEW demanded,
         \A c \in DOMAIN demanded : Counted(script, verification)[c] = demanded[c]
  PROVE  Draws(Scripted(name, backend, script, verification, demanded), backend)
BY DEF Draws, Scripted, Arm

LEMMA FirstOfCounts ==
  ASSUME NEW b, NEW p, NEW a, NEW m, NEW v, NEW d
  PROVE  \A c \in DOMAIN FirstCounts(b, p, a) : Counts(b, p, a, m, v, d)[c] = FirstCounts(b, p, a)[c]
BY DEF FirstCounts, Counts

LEMMA SpeculativeArmsAre ==
  /\ DOMAIN SpeculativeArms = 1..3
  /\ \A i \in 1..3 : Draws(SpeculativeArms[i], "cpu")
  /\ \A i \in 1..3 : SpeculativeArms[i].ran = "token-major"
<1>1. /\ SpeculativeArms[1] = Scripted("greedy", "cpu", <<>>, "token-major", FirstCounts(0, 0, 0))
      /\ SpeculativeArms[2] = Scripted("perfect-block2", "cpu", Perfect, "token-major", FirstCounts(2, 3, 3))
      /\ SpeculativeArms[3] = Scripted("mixed-block2", "cpu", Mixed, "token-major", FirstCounts(4, 4, 1))
      /\ DOMAIN SpeculativeArms = 1..3
  BY DEF SpeculativeArms
<1>2. Draws(SpeculativeArms[1], "cpu")
  BY <1>1, CountedNothing, FirstOfCounts, ScriptedDraws DEF NoCounts
<1>3. Draws(SpeculativeArms[2], "cpu")
  BY <1>1, CountedPerfect, FirstOfCounts, ScriptedDraws
<1>4. Draws(SpeculativeArms[3], "cpu")
  BY <1>1, CountedMixed, FirstOfCounts, ScriptedDraws
<1>5. /\ SpeculativeArms[1].ran = "token-major" /\ SpeculativeArms[2].ran = "token-major"
      /\ SpeculativeArms[3].ran = "token-major"
  BY <1>1 DEF Scripted, Arm
<1>6. \A i \in 1..3 : i = 1 \/ i = 2 \/ i = 3
  OBVIOUS
<1> QED
  BY <1>1, <1>2, <1>3, <1>4, <1>5, <1>6

LEMMA ExpertMajorArmsAre ==
  ASSUME NEW backend
  PROVE  /\ ExpertMajorArms(backend) = [i \in 1..5 |-> ExpertMajorArms(backend)[i]]
         /\ \A i \in 1..5 : Draws(ExpertMajorArms(backend)[i], backend)
<1> DEFINE A == ExpertMajorArms(backend)
           zeros == Counts(0, 0, 0, 0, 0, 0)
<1>1. /\ A[1] = Scripted("greedy", backend, <<>>, "token-major", Counts(0, 0, 0, 0, 0, 0))
      /\ A[2] = Scripted("token-major-perfect-2", backend, Perfect, "token-major", Counts(2, 3, 3, 5, 0, 0))
      /\ A[3] = Scripted("expert-major-perfect-2", backend, Perfect, "expert-major", Counts(2, 3, 3, 5, 5, 0))
      /\ A[4] = Scripted("token-major-mixed-2", backend, Mixed, "token-major", Counts(4, 4, 1, 5, 0, 0))
      /\ A[5] = Scripted("expert-major-mixed-2", backend, Mixed, "expert-major", Counts(4, 4, 1, 5, 8, 3))
      /\ DOMAIN A = 1..5 /\ A = [i \in 1..5 |-> A[i]]
  BY DEF ExpertMajorArms
<1>2. ASSUME NEW name, NEW script, NEW verification
      PROVE  Draws(Scripted(name, backend, script, verification, Counted(script, verification)), backend)
  BY ScriptedDraws
<1> HIDE DEF A
<1>3. Draws(A[1], backend) /\ Draws(A[2], backend) /\ Draws(A[3], backend)
  BY <1>1, <1>2, CountedNothing, CountedPerfect DEF NoCounts
<1>4. Draws(A[4], backend) /\ Draws(A[5], backend)
  BY <1>1, <1>2, CountedMixed
<1>5. \A i \in 1..5 : i = 1 \/ i = 2 \/ i = 3 \/ i = 4 \/ i = 5
  OBVIOUS
<1>6. \A i \in 1..5 : Draws(A[i], backend)
  BY <1>3, <1>4, <1>5
<1> QED
  BY <1>1, <1>6 DEF A

LEMMA SpeculativeVerificationSound == SoundStudy(SpeculativeVerification)
<1> DEFINE s == SpeculativeVerification
<1>1. /\ s.name = "speculative-verification" /\ s.arms = SpeculativeArms
      /\ s.writes = <<"summary.json", "summary.csv">>
      /\ s.checked = {} /\ s.based = {} /\ s.diagnosed = {"tokens", "routes", "error", "counts"}
      /\ s.exactly = {} /\ s.demanded = {} /\ s.matched = {} /\ s.paired = {} /\ s.pairs = {}
      /\ s.baseline = TRUE /\ s.skips = FALSE
  BY DEF SpeculativeVerification, Study
<1>2. s.writes \in Endings
  BY <1>1 DEF Endings
<1> HIDE DEF s
<1>3. DOMAIN s.arms = 1..3 /\ 1 \in 1..3 /\ 3 \in Nat \ {0}
  BY <1>1, SpeculativeArmsAre
<1>4. \A i \in 1..3 :
         /\ s.arms[i].backend = "cpu" /\ s.arms[i].class = "any" /\ s.arms[i].shown = TRUE
         /\ s.arms[i].exact = TRUE /\ s.arms[i].ran = "token-major"
         /\ s.arms[i].steps \in Orders /\ Does(s, i, "diagnose")
         /\ \A c \in DOMAIN s.arms[i].demanded : s.arms[i].counts[c] = s.arms[i].demanded[c]
  <2>1. \A i \in 1..3 : Draws(s.arms[i], "cpu") /\ s.arms[i].ran = "token-major"
    BY <1>1, SpeculativeArmsAre
  <2> QED
    BY <2>1, OrderSteps DEF Draws, Does
<1>5. Shaped(s)
  BY <1>1, <1>2, <1>3, <1>4 DEF Shaped
<1>6. TellsVariants(s)
  BY <1>3, <1>4 DEF TellsVariants
<1>7. TellsTokens(s)
  BY <1>1, <1>3, <1>4 DEF TellsTokens, ByDiagnosis
<1>8. AsksFairly(s)
  BY <1>1, <1>3, <1>4 DEF AsksFairly, Even
<1> QED
  BY <1>5, <1>6, <1>7, <1>8 DEF SoundStudy, s

LEMMA ExpertMajorVerificationSound == SoundStudy(ExpertMajorVerification)
<1> DEFINE s == ExpertMajorVerification
<1>1. /\ s.name = "expert-major-verification" /\ s.arms = ExpertMajorArms("cpu")
      /\ s.writes = <<"summary.json", "summary.csv">>
      /\ s.checked = {} /\ s.based = {}
      /\ s.diagnosed = {"tokens", "routes", "error", "counts", "shows"}
      /\ s.exactly = {} /\ s.demanded = {} /\ s.matched = {} /\ s.paired = {} /\ s.pairs = {}
      /\ s.baseline = TRUE /\ s.skips = FALSE
  BY DEF ExpertMajorVerification, Study
<1>2. s.writes \in Endings
  BY <1>1 DEF Endings
<1> HIDE DEF s
<1>3. DOMAIN s.arms = 1..5 /\ 1 \in 1..5 /\ 5 \in Nat \ {0}
  BY <1>1, ExpertMajorArmsAre
<1>4. \A i \in 1..5 :
         /\ s.arms[i].backend = "cpu" /\ s.arms[i].class = "any" /\ s.arms[i].shown = TRUE
         /\ s.arms[i].exact = TRUE /\ s.arms[i].steps \in Orders /\ Does(s, i, "diagnose")
         /\ \A c \in DOMAIN s.arms[i].demanded : s.arms[i].counts[c] = s.arms[i].demanded[c]
  <2>1. \A i \in 1..5 : Draws(s.arms[i], "cpu")
    BY <1>1, ExpertMajorArmsAre
  <2> QED
    BY <2>1, OrderSteps DEF Draws, Does
<1>5. Shaped(s)
  BY <1>1, <1>2, <1>3, <1>4 DEF Shaped
<1>6. TellsVariants(s)
  BY <1>1, <1>3, <1>4 DEF TellsVariants
<1>7. TellsTokens(s)
  BY <1>1, <1>3, <1>4 DEF TellsTokens, ByDiagnosis
<1>8. AsksFairly(s)
  BY <1>1, <1>3, <1>4 DEF AsksFairly, Even
<1> QED
  BY <1>5, <1>6, <1>7, <1>8 DEF SoundStudy, s

LEMMA CudaExpertMajorSound == SoundStudy(CudaExpertMajor)
<1> DEFINE s == CudaExpertMajor
           first == ExpertMajorArms("cuda")
<1>1. /\ s.name = "cuda-expert-major" /\ s.arms = first \o ReleasedBatchArms
      /\ s.writes = <<"summary.json", "summary.csv">>
      /\ s.checked = {} /\ s.based = {}
      /\ s.diagnosed = {"tokens", "routes", "error", "counts", "shows"}
      /\ s.exactly = {} /\ s.demanded = {"shows", "error"} /\ s.matched = {}
      /\ s.paired = {"place"} /\ s.pairs = {<<6, 7>>, <<8, 9>>}
      /\ s.baseline = TRUE /\ s.skips = FALSE
  BY DEF CudaExpertMajor, Study
<1>2. s.writes \in Endings
  BY <1>1 DEF Endings
<1>3. /\ ReleasedBatchArms = [i \in 1..4 |-> ReleasedBatchArms[i]]
      /\ \A i \in 1..4 : LET a == ReleasedBatchArms[i] IN
            /\ a.backend = "single" /\ a.class = "any" /\ a.exact = TRUE /\ a.steps = Bench
  BY DEF ReleasedBatchArms, Arm
<1> HIDE DEF s, first
<1>4. /\ DOMAIN s.arms = 1..(5 + 4)
      /\ \A i \in 1..5 : s.arms[i] = first[i]
      /\ \A i \in 1..4 : s.arms[5 + i] = ReleasedBatchArms[i]
  <2>1. first = [i \in 1..5 |-> first[i]] /\ 4 \in Nat /\ 5 \in Nat
    BY ExpertMajorArmsAre DEF first
  <2> QED
    BY <1>1, <1>3, <2>1, Appended
<1>5. /\ DOMAIN s.arms = 1..9 /\ 1 \in 1..9 /\ 9 \in Nat \ {0}
      /\ \A i \in 1..9 : i \in 1..5 \/ (i - 5 \in 1..4 /\ i = 5 + (i - 5))
  BY <1>4
<1>6. \A i \in 1..5 :
         /\ s.arms[i].backend = "cuda" /\ s.arms[i].class = "any" /\ s.arms[i].shown = TRUE
         /\ s.arms[i].exact = TRUE /\ s.arms[i].steps \in Orders /\ Does(s, i, "diagnose")
         /\ \A c \in DOMAIN s.arms[i].demanded : s.arms[i].counts[c] = s.arms[i].demanded[c]
  <2>1. \A i \in 1..5 : Draws(s.arms[i], "cuda")
    BY <1>4, ExpertMajorArmsAre DEF first
  <2> QED
    BY <2>1, OrderSteps DEF Draws, Does
<1>7. \A i \in 1..9 : i \notin 1..5 =>
         /\ s.arms[i].backend = "single" /\ s.arms[i].class = "any" /\ s.arms[i].exact = TRUE
         /\ s.arms[i].steps \in Orders /\ ~Does(s, i, "diagnose")
  BY <1>3, <1>4, <1>5, OrderSteps DEF Does
<1>8. /\ s.pairs \subseteq (1..9) \X (1..9) /\ 1 \in 1..5
  BY <1>1
<1>9. Shaped(s)
  BY <1>1, <1>2, <1>5, <1>6, <1>7, <1>8 DEF Shaped
<1>10. TellsVariants(s)
  BY <1>1, <1>5, <1>6, <1>7 DEF TellsVariants
<1>11. TellsTokens(s)
  BY <1>1 DEF TellsTokens, Blind
<1>12. AsksFairly(s)
  <2>1. \A i \in 1..9 : s.arms[i].exact = TRUE
    BY <1>5, <1>6, <1>7
  <2>2. \A p \in s.pairs : p[1] \in 1..9 /\ p[2] \in 1..9
    BY <1>8
  <2> QED
    BY <1>1, <1>5, <1>6, <1>7, <2>1, <2>2 DEF AsksFairly, Even
<1> QED
  BY <1>9, <1>10, <1>11, <1>12 DEF SoundStudy, s

\* Every study of src/tools is sound.
LEMMA StudiesSound ==
  ASSUME NEW s \in Studies
  PROVE  SoundStudy(s)
BY FfnSound, FusionSound, TransferSound, ResidencySound, L1CacheSound, L2ReaderSound,
   BoundedSliceSound, DeadlineLoaderSound, CachePoliciesSound, TaskProfilesSound,
   AdaptiveRoutingSound, SpeculativeVerificationSound, ExpertMajorVerificationSound,
   CudaExpertMajorSound, AuroraReplaySound, PersistentAuroraSound, CudaAuroraDraftSound,
   CudaAuroraResidencySound, CudaAuroraGridSound, CudaAuroraMoeLayerSound, ExpertFusionSound,
   ReleasedMoeLayerSound, AdmissionValidationSound, Zenon DEF Studies

\* What the orders have in common: the benchmark comes first and once, the
\* check behind the diagnosis.
LEMMA OrderFacts ==
  ASSUME NEW o \in Orders
  PROVE  /\ Len(o) \in 3..5 /\ DOMAIN o = 1..Len(o) /\ o[1] = "bench"
         /\ \A k \in 1..Len(o) : o[k] = "bench" => k = 1
         /\ \A j, k \in 1..Len(o) : o[j] = "check" /\ o[k] = "diagnose" => k < j
         /\ \A what : what \in ToSet(o) <=> \E k \in 1..Len(o) : o[k] = what
         /\ "json" \in ToSet(o)
         /\ "diagnose" \in ToSet(o) => "check" \in ToSet(o)
<1>1. /\ Len(o) \in 3..5 /\ DOMAIN o = 1..Len(o) /\ o[1] = "bench"
      /\ \A k \in 1..Len(o) : o[k] = "bench" => k = 1
  BY DEF Orders
<1>2. ASSUME NEW j \in 1..Len(o), NEW k \in 1..Len(o), o[j] = "check", o[k] = "diagnose"
      PROVE  k < j
  <2>1. CASE o = <<"bench", "json", "csv", "diagnose", "check">>
    <3>1. k = 4 /\ j = 5
      BY <1>2, <2>1
    <3> QED
      BY <3>1
  <2>2. CASE o = <<"bench", "diagnose", "check", "json", "csv">>
    <3>1. k = 2 /\ j = 3
      BY <1>2, <2>2
    <3> QED
      BY <3>1
  <2>3. CASE o \in Orders \ {<<"bench", "json", "csv", "diagnose", "check">>,
                             <<"bench", "diagnose", "check", "json", "csv">>}
    <3>1. \A i \in 1..Len(o) : o[i] # "diagnose"
      BY <2>3 DEF Orders
    <3> QED
      BY <1>2, <3>1
  <2> QED
    BY <2>1, <2>2, <2>3
<1>3. \A what : what \in ToSet(o) <=> \E k \in 1..Len(o) : o[k] = what
  BY <1>1 DEF ToSet
<1>4. (\E k \in 1..Len(o) : o[k] = "json")
  BY DEF Orders
<1>5. (\E k \in 1..Len(o) : o[k] = "diagnose") => \E k \in 1..Len(o) : o[k] = "check"
  BY DEF Orders
<1> QED
  BY <1>1, <1>2, <1>3, <1>4, <1>5

\* Every tool writes summary.json.
LEMMA EndingFacts ==
  ASSUME NEW e \in Endings
  PROVE  /\ Len(e) \in 1..2
         /\ \A k \in 1..Len(e) : e[k] \in {"summary.json", "summary.csv"}
         /\ \E k \in 1..Len(e) : e[k] = "summary.json"
BY DEF Endings

-----------------------------------------------------------------------------
(* What a run of a tool knows                                              *)

\* What the reports of an honest runner say.
Facts == {"tokens", "routes", "error", "options", "place", "shows", "counts"}
Honest(i) ==
  LET arm == study.arms[i] IN
  [tokens |-> IF arm.exact THEN "natural" ELSE "lossy",
   error |-> IF arm.exact THEN "none" ELSE "lossy",
   routes |-> "natural", options |-> "asked", place |-> "here", shows |-> arm.ran,
   counts |-> arm.counts]

Running == phase \in {"prologue", "arms", "publish", "done"}
Ended == phase \in {"publish", "done"}

\* An arm has taken a step.
Done(i, what) ==
  i < at \/ (i = at /\ \E k \in 1..(step - 1) : study.arms[i].steps[k] = what)

\* Where the tool is.
Positioned ==
  /\ study \in Studies /\ run \in Nat /\ at \in Nat /\ step \in Nat
  /\ phase \in {"idle", "prologue", "arms", "publish", "done", "refused", "killed"}
  /\ trouble = Nothing \/ trouble \in Troubles
  /\ phase = "prologue" => at = 1 /\ step = 1 /\ got = <<>>
  /\ phase = "arms" =>
       \/ at \in Arms /\ step \in 1..Len(This.steps)
       \/ at \notin Arms /\ at - 1 \in Arms /\ step = 1
  /\ Ended => at \notin Arms /\ at - 1 \in Arms
  /\ phase = "publish" => step \in 1..Len(study.writes)
  /\ Running =>
       /\ got = [i \in 1..(IF at \in Arms /\ step > 1 THEN at ELSE at - 1) |-> got[i]]
       /\ at \in Arms /\ step > 1 => ~got[at].skipped

\* What the record of an arm holds, and what benchmark_once has compared for it.
Sampled(i) ==
  LET first == Report(i, "first")
      arm == study.arms[i]
  IN
  /\ \A f \in {"tokens", "shows"} : got[i].measured[f] = first[f]
  /\ arm.backend # "single" =>
       /\ Report(i, "second").tokens = first.tokens
       /\ KeepsProfile(i) => Report(i, "profile").tokens = first.tokens
       /\ arm.backend = "cpu" => Report(i, "own").tokens = first.tokens
  /\ trouble = Nothing =>
       \A f \in Facts : got[i].measured[f] = Honest(i)[f] /\ got[i].diagnosed[f] = Honest(i)[f]
  /\ Does(study, i, "diagnose") /\ Done(i, "diagnose") => got[i].diagnosed = Report(i, "tool")
  /\ Does(study, i, "check") /\ Done(i, "check") => ArmPasses(i)

Results ==
  Running => \A i \in DOMAIN got :
    /\ got[i].skipped \in BOOLEAN
    /\ ~got[i].skipped => {"measured", "diagnosed", "skipped"} \subseteq DOMAIN got[i]
    /\ got[i].skipped => study.skips /\ (trouble # Nothing \/ missing # {})
    /\ ~got[i].skipped => Sampled(i)

\* The files of the arms that this run has written.
Written ==
  Running => \A i \in DOMAIN got :
    IF got[i].skipped THEN disk.skipped[i] = run
    ELSE /\ Done(i, "json") => disk.json[i] = run
         /\ Does(study, i, "csv") /\ Done(i, "csv") => disk.csv[i] = run

\* What is on disk, and the arms the summary names.
Stored ==
  /\ DOMAIN disk = {"json", "csv", "skipped"}
  /\ \A kind \in DOMAIN disk : /\ DOMAIN disk[kind] = Arms
                               /\ \A i \in Arms : disk[kind][i] \in 0..run
  /\ {"json", "csv", "arms"} \subseteq DOMAIN summary
  /\ summary.json \in 0..run /\ DOMAIN summary.arms \subseteq Arms
  /\ \A i \in DOMAIN summary.arms :
       IF summary.arms[i].skipped THEN disk.skipped[i] >= summary.json
       ELSE /\ disk.json[i] >= summary.json
            /\ Does(study, i, "csv") => disk.csv[i] >= summary.json

\* The summary that this run has written.
Summarised ==
  /\ phase = "publish" => \A k \in 1..(step - 1) :
       study.writes[k] = "summary.json" => summary.json = run /\ summary.arms = got
  /\ phase = "done" => summary.json = run /\ summary.arms = got

ToolInv ==
  /\ Positioned /\ Results /\ Written /\ Stored /\ Summarised
  /\ Ended => GatesPass
  /\ HonestRunIsPublished

-----------------------------------------------------------------------------
(* A run of a tool                                                         *)

\* What is known of the study of a tool.
LEMMA StudyFacts ==
  ASSUME study \in Studies
  PROVE  /\ SoundStudy(study)
         /\ \E n \in Nat \ {0} : Arms = 1..n
         /\ \A i \in Arms : study.arms[i].steps \in Orders
         /\ study.writes \in Endings
BY StudiesSound DEF SoundStudy, Shaped, Arms

\* One element behind a sequence.
LEMMA AppendedOne ==
  ASSUME NEW m \in Nat, NEW f, NEW x, f = [i \in 1..m |-> f[i]]
  PROVE  /\ Append(f, x) = [i \in 1..(m + 1) |-> Append(f, x)[i]]
         /\ \A i \in 1..m : Append(f, x)[i] = f[i]
         /\ Append(f, x)[m + 1] = x
<1> DEFINE S == {f[i] : i \in 1..m} \cup {x}
<1>1. f \in Seq(S) /\ Len(f) = m /\ x \in S
  <2>1. f \in [1..m -> S] /\ x \in S
    OBVIOUS
  <2> HIDE DEF S
  <2> QED
    BY <2>1
<1> HIDE DEF S
<1>2. /\ Append(f, x) \in Seq(S) /\ Len(Append(f, x)) = Len(f) + 1
      /\ \A i \in 1..Len(f) : Append(f, x)[i] = f[i]
      /\ Append(f, x)[Len(f) + 1] = x
  BY <1>1, AppendProperties
<1> QED
  BY <1>1, <1>2

\* Nothing that is said of the reports changes while a run goes on.
LEMMA ReportsSteady ==
  ASSUME study' = study, trouble' = trouble
  PROVE  /\ \A i, process : Report(i, process)' = Report(i, process)
         /\ \A i : Honest(i)' = Honest(i)
         /\ \A i : KeepsProfile(i)' = KeepsProfile(i)
         /\ Arms' = Arms
BY DEF Report, Wrongly, Honest, KeepsProfile, Arms

\* What an arm has passed it passes as long as its record remains.
LEMMA PassesSteady ==
  ASSUME study' = study, trouble' = trouble, NEW i, got'[i] = got[i], got'[1] = got[1],
         ArmPasses(i)
  PROVE  ArmPasses(i)'
BY ReportsSteady DEF ArmPasses, AsAsked, DiagnosisAgrees, Natural

\* What is known of a record remains known of it.
LEMMA SampledSteady ==
  ASSUME study' = study, trouble' = trouble, NEW i, got'[i] = got[i], got'[1] = got[1],
         Does(study, i, "diagnose") /\ Done(i, "diagnose")' => Done(i, "diagnose"),
         Does(study, i, "check") /\ Done(i, "check")' => Done(i, "check"),
         Sampled(i)
  PROVE  Sampled(i)'
BY ReportsSteady, PassesSteady DEF Sampled, Does

\* When an arm goes on, it has done what it had done and the step it took.
LEMMA DoneNext ==
  ASSUME study' = study, at \in Nat, step \in Nat, at \in Arms, This.steps \in Orders,
         step \in 1..Len(This.steps), Next1, NEW i \in 1..at, NEW what,
         Does(study, i, what), Done(i, what)'
  PROVE  Done(i, what) \/ (i = at /\ This.steps[step] = what)
<1>1. CASE i < at
  BY <1>1 DEF Done
<1>2. CASE i = at /\ at' = at
  <2>1. step' = step + 1 /\ at' = at
    BY <1>2, OrderFacts DEF Next1
  <2>2. \E k \in 1..step : This.steps[k] = what
    BY <1>2, <2>1 DEF Done, This
  <2> QED
    BY <1>2, <2>2 DEF Done, This
<1>3. CASE i = at /\ at' = at + 1
  <2>1. step = Len(This.steps)
    BY <1>3, OrderFacts DEF Next1
  <2>2. \E k \in 1..Len(This.steps) : This.steps[k] = what
    BY <1>3, OrderFacts DEF Does, This
  <2> QED
    BY <1>3, <2>1, <2>2 DEF Done, This
<1> QED
  BY <1>1, <1>2, <1>3 DEF Next1

\* What can go wrong is a matter of the study.
LEMMA TroublesSteady ==
  ASSUME study' = study
  PROVE  Troubles' = Troubles /\ Arms' = Arms
BY DEF Troubles, Whose, Processes, KeepsProfile, Fields, Arms

\* Nothing is taken from the disk when a run starts, stops or goes on.
LEMMA StoredSteady ==
  ASSUME Stored, study' = study, disk' = disk, summary' = summary, run \in Nat, run' \in Nat,
         run <= run'
  PROVE  Stored'
BY DEF Stored, Arms, Does

\* The tool is started.
LEMMA StartInv ==
  ASSUME ToolInv, Start
  PROVE  ToolInv'
<1>1. /\ study' = study /\ study \in Studies /\ run \in Nat /\ run' = run + 1 /\ at' = 1
      /\ step' = 1 /\ got' = <<>> /\ phase' \in {"prologue", "arms"}
      /\ trouble' \in {Nothing} \cup Troubles /\ disk' = disk /\ summary' = summary
  BY DEF ToolInv, Positioned, Start
<1>2. Arms' = Arms /\ Troubles' = Troubles /\ 1 \in Arms
  BY <1>1, TroublesSteady, StudyFacts
<1>3. Positioned'
  <2>1. This'.steps \in Orders
    BY <1>1, <1>2, StudyFacts DEF This
  <2>2. got' = [i \in 1..0 |-> got'[i]]
    BY <1>1
  <2>3. 1 \in 1..Len(This'.steps)
    BY <2>1, OrderFacts
  <2> QED
    BY <1>1, <1>2, <2>2, <2>3 DEF Positioned, Running, Ended, Nothing
<1>4. DOMAIN got' = {}
  BY <1>1
<1>5. Results' /\ Written'
  BY <1>4 DEF Results, Written
<1>6. Stored'
  BY <1>1, StoredSteady DEF ToolInv
<1>7. Summarised' /\ (Ended => GatesPass)' /\ HonestRunIsPublished'
  BY <1>1 DEF Summarised, Ended, HonestRunIsPublished
<1> QED
  BY <1>3, <1>5, <1>6, <1>7 DEF ToolInv

\* A run ends early.
LEMMA StopInv ==
  ASSUME ToolInv, phase' \in {"refused", "killed"},
         UNCHANGED <<study, run, trouble, missing, at, step, got, disk, summary>>,
         phase' = "refused" => trouble # Nothing \/ missing # {}
  PROVE  ToolInv'
<1>1. study \in Studies /\ run \in Nat /\ at \in Nat /\ step \in Nat
      /\ trouble \in {Nothing} \cup Troubles
  BY DEF ToolInv, Positioned
<1>2. Positioned'
  BY <1>1, TroublesSteady DEF Positioned, Running, Ended, Nothing
<1>3. Results' /\ Written' /\ Summarised' /\ (Ended => GatesPass)'
  BY DEF Results, Written, Running, Summarised, Ended
<1>4. Stored'
  BY <1>1, StoredSteady DEF ToolInv
<1>5. HonestRunIsPublished'
  BY DEF HonestRunIsPublished
<1> QED
  BY <1>2, <1>3, <1>4, <1>5 DEF ToolInv

\* Where an arm is when it takes a step.
LEMMA AtBench ==
  ASSUME Positioned, Doing("bench")
  PROVE  /\ study \in Studies /\ at \in Arms /\ at \in Nat /\ at >= 1 /\ step = 1 /\ run \in Nat
         /\ This.steps \in Orders /\ got = [i \in 1..(at - 1) |-> got[i]]
<1>1. study \in Studies /\ at \in Arms /\ phase = "arms" /\ at \in Nat /\ run \in Nat
      /\ step \in 1..Len(This.steps)
  BY DEF Positioned, Doing
<1>2. This.steps \in Orders /\ at >= 1
  BY <1>1, StudyFacts DEF This
<1>3. step = 1
  BY <1>1, <1>2, OrderFacts DEF Doing
<1> QED
  BY <1>1, <1>2, <1>3 DEF Positioned, Running

\* Behind its first step an arm has a result.
LEMMA BehindBench ==
  ASSUME Positioned, NEW what, Doing(what), what # "bench"
  PROVE  /\ study \in Studies /\ at \in Arms /\ at \in Nat /\ at >= 1 /\ step \in Nat /\ step > 1
         /\ step \in 1..Len(This.steps) /\ This.steps \in Orders /\ run \in Nat
         /\ got = [i \in 1..at |-> got[i]] /\ ~got[at].skipped
<1>1. study \in Studies /\ at \in Arms /\ phase = "arms" /\ at \in Nat /\ run \in Nat
      /\ step \in 1..Len(This.steps)
  BY DEF Positioned, Doing
<1>2. This.steps \in Orders /\ at >= 1
  BY <1>1, StudyFacts DEF This
<1>3. step > 1 /\ step \in Nat
  BY <1>1, <1>2, OrderFacts DEF Doing
<1> QED
  BY <1>1, <1>2, <1>3 DEF Positioned, Running

\* When an arm goes on, the tool is where a tool can be.
LEMMA NextPositioned ==
  ASSUME Positioned, phase = "arms", at \in Arms, step \in 1..Len(This.steps), Next1,
         UNCHANGED <<study, phase, run, trouble>>,
         got' = [i \in 1..at |-> got'[i]], ~got'[at].skipped
  PROVE  Positioned'
<1>1. study \in Studies /\ run \in Nat /\ at \in Nat /\ step \in Nat
      /\ trouble \in {Nothing} \cup Troubles
  BY DEF Positioned
<1>2. Arms' = Arms /\ Troubles' = Troubles
  BY TroublesSteady
<1>3. PICK n \in Nat \ {0} : Arms = 1..n
  BY <1>1, StudyFacts
<1>4. \A i \in Arms : study.arms[i].steps \in Orders
  BY <1>1, StudyFacts
<1>5. Len(This.steps) \in Nat
  BY <1>4, OrderFacts DEF This
<1>6. CASE step < Len(This.steps)
  <2>1. at' = at /\ step' = step + 1 /\ This'.steps = This.steps
    BY <1>6 DEF Next1, This
  <2>2. step' \in 1..Len(This'.steps) /\ step' \in Nat /\ step' > 1
    BY <1>1, <1>5, <1>6, <2>1
  <2> QED
    BY <1>1, <1>2, <2>1, <2>2 DEF Positioned, Running, Ended, Nothing
<1>7. CASE ~(step < Len(This.steps))
  <2>1. at' = at + 1 /\ step' = 1 /\ at' - 1 = at /\ at' \in Nat
    BY <1>1, <1>7 DEF Next1
  <2>2. at' \in Arms => 1 \in 1..Len(This'.steps)
    <3>1. at' \in Arms => This'.steps \in Orders
      BY <1>4 DEF This
    <3> QED
      BY <3>1, OrderFacts
  <2> QED
    BY <1>1, <1>2, <2>1, <2>2 DEF Positioned, Running, Ended, Nothing
<1> QED
  BY <1>6, <1>7

\* The results of the arms remain when an arm goes on and takes no result back.
LEMMA ResultsSteady ==
  ASSUME Positioned, Results, NEW what, Doing(what), what # "bench", Next1,
         UNCHANGED <<study, phase, run, trouble, missing, got>>,
         what = "check" => ArmPasses(at),
         what # "diagnose"
  PROVE  Positioned' /\ Results'
<1>1. /\ study \in Studies /\ at \in Arms /\ at \in Nat /\ at >= 1 /\ step \in Nat /\ step > 1
      /\ step \in 1..Len(This.steps) /\ This.steps \in Orders /\ run \in Nat
      /\ got = [i \in 1..at |-> got[i]] /\ ~got[at].skipped /\ phase = "arms"
      /\ This.steps[step] = what
  BY BehindBench DEF Doing
<1>2. Positioned'
  BY <1>1, NextPositioned
<1>3. ASSUME NEW i \in 1..at, ~got[i].skipped PROVE Sampled(i)'
  <2>1. Sampled(i)
    BY <1>1, <1>3 DEF Results, Running
  <2>2. Does(study, i, "diagnose") /\ Done(i, "diagnose")' => Done(i, "diagnose")
    BY <1>1, DoneNext
  <2>3. Does(study, i, "check") /\ Done(i, "check")' => ArmPasses(i)
    BY <1>1, <2>1, DoneNext DEF Sampled
  <2>4. Does(study, i, "check")' = Does(study, i, "check")
        /\ Does(study, i, "diagnose")' = Does(study, i, "diagnose")
    BY DEF Does
  <2>5. ArmPasses(i) => ArmPasses(i)'
    BY PassesSteady
  <2> QED
    BY <2>1, <2>2, <2>3, <2>4, <2>5, ReportsSteady DEF Sampled
<1>4. Results'
  BY <1>1, <1>3 DEF Results, Running
<1> QED
  BY <1>2, <1>4

\* A run only puts its own number to files.
LEMMA StoredGrows ==
  ASSUME Stored, study' = study, summary' = summary, run' = run, run \in Nat,
         DOMAIN disk' = {"json", "csv", "skipped"},
         \A kind \in {"json", "csv", "skipped"} :
            /\ DOMAIN disk'[kind] = Arms
            /\ \A i \in Arms : disk'[kind][i] = disk[kind][i] \/ disk'[kind][i] = run
  PROVE  Stored'
<1>1. Arms' = Arms /\ \A i : Does(study, i, "csv")' = Does(study, i, "csv")
  BY DEF Arms, Does
<1>2. ASSUME NEW kind \in {"json", "csv", "skipped"}, NEW i \in Arms
      PROVE  /\ disk'[kind][i] \in 0..run
             /\ disk[kind][i] \in 0..run
             /\ disk[kind][i] >= summary.json => disk'[kind][i] >= summary.json
  BY DEF Stored
<1>3. \A i \in DOMAIN summary.arms : i \in Arms
  BY DEF Stored
<1>4. ASSUME NEW i \in DOMAIN summary.arms
      PROVE  IF summary.arms[i].skipped THEN disk'.skipped[i] >= summary.json
             ELSE /\ disk'.json[i] >= summary.json
                  /\ Does(study, i, "csv") => disk'.csv[i] >= summary.json
  BY <1>2, <1>3 DEF Stored
<1> QED
  BY <1>1, <1>2, <1>4 DEF Stored

\* What has to be shown of the files of a step that writes one.
LEMMA WriteJsonInv ==
  ASSUME ToolInv, WriteJson
  PROVE  ToolInv'
<1>1. Positioned /\ Results /\ Written /\ Stored /\ Doing("json") /\ Next1
      /\ UNCHANGED <<study, phase, run, trouble, missing, got, summary>>
      /\ disk' = [disk EXCEPT !.json[at] = run]
  BY DEF ToolInv, WriteJson
<1>2. /\ study \in Studies /\ at \in Arms /\ at \in Nat /\ at >= 1
      /\ step \in 1..Len(This.steps) /\ This.steps \in Orders /\ run \in Nat
      /\ got = [i \in 1..at |-> got[i]] /\ phase = "arms" /\ step \in Nat
      /\ This.steps[step] = "json"
  BY <1>1, BehindBench DEF Doing
<1>3. Positioned' /\ Results'
  BY <1>1, ResultsSteady
<1>4. /\ DOMAIN disk' = DOMAIN disk /\ disk'.skipped = disk.skipped /\ disk'.csv = disk.csv
      /\ DOMAIN disk'.json = Arms /\ disk'.json[at] = run
      /\ \A i \in Arms : i # at => disk'.json[i] = disk.json[i]
  BY <1>1, <1>2 DEF Stored
<1>5. \A i \in Arms : study.arms[i].steps \in Orders
  BY <1>2, StudyFacts
<1>6. Written'
  <2>1. ASSUME NEW i \in 1..at
        PROVE  IF got[i].skipped THEN disk'.skipped[i] = run
               ELSE /\ Done(i, "json")' => disk'.json[i] = run
                    /\ Does(study, i, "csv") /\ Done(i, "csv")' => disk'.csv[i] = run
    <3>1. i \in Arms
      BY <1>2, StudyFacts
    <3>2. Does(study, i, "json")
      BY <1>5, <3>1, OrderFacts DEF Does
    <3>3. /\ Done(i, "json")' => Done(i, "json") \/ i = at
          /\ Does(study, i, "csv") /\ Done(i, "csv")' => Done(i, "csv")
      BY <1>1, <1>2, <3>2, DoneNext
    <3> QED
      BY <1>1, <1>2, <1>4, <3>1, <3>3 DEF Written, Running
  <2> QED
    BY <1>1, <1>2, <2>1 DEF Written, Running, Does
<1>7. Stored'
  <2>1. \A kind \in {"json", "csv", "skipped"} :
           /\ DOMAIN disk'[kind] = Arms
           /\ \A i \in Arms : disk'[kind][i] = disk[kind][i] \/ disk'[kind][i] = run
    BY <1>1, <1>4 DEF Stored
  <2> QED
    BY <1>1, <1>2, <1>4, <2>1, StoredGrows DEF Stored
<1>8. Summarised' /\ (Ended => GatesPass)' /\ HonestRunIsPublished'
  BY <1>1, <1>2 DEF Summarised, Ended, HonestRunIsPublished
<1> QED
  BY <1>3, <1>6, <1>7, <1>8 DEF ToolInv

\* The CSV file of an arm.
LEMMA WriteCsvInv ==
  ASSUME ToolInv, WriteCsv
  PROVE  ToolInv'
<1>1. Positioned /\ Results /\ Written /\ Stored /\ Doing("csv") /\ Next1
      /\ UNCHANGED <<study, phase, run, trouble, missing, got, summary>>
      /\ disk' = [disk EXCEPT !.csv[at] = run]
  BY DEF ToolInv, WriteCsv
<1>2. /\ study \in Studies /\ at \in Arms /\ at \in Nat /\ at >= 1
      /\ step \in 1..Len(This.steps) /\ This.steps \in Orders /\ run \in Nat
      /\ got = [i \in 1..at |-> got[i]] /\ phase = "arms" /\ step \in Nat
      /\ This.steps[step] = "csv"
  BY <1>1, BehindBench DEF Doing
<1>3. Positioned' /\ Results'
  BY <1>1, ResultsSteady
<1>4. /\ DOMAIN disk' = DOMAIN disk /\ disk'.skipped = disk.skipped /\ disk'.json = disk.json
      /\ DOMAIN disk'.csv = Arms /\ disk'.csv[at] = run
      /\ \A i \in Arms : i # at => disk'.csv[i] = disk.csv[i]
  BY <1>1, <1>2 DEF Stored
<1>5. \A i \in Arms : study.arms[i].steps \in Orders
  BY <1>2, StudyFacts
<1>6. Written'
  <2>1. ASSUME NEW i \in 1..at
        PROVE  IF got[i].skipped THEN disk'.skipped[i] = run
               ELSE /\ Done(i, "json")' => disk'.json[i] = run
                    /\ Does(study, i, "csv") /\ Done(i, "csv")' => disk'.csv[i] = run
    <3>1. i \in Arms
      BY <1>2, StudyFacts
    <3>2. Does(study, i, "json")
      BY <1>5, <3>1, OrderFacts DEF Does
    <3>3. /\ Done(i, "json")' => Done(i, "json")
          /\ Does(study, i, "csv") /\ Done(i, "csv")' => Done(i, "csv") \/ i = at
      BY <1>1, <1>2, <3>2, DoneNext
    <3> QED
      BY <1>1, <1>2, <1>4, <3>1, <3>3 DEF Written, Running
  <2> QED
    BY <1>1, <1>2, <2>1 DEF Written, Running, Does
<1>7. Stored'
  <2>1. \A kind \in {"json", "csv", "skipped"} :
           /\ DOMAIN disk'[kind] = Arms
           /\ \A i \in Arms : disk'[kind][i] = disk[kind][i] \/ disk'[kind][i] = run
    BY <1>1, <1>4 DEF Stored
  <2> QED
    BY <1>1, <1>2, <1>4, <2>1, StoredGrows DEF Stored
<1>8. Summarised' /\ (Ended => GatesPass)' /\ HonestRunIsPublished'
  BY <1>1, <1>2 DEF Summarised, Ended, HonestRunIsPublished
<1> QED
  BY <1>3, <1>6, <1>7, <1>8 DEF ToolInv

-----------------------------------------------------------------------------
(* An honest runner                                                        *)

\* All processes of an arm report the same when nothing is wrong.
LEMMA HonestReports ==
  ASSUME trouble = Nothing
  PROVE  /\ \A i, process, field : ~Wrongly(i, process, field)
         /\ \A i, process : \A f \in Facts : Report(i, process)[f] = Honest(i)[f]
<1>1. \A i, process, field : ~Wrongly(i, process, field)
  BY DEF Wrongly, Nothing
<1>2. ASSUME NEW i, NEW process
      PROVE  Report(i, process) = Honest(i)
  BY <1>1 DEF Report, Honest
<1> QED
  BY <1>1, <1>2

\* Arms that are both exact, or both not, have the same reports.
LEMMA HonestEven ==
  ASSUME NEW i, NEW j
  PROVE  /\ \A f \in {"routes", "place"} : Honest(i)[f] = Honest(j)[f]
         /\ Even(study, i, j) =>
              \A f \in {"tokens", "routes", "error", "place"} : Honest(i)[f] = Honest(j)[f]
BY DEF Honest, Even

\* An honest report is what was asked for.
LEMMA HonestAsked ==
  ASSUME NEW i, NEW m, \A f \in Facts : m[f] = Honest(i)[f],
         NEW f \in {"options", "error", "shows"}, f = "error" => study.arms[i].exact
  PROVE  AsAsked(i, m, f)
<1>1. m.options = Honest(i).options /\ m.shows = Honest(i).shows /\ m.error = Honest(i).error
  BY DEF Facts
<1>2. Honest(i).options = "asked" /\ Honest(i).shows = study.arms[i].ran
      /\ (study.arms[i].exact => Honest(i).error = "none")
  BY DEF Honest
<1> QED
  BY <1>1, <1>2 DEF AsAsked

\* Everything that is there to be compared is honest.
LEMMA HonestResults ==
  ASSUME Positioned, Results, Running, trouble = Nothing, missing = {}
  PROVE  /\ \A i \in DOMAIN got : /\ ~got[i].skipped
                                  /\ \A f \in Facts : got[i].measured[f] = Honest(i)[f]
                                  /\ \A f \in Facts : got[i].diagnosed[f] = Honest(i)[f]
         /\ 1 \in DOMAIN got => \A f \in Facts : Natural[f] = Honest(1)[f]
<1>1. \A i \in DOMAIN got : /\ ~got[i].skipped
                            /\ \A f \in Facts : got[i].measured[f] = Honest(i)[f]
                            /\ \A f \in Facts : got[i].diagnosed[f] = Honest(i)[f]
  BY DEF Results, Sampled
<1>2. \A f \in Facts : Report(1, "tool")[f] = Honest(1)[f]
  BY HonestReports
<1> QED
  BY <1>1, <1>2 DEF Natural

\* No check of an arm refuses an honest runner (check of the tools).
LEMMA HonestArmPasses ==
  ASSUME Positioned, Results, Doing("check"), trouble = Nothing, missing = {}
  PROVE  ArmPasses(at)
<1> DEFINE measured == got[at].measured
           diagnosed == got[at].diagnosed
<1>1. /\ study \in Studies /\ at \in Arms /\ at \in DOMAIN got /\ 1 \in DOMAIN got /\ Running
      /\ AsksFairly(study)
  <2>1. at \in 1..at /\ 1 \in 1..at
    BY BehindBench
  <2> QED
    BY <2>1, BehindBench, StudyFacts DEF Running, Doing, SoundStudy
<1>2. /\ \A f \in Facts : measured[f] = Honest(at)[f] /\ diagnosed[f] = Honest(at)[f]
      /\ \A f \in Facts : Natural[f] = Honest(1)[f] /\ got[1].measured[f] = Honest(1)[f]
  BY <1>1, HonestResults
<1> HIDE DEF measured, diagnosed
<1>3. ASSUME NEW f \in study.checked PROVE AsAsked(at, measured, f)
  <2>1. f \in {"options", "error", "shows"} /\ (f = "error" => study.arms[at].exact)
    BY <1>1, <1>3 DEF AsksFairly, Arms
  <2> QED
    BY <1>2, <2>1, HonestAsked
<1>4. ASSUME NEW f \in {"tokens", "routes", "error"}, f \in study.based \cup study.diagnosed
      PROVE  f \in Facts /\ Honest(at)[f] = Honest(1)[f]
  <2>1. CASE f = "routes"
    BY <2>1, HonestEven DEF Facts
  <2>2. CASE f # "routes"
    <3>1. Even(study, at, 1)
      BY <1>1, <1>4, <2>2 DEF AsksFairly, Arms
    <3> QED
      BY <3>1, HonestEven DEF Facts
  <2> QED
    BY <2>1, <2>2
<1>5. ASSUME NEW f \in study.based
      PROVE  measured[f] = IF study.baseline THEN Natural[f] ELSE got[1].measured[f]
  <2>1. f \in {"tokens", "routes", "error"}
    BY <1>1 DEF AsksFairly
  <2> QED
    BY <1>2, <1>4, <2>1
<1>6. ASSUME "diagnose" \in ToSet(study.arms[at].steps), NEW f \in study.diagnosed
      PROVE  DiagnosisAgrees(at, f)
  <2>1. f \in {"tokens", "routes", "error", "counts", "shows"}
    BY <1>1 DEF AsksFairly
  <2>2. CASE f = "counts"
    <3>1. \A c \in DOMAIN study.arms[at].demanded :
             study.arms[at].counts[c] = study.arms[at].demanded[c]
      BY <1>1, <1>6, <2>2 DEF AsksFairly, Arms, Does
    <3>2. diagnosed.counts = study.arms[at].counts
      BY <1>2 DEF Facts, Honest
    <3> QED
      BY <2>2, <3>1, <3>2 DEF DiagnosisAgrees, diagnosed
  <2>3. CASE f = "shows"
    <3>1. AsAsked(at, diagnosed, "shows")
      BY <1>2, HonestAsked
    <3> QED
      BY <2>3, <3>1 DEF DiagnosisAgrees, diagnosed
  <2>4. CASE f \in {"tokens", "routes", "error"}
    <3>1. diagnosed[f] = Natural[f]
      BY <1>2, <1>4, <1>6, <2>4
    <3> QED
      BY <2>4, <3>1 DEF DiagnosisAgrees, diagnosed
  <2> QED
    BY <2>1, <2>2, <2>3, <2>4
<1> QED
  BY <1>3, <1>5, <1>6 DEF ArmPasses, measured

\* No gate over all arms refuses an honest runner.
LEMMA HonestGatesPass ==
  ASSUME Positioned, Results, phase = "arms", at \notin Arms, trouble = Nothing, missing = {}
  PROVE  GatesPass
<1>1. PICK n \in Nat \ {0} : Arms = 1..n
  BY StudyFacts DEF Positioned
<1>2. /\ study \in Studies /\ Running /\ at \in Nat /\ at - 1 \in Arms
      /\ got = [i \in 1..(at - 1) |-> got[i]]
  BY DEF Positioned, Running
<1>3. DOMAIN got = Arms /\ 1 \in Arms
  <2>1. at - 1 = n
    BY <1>1, <1>2
  <2> QED
    BY <1>1, <1>2, <2>1
<1>4. AsksFairly(study) /\ study.pairs \subseteq Arms \X Arms
  BY <1>2, StudyFacts DEF SoundStudy, Shaped, Arms
<1>5. /\ \A i \in Arms : \A f \in Facts : /\ got[i].measured[f] = Honest(i)[f]
                                          /\ got[i].diagnosed[f] = Honest(i)[f]
      /\ \A f \in Facts : Natural[f] = Honest(1)[f]
      /\ Ran = Arms
  BY <1>2, <1>3, HonestResults DEF Ran
<1>6. Base \in Arms
  <2>1. \A j \in Ran : 1 <= j
    BY <1>1, <1>5
  <2> QED
    BY <1>3, <1>5, <2>1 DEF Base
<1>7. ASSUME NEW i \in Arms, NEW f \in study.demanded PROVE AsAsked(i, got[i].measured, f)
  <2>1. f \in {"options", "error", "shows"} /\ (f = "error" => study.arms[i].exact)
    BY <1>4, <1>7 DEF AsksFairly, Arms
  <2> QED
    BY <1>5, <2>1, HonestAsked
<1>8. ASSUME NEW i \in Arms, NEW f \in study.matched
      PROVE  got[i].measured[f] = got[Base].measured[f]
  <2>1. f \in {"place", "tokens", "routes"}
    BY <1>4 DEF AsksFairly
  <2>2. f = "tokens" => Even(study, i, Base)
    BY <1>4, <1>6, <1>8 DEF AsksFairly, Arms, Even
  <2>3. Honest(i)[f] = Honest(Base)[f] /\ f \in Facts
    BY <2>1, <2>2, HonestEven DEF Facts
  <2> QED
    BY <1>5, <1>6, <2>3
<1>9. ASSUME NEW i \in Arms, study.arms[i].exact, NEW f \in study.exactly
      PROVE  got[i].diagnosed[f] = Natural[f]
  <2>1. f \in {"tokens", "error"} /\ study.arms[1].exact
    BY <1>4 DEF AsksFairly
  <2>2. Honest(i)[f] = Honest(1)[f] /\ f \in Facts
    BY <1>9, <2>1 DEF Honest, Facts
  <2> QED
    BY <1>5, <2>2
<1>10. ASSUME NEW pair \in study.pairs, NEW f \in study.paired
       PROVE  got[pair[1]].measured[f] = got[pair[2]].measured[f]
  <2>1. pair[1] \in Arms /\ pair[2] \in Arms
    BY <1>4
  <2>2. f \in {"tokens", "routes", "error", "place"} /\ Even(study, pair[1], pair[2])
    BY <1>4 DEF AsksFairly
  <2>3. Honest(pair[1])[f] = Honest(pair[2])[f] /\ f \in Facts
    BY <2>2, HonestEven DEF Facts
  <2> QED
    BY <1>5, <2>1, <2>3
<1> QED
  BY <1>3, <1>5, <1>7, <1>8, <1>9, <1>10 DEF GatesPass

-----------------------------------------------------------------------------
(* The steps of a run                                                      *)

\* The seed runs, or the run of the natural target.
LEMMA PrologueInv ==
  ASSUME ToolInv, Prologue
  PROVE  ToolInv'
<1>1. /\ Positioned /\ Results /\ Written /\ Stored /\ Summarised /\ HonestRunIsPublished
      /\ phase = "prologue" /\ at = 1 /\ step = 1 /\ got = <<>> /\ study \in Studies
      /\ run \in Nat
  BY DEF ToolInv, Prologue, Positioned
<1>2. CASE Refuse
  <2>1. trouble # Nothing
    BY <1>1, <1>2, HonestReports DEF Prologue, Refuse
  <2> QED
    BY <1>2, <2>1, StopInv DEF Refuse
<1>3. CASE /\ phase' = "arms"
           /\ UNCHANGED <<study, run, trouble, missing, at, step, got, disk, summary>>
  <2>1. 1 \in Arms /\ 1 \in 1..Len(This.steps) /\ This'.steps = This.steps
    <3>1. 1 \in Arms /\ This.steps \in Orders
      BY <1>1, StudyFacts DEF This
    <3> QED
      BY <1>3, <3>1, OrderFacts DEF This
  <2>2. Positioned'
    BY <1>1, <1>3, <2>1, TroublesSteady DEF Positioned, Running, Ended, Nothing
  <2>3. Results' /\ Written'
    BY <1>1, <1>3 DEF Results, Written
  <2>4. Stored' /\ Summarised' /\ (Ended => GatesPass)' /\ HonestRunIsPublished'
    BY <1>1, <1>3, StoredSteady DEF Summarised, Ended, HonestRunIsPublished
  <2> QED
    BY <2>2, <2>3, <2>4 DEF ToolInv
<1> QED
  BY <1>2, <1>3 DEF Prologue

\* The check of an arm: it is passed, or the run is refused.
LEMMA CheckInv ==
  ASSUME ToolInv, Check
  PROVE  ToolInv'
<1>1. /\ Positioned /\ Results /\ Written /\ Stored /\ Summarised /\ HonestRunIsPublished
      /\ Doing("check") /\ phase = "arms" /\ run \in Nat
  BY DEF ToolInv, Check, Positioned, Doing
<1>2. CASE Refuse
  <2>1. CASE ArmPasses(at)
    BY <1>1, <1>2, <2>1 DEF Check, Refuse
  <2>2. CASE ~ArmPasses(at)
    <3>1. trouble # Nothing \/ missing # {}
      BY <1>1, <2>2, HonestArmPasses
    <3> QED
      BY <1>2, <3>1, StopInv DEF Refuse
  <2> QED
    BY <2>1, <2>2
<1>3. CASE /\ ArmPasses(at) /\ Next1
           /\ UNCHANGED <<study, phase, run, trouble, missing, got, disk, summary>>
  <2>1. Positioned' /\ Results'
    BY <1>1, <1>3, ResultsSteady
  <2>2. Written'
    <3>1. /\ study \in Studies /\ at \in Arms /\ at \in Nat /\ step \in Nat
          /\ step \in 1..Len(This.steps) /\ This.steps \in Orders
          /\ got = [i \in 1..at |-> got[i]] /\ This.steps[step] = "check"
      BY <1>1, BehindBench DEF Doing
    <3>2. ASSUME NEW i \in 1..at
          PROVE  /\ Done(i, "json")' => Done(i, "json")
                 /\ Does(study, i, "csv") /\ Done(i, "csv")' => Done(i, "csv")
      <4>1. Does(study, i, "json")
        <5>1. study.arms[i].steps \in Orders
          BY <3>1, StudyFacts
        <5> QED
          BY <5>1, OrderFacts DEF Does
      <4> QED
        BY <1>3, <3>1, <4>1, DoneNext
    <3> QED
      BY <1>1, <1>3, <3>1, <3>2 DEF Written, Running, Does
  <2>3. Stored' /\ Summarised' /\ (Ended => GatesPass)' /\ HonestRunIsPublished'
    BY <1>1, <1>3, StoredSteady DEF Summarised, Ended, HonestRunIsPublished
  <2> QED
    BY <2>1, <2>2, <2>3 DEF ToolInv
<1> QED
  BY <1>2, <1>3 DEF Check

\* What the gates have let pass they let pass until the end.
LEMMA GatesSteady ==
  ASSUME study' = study, trouble' = trouble, got' = got, GatesPass
  PROVE  GatesPass'
<1>1. Ran' = Ran /\ Arms' = Arms
  BY DEF Ran, Arms
<1>2. Base' = Base
  BY <1>1 DEF Base
<1>3. /\ Natural' = Natural
      /\ \A i : Late(i)' = Late(i)
      /\ \A i, m, f : AsAsked(i, m, f)' = AsAsked(i, m, f)
  BY ReportsSteady DEF Natural, Late, AsAsked
<1> QED
  BY <1>1, <1>2, <1>3 DEF GatesPass

\* The gates over all arms: they are passed, or the run is refused.
LEMMA JudgeInv ==
  ASSUME ToolInv, Judge
  PROVE  ToolInv'
<1>1. /\ Positioned /\ Results /\ Written /\ Stored /\ Summarised /\ HonestRunIsPublished
      /\ phase = "arms" /\ at \notin Arms /\ at - 1 \in Arms /\ at \in Nat /\ run \in Nat
      /\ study \in Studies
  BY DEF ToolInv, Judge, Positioned
<1>2. CASE Refuse
  <2>1. trouble # Nothing \/ missing # {}
    BY <1>1, <1>2, HonestGatesPass DEF Judge, Refuse
  <2> QED
    BY <1>2, <2>1, StopInv DEF Refuse
<1>3. CASE /\ GatesPass /\ phase' = "publish" /\ step' = 1
           /\ UNCHANGED <<study, run, trouble, missing, at, got, disk, summary>>
  <2>1. 1 \in 1..Len(study.writes)
    BY <1>1, StudyFacts, EndingFacts
  <2>2. Positioned'
    BY <1>1, <1>3, <2>1, TroublesSteady DEF Positioned, Running, Ended, Nothing
  <2>3. PICK n \in Nat \ {0} : Arms = 1..n
    BY <1>1, StudyFacts
  <2>4. got = [i \in 1..(at - 1) |-> got[i]]
    BY <1>1 DEF Positioned, Running
  <2>5. \A i \in DOMAIN got : \A what : Done(i, what)
    BY <1>1, <2>4 DEF Done
  <2>6. \A i \in DOMAIN got : ~got[i].skipped => Sampled(i)'
    BY <1>1, <1>3, <2>5, SampledSteady DEF Results, Running
  <2>7. Results' /\ Written'
    BY <1>1, <1>3, <2>5, <2>6 DEF Results, Written, Running, Does
  <2>8. GatesPass'
    BY <1>3, GatesSteady
  <2>9. Stored' /\ Summarised' /\ HonestRunIsPublished'
    BY <1>1, <1>3, StoredSteady DEF Summarised, HonestRunIsPublished
  <2> QED
    BY <2>2, <2>7, <2>8, <2>9 DEF ToolInv
<1> QED
  BY <1>2, <1>3 DEF Judge

\* An arm is skipped, with a note in its directory.
LEMMA SkipArmInv ==
  ASSUME ToolInv, SkipArm
  PROVE  ToolInv'
<1>1. /\ Positioned /\ Results /\ Written /\ Stored /\ Summarised /\ HonestRunIsPublished
      /\ Doing("bench") /\ phase = "arms" /\ Unavailable /\ study.skips
      /\ got' = Append(got, Skipped) /\ disk' = [disk EXCEPT !.skipped[at] = run]
      /\ at' = at + 1 /\ step' = 1
      /\ UNCHANGED <<study, phase, run, trouble, missing, summary>>
  BY DEF ToolInv, SkipArm, Doing
<1>2. /\ study \in Studies /\ at \in Arms /\ at \in Nat /\ at >= 1 /\ step = 1 /\ run \in Nat
      /\ This.steps \in Orders /\ got = [i \in 1..(at - 1) |-> got[i]]
  BY <1>1, AtBench
<1>3. PICK n \in Nat \ {0} : Arms = 1..n
  BY <1>2, StudyFacts
<1>4. /\ got' = [i \in 1..at |-> got'[i]] /\ got'[at] = Skipped
      /\ \A i \in 1..(at - 1) : got'[i] = got[i]
  <2>1. at - 1 \in Nat /\ (at - 1) + 1 = at
    BY <1>2
  <2> QED
    BY <1>1, <1>2, <2>1, AppendedOne
<1>5. Skipped.skipped = TRUE
  BY DEF Skipped
<1>6. trouble # Nothing \/ missing # {}
  BY <1>1, HonestReports DEF Unavailable
<1>7. Positioned'
  <2>1. at' \in Nat /\ at' - 1 = at /\ (at' \in Arms => 1 \in 1..Len(This'.steps))
    <3>1. at' \in Arms => This'.steps \in Orders
      BY <1>1, <1>2, StudyFacts DEF This
    <3> QED
      BY <1>1, <1>2, <3>1, OrderFacts
  <2>2. trouble \in {Nothing} \cup Troubles
    BY <1>1 DEF Positioned
  <2> QED
    BY <1>1, <1>2, <1>3, <1>4, <2>1, <2>2, TroublesSteady DEF Positioned, Running, Ended, Nothing
<1>8. Results'
  <2>1. ASSUME NEW i \in 1..at, ~got'[i].skipped PROVE Sampled(i)'
    <3>1. i \in 1..(at - 1) /\ 1 \in 1..(at - 1) /\ i < at
      BY <1>2, <1>4, <1>5, <2>1
    <3>2. got'[i] = got[i] /\ got'[1] = got[1] /\ Sampled(i)
      BY <1>1, <1>2, <1>4, <2>1, <3>1 DEF Results, Running
    <3>3. \A what : Done(i, what)
      BY <3>1 DEF Done
    <3> QED
      BY <1>1, <3>2, <3>3, SampledSteady
  <2>2. ASSUME NEW i \in 1..at
        PROVE  /\ got'[i].skipped \in BOOLEAN
               /\ ~got'[i].skipped =>
                     {"measured", "diagnosed", "skipped"} \subseteq DOMAIN got'[i]
               /\ got'[i].skipped => study.skips /\ (trouble # Nothing \/ missing # {})
    <3>1. CASE i = at
      BY <1>1, <1>4, <1>5, <1>6, <3>1
    <3>2. CASE i # at
      <4>1. i \in 1..(at - 1)
        BY <1>2, <3>2
      <4> QED
        BY <1>1, <1>2, <1>4, <4>1 DEF Results, Running
    <3> QED
      BY <3>1, <3>2
  <2>3. DOMAIN got' = 1..at
    BY <1>4
  <2> QED
    BY <1>1, <2>1, <2>2, <2>3 DEF Results
<1>9. /\ DOMAIN disk' = DOMAIN disk /\ disk'.csv = disk.csv /\ disk'.json = disk.json
      /\ DOMAIN disk'.skipped = Arms /\ disk'.skipped[at] = run
      /\ \A i \in Arms : i # at => disk'.skipped[i] = disk.skipped[i]
  BY <1>1, <1>2 DEF Stored
<1>10. Written'
  <2>1. ASSUME NEW i \in 1..at
        PROVE  IF got'[i].skipped THEN disk'.skipped[i] = run
               ELSE /\ disk'.json[i] = run
                    /\ Does(study, i, "csv") => disk'.csv[i] = run
    <3>1. CASE i = at
      BY <1>4, <1>5, <1>9, <3>1
    <3>2. CASE i # at
      <4>1. i \in 1..(at - 1) /\ i < at /\ i \in Arms
        BY <1>2, <1>3, <3>2
      <4>2. \A what : Done(i, what)
        BY <4>1 DEF Done
      <4> QED
        BY <1>1, <1>2, <1>4, <1>9, <3>2, <4>1, <4>2 DEF Written, Running
    <3> QED
      BY <3>1, <3>2
  <2> QED
    BY <1>1, <1>4, <2>1 DEF Written, Running, Does
<1>11. Stored'
  <2>1. \A kind \in {"json", "csv", "skipped"} :
           /\ DOMAIN disk'[kind] = Arms
           /\ \A i \in Arms : disk'[kind][i] = disk[kind][i] \/ disk'[kind][i] = run
    BY <1>1, <1>9 DEF Stored
  <2> QED
    BY <1>1, <1>2, <1>9, <2>1, StoredGrows DEF Stored
<1>12. Summarised' /\ (Ended => GatesPass)' /\ HonestRunIsPublished'
  BY <1>1 DEF Summarised, Ended, HonestRunIsPublished
<1> QED
  BY <1>7, <1>8, <1>10, <1>11, <1>12 DEF ToolInv

\* A tool that expects no lack of support stops.
LEMMA StopUnavailableInv ==
  ASSUME ToolInv, StopUnavailable
  PROVE  ToolInv'
<1>1. trouble # Nothing \/ missing # {}
  BY HonestReports DEF StopUnavailable, Unavailable
<1> QED
  BY <1>1, StopInv DEF StopUnavailable, Refuse

\* The tool is killed.
LEMMA KillToolInv ==
  ASSUME ToolInv, KillTool
  PROVE  ToolInv'
BY StopInv DEF KillTool

\* The diagnostic run of the tool replaces what the arm is compared by.
LEMMA DiagnoseInv ==
  ASSUME ToolInv, Diagnose
  PROVE  ToolInv'
<1>1. /\ Positioned /\ Results /\ Written /\ Stored /\ Summarised /\ HonestRunIsPublished
      /\ Doing("diagnose") /\ phase = "arms"
  BY DEF ToolInv, Diagnose, Doing
<1>2. CASE Refuse
  <2>1. CASE Wrongly(at, "tool", "failure")
    <3>1. trouble # Nothing
      BY <2>1, HonestReports
    <3> QED
      BY <1>2, <3>1, StopInv DEF Refuse
  <2>2. CASE ~Wrongly(at, "tool", "failure")
    BY <1>1, <1>2, <2>2 DEF Diagnose, Refuse
  <2> QED
    BY <2>1, <2>2
<1>3. CASE /\ got' = [got EXCEPT ![at].diagnosed = Report(at, "tool")] /\ Next1
           /\ UNCHANGED <<study, phase, run, trouble, missing, disk, summary>>
  <2>1. /\ study \in Studies /\ at \in Arms /\ at \in Nat /\ at >= 1 /\ step \in Nat /\ step > 1
        /\ step \in 1..Len(This.steps) /\ This.steps \in Orders /\ run \in Nat
        /\ got = [i \in 1..at |-> got[i]] /\ ~got[at].skipped /\ This.steps[step] = "diagnose"
    BY <1>1, BehindBench DEF Doing
  <2>2. /\ {"measured", "diagnosed", "skipped"} \subseteq DOMAIN got[at] /\ Sampled(at)
        /\ got[at].skipped = FALSE
    BY <1>1, <2>1 DEF Results, Running
  <2>3. /\ DOMAIN got' = 1..at
        /\ \A i \in 1..at : i # at => got'[i] = got[i]
        /\ got'[at].measured = got[at].measured /\ got'[at].diagnosed = Report(at, "tool")
        /\ got'[at].skipped = got[at].skipped /\ DOMAIN got'[at] = DOMAIN got[at]
    <3>1. DOMAIN got = 1..at /\ at \in 1..at
      BY <2>1
    <3> QED
      BY <1>3, <2>2, <3>1
  <2>4. got' = [i \in 1..at |-> got'[i]]
    BY <1>3, <2>1
  <2>5. Positioned'
    BY <1>1, <1>3, <2>1, <2>2, <2>3, <2>4, NextPositioned
  <2>6. ASSUME NEW i \in 1..at, i # at, ~got[i].skipped PROVE Sampled(i)'
    <3>1. i < at /\ 1 \in 1..at /\ 1 # at
      BY <2>1, <2>6
    <3>2. Sampled(i) /\ got'[i] = got[i] /\ got'[1] = got[1]
      BY <1>1, <2>1, <2>3, <2>6, <3>1 DEF Results, Running
    <3>3. \A what : Done(i, what)
      BY <3>1 DEF Done
    <3> QED
      BY <1>3, <3>2, <3>3, SampledSteady
  <2>7. ASSUME NEW i \in 1..at, i = at PROVE Sampled(i)'
    <3>1. ~(Does(study, i, "check") /\ Done(i, "check")')
      <4>1. Does(study, i, "check") /\ Done(i, "check")' => Done(i, "check")
        BY <1>3, <2>1, DoneNext
      <4>2. ~Done(i, "check")
        <5>1. ASSUME NEW k \in 1..(step - 1) PROVE This.steps[k] # "check"
          <6>1. \A i1, i2 \in 1..Len(This.steps) :
                   This.steps[i1] = "check" /\ This.steps[i2] = "diagnose" => i2 < i1
            BY <2>1, OrderFacts
          <6>2. k \in 1..Len(This.steps) /\ ~(step < k)
            <7>1. Len(This.steps) \in 3..5
              BY <2>1, OrderFacts
            <7> QED
              BY <2>1, <7>1
          <6> QED
            BY <2>1, <6>1, <6>2
        <5> QED
          BY <2>1, <2>7, <5>1 DEF Done, This
      <4> QED
        BY <4>1, <4>2
    <3>2. trouble = Nothing => \A f \in Facts : Report(i, "tool")[f] = Honest(i)[f]
      BY HonestReports
    <3>3. /\ Does(study, i, "check")' = Does(study, i, "check")
          /\ Does(study, i, "diagnose")' = Does(study, i, "diagnose")
      BY <1>3 DEF Does
    <3>4. Sampled(i) /\ got'[i].measured = got[i].measured /\ got'[i].diagnosed = Report(i, "tool")
      BY <2>2, <2>3, <2>7
    <3> QED
      BY <1>3, <3>1, <3>2, <3>3, <3>4, ReportsSteady DEF Sampled
  <2>8. Results'
    <3>1. ASSUME NEW i \in 1..at
          PROVE  /\ got'[i].skipped = got[i].skipped
                 /\ ~got'[i].skipped => Sampled(i)'
                 /\ DOMAIN got'[i] = DOMAIN got[i]
      <4>1. CASE i = at
        BY <2>3, <2>7, <4>1
      <4>2. CASE i # at
        BY <2>3, <2>6, <4>2
      <4> QED
        BY <4>1, <4>2
    <3> QED
      BY <1>1, <1>3, <2>1, <2>3, <3>1 DEF Results, Running
  <2>9. Written'
    <3>1. ASSUME NEW i \in 1..at
          PROVE  /\ got'[i].skipped = got[i].skipped
                 /\ Done(i, "json")' => Done(i, "json")
                 /\ Does(study, i, "csv") /\ Done(i, "csv")' => Done(i, "csv")
      <4>1. Does(study, i, "json")
        <5>1. study.arms[i].steps \in Orders
          BY <2>1, StudyFacts
        <5> QED
          BY <5>1, OrderFacts DEF Does
      <4>2. got'[i].skipped = got[i].skipped
        BY <2>3
      <4> QED
        BY <1>3, <2>1, <4>1, <4>2, DoneNext
    <3> QED
      BY <1>1, <1>3, <2>1, <2>3, <3>1 DEF Written, Running, Does
  <2>10. Stored' /\ Summarised' /\ (Ended => GatesPass)' /\ HonestRunIsPublished'
    BY <1>1, <1>3, <2>1, StoredSteady DEF Summarised, Ended, HonestRunIsPublished
  <2> QED
    BY <2>5, <2>8, <2>9, <2>10 DEF ToolInv
<1> QED
  BY <1>1, <1>2, <1>3 DEF Diagnose

\* What benchmark_once refuses is wrong with the runner.
LEMMA RefusalIsTrouble ==
  ASSUME Positioned, Doing("bench"),
         IF This.backend = "single" THEN ProcessRefuses ELSE BenchmarkRefuses
  PROVE  trouble # Nothing
<1> SUFFICES ASSUME trouble = Nothing PROVE FALSE
  OBVIOUS
<1>1. /\ \A i, process, field : ~Wrongly(i, process, field)
      /\ \A i, process : \A f \in Facts : Report(i, process)[f] = Honest(i)[f]
  BY HonestReports
<1>2. study \in Studies /\ at \in Arms
  BY AtBench
<1>3. ~ProcessRefuses /\ ~ProcessFails
  BY <1>1 DEF ProcessRefuses, ProcessFails
<1>4. BenchmarkRefuses /\ This.backend # "single"
  BY <1>3
<1>5. ~DiagnosisDiffers
  <2>1. This.backend # "cpu" => This.exact
    BY <1>2, <1>4, StudyFacts DEF Shaped, SoundStudy, Arms, This
  <2>2. "tokens" \in Facts
    BY DEF Facts
  <2>3. This.exact => Honest(at).tokens = "natural"
    BY DEF Honest, This
  <2>4. \A process : Report(at, process).tokens = Honest(at).tokens
    BY <1>1, <2>2
  <2> QED
    BY <2>1, <2>3, <2>4 DEF DiagnosisDiffers
<1>6. ~SamplesDiffer
  <2>1. Deterministic \subseteq Facts
    BY DEF Deterministic, Facts
  <2> QED
    BY <1>1, <2>1 DEF SamplesDiffer
<1>7. ~OptionsIgnored /\ ~ProfileDiffers
  <2>1. {"options", "tokens"} \subseteq Facts
    BY DEF Facts
  <2>2. Honest(at).options = "asked"
    BY DEF Honest
  <2>3. \A process : Report(at, process).tokens = Honest(at).tokens
                     /\ Report(at, process).options = Honest(at).options
    BY <1>1, <2>1
  <2> QED
    BY <2>2, <2>3 DEF OptionsIgnored, ProfileDiffers
<1> QED
  BY <1>3, <1>4, <1>5, <1>6, <1>7 DEF BenchmarkRefuses

\* The record of an arm that benchmark_once lets pass.
LEMMA MeasuredFacts ==
  /\ \A f \in Facts \ {"routes", "error"} : Measured[f] = Report(at, "first")[f]
  /\ trouble = Nothing => \A f \in Facts : Measured[f] = Honest(at)[f]
<1>1. /\ DOMAIN Report(at, "first") = Facts /\ DOMAIN Report(at, "own") = Facts
  BY DEF Report, Facts
<1>2. \A f \in Facts : Measured[f] = IF f \in {"routes", "error"} /\ This.backend # "single"
                                     THEN Report(at, "own")[f] ELSE Report(at, "first")[f]
  BY <1>1 DEF Measured, Facts
<1>3. trouble = Nothing => \A process : \A f \in Facts : Report(at, process)[f] = Honest(at)[f]
  BY HonestReports
<1> QED
  BY <1>2, <1>3

\* benchmark_once puts a record behind the results, or refuses.
LEMMA MeasureInv ==
  ASSUME ToolInv, Measure
  PROVE  ToolInv'
<1>1. /\ Positioned /\ Results /\ Written /\ Stored /\ Summarised /\ HonestRunIsPublished
      /\ Doing("bench") /\ phase = "arms"
  BY DEF ToolInv, Measure, Doing
<1>2. CASE Refuse /\ IF This.backend = "single" THEN ProcessRefuses ELSE BenchmarkRefuses
  <2>1. trouble # Nothing
    BY <1>1, <1>2, RefusalIsTrouble
  <2> QED
    BY <1>2, <2>1, StopInv DEF Refuse
<1>3. CASE /\ ~IF This.backend = "single" THEN ProcessRefuses ELSE BenchmarkRefuses
           /\ got' = Append(got, Result(Measured)) /\ Next1
           /\ UNCHANGED <<study, phase, run, trouble, missing, disk, summary>>
  <2>1. /\ study \in Studies /\ at \in Arms /\ at \in Nat /\ at >= 1 /\ step = 1 /\ run \in Nat
        /\ This.steps \in Orders /\ got = [i \in 1..(at - 1) |-> got[i]]
    BY <1>1, AtBench
  <2>2. step \in 1..Len(This.steps) /\ This.steps[1] = "bench" /\ step \in Nat
    BY <2>1, OrderFacts
  <2>3. /\ got' = [i \in 1..at |-> got'[i]] /\ got'[at] = Result(Measured)
        /\ \A i \in 1..(at - 1) : got'[i] = got[i]
    <3>1. at - 1 \in Nat /\ (at - 1) + 1 = at
      BY <2>1
    <3> QED
      BY <1>3, <2>1, <3>1, AppendedOne
  <2>4. /\ got'[at].skipped = FALSE /\ got'[at].measured = Measured
        /\ got'[at].diagnosed = Measured
        /\ DOMAIN got'[at] = {"skipped", "measured", "diagnosed"}
    BY <2>3 DEF Result
  <2>5. Positioned'
    BY <1>1, <1>3, <2>1, <2>2, <2>3, <2>4, NextPositioned
  <2>6. \A i \in 1..(at - 1) : i \in 1..at /\ i < at /\ 1 \in 1..(at - 1)
    BY <2>1
  <2>7. ASSUME NEW i \in 1..at, i = at, NEW what, what # "bench", Does(study, i, what)
        PROVE  ~Done(i, what)'
    <3>1. SUFFICES ASSUME Done(i, what)' PROVE FALSE
      OBVIOUS
    <3>2. Done(i, what) \/ (i = at /\ This.steps[step] = what)
      BY <1>3, <2>1, <2>2, <2>7, <3>1, DoneNext
    <3> QED
      BY <2>1, <2>2, <2>7, <3>2 DEF Done
  <2>8. ASSUME NEW i \in 1..at, i = at PROVE Sampled(i)'
    <3>1. /\ \A f \in {"tokens", "shows"} : Measured[f] = Report(i, "first")[f]
          /\ trouble = Nothing => \A f \in Facts : Measured[f] = Honest(i)[f]
      BY <2>8, MeasuredFacts DEF Facts
    <3>2. study.arms[i].backend # "single" =>
             /\ Report(i, "second").tokens = Report(i, "first").tokens
             /\ KeepsProfile(i) => Report(i, "profile").tokens = Report(i, "first").tokens
             /\ study.arms[i].backend = "cpu" => Report(i, "own").tokens = Report(i, "first").tokens
      <4>1. "tokens" \in Deterministic
        BY DEF Deterministic
      <4> QED
        BY <1>3, <2>8, <4>1 DEF BenchmarkRefuses, SamplesDiffer, ProfileDiffers, DiagnosisDiffers, This
    <3>3. /\ got'[i].measured = Measured /\ got'[i].diagnosed = Measured
      BY <2>4, <2>8
    <3>4. /\ ~(Does(study, i, "check") /\ Done(i, "check")')
          /\ ~(Does(study, i, "diagnose") /\ Done(i, "diagnose")')
      BY <2>7, <2>8
    <3>5. \A what : Does(study, i, what)' = Does(study, i, what)
      BY <1>3 DEF Does
    <3> HIDE DEF Sampled
    <3> QED
      BY <1>3, <3>1, <3>2, <3>3, <3>4, <3>5, ReportsSteady DEF Sampled
  <2>9. Results'
    <3>1. ASSUME NEW i \in 1..at
          PROVE  /\ got'[i].skipped \in BOOLEAN
                 /\ ~got'[i].skipped =>
                       {"measured", "diagnosed", "skipped"} \subseteq DOMAIN got'[i]
                 /\ got'[i].skipped => study.skips /\ (trouble # Nothing \/ missing # {})
                 /\ ~got'[i].skipped => Sampled(i)'
      <4>1. CASE i = at
        BY <2>4, <2>8, <4>1
      <4>2. CASE i # at
        <5>1. i \in 1..(at - 1) /\ 1 \in 1..(at - 1) /\ i < at
          BY <2>1, <4>2
        <5>2. got'[i] = got[i] /\ got'[1] = got[1] /\ (~got[i].skipped => Sampled(i))
          BY <1>1, <2>1, <2>3, <5>1 DEF Results, Running
        <5>3. \A what : Done(i, what)
          BY <5>1 DEF Done
        <5>4. ~got[i].skipped => Sampled(i)'
          BY <1>3, <5>2, <5>3, SampledSteady
        <5> QED
          BY <1>1, <2>1, <5>1, <5>2, <5>4 DEF Results, Running
      <4> QED
        BY <4>1, <4>2
    <3>2. DOMAIN got' = 1..at
      BY <2>3
    <3> QED
      BY <1>1, <1>3, <3>1, <3>2 DEF Results
  <2>10. Written'
    <3>1. ASSUME NEW i \in 1..at
          PROVE  IF got'[i].skipped THEN disk.skipped[i] = run
                 ELSE /\ Done(i, "json")' => disk.json[i] = run
                      /\ Does(study, i, "csv") /\ Done(i, "csv")' => disk.csv[i] = run
      <4>1. Does(study, i, "json")
        <5>1. i \in Arms /\ study.arms[i].steps \in Orders
          BY <2>1, StudyFacts
        <5> QED
          BY <5>1, OrderFacts DEF Does
      <4>2. CASE i = at
        BY <2>4, <2>7, <4>1, <4>2
      <4>3. CASE i # at
        <5>1. i \in 1..(at - 1) /\ i < at
          BY <2>1, <4>3
        <5>2. \A what : Done(i, what)
          BY <5>1 DEF Done
        <5> QED
          BY <1>1, <2>1, <2>3, <5>1, <5>2 DEF Written, Running
      <4> QED
        BY <4>2, <4>3
    <3>2. DOMAIN got' = 1..at
      BY <2>3
    <3> QED
      BY <1>1, <1>3, <3>1, <3>2 DEF Written, Running, Does
  <2>11. Stored' /\ Summarised' /\ (Ended => GatesPass)' /\ HonestRunIsPublished'
    BY <1>1, <1>3, <2>1, StoredSteady DEF Summarised, Ended, HonestRunIsPublished
  <2> QED
    BY <2>5, <2>9, <2>10, <2>11 DEF ToolInv
<1> QED
  BY <1>1, <1>2, <1>3 DEF Measure

\* When all arms have gone, there is a result and there are files of each of them.
LEMMA AllArmsDone ==
  ASSUME Positioned, Running, at \notin Arms
  PROVE  /\ study \in Studies /\ run \in Nat /\ DOMAIN got = Arms /\ 1 \in Arms
         /\ \A i \in Arms : \A what : Done(i, what)
<1>1. study \in Studies /\ at \in Nat /\ at - 1 \in Arms /\ run \in Nat
  <2>1. phase # "prologue"
    <3>1. 1 \in Arms
      BY StudyFacts DEF Positioned
    <3> QED
      BY <3>1 DEF Positioned
  <2> QED
    BY <2>1 DEF Positioned, Running, Ended
<1>2. PICK n \in Nat \ {0} : Arms = 1..n
  BY <1>1, StudyFacts
<1>3. at - 1 = n
  BY <1>1, <1>2
<1>4. got = [i \in 1..(at - 1) |-> got[i]]
  BY DEF Positioned
<1> QED
  BY <1>1, <1>2, <1>3, <1>4 DEF Done

\* A file of the summary: only after the gates, when the files of all arms are there.
LEMMA WriteSummaryInv ==
  ASSUME ToolInv, WriteSummary
  PROVE  ToolInv'
<1>1. /\ Positioned /\ Results /\ Written /\ Stored /\ Summarised /\ GatesPass
      /\ phase = "publish" /\ Running /\ Ended /\ at \notin Arms
      /\ UNCHANGED <<study, run, trouble, missing, at, got, disk>>
  BY DEF ToolInv, WriteSummary, Positioned, Running, Ended
<1>2. /\ study \in Studies /\ run \in Nat /\ DOMAIN got = Arms /\ 1 \in Arms
      /\ \A i \in Arms : \A what : Done(i, what)
  BY <1>1, AllArmsDone
<1>3. /\ Len(study.writes) \in 1..2 /\ step \in 1..Len(study.writes) /\ step \in Nat
      /\ \E k \in 1..Len(study.writes) : study.writes[k] = "summary.json"
  BY <1>1, <1>2, StudyFacts, EndingFacts DEF Positioned
<1>4. \/ step < Len(study.writes) /\ step' = step + 1 /\ phase' = "publish"
      \/ step = Len(study.writes) /\ step' = step /\ phase' = "done"
  BY <1>1, <1>3 DEF WriteSummary
<1>5. Positioned'
  <2>1. step' \in 1..Len(study.writes) /\ step' \in Nat
    BY <1>3, <1>4
  <2>2. trouble' \in {Nothing} \cup Troubles'
    BY <1>1, TroublesSteady DEF Positioned, Nothing
  <2>3. /\ at' \notin Arms' /\ (at - 1 \in Arms)' /\ Nothing' = Nothing
        /\ got' = [i \in 1..(at' - 1) |-> got'[i]]
    BY <1>1, TroublesSteady DEF Positioned, Running, Nothing
  <2>4. phase' \in {"publish", "done"} /\ study' \in Studies /\ run' \in Nat /\ at' \in Nat
    BY <1>1, <1>2, <1>4 DEF Positioned
  <2> QED
    BY <1>1, <2>1, <2>2, <2>3, <2>4 DEF Positioned, Running, Ended, Nothing
<1>6. Results' /\ Written'
  <2>1. \A i \in Arms : ~got[i].skipped => Sampled(i)'
    BY <1>1, <1>2, SampledSteady DEF Results
  <2> QED
    BY <1>1, <1>2, <2>1 DEF Results, Written, Does
<1>7. /\ DOMAIN summary' = DOMAIN summary
      /\ study.writes[step] = "summary.json" => summary'.json = run /\ summary'.arms = got
      /\ study.writes[step] # "summary.json" =>
            summary'.json = summary.json /\ summary'.arms = summary.arms
  BY <1>1 DEF WriteSummary, Stored
<1>8. Stored'
  <2>1. CASE study.writes[step] = "summary.json"
    <3>1. \A i \in Arms : IF got[i].skipped THEN disk.skipped[i] = run
                          ELSE /\ disk.json[i] = run
                               /\ Does(study, i, "csv") => disk.csv[i] = run
      BY <1>1, <1>2 DEF Written
    <3> QED
      BY <1>1, <1>2, <1>7, <2>1, <3>1, TroublesSteady DEF Stored, Does
  <2>2. CASE study.writes[step] # "summary.json"
    BY <1>1, <1>2, <1>7, <2>2, TroublesSteady DEF Stored, Does
  <2> QED
    BY <2>1, <2>2
<1>9. Summarised'
  <2>1. ASSUME NEW k \in 1..step, study.writes[k] = "summary.json"
        PROVE  summary'.json = run /\ summary'.arms = got
    <3>1. CASE k = step
      BY <1>7, <2>1, <3>1
    <3>2. CASE k # step
      <4>1. k \in 1..(step - 1)
        BY <1>3, <3>2
      <4> QED
        BY <1>1, <1>7, <2>1, <4>1 DEF Summarised
    <3> QED
      BY <3>1, <3>2
  <2>2. CASE step < Len(study.writes) /\ step' = step + 1 /\ phase' = "publish"
    <3>1. \A k \in 1..(step' - 1) : k \in 1..step
      BY <1>3, <2>2
    <3> QED
      BY <1>1, <2>1, <2>2, <3>1 DEF Summarised
  <2>3. CASE step = Len(study.writes) /\ step' = step /\ phase' = "done"
    BY <1>1, <1>3, <2>1, <2>3 DEF Summarised
  <2> QED
    BY <1>4, <2>2, <2>3
<1>10. (Ended => GatesPass)' /\ HonestRunIsPublished'
  BY <1>1, <1>4, GatesSteady DEF HonestRunIsPublished
<1> QED
  BY <1>5, <1>6, <1>8, <1>9, <1>10 DEF ToolInv

\* Nothing has been run.
LEMMA ToolStart ==
  ASSUME ToolInit
  PROVE  ToolInv
<1>1. Positioned
  BY DEF ToolInit, Positioned, Running, Ended
<1>2. Results /\ Written /\ Summarised /\ (Ended => GatesPass) /\ HonestRunIsPublished
  BY DEF ToolInit, Results, Written, Running, Summarised, Ended, HonestRunIsPublished
<1>3. Stored
  BY DEF ToolInit, Stored, NoFiles, NoSummary
<1> QED
  BY <1>1, <1>2, <1>3 DEF ToolInv

\* Nothing happens.
LEMMA ToolIdle ==
  ASSUME ToolInv, UNCHANGED toolVars
  PROVE  ToolInv'
<1>1. /\ UNCHANGED <<study, phase, run, trouble, missing, at, step, got, disk, summary>>
      /\ Positioned /\ Results /\ Written /\ Stored /\ Summarised /\ HonestRunIsPublished
      /\ Ended => GatesPass
  BY DEF ToolInv, toolVars
<1>2. /\ Arms' = Arms /\ Troubles' = Troubles /\ Nothing' = Nothing /\ Ended' = Ended
      /\ Running' = Running /\ This' = This
      /\ \A i, what : Done(i, what)' = Done(i, what) /\ Does(study, i, what)' = Does(study, i, what)
  BY <1>1, TroublesSteady DEF Nothing, Ended, Running, This, Done, Does
<1>3. Positioned'
  BY <1>1, <1>2 DEF Positioned
<1>4. Results'
  <2>1. \A i : Sampled(i) => Sampled(i)'
    BY <1>1, <1>2, SampledSteady
  <2> QED
    BY <1>1, <1>2, <2>1 DEF Results
<1>5. Written' /\ Stored' /\ Summarised' /\ HonestRunIsPublished'
  BY <1>1, <1>2 DEF Written, Stored, Summarised, HonestRunIsPublished
<1>6. (Ended => GatesPass)'
  BY <1>1, <1>2, GatesSteady
<1> QED
  BY <1>3, <1>4, <1>5, <1>6 DEF ToolInv

\* ToolInv is an invariant of every run of every tool, however often it is
\* run in one directory.
THEOREM ToolInvariant == ToolSpec => []ToolInv
<1>1. ToolInit => ToolInv
  BY ToolStart
<1>2. ToolInv /\ [ToolNext]_toolVars => ToolInv'
  <2> SUFFICES ASSUME ToolInv, [ToolNext]_toolVars PROVE ToolInv'
    OBVIOUS
  <2>1. CASE Start
    BY <2>1, StartInv
  <2>2. CASE Prologue
    BY <2>2, PrologueInv
  <2>3. CASE Measure
    BY <2>3, MeasureInv
  <2>4. CASE SkipArm
    BY <2>4, SkipArmInv
  <2>5. CASE StopUnavailable
    BY <2>5, StopUnavailableInv
  <2>6. CASE WriteJson
    BY <2>6, WriteJsonInv
  <2>7. CASE WriteCsv
    BY <2>7, WriteCsvInv
  <2>8. CASE Diagnose
    BY <2>8, DiagnoseInv
  <2>9. CASE Check
    BY <2>9, CheckInv
  <2>10. CASE Judge
    BY <2>10, JudgeInv
  <2>11. CASE WriteSummary
    BY <2>11, WriteSummaryInv
  <2>12. CASE KillTool
    BY <2>12, KillToolInv
  <2>13. CASE UNCHANGED toolVars
    BY <2>13, ToolIdle
  <2> QED
    BY <2>1, <2>2, <2>3, <2>4, <2>5, <2>6, <2>7, <2>8, <2>9, <2>10, <2>11, <2>12, <2>13
       DEF ToolNext
<1> QED
  BY <1>1, <1>2, PTL DEF ToolSpec

-----------------------------------------------------------------------------
(* The properties of the tools                                             *)

\* No tool refuses a runner that does what it is asked, on a machine that
\* supports every arm (the checks of the tools and benchmark_once).
THEOREM HonestRunIsPublishedCorrect == ToolSpec => []HonestRunIsPublished
<1>1. ToolInv => HonestRunIsPublished
  BY DEF ToolInv
<1> QED
  BY <1>1, ToolInvariant, PTL

\* A summary that can be read is never older than the arm files it names, and
\* is of the last run if that ended well (the order of the writes of the tools).
THEOREM SummaryNamesItsFilesCorrect == ToolSpec => []SummaryNamesItsFiles
<1>1. ToolInv => SummaryNamesItsFiles
  BY DEF ToolInv, Summarised, Stored, SummaryNamesItsFiles, Does
<1> QED
  BY <1>1, ToolInvariant, PTL

\* Published
LEMMA DonePublished ==
  ASSUME ToolInv, phase = "done"
  PROVE  /\ study \in Studies /\ DOMAIN got = Arms /\ 1 \in Arms /\ GatesPass
         /\ summary.json = run /\ summary.arms = got
         /\ \A i \in Ran : /\ i \in Arms /\ ~got[i].skipped /\ Sampled(i)
                           /\ Does(study, i, "check") => ArmPasses(i)
                           /\ Does(study, i, "diagnose") =>
                                 ArmPasses(i) /\ got[i].diagnosed = Report(i, "tool")
<1>1. Positioned /\ Results /\ Running /\ at \notin Arms /\ GatesPass /\ Summarised
  BY DEF ToolInv, Positioned, Running, Ended
<1>2. /\ study \in Studies /\ DOMAIN got = Arms /\ 1 \in Arms
      /\ \A i \in Arms : \A what : Done(i, what)
  BY <1>1, AllArmsDone
<1>3. ASSUME NEW i \in Ran
      PROVE  /\ i \in Arms /\ ~got[i].skipped /\ Sampled(i)
             /\ Does(study, i, "diagnose") => Does(study, i, "check")
  <2>1. i \in Arms /\ ~got[i].skipped
    BY <1>2 DEF Ran
  <2>2. study.arms[i].steps \in Orders
    BY <1>2, <2>1, StudyFacts
  <2> QED
    BY <1>1, <1>2, <2>1, <2>2, OrderFacts DEF Results, Does
<1> QED
  BY <1>1, <1>2, <1>3 DEF Sampled, Summarised

\* An arm whose processes all ran the first arm's variant is not published as
\* its own (the counters that the tools demand of their reports).
THEOREM IgnoredOptionIsRefusedCorrect == ToolSpec => []IgnoredOptionIsRefused
<1>1. ASSUME ToolInv PROVE IgnoredOptionIsRefused
  <2> DEFINE i == trouble.arm
  <2>1. SUFFICES ASSUME phase = "done", trouble.what = "shows", trouble.who = Processes(i),
                        study.name # "cuda-residency", i \in Ran, study.arms[i].shown,
                        study.arms[i].ran # study.arms[1].ran
                 PROVE  FALSE
    BY DEF IgnoredOptionIsRefused
  <2> HIDE DEF i
  <2>2. /\ study \in Studies /\ i \in Arms /\ ~got[i].skipped /\ GatesPass /\ Sampled(i)
        /\ Does(study, i, "check") => ArmPasses(i)
        /\ Does(study, i, "diagnose") => ArmPasses(i) /\ got[i].diagnosed = Report(i, "tool")
    BY <1>1, <2>1, DonePublished
  <2>3. \A process \in Processes(i) : Report(i, process).shows # study.arms[i].ran
    BY <2>1 DEF Report, Wrongly, i
  <2>4. /\ "first" \in Processes(i)
        /\ Does(study, i, "diagnose") /\ study.arms[i].backend # "single" =>
              "tool" \in Processes(i)
    BY DEF Processes, Does
  <2>5. ~AsAsked(i, got[i].measured, "shows")
    <3>1. got[i].measured["shows"] = Report(i, "first")["shows"]
      BY <2>2 DEF Sampled
    <3> QED
      BY <2>1, <2>3, <2>4, <3>1 DEF AsAsked
  <2>6. TellsVariants(study)
    BY <2>2, StudyFacts DEF SoundStudy
  <2>7. CASE "shows" \in study.checked /\ Does(study, i, "check")
    BY <2>2, <2>5, <2>7 DEF ArmPasses
  <2>8. CASE "shows" \in study.demanded /\ (Does(study, i, "diagnose") => ~study.baseline)
    BY <2>1, <2>2, <2>5, <2>8 DEF GatesPass, Late, Does
  <2>9. CASE "shows" \in study.diagnosed /\ Does(study, i, "diagnose")
             /\ study.arms[i].backend # "single"
    <3>1. AsAsked(i, got[i].diagnosed, "shows")
      BY <2>2, <2>9 DEF ArmPasses, DiagnosisAgrees, Does
    <3> QED
      BY <2>1, <2>2, <2>3, <2>4, <2>9, <3>1 DEF AsAsked
  <2> QED
    BY <2>1, <2>2, <2>6, <2>7, <2>8, <2>9 DEF TellsVariants, Arms
<1> QED
  BY <1>1, ToolInvariant, PTL

\* The processes that have wrong tokens.
LEMMA WrongProcesses ==
  ASSUME trouble = Nothing \/ trouble \in Troubles, trouble.what = "tokens"
  PROVE  trouble.who \in Whose(trouble.arm)
<1>1. trouble # Nothing
  BY DEF Nothing
<1>2. \/ \E i \in Arms :
           trouble \in [arm : {i}, who : Whose(i), what : Fields \cup {"failure"}]
      \/ trouble \in [arm : Arms, who : {{"first"}}, what : {"unavailable"}]
      \/ trouble = [arm |-> 0, who |-> {"tool"}, what |-> "failure"]
  <2> DEFINE Failing(i) == [arm : {i}, who : Whose(i), what : Fields \cup {"failure"}]
             Unsupported == [arm : Arms, who : {{"first"}}, what : {"unavailable"}]
             Unseeded == [arm |-> 0, who |-> {"tool"}, what |-> "failure"]
  <2>1. trouble \in (UNION {Failing(i) : i \in Arms}) \cup Unsupported
                   \cup (IF study.seeds THEN {Unseeded} ELSE {})
    BY <1>1 DEF Troubles, Arms
  <2> HIDE DEF Failing, Unsupported, Unseeded
  <2>2. (\E i \in Arms : trouble \in Failing(i)) \/ trouble \in Unsupported \/ trouble = Unseeded
    <3>1. trouble \in UNION {Failing(i) : i \in Arms} \/ trouble \in Unsupported
          \/ trouble = Unseeded
      BY <2>1
    <3>2. ASSUME trouble \in UNION {Failing(i) : i \in Arms}
          PROVE  \E i \in Arms : trouble \in Failing(i)
      <4>1. PICK kind \in {Failing(i) : i \in Arms} : trouble \in kind
        BY <3>2
      <4> QED
        BY <4>1
    <3> QED
      BY <3>1, <3>2
  <2> QED
    BY <2>2 DEF Failing, Unsupported, Unseeded
<1>3. CASE trouble \in [arm : Arms, who : {{"first"}}, what : {"unavailable"}]
  BY <1>3
<1>4. CASE trouble = [arm |-> 0, who |-> {"tool"}, what |-> "failure"]
  BY <1>4
<1>5. CASE \E i \in Arms :
             trouble \in [arm : {i}, who : Whose(i), what : Fields \cup {"failure"}]
  BY <1>5
<1> QED
  BY <1>2, <1>3, <1>4, <1>5

\* When the tokens of an arm's record are wrong and no comparison of
\* benchmark_once shows it, those of the tool's own diagnostic run are wrong.
LEMMA WrongTogether ==
  ASSUME trouble = Nothing \/ trouble \in Troubles, NEW i, Sampled(i),
         study.arms[i].backend = "cpu", Does(study, i, "diagnose"),
         trouble.who # {"first", "second", "own"}, Wrongly(i, "first", "tokens")
  PROVE  Wrongly(i, "tool", "tokens")
<1>1. \A process : (Report(i, process).tokens = "other") <=> Wrongly(i, process, "tokens")
  BY DEF Report
<1>2. Wrongly(i, "second", "tokens") /\ Wrongly(i, "own", "tokens")
  BY <1>1 DEF Sampled
<1>3. /\ trouble.arm = i /\ trouble.what = "tokens" /\ {"first", "second", "own"} \subseteq trouble.who
      /\ trouble.who \in Whose(i)
  BY <1>2, WrongProcesses DEF Wrongly
<1>4. "tool" \in Processes(i)
  BY DEF Processes, Does
<1>5. trouble.who = Processes(i)
  BY <1>3 DEF Whose
<1> QED
  BY <1>3, <1>4, <1>5 DEF Wrongly

\* Exact arms of one published summary have the same tokens, whichever process
\* was wrong, for the tools that compare them.
THEOREM PublishedArmsAgreeCorrect == ToolSpec => []PublishedArmsAgree
<1>1. ASSUME ToolInv PROVE PublishedArmsAgree
  <2>1. SUFFICES ASSUME phase = "done", Compares,
                        NEW i \in Ran, NEW j \in Ran, i # j,
                        study.arms[i].exact, study.arms[j].exact
                 PROVE  got[i].measured.tokens = got[j].measured.tokens
    BY <1>1, DonePublished DEF PublishedArmsAgree, Ran
  <2>2. /\ study \in Studies /\ GatesPass
        /\ \A k \in {i, j} : /\ k \in Arms /\ ~got[k].skipped /\ Sampled(k)
                             /\ Does(study, k, "check") => ArmPasses(k)
                             /\ Does(study, k, "diagnose") =>
                                   ArmPasses(k) /\ got[k].diagnosed = Report(k, "tool")
    BY <1>1, <2>1, DonePublished
  <2>3. TellsTokens(study) /\ study.name \notin Blind
    BY <2>1, <2>2, StudyFacts DEF SoundStudy, Compares, Blind
  <2>4. CASE "tokens" \in study.matched
    <3>1. /\ got[i].measured["tokens"] = got[Base].measured["tokens"]
          /\ got[j].measured["tokens"] = got[Base].measured["tokens"]
      BY <2>2, <2>4 DEF GatesPass
    <3> QED
      BY <3>1
  <2>5. CASE "tokens" \in study.based /\ \A k \in Arms : Does(study, k, "check")
    <3>1. \A k \in {i, j} : got[k].measured["tokens"] =
             IF study.baseline THEN Natural["tokens"] ELSE got[1].measured["tokens"]
      BY <2>2, <2>5 DEF ArmPasses
    <3> QED
      BY <3>1
  <2>6. CASE /\ study.name \in ByDiagnosis /\ "tokens" \in study.diagnosed \cup study.exactly
             /\ \A k \in Arms : Does(study, k, "diagnose") /\ study.arms[k].backend = "cpu"
    <3>1. Report(i, "tool").tokens = Report(j, "tool").tokens
      <4>1. CASE "tokens" \in study.diagnosed
        <5>1. \A k \in {i, j} : DiagnosisAgrees(k, "tokens")
          BY <2>2, <2>6, <4>1 DEF ArmPasses, Does
        <5>2. \A k \in {i, j} : got[k].diagnosed["tokens"] = Natural["tokens"]
          BY <5>1 DEF DiagnosisAgrees
        <5> QED
          BY <2>2, <2>6, <5>2
      <4>2. CASE "tokens" \in study.exactly
        <5>1. \A k \in {i, j} : got[k].diagnosed["tokens"] = Natural["tokens"]
          BY <2>1, <2>2, <4>2 DEF GatesPass
        <5> QED
          BY <2>2, <2>6, <5>1
      <4> QED
        BY <2>6, <4>1, <4>2
    <3>2. \A k \in {i, j} : Wrongly(k, "first", "tokens") => Wrongly(k, "tool", "tokens")
      <4>1. /\ trouble = Nothing \/ trouble \in Troubles
            /\ trouble.who # {"first", "second", "own"}
        BY <1>1, <2>1, <2>6 DEF ToolInv, Positioned, Compares, ByDiagnosis
      <4> QED
        BY <2>2, <2>6, <4>1, WrongTogether
    <3>3. \A k \in {i, j} : \A process :
             Report(k, process).tokens = IF Wrongly(k, process, "tokens") THEN "other" ELSE "natural"
      BY <2>1 DEF Report
    <3>4. ~Wrongly(i, "tool", "tokens") \/ ~Wrongly(j, "tool", "tokens")
      BY <2>1 DEF Wrongly
    <3>5. ~Wrongly(i, "first", "tokens") /\ ~Wrongly(j, "first", "tokens")
      BY <3>1, <3>2, <3>3, <3>4
    <3>6. \A k \in {i, j} : got[k].measured["tokens"] = Report(k, "first")["tokens"]
      BY <2>2 DEF Sampled
    <3> QED
      BY <3>3, <3>5, <3>6
  <2> QED
    BY <2>3, <2>4, <2>5, <2>6 DEF TellsTokens, Arms
<1> QED
  BY <1>1, ToolInvariant, PTL
=============================================================================
