-------------------------- MODULE PackedExpertCache --------------------------
(***************************************************************************)
(* GLM5XPackedExpertCache: quantised experts kept beside the bundle as one *)
(* sidecar file per expert and precision, in front of which a process has  *)
(* two bounded LRU tiers: payloads in host memory, and their sections in   *)
(* page-locked memory for transfers that do not block.                     *)
(*                                                                         *)
(* A path is an expert in one precision.  One lock guards the tiers; files *)
(* are read without it, and a put holds it while it writes.  Another       *)
(* process may publish sidecars in the directory, a file may be damaged    *)
(* (header, format, extent or checksum: all end as a miss), and the        *)
(* process may be killed at any step.                                      *)
(***************************************************************************)
EXTENDS Naturals, Sequences, FiniteSetsExt, SequencesExt

CONSTANTS
    Threads, Paths, Digests,
    None,            \* no payload, no thread
    Size, MaxSize,   \* bytes of a path's payload, and the largest of them
    HostCapacity,    \* host_cache_capacity_bytes, 0 disables the tier
    PinnedCapacity,  \* pinned_staging_capacity_bytes
    MaxCalls,        \* bound on the calls of a run
    MaxFaults        \* bound on kills, damaged files and foreign sidecars

INSTANCE ExpertBytes WITH Keys <- Paths, Bytes <- Size, MaxBytes <- MaxSize

ASSUME PackedExpertCacheAssumption ==
    /\ IsFiniteSet(Paths) /\ MaxSize \in Nat /\ Size \in [Paths -> 1..MaxSize]
    /\ HostCapacity \in Nat /\ PinnedCapacity \in Nat
    /\ MaxCalls \in Nat /\ MaxFaults \in Nat
    /\ None \notin Threads /\ None \notin [digest : Digests, whole : BOOLEAN]

VARIABLES
    file,      \* the sidecar of each path, or None
    host,      \* _host_payloads and _host_resident_bytes
    pinned,    \* _pinned_payloads and _pinned_resident_bytes
    lock,      \* the thread that holds _lock over several steps, or None
    usage,     \* how this process uses the cache
    call,      \* the call each thread is in
    calls,     \* calls begun so far
    faults     \* faults so far

vars == <<file, host, pinned, lock, usage, call, calls, faults>>

\* A sidecar: the source digest of its metadata, and whether it is sound.
Payload == [digest : Digests, whole : BOOLEAN]

Idle == [pc |-> "idle", path |-> None, asked |-> None, data |-> None,
         staged |-> None, cached |-> FALSE, fresh |-> FALSE, warm |-> FALSE]

----------------------------------------------------------------------------
\* A tier is an OrderedDict under the lock: its payloads, the paths from the
\* oldest to the youngest, and the bytes it counts.

EmptyTier == [held |-> [p \in Paths |-> None], order |-> <<>>, bytes |-> 0]

Has(tier, p) == tier.held[p] # None

Drop(tier, gone, order) ==
    [held  |-> [q \in Paths |-> IF q \in gone THEN None ELSE tier.held[q]],
     order |-> order,
     bytes |-> tier.bytes - Charged({q \in gone : Has(tier, q)})]

\* The entry of p, if there is one, is taken out.
Pop(tier, p) == Drop(tier, {p}, RemoveFirst(tier.order, p))

\* A hit makes the entry the youngest.
Touch(tier, p) == [tier EXCEPT !.order = Append(RemoveFirst(@, p), p)]

\* Entries go, oldest first, until size more bytes fit or none is left.
Oldest(order, n) == {order[i] : i \in 1..n}

Evictions(tier, size, capacity) ==
    Min({n \in 0..Len(tier.order) :
            \/ n = Len(tier.order)
            \/ tier.bytes - Charged(Oldest(tier.order, n)) + size <= capacity})

Evict(tier, size, capacity) ==
    LET n == Evictions(tier, size, capacity)
    IN  Drop(tier, Oldest(tier.order, n), SubSeq(tier.order, n + 1, Len(tier.order)))

InsertInto(tier, p, data, capacity) ==
    LET kept == Evict(tier, Size[p], capacity)
    IN  [held  |-> [kept.held EXCEPT ![p] = data],
         order |-> Append(kept.order, p),
         bytes |-> kept.bytes + Size[p]]

\* Mutant: the entry a path already has is not taken out first.
InsertBeside(tier, p, data, capacity) == InsertInto(tier, p, data, capacity)

Insert(tier, p, data, capacity) == InsertInto(Pop(tier, p), p, data, capacity)

\* _host_put and _pinned_put: what exceeds the whole tier is not kept.
Put(tier, p, data, capacity) ==
    IF Size[p] > capacity THEN tier ELSE Insert(tier, p, data, capacity)

----------------------------------------------------------------------------
\* An instance serves one bundle, whose digests never change; one that does
\* not stage in pinned memory may also be shared by callers of several.
Usages == {u \in [nonBlocking : BOOLEAN, shared : BOOLEAN, bundle : Digests] :
              u.nonBlocking => PinnedCapacity > 0 /\ ~u.shared}

Init ==
    /\ file = [p \in Paths |-> None]
    /\ host = EmptyTier /\ pinned = EmptyTier /\ lock = None
    /\ usage \in Usages
    /\ call = [t \in Threads |-> Idle]
    /\ calls = 0 /\ faults = 0

Goto(t, pc) == [call EXCEPT ![t].pc = pc]

Sound(p, d) == file[p] = [digest |-> d, whole |-> TRUE]

\* Of a get on its way: has its file been sound and as asked all the time?
StillWarm(c, f) ==
    [t \in Threads |-> [c[t] EXCEPT !.warm =
        @ /\ f[c[t].path] = [digest |-> c[t].asked, whole |-> TRUE]]]

Begin(t, pc) ==
    /\ call[t].pc = "idle" /\ calls < MaxCalls /\ calls' = calls + 1
    /\ \E p \in Paths, d \in IF usage.shared THEN Digests ELSE {usage.bundle} :
          call' = [call EXCEPT ![t] = [Idle EXCEPT !.pc = pc, !.path = p, !.asked = d,
                                          !.warm = file[p] = [digest |-> d, whole |-> TRUE]]]
    /\ UNCHANGED <<file, host, pinned, lock, usage, faults>>

\* get(key, source_digest), with the checks of its arguments passed.
Get(t) == Begin(t, "host")

\* put(key, source_digest, expert): the payload is built before the lock.
PutExpert(t) == Begin(t, "write")

\* Mutant: the digest of what was found is not compared.
MatchesAny(payload, digest) == TRUE

Matches(payload, digest) == payload.digest = digest

\* _host_get, then the digest of what it found.
HostGet(t) ==
    LET p == call[t].path IN
    /\ call[t].pc = "host" /\ lock = None
    /\ IF ~Has(host, p)
       THEN call' = Goto(t, "read") /\ UNCHANGED host
       ELSE /\ host' = Touch(host, p)
            /\ call' = IF Matches(host.held[p], call[t].asked)
                       THEN [call EXCEPT ![t].pc = "stage", ![t].cached = TRUE,
                                         ![t].data = host.held[p]]
                       ELSE Goto(t, "miss")
    /\ UNCHANGED <<file, pinned, lock, usage, calls, faults>>

\* Mutant: what was read is cached at once, before its checksums are compared.
KeepOnRead(t) ==
    LET p == call[t].path IN
    /\ call[t].pc = "read" /\ file[p] # None /\ Matches(file[p], call[t].asked)
    /\ call' = [call EXCEPT ![t].pc = "stage", ![t].data = file[p]]
    /\ host' = Put(host, p, file[p], HostCapacity)
    /\ UNCHANGED <<file, pinned, lock, usage, calls, faults>>

\* The sidecar is read without the lock and its metadata is checked.
ReadSidecar(t) ==
    LET p == call[t].path IN
    /\ call[t].pc = "read"
    /\ call' = IF file[p] # None /\ Matches(file[p], call[t].asked)
               THEN [call EXCEPT ![t].pc = "stage", ![t].data = file[p]]
               ELSE Goto(t, "miss")
    /\ UNCHANGED <<file, host, pinned, lock, usage, calls, faults>>

\* _decode_role: extents and checksums of the payload, whatever it came from.
\* The metadata has no checksum: damage to it that still parses and matches
\* is left out, every damage here is one the checks find.
Decodes(t) == call[t].data.whole

\* Mutant: the room that is left counts, though older entries could go.
StageableBesides(p) == pinned.bytes + Size[p] <= PinnedCapacity

Stageable(p) == Size[p] <= PinnedCapacity

\* Decoding takes the bytes from pinned sections when there are any; a payload
\* that does not fit the pinned tier is a miss, though it was read and sound.
Stage(t) ==
    LET p     == call[t].path
        fresh == usage.nonBlocking /\ ~Has(pinned, p)
        ok    == Decodes(t) /\ (fresh => Stageable(p))
    IN
    /\ call[t].pc = "stage" /\ (usage.nonBlocking => lock = None)
    /\ pinned' = IF usage.nonBlocking /\ Has(pinned, p) THEN Touch(pinned, p) ELSE pinned
    /\ call' = [call EXCEPT ![t].pc = IF ok THEN "decoded" ELSE "miss",
                            ![t].fresh = fresh,
                            ![t].staged = IF usage.nonBlocking /\ Has(pinned, p)
                                          THEN pinned.held[p] ELSE call[t].data]
    /\ UNCHANGED <<file, host, lock, usage, calls, faults>>

\* _pinned_put of sections made by this get, before the host tier learns of it.
Pin(t) ==
    /\ call[t].pc = "decoded" /\ call[t].fresh /\ lock = None
    /\ pinned' = Put(pinned, call[t].path, call[t].data, PinnedCapacity)
    /\ call' = [call EXCEPT ![t].fresh = FALSE]
    /\ UNCHANGED <<file, host, lock, usage, calls, faults>>

\* _host_put of what was read from the file, however long ago that was.
Keep(t) ==
    /\ call[t].pc = "decoded" /\ ~call[t].fresh /\ lock = None
    /\ host' = IF call[t].cached THEN host
               ELSE Put(host, call[t].path, call[t].data, HostCapacity)
    /\ call' = Goto(t, "hit")
    /\ UNCHANGED <<file, pinned, lock, usage, calls, faults>>

\* get counts under the lock and returns the staged weights or nothing.
Return(t) ==
    /\ call[t].pc \in {"hit", "miss"} /\ lock = None
    /\ call' = [call EXCEPT ![t] = Idle]
    /\ UNCHANGED <<file, host, pinned, lock, usage, calls, faults>>

----------------------------------------------------------------------------
\* put, under the lock: a temporary file, its rename, then the two tiers.

Write(t) ==
    /\ call[t].pc = "write" /\ lock = None
    /\ lock' = t /\ call' = Goto(t, "replace")
    /\ UNCHANGED <<file, host, pinned, usage, calls, faults>>

Publish(p, d) ==
    /\ file' = [file EXCEPT ![p] = [digest |-> d, whole |-> TRUE]]
    /\ UNCHANGED <<host, pinned, usage, calls>>

Replace(t) ==
    /\ call[t].pc = "replace" /\ Publish(call[t].path, call[t].asked)
    /\ call' = StillWarm(Goto(t, "drop"), file')
    /\ UNCHANGED <<lock, faults>>

\* A write that raises removes the temporary file.
WriteFails(t) ==
    /\ call[t].pc = "replace" /\ faults < MaxFaults /\ faults' = faults + 1
    /\ lock' = None /\ call' = [call EXCEPT ![t] = Idle]
    /\ UNCHANGED <<file, host, pinned, usage, calls>>

Invalidate(t) ==
    /\ call[t].pc = "drop"
    /\ host' = Pop(host, call[t].path) /\ pinned' = Pop(pinned, call[t].path)
    /\ lock' = None /\ call' = [call EXCEPT ![t] = Idle]
    /\ UNCHANGED <<file, usage, calls, faults>>

----------------------------------------------------------------------------
\* The surroundings.

ForeignPut(p, d) ==
    /\ Publish(p, d) /\ call' = StillWarm(call, file') /\ UNCHANGED lock

Damage(p) ==
    /\ file[p] # None /\ file' = [file EXCEPT ![p].whole = FALSE]
    /\ call' = StillWarm(call, file')
    /\ UNCHANGED <<host, pinned, lock, usage, calls>>

\* Only the files outlive the process; the next one may serve another bundle.
Kill ==
    /\ host' = EmptyTier /\ pinned' = EmptyTier /\ lock' = None
    /\ call' = [t \in Threads |-> Idle]
    /\ usage' \in Usages
    /\ UNCHANGED <<file, calls>>

Fault ==
    /\ faults < MaxFaults /\ faults' = faults + 1
    /\ \/ \E p \in Paths : Damage(p) \/ \E d \in Digests : ForeignPut(p, d)
       \/ Kill

Step(t) == \/ HostGet(t) \/ ReadSidecar(t) \/ Stage(t) \/ Pin(t) \/ Keep(t) \/ Return(t)
           \/ Write(t) \/ Replace(t) \/ Invalidate(t)

Next == Fault \/ \E t \in Threads : Get(t) \/ PutExpert(t) \/ WriteFails(t) \/ Step(t)

Spec == Init /\ [][Next]_vars

----------------------------------------------------------------------------
\* A get that returns weights returns those of the digest it was asked for,
\* whatever other threads and processes publish while it is on its way, and
\* though nothing records the digest of a pinned section.
FingerprintBound ==
    \A t \in Threads :
        call[t].pc = "hit" => call[t].staged = [digest |-> call[t].asked, whole |-> TRUE]

\* What the tiers hold has passed its checksums, so a file damaged on disk is
\* never served from memory after it was replaced.
CachedWasVerified ==
    \A p \in Paths : /\ Has(host, p) => host.held[p].whole
                     /\ Has(pinned, p) => pinned.held[p].whole

\* The bytes a tier counts are those of its payloads and within its capacity,
\* and the order names each payload once.
TierIsExact(tier, capacity) ==
    /\ tier.bytes = Charged({p \in Paths : Has(tier, p)})
    /\ tier.bytes <= capacity
    /\ IsInjective(tier.order) /\ ToSet(tier.order) = {p \in Paths : Has(tier, p)}

\* Both tiers are exact, puts that drop entries behind their back included.
TiersAreExact ==
    TierIsExact(host, HostCapacity) /\ TierIsExact(pinned, PinnedCapacity)

\* An instance that serves one bundle finds what is there: a get whose sidecar
\* is sound and as asked throughout does not miss, unless the pinned tier is
\* too small for it.
WarmGetHits ==
    \A t \in Threads :
        call[t].pc = "miss" /\ call[t].warm =>
            usage.shared \/ (usage.nonBlocking /\ Size[call[t].path] > PinnedCapacity)

=============================================================================
