# TLA+ models of the GLM5X/K3X inference engine

This directory holds TLA+ specifications of the stateful parts of the engine,
configurations that model-check them with TLC, and TLAPS proofs. Paths below are
relative to the repository (`runtime/` means `src/runtime/` and so on).
`PROJECT.json` maps every definition to the lines it stands for, lists the runs,
the hazards each property is about, and the mutants: small bugs put into one
definition, each of which makes one property fail.

    tlasany M.tla                      parse a module
    tlc -config X.cfg MCM.tla          model-check
    tlapm M_proofs.tla                 check proofs

Contents: 1 inventory, 2 modules, 3 runs, 4 disagreements found, 5 proofs,
6 bounds and fairness, 7 what is not modelled, 8 plan.

## 1. Inventory

The program runs mixture-of-experts language models whose experts do not fit
into memory. A converter writes checkpoints into aligned, checksummed artifacts;
a C++ runtime reads experts from them on demand, through a cache in host memory
and one in device memory, while a generation runs token by token, optionally
with a draft model that proposes tokens ahead. A Python reference decoder does the
same over the converted bundle, with caches of its own, and a set of ablation tools
measures variants of the runtime against each other and publishes the results.

| Component | State | Operations | What makes it hard | Correct when |
|---|---|---|---|---|
| Host expert store `host_expert_store.cpp` | entries with recency, frequency, cycle; keys being loaded; access set; byte and event counters | `get_or_load`, `begin_access_set`, `contains`, `stats` | the mutex is released for the load; one condition variable for all keys; six modes | bytes are exact and bounded, one load per key, the access set stays, every call returns |
| Deadline expert loader `expert_scheduler.cpp` | priority queue, active workers, per ticket result, atomic counters | `submit`, `wait`, `wait_idle`, worker loop, destructor | notifications outside of the mutex, three mutexes, shutdown with work queued | no load or notification lost, a ticket consumed once, waits and destruction end |
| Engine MoE layer `model.cpp` | selected experts, tickets of the layer | select, look up, submit twice, collect, fail, wait idle | errors in the middle of a layer, stale residency | loads in flight belong to the access set; a layer ends |
| Speculative decoding `model.cpp`, `speculative.cpp` | recurrent state of the target, text, proposal | prefill, verify token by token or as a block, commit, report | state after a rejected prefix; four parties that each keep the text | the text is the target's greedy text; the parties agree |
| AURORA scheduler `aurora_scheduler.cpp` | counters per position and rung, highest confirmed length, cap, retry flag | `select`, `observe` | backoff, rest and survival gate interact | obeys rejections, climbs rung by rung, never stops for good |
| AURORA providers `aurora.cpp` | expected text, pending proposal, error flag, cursor or draft session | `propose`, `update` | each half can fail alone; feedback errors surface later | in step with its caller or broken for good |
| Draft cursor `model.cpp` | KDA state, MLA cache, checkpoints | `create`, `propose`, `commit` | two kinds of state rolled back in two ways; a forward may throw half way | state equals the fed text after every commit |
| K3X and GLM5X conversion `k3x_converter/writer.py`, `glm5x_converter/shard.py`, `multi.py` | partial file, ledger, artifact, sidecar, marker, source | convert, resume, publish, verify, delete | killed between any two writes | what is recorded is on disk, what is published is whole, deletion comes last |
| Checkpoint stream `tools/stream_glm5x_checkpoint.py` | `.part` files, position in the shard list, bundle | download, convert, assemble | interrupted downloads; no checksums at the end | the bundle names verified artifacts |
| Resident weights and MXFP4 transfers `runtime/cuda/resident_weights.cu`, `async_mxfp4_pipeline.cu`, `backend_cuda.cu` | table of weights with recency, bytes and protected keys; pending transfer; commands of two streams | `acquire`, `begin_access_set`; prepare, consume, complete; dense, group, grid, layer and prepared operations | the device runs late; victims are freed before an allocation that may fail; a failure leaves commands behind | a kernel reads its own weight, bytes are exact |
| L2 reader, direct I/O `reader.cpp`, `direct_io.cpp` | ring, alignment, counters | batched reads | short reads, completions out of order | planned |
| Packed expert cache `reference/glm5x_ref/packed_cache.py` | sidecar files, host and pinned tier, lock | get, put, get_many | lock released for file reads, other writers, no digest on pinned bytes | a get returns what was asked for and verified, tiers are exact |
| Reference decoder `reference/glm5x_ref/model_reference.py`, `layer10_moe.py`, `layer_reference.py` | immutable state per text; layer, trunk, device and payload cache | forward a chunk, branch from an older state, generate | out of core, reads that fail in the middle of a pass, positions and shared index | a state is what its whole text computes; caches are exact; a layer keeps its share |
| Ablation tools `tools/ablate_*.py`, `benchmark_synthetic.py` | output directory of results, files and a summary | run, measure, compare, write, publish | arms that may silently be the wrong variant, killed runs in a directory with old results | what is published was compared, is of this run and of the variants it names |
| Routing, expert-major plan, runtime profile | none or one file | pure algorithms, load and save | ties, stale profiles | planned |
| Kernels, CPU operators, checksums, formats, CLI, standalone benchmarks, reference numerics | none that outlives a call | arithmetic, encoding, printing | | not modelled (section 7) |

How they interact. The engine calls the store (`begin_access_set`, `contains`)
and submits closures to the loader; the loader's workers run them, and they call
`get_or_load`, which reads storage. A submission whose expert is resident runs
the closure on the generation thread. The engine waits for tickets in slot
order. `generate_speculative` calls a `DraftProvider` before a verification and
reports to it after; an AURORA provider asks the scheduler for a length, its
draft session or cursor for tokens, and passes the report on to both. The
converter and the runtime share only finished artifacts. On a CUDA backend the
engine protects a layer's experts, hands their bytes to the resident table or to the
asynchronous transfer, and enqueues the operations that read them; the device runs
both streams when it likes. The reference decoder reads experts through its caches
and packed sidecars; a process of a runtime is all an ablation tool sees of it.

## 2. Modules

    ExpertBytes <- HostExpertStore --implements--> BoundedCache
        |              |
        |   DeadlineExpertLoader
        |              |
        |        ExpertPipeline            (INSTANCEs of both)
        |
        +---- DeviceExperts
        +---- PackedExpertCache    PackedSidecar

    AuroraScheduler <- DraftSchedule
        |
    AuroraProvider <- ProviderProtocol
        |         \
    DraftCursor    SpeculativeDecoding --implements--> GreedyText

    ResumableConversion

    ReferenceExperts <- ReferenceDecoding    (with the sums of ExpertBytes)

    AblationStudies <- Ablation

`A <- B`: B extends A. `MC*` modules give constants their values. Three of them hold
two independent parts, of which a behaviour takes one: `MCExpertPipeline`
(`ExpertPipeline` and `DeviceExperts`), `MCDrafting` (`DraftSchedule` and
`ProviderProtocol`) and `MCPythonTools` (`PackedExpertCache` and `Ablation`).

**HostExpertStore** — the store at the grain of its critical sections. A call is
`Call`, then `Hit`, `Own` (take the load) or `Block`; the owner runs its loader
outside of the mutex (`LoaderFails`, `LoaderSucceeds`), admits
(`Bypass`, `EvictAndBypass`, `AdmitEvicting` under `Admit`), releases the key
(`Release`) and notifies (`Notify`). `begin_access_set` may come between any two
steps. Victims are the minimum of a policy's order (`Preferred`); the victim loop
is one step, since it runs inside one critical section. `last_cycle` is kept as
"equals the active cycle", which is all it is compared with. Disabled mode loads
without looking anything up.
**ExpertBytes** — the sum of sizes, as a fold that proofs can use.
**BoundedCache** — what the store promises: a set of experts within the capacity,
pins are kept, an absent expert is fetched by one caller at a time.

**DeadlineExpertLoader** — a submission is `Submit` (push under the mutex) and
`NotifyOne`, or `SubmitResident` and `FinishInline`; a worker goes through `Take`,
`Publish`, `Count`, `Signal`, `Retire`, `NotifyIdle`, each a critical section, an
atomic operation or a notification of the code; it may `Sleep` and wake
spuriously. `Wait`, `WaitIdle`, `Stop`, `NotifyWorkers`, `Join` are the callers'
side. Time is not modelled: latest starts are constants of the tickets.

**ExpertPipeline** — one instance of the store and one of the loader, whose
workers are the store's threads; the engine's order of calls drives both. Here
the store's environment is not arbitrary any more.

**DeviceExperts** — a MoE layer after the other on the CUDA backend. The host's side
is an `agenda`, the operations of the layer in the engine's order (`LayerOf`):
protect, dense products, prefetch, prepared group, group, grid, whole layer. Each
weight of an operation is acquired (`AcquireHit`, `AcquireBypass`, `AcquireAdmit`;
`Evict` takes one victim at a time, as the loop of `acquire` does, so that
`AcquireFails` finds them gone already), a grid or a
layer that did not get every weight falls back (`FallBack`), the uses of the weights
are enqueued one after the other (`Launch`; `LaunchFails` leaves what was enqueued
behind, with or without the copy of the next), the host synchronizes. The device runs the two streams when it likes. A resident weight's
location is named by the weight, an expert counts as one weight. External: a copy
from pageable memory has taken its data when it is enqueued, one from pinned memory
takes it when it runs, `cudaFree` waits for an idle device. An operation that fails
after its prefetch leaves the transfer pending, and every later prefetch is refused
(`PrefetchRefused`): the price the code pays for never refilling a buffer in use.

**AuroraScheduler** — `Choice`, `AfterSelect`, `AfterObserve` are `select` and
`observe` as functions of the scheduler's record; ratios are compared as
fractions. **DraftSchedule** puts them under the one caller they have, with
every acceptance and cost.

**DraftCursor** — a model state is the token history that was fed to it, kept
once for the copied KDA state and once for the cropped MLA cache. A forward that
throws may have advanced either. **AuroraProvider** — both providers' `propose`
(`Choose`, `OpenCursor`, `Generate`) and `update`, each with its failures.
**ProviderProtocol** lets any caller loose on it: wrong texts, reports twice,
reports with one field wrong (`Twists`), a draft model that throws.

**SpeculativeDecoding** — `generate_speculative` with the AURORA or the scripted
provider, fixed or adaptive lengths, token by token (`VerifyToken`) or expert
major (`VerifyBlock`). The target is a function from histories to the greedy next
token; the draft says anything. **GreedyText** — what every generation promises:
the text grows by greedy tokens until it has its length, or the call fails.

**ResumableConversion** — `k3x-convert` and the GLM5X stream as one process over
files. A file is a sequence of cells (whole extent of a source version,
directory, torn write); a kill loses the process and keeps the files. Opening an
existing state (`Refusal`, `OpenPartial`, `OpenFinal`, `OpenNew`), writing extents,
sealing, renaming, sidecar, ledger, marker and deletion are single writes, so that
a kill may come between any two of them. Writes that the code makes atomic by
rename are one step.

**PackedExpertCache** — `get` is `HostGet`, `ReadSidecar` (no lock), `Stage`, `Pin`,
`Keep`, `Return`; `put` is `Write`, `Replace`, `Invalidate` under the lock. Several
threads are what `get_many` starts. The surroundings damage files, publish sidecars
of another digest and kill the process. `usage` says what the callers rely on: an
instance with pinned staging serves one bundle. `pinned_get` compares no digest, so
`FingerprintBound` would fail without that.
**PackedSidecar** — which parts a sidecar of each precision holds, at which offsets;
its `ASSUME SidecarRoundTrip` has TLC compare what `put` writes with what `get` and the
transfer read for every precision and kind of projection.

**ReferenceExperts** — the three caches an expert of the reference model passes (layer
object, device, payload) under both device policies, single and in batches. An
`OrderedDict` is what it maps its keys to, the pairs of keys of which one was used before
the other, and the bytes the code counts; eviction (`Room`) is the rounds of the loop of
`put`. A loading (`Load`) asks device, sidecars, payloads and artifacts for all experts
still missing, one stage after the other (`Each`), as `load_experts` does; `LoadExperts`
does it for a batch or expert by expert. The sums of bytes are those of `ExpertBytes`.
**ReferenceDecoding** — `forward_tokens` and `generate` layer by layer and out of core.
A hidden value is the record of what it was computed from (token, position, weights,
attended keys), so that equal values mean equal inputs; `StatesAreRecomputed` compares
every state a caller holds with one pass over its whole text.

**AblationStudies** — the 23 tools as records: arms, what an arm runs, which fields are
compared, which counters show the variant. **Ablation** — the one procedure they
follow: run an arm's processes, compare, write, judge over all arms, publish; with one
thing wrong in the first run (a field of some reports, a failing process, missing
storage support), a kill between any two writes, and a rerun in the same directory.

## 3. Runs

| Run | What it shows |
|---|---|
| `store` | Experts of sizes 1, 2, 3 and 5, capacity 4, an access set, loaders that fail; two threads on an lru store, one on the others. `ExactCapacity`, `ExactAccounting` in every interleaving; `SingleFlight`: a key has one loader; `ProtectedStay`: no step evicts an expert of the access set; `StaleGoFirst`: `least_stale` evicts experts of the running cycle last; the store implements `BoundedCache`; every call returns. |
| `loader` | Two clients, two workers, two loads, pending limit 2. `JobConservation`: a load is in exactly one place. `IdleMeansComplete`: what `wait_idle` returns on. `DestructionDrains`, `SingleConsumption`; every wait and the destruction end, so no notification that a queued load needs is missed. |
| `pipeline` | Host half: store and loader under the engine, two layers of up to two experts, a pool with room for one, failing loads, with and without a cache: every load in flight belongs to the access set in force (`InFlightIsSelected`), a layer that begins ends (`EveryLayerEnds`). Device half: any number of layers in four setups, two failing CUDA calls: a kernel finds the weight it was launched for, whatever the device executes late (`KernelsReadTheirWeights`); the table's bytes are exact, also after an acquire that failed half way (`ResidentBytesAreExact`). |
| `drafting` | Scheduler alone, five verified proposals with every acceptance and cost: `LadderDiscipline` (no rung skipped, a rejection is obeyed until something is accepted, a rejected single token rests for exactly one step). Provider, texts up to four tokens, any caller, one throwing forward: `PartsAgree` (provider, cursor, text and both kinds of checkpoint agree, or the provider is broken for good). |
| `speculative` | Calls for 0 or 6 tokens, all providers, both verifications, 8 target models, one failure anywhere: the text is the greedy text (`ImplementsGreedyText`), target state and draft state follow it, the call returns. |
| `conversion` | Both commands, two shards of three extents, three kills, two complete runs, a replaced source: `LedgerIsTrue`, `PublishedIsWhole`, `DeletionIsSafe`, `BundleIsVerified`; the command ends. |
| `python_tools` | Packed cache, two threads, three calls, two faults: a get returns the digest it was asked for (`FingerprintBound`) and bytes that passed their checksums (`CachedWasVerified`), the tiers are exact (`TiersAreExact`), a sound sidecar is found (`WarmGetHits`). Ablation tools: exact arms that are published agree (`PublishedArmsAgree`), an arm that ran another variant is refused (`IgnoredOptionIsRefused`), a summary never names files of another run (`SummaryNamesItsFiles`), an honest runner is never refused (`HonestRunIsPublished`). |
| `reference` | Three layers, texts of up to three tokens, branches, generation, three option sets, a failing read: `StatesAreRecomputed`, `CachesAreExact` (bytes, order and contents of every cache), `SharesAreKept` (the layer-balanced policy takes nothing from a layer within its share). |
| `schedule_disabled`, `speculative_block`, `k3x_resume`, `download_resume` | One disagreement each, section 4. |

Two limits of the ablation tools show in the model and are kept in its study records:
`benchmark_once` compares the tokens of its samples with each other, but five tools
(`speculative-verification`, `expert-major-verification`, `adaptive-routing`,
`cuda-aurora-grid`, `cuda-aurora-moe-layer`) never compare an arm's measured tokens
with the baseline's and rely on a diagnostic run for that; five others
(`cuda-residency`, `cuda-expert-major`, `cuda-expert-fusion`,
`cuda-released-moe-layer`, `cuda-admission-validation`) compare no measured tokens and
are outside of `PublishedArmsAgree`.

## 4. Disagreements found

Each is a run whose one property states what the repository says, and which TLC
violates.

* **Drafting can stop for good** (`schedule_disabled`). The scheduling design
  (`docs/superpowers/specs/2026-08-10-k3x-aurora-replay-adaptive-scheduling-design.md:89`)
  says repeated rejection alternates ordinary steps with retries "instead of
  permanently disabling drafting". A rejected pair sets the cap to one; if the
  survival estimate of one token is below the threshold then, `select` returns
  zero, does not spend the cap (only a cap of zero is spent,
  `aurora_scheduler.cpp:63`), and no later request changes anything.
* **An empty proposal can fail the call** (`speculative_block`). The same design
  calls the feedback of an empty proposal "a state-preserving scheduler no-op".
  Under expert-major verification that step reports the anchor's own expert loads,
  `observe` refuses a nonzero report of nothing (`aurora_scheduler.cpp:123`), and
  the next request fails with "invalid AURORA draft lifecycle".
* **A K3X conversion killed twice cannot be resumed** (`k3x_resume`).
  `writer.py:430` appends behind whatever the killed run left; the offset it then
  records does not follow from the extents before it, and the next run refuses
  the ledger (`writer.py:252-259`). The GLM5X writer truncates first
  (`shard.py:374`). `docs/superpowers/specs/2026-08-08-k3x-milestone-one-design.md:169`
  calls the procedure crash safe.
* **A complete `.part` file cannot be resumed** (`download_resume`). Killed between
  the last byte and the rename, the next run asks for the range behind the end
  (`stream_glm5x_checkpoint.py:102`), which a server that honours ranges answers
  with 416, at every rerun; one that ignores them sends the file again. `DECISIONS.md:416` calls the files "interruption-safe".

## 5. Proofs

Nine components have proofs, each for every value of its constants.

### Host expert store

`ExpertBytes_proofs` and `HostExpertStore_proofs`, for every set of keys and
threads, every assignment of sizes, capacity, mode set and bound, from
`StoreAssumption` and the assumptions of `ExpertBytes` (finite keys, positive
sizes up to a limit):

| Theorem | States |
|---|---|
| `TypeCorrect` | `Spec => []TypeOK`; no counter goes below zero, which the code's unsigned subtraction relies on |
| `SingleFlightCorrect` | a key is in `loading_` exactly while one thread owns its load |
| `CapacityCorrect` | `resident_bytes` is the sum of the entries and within the capacity |
| `AccountingCorrect` | misses = bypasses + evictions + entries |
| `ProtectionCorrect` | no step evicts from the access set |
| `StaleGoFirstCorrect` | `least_stale` evicts from the running cycle only when all evictable experts of earlier cycles go too |
| `StoreIsBoundedCache` | if `"disabled"` is not among the modes, `Spec => Abstract!Spec` |

The argument. `ExactCapacity` is not inductive alone: `Admit` adds the bytes of
the loaded key, which is right only if the key is absent, although the lookup that
found it absent was made before the mutex was released. What keeps it absent is
that keys being loaded are not in the cache (`InFlightAbsent`), and this in turn
needs that one key has one owner (`SingleFlight`): another owner would have
admitted it. So `StoreInv` is `TypeOK`, `DisabledIsTransient` (the disabled store
stays empty and loads nothing into `loading_`), `SingleFlight`, `InFlightAbsent`,
`ExactCapacity` and `ExactAccounting`. There is one lemma per action; what happens
to sums when a victim set goes and a key comes is in the lemmas `Charged*` and
`Evicting`. `StoreSimulates` maps every step to a step of `BoundedCache` or a
stutter: `Own` is `Fetch`, since an owner excludes others, and the three outcomes of
`Admit` are `Settle` with the evicted set as witness. A disabled store fetches one
key several times at once and is excluded by hypothesis.

### Deadline expert loader

`DeadlineExpertLoader_proofs`, for finite sets of clients, workers (at least one) and tickets and every
positive pending limit (`LoaderAssumption`):

| Theorem | States |
|---|---|
| `LoaderTypeCorrect` | `Spec => []TypeOK` |
| `JobConservationCorrect` | an accepted load is queued, held by one worker, inline on one client or answered, exactly one of them |
| `SingleConsumptionCorrect` | a ticket's result is taken once |
| `IdleMeansCompleteCorrect` | when `wait_idle` may return, no worker runs a load and every submission is completed, except those that clients run inline |
| `DestructionDrainsCorrect` | a destroyed pool has answered every ticket ever issued and its workers are gone |

The counters of the code (`pending`, active workers) are what its conditions test, while
the properties speak of where loads are. `LoaderInv` therefore ties the two together:
`Placed` (a load is in one place), `ActiveCounts` and `CountersAgree` (each atomic
counter is the number of workers, or loads, at certain points of their code),
`QueueBounded`, `SingleConsumption` and `Draining` (which workers may have exited once
stop is set). Lemmas `CountMove`, `SameSize` and `DisjointUnion` say how cardinalities
change when one worker or client moves; there is one lemma per conjunct and group of
actions.

### Packed expert cache

`PythonTools_proofs` (first part), for any threads, paths, digests, sizes and capacities
(`PackedExpertCacheAssumption`):

| Theorem | States |
|---|---|
| `FingerprintBoundCorrect` | a get that hits returns whole weights of the digest it was asked for |
| `CachedWasVerifiedCorrect` | both tiers hold only payloads that passed their checksums |
| `TiersAreExactCorrect` | a tier counts the bytes of what it holds, within its capacity, and its order names each payload once |
| `WarmGetHitsCorrect` | in an instance of one bundle, a get whose sidecar was sound throughout does not miss, unless staging is limited to a pinned tier too small for it |

`CacheInv` adds to `CachedWasVerified` what a get carries at each of its steps
(`CallBound`) and `PinnedBound`: pinned sections are of the one bundle the instance
serves. The host tier may hold payloads of any digest and a hit in it is bound by the
comparison of digests; the pinned tier is not compared, and `PinnedBound` is what
makes that right. The lemmas on `Touch`, `Drop` and `Put` need nothing about the order
of a tier, only what it may hold afterwards.

`TiersAreExact` needs the order as well. Every step moves a tier by a touch, a removal
or a `Put` (`TierSteps`), and each keeps the tier exact by itself (`DropExact` and the
lemmas after it): `Put` takes out an older payload under the same path, evicts from the
front until the new one fits, or everything, and only then adds it, so that nothing is
counted twice. That the eviction loop ends with the shortest prefix that makes room is a
minimum over the numbers (`WellFoundedInduction`), the sums are those of `ExpertBytes`.
`WarmInv` says what a get knows while its file stays sound (`WarmBound`) and that an
instance of one bundle holds that bundle's payloads only (`HostBound`): without it a
host hit of another digest would be a miss.

### AURORA scheduler

`SpeculativeDecoding_proofs` (first part), for every configuration and every bound
(`SchedulerConfigAssumption`, `DraftScheduleAssumption`):

| Theorem | States |
|---|---|
| `LadderDisciplineCorrect` | lengths grow rung by rung, a rejection is followed by shorter proposals, a rejected single token rests once |

The property compares what is offered with a history (`confirmed`, `refused`, `rests`)
the code does not keep. `Remembers` is the correspondence: `qualified` never exceeds what
was confirmed, and a refused length of 2 or 4 is exactly a cap one rung below it, a
refused 1 a rest that is due, taken, or over with a retry. Survival estimates and costs do
not appear: the ceiling alone enforces the discipline, whatever the estimates choose
below it (`ChoiceIs`).

### Speculative decoding

`SpeculativeDecoding_proofs`, for every set of target models, prompt, length asked for,
block size, script and provider, with any number of failures (`SpeculativeAssumption`,
`PromptAssumption`, `SchedulerConfigAssumption`). The only thing assumed of a target is
that it answers a token of the vocabulary to every history it can be shown in a call. For the
first three theorems nothing is used of the draft side but the shape of the provider's
record; the last two are about it:

| Theorem | States |
|---|---|
| `EngineInvariant` | `Spec => []EngineInv` |
| `TargetFollowsTextCorrect` | before a request the target was fed the prompt and the text but its last token |
| `ImplementsGreedyTextCorrect` | `Spec => Abstract!Spec`: the text is the one greedy decoding yields |
| `PartsAgreeCorrect` | `ProtocolSpec => []PartsAgree`: under any caller, provider, text, cursor and checkpoints agree, or the provider is broken for good |
| `DraftFollowsTextCorrect` | before every draft the engine asks for, provider and cursor hold the text generated so far |

`TargetFollowsText` speaks of the moments between blocks and is not inductive: in the
middle of a block the target was fed part of the proposal. `FedIsWhole` says what holds
throughout, with the text continued by what the verdict has committed so far (`Whole`),
and `GreedyOn` that this continuation is the target's own. Token by token, both grow by
one token (`VerdictGrows`); as a block, the agreed prefix is greedy because every target
token in it equals the candidate the next position was fed (`BlockTargetIs`,
`GreedyPrefix`), and the state that is kept is the one that was fed the prefix and no
more. `CommitStep` is the `Extend` of `GreedyText`; all else is a stutter, an error or the
end. Most of the lemmas before it are about sequences.

The draft side rests on one predicate, `ProviderKeeps`, of a provider, its cursor, the
text it was told and the text it was shown: where the provider is in its life, what the
cursor's committed and checkpointed histories are, and which of them an outstanding
proposal extends. It is proved to survive `propose` and `update` with all their failures
for arguments of any kind. `ProtocolInv` applies it to a caller who may tell anything;
it adds only that a cursor that waits for a verdict holds the text the provider was
told. `DraftInv` applies it to the engine, a caller who tells the truth, with what makes
the reports it sends acceptable: the offered length is one the room allows
(`SchedulerKeeps`, `AskingOffers`), the provider waits while a verdict is formed
(`WaitsForVerdict`) and the counts of the verdict are those of its proposal
(`VerdictFits`). `FaultFree` says when the provider may be broken although nothing below
it failed: never token by token, with fixed lengths only by the last block, which has no
room for a candidate.

### Conversions

`ResumableConversion_proofs`, for every list of shards, number of extents and bound on
kills, runs and source versions (`ConversionAssumption`):

| Theorem | States |
|---|---|
| `ConversionInvariant` | `Spec => []ConversionInv` |
| `LedgerIsTrueCorrect` | what a ledger records is on disk, whole and of its source version |
| `PublishedIsWholeCorrect` | a file under its final name passes the strict reader |
| `BundleIsVerifiedCorrect` | a bundle names all shards, each marked and its source gone |
| `DeletionIsSafeCorrect` | a source goes only with a sound artifact, sidecar and marker there and no ledger left |

`ConversionInv` has a part that holds whoever looks at the disk (`FilesInv`: the ledger is
true, an artifact is sound) and one that speaks of the process alone (`AtWork`): `Knows`
lists, for each point of the code, what the process may rely on about the files of its
shard. A kill discards the second and keeps the first, which is why the files are safe.
`Progress` says that a running stream is `Through` every shard before the present one and
`BundleThrough` that a bundle outlives reruns. `WorkStep` reduces every action to three
facts: the new files satisfy `FilesInv`, the process knows what its new position claims,
and files of a shard that is through are not touched.

### Expert pipeline

`ExpertPipeline_proofs`, for every number of workers, slots, layers and experts:

| Theorem | States |
|---|---|
| `UsesTheLoader`, `UsesTheStore` | the pipeline implements the specification of pool and store: every step is one of theirs or leaves them alone |
| `PipelineTypeCorrect` | the engine's state and that of pool and store keep their types |
| `InFlightIsSelectedCorrect` | a load that is queued, run or in the store is of an expert of the access set in force |

The first two carry everything proved of the components over to the composition, where
the callers are no longer arbitrary; that uses the proofs of both modules as instances.
`InFlightIsSelected` is not inductive, because a new layer changes the access set under
whatever is still in flight. `EngineInv` adds what a ticket and a thread are doing for
each position of the engine (`ClientFollows`), that a worker's load is its call to the
store (`LoadsAreCalls`), and `BatchesEnd`: between two layers nothing is in flight. The
last is the one that costs: it follows from `wait_idle`'s condition, two counters, by
the loader's `IdleMeansComplete`, also when the layer failed half way and left tickets
nobody waited for.

### Device experts

`ExpertPipeline_proofs` (second part), for any experts, sizes, limit, setups and number of failing CUDA
calls (`DeviceAssumption`):

| Theorem | States |
|---|---|
| `DeviceInvariant` | `BackendSpec => []DeviceInv` |
| `KernelsReadTheirWeightsCorrect` | a kernel finds the weight it was launched for when it runs, and nothing is being copied over it |
| `ResidentBytesAreExactCorrect` | the table's bytes are the sum of its entries and within the limit |

`KernelsReadTheirWeights` speaks of the command that runs next. `StreamFollows` extends it
to the whole stream: each command is a copy to the scratch buffer or to an entry of the
table, the wait for the transfer, or a kernel that will find its weight once the commands
before it have run: in an entry that is written or has its copy in front, in the scratch
buffer with the copy right before it, in the prefetch buffer with the wait somewhere
before. Appending a command (`AppendFollows`) and running one (`TailFollows`) keep this
whatever the command is. What they need comes from the host: a location handed out is
that of an entry which is protected until the operation ends (`HandlesHold`), the
prefetch buffer is not refilled while its transfer is pending, not even by the layers
after a failed one (`TransferHolds`, `AgendaFollows`), and an entry goes only when the
device is idle. `ResidentBytesAreExact` is `TableExact` with the sums of `ExpertBytes`.

### Reference decoder

`ReferenceDecoding_proofs`, for any depth, tokens, experts, scores, routes, dense and
indexer layers, sizes, capacities, share and option sets, with any number of calls,
slots and failing reads (`ReferenceExpertsAssumption`, `ReferenceDecodingAssumption`):

| Theorem | States |
|---|---|
| `CachesAreExactCorrect` | device, payload and trunk cache count the bytes of their entries, stay within capacity, rank their keys in one order; protected entries are there and within the share |
| `SharesAreKeptCorrect` | under `layer_balanced` no step takes a protected expert or brings a layer below its share |
| `StatesAreRecomputedCorrect` | every state held and every hidden value of a pass is that of its whole text computed at once |

Two invariants, the second on top of the first.

`CacheInv`. A cache is `Sound`: exact, and every key maps to what the artifacts hold under
it. Evicting, adding and using an entry keep that (`PopSound`, `AddSound`, `GetSound`).
The loop of `put` is a recursive function of the round; `RoomRounds` says that each round
keeps what one round keeps and that a round in which nothing went is the last. That as
many rounds as there are entries suffice is `LruRoom` and `BalancedRoom`: a round that is
not the last takes an entry out. `LruPutSound` uses that an lru put that fits the capacity
at all finds room; `BalancedPutSound` cannot, and shows that the refused put, which leaves
what it evicted evicted and puts the replaced entry back, keeps the cache exact and takes
no layer below its share. A replaced entry is gone while room is made, so its layer may
be one below its share in between: `SharesBack` is about this. `StageOK`, `EachOK`,
`LoadOK` and `LoadExpertsOK` carry soundness and shares through a loading, whose values
are the artifacts' own wherever they came from, also when a read in it fails. `LayerOK`
concludes that a layer object computes with the right experts and trunk tensors.

`StateInv` says that the state in each slot is `WholeState` of its text, and that a pass
has computed of its chunk what `Whole` has there (`PassFollows`). A layer extends the
keys of the older text by those of the chunk (`JoinedKeys`), and that must be the keys of
the longer text computed at once: values of a text do not depend on the tokens after
it (`WholePrefix`), by induction on the layer. `AttendedKeys` says that the gathered and
the masked form of attention see the same keys, those the top-k selects among the keys up
to the query: keys of the chunk behind it get minus infinity, rank behind all others, and
what of them is selected is masked.

The recursive functions (`Room`, `Each`, `LoadExperts`, `Whole`) are reasoned about
without the library's induction theorems, which take an operator as parameter: the
rounds for which a claim holds form a set, and a set that has 0 and with each round the
next has them all (`UpTo`, from `WellFoundedInduction`).

### Ablation tools

`PythonTools_proofs` (second part), for any number of runs of a tool in one directory,
each tool with everything that may be wrong in its first run:

| Theorem | States |
|---|---|
| `ToolInvariant` | `ToolSpec => []ToolInv` |
| `PublishedArmsAgreeCorrect` | exact arms of a published summary have the same tokens, if the tool compares them |
| `IgnoredOptionIsRefusedCorrect` | an arm whose processes all ran the first arm's variant is not published as its own, if the tool reads the counters |
| `SummaryNamesItsFilesCorrect` | a summary is never newer than the files it names; when the tool ended well it is of this run |
| `HonestRunIsPublishedCorrect` | a runner that does what it is asked is never refused |

The tools are 23 concrete studies, and what differs between them is data. The proof goes
through them once: `StudiesSound` shows that each is a `SoundStudy`, one lemma per tool.
`Shaped`: it takes its steps in one of six orders, all with the benchmark first and a
check behind every diagnosis, and writes `summary.json`. `TellsVariants`: an arm that runs
another variant than the first has its counters demanded somewhere. `TellsTokens`: it
compares tokens in one of three ways, or is one of those listed in section 3.
`AsksFairly`: it demands of no arm what an honest runner cannot give. For the tools that
verify drafts this is arithmetic: the counts written by hand for each script are those
that `Counted` makes of it, block by block (`CountedPerfect`, `CountedMixed`).

The rest speaks of any sound study. `ToolInv` says where a tool is (`Positioned`), what a
record holds and which comparisons it has passed (`Results`, `Sampled`: the samples agree,
the diagnosis is the tool's own run, the check was passed), which files are of this run
(`Written`), that a summary on disk is not newer than its files (`Stored`,
`Summarised`) and that the gates were passed. `WrongTogether` is why wrong tokens cannot
be published: what no comparison of `benchmark_once` shows is wrong in every process of
the arm, the tool's diagnostic run included, and that one is compared with the natural
target's. The case it excludes, the three processes of `benchmark_once` without the
tool's, is the limit described in section 3.

### What the proofs leave out

Only model-checked is liveness, since `ENABLED` and fairness are out of the prover's
reach: `EveryCallReturns`, `EveryWaitReturns`, `DestructionEnds`, `EveryLayerEnds`,
`CallReturns` and `CommandEnds`. The disagreements of section 4 are counterexamples that
TLC finds. Every other property of the runs is stated by a theorem.

## 6. Bounds and fairness

*Store.* Three calls by two threads suffice for a waiter, its owner and an
admission that evicts. The sizes fill the cache exactly, make one admission take one
victim or two, let an access set leave too little to evict (the victims go and the
payload is returned unkept), and exceed the whole cache.
Two threads call only the lru store, whose steps are those of every cached mode but the
choice of victims, and of the static one when nothing is evicted; one thread compares
the policies, with four calls where it takes four to fill the cache and evict twice.
The disabled store is in `pipeline` and in the proofs.
*Loader.* Two workers and two clients produce every race of push, sleep, notify,
pop and stop between two parties; loads beyond the second only repeat them. The
second load has the earlier latest start, and both orders of submission occur.
*Pipeline.* Host half: one worker and a limit of one, since a refused submission needs
a full queue; two layers, since a leftover of the first is what could disturb the
second. Device half: three experts, one of size two, and two dense weights compete for
three bytes, so hits, bypasses and evictions occur in one operation; the number of
layers is not bounded; a second CUDA call fails in the leftovers of the first.
*Drafting.* Rungs 1, 2, 4 need two whole acceptances to climb and two rejections to
fall to zero; five blocks leave one more. *Drafting, speculative.* Two tokens tell
right from wrong; six tokens hold a prefill, a block of four and one more; the
eight models answer by the history's parity and last token, so a state too long,
too short or wrong shows in the next token. *Conversion.* Three extents: a
whole one, a torn one and one behind it; three kills, one more than the worst
case known needs; two shards for the order among them. *Python tools.* Cache: no tier
holds all three sidecars and the pinned one not even the large one; a get, a put and
another get fill three calls; two faults are a foreign put and a damage or a kill.
Tools: a tool is run twice in one directory and something is wrong only in the first
run, since old files in the way of a sound run are the case of interest. Equal
sidecars, threads and digests are symmetric; no property tells them apart and no
liveness is checked there. *Reference.* A dense layer, one with an indexer of its own and one that
shares it; two experts; texts of three tokens in chunks of up to two, so that a
state is extended at and inside of chunk boundaries; the caches hold 3, 2 and 4 bytes of
more, so every one of them evicts; one failing read; two slots, symmetric, for branches.
Experts are numbered from one to `ExpertCount`, since the loader takes them in increasing
order; `Names` are the experts and trunk tensors that the caches have keys for, and
`MaxSize` bounds their sizes.

Fairness. Each thread of store, loader and pipeline is weakly fair on its own
steps: the operating system schedules threads, and a loader returns (storage reads
end or fail). Nothing obliges anybody to call, submit, wait, select experts or
destroy the pool, and spurious wakeups carry no fairness. Weak fairness is enough:
a woken waiter finds the mutex free again and again, and the mutex itself is
inside the atomic steps. `generate_speculative` is one thread: fairness of its next
step. `python_tools`, `reference`,
`drafting` and the device half state no fairness and check safety only. The conversion assumes that a process that lives goes on and that somebody
runs a killed command again; kills are finite. `CHECK_DEADLOCK FALSE` is set where
the system may stop: bounds reached, everything done, or the command failed.

## 7. Not modelled

* Kernels, operators, KDA and MLA arithmetic, MXFP4 decoding, quantisation, checksums
  and the encoding of formats: pure functions, replaced by a function from histories to
  tokens, by what a value was computed from, or by comparison of contents.
* Statistics that nothing reads back, timings, deadline misses by the clock, the
  profiler, printing, option parsing; benchmarks that stand alone and generators of
  fixtures, which keep no state.
* The blocking expert schedule and the expert-major path of the MoE layer inside
  `Engine::moe` (`VerifyBlock` models the block's effect on state, not its loads).
* On the CUDA side: batches of tokens, the dequantized variants, sizes of scratch
  buffers, an acquire before the first access set and keys of another shape, which the
  engine does not produce.
* The direct I/O reader: its ring belongs to the kernel, and a batch whose wait failed is
  listed as a hazard.
* Allocation failure in the store, failed thread creation in the loader.
* Two streams at once on one source directory, and a repository whose revision
  moves under a partial download; both are listed as hazards.
* Which extents a source has and what directories hold; 64 bit overflow guards.
* The stream's `--shard-start`, `--shard-end`, `--max-shards` and `--no-assemble`:
  `Finish` and `BundleIsVerified` speak of a run over all shards that assembles.
* Damage to a sidecar's metadata that parses and still matches the request: only the
  payload has checksums, and `Damage` makes a file that no reader takes for whole.
* The scheduler's comparison of discarded with evaluated target positions: it keeps
  neither, and what a verification reports satisfies it by construction.

## 8. Plan

Done: `HostExpertStore` with `BoundedCache`, `DeadlineExpertLoader`, `ExpertPipeline`,
`AuroraScheduler` with `DraftSchedule`, `DraftCursor`, `AuroraProvider`,
`ProviderProtocol`, `SpeculativeDecoding` with `GreedyText`, `ResumableConversion`,
`DeviceExperts`, `PackedExpertCache`, `ReferenceDecoding`, `Ablation`, and the proofs of
section 5. Left, most important first:

1. `DirectIo`: batches over the ring, short and failed completions, alignment and
   coalescing as pure operators checked against the unaligned read.
2. `EngineForward`: the order of layers, residual blocks and state updates of a
   forward in `runtime/src/model.cpp`, which the models above take as one step,
   with the blocking and the expert-major schedule.
3. The batched and dequantized paths of `runtime/cuda/backend_cuda.cu` in
   `DeviceExperts`.
4. `RoutingPolicy` and `ExpertMajorPlan` as pure algorithms against a reference
   definition; `RuntimeProfile`.

Runs are kept to one per question: a new component joins the run of its
neighbours as a part, as in `MCExpertPipeline`, or takes the place of the least
telling one.

Theorems next: the sidecar offsets of `PackedSidecar` for every precision, which an
`ASSUME` has TLC compare today, and with the modules above the refinement of a greedy
token loop by `EngineForward`.
