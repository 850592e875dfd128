--------------------------- MODULE AblationStudies ---------------------------
(***************************************************************************)
(* What each ablation tool of src/tools measures and what it demands of    *)
(* the reports before it writes its summary.  A study is a record: its     *)
(* arms in the order they run, the steps of an arm, and the fields of the  *)
(* reports it compares.                                                    *)
(*                                                                         *)
(* The fields of a report are the ones the tools tell apart: tokens (the   *)
(* output, or the digest of what was read), routes, error (numerical       *)
(* error and final state), options (the echo of what was asked), place     *)
(* (platform, device and the other provenance), shows (the variant the     *)
(* counters give away) and counts (the counters of the speculation).       *)
(***************************************************************************)
EXTENDS Naturals, Sequences, SequencesExt, FiniteSets

\* The target's text: the token that follows the anchor i is i + 1.  Wrong is
\* a candidate that is no token of the text.
TextLength == 6
Wrong == TextLength

Counts(blocks, proposed, accepted, committed, evaluated, discarded) ==
    [blocks |-> blocks, proposed |-> proposed, accepted |-> accepted,
     committed |-> committed, evaluated |-> evaluated, discarded |-> discarded]

NoCounts == Counts(0, 0, 0, 0, 0, 0)

\* The length of the longest prefix of the candidates that is the text behind
\* the anchor.
Agreed(anchor, candidates) ==
    CHOOSE k \in 0..Len(candidates) :
        /\ \A i \in 1..k : candidates[i] = anchor + i
        /\ k < Len(candidates) => candidates[k + 1] # anchor + k + 1

\* Mutant: the token the target adds of its own is not counted.
AddBlockWithoutOwn(counts, entry) ==
    LET k == Agreed(entry.anchor, entry.candidates)
        fed == Len(entry.candidates) + 1
    IN  [blocks |-> counts.blocks + 1,
         proposed |-> counts.proposed + Len(entry.candidates),
         accepted |-> counts.accepted + k,
         committed |-> counts.committed + k,
         evaluated |-> counts.evaluated + fed,
         discarded |-> counts.discarded + fed - k]

\* One verified block: the anchor and its candidates are fed, the agreed
\* prefix and the target's own next token are committed.
AddBlock(counts, entry) ==
    LET k == Agreed(entry.anchor, entry.candidates)
        fed == Len(entry.candidates) + 1
    IN  [blocks |-> counts.blocks + 1,
         proposed |-> counts.proposed + Len(entry.candidates),
         accepted |-> counts.accepted + k,
         committed |-> counts.committed + k + 1,
         evaluated |-> counts.evaluated + fed,
         discarded |-> counts.discarded + fed - (k + 1)]

\* What the runner counts for a script.  Only blocks count positions.
Counted(script, verification) ==
    LET after[n \in 0..Len(script)] ==
          IF n = 0 THEN NoCounts ELSE AddBlock(after[n - 1], script[n])
        counts == after[Len(script)]
    IN  IF verification = "expert-major" THEN counts
        ELSE Counts(counts.blocks, counts.proposed, counts.accepted, counts.committed, 0, 0)

----------------------------------------------------------------------------
\* Arms.  ran is the variant the counters give away, and shown says whether the
\* tool reads them; demanded are the counts the tool expects of the diagnostic
\* run, counts those of an honest runner.

Bench == <<"bench", "json", "csv">>

Arm(name, backend, ran) ==
    [name |-> name, backend |-> backend, ran |-> ran, shown |-> TRUE, exact |-> TRUE,
     class |-> "any", steps |-> Bench, counts |-> NoCounts, demanded |-> NoCounts]

Scripted(name, backend, script, verification, demanded) ==
    [Arm(name, backend, verification) EXCEPT
        !.steps = Bench \o <<"diagnose", "check">>,
        !.counts = Counted(script, verification), !.demanded = demanded]

Perfect == << [anchor |-> 0, candidates |-> <<1, 2>>],
              [anchor |-> 3, candidates |-> <<4>>] >>

Mixed == << [anchor |-> 0, candidates |-> <<Wrong, 2>>],
            [anchor |-> 1, candidates |-> <<>>],
            [anchor |-> 2, candidates |-> <<3, Wrong>>],
            [anchor |-> 4, candidates |-> <<>>] >>

\* A study with no demand at all.  checked and based are compared after each
\* arm, with the request and with the first arm; demanded, matched and paired
\* when all arms have run.  diagnosed compares the diagnostic runs with the
\* one of the natural baseline; exactly does so at the end for the exact arms.
Study(name, arms) ==
    [name |-> name, arms |-> arms, seeds |-> FALSE, baseline |-> FALSE, skips |-> FALSE,
     checked |-> {}, based |-> {}, diagnosed |-> {}, exactly |-> {},
     demanded |-> {}, matched |-> {}, pairs |-> {}, paired |-> {}, classes |-> FALSE,
     writes |-> <<"summary.json">>]

WithSteps(steps, arms) == [i \in DOMAIN arms |-> [arms[i] EXCEPT !.steps = steps]]

----------------------------------------------------------------------------
\* The tools that compare variants of the CUDA target with benchmark_once.

FfnArms == << Arm("operation-scalar", "cuda", "operation"), Arm("operation-grouped", "cuda", "operation"),
              Arm("ffn-block-scalar", "cuda", "ffn-block"), Arm("ffn-block-grouped", "cuda", "ffn-block") >>

Ffn == [Study("cuda-ffn", FfnArms) EXCEPT
          !.demanded = {"shows"}, !.matched = {"place", "tokens"}]

FusionArms == << Arm("synchronous-none", "cuda", "none"),
                 Arm("synchronous-routed-accumulate", "cuda", "fused"),
                 Arm("prefetch-none", "cuda", "none"),
                 Arm("prefetch-routed-accumulate", "cuda", "fused") >>

Fusion == [Study("cuda-fusion", FusionArms) EXCEPT
             !.demanded = {"error", "shows"}, !.matched = {"place", "tokens", "routes"}]

TransferArms == << Arm("synchronous-scalar", "cuda", "synchronous"), Arm("prefetch-scalar", "cuda", "prefetch"),
                   Arm("synchronous-grouped", "cuda", "synchronous"), Arm("prefetch-grouped", "cuda", "prefetch") >>

Transfer == [Study("cuda-transfer", TransferArms) EXCEPT
               !.demanded = {"options", "shows"}, !.matched = {"place", "tokens", "routes"}]

ResidencyArms == << Arm("reference", "cuda", "reference"), Arm("reuse", "cuda", "reuse"),
                    Arm("residency", "cuda", "resident"), Arm("grouped", "cuda", "grouped") >>

\* This tool subtracts the counters and compares nothing.
Residency == Study("cuda-residency", ResidencyArms)

L1Arms == << Arm("disabled-synchronous", "cuda", "disabled"), Arm("static-synchronous", "cuda", "static"),
             Arm("disabled-prefetch", "cuda", "disabled-prefetch"),
             Arm("static-prefetch", "cuda", "static-prefetch") >>

L1Cache == [Study("l1-expert-cache", L1Arms) EXCEPT
              !.demanded = {"options", "shows"}, !.matched = {"place", "tokens", "routes"}]

----------------------------------------------------------------------------
\* The tools whose arms need a storage engine the machine may not have.  An
\* arm that is refused for it is reported as skipped.

Engine(engine, cache) == engine \o "-" \o cache

ReaderArms ==
    [i \in 1..4 |->
        LET class == << <<"pread", "buffered">>, <<"io-uring", "buffered">>,
                        <<"pread", "direct">>, <<"io-uring", "direct">> >>[i]
        IN [Arm(Engine(class[1], class[2]), "cpu", class[2]) EXCEPT
               !.class = Engine(class[1], class[2])]]

L2Reader == [Study("l2-reader", WithSteps(Bench \o <<"check">>, ReaderArms)) EXCEPT
               !.skips = TRUE, !.checked = {"options", "shows"},
               !.matched = {"place", "tokens", "routes"}]

\* The storage benchmark is one process; its record is checked before it is
\* written.
SliceArms ==
    [i \in 1..4 |-> [ReaderArms[i] EXCEPT !.backend = "single",
                        !.steps = <<"bench", "check", "json", "csv">>]]

BoundedSlice == [Study("bounded-slice", SliceArms) EXCEPT
                   !.skips = TRUE, !.checked = {"options", "shows"}, !.matched = {"place", "tokens"}]

LoaderArms ==
    [i \in 1..8 |->
        LET engine == ReaderArms[(i + 1) \div 2]
            schedule == IF i % 2 = 1 THEN "blocking" ELSE "deadline"
        IN [engine EXCEPT !.name = Engine(schedule, engine.class), !.ran = schedule]]

\* Both schedules of an engine are measured, or neither.
DeadlineLoader == [Study("deadline-expert-loader", WithSteps(Bench \o <<"check">>, LoaderArms)) EXCEPT
                     !.skips = TRUE, !.checked = {"options", "shows"},
                     !.matched = {"place", "tokens", "routes"}, !.classes = TRUE]

----------------------------------------------------------------------------
\* The tools that compare cache policies and routing modes on the CPU.

Capacities == <<"small", "large">>
Policies == <<"static", "lru", "lfu", "least-stale">>

PolicyArms ==
    <<Arm("disabled", "cpu", "disabled")>> \o
    [i \in 1..(Len(Capacities) * Len(Policies)) |->
        LET policy == Policies[((i - 1) % Len(Policies)) + 1]
            capacity == Capacities[((i - 1) \div Len(Policies)) + 1]
        IN Arm(Engine(policy, capacity), "cpu", IF policy = "static" THEN "static" ELSE "evicting")]

CachePolicies == [Study("expert-cache-policies", WithSteps(Bench \o <<"check">>, PolicyArms)) EXCEPT
                    !.checked = {"options", "shows"}, !.based = {"tokens", "routes", "error"}]

ProfileArms == << Arm("lfu", "cpu", "reference"), Arm("least-stale", "cpu", "reference"),
                  Arm("profiled-cold", "cpu", "cold"), Arm("profiled-helpful", "cpu", "prior"),
                  Arm("profiled-conflicting", "cpu", "prior") >>

\* The profiles of the last two arms are made by seed runs before the first.
TaskProfiles == [Study("task-session-profiles", WithSteps(Bench \o <<"check">>, ProfileArms)) EXCEPT
                   !.seeds = TRUE, !.checked = {"options", "shows"},
                   !.based = {"tokens", "routes", "error"}]

Routing(name, ran, exact, shown) ==
    [Arm(name, "cpu", ran) EXCEPT !.exact = exact, !.shown = shown]

RoutingArms ==
    << Routing("natural-k16", "natural", TRUE, FALSE), Routing("fixed-k4", "k4", FALSE, FALSE),
       Routing("fixed-k8", "k8", FALSE, FALSE), Routing("fixed-k12", "k12", FALSE, FALSE),
       Routing("fixed-k16", "k16", TRUE, FALSE), Routing("adaptive-balanced", "adaptive", FALSE, FALSE),
       Routing("adaptive-high-mass", "adaptive", FALSE, FALSE),
       Routing("adaptive-boundary", "adaptive", FALSE, FALSE),
       Routing("adaptive-failure-1", "adaptive", FALSE, FALSE),
       Routing("adaptive-failure-2", "adaptive", FALSE, FALSE),
       Routing("adaptive-critical", "adaptive", FALSE, FALSE),
       Routing("fixed-k4-failure-1", "k8", FALSE, TRUE), Routing("fixed-k4-failure-2", "k12", FALSE, TRUE),
       Routing("fixed-k4-critical", "k16", TRUE, TRUE), Routing("fixed-k4-rescue", "rescued", FALSE, TRUE) >>

\* Fewer experts may change the tokens; three arms have to be exact, three
\* have to select the escalated count, and the arm with a cache has to rescue
\* and to give what its twin without one gives.  Every arm is diagnosed, and
\* checked before it is written.
AdaptiveRouting ==
    [Study("adaptive-routing",
           WithSteps(<<"bench", "diagnose", "check", "json", "csv">>, RoutingArms)) EXCEPT
        !.checked = {"options"}, !.diagnosed = {"routes"}, !.exactly = {"tokens", "error"},
        !.demanded = {"shows"},
        !.pairs = {<<2, 15>>}, !.paired = {"tokens", "routes", "error"}]

----------------------------------------------------------------------------
\* The tools that verify drafts.  The text of a natural run comes first; the
\* scripts are made of it, and each arm is run once more with diagnostics.

\* This tool demands three of the counts.
FirstCounts(blocks, proposed, accepted) ==
    [blocks |-> blocks, proposed |-> proposed, accepted |-> accepted]

SpeculativeArms ==
    << Scripted("greedy", "cpu", <<>>, "token-major", FirstCounts(0, 0, 0)),
       Scripted("perfect-block2", "cpu", Perfect, "token-major", FirstCounts(2, 3, 3)),
       Scripted("mixed-block2", "cpu", Mixed, "token-major", FirstCounts(4, 4, 1)) >>

SpeculativeVerification ==
    [Study("speculative-verification", SpeculativeArms) EXCEPT
       !.baseline = TRUE, !.diagnosed = {"tokens", "routes", "error", "counts"},
       !.writes = <<"summary.json", "summary.csv">>]

ExpertMajorArms(backend) ==
    << Scripted("greedy", backend, <<>>, "token-major", Counts(0, 0, 0, 0, 0, 0)),
       Scripted("token-major-perfect-2", backend, Perfect, "token-major", Counts(2, 3, 3, 5, 0, 0)),
       Scripted("expert-major-perfect-2", backend, Perfect, "expert-major", Counts(2, 3, 3, 5, 5, 0)),
       Scripted("token-major-mixed-2", backend, Mixed, "token-major", Counts(4, 4, 1, 5, 0, 0)),
       Scripted("expert-major-mixed-2", backend, Mixed, "expert-major", Counts(4, 4, 1, 5, 8, 3)) >>

ExpertMajorVerification ==
    [Study("expert-major-verification", ExpertMajorArms("cpu")) EXCEPT
       !.baseline = TRUE, !.diagnosed = {"tokens", "routes", "error", "counts", "shows"},
       !.writes = <<"summary.json", "summary.csv">>]

\* The five arms on the CUDA target, then single released experts.
ReleasedBatchArms ==
    << Arm("scalar-2", "single", "scalar"), Arm("batch-2", "single", "batch"),
       Arm("scalar-4", "single", "scalar"), Arm("batch-4", "single", "batch") >>

CudaExpertMajor ==
    [Study("cuda-expert-major", ExpertMajorArms("cuda") \o ReleasedBatchArms) EXCEPT
       !.baseline = TRUE, !.diagnosed = {"tokens", "routes", "error", "counts", "shows"},
       !.demanded = {"shows", "error"}, !.pairs = {<<6, 7>>, <<8, 9>>}, !.paired = {"place"},
       !.writes = <<"summary.json", "summary.csv">>]

\* The AURORA tools: the natural run, then two variants of the draft model
\* under two block policies and two verifications.
Paired(natural, left, right) ==
    [i \in 1..9 |->
        LET side == IF i % 2 = 0 THEN left ELSE right
            policy == IF i \in {2, 3, 6, 7} THEN "fixed-2" ELSE "adaptive"
            verification == IF i <= 5 THEN "token" ELSE "expert"
        IN [Arm(IF i = 1 THEN "natural-greedy"
                ELSE Engine(side, Engine(policy, verification)), "cpu",
                IF i = 1 THEN natural ELSE side)
               EXCEPT !.steps = Bench \o <<"diagnose", "check">>]]

DraftPairs == {<<2, 3>>, <<4, 5>>, <<6, 7>>, <<8, 9>>}

AuroraStudy(name, arms) ==
    [Study(name, arms) EXCEPT
       !.baseline = TRUE, !.diagnosed = {"tokens", "routes", "error"}, !.checked = {"shows"},
       !.pairs = DraftPairs, !.paired = {"tokens"}, !.writes = <<"summary.csv", "summary.json">>]

ReplayArms ==
    [i \in 1..7 |->
        [Arm(<<"natural-greedy", "aurora-k4-fixed-1", "aurora-k4-fixed-2", "aurora-k4-fixed-4",
               "aurora-k4-adaptive-token", "aurora-k4-fixed-2-expert",
               "aurora-k4-adaptive-expert">>[i], "cpu", IF i = 1 THEN "none" ELSE "draft")
            EXCEPT !.steps = Bench \o <<"diagnose", "check">>]]

AuroraReplay ==
    [AuroraStudy("aurora-replay", ReplayArms) EXCEPT
       !.based = {"tokens"}, !.pairs = {}, !.writes = <<"summary.json", "summary.csv">>]

PersistentArms == Paired("none", "replay", "persistent")

PersistentAurora ==
    [AuroraStudy("persistent-aurora", PersistentArms) EXCEPT !.based = {"tokens"}]

DraftArms == Paired("none", "cpu", "cuda")

CudaAuroraDraft == [AuroraStudy("cuda-aurora-draft", DraftArms) EXCEPT !.based = {"tokens"}]

DraftResidencyArms == Paired("none", "transient", "resident")

CudaAuroraResidency ==
    [AuroraStudy("cuda-aurora-residency", DraftResidencyArms) EXCEPT !.based = {"tokens"}]

GridArms == Paired("none", "grouped", "grid")

CudaAuroraGrid == AuroraStudy("cuda-aurora-grid", GridArms)

LayerArms == Paired("none", "grid", "layer")

CudaAuroraMoeLayer == AuroraStudy("cuda-aurora-moe-layer", LayerArms)

----------------------------------------------------------------------------
\* The tools that time one layer or expert of released dimensions.  Each arm
\* is one process of a benchmark of its own.

ExpertFusionArms == << Arm("none", "single", "none"), Arm("routed-accumulate", "single", "fused") >>

ExpertFusion == [Study("cuda-expert-fusion", ExpertFusionArms) EXCEPT
                   !.demanded = {"error", "shows"}, !.matched = {"place"}]

ReleasedArms ==
    [i \in 1..6 |->
        LET side == IF i % 2 = 1 THEN "split" ELSE "layer" IN
        [Arm(Engine(side, <<"1", "1", "4", "4", "16", "16">>[i]), "single", side)
            EXCEPT !.steps = <<"bench", "check", "json">>]]

ReleasedMoeLayer ==
    [Study("cuda-released-moe-layer", ReleasedArms) EXCEPT
       !.checked = {"options", "error", "shows"},
       !.writes = <<"summary.csv", "summary.json">>]

AdmissionArms ==
    [i \in 1..18 |->
        LET kind == <<"split-per-call", "layer-per-call", "layer-admission">>[((i - 1) \div 6) + 1]
            experts == <<"1", "4", "16">>[(((i - 1) \div 2) % 3) + 1]
            profiler == <<"off", "on">>[((i - 1) % 2) + 1]
        IN [Arm(Engine(kind, Engine(experts, profiler)), "single", Engine(kind, profiler))
               EXCEPT !.steps = <<"bench", "check", "json">>]]

AdmissionValidation ==
    [Study("cuda-admission-validation", AdmissionArms) EXCEPT
       !.checked = {"options", "error", "shows"},
       !.pairs = {<<2 * i - 1, 2 * i>> : i \in 1..9}, !.paired = {"error"},
       !.writes = <<"summary.csv", "summary.json">>]

Studies ==
    {Ffn, Fusion, Transfer, Residency, L1Cache, L2Reader, BoundedSlice, DeadlineLoader,
     CachePolicies, TaskProfiles, AdaptiveRouting, SpeculativeVerification,
     ExpertMajorVerification, CudaExpertMajor, AuroraReplay, PersistentAurora, CudaAuroraDraft,
     CudaAuroraResidency, CudaAuroraGrid, CudaAuroraMoeLayer, ExpertFusion, ReleasedMoeLayer,
     AdmissionValidation}
=============================================================================
