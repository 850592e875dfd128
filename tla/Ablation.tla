------------------------------ MODULE Ablation ------------------------------
(***************************************************************************)
(* A tool of src/tools that runs a study and publishes it: the arms in     *)
(* order, each measured by benchmark_once (or by one process of a          *)
(* benchmark of its own), written to the output directory and compared;    *)
(* then the gates over all arms, and only then the summary.  A run may be  *)
(* killed between any two writes, and the tool may be run again in the     *)
(* same directory.                                                         *)
(*                                                                         *)
(* The runner is a process that reports.  In the first run at most one     *)
(* thing is wrong: a field of the reports of some processes of one arm, a  *)
(* process that fails, or an arm that fails for lack of storage support.   *)
(* The processes of one benchmark_once write into a temporary directory    *)
(* and their order shows nowhere else, so that an arm is measured in one   *)
(* step.                                                                   *)
(***************************************************************************)
EXTENDS AblationStudies

CONSTANTS MaxRuns     \* how often the tool is run in one directory

VARIABLES
    study,      \* the tool
    phase, run, \* where the tool is, and how often it was started
    trouble,    \* what is wrong in this run
    missing,    \* the storage classes this machine lacks
    at, step,   \* the arm and its step
    got,        \* the results of the arms so far
    disk,       \* per arm the runs its files are of
    summary     \* the files of the summary

toolVars == <<study, phase, run, trouble, missing, at, step, got, disk, summary>>

Fields == {"tokens", "routes", "error", "options", "place", "shows"}
Nothing == [arm |-> 0, who |-> {}, what |-> "nothing"]

\* A profiled arm is run once more to keep the profile it has observed.
KeepsProfile(i) == study.arms[i].ran \in {"cold", "prior"}

\* The processes of an arm: the samples of benchmark_once and its profile or
\* diagnostic run, and the diagnostic run of the tool, which is the baseline's
\* for the first arm; or just one.
Processes(i) ==
    IF study.arms[i].backend = "single" THEN {"first"}
    ELSE {"first", "second", "own"} \cup (IF KeepsProfile(i) THEN {"profile"} ELSE {})
                                   \cup (IF "diagnose" \in ToSet(study.arms[i].steps)
                                         THEN {"tool"} ELSE {})

Whose(i) ==
    {Processes(i)} \cup
    {who \in {{"second"}, {"first", "second"}, {"own"}, {"first", "second", "own"}, {"profile"},
             {"tool"}} : who \subseteq Processes(i)}

Troubles ==
    (UNION {[arm : {i}, who : Whose(i), what : Fields \cup {"failure"}] : i \in DOMAIN study.arms}) \cup
    [arm : DOMAIN study.arms, who : {{"first"}}, what : {"unavailable"}] \cup
    (IF study.seeds THEN {[arm |-> 0, who |-> {"tool"}, what |-> "failure"]} ELSE {})

Classes == {study.arms[i].class : i \in DOMAIN study.arms} \ {"any"}
Arms == DOMAIN study.arms
This == study.arms[at]

----------------------------------------------------------------------------
\* The reports.

Wrongly(i, process, field) ==
    trouble.arm = i /\ process \in trouble.who /\ trouble.what = field

\* A runner that ignores its option runs the first arm's variant.
Report(i, process) ==
    LET arm == study.arms[i] IN
    [tokens |-> IF Wrongly(i, process, "tokens") THEN "other"
                ELSE IF arm.exact THEN "natural" ELSE "lossy",
     error |-> IF Wrongly(i, process, "error") THEN "other"
               ELSE IF arm.exact THEN "none" ELSE "lossy",
     routes |-> IF Wrongly(i, process, "routes") THEN "other" ELSE "natural",
     options |-> IF Wrongly(i, process, "options") THEN "other" ELSE "asked",
     place |-> IF Wrongly(i, process, "place") THEN "other" ELSE "here",
     shows |-> IF Wrongly(i, process, "shows") THEN study.arms[1].ran ELSE arm.ran,
     counts |-> IF Wrongly(i, process, "shows") THEN NoCounts ELSE arm.counts]

Unavailable == This.class \in missing \/ Wrongly(at, "first", "unavailable")

\* The fields of a report that no two samples of one arm may differ in.
Deterministic == {"tokens", "options", "place", "shows", "counts"}

\* A process that fails or prints no report.
ProcessFails ==
    \E process \in {"first", "second", "own", "profile"} : Wrongly(at, process, "failure")

\* The diagnostic run has other tokens than the first sample, or, on CUDA, than
\* a plain CPU run.
DiagnosisDiffers ==
    Report(at, "own").tokens #
        (IF This.backend = "cpu" THEN Report(at, "first").tokens ELSE "natural")

SamplesDiffer ==
    \E field \in Deterministic : Report(at, "second")[field] # Report(at, "first")[field]

OptionsIgnored == Report(at, "first").options # "asked"

\* The run that keeps the profile has other tokens than the first sample.
ProfileDiffers ==
    KeepsProfile(at) /\ Report(at, "profile").tokens # Report(at, "first").tokens

\* Mutant: the diagnostic run's tokens are not compared.
TrustingBenchmark == ProcessFails \/ ProfileDiffers \/ SamplesDiffer \/ OptionsIgnored

\* What benchmark_once refuses.
BenchmarkRefuses ==
    ProcessFails \/ DiagnosisDiffers \/ ProfileDiffers \/ SamplesDiffer \/ OptionsIgnored

\* One process of another benchmark.
ProcessRefuses == Wrongly(at, "first", "failure")

\* Tokens and counters of a record are the samples', routes and the numerical
\* error the diagnostic run's.
Measured ==
    IF This.backend = "single" THEN Report(at, "first")
    ELSE [Report(at, "first") EXCEPT
             !.routes = Report(at, "own").routes, !.error = Report(at, "own").error]

----------------------------------------------------------------------------
\* The demands.

Result(measured) == [skipped |-> FALSE, measured |-> measured, diagnosed |-> measured]
Skipped == [skipped |-> TRUE]

Ran == {i \in DOMAIN got : ~got[i].skipped}
Base == CHOOSE i \in Ran : \A j \in Ran : i <= j

\* Mutant: the echo of the options is taken for their effect.
AsConfigured(i, report, field) ==
    CASE field = "options" -> report.options = "asked"
      [] field = "error" -> report.error = "none"
      [] OTHER -> TRUE

\* What is demanded of a single report.
AsAsked(i, report, field) ==
    CASE field = "options" -> report.options = "asked"
      [] field = "shows" -> study.arms[i].shown => report.shows = study.arms[i].ran
      [] field = "error" -> report.error = "none"
      [] OTHER -> TRUE

\* What the diagnostic runs are compared with: the baseline, which is made
\* before the first arm and stands in for its diagnostic run, or the first one.
Natural == IF study.baseline THEN Report(1, "tool") ELSE got[1].diagnosed

DiagnosisAgrees(i, field) ==
    LET diagnosed == got[i].diagnosed
        demanded  == study.arms[i].demanded
    IN
    CASE field = "counts" -> \A c \in DOMAIN demanded : diagnosed.counts[c] = demanded[c]
      [] field = "shows" -> AsAsked(i, diagnosed, "shows")
      [] OTHER -> diagnosed[field] = Natural[field]

ArmPasses(i) ==
    /\ \A field \in study.checked : AsAsked(i, got[i].measured, field)
    /\ \A field \in study.based :
          got[i].measured[field] = IF study.baseline THEN Natural[field]
                                    ELSE got[1].measured[field]
    /\ "diagnose" \in ToSet(study.arms[i].steps) =>
          \A field \in study.diagnosed : DiagnosisAgrees(i, field)

\* Arms the tool diagnosed are not compared again at the end, except for the
\* demands it makes of the measured records of the routing modes.
Late(i) == "diagnose" \in ToSet(study.arms[i].steps) => ~study.baseline

GatesPass ==
    /\ Ran # {}
    /\ \A i \in Ran :
          /\ Late(i) => \A field \in study.demanded : AsAsked(i, got[i].measured, field)
          /\ \A field \in study.matched : got[i].measured[field] = got[Base].measured[field]
          /\ study.arms[i].exact =>
                \A field \in study.exactly : got[i].diagnosed[field] = Natural[field]
    /\ \A pair \in study.pairs : \A field \in study.paired :
          got[pair[1]].measured[field] = got[pair[2]].measured[field]
    /\ study.classes =>
          \A i, j \in Arms : study.arms[i].class = study.arms[j].class =>
                                (i \in Ran <=> j \in Ran)

----------------------------------------------------------------------------
NoFiles == [json |-> [i \in Arms |-> 0], csv |-> [i \in Arms |-> 0],
            skipped |-> [i \in Arms |-> 0]]
NoSummary == [json |-> 0, csv |-> 0, arms |-> <<>>]

\* The tool is started, for the first time or again in the same directory.  Only
\* the first run has trouble; a later one may lack support or be killed.
Start ==
    /\ phase \in {"idle", "refused", "killed", "done"} /\ run < MaxRuns
    /\ run' = run + 1
    /\ trouble' \in {Nothing} \cup (IF run = 0 THEN Troubles ELSE {})
    /\ missing' \in {{}, Classes} \cup {{class} : class \in Classes}
    /\ at' = 1 /\ step' = 1 /\ got' = <<>>
    /\ phase' = IF study.seeds \/ study.baseline THEN "prologue" ELSE "arms"
    /\ UNCHANGED <<study, disk, summary>>

Refuse == phase' = "refused" /\ UNCHANGED <<study, run, trouble, missing, at, step, got, disk, summary>>

\* The seed runs of the profiles, or the diagnostic run of the natural target.
Prologue ==
    /\ phase = "prologue"
    /\ IF Wrongly(0, "tool", "failure") \/ (study.baseline /\ Wrongly(1, "tool", "failure"))
       THEN Refuse
       ELSE /\ phase' = "arms"
            /\ UNCHANGED <<study, run, trouble, missing, at, step, got, disk, summary>>

Next1 == IF step < Len(This.steps) THEN at' = at /\ step' = step + 1
         ELSE at' = at + 1 /\ step' = 1

Doing(what) == phase = "arms" /\ at \in Arms /\ This.steps[step] = what

Measure ==
    /\ Doing("bench") /\ ~Unavailable
    /\ IF IF This.backend = "single" THEN ProcessRefuses ELSE BenchmarkRefuses THEN Refuse
       ELSE /\ got' = Append(got, Result(Measured))
            /\ Next1
            /\ UNCHANGED <<study, phase, run, trouble, missing, disk, summary>>

\* Mutant: an arm without support is passed over.
SkipQuietly ==
    /\ Doing("bench") /\ Unavailable /\ study.skips
    /\ got' = Append(got, Skipped)
    /\ at' = at + 1 /\ step' = 1
    /\ UNCHANGED <<study, phase, run, trouble, missing, disk, summary>>

\* Lack of support is written down where the tool expects it.
SkipArm ==
    /\ Doing("bench") /\ Unavailable /\ study.skips
    /\ got' = Append(got, Skipped)
    /\ disk' = [disk EXCEPT !.skipped[at] = run]
    /\ at' = at + 1 /\ step' = 1
    /\ UNCHANGED <<study, phase, run, trouble, missing, summary>>

StopUnavailable == Doing("bench") /\ Unavailable /\ ~study.skips /\ Refuse

\* write_results, or the writer of the tool: first the JSON, then the CSV.
WriteJson ==
    /\ Doing("json")
    /\ disk' = [disk EXCEPT !.json[at] = run]
    /\ Next1
    /\ UNCHANGED <<study, phase, run, trouble, missing, got, summary>>

WriteCsv ==
    /\ Doing("csv")
    /\ disk' = [disk EXCEPT !.csv[at] = run]
    /\ Next1
    /\ UNCHANGED <<study, phase, run, trouble, missing, got, summary>>

Diagnose ==
    /\ Doing("diagnose")
    /\ IF Wrongly(at, "tool", "failure") THEN Refuse
       ELSE /\ got' = [got EXCEPT ![at].diagnosed = Report(at, "tool")]
            /\ Next1
            /\ UNCHANGED <<study, phase, run, trouble, missing, disk, summary>>

Check ==
    /\ Doing("check")
    /\ IF ArmPasses(at)
       THEN Next1 /\ UNCHANGED <<study, phase, run, trouble, missing, got, disk, summary>>
       ELSE Refuse

Judge ==
    /\ phase = "arms" /\ at \notin Arms
    /\ IF GatesPass
       THEN /\ phase' = "publish" /\ step' = 1
            /\ UNCHANGED <<study, run, trouble, missing, at, got, disk, summary>>
       ELSE Refuse

WriteSummary ==
    /\ phase = "publish"
    /\ summary' = IF study.writes[step] = "summary.json"
                  THEN [summary EXCEPT !.json = run, !.arms = got]
                  ELSE [summary EXCEPT !.csv = run]
    /\ IF step < Len(study.writes) THEN step' = step + 1 /\ phase' = phase
       ELSE step' = step /\ phase' = "done"
    /\ UNCHANGED <<study, run, trouble, missing, at, got, disk>>

KillTool ==
    /\ phase \in {"prologue", "arms", "publish"} /\ trouble = Nothing
    /\ phase' = "killed"
    /\ UNCHANGED <<study, run, trouble, missing, at, step, got, disk, summary>>

ToolInit ==
    /\ study \in Studies
    /\ phase = "idle" /\ run = 0 /\ trouble = Nothing /\ missing = {}
    /\ at = 1 /\ step = 1 /\ got = <<>>
    /\ disk = NoFiles /\ summary = NoSummary

ToolNext ==
    \/ Start \/ Prologue \/ Measure \/ SkipArm \/ StopUnavailable
    \/ WriteJson \/ WriteCsv \/ Diagnose \/ Check \/ Judge \/ WriteSummary \/ KillTool

ToolSpec == ToolInit /\ [][ToolNext]_toolVars

----------------------------------------------------------------------------
\* Five tools compare no measured tokens.  Five compare those of their own
\* diagnostic runs only, not those of benchmark_once.
Compares ==
    /\ study.name \notin {"cuda-residency", "cuda-expert-major", "cuda-expert-fusion",
                          "cuda-released-moe-layer", "cuda-admission-validation"}
    /\ study.name \in {"speculative-verification", "expert-major-verification",
                       "adaptive-routing", "cuda-aurora-grid", "cuda-aurora-moe-layer"} =>
          trouble.who # {"first", "second", "own"}

\* Arms of a summary that have to be exact have the same tokens in the record
\* that is published, whichever process was wrong, if the tool compares them
\* (the comparisons of benchmark_once and of the tools).
PublishedArmsAgree ==
    phase = "done" /\ Compares =>
        \A i, j \in DOMAIN summary.arms :
            /\ ~summary.arms[i].skipped /\ ~summary.arms[j].skipped
            /\ study.arms[i].exact /\ study.arms[j].exact
            => summary.arms[i].measured.tokens = summary.arms[j].measured.tokens

\* An arm whose processes all ran the first arm's variant is not published as
\* its own variant, if the tool reads the counters that tell.
IgnoredOptionIsRefused ==
    phase = "done" /\ trouble.what = "shows" /\ trouble.who = Processes(trouble.arm)
        => \/ study.name = "cuda-residency"
           \/ trouble.arm \notin Ran
           \/ ~study.arms[trouble.arm].shown
           \/ study.arms[trouble.arm].ran = study.arms[1].ran

\* When the tool has ended well, the summary and every file of an arm it names
\* are of this run; a summary is never of a run whose files were not written.
SummaryNamesItsFiles ==
    /\ phase = "done" => summary.json = run
    /\ \A i \in DOMAIN summary.arms :
          IF summary.arms[i].skipped THEN disk.skipped[i] >= summary.json
          ELSE /\ disk.json[i] >= summary.json
               /\ "csv" \in ToSet(study.arms[i].steps) => disk.csv[i] >= summary.json

\* A runner that does what it is asked is never refused: the counts that the
\* tools demand of a draft are those the target makes of it.
HonestRunIsPublished ==
    phase = "refused" => trouble # Nothing \/ missing # {}
=============================================================================
