-------------------------- MODULE AuroraScheduler --------------------------
(***************************************************************************)
(* AdaptiveDraftScheduler: how many tokens the draft model may propose.    *)
(*                                                                         *)
(* A proposal has a length of the ladder 1, 2, 4.  Every verified proposal *)
(* is counted per draft position (was the position reached and accepted)   *)
(* and per rung (how many expert payloads were loaded for how many         *)
(* assignments).  A rejected proposal caps the next choice at the rung     *)
(* below; a rejected proposal of one token caps it at zero once, and the   *)
(* next choice after that is one more attempt at length one.               *)
(*                                                                         *)
(* Rationals are pairs <<n, d>>, compared by cross multiplication; the     *)
(* counters stay far below 2^53, where the doubles of the code are exact   *)
(* enough to agree.  The unsigned counters' overflow guards are out of     *)
(* reach at that size.                                                     *)
(***************************************************************************)
EXTENDS Naturals, Sequences, FiniteSets, FiniteSetsExt

CONSTANTS
    Policies,           \* subset of {"fixed", "adaptive"}: AuroraBlockPolicy
    MaximumLengths,     \* config.maximum_length, a rung of the ladder
    MinimumSurvival,    \* config.minimum_prefix_survival as <<n, d>>
    MaximumLoadRatio    \* config.maximum_unique_load_ratio as <<n, d>>

Ladder == <<1, 2, 4>>
Rungs == 1..3
Positions == 1..4
NoRung == 0
NoCap == 99

RungOf(length) == CHOOSE r \in Rungs : Ladder[r] = length
IsRung(length) == \E r \in Rungs : Ladder[r] = length
Fraction == {q \in Nat \X Nat : q[2] > 0 /\ q[1] <= q[2]}

ASSUME SchedulerConfigAssumption ==
    /\ Policies \subseteq {"fixed", "adaptive"} /\ Policies # {}
    /\ MaximumLengths \subseteq {1, 2, 4} /\ MaximumLengths # {}
    /\ MinimumSurvival \in Fraction /\ MaximumLoadRatio \in Fraction

VARIABLES
    config,      \* [policy, maximum], fixed by create
    scheduler    \* the counters, the qualified rung, the cap, the retry flag

Fresh == [trials    |-> [p \in Positions |-> 0],
          successes |-> [p \in Positions |-> 0],
          loads     |-> [r \in Rungs |-> 0],
          assigned  |-> [r \in Rungs |-> 0],
          observed  |-> [r \in Rungs |-> FALSE],
          qualified |-> NoRung,
          cap       |-> NoCap,
          retry     |-> FALSE]

\* What the verifier reports of one proposal.
Feedback(n, a, l, m) ==
    [proposed |-> n, accepted |-> a, loads |-> l, assigned |-> m]

----------------------------------------------------------------------------
\* The two gates an observed rung has to pass.

Survives(s, length) ==
    (s.successes[length] + 1) * MinimumSurvival[2]
        >= MinimumSurvival[1] * (s.trials[length] + 2)

Affordable(s, r) ==
    s.assigned[r] # 0 =>
        s.loads[r] * MaximumLoadRatio[2] <= MaximumLoadRatio[1] * s.assigned[r]

\* The ceiling of a choice: the request, the configuration and the cap.
Ceiling(s, max) == Min({max, config.maximum, s.cap})

Fitting(s, max) == {r \in Rungs : Ladder[r] <= Ceiling(s, max)}

Explored(s) ==
    1..(IF s.qualified = NoRung THEN 1
        ELSE Min({s.qualified + 1, RungOf(config.maximum)}))

Eligible(s, max) ==
    {r \in Fitting(s, max) \cap Explored(s) :
        s.observed[r] => Survives(s, Ladder[r]) /\ Affordable(s, r)}

Longest(rungs) == IF rungs = {} THEN 0 ELSE Ladder[Max(rungs)]

Retries(s, max) == s.retry /\ Ceiling(s, max) >= 1

\* The length select returns for a request of at most max tokens.
Choice(s, max) ==
    IF max = 0 \/ Ceiling(s, max) = 0 THEN 0
    ELSE IF config.policy = "fixed" THEN Longest(Fitting(s, max))
    ELSE IF Retries(s, max) THEN 1
    ELSE Longest(Eligible(s, max))

\* What select leaves behind: a zero cap is spent and grants one retry, a
\* retry is spent by the choice it forced.
AfterSelect(s, max) ==
    IF max = 0 THEN s
    ELSE IF Ceiling(s, max) = 0 THEN
        IF s.cap = 0 THEN [s EXCEPT !.cap = NoCap, !.retry = TRUE] ELSE s
    ELSE IF config.policy = "adaptive" /\ Retries(s, max)
        THEN [s EXCEPT !.retry = FALSE] ELSE s

----------------------------------------------------------------------------
\* Reports observe accepts; a report of an empty proposal must be all zero.
\* Reports leave out the positions of the target that were evaluated and
\* discarded: the scheduler compares the two and keeps neither.
Acceptable(v) ==
    IF v.proposed = 0
    THEN v.accepted = 0 /\ v.loads = 0 /\ v.assigned = 0
    ELSE /\ IsRung(v.proposed)
         /\ v.proposed <= config.maximum
         /\ v.accepted <= v.proposed
         /\ v.loads <= v.assigned

\* The counters after a report on rung r.
Counted(s, v, r) ==
    [s EXCEPT
        !.trials = [p \in Positions |-> @[p] + IF p <= v.proposed THEN 1 ELSE 0],
        !.successes = [p \in Positions |-> @[p] + IF p <= v.accepted THEN 1 ELSE 0],
        !.loads[r] = @ + v.loads,
        !.assigned[r] = @ + v.assigned,
        !.observed[r] = TRUE]

RejectedHere(s, r) == [s EXCEPT !.cap = IF r = 1 THEN 0 ELSE Ladder[r]]

Rejected(s, r) == [s EXCEPT !.cap = IF r = 1 THEN 0 ELSE Ladder[r - 1]]

Confirmed(s, r) ==
    [s EXCEPT !.cap = NoCap,
              !.qualified = IF Survives(s, Ladder[r]) /\ Affordable(s, r) /\ r > @
                            THEN r ELSE @]

\* The state observe leaves after an acceptable report.
AfterObserve(s, v) ==
    IF v.proposed = 0 THEN s
    ELSE LET r == RungOf(v.proposed)
             c == Counted(s, v, r)
         IN  IF config.policy = "fixed" THEN c
             ELSE IF v.accepted < v.proposed THEN Rejected(c, r)
             ELSE Confirmed(c, r)

----------------------------------------------------------------------------
\* The two calls as steps of the scheduler, for the modules that use it.

SchedulerInit ==
    /\ config \in [policy : Policies, maximum : MaximumLengths]
    /\ scheduler = Fresh

\* Result<size_t> select(request_maximum)
Select(max, length) ==
    /\ length = Choice(scheduler, max)
    /\ scheduler' = AfterSelect(scheduler, max)
    /\ UNCHANGED config

\* Result<bool> observe(verification): a refused report changes nothing.
Observe(v, ok) ==
    /\ ok = Acceptable(v)
    /\ scheduler' = IF ok THEN AfterObserve(scheduler, v) ELSE scheduler
    /\ UNCHANGED config

SchedulerType ==
    /\ config \in [policy : Policies, maximum : MaximumLengths]
    /\ DOMAIN scheduler = DOMAIN Fresh
    /\ scheduler.trials \in [Positions -> Nat]
    /\ scheduler.successes \in [Positions -> Nat]
    /\ scheduler.loads \in [Rungs -> Nat]
    /\ scheduler.assigned \in [Rungs -> Nat]
    /\ scheduler.observed \in [Rungs -> BOOLEAN]
    /\ scheduler.qualified \in {NoRung} \cup Rungs
    /\ scheduler.cap \in {0, 1, 2, NoCap}
    /\ scheduler.retry \in BOOLEAN
============================================================================
