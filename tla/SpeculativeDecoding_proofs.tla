--------------------- MODULE SpeculativeDecoding_proofs ---------------------
(***************************************************************************)
(* Speculative decoding yields the text greedy decoding would, for every   *)
(* target model, draft provider, script, proposal length and verification: *)
(* it implements GreedyText.  An AURORA scheduler climbs and descends its  *)
(* ladder as its design says, under any reports.  An AURORA provider, its  *)
(* cursor and the draft state stay in step under any caller, and with the  *)
(* text of the engine, which is one of them.                               *)
(***************************************************************************)
EXTENDS SpeculativeDecoding, ProviderProtocol, DraftSchedule,
        SequenceTheorems, WellFoundedInduction, TLAPS

-----------------------------------------------------------------------------
(* The scheduler alone: the counters only decide which rungs are eligible; *)
(* what matters is how the qualified rung, the cap and the retry flag      *)
(* follow the history of the proposals.                                    *)

\* Adaptive: what the scheduler remembers agrees with the history.
Remembers ==
  config.policy = "adaptive" =>
    /\ \A r \in Rungs : r <= scheduler.qualified => Ladder[r] \in confirmed
    /\ \A r \in Rungs : offered = Ladder[r] => r <= scheduler.qualified + 1
    /\ refused = 2 => scheduler.cap = 1 /\ (offered # Waiting => offered < 2)
    /\ refused = 4 => scheduler.cap = 2 /\ (offered # Waiting => offered < 4)
    /\ refused = 1 =>
         \/ scheduler.cap = 0 /\ rests = 0 /\ offered \in {0, Waiting}
         \/ /\ scheduler.cap = NoCap /\ scheduler.retry
            /\ rests = 1 /\ offered \in {0, Waiting}
         \/ rests = 1 /\ offered = 1

\* A report that is due is one of the blocks of the run.
BlockDue == offered # Waiting => blocks < MaxBlocks

ScheduleInv == TypeOK /\ BlockDue /\ Remembers

-----------------------------------------------------------------------------
(* The ladder and the ceiling                                              *)

\* A ceiling is the smallest of the request, the configuration and the cap.
LEMMA CeilingIs ==
  ASSUME NEW s, s.cap \in {0, 1, 2, NoCap}, config.maximum \in {1, 2, 4},
         NEW max \in Nat
  PROVE  /\ Ceiling(s, max) \in Nat
         /\ Ceiling(s, max) <= s.cap
         /\ Ceiling(s, max) <= max /\ Ceiling(s, max) <= config.maximum
         /\ Ceiling(s, max) = 0 <=> max = 0 \/ s.cap = 0
<1> DEFINE S == {max, config.maximum, s.cap}
<1>1. \A x \in S : x \in Nat
  BY DEF NoCap
<1>2. \E x \in S : \A y \in S : x <= y
  BY <1>1
<1>3. Min(S) \in S /\ \A y \in S : Min(S) <= y
  BY <1>2 DEF Min
<1> QED
  BY <1>1, <1>3 DEF Ceiling, NoCap

\* The longest of some rungs is the length of one of them.
LEMMA LongestIs ==
  ASSUME NEW rungs \in SUBSET Rungs
  PROVE  \/ rungs = {} /\ Longest(rungs) = 0
         \/ \E r \in rungs : Longest(rungs) = Ladder[r]
<1>1. CASE rungs = {}
  BY <1>1 DEF Longest
<1>2. CASE rungs # {}
  <2>1. \E x \in rungs : \A y \in rungs : x >= y
    <3>1. \A y \in rungs : y \in {1, 2, 3}
      BY DEF Rungs
    <3>2. CASE 3 \in rungs
      BY <3>1, <3>2
    <3>3. CASE 3 \notin rungs /\ 2 \in rungs
      BY <3>1, <3>3
    <3>4. CASE 3 \notin rungs /\ 2 \notin rungs
      <4>1. 1 \in rungs /\ \A y \in rungs : y = 1
        BY <1>2, <3>1, <3>4
      <4> QED
        BY <4>1
    <3> QED
      BY <3>2, <3>3, <3>4
  <2>2. Max(rungs) \in rungs
    BY <2>1 DEF Max
  <2> QED
    BY <1>2, <2>2 DEF Longest
<1> QED
  BY <1>1, <1>2

\* A length of the ladder has one rung.
LEMMA RungIs ==
  ASSUME NEW r \in Rungs
  PROVE  RungOf(Ladder[r]) = r /\ Ladder[r] \in {1, 2, 4}
         /\ (Ladder[r] = 1 <=> r = 1) /\ (Ladder[r] = 2 <=> r = 2) /\ (Ladder[r] = 4 <=> r = 3)
<1>1. Ladder[1] = 1 /\ Ladder[2] = 2 /\ Ladder[3] = 4
  BY DEF Ladder
<1>2. \A q \in Rungs : Ladder[q] = Ladder[r] <=> q = r
  BY <1>1 DEF Rungs
<1> QED
  BY <1>1, <1>2 DEF RungOf, Rungs

-----------------------------------------------------------------------------
(* select and observe                                                      *)

\* An adaptive choice keeps to the cap and to the rung behind the qualified
\* one; a cap of zero answers zero and a retry answers one.
LEMMA ChoiceIs ==
  ASSUME SchedulerType, config.policy = "adaptive", NEW max \in Nat,
         NEW length, length = Choice(scheduler, max)
  PROVE  /\ length \in {0, 1, 2, 4} /\ length <= scheduler.cap
         /\ \A r \in Rungs : length = Ladder[r] => r <= scheduler.qualified + 1
         /\ max = 0 \/ scheduler.cap = 0 => length = 0
         /\ max # 0 /\ scheduler.cap # 0 /\ scheduler.retry => length = 1
<1> DEFINE E == Eligible(scheduler, max)
<1>0. /\ config.maximum \in {1, 2, 4} /\ scheduler.cap \in {0, 1, 2, NoCap}
      /\ scheduler.qualified \in 0..3
  <2>1. config.maximum \in MaximumLengths
    BY DEF SchedulerType
  <2>2. config.maximum \in {1, 2, 4}
    BY <2>1, SchedulerConfigAssumption
  <2>3. scheduler.qualified \in 0..3
    BY DEF SchedulerType, NoRung, Rungs
  <2> QED
    BY <2>2, <2>3 DEF SchedulerType
<1>1. /\ Ceiling(scheduler, max) \in Nat /\ Ceiling(scheduler, max) <= scheduler.cap
      /\ Ceiling(scheduler, max) = 0 <=> max = 0 \/ scheduler.cap = 0
  BY <1>0, CeilingIs
<1>2. CASE Ceiling(scheduler, max) = 0
  <2>1. length = 0
    BY <1>2 DEF Choice
  <2> QED
    BY <1>0, <1>1, <1>2, <2>1, RungIs DEF NoCap
<1>3. CASE Ceiling(scheduler, max) # 0 /\ scheduler.retry
  <2>1. length = 1
    BY <1>1, <1>3 DEF Choice, Retries
  <2> QED
    BY <1>0, <1>1, <1>3, <2>1, RungIs DEF NoCap
<1>4. CASE Ceiling(scheduler, max) # 0 /\ ~scheduler.retry
  <2>1. length = Longest(E)
    BY <1>1, <1>4 DEF Choice, Retries
  <2>2. \A r \in E : /\ r \in Rungs /\ Ladder[r] <= Ceiling(scheduler, max)
                     /\ r <= scheduler.qualified + 1
    <3>1. \A r \in Explored(scheduler) : r <= scheduler.qualified + 1
      <4>1. CASE scheduler.qualified = NoRung
        BY <4>1 DEF Explored, NoRung
      <4>2. CASE scheduler.qualified # NoRung
        <5> DEFINE a == scheduler.qualified + 1
                   b == RungOf(config.maximum)
        <5>1. b \in Rungs
          <6>1. \E r \in Rungs : Ladder[r] = config.maximum
            BY <1>0 DEF Ladder, Rungs
          <6> QED
            BY <6>1, RungIs
        <5>2. a \in Nat /\ b \in Nat
          BY <1>0, <5>1 DEF Rungs
        <5>3. \E x \in {a, b} : \A y \in {a, b} : x <= y
          BY <5>2
        <5>4. Min({a, b}) \in {a, b} /\ Min({a, b}) <= a
          BY <5>3 DEF Min
        <5> QED
          BY <1>0, <4>2, <5>2, <5>4 DEF Explored
      <4> QED
        BY <4>1, <4>2
    <3> QED
      BY <3>1 DEF Eligible, Fitting
  <2>3. \/ length = 0
        \/ \E r \in E : length = Ladder[r]
    BY <2>1, <2>2, LongestIs
  <2>4. CASE length = 0
    BY <1>0, <1>1, <1>4, <2>4, RungIs DEF NoCap
  <2>5. CASE \E r \in E : length = Ladder[r]
    <3>1. PICK r \in E : length = Ladder[r]
      BY <2>5
    <3>2. r \in Rungs /\ RungOf(length) = r /\ length \in {1, 2, 4}
      BY <2>2, <3>1, RungIs
    <3>3. \A q \in Rungs : length = Ladder[q] => q = r
      BY <3>2, RungIs
    <3>4. length <= scheduler.cap
      BY <1>0, <1>1, <2>2, <3>1, <3>2 DEF NoCap
    <3> QED
      BY <1>1, <1>4, <2>2, <3>2, <3>3, <3>4
  <2> QED
    BY <2>3, <2>4, <2>5
<1> QED
  BY <1>2, <1>3, <1>4

\* The fields of a scheduler.
LEMMA FieldsAre ==
  DOMAIN Fresh = {"trials", "successes", "loads", "assigned", "observed",
                  "qualified", "cap", "retry"}
BY DEF Fresh

\* select spends a zero cap for a retry and a retry for the choice it forced.
LEMMA AfterSelectIs ==
  ASSUME SchedulerType, NEW max \in Nat,
         NEW s, s = AfterSelect(scheduler, max)
  PROVE  /\ DOMAIN s = DOMAIN Fresh
         /\ s.trials = scheduler.trials /\ s.successes = scheduler.successes
         /\ s.loads = scheduler.loads /\ s.assigned = scheduler.assigned
         /\ s.observed = scheduler.observed /\ s.qualified = scheduler.qualified
         /\ s.cap \in {0, 1, 2, NoCap} /\ s.retry \in BOOLEAN
         /\ max = 0 => s = scheduler
         /\ max # 0 /\ scheduler.cap = 0 => s.cap = NoCap /\ s.retry
         /\ scheduler.cap # 0 => s.cap = scheduler.cap
<1>0. config.maximum \in {1, 2, 4} /\ scheduler.cap \in {0, 1, 2, NoCap}
  <2>1. config.maximum \in MaximumLengths
    BY DEF SchedulerType
  <2> QED
    BY <2>1, SchedulerConfigAssumption DEF SchedulerType
<1>1. Ceiling(scheduler, max) = 0 <=> max = 0 \/ scheduler.cap = 0
  BY <1>0, CeilingIs
<1>2. \/ s = scheduler /\ (max = 0 \/ scheduler.cap # 0)
      \/ /\ max # 0 /\ scheduler.cap = 0
         /\ s = [scheduler EXCEPT !.cap = NoCap, !.retry = TRUE]
      \/ max # 0 /\ scheduler.cap # 0 /\ s = [scheduler EXCEPT !.retry = FALSE]
  BY <1>1 DEF AfterSelect
<1>3. CASE s = scheduler /\ (max = 0 \/ scheduler.cap # 0)
  BY <1>0, <1>3 DEF SchedulerType
<1>4. CASE /\ max # 0 /\ scheduler.cap = 0
           /\ s = [scheduler EXCEPT !.cap = NoCap, !.retry = TRUE]
  <2>1. /\ DOMAIN s = DOMAIN Fresh
        /\ s.trials = scheduler.trials /\ s.successes = scheduler.successes
        /\ s.loads = scheduler.loads /\ s.assigned = scheduler.assigned
        /\ s.observed = scheduler.observed /\ s.qualified = scheduler.qualified
        /\ s.cap = NoCap /\ s.retry = TRUE
    BY <1>4, FieldsAre DEF SchedulerType
  <2> QED
    BY <1>4, <2>1
<1>5. CASE max # 0 /\ scheduler.cap # 0 /\ s = [scheduler EXCEPT !.retry = FALSE]
  <2>1. /\ DOMAIN s = DOMAIN Fresh
        /\ s.trials = scheduler.trials /\ s.successes = scheduler.successes
        /\ s.loads = scheduler.loads /\ s.assigned = scheduler.assigned
        /\ s.observed = scheduler.observed /\ s.qualified = scheduler.qualified
        /\ s.cap = scheduler.cap /\ s.retry = FALSE
    BY <1>5, FieldsAre DEF SchedulerType
  <2> QED
    BY <1>0, <1>5, <2>1
<1> QED
  BY <1>2, <1>3, <1>4, <1>5

\* A report counts, and then confirms its rung or caps the next choice.
LEMMA AfterObserveIs ==
  ASSUME SchedulerType, NEW v, NEW r \in Rungs,
         v = Feedback(v.proposed, v.accepted, v.loads, v.assigned),
         v.proposed = Ladder[r], v.accepted \in Nat, v.accepted <= v.proposed,
         v.loads \in Nat, v.assigned \in Nat,
         NEW s, s = AfterObserve(scheduler, v)
  PROVE  /\ DOMAIN s = DOMAIN Fresh
         /\ s.trials \in [Positions -> Nat] /\ s.successes \in [Positions -> Nat]
         /\ s.loads \in [Rungs -> Nat] /\ s.assigned \in [Rungs -> Nat]
         /\ s.observed \in [Rungs -> BOOLEAN]
         /\ s.qualified \in {NoRung} \cup Rungs
         /\ s.cap \in {0, 1, 2, NoCap} /\ s.retry \in BOOLEAN
         /\ config.policy = "adaptive" /\ v.accepted < v.proposed =>
              /\ s.qualified = scheduler.qualified
              /\ s.cap = IF r = 1 THEN 0 ELSE Ladder[r - 1]
         /\ config.policy = "adaptive" /\ v.accepted = v.proposed =>
              \/ s.qualified = scheduler.qualified
              \/ s.qualified = r /\ r > scheduler.qualified
<1> DEFINE c == Counted(scheduler, v, r)
<1>1. RungOf(v.proposed) = r /\ v.proposed \in {1, 2, 4}
  BY RungIs
<1>2. /\ DOMAIN c = DOMAIN Fresh
      /\ c.trials \in [Positions -> Nat] /\ c.successes \in [Positions -> Nat]
      /\ c.loads \in [Rungs -> Nat] /\ c.assigned \in [Rungs -> Nat]
      /\ c.observed \in [Rungs -> BOOLEAN]
      /\ c.qualified = scheduler.qualified /\ c.cap = scheduler.cap
      /\ c.retry = scheduler.retry
  <2>1. /\ DOMAIN c = DOMAIN Fresh
        /\ c.trials = [p \in Positions |-> scheduler.trials[p] + IF p <= v.proposed THEN 1 ELSE 0]
        /\ c.successes = [p \in Positions |-> scheduler.successes[p] + IF p <= v.accepted THEN 1 ELSE 0]
        /\ c.loads = [scheduler.loads EXCEPT ![r] = @ + v.loads]
        /\ c.assigned = [scheduler.assigned EXCEPT ![r] = @ + v.assigned]
        /\ c.observed = [scheduler.observed EXCEPT ![r] = TRUE]
        /\ c.qualified = scheduler.qualified /\ c.cap = scheduler.cap
        /\ c.retry = scheduler.retry
    BY FieldsAre DEF SchedulerType, Counted
  <2>2. c.trials \in [Positions -> Nat]
    BY <2>1 DEF SchedulerType
  <2>3. c.successes \in [Positions -> Nat]
    BY <2>1 DEF SchedulerType
  <2>4. c.loads \in [Rungs -> Nat] /\ c.assigned \in [Rungs -> Nat]
    BY <2>1 DEF SchedulerType
  <2>5. c.observed \in [Rungs -> BOOLEAN]
    BY <2>1 DEF SchedulerType
  <2> QED
    BY <2>1, <2>2, <2>3, <2>4, <2>5
<1>3. \/ config.policy = "fixed" /\ s = c
      \/ v.accepted < v.proposed /\ s = Rejected(c, r)
      \/ ~(v.accepted < v.proposed) /\ s = Confirmed(c, r)
  BY <1>1 DEF AfterObserve
<1>4. CASE config.policy = "fixed" /\ s = c
  BY <1>2, <1>4 DEF SchedulerType
<1>5. CASE v.accepted < v.proposed /\ s = Rejected(c, r)
  <2> DEFINE cap == IF r = 1 THEN 0 ELSE Ladder[r - 1]
  <2>1. cap \in {0, 1, 2, NoCap}
    BY DEF Rungs, Ladder
  <2>2. s = [c EXCEPT !.cap = cap]
    BY <1>5 DEF Rejected
  <2> HIDE DEF cap
  <2>3. /\ DOMAIN s = DOMAIN Fresh /\ s.trials = c.trials /\ s.successes = c.successes
        /\ s.loads = c.loads /\ s.assigned = c.assigned /\ s.observed = c.observed
        /\ s.qualified = c.qualified /\ s.cap = cap /\ s.retry = c.retry
    BY <1>2, <2>2, FieldsAre
  <2> QED
    BY <1>1, <1>2, <1>5, <2>1, <2>3 DEF SchedulerType, cap
<1>6. CASE ~(v.accepted < v.proposed) /\ s = Confirmed(c, r)
  <2> DEFINE q == IF Survives(c, Ladder[r]) /\ Affordable(c, r) /\ r > c.qualified
                  THEN r ELSE c.qualified
  <2>1. q \in {NoRung} \cup Rungs /\ (q = c.qualified \/ (q = r /\ r > c.qualified))
    BY <1>2 DEF SchedulerType
  <2>2. s = [c EXCEPT !.cap = NoCap, !.qualified = q]
    BY <1>6 DEF Confirmed
  <2> HIDE DEF q
  <2>3. /\ DOMAIN s = DOMAIN Fresh /\ s.trials = c.trials /\ s.successes = c.successes
        /\ s.loads = c.loads /\ s.assigned = c.assigned /\ s.observed = c.observed
        /\ s.qualified = q /\ s.cap = NoCap /\ s.retry = c.retry
    BY <1>2, <2>2, FieldsAre
  <2> QED
    BY <1>1, <1>2, <1>6, <2>1, <2>3 DEF SchedulerType
<1> QED
  BY <1>3, <1>4, <1>5, <1>6

-----------------------------------------------------------------------------
(* The steps                                                               *)

\* A new scheduler remembers nothing.
LEMMA ScheduleInitInv == ScheduleInit => ScheduleInv
<1> SUFFICES ASSUME ScheduleInit PROVE ScheduleInv
  OBVIOUS
<1>1. SchedulerType
  BY DEF ScheduleInit, SchedulerInit, SchedulerType, Fresh, NoRung, NoCap
<1>2. TypeOK
  BY <1>1, DraftScheduleAssumption DEF ScheduleInit, TypeOK
<1>3. \A r \in Rungs : ~(r <= scheduler.qualified)
  BY DEF ScheduleInit, SchedulerInit, Fresh, NoRung, Rungs
<1>4. \A r \in Rungs : offered # Ladder[r]
  BY RungIs DEF ScheduleInit, Waiting
<1> QED
  BY <1>2, <1>3, <1>4 DEF ScheduleInit, ScheduleInv, BlockDue, Remembers

\* A request keeps what is remembered, and its answer follows from it.
LEMMA AskPreserves ==
  ASSUME ScheduleInv, NEW max \in Requests, Ask(max)
  PROVE  ScheduleInv'
<1>1. max \in Nat
  BY DraftScheduleAssumption
<1>2. /\ offered = Waiting /\ offered' = Choice(scheduler, max)
      /\ offered' \in {0, 1, 2, 4}
      /\ scheduler' = AfterSelect(scheduler, max)
      /\ rests' = IF max > 0 /\ offered' = 0 THEN Min({rests + 1, 2}) ELSE rests
      /\ UNCHANGED <<config, blocks, confirmed, refused>>
  BY DEF Ask, Select
<1>3. SchedulerType
  BY DEF ScheduleInv, TypeOK
<1>4. SchedulerType'
  BY <1>1, <1>2, <1>3, AfterSelectIs DEF SchedulerType
<1>5. Min({rests + 1, 2}) = IF rests = 0 THEN 1 ELSE 2
  <2>1. rests \in 0..2
    BY DEF ScheduleInv, TypeOK
  <2>2. \E x \in {rests + 1, 2} : \A y \in {rests + 1, 2} : x <= y
    BY <2>1
  <2>3. /\ Min({rests + 1, 2}) \in {rests + 1, 2}
        /\ \A y \in {rests + 1, 2} : Min({rests + 1, 2}) <= y
    BY <2>2 DEF Min
  <2> QED
    BY <2>1, <2>3
<1>6. TypeOK'
  BY <1>2, <1>4, <1>5 DEF ScheduleInv, TypeOK
<1>7. Remembers'
  <2> SUFFICES ASSUME config.policy = "adaptive"
               PROVE  Remembers'
    BY <1>2 DEF Remembers
  <2>1. /\ offered' <= scheduler.cap
        /\ \A r \in Rungs : offered' = Ladder[r] => r <= scheduler.qualified + 1
        /\ max = 0 \/ scheduler.cap = 0 => offered' = 0
        /\ max # 0 /\ scheduler.cap # 0 /\ scheduler.retry => offered' = 1
    BY <1>1, <1>2, <1>3, ChoiceIs
  <2>2. /\ scheduler'.qualified = scheduler.qualified
        /\ max = 0 => scheduler' = scheduler
        /\ max # 0 /\ scheduler.cap = 0 => scheduler'.cap = NoCap /\ scheduler'.retry
        /\ scheduler.cap # 0 => scheduler'.cap = scheduler.cap
    BY <1>1, <1>2, <1>3, AfterSelectIs
  <2>3. /\ \A r \in Rungs : r <= scheduler.qualified => Ladder[r] \in confirmed
        /\ refused = 2 => scheduler.cap = 1
        /\ refused = 4 => scheduler.cap = 2
        /\ refused = 1 =>
             \/ scheduler.cap = 0 /\ rests = 0
             \/ scheduler.cap = NoCap /\ scheduler.retry /\ rests = 1
    BY <1>2 DEF ScheduleInv, Remembers, Waiting
  <2>4. \A r \in Rungs : r <= scheduler'.qualified => Ladder[r] \in confirmed'
    BY <1>2, <2>2, <2>3
  <2>5. \A r \in Rungs : offered' = Ladder[r] => r <= scheduler'.qualified + 1
    BY <2>1, <2>2
  <2>6. refused' = 2 => scheduler'.cap = 1 /\ (offered' # Waiting => offered' < 2)
    BY <1>2, <2>1, <2>2, <2>3
  <2>7. refused' = 4 => scheduler'.cap = 2 /\ (offered' # Waiting => offered' < 4)
    BY <1>2, <2>1, <2>2, <2>3
  <2>8. refused' = 1 =>
          \/ scheduler'.cap = 0 /\ rests' = 0 /\ offered' \in {0, Waiting}
          \/ /\ scheduler'.cap = NoCap /\ scheduler'.retry
             /\ rests' = 1 /\ offered' \in {0, Waiting}
          \/ rests' = 1 /\ offered' = 1
    <3>1. CASE max = 0
      BY <1>1, <1>2, <2>1, <2>2, <2>3, <3>1
    <3>2. CASE max # 0 /\ scheduler.cap = 0
      BY <1>1, <1>2, <1>5, <2>1, <2>2, <2>3, <3>2 DEF NoCap
    <3>3. CASE max # 0 /\ scheduler.cap # 0
      BY <1>1, <1>2, <2>1, <2>2, <2>3, <3>3
    <3> QED
      BY <3>1, <3>2, <3>3
  <2> QED
    BY <2>4, <2>5, <2>6, <2>7, <2>8 DEF Remembers
<1> QED
  BY <1>2, <1>6, <1>7 DEF ScheduleInv, BlockDue, Ask

\* A report of a rung qualifies it at most by one, or lowers the cap.
LEMMA ReportPreserves ==
  ASSUME ScheduleInv, NEW accepted \in 0..4, NEW cost \in ReportCosts \cup {<<0, 0>>},
         ReportAccepted(accepted, cost)
  PROVE  ScheduleInv'
<1> DEFINE v == Feedback(offered, accepted, cost[1], cost[2])
<1>1. /\ offered \in {0, 1, 2, 4} /\ accepted <= offered
      /\ scheduler' = AfterObserve(scheduler, v)
      /\ offered' = Waiting /\ blocks' = blocks + 1 /\ config' = config
      /\ confirmed' = confirmed \cup
                        (IF offered > 0 /\ accepted = offered THEN {offered} ELSE {})
      /\ refused' = IF offered = 0 THEN refused
                    ELSE IF accepted < offered THEN offered ELSE 0
      /\ rests' = IF offered = 0 THEN rests ELSE 0
  BY DEF ReportAccepted, Observe, ScheduleInv, TypeOK
<1>2. SchedulerType /\ blocks' \in 0..MaxBlocks
  BY <1>1, DraftScheduleAssumption DEF ScheduleInv, TypeOK, BlockDue, Waiting
<1>3. BlockDue'
  BY <1>1 DEF BlockDue
<1>4. /\ v.proposed = offered /\ v.accepted = accepted
      /\ v.loads = cost[1] /\ v.assigned = cost[2]
  BY DEF Feedback
<1>5. cost[1] \in Nat /\ cost[2] \in Nat
  <2>1. cost \in Nat \X Nat
    BY DraftScheduleAssumption
  <2> QED
    BY <2>1
<1>6. \A r \in Rungs : offered' # Ladder[r]
  BY <1>1, RungIs DEF Waiting
<1>7. CASE offered = 0
  <2>1. scheduler' = scheduler
    BY <1>1, <1>4, <1>7 DEF AfterObserve
  <2>2. /\ confirmed' = confirmed /\ refused' = refused /\ rests' = rests
    BY <1>1, <1>7
  <2>3. TypeOK'
    BY <1>1, <1>2, <2>1, <2>2 DEF ScheduleInv, TypeOK, SchedulerType
  <2>4. Remembers'
    BY <1>1, <1>6, <1>7, <2>1, <2>2 DEF ScheduleInv, Remembers, Waiting
  <2> QED
    BY <1>3, <2>3, <2>4 DEF ScheduleInv
<1>8. CASE offered # 0
  <2>1. PICK r \in Rungs : offered = Ladder[r]
    <3>1. offered = Ladder[1] \/ offered = Ladder[2] \/ offered = Ladder[3]
      BY <1>1, <1>8 DEF Ladder
    <3> QED
      BY <3>1 DEF Rungs
  <2>2. /\ DOMAIN scheduler' = DOMAIN Fresh
        /\ scheduler'.trials \in [Positions -> Nat]
        /\ scheduler'.successes \in [Positions -> Nat]
        /\ scheduler'.loads \in [Rungs -> Nat] /\ scheduler'.assigned \in [Rungs -> Nat]
        /\ scheduler'.observed \in [Rungs -> BOOLEAN]
        /\ scheduler'.qualified \in {NoRung} \cup Rungs
        /\ scheduler'.cap \in {0, 1, 2, NoCap} /\ scheduler'.retry \in BOOLEAN
        /\ config.policy = "adaptive" /\ accepted < offered =>
             /\ scheduler'.qualified = scheduler.qualified
             /\ scheduler'.cap = IF r = 1 THEN 0 ELSE Ladder[r - 1]
        /\ config.policy = "adaptive" /\ accepted = offered =>
             \/ scheduler'.qualified = scheduler.qualified
             \/ scheduler'.qualified = r /\ r > scheduler.qualified
    BY <1>1, <1>2, <1>4, <1>5, <2>1, AfterObserveIs
  <2>3. TypeOK'
    <3>1. SchedulerType'
      BY <1>1, <1>2, <2>2 DEF SchedulerType
    <3>2. confirmed' \subseteq {1, 2, 4} /\ refused' \in {0, 1, 2, 4} /\ rests' \in 0..2
      BY <1>1 DEF ScheduleInv, TypeOK
    <3> QED
      BY <1>1, <1>2, <3>1, <3>2 DEF TypeOK
  <2>4. Remembers'
    <3> SUFFICES ASSUME config.policy = "adaptive"
                 PROVE  Remembers'
      BY <1>1 DEF Remembers
    <3>1. \A q \in Rungs : q <= scheduler.qualified => Ladder[q] \in confirmed
      BY DEF ScheduleInv, Remembers
    <3>2. r <= scheduler.qualified + 1 /\ scheduler.qualified \in 0..3
      BY <1>2, <2>1 DEF ScheduleInv, Remembers, SchedulerType, NoRung, Rungs
    <3>3. CASE accepted < offered
      <4>1. \A q \in Rungs : q <= scheduler'.qualified => Ladder[q] \in confirmed'
        BY <1>1, <2>2, <3>1, <3>3
      <4>2. refused' = offered /\ rests' = 0
        BY <1>1, <1>8, <3>3
      <4>3. /\ offered = 1 => scheduler'.cap = 0
            /\ offered = 2 => scheduler'.cap = 1
            /\ offered = 4 => scheduler'.cap = 2
        BY <2>1, <2>2, <3>3, RungIs DEF Ladder, Rungs
      <4> QED
        BY <1>1, <1>6, <4>1, <4>2, <4>3 DEF Remembers
    <3>4. CASE accepted = offered
      <4>1. confirmed' = confirmed \cup {Ladder[r]} /\ refused' = 0
        BY <1>1, <1>8, <2>1, <3>4
      <4>2. \A q \in Rungs : q <= scheduler'.qualified => Ladder[q] \in confirmed'
        <5> SUFFICES ASSUME NEW q \in Rungs, q <= scheduler'.qualified
                     PROVE  Ladder[q] \in confirmed'
          OBVIOUS
        <5>1. q = r \/ q <= scheduler.qualified
          BY <2>2, <3>2, <3>4 DEF Rungs
        <5> QED
          BY <3>1, <4>1, <5>1
      <4> QED
        BY <1>1, <1>6, <4>1, <4>2 DEF Remembers
    <3> QED
      BY <1>1, <3>3, <3>4
  <2> QED
    BY <1>3, <2>3, <2>4 DEF ScheduleInv
<1> QED
  BY <1>7, <1>8

\* Every step preserves the invariant.
LEMMA ScheduleStepPreserves == ScheduleInv /\ [ScheduleNext]_scheduleVars => ScheduleInv'
<1> SUFFICES ASSUME ScheduleInv, [ScheduleNext]_scheduleVars PROVE ScheduleInv'
  OBVIOUS
<1>1. CASE \E max \in Requests : Ask(max)
  BY <1>1, AskPreserves
<1>2. CASE \E accepted \in 0..4, cost \in ReportCosts \cup {<<0, 0>>} : ReportAccepted(accepted, cost)
  BY <1>2, ReportPreserves
<1>3. CASE UNCHANGED scheduleVars
  BY <1>3 DEF scheduleVars, ScheduleInv, TypeOK, SchedulerType, BlockDue, Remembers
<1> QED
  BY <1>1, <1>2, <1>3 DEF ScheduleNext

-----------------------------------------------------------------------------
\* The adaptive ladder of AdaptiveDraftScheduler is climbed rung by rung, a
\* rejection is obeyed until a proposal is accepted whole, and a rejected
\* single token rests for one step, for every configuration and any requests.
THEOREM LadderDisciplineCorrect == ScheduleSpec => []LadderDiscipline
<1>1. ScheduleInv => LadderDiscipline
  <2> SUFFICES ASSUME ScheduleInv, config.policy = "adaptive"
               PROVE  LadderDiscipline
    BY DEF LadderDiscipline
  <2>1. offered \in {2, 4} => Ladder[RungOf(offered) - 1] \in confirmed
    <3> SUFFICES ASSUME offered \in {2, 4}
                 PROVE  Ladder[RungOf(offered) - 1] \in confirmed
      OBVIOUS
    <3>1. PICK r \in {2, 3} : offered = Ladder[r]
      <4>1. Ladder[2] = 2 /\ Ladder[3] = 4
        BY DEF Ladder
      <4> QED
        BY <4>1
    <3>2. RungOf(offered) = r
      BY <3>1, RungIs DEF Rungs
    <3>3. r - 1 \in Rungs /\ r \in Rungs /\ scheduler.qualified \in Nat
      BY DEF ScheduleInv, TypeOK, SchedulerType, NoRung, Rungs
    <3>4. r - 1 <= scheduler.qualified
      BY <3>1, <3>3 DEF ScheduleInv, Remembers, Rungs
    <3> QED
      BY <3>2, <3>3, <3>4 DEF ScheduleInv, Remembers
  <2>2. refused > 1 /\ offered # Waiting => offered < refused
    BY DEF ScheduleInv, TypeOK, Remembers
  <2>3. refused = 1 => rests <= 1 /\ (offered = 1 => rests = 1)
    BY DEF ScheduleInv, Remembers, Waiting
  <2> QED
    BY <2>1, <2>2, <2>3 DEF LadderDiscipline
<1> QED
  BY <1>1, ScheduleInitInv, ScheduleStepPreserves, PTL DEF ScheduleSpec

-----------------------------------------------------------------------------
(* Types of the call                                                       *)

AnyToken == Tokens \cup {BadToken}

ProvSet == [kind : Kinds, initialized : BOOLEAN, expected : Seq(Tokens),
            chosen : {0, 1, 2, 4, NotChosen}, pending : BOOLEAN, anchor : Tokens,
            candidates : Seq(Tokens), cursorPending : BOOLEAN, broken : BOOLEAN]

VerdictSet == [accepted : Nat, committed : Seq(Tokens), done : BOOLEAN,
               loads : Nat, assigned : Nat]

Running == {"prefill", "propose", "verify", "update"}

Types ==
  /\ provider \in ProvSet /\ model \in Models /\ count \in Counts
  /\ mode \in Verifications
  /\ text \in Seq(Tokens) /\ verdict \in VerdictSet
  /\ proposal \in [anchor : AnyToken, candidates : Seq(AnyToken)]
  /\ status \in Running \cup {"done", "failed"}

-----------------------------------------------------------------------------
(* The invariant                                                           *)

\* Concatenation, as an operator the provers do not look into.
Cat(s, t) == s \o t

ButLast(s) == SubSeq(s, 1, Len(s) - 1)

\* What the target says after the prompt and more.
Says(more) == model[Cat(Prompt, more)]

\* The text with the part of the present block that is decided.
Whole == Cat(text, verdict.committed)

\* What the target has been fed is the prompt and all but the last token.
FedIsWhole == text # <<>> => fed = Cat(Prompt, ButLast(Whole))

\* The tokens c behind the text are the target's.
GreedyOn(c) == \A i \in 1..Len(c) : c[i] = Says(Cat(text, SubSeq(c, 1, i - 1)))

AtPropose ==
  status = "propose" =>
    verdict = NoVerdict /\ (text = <<>> => count = 0) /\ FedIsWhole

AtVerify ==
  status = "verify" =>
    /\ text # <<>> /\ proposal.anchor = text[Len(text)] /\ Len(text) < count
    /\ FedIsWhole /\ GreedyOn(verdict.committed)
    /\ Len(verdict.committed) = verdict.accepted
    /\ verdict.accepted <= Len(Candidates)
    /\ \A i \in 1..verdict.accepted : verdict.committed[i] = Candidates[i]
    /\ mode = "expert_major" => verdict = NoVerdict

AtUpdate ==
  status = "update" =>
    /\ text # <<>> /\ FedIsWhole /\ GreedyOn(verdict.committed)
    /\ Len(verdict.committed) \in 1..(count - Len(text))

EngineInv ==
  /\ Types /\ Len(text) <= count /\ (status = "prefill" => text = <<>> /\ verdict = NoVerdict)
  /\ AtPropose /\ AtVerify /\ AtUpdate

-----------------------------------------------------------------------------
(* Sequences                                                               *)

\* A set of numbers up to n has a greatest element.
LEMMA TopOf ==
  ASSUME NEW n \in Nat, NEW S \in SUBSET (0..n), S # {}
  PROVE  Max(S) \in S
<1> DEFINE T == {n - x : x \in S}
<1>1. T \subseteq Nat /\ T # {}
  <2>1. \A x \in S : x \in 0..n
    OBVIOUS
  <2>2. \A x \in S : n - x \in Nat
    BY <2>1
  <2>3. PICK x \in S : TRUE
    OBVIOUS
  <2> QED
    BY <2>2, <2>3
<1> DEFINE R == {p \in Nat \X Nat : p[1] < p[2]}
<1>r. IsWellFoundedOn(R, Nat)
  BY NatLessThanWellFounded DEF OpToRel
<1>2. PICK t \in T : \A y \in T : ~(<<y, t>> \in R)
  <2> HIDE DEF T, R
  <2> QED
    BY <1>1, <1>r, WFMin
<1>3. \A y \in T : ~(y < t)
  BY <1>1, <1>2
<1>4. PICK x \in S : t = n - x
  OBVIOUS
<1>5. \A y \in S : x >= y
  BY <1>3, <1>4
<1> QED
  BY <1>5 DEF Max

\* Concatenation is associative.
LEMMA CatAssociative ==
  ASSUME NEW S, NEW s \in Seq(S), NEW t \in Seq(S), NEW u \in Seq(S)
  PROVE  Cat(Cat(s, t), u) = Cat(s, Cat(t, u)) /\ Cat(s, t) \in Seq(S)
BY ConcatAssociative DEF Cat

\* Feeding the last token of t and then j tokens of c to a model that knows all
\* of t but its last token is feeding it t and j tokens of c.
LEMMA BlockHistory ==
  ASSUME NEW S, NEW p \in Seq(S), NEW t \in Seq(S), t # <<>>, NEW c \in Seq(S),
         NEW j \in 0..Len(c)
  PROVE  Cat(Cat(p, ButLast(t)), SubSeq(<<t[Len(t)]>> \o c, 1, j + 1))
            = Cat(p, Cat(t, SubSeq(c, 1, j)))
<1> DEFINE a == t[Len(t)]
           one == <<a>>
           d == SubSeq(c, 1, j)
           b == SubSeq(one \o c, 1, j + 1)
<1>1. Len(t) \in Nat \ {0} /\ Len(c) \in Nat /\ a \in S /\ one \in Seq(S)
      /\ Len(one) = 1 /\ one[1] = a
  OBVIOUS
<1>2. d \in Seq(S) /\ Len(d) = j /\ \A i \in 1..j : d[i] = c[i]
  BY <1>1
<1>3. one \o c \in Seq(S) /\ Len(one \o c) = 1 + Len(c)
      /\ (one \o c)[1] = a /\ \A i \in 2..(1 + Len(c)) : (one \o c)[i] = c[i - 1]
  BY <1>1, ConcatProperties
<1>4. b \in Seq(S) /\ Len(b) = j + 1
      /\ \A i \in 1..(j + 1) : b[i] = (one \o c)[i]
  BY <1>1, <1>3
<1>5. one \o d \in Seq(S) /\ Len(one \o d) = 1 + j
      /\ (one \o d)[1] = a /\ \A i \in 2..(1 + j) : (one \o d)[i] = d[i - 1]
  BY <1>1, <1>2, ConcatProperties
<1>6. b = one \o d
  <2>1. \A i \in 1..(j + 1) : b[i] = (one \o d)[i]
    <3> HIDE DEF a, one, b, d
    <3> SUFFICES ASSUME NEW i \in 1..(j + 1) PROVE b[i] = (one \o d)[i]
      OBVIOUS
    <3>1. CASE i = 1
      BY <1>1, <1>3, <1>4, <1>5, <3>1
    <3>2. CASE i # 1
      <4>1. i \in 2..(1 + j) /\ i \in 2..(1 + Len(c)) /\ i - 1 \in 1..j
        BY <1>1, <3>2
      <4>2. b[i] = c[i - 1] /\ (one \o d)[i] = d[i - 1] /\ d[i - 1] = c[i - 1]
        BY <1>2, <1>3, <1>4, <1>5, <4>1
      <4> QED
        BY <4>2
    <3> QED
      BY <3>1, <3>2
  <2> HIDE DEF a, one, b, d
  <2>2. Len(b) = Len(one \o d) /\ b \in Seq(S) /\ one \o d \in Seq(S)
        /\ \A i \in 1..Len(b) : b[i] = (one \o d)[i]
    BY <1>4, <1>5, <2>1
  <2> QED
    BY <2>2, SeqEqual, Zenon
<1>7. ButLast(t) \in Seq(S) /\ t = ButLast(t) \o one
  <2>1. SubSeq(t, 1, Len(t)) = SubSeq(t, 1, Len(t) - 1) \o <<t[Len(t)]>>
    BY <1>1, SubSeqRecursiveSecond
  <2>2. SubSeq(t, 1, Len(t)) = t
    BY SubSeqFull
  <2>3. SubSeq(t, 1, Len(t) - 1) \in Seq(S)
    BY <1>1
  <2> QED
    BY <2>1, <2>2, <2>3 DEF ButLast
<1> HIDE DEF a, one, b, d
<1>8. Cat(Cat(p, ButLast(t)), Cat(one, d)) = Cat(p, Cat(Cat(ButLast(t), one), d))
  <2> DEFINE f == ButLast(t)
  <2>1. one \in Seq(S) /\ d \in Seq(S) /\ f \in Seq(S) /\ one \o d \in Seq(S)
    BY <1>1, <1>2, <1>5, <1>7
  <2> HIDE DEF f
  <2>2. Cat(Cat(p, f), Cat(one, d)) = Cat(p, Cat(f, Cat(one, d)))
    BY <2>1, CatAssociative
  <2>3. Cat(Cat(f, one), d) = Cat(f, Cat(one, d))
    BY <2>1, CatAssociative
  <2>4. Cat(Cat(p, f), Cat(one, d)) = Cat(p, Cat(Cat(f, one), d))
    BY <2>2, <2>3
  <2> QED
    BY <2>4 DEF f
<1>9. b = Cat(one, d) /\ t = Cat(ButLast(t), one)
  BY <1>6, <1>7 DEF Cat
<1>10. Cat(Cat(p, ButLast(t)), b) = Cat(p, Cat(t, d))
  BY <1>8, <1>9
<1> QED
  BY <1>10 DEF a, one, b, d

\* A sequence is its front and its last element.
LEMMA FrontLast ==
  ASSUME NEW S, NEW t \in Seq(S), t # <<>>
  PROVE  ButLast(t) \in Seq(S) /\ t[Len(t)] \in S /\ t = Append(ButLast(t), t[Len(t)])
<1> DEFINE f == ButLast(t)
           a == t[Len(t)]
           n == Len(t)
           u == Append(f, a)
<1>1. n \in Nat \ {0} /\ a \in S
  OBVIOUS
<1>2. f \in Seq(S) /\ Len(f) = n - 1 /\ \A i \in 1..(n - 1) : f[i] = t[i]
  <2>1. n - 1 \in 0..Len(t)
    BY <1>1
  <2>2. \A m \in 0..Len(t) :
           /\ SubSeq(t, 1, m) \in Seq(S) /\ Len(SubSeq(t, 1, m)) = m
           /\ \A i \in 1..m : SubSeq(t, 1, m)[i] = t[i]
    OBVIOUS
  <2>3. f = SubSeq(t, 1, n - 1)
    BY DEF ButLast
  <2> HIDE DEF f, n
  <2> QED
    BY <2>1, <2>2, <2>3
<1>3. t[n] = a
  OBVIOUS
<1> HIDE DEF f, a, n
<1>4. /\ u \in Seq(S) /\ Len(u) = Len(f) + 1 /\ u[Len(f) + 1] = a
      /\ \A i \in 1..Len(f) : u[i] = f[i]
  BY <1>1, <1>2, AppendProperties
<1> HIDE DEF u
<1>5. Len(u) = n /\ u[n] = a
  BY <1>1, <1>2, <1>4
<1>6. \A i \in 1..n : t[i] = u[i]
  BY <1>1, <1>2, <1>3, <1>4, <1>5
<1>7. t = u
  BY <1>4, <1>5, <1>6, SeqEqual DEF n
<1> QED
  BY <1>1, <1>2, <1>7 DEF u, f, a

\* The front of an extension is what was extended.
LEMMA FrontOfAppend ==
  ASSUME NEW S, NEW s \in Seq(S), NEW e \in S
  PROVE  /\ ButLast(Append(s, e)) = s /\ Append(s, e) \in Seq(S) /\ Append(s, e) # <<>>
         /\ Len(Append(s, e)) = Len(s) + 1 /\ Len(s) \in Nat
         /\ Append(s, e)[Len(s) + 1] = e
         /\ \A i \in 1..Len(s) : Append(s, e)[i] = s[i]
<1> DEFINE u == Append(s, e)
<1>1. /\ u \in Seq(S) /\ Len(u) = Len(s) + 1 /\ u # <<>> /\ Len(s) \in Nat
      /\ u[Len(s) + 1] = e /\ \A i \in 1..Len(s) : u[i] = s[i]
  BY AppendProperties
<1> HIDE DEF u
<1>2. /\ ButLast(u) \in Seq(S) /\ Len(ButLast(u)) = Len(s)
      /\ \A i \in 1..Len(s) : ButLast(u)[i] = s[i]
  BY <1>1 DEF ButLast
<1>3. ButLast(u) = s
  BY <1>2, SeqEqual
<1> QED
  BY <1>1, <1>3 DEF u

\* Appending to a concatenation is appending to its second part.
LEMMA AppendConcat ==
  ASSUME NEW S, NEW p \in Seq(S), NEW f \in Seq(S), NEW a \in S
  PROVE  Append(Cat(p, f), a) = Cat(p, Append(f, a)) /\ Cat(p, f) \in Seq(S)
<1> DEFINE one == <<a>>
           pf == Cat(p, f)
<1>1. one \in Seq(S) /\ pf \in Seq(S)
  BY CatAssociative
<1> HIDE DEF pf
<1>2. Append(pf, a) = Cat(pf, one) /\ Append(f, a) = Cat(f, one)
  BY <1>1, AppendIsConcat DEF Cat
<1> HIDE DEF one
<1>3. Cat(Cat(p, f), one) = Cat(p, Cat(f, one))
  BY <1>1, CatAssociative
<1> QED
  BY <1>1, <1>2, <1>3 DEF pf

\* A model that knows p and all of t but its last token is fed that token.
LEMMA FeedLast ==
  ASSUME NEW S, NEW p \in Seq(S), NEW t \in Seq(S), t # <<>>
  PROVE  Append(Cat(p, ButLast(t)), t[Len(t)]) = Cat(p, t)
<1> DEFINE f == ButLast(t)
           a == t[Len(t)]
<1>1. f \in Seq(S) /\ a \in S /\ t = Append(f, a)
  BY FrontLast
<1> HIDE DEF f, a
<1>2. Append(Cat(p, f), a) = Cat(p, Append(f, a))
  BY <1>1, AppendConcat
<1>3. Append(Cat(p, f), a) = Cat(p, t)
  BY <1>1, <1>2
<1> QED
  BY <1>3 DEF f, a

\* A prefix of a prefix is a prefix.
LEMMA PrefixOfPrefix ==
  ASSUME NEW S, NEW c \in Seq(S), NEW k \in 0..Len(c), NEW j \in 0..k
  PROVE  /\ SubSeq(c, 1, k) \in Seq(S) /\ Len(SubSeq(c, 1, k)) = k
         /\ \A i \in 1..k : SubSeq(c, 1, k)[i] = c[i]
         /\ SubSeq(SubSeq(c, 1, k), 1, j) = SubSeq(c, 1, j)
<1> DEFINE d == SubSeq(c, 1, k)
           a == SubSeq(d, 1, j)
           b == SubSeq(c, 1, j)
<1>1. Len(c) \in Nat
  OBVIOUS
<1>2. d \in Seq(S) /\ Len(d) = k /\ \A i \in 1..k : d[i] = c[i]
  BY <1>1
<1>3. b \in Seq(S) /\ Len(b) = j /\ \A i \in 1..j : b[i] = c[i]
  BY <1>1
<1>4. a \in Seq(S) /\ Len(a) = j /\ \A i \in 1..j : a[i] = d[i]
  <2> HIDE DEF d
  <2> QED
    BY <1>2
<1>5. a = b
  <2> HIDE DEF d, a, b
  <2>1. \A i \in 1..Len(a) : a[i] = b[i]
    BY <1>2, <1>3, <1>4
  <2> QED
    BY <1>3, <1>4, <2>1, SeqEqual
<1> QED
  BY <1>2, <1>5

\* The prefixes of an extension.
LEMMA PrefixesOfAppend ==
  ASSUME NEW S, NEW c \in Seq(S), NEW e \in S, NEW j \in 0..Len(c)
  PROVE  SubSeq(Append(c, e), 1, j) = SubSeq(c, 1, j)
<1> DEFINE u == Append(c, e)
           a == SubSeq(u, 1, j)
           b == SubSeq(c, 1, j)
<1>1. /\ u \in Seq(S) /\ Len(u) = Len(c) + 1 /\ Len(c) \in Nat
      /\ \A i \in 1..Len(c) : u[i] = c[i]
  BY AppendProperties
<1>2. b \in Seq(S) /\ Len(b) = j /\ \A i \in 1..j : b[i] = c[i]
  BY <1>1
<1>3. a \in Seq(S) /\ Len(a) = j /\ \A i \in 1..j : a[i] = u[i]
  <2> HIDE DEF u
  <2> QED
    BY <1>1
<1> HIDE DEF u, a, b
<1>4. \A i \in 1..Len(a) : a[i] = b[i]
  BY <1>1, <1>2, <1>3, SMTT(30)
<1>5. a = b
  BY <1>2, <1>3, <1>4, SeqEqual
<1> QED
  BY <1>5 DEF u, a, b

-----------------------------------------------------------------------------
(* The target and the text                                                 *)

\* The target answers what it may be asked.
LEMMA SaysToken ==
  ASSUME Types, NEW h \in Seq(Tokens), Len(h) <= count
  PROVE  Says(h) \in Tokens
<1>1. model \in Models /\ count \in Counts /\ count \in Nat
  BY SpeculativeAssumption DEF Types
<1>2. Len(h) \in 0..count /\ h \in [1..Len(h) -> Tokens]
  BY <1>1
<1>3. h \in SeqOf(Tokens, count)
  BY <1>2 DEF SeqOf
<1>4. model[Prompt \o h] \in Tokens
  BY <1>1, <1>3, SpeculativeAssumption
<1> QED
  BY <1>4 DEF Says, Cat

\* What GreedyText asks of an extension of the text.
LEMMA GreedyIs ==
  ASSUME Types, NEW c \in Seq(Tokens), GreedyOn(c)
  PROVE  Abstract!Greedy(text, c)
<1>1. Prompt \in Seq(Tokens) /\ text \in Seq(Tokens)
  BY PromptAssumption DEF Types
<1> SUFFICES ASSUME NEW i \in 1..Len(c)
             PROVE  c[i] = model[Prompt \o text \o SubSeq(c, 1, i - 1)]
  BY DEF Abstract!Greedy
<1> DEFINE d == SubSeq(c, 1, i - 1)
<1>2. d \in Seq(Tokens)
  OBVIOUS
<1>3. c[i] = model[Cat(Prompt, Cat(text, d))]
  BY DEF GreedyOn, Says
<1> HIDE DEF d
<1>4. Cat(Prompt, Cat(text, d)) = Cat(Cat(Prompt, text), d)
  BY <1>1, <1>2, CatAssociative
<1>5. c[i] = model[Cat(Cat(Prompt, text), d)]
  BY <1>3, <1>4
<1> QED
  BY <1>5 DEF Cat, d

\* The target's next token continues a greedy extension.
LEMMA GreedyGrows ==
  ASSUME Types, NEW c \in Seq(Tokens), GreedyOn(c), NEW e \in Tokens,
         e = Says(Cat(text, c))
  PROVE  GreedyOn(Append(c, e))
<1> DEFINE u == Append(c, e)
           n == Len(c)
<1>1. /\ Len(u) = n + 1 /\ n \in Nat /\ u[n + 1] = e /\ \A i \in 1..n : u[i] = c[i]
  BY FrontOfAppend
<1>2. \A j \in 0..n : SubSeq(u, 1, j) = SubSeq(c, 1, j)
  BY PrefixesOfAppend
<1>3. SubSeq(c, 1, n) = c
  BY SubSeqFull
<1> HIDE DEF u
<1> SUFFICES ASSUME NEW i \in 1..(n + 1)
             PROVE  u[i] = Says(Cat(text, SubSeq(u, 1, i - 1)))
  BY <1>1 DEF GreedyOn, u
<1>4. i - 1 \in 0..n
  BY <1>1
<1>5. SubSeq(u, 1, i - 1) = SubSeq(c, 1, i - 1)
  BY <1>2, <1>4
<1>6. CASE i = n + 1
  <2>1. i - 1 = n
    BY <1>1, <1>6
  <2>2. SubSeq(u, 1, i - 1) = c
    BY <1>3, <1>5, <2>1
  <2> QED
    BY <1>1, <1>6, <2>2
<1>7. CASE i # n + 1
  <2>1. i \in 1..n
    BY <1>1, <1>7
  <2>2. c[i] = Says(Cat(text, SubSeq(c, 1, i - 1)))
    BY <2>1 DEF GreedyOn
  <2> QED
    BY <1>1, <1>5, <2>1, <2>2
<1> QED
  BY <1>6, <1>7

\* A prefix of a block that agrees with the target is greedy.
LEMMA GreedyPrefix ==
  ASSUME Types, NEW c \in Seq(Tokens), NEW k \in 0..Len(c),
         \A i \in 1..k : c[i] = Says(Cat(text, SubSeq(c, 1, i - 1)))
  PROVE  GreedyOn(SubSeq(c, 1, k))
<1> DEFINE d == SubSeq(c, 1, k)
<1>1. /\ Len(d) = k /\ \A i \in 1..k : d[i] = c[i]
      /\ \A j \in 0..k : SubSeq(d, 1, j) = SubSeq(c, 1, j)
  BY PrefixOfPrefix
<1> HIDE DEF d
<1> SUFFICES \A i \in 1..Len(d) : d[i] = Says(Cat(text, SubSeq(d, 1, i - 1)))
  BY DEF GreedyOn, d
<1> SUFFICES ASSUME NEW i \in 1..k
             PROVE  d[i] = Says(Cat(text, SubSeq(d, 1, i - 1)))
  BY <1>1
<1>2. i - 1 \in 0..k
  OBVIOUS
<1>3. SubSeq(d, 1, i - 1) = SubSeq(c, 1, i - 1) /\ d[i] = c[i]
  BY <1>1, <1>2
<1> QED
  BY <1>3

\* The engine asks for no more than there is room for, less one.
LEMMA MaxDraftIs ==
  ASSUME Types, Len(text) < count
  PROVE  MaxDraft \in Nat /\ MaxDraft <= count - Len(text) - 1
<1> DEFINE m == count - Len(text) - 1
<1>1. m \in Nat /\ BlockSize \in Nat
  BY SpeculativeAssumption DEF Types
<1> HIDE DEF m
<1>2. \E x \in {BlockSize, m} : \A y \in {BlockSize, m} : x <= y
  BY <1>1
<1>3. Min({BlockSize, m}) \in {BlockSize, m} /\ \A y \in {BlockSize, m} :
         Min({BlockSize, m}) <= y
  BY <1>2 DEF Min
<1> QED
  BY <1>1, <1>3 DEF MaxDraft, m

-----------------------------------------------------------------------------
(* Steps that leave the text alone                                         *)

Unchanged == UNCHANGED <<model, count, mode, fed, text, proposal, verdict>>

\* A step of the provider alone.
LEMMA ProviderStep ==
  ASSUME EngineInv, UNCHANGED engineVars, provider' \in ProvSet
  PROVE  EngineInv' /\ UNCHANGED Abstract!vars
BY DEF engineVars, EngineInv, Types, AtPropose, AtVerify, AtUpdate, FedIsWhole, Whole,
       GreedyOn, Says, Candidates, Abstract!vars

\* The call fails.
LEMMA FailStep ==
  ASSUME EngineInv, status \in Running, FailCall, provider' \in ProvSet
  PROVE  EngineInv' /\ Abstract!Fail
<1>1. status' = "failed" /\ Unchanged
  BY DEF FailCall, Unchanged
<1> QED
  BY <1>1 DEF Unchanged, EngineInv, Types, AtPropose, AtVerify, AtUpdate, Abstract!Fail,
              Running

\* What the status of the specification is to GreedyText.
LEMMA RunningIs ==
  ASSUME status \in Running, UNCHANGED <<model, count, text>>, status' \in Running
  PROVE  UNCHANGED Abstract!vars
BY DEF Running, Abstract!vars

\* Taking in greedy tokens is a step of GreedyText.
LEMMA ExtendStep ==
  ASSUME Types, NEW c \in Seq(Tokens), GreedyOn(c),
         Len(c) \in 1..(count - Len(text)),
         status \in Running, status' \in Running, text' = Cat(text, c),
         UNCHANGED <<model, count>>
  PROVE  Abstract!Extend
<1>1. Abstract!Greedy(text, c)
  BY GreedyIs
<1>2. c \in [1..Len(c) -> Tokens]
  OBVIOUS
<1>3. \E n \in 1..(count - Len(text)) : \E more \in [1..n -> Tokens] :
          Abstract!Greedy(text, more) /\ text' = text \o more
  BY <1>1, <1>2 DEF Cat
<1>4. /\ (IF status \in {"done", "failed"} THEN status ELSE "running") = "running"
      /\ (IF status' \in {"done", "failed"} THEN status' ELSE "running") = "running"
  BY DEF Running
<1> QED
  BY <1>3, <1>4 DEF Abstract!Extend

-----------------------------------------------------------------------------
(* The provider keeps its type                                             *)

LEMMA ChooseTyped ==
  ASSUME Types, NEW max, Choose(text, max)
  PROVE  provider' \in ProvSet
<1>1. PICK length \in {0, 1, 2, 4} : provider' = [provider EXCEPT !.chosen = length]
  BY DEF Choose
<1> QED
  BY <1>1 DEF Types, ProvSet

LEMMA OpenFailsTyped ==
  ASSUME Types, OpenCursorFails
  PROVE  provider' \in ProvSet
BY DEF Types, ProvSet, OpenCursorFails

LEMMA GenerateFailsTyped ==
  ASSUME Types, GenerateFails
  PROVE  provider' \in ProvSet
BY ZenonT(30) DEF Types, ProvSet, GenerateFails

LEMMA GenerateTyped ==
  ASSUME Types, text # <<>>, NEW candidates \in Seq(Tokens), Generate(text, candidates)
  PROVE  provider' \in ProvSet
<1> DEFINE a == text[Len(text)]
           e == IF provider.initialized THEN provider.expected ELSE text
           w == provider.cursorPending \/ UsesCursor
<1>1. a \in Tokens /\ e \in Seq(Tokens)
  BY FrontLast DEF Types, ProvSet
<1>2. w \in BOOLEAN
  BY DEF Types, ProvSet
<1>3. provider' = [provider EXCEPT !.chosen = NotChosen, !.initialized = TRUE,
         !.expected = e, !.pending = TRUE, !.anchor = a,
         !.candidates = candidates, !.cursorPending = w]
  BY DEF Generate
<1> HIDE DEF a, e, w
<1> QED
  BY <1>1, <1>2, <1>3 DEF Types, ProvSet

LEMMA BrokenTyped ==
  ASSUME Types
  PROVE  Settled \in ProvSet /\ Broken \in ProvSet
         /\ [Broken EXCEPT !.cursorPending = provider.cursorPending] \in ProvSet
<1>1. <<>> \in Seq(Tokens)
  OBVIOUS
<1>2. Settled \in ProvSet
  BY <1>1 DEF Types, ProvSet, Settled
<1>3. Broken \in ProvSet
  BY <1>2 DEF Types, ProvSet, Broken
<1> QED
  BY <1>2, <1>3 DEF Types, ProvSet

LEMMA ReportTyped ==
  ASSUME Types, Report
  PROVE  provider' \in ProvSet
<1> DEFINE v == Verification
<1>1. v.committed = verdict.committed /\ verdict.committed \in Seq(Tokens)
  BY DEF Verification, Types, VerdictSet
<1> HIDE DEF v
<1>2. CASE UNCHANGED providerVars
  BY <1>2 DEF providerVars, Types
<1>3. CASE Update(v)
  <2>1. PICK counted \in BOOLEAN :
          provider' = IF counted THEN [Settled EXCEPT !.expected = @ \o v.committed]
                      ELSE Broken
    BY <1>3 DEF Update
  <2>2. Settled.expected \in Seq(Tokens)
    BY BrokenTyped DEF ProvSet
  <2>3. Settled.expected \o v.committed \in Seq(Tokens)
    BY <1>1, <2>2
  <2>4. [Settled EXCEPT !.expected = @ \o v.committed] \in ProvSet
    BY <2>3, BrokenTyped DEF ProvSet
  <2> QED
    BY <2>1, <2>4, BrokenTyped
<1>4. CASE UpdateRefused(v) \/ UpdateFails(v)
  BY <1>4, BrokenTyped DEF UpdateRefused, UpdateFails
<1> QED
  BY <1>2, <1>3, <1>4 DEF Report, v

-----------------------------------------------------------------------------
(* The steps of the call                                                   *)

\* Nothing is behind the empty sequence.
LEMMA CatEmpty ==
  ASSUME NEW S, NEW s \in Seq(S)
  PROVE  Cat(s, <<>>) = s /\ Cat(<<>>, s) = s
BY ConcatEmptySeq DEF Cat

\* What is said and committed when nothing is decided.
LEMMA NothingDecided ==
  ASSUME Types
  PROVE  /\ NoVerdict \in VerdictSet /\ NoVerdict.committed = <<>> /\ <<>> \in Seq(Tokens)
         /\ Len(NoVerdict.committed) = 0 /\ NoVerdict.accepted = 0
         /\ verdict = NoVerdict => Whole = text /\ GreedyOn(verdict.committed)
<1>1. /\ NoVerdict \in VerdictSet /\ NoVerdict.committed = <<>> /\ <<>> \in Seq(Tokens)
      /\ Len(NoVerdict.committed) = 0 /\ NoVerdict.accepted = 0
  BY DEF NoVerdict, VerdictSet
<1>2. ASSUME verdict = NoVerdict
      PROVE  Whole = text /\ GreedyOn(verdict.committed)
  BY <1>1, <1>2, CatEmpty DEF Whole, GreedyOn, Types
<1> QED
  BY <1>1, <1>2

LEMMA PrefillStep ==
  ASSUME EngineInv, Prefill
  PROVE  EngineInv' /\ [Abstract!Next]_(Abstract!vars)
<1>1. /\ Types /\ status = "prefill" /\ text = <<>> /\ verdict = NoVerdict
      /\ count \in Nat /\ Prompt \in Seq(Tokens) /\ <<>> \in Seq(Tokens)
  BY SpeculativeAssumption, PromptAssumption, NothingDecided
     DEF EngineInv, Types, Prefill
<1>2. /\ UNCHANGED <<provider, model, count, mode, proposal, verdict>>
      /\ status' = "propose" /\ fed' = Prompt
      /\ text' = IF count = 0 THEN <<>> ELSE <<model[Prompt]>>
  BY DEF Prefill, providerVars
<1>3. CASE count = 0
  <2>1. UNCHANGED text
    BY <1>1, <1>2, <1>3
  <2>2. UNCHANGED Abstract!vars
    BY <1>1, <1>2, <2>1, RunningIs DEF Running
  <2>3. EngineInv'
    BY <1>1, <1>2, <1>3, <2>1
       DEF EngineInv, Types, AtPropose, AtVerify, AtUpdate, FedIsWhole, Running
  <2> QED
    BY <2>2, <2>3
<1>4. CASE count # 0
  <2> DEFINE e == Says(Cat(text, <<>>))
             c == Append(<<>>, e)
  <2>1. Cat(text, <<>>) = <<>> /\ Cat(Prompt, <<>>) = Prompt /\ Len(<<>>) = 0
    BY <1>1, CatEmpty
  <2>2. e = model[Prompt] /\ e = Says(<<>>)
    BY <2>1 DEF Says
  <2>3. e \in Tokens
    <3> DEFINE none == <<>>
    <3>1. none \in Seq(Tokens) /\ Len(none) <= count
      BY <1>1
    <3> HIDE DEF none
    <3>2. Says(none) \in Tokens
      BY <1>1, <3>1, SaysToken
    <3> QED
      BY <2>2, <3>2 DEF none
  <2>4. c \in Seq(Tokens) /\ Len(c) = 1 /\ c = <<e>> /\ c # <<>> /\ ButLast(c) = <<>>
    <3> DEFINE none == <<>>
               u == Append(none, e)
    <3>1. none \in Seq(Tokens) /\ Len(none) = 0
      OBVIOUS
    <3> HIDE DEF none, e
    <3>2. /\ ButLast(u) = none /\ u \in Seq(Tokens) /\ u # <<>>
          /\ Len(u) = Len(none) + 1
      BY <2>3, <3>1, FrontOfAppend
    <3> HIDE DEF u
    <3>3. Len(u) = 1
      BY <3>1, <3>2
    <3>4. c = u
      BY DEF u, none
    <3>5. c = <<e>>
      OBVIOUS
    <3> HIDE DEF c
    <3> QED
      BY <3>2, <3>3, <3>4, <3>5 DEF none
  <2>5. GreedyOn(c)
    <3>1. GreedyOn(<<>>)
      BY <1>1, NothingDecided DEF NoVerdict
    <3> QED
      BY <1>1, <2>3, <3>1, GreedyGrows
  <2> HIDE DEF c, e
  <2>6. Cat(text, c) = c /\ Cat(c, <<>>) = c
    BY <1>1, <2>4, CatEmpty
  <2>7. text' = c
    BY <1>2, <1>4, <2>2, <2>4
  <2>8. Abstract!Extend
    <3>1. Len(c) \in 1..(count - Len(text))
      BY <1>1, <1>4, <2>4
    <3>2. status \in Running /\ status' \in Running /\ UNCHANGED <<model, count>>
      BY <1>1, <1>2 DEF Running
    <3>3. text' = Cat(text, c)
      BY <2>6, <2>7
    <3> QED
      BY <1>1, <2>4, <2>5, <3>1, <3>2, <3>3, ExtendStep
  <2>9. Whole' = c
    BY <1>1, <1>2, <2>6, <2>7, NothingDecided DEF Whole
  <2>10. FedIsWhole'
    BY <1>2, <2>1, <2>4, <2>9 DEF FedIsWhole
  <2>11. EngineInv'
    BY <1>1, <1>2, <1>4, <2>4, <2>7, <2>10
       DEF EngineInv, Types, AtPropose, AtVerify, AtUpdate, Running
  <2> QED
    BY <2>8, <2>11 DEF Abstract!Next
<1> QED
  BY <1>3, <1>4

LEMMA FinishStep ==
  ASSUME EngineInv, Finish
  PROVE  EngineInv' /\ [Abstract!Next]_(Abstract!vars)
<1>1. /\ Types /\ status = "propose" /\ Len(text) <= count /\ Len(text) >= count
      /\ count \in Nat /\ Len(text) \in Nat
  BY SpeculativeAssumption DEF EngineInv, Types, Finish
<1>2. /\ UNCHANGED <<provider, model, count, mode, fed, text, proposal, verdict>>
      /\ status' = "done"
  BY DEF Finish, providerVars
<1>3. EngineInv'
  BY <1>1, <1>2 DEF EngineInv, Types, AtPropose, AtVerify, AtUpdate
<1>4. Abstract!Finish
  BY <1>1, <1>2 DEF Abstract!Finish
<1> QED
  BY <1>3, <1>4 DEF Abstract!Next

LEMMA FailingStep ==
  ASSUME EngineInv, TargetThrows \/ DraftFails \/ RejectProposal
  PROVE  EngineInv' /\ [Abstract!Next]_(Abstract!vars)
<1>1. Types
  BY DEF EngineInv
<1>2. CASE TargetThrows \/ RejectProposal
  <2>1. status \in Running /\ FailCall /\ provider' = provider
    BY <1>2 DEF TargetThrows, RejectProposal, Running, providerVars
  <2>2. provider' \in ProvSet
    BY <1>1, <2>1 DEF Types
  <2> QED
    BY <2>1, <2>2, FailStep DEF Abstract!Next
<1>3. CASE DraftFails
  <2>1. status \in Running /\ FailCall
    BY <1>3 DEF DraftFails, Asking, Running
  <2>2. UNCHANGED providerVars \/ OpenCursorFails \/ GenerateFails
    BY <1>3 DEF DraftFails, ProposeOutOfStep
  <2>3. provider' \in ProvSet
    BY <1>1, <2>2, OpenFailsTyped, GenerateFailsTyped DEF providerVars, Types
  <2> QED
    BY <2>1, <2>3, FailStep DEF Abstract!Next
<1> QED
  BY <1>2, <1>3

LEMMA ProviderOnly ==
  ASSUME EngineInv, ChooseLength \/ OpenDraft
  PROVE  EngineInv' /\ [Abstract!Next]_(Abstract!vars)
<1>1. Types /\ UNCHANGED engineVars
  BY DEF EngineInv, ChooseLength, OpenDraft
<1>2. provider' \in ProvSet
  BY <1>1, ChooseTyped DEF ChooseLength, OpenDraft, OpenCursor, Types
<1> QED
  BY <1>1, <1>2, ProviderStep

\* A proposal is taken in.
LEMMA TakeStep ==
  ASSUME EngineInv, Asking, provider' \in ProvSet,
         NEW anchor \in AnyToken, NEW candidates \in Seq(AnyToken),
         TakeProposal(anchor, candidates)
  PROVE  EngineInv' /\ [Abstract!Next]_(Abstract!vars)
<1>1. /\ Types /\ status = "propose" /\ Len(text) < count /\ count \in Nat
      /\ verdict = NoVerdict /\ (text = <<>> => count = 0) /\ FedIsWhole
      /\ Len(text) \in Nat
  BY SpeculativeAssumption DEF EngineInv, AtPropose, Asking, Types
<1>2. text # <<>>
  BY <1>1
<1>3. /\ UNCHANGED <<model, count, mode, fed, text, verdict>>
      /\ proposal' = [anchor |-> anchor, candidates |-> candidates]
      /\ status' = IF anchor = text[Len(text)] THEN "verify" ELSE "failed"
  BY <1>1 DEF TakeProposal
<1>4. Types' /\ proposal'.anchor = anchor /\ proposal'.candidates = candidates
  BY <1>1, <1>3 DEF Types, Running
<1>5. FedIsWhole' /\ GreedyOn(verdict.committed)'
  <2>1. GreedyOn(verdict.committed)
    BY <1>1, NothingDecided
  <2> QED
    BY <1>1, <1>3, <2>1 DEF FedIsWhole, Whole, GreedyOn, Says
<1>6. CASE anchor = text[Len(text)]
  <2>1. status' = "verify"
    BY <1>3, <1>6
  <2>2. AtVerify'
    <3>1. Len(verdict'.committed) = 0 /\ verdict'.accepted = 0 /\ Len(candidates) \in Nat
      BY <1>1, <1>3, NothingDecided
    <3> QED
      BY <1>1, <1>2, <1>3, <1>4, <1>5, <1>6, <2>1, <3>1 DEF AtVerify, Candidates
  <2>3. EngineInv'
    BY <1>1, <1>3, <1>4, <2>1, <2>2 DEF EngineInv, AtPropose, AtUpdate
  <2>4. UNCHANGED Abstract!vars
    BY <1>1, <1>3, <2>1, RunningIs DEF Running
  <2> QED
    BY <2>3, <2>4
<1>7. CASE anchor # text[Len(text)]
  <2>1. status' = "failed"
    BY <1>3, <1>7
  <2>2. EngineInv'
    BY <1>1, <1>3, <1>4, <2>1 DEF EngineInv, AtPropose, AtVerify, AtUpdate
  <2>3. Abstract!Fail
    BY <1>1, <1>3, <2>1 DEF Abstract!Fail
  <2> QED
    BY <2>2, <2>3 DEF Abstract!Next
<1> QED
  BY <1>6, <1>7

LEMMA DraftStep ==
  ASSUME EngineInv, Draft \/ FollowScript
  PROVE  EngineInv' /\ [Abstract!Next]_(Abstract!vars)
<1>1. Types /\ Asking /\ text \in Seq(Tokens) /\ text # <<>>
  BY SpeculativeAssumption
     DEF EngineInv, Draft, FollowScript, Asking, AtPropose, Types
<1>2. CASE Draft
  <2>1. PICK candidates \in [1..provider.chosen -> Tokens] :
           Generate(text, candidates) /\ TakeProposal(text[Len(text)], candidates)
    BY <1>2 DEF Draft
  <2>2. provider.chosen \in Nat
    BY <1>1 DEF Types, ProvSet, NotChosen
  <2>3. candidates \in Seq(Tokens)
    BY <2>1, <2>2
  <2>4. candidates \in Seq(AnyToken) /\ text[Len(text)] \in AnyToken
    <3>1. text[Len(text)] \in Tokens
      BY <1>1, FrontLast
    <3> QED
      BY <2>3, <3>1 DEF AnyToken
  <2>5. provider' \in ProvSet
    BY <1>1, <2>1, <2>3, GenerateTyped
  <2> QED
    BY <1>1, <2>1, <2>4, <2>5, TakeStep
<1>3. CASE FollowScript
  <2>1. PICK anchor \in Tokens, candidates \in SeqOf(AnyToken, MaxDraft + 1) :
           TakeProposal(anchor, candidates)
    BY <1>3 DEF FollowScript, AnyToken
  <2>2. MaxDraft + 1 \in Nat
    BY <1>1, MaxDraftIs DEF Asking
  <2>3. candidates \in Seq(AnyToken) /\ anchor \in AnyToken
    BY <2>1, <2>2 DEF SeqOf, AnyToken
  <2>4. provider' \in ProvSet
    BY <1>1, <1>3 DEF FollowScript, providerVars, Types
  <2> QED
    BY <1>1, <2>1, <2>3, <2>4, TakeStep
<1> QED
  BY <1>2, <1>3

\* What is known of a valid proposal that is being verified.
LEMMA Verifying ==
  ASSUME EngineInv, status = "verify", ValidProposal
  PROVE  /\ Types /\ text # <<>> /\ count \in Nat /\ Len(text) \in Nat
         /\ Candidates \in Seq(Tokens) /\ Len(Candidates) \in Nat
         /\ Len(text) + Len(Candidates) + 1 <= count
         /\ verdict.committed \in Seq(Tokens) /\ Prompt \in Seq(Tokens)
<1>1. /\ Types /\ text # <<>> /\ Len(text) < count /\ text \in Seq(Tokens)
      /\ verdict.committed \in Seq(Tokens)
  BY DEF EngineInv, AtVerify, Types, VerdictSet
<1>2. count \in Nat /\ Len(text) \in Nat
  BY <1>1, SpeculativeAssumption DEF Types
<1>3. Candidates \in Seq(AnyToken)
  BY <1>1 DEF Types, Candidates
<1>4. \A i \in 1..Len(Candidates) : Candidates[i] \in Tokens
  BY DEF ValidProposal
<1>5. Len(Candidates) <= MaxDraft
  BY DEF ValidProposal
<1> HIDE DEF Candidates
<1>6. Candidates \in Seq(Tokens) /\ Len(Candidates) \in Nat
  BY <1>3, <1>4
<1>7. Len(text) + Len(Candidates) + 1 <= count
  BY <1>1, <1>2, <1>5, <1>6, MaxDraftIs
<1> QED
  BY <1>1, <1>2, <1>6, <1>7, PromptAssumption

\* Taking the target's answer to the whole so far into the verdict.
LEMMA VerdictGrows ==
  ASSUME Types, text # <<>>, NEW c \in Seq(Tokens), GreedyOn(c),
         Len(text) + Len(c) <= count,
         NEW e, e = Says(Cat(text, c)), verdict'.committed = Append(c, e),
         fed' = Cat(Prompt, Cat(text, c)), UNCHANGED <<model, text>>
  PROVE  /\ e \in Tokens /\ Append(c, e) \in Seq(Tokens)
         /\ FedIsWhole' /\ GreedyOn(verdict.committed)'
         /\ Len(verdict'.committed) = Len(c) + 1
<1>1. text \in Seq(Tokens) /\ count \in Nat
  BY SpeculativeAssumption DEF Types
<1>2. e \in Tokens
  <2> DEFINE w == Cat(text, c)
  <2>1. w \in Seq(Tokens)
    BY <1>1, CatAssociative
  <2>2. Len(w) = Len(text) + Len(c)
    BY <1>1, ConcatProperties DEF Cat
  <2> HIDE DEF w
  <2>3. Says(w) \in Tokens
    BY <2>1, <2>2, SaysToken
  <2> QED
    BY <2>3 DEF w
<1> DEFINE u == Append(c, e)
<1>3. u \in Seq(Tokens) /\ Len(u) = Len(c) + 1 /\ GreedyOn(u)
  BY <1>2, FrontOfAppend, GreedyGrows
<1>4. ButLast(Cat(text, u)) = Cat(text, c)
  <2>1. Append(Cat(text, c), e) = Cat(text, u) /\ Cat(text, c) \in Seq(Tokens)
    BY <1>1, <1>2, AppendConcat
  <2>2. ButLast(Append(Cat(text, c), e)) = Cat(text, c)
    <3> DEFINE w == Cat(text, c)
    <3>1. w \in Seq(Tokens)
      BY <2>1
    <3> HIDE DEF w
    <3>2. ButLast(Append(w, e)) = w
      BY <1>2, <3>1, FrontOfAppend
    <3> QED
      BY <3>2 DEF w
  <2> QED
    BY <2>1, <2>2
<1>5. verdict'.committed = u
  OBVIOUS
<1> HIDE DEF u
<1>6. FedIsWhole'
  BY <1>4, <1>5 DEF FedIsWhole, Whole
<1>7. GreedyOn(verdict.committed)'
  BY <1>3, <1>5 DEF GreedyOn, Says
<1> QED
  BY <1>2, <1>3, <1>5, <1>6, <1>7 DEF u

LEMMA VerifyTokenStep ==
  ASSUME EngineInv, VerifyToken
  PROVE  EngineInv' /\ [Abstract!Next]_(Abstract!vars)
<1> DEFINE c == verdict.committed
           i == verdict.accepted + 1
           history == Append(fed, Input(i))
           e == model[history]
           agrees == i <= Len(Candidates) /\ Candidates[i] = e
<1>1. /\ Types /\ text # <<>> /\ count \in Nat /\ Len(text) \in Nat
      /\ Candidates \in Seq(Tokens) /\ Len(Candidates) \in Nat
      /\ Len(text) + Len(Candidates) + 1 <= count
      /\ c \in Seq(Tokens) /\ Prompt \in Seq(Tokens)
  BY Verifying DEF VerifyToken
<1>2. /\ status = "verify" /\ mode = "token_major"
      /\ proposal.anchor = text[Len(text)] /\ Len(text) < count /\ Len(text) <= count
      /\ FedIsWhole /\ GreedyOn(c) /\ Len(c) = verdict.accepted
      /\ verdict.accepted <= Len(Candidates)
      /\ \A j \in 1..verdict.accepted : c[j] = Candidates[j]
  BY DEF VerifyToken, EngineInv, AtVerify
<1>3. /\ fed' = history
      /\ verdict' = [verdict EXCEPT !.committed = Append(@, e),
                                    !.accepted = IF agrees THEN i ELSE @,
                                    !.done = ~agrees]
      /\ status' = IF agrees THEN "verify" ELSE "update"
      /\ UNCHANGED <<provider, model, count, mode, text, proposal>>
  BY DEF VerifyToken, providerVars
<1>4. verdict.accepted \in Nat /\ verdict \in VerdictSet /\ text \in Seq(Tokens)
  BY <1>1 DEF Types, VerdictSet
<1>5. Whole \in Seq(Tokens) /\ Whole # <<>> /\ Input(i) = Whole[Len(Whole)]
  <2>1. /\ Whole \in Seq(Tokens) /\ Len(Whole) = Len(text) + Len(c) /\ Len(text) # 0
        /\ \A j \in 1..Len(text) : Whole[j] = text[j]
        /\ \A j \in (Len(text) + 1)..(Len(text) + Len(c)) : Whole[j] = c[j - Len(text)]
    BY <1>1, <1>4, ConcatProperties DEF Whole, Cat
  <2>2. Len(Whole) # 0 /\ Whole # <<>>
    BY <1>1, <1>2, <1>4, <2>1
  <2>3. CASE verdict.accepted = 0
    <3>1. i = 1 /\ Len(Whole) = Len(text) /\ Len(text) \in 1..Len(text)
      BY <1>1, <1>2, <2>1, <2>3
    <3>2. Input(i) = proposal.anchor
      BY <3>1 DEF Input
    <3>3. Whole[Len(Whole)] = text[Len(text)]
      BY <2>1, <3>1
    <3> QED
      BY <1>2, <2>1, <2>2, <3>2, <3>3
  <2>4. CASE verdict.accepted # 0
    <3> DEFINE n == verdict.accepted
               l == Len(text)
    <3>1. n \in Nat \ {0} /\ l \in Nat /\ Len(c) = n /\ i = n + 1
      BY <1>1, <1>2, <1>4, <2>4
    <3>2. Len(Whole) = l + n
      BY <2>1, <3>1
    <3>3. /\ i # 1 /\ i - 1 = n /\ n \in 1..n /\ l + n - l = n
          /\ l + n \in (l + 1)..(l + n)
      <4> HIDE DEF n, l, c, i
      <4> QED
        BY <3>1
    <3>5. Input(i) = Candidates[n]
      BY <3>3 DEF Input
    <3>6. Whole[l + n] = c[n]
      <4>1. \A j \in (l + 1)..(l + n) : Whole[j] = c[j - l]
        BY <2>1, <3>1
      <4> DEFINE j == l + n
                 k == j - l
      <4>2. j \in (l + 1)..(l + n) /\ k = n
        BY <3>3
      <4> HIDE DEF j
      <4>3. Whole[j] = c[k]
        BY <4>1, <4>2
      <4> HIDE DEF k
      <4>4. Whole[j] = c[n]
        BY <4>2, <4>3
      <4> QED
        BY <4>4 DEF j
    <3>7. c[n] = Candidates[n]
      BY <1>2, <3>3
    <3> QED
      BY <2>1, <2>2, <3>2, <3>5, <3>6, <3>7
  <2> QED
    BY <2>3, <2>4
<1>6. history = Cat(Prompt, Whole)
  <2>1. fed = Cat(Prompt, ButLast(Whole))
    BY <1>1, <1>2 DEF FedIsWhole
  <2> HIDE DEF i
  <2>2. Append(Cat(Prompt, ButLast(Whole)), Whole[Len(Whole)]) = Cat(Prompt, Whole)
    BY <1>1, <1>5, FeedLast
  <2> QED
    BY <1>5, <2>1, <2>2
<1>7. e = Says(Cat(text, c))
  BY <1>6 DEF Says, Whole
<1>8. /\ verdict'.committed = Append(c, e)
      /\ verdict'.accepted = (IF agrees THEN i ELSE verdict.accepted)
      /\ verdict'.done = ~agrees /\ verdict'.loads = verdict.loads
      /\ verdict'.assigned = verdict.assigned
  <2> HIDE DEF agrees, e, i
  <2> QED
    BY <1>3, <1>4 DEF VerdictSet
<1>9. fed' = Cat(Prompt, Cat(text, c))
  BY <1>3, <1>6 DEF Whole
<1>10. Len(text) + Len(c) <= count
  BY <1>1, <1>2, <1>4
<1> HIDE DEF history, e, agrees
<1>11. /\ e \in Tokens /\ Append(c, e) \in Seq(Tokens) /\ FedIsWhole'
       /\ GreedyOn(verdict.committed)' /\ Len(verdict'.committed) = Len(c) + 1
  <2> HIDE DEF c, i
  <2>1. GreedyOn(c) /\ verdict'.committed = Append(c, e) /\ UNCHANGED <<model, text>>
    BY <1>2, <1>3, <1>8
  <2> QED
    BY <1>1, <1>7, <1>9, <1>10, <2>1, VerdictGrows
<1>12. Types'
  <2>1. verdict' \in VerdictSet
    <3> DEFINE w == [verdict EXCEPT !.committed = Append(c, e),
                                    !.accepted = IF agrees THEN i ELSE @,
                                    !.done = ~agrees]
               a == IF agrees THEN i ELSE verdict.accepted
               d == ~agrees
               u == Append(c, e)
    <3>1. a \in Nat /\ d \in BOOLEAN /\ u \in Seq(Tokens)
      BY <1>4, <1>11
    <3>2. verdict' = [verdict EXCEPT !.committed = u, !.accepted = a, !.done = d]
      BY <1>3
    <3> HIDE DEF a, d, u
    <3> QED
      BY <1>4, <3>1, <3>2 DEF VerdictSet
  <2>2. status' \in Running
    BY <1>3 DEF Running
  <2> QED
    BY <1>1, <1>3, <2>1, <2>2 DEF Types
<1>13. UNCHANGED Abstract!vars
  <2>1. status \in Running /\ status' \in Running
    BY <1>2, <1>3 DEF Running
  <2> QED
    BY <1>3, <2>1, RunningIs
<1>14. CASE agrees
  <2>1. /\ status' = "verify" /\ verdict'.accepted = i /\ i <= Len(Candidates)
        /\ Candidates[i] = e
    BY <1>3, <1>8, <1>14 DEF agrees
  <2>2. Len(verdict'.committed) = i
    BY <1>2, <1>11
  <2>3. \A j \in 1..i : verdict'.committed[j] = Candidates[j]
    <3>1. /\ Append(c, e)[Len(c) + 1] = e
          /\ \A j \in 1..Len(c) : Append(c, e)[j] = c[j]
      BY <1>1, <1>11, FrontOfAppend
    <3> SUFFICES ASSUME NEW j \in 1..i PROVE verdict'.committed[j] = Candidates[j]
      OBVIOUS
    <3>2. CASE j = i
      BY <1>2, <1>8, <2>1, <3>1, <3>2
    <3>3. CASE j # i
      <4>1. j \in 1..Len(c) /\ j \in 1..verdict.accepted
        BY <1>2, <1>4, <3>3
      <4> QED
        BY <1>2, <1>8, <3>1, <4>1
    <3> QED
      BY <3>2, <3>3
  <2>4. AtVerify'
    BY <1>1, <1>2, <1>3, <1>11, <2>1, <2>2, <2>3 DEF AtVerify, Candidates
  <2> QED
    BY <1>2, <1>3, <1>12, <1>13, <2>1, <2>4 DEF EngineInv, AtPropose, AtUpdate
<1>15. CASE ~agrees
  <2>1. status' = "update"
    BY <1>3, <1>15
  <2>2. Len(verdict'.committed) \in 1..(count - Len(text))
    BY <1>1, <1>2, <1>4, <1>11
  <2>3. AtUpdate'
    BY <1>1, <1>3, <1>11, <2>2 DEF AtUpdate
  <2> QED
    BY <1>2, <1>3, <1>12, <1>13, <2>1, <2>3 DEF EngineInv, AtPropose, AtVerify
<1> QED
  BY <1>14, <1>15

\* What the block path reads at a position of the block.
LEMMA BlockTargetIs ==
  ASSUME Types, text # <<>>, Candidates \in Seq(Tokens),
         proposal.anchor = text[Len(text)], fed = Cat(Prompt, ButLast(text)),
         NEW j \in 0..Len(Candidates)
  PROVE  /\ fed \o SubSeq(BlockInputs, 1, j + 1)
               = Cat(Prompt, Cat(text, SubSeq(Candidates, 1, j)))
         /\ BlockTargets[j + 1] = Says(Cat(text, SubSeq(Candidates, 1, j)))
<1> DEFINE h == Cat(Prompt, Cat(text, SubSeq(Candidates, 1, j)))
<1>1. Prompt \in Seq(Tokens) /\ text \in Seq(Tokens)
  BY PromptAssumption DEF Types
<1>2. BlockInputs = <<text[Len(text)]>> \o Candidates
  BY DEF BlockInputs
<1>3. Cat(Cat(Prompt, ButLast(text)),
          SubSeq(<<text[Len(text)]>> \o Candidates, 1, j + 1)) = h
  <2> HIDE DEF Candidates
  <2> QED
    BY <1>1, BlockHistory
<1>4. fed \o SubSeq(BlockInputs, 1, j + 1) = h
  <2> DEFINE b == SubSeq(BlockInputs, 1, j + 1)
  <2>1. Cat(Cat(Prompt, ButLast(text)), b) = h
    BY <1>2, <1>3
  <2> HIDE DEF b, h
  <2> QED
    BY <2>1 DEF Cat, b
<1>5. j + 1 \in 1..Len(BlockInputs)
  <2> DEFINE one == <<text[Len(text)]>>
             cs == Candidates
             len == Len(one \o cs)
  <2>1. one \in Seq(Tokens) /\ Len(one) = 1 /\ cs \in Seq(Tokens) /\ Len(cs) \in Nat
    BY <1>1, FrontLast
  <2> HIDE DEF one, cs
  <2>2. Len(one \o cs) = Len(one) + Len(cs)
    BY <2>1, ConcatProperties
  <2> HIDE DEF len
  <2>4. len = 1 + Len(cs)
    BY <2>1, <2>2 DEF len
  <2>3. j + 1 \in 1..len
    BY <2>1, <2>4 DEF cs
  <2> QED
    BY <1>2, <2>3 DEF one, cs, len
<1>6. BlockTargets[j + 1] = model[h]
  BY <1>4, <1>5 DEF BlockTargets
<1> QED
  BY <1>4, <1>6 DEF Says

\* The agreed prefix is one of the prefixes that agree.
LEMMA AgreedPrefixIs ==
  ASSUME Candidates \in Seq(Tokens)
  PROVE  /\ AgreedPrefix \in 0..Len(Candidates)
         /\ \A i \in 1..AgreedPrefix : Candidates[i] = BlockTargets[i]
<1> DEFINE n == Len(Candidates)
           S == {k \in 0..n : \A i \in 1..k : Candidates[i] = BlockTargets[i]}
<1>1. n \in Nat
  OBVIOUS
<1>2. S \in SUBSET (0..n) /\ S # {}
  <2>1. 0 \in S
    BY <1>1
  <2> QED
    BY <2>1
<1>3. Max(S) \in S
  <2> HIDE DEF n, S
  <2> QED
    BY <1>1, <1>2, TopOf
<1> QED
  BY <1>3 DEF AgreedPrefix

LEMMA VerifyBlockStep ==
  ASSUME EngineInv, VerifyBlock
  PROVE  EngineInv' /\ [Abstract!Next]_(Abstract!vars)
<1> DEFINE k == AgreedPrefix
           d == SubSeq(Candidates, 1, k)
           e == BlockTargets[k + 1]
<1>1. /\ Types /\ text # <<>> /\ count \in Nat /\ Len(text) \in Nat
      /\ Candidates \in Seq(Tokens) /\ Len(Candidates) \in Nat
      /\ Len(text) + Len(Candidates) + 1 <= count
      /\ Prompt \in Seq(Tokens)
  BY Verifying DEF VerifyBlock
<1>2. /\ status = "verify" /\ Len(text) <= count
      /\ proposal.anchor = text[Len(text)] /\ verdict = NoVerdict /\ FedIsWhole
  BY DEF VerifyBlock, EngineInv, AtVerify
<1>3. PICK cost \in Costs :
        /\ verdict' = [accepted |-> k, committed |-> Append(d, e), done |-> TRUE,
                       loads |-> cost[1], assigned |-> cost[2]]
        /\ fed' = fed \o SubSeq(BlockInputs, 1, k + 1)
  BY DEF VerifyBlock
<1>4. /\ status' = "update"
      /\ UNCHANGED <<provider, model, count, mode, text, proposal>>
  BY DEF VerifyBlock, providerVars
<1>5. fed = Cat(Prompt, ButLast(text))
  BY <1>1, <1>2, NothingDecided DEF FedIsWhole
<1>6. k \in 0..Len(Candidates) /\ \A i \in 1..k : Candidates[i] = BlockTargets[i]
  BY <1>1, AgreedPrefixIs
<1>7. \A j \in 0..Len(Candidates) :
        /\ fed \o SubSeq(BlockInputs, 1, j + 1)
              = Cat(Prompt, Cat(text, SubSeq(Candidates, 1, j)))
        /\ BlockTargets[j + 1] = Says(Cat(text, SubSeq(Candidates, 1, j)))
  BY <1>1, <1>2, <1>5, BlockTargetIs
<1> HIDE DEF k
<1>8. e = Says(Cat(text, d)) /\ fed' = Cat(Prompt, Cat(text, d))
  BY <1>3, <1>6, <1>7
<1>9. \A i \in 1..k : Candidates[i] = Says(Cat(text, SubSeq(Candidates, 1, i - 1)))
  <2> SUFFICES ASSUME NEW i \in 1..k
               PROVE  Candidates[i] = Says(Cat(text, SubSeq(Candidates, 1, i - 1)))
    OBVIOUS
  <2> DEFINE j == i - 1
  <2>1. j \in 0..Len(Candidates) /\ j + 1 = i
    BY <1>1, <1>6
  <2> HIDE DEF j
  <2>2. BlockTargets[i] = Says(Cat(text, SubSeq(Candidates, 1, j)))
    BY <1>7, <2>1
  <2> QED
    BY <1>6, <2>2 DEF j
<1>10. d \in Seq(Tokens) /\ Len(d) = k /\ GreedyOn(d)
  <2> DEFINE cs == Candidates
  <2>1. cs \in Seq(Tokens) /\ k \in 0..Len(cs)
    BY <1>1, <1>6
  <2>2. k \in 0..k
    BY <1>1, <1>6
  <2>3. \A i \in 1..k : cs[i] = Says(Cat(text, SubSeq(cs, 1, i - 1)))
    BY <1>9
  <2> HIDE DEF cs
  <2>4. SubSeq(cs, 1, k) \in Seq(Tokens) /\ Len(SubSeq(cs, 1, k)) = k
    BY <2>1, <2>2, PrefixOfPrefix
  <2>5. GreedyOn(SubSeq(cs, 1, k))
    BY <1>1, <2>1, <2>3, GreedyPrefix
  <2> QED
    BY <2>4, <2>5 DEF cs
<1> HIDE DEF d, e
<1>11. verdict'.committed = Append(d, e)
  BY <1>3
<1>12. Len(text) + Len(d) <= count
  BY <1>1, <1>6, <1>10
<1>13. /\ e \in Tokens /\ Append(d, e) \in Seq(Tokens) /\ FedIsWhole'
       /\ GreedyOn(verdict.committed)' /\ Len(verdict'.committed) = Len(d) + 1
  BY <1>1, <1>4, <1>8, <1>10, <1>11, <1>12, VerdictGrows
<1>14. Types'
  <2>1. cost[1] \in Nat /\ cost[2] \in Nat /\ k \in Nat
    BY <1>1, <1>6, SpeculativeAssumption
  <2>2. verdict' \in VerdictSet
    BY <1>3, <1>13, <2>1 DEF VerdictSet
  <2> QED
    BY <1>1, <1>4, <2>2 DEF Types, Running
<1>15. UNCHANGED Abstract!vars
  BY <1>2, <1>4, RunningIs DEF Running
<1>16. Len(verdict'.committed) \in 1..(count - Len(text))
  BY <1>1, <1>6, <1>10, <1>13
<1>17. AtUpdate'
  BY <1>1, <1>4, <1>13, <1>16 DEF AtUpdate
<1> QED
  BY <1>2, <1>4, <1>14, <1>15, <1>17 DEF EngineInv, AtPropose, AtVerify

LEMMA CommitStep ==
  ASSUME EngineInv, CommitBlock
  PROVE  EngineInv' /\ [Abstract!Next]_(Abstract!vars)
<1> DEFINE c == verdict.committed
<1>1. /\ Types /\ status = "update" /\ text # <<>> /\ FedIsWhole /\ GreedyOn(c)
      /\ Len(c) \in 1..(count - Len(text)) /\ Len(text) <= count
      /\ text \in Seq(Tokens) /\ c \in Seq(Tokens) /\ Report
  BY DEF CommitBlock, EngineInv, AtUpdate, Types, VerdictSet
<1>2. /\ text' = Cat(text, c) /\ proposal' = NoProposal /\ verdict' = NoVerdict
      /\ status' = "propose" /\ UNCHANGED <<model, count, mode, fed>>
  BY DEF CommitBlock, Cat
<1>3. provider' \in ProvSet
  BY <1>1, ReportTyped
<1>4. /\ count \in Nat /\ Cat(text, c) \in Seq(Tokens)
      /\ Len(Cat(text, c)) = Len(text) + Len(c)
      /\ Len(text) \in Nat /\ Len(c) \in Nat
  BY <1>1, SpeculativeAssumption, ConcatProperties DEF Cat, Types
<1> HIDE DEF c
<1>5. Abstract!Extend
  <2>1. status \in Running /\ status' \in Running
    BY <1>1, <1>2 DEF Running
  <2> QED
    BY <1>1, <1>2, <2>1, ExtendStep
<1>6. text' \in Seq(Tokens) /\ text' # <<>> /\ Len(text') <= count'
  <2>1. Len(text') # 0 /\ Len(text') <= count
    BY <1>1, <1>2, <1>4
  <2> QED
    BY <1>2, <1>4, <2>1
<1>7. Types'
  <2>1. NoProposal \in [anchor : AnyToken, candidates : Seq(AnyToken)]
    BY DEF NoProposal, AnyToken
  <2> QED
    BY <1>1, <1>2, <1>3, <1>6, <2>1, NothingDecided DEF Types, Running
<1>8. Whole' = text'
  <2>1. Cat(text', <<>>) = text'
    BY <1>6, CatEmpty
  <2> QED
    BY <1>1, <1>2, <2>1, NothingDecided DEF Whole
<1>9. FedIsWhole'
  <2>1. fed = Cat(Prompt, ButLast(Whole)) /\ Whole = text'
    BY <1>1, <1>2 DEF FedIsWhole, Whole, c
  <2> QED
    BY <1>2, <1>8, <2>1 DEF FedIsWhole
<1>10. EngineInv'
  BY <1>2, <1>6, <1>7, <1>9 DEF EngineInv, AtPropose, AtVerify, AtUpdate
<1> QED
  BY <1>5, <1>10 DEF Abstract!Next

-----------------------------------------------------------------------------
(* The theorems                                                            *)

LEMMA EngineInitial ==
  ASSUME Init
  PROVE  EngineInv /\ Abstract!Init
<1>1. /\ model \in Models /\ count \in Counts /\ mode \in Verifications
      /\ text = <<>> /\ proposal = NoProposal /\ verdict = NoVerdict
      /\ status = "prefill"
  BY DEF Init
<1>2. count \in Nat /\ Len(text) = 0 /\ text \in Seq(Tokens)
  BY <1>1, SpeculativeAssumption
<1>3. provider \in ProvSet
  <2>1. PICK kind \in Kinds : provider = FreshProvider(kind)
    BY DEF Init, ProviderInit
  <2>2. Prompt[1] \in Tokens
    BY PromptAssumption
  <2>3. <<>> \in Seq(Tokens)
    OBVIOUS
  <2> QED
    BY <2>1, <2>2, <2>3 DEF FreshProvider, ProvSet
<1>4. proposal \in [anchor : AnyToken, candidates : Seq(AnyToken)]
  BY <1>1 DEF NoProposal, AnyToken
<1>5. verdict \in VerdictSet
  BY <1>1 DEF NoVerdict, VerdictSet
<1>6. Types
  BY <1>1, <1>2, <1>3, <1>4, <1>5 DEF Types, Running
<1>7. EngineInv
  BY <1>1, <1>2, <1>6 DEF EngineInv, AtPropose, AtVerify, AtUpdate
<1> QED
  BY <1>1, <1>7 DEF Abstract!Init

LEMMA EngineStep ==
  ASSUME EngineInv, [Next]_vars
  PROVE  EngineInv' /\ [Abstract!Next]_(Abstract!vars)
<1>1. CASE UNCHANGED vars
  <2>1. UNCHANGED engineVars /\ provider' \in ProvSet
    BY <1>1 DEF vars, engineVars, providerVars, EngineInv, Types
  <2> QED
    BY <2>1, ProviderStep
<1>2. CASE Next
  BY <1>2, PrefillStep, FinishStep, FailingStep, ProviderOnly, DraftStep,
     VerifyTokenStep, VerifyBlockStep, CommitStep DEF Next
<1> QED
  BY <1>1, <1>2

\* What the steps preserve: what the target was fed is the prompt and all but
\* the last token of the text and of the part of the block that is decided,
\* and that part is greedy.
THEOREM EngineInvariant == Spec => []EngineInv
<1>1. Init => EngineInv
  BY EngineInitial
<1>2. EngineInv /\ [Next]_vars => EngineInv'
  BY EngineStep
<1> QED
  BY <1>1, <1>2, PTL DEF Spec

\* Before every request the target was fed the prompt and the text but its
\* last token, whatever was proposed and however it was verified.
THEOREM TargetFollowsTextCorrect == Spec => []TargetFollowsText
<1>1. EngineInv => TargetFollowsText
  <2> SUFFICES ASSUME EngineInv, status = "propose", text # <<>>
               PROVE  fed = Prompt \o SubSeq(text, 1, Len(text) - 1)
    BY DEF TargetFollowsText
  <2>1. Types /\ verdict = NoVerdict /\ FedIsWhole
    BY DEF EngineInv, AtPropose
  <2>2. fed = Cat(Prompt, ButLast(text))
    BY <2>1, NothingDecided DEF FedIsWhole
  <2> QED
    BY <2>2 DEF Cat, ButLast
<1> QED
  BY <1>1, EngineInvariant, PTL

\* With any draft provider and either verification the text is the one greedy
\* decoding of the target yields.
THEOREM ImplementsGreedyTextCorrect == Spec => ImplementsGreedyText
<1>1. Init => Abstract!Init
  BY EngineInitial
<1>2. EngineInv /\ [Next]_vars => [Abstract!Next]_(Abstract!vars)
  BY EngineStep
<1> QED
  BY <1>1, <1>2, EngineInvariant, PTL DEF Spec, ImplementsGreedyText, Abstract!Spec

-----------------------------------------------------------------------------
(* The draft cursor                                                        *)

IsCursor(c) ==
  c = [life |-> c.life, kda |-> c.kda, mla |-> c.mla, base |-> c.base,
       marks |-> c.marks, candidates |-> c.candidates]

\* The first i candidates of c behind the text P.
Upto(P, c, i) == Cat(P, SubSeq(c, 1, i))

\* A cursor that has fed P and a proposal and waits for its commit.
CursorWaits(c, P) ==
  /\ c.candidates \in Seq(Tokens)
  /\ c.kda = Upto(P, c.candidates, Len(c.candidates) - 1) /\ c.mla = c.kda
  /\ c.base = Mark(P, P)
  /\ DOMAIN c.marks = 1..(Len(c.candidates) - 1)
  /\ \A i \in 1..(Len(c.candidates) - 1) :
        c.marks[i] = Mark(Upto(P, c.candidates, i), Upto(P, c.candidates, i))

\* The states of a text and a prefix of a proposal.
LEMMA UptoIs ==
  ASSUME NEW S, NEW P \in Seq(S), NEW c \in Seq(S), NEW i \in 0..Len(c)
  PROVE  /\ Upto(P, c, i) \in Seq(S) /\ Len(Upto(P, c, i)) = Len(P) + i
         /\ \A k \in 1..(Len(P) + i) :
               Upto(P, c, i)[k] = IF k <= Len(P) THEN P[k] ELSE c[k - Len(P)]
<1> DEFINE d == SubSeq(c, 1, i)
<1>1. /\ Len(P) \in Nat /\ Len(c) \in Nat /\ d \in Seq(S) /\ Len(d) = i
      /\ \A k \in 1..i : d[k] = c[k]
  OBVIOUS
<1> HIDE DEF d
<1>2. /\ P \o d \in Seq(S) /\ Len(P \o d) = Len(P) + Len(d)
      /\ \A k \in 1..Len(P) + Len(d) : (P \o d)[k] = IF k <= Len(P) THEN P[k] ELSE d[k - Len(P)]
  BY <1>1, ConcatProperties
<1>3. Upto(P, c, i) = P \o d
  BY DEF Upto, Cat, d
<1>4. \A k \in 1..(Len(P) + i) : ~(k <= Len(P)) => k - Len(P) \in 1..i
  BY <1>1
<1> QED
  BY <1>1, <1>2, <1>3, <1>4

\* Cropping what was fed to the length of a mark leaves what the mark stands for.
LEMMA CropIs ==
  ASSUME NEW S, NEW P \in Seq(S), NEW c \in Seq(S), NEW m \in 0..Len(c), NEW i \in 0..m
  PROVE  /\ SubSeq(Upto(P, c, m), 1, Len(Upto(P, c, i))) = Upto(P, c, i)
         /\ Len(Upto(P, c, i)) <= Len(Upto(P, c, m))
<1> DEFINE a == Upto(P, c, m)
           b == Upto(P, c, i)
           r == SubSeq(a, 1, Len(b))
<1>1. Len(P) \in Nat /\ Len(c) \in Nat /\ m \in Nat /\ i \in Nat /\ i <= m /\ i \in 0..Len(c)
  OBVIOUS
<1>2. /\ a \in Seq(S) /\ Len(a) = Len(P) + m
      /\ \A k \in 1..(Len(P) + m) : a[k] = IF k <= Len(P) THEN P[k] ELSE c[k - Len(P)]
  BY <1>1, UptoIs
<1>3. /\ b \in Seq(S) /\ Len(b) = Len(P) + i
      /\ \A k \in 1..(Len(P) + i) : b[k] = IF k <= Len(P) THEN P[k] ELSE c[k - Len(P)]
  BY <1>1, UptoIs
<1> HIDE DEF a, b
<1>4. r \in Seq(S) /\ Len(r) = Len(b) /\ \A k \in 1..Len(b) : r[k] = a[k]
  BY <1>1, <1>2, <1>3
<1>5. \A k \in 1..Len(b) : r[k] = b[k]
  <2> TAKE k \in 1..Len(b)
  <2>1. k \in 1..(Len(P) + i) /\ k \in 1..(Len(P) + m) /\ r[k] = a[k]
    <3> HIDE DEF r
    <3> QED
      BY <1>1, <1>3, <1>4
  <2> HIDE DEF r
  <2> QED
    BY <1>2, <1>3, <2>1
<1> HIDE DEF r
<1>6. r = b
  BY <1>3, <1>4, <1>5, SeqEqual
<1> QED
  BY <1>1, <1>2, <1>3, <1>6 DEF a, b, r

\* Nothing and all of a proposal.
LEMMA UptoEnds ==
  ASSUME NEW S, NEW P \in Seq(S), NEW c \in Seq(S)
  PROVE  /\ Upto(P, c, 0) = P /\ Upto(P, c, Len(c)) = Cat(P, c)
         /\ Len(c) = 0 => Upto(P, c, Len(c) - 1) = P
<1>1. SubSeq(c, 1, 0) = <<>> /\ SubSeq(c, 1, Len(c)) = c
  BY SubSeqFull
<1>2. Len(c) = 0 => SubSeq(c, 1, Len(c) - 1) = <<>>
  OBVIOUS
<1>3. Cat(P, <<>>) = P
  BY CatEmpty
<1> QED
  BY <1>1, <1>2, <1>3 DEF Upto

\* The next candidate.
LEMMA UptoNext ==
  ASSUME NEW S, NEW P \in Seq(S), NEW c \in Seq(S), NEW i \in 1..Len(c)
  PROVE  Append(Upto(P, c, i - 1), c[i]) = Upto(P, c, i)
<1> DEFINE a == Upto(P, c, i - 1)
           b == Upto(P, c, i)
           u == Append(a, c[i])
<1>1. Len(P) \in Nat /\ Len(c) \in Nat /\ i \in Nat /\ i - 1 \in 0..Len(c) /\ i \in 0..Len(c)
      /\ c[i] \in S
  OBVIOUS
<1>2. /\ a \in Seq(S) /\ Len(a) = Len(P) + (i - 1)
      /\ \A k \in 1..(Len(P) + (i - 1)) : a[k] = IF k <= Len(P) THEN P[k] ELSE c[k - Len(P)]
  BY <1>1, UptoIs
<1>3. /\ b \in Seq(S) /\ Len(b) = Len(P) + i
      /\ \A k \in 1..(Len(P) + i) : b[k] = IF k <= Len(P) THEN P[k] ELSE c[k - Len(P)]
  BY <1>1, UptoIs
<1> HIDE DEF a, b
<1>4. /\ u \in Seq(S) /\ Len(u) = Len(a) + 1 /\ u[Len(a) + 1] = c[i]
      /\ \A k \in 1..Len(a) : u[k] = a[k]
  BY <1>1, <1>2, AppendProperties
<1> HIDE DEF u
<1>5. \A k \in 1..Len(u) : u[k] = b[k]
  <2> TAKE k \in 1..Len(u)
  <2>1. CASE k <= Len(a)
    <3>1. k \in 1..Len(a) /\ k \in 1..(Len(P) + (i - 1)) /\ k \in 1..(Len(P) + i)
      BY <1>1, <1>2, <1>4, <2>1
    <3> QED
      BY <1>2, <1>3, <1>4, <3>1
  <2>2. CASE ~(k <= Len(a))
    <3>1. k = Len(P) + i /\ k - Len(P) = i /\ ~(k <= Len(P))
      BY <1>1, <1>2, <1>4, <2>2
    <3>2. k \in 1..(Len(P) + i)
      BY <1>1, <3>1
    <3>3. b[k] = c[k - Len(P)] /\ c[k - Len(P)] = c[i]
      BY <1>3, <3>1, <3>2
    <3>4. k = Len(a) + 1
      BY <1>1, <1>2, <3>1
    <3> QED
      BY <1>4, <3>3, <3>4
  <2> QED
    BY <2>1, <2>2
<1>6. u = b
  BY <1>1, <1>2, <1>3, <1>4, <1>5, SeqEqual
<1> QED
  BY <1>6 DEF a, b, u

\* A valid commit is an accepted prefix and the target's own token.
LEMMA CommittedIs ==
  ASSUME NEW S, NEW c \in Seq(S), NEW a \in 0..Len(c), NEW w \in Seq(S), Len(w) = a + 1,
         \A i \in 1..a : w[i] = c[i]
  PROVE  w = Append(SubSeq(c, 1, a), w[a + 1]) /\ w[a + 1] \in S
<1> DEFINE q == SubSeq(c, 1, a)
           e == w[a + 1]
           u == Append(q, e)
<1>1. q \in Seq(S) /\ Len(q) = a /\ (\A i \in 1..a : q[i] = c[i]) /\ a \in Nat
  OBVIOUS
<1>2. e \in S
  BY <1>1
<1> HIDE DEF q
<1>3. w[a + 1] = e
  OBVIOUS
<1> HIDE DEF e
<1>4. /\ u \in Seq(S) /\ Len(u) = a + 1 /\ u[a + 1] = e /\ \A i \in 1..a : u[i] = q[i]
  BY <1>1, <1>2, AppendProperties
<1> HIDE DEF u
<1>5. \A i \in 1..Len(u) : u[i] = w[i]
  BY <1>1, <1>3, <1>4
<1>6. u = w
  BY <1>4, <1>5, SeqEqual
<1> QED
  BY <1>2, <1>6 DEF q, e, u

\* One or two tokens behind a text.
LEMMA TailOne ==
  ASSUME NEW S, NEW s \in Seq(S), NEW e \in S
  PROVE  Cat(s, Append(<<>>, e)) = Append(s, e)
<1>1. Append(<<>>, e) = <<e>>
  OBVIOUS
<1>2. Append(s, e) = s \o <<e>>
  BY AppendIsConcat
<1> QED
  BY <1>1, <1>2 DEF Cat

LEMMA TailTwo ==
  ASSUME NEW S, NEW s \in Seq(S), NEW x \in S, NEW e \in S
  PROVE  Cat(s, Append(<<x>>, e)) = Append(Append(s, x), e)
<1> DEFINE one == <<x>>
           u == Append(s, x)
<1>1. one \in Seq(S) /\ Append(s, x) = s \o one
  BY AppendIsConcat
<1>2. u = Cat(s, one)
  BY <1>1 DEF Cat
<1> HIDE DEF one, u
<1>3. Append(Cat(s, one), e) = Cat(s, Append(one, e))
  BY <1>1, AppendConcat
<1> QED
  BY <1>2, <1>3 DEF one, u

\* A commit leaves both states at the committed text, whatever was rolled back.
LEMMA CommitFollows ==
  ASSUME NEW P \in Seq(Tokens), CursorWaits(cursor, P), NEW a \in Nat, NEW w \in Seq(Tokens),
         ValidCommit(a, w)
  PROVE  /\ Committed(a, w) = [NoCursor EXCEPT !.life = "idle", !.kda = Cat(P, w),
                                               !.mla = Cat(P, w)]
         /\ Restorable(a)
<1> DEFINE c == cursor.candidates
           n == Len(c)
           q == Upto(P, c, a)
           e == w[a + 1]
<1>1. /\ c \in Seq(Tokens) /\ n \in Nat /\ a \in 0..n /\ Len(w) = a + 1
      /\ \A i \in 1..a : w[i] = c[i]
  BY DEF CursorWaits, ValidCommit
<1>2. /\ cursor.kda = Upto(P, c, n - 1) /\ cursor.mla = cursor.kda
      /\ cursor.base = Mark(P, P)
      /\ \A i \in 1..(n - 1) : cursor.marks[i] = Mark(Upto(P, c, i), Upto(P, c, i))
  BY DEF CursorWaits
<1>3. e \in Tokens /\ w = Append(SubSeq(c, 1, a), e)
  BY <1>1, CommittedIs
<1>4. q \in Seq(Tokens) /\ Append(q, e) = Cat(P, w)
  <2> DEFINE d == SubSeq(c, 1, a)
  <2>1. d \in Seq(Tokens) /\ w = Append(d, e) /\ e \in Tokens
    BY <1>1, <1>3
  <2>2. q = Cat(P, d)
    BY DEF Upto
  <2>3. q \in Seq(Tokens)
    BY <1>1, UptoIs
  <2> HIDE DEF d, q, e
  <2>4. Append(Cat(P, d), e) = Cat(P, Append(d, e))
    BY <2>1, AppendConcat
  <2> QED
    BY <2>1, <2>2, <2>3, <2>4
<1>5. CASE Rolls(a)
  <2>1. a + 1 < n /\ a \in 0..(n - 1) /\ n - 1 \in 0..n
    BY <1>1, <1>5 DEF Rolls
  <2>2. MarkOf(a) = Mark(q, q)
    <3>1. CASE a = 0
      BY <1>1, <1>2, <3>1, UptoEnds DEF MarkOf
    <3>2. CASE a # 0
      BY <1>2, <2>1, <3>2 DEF MarkOf
    <3> QED
      BY <3>1, <3>2
  <2>3. MarkOf(a).kda = q /\ MarkOf(a).length = Len(q)
    BY <2>2 DEF Mark
  <2>4. SubSeq(cursor.mla, 1, Len(q)) = q /\ Len(q) <= Len(cursor.mla)
    BY <1>1, <1>2, <2>1, CropIs
  <2>5. Catch(a) = <<>>
    BY <1>1, <2>1 DEF Catch
  <2> HIDE DEF q
  <2>6. Kda(a) = q /\ Mla(a) = q
    BY <1>5, <2>3, <2>4 DEF Kda, Mla
  <2>7. Restorable(a)
    BY <2>3, <2>4 DEF Restorable
  <2>8. q \o Append(<<>>, e) = Append(q, e)
    BY <1>3, <1>4, TailOne DEF Cat
  <2> QED
    BY <1>4, <2>5, <2>6, <2>7, <2>8 DEF Committed
<1>6. CASE ~Rolls(a)
  <2>1. a = n - 1 \/ a = n
    BY <1>1, <1>6 DEF Rolls
  <2>2. Kda(a) = cursor.kda /\ Mla(a) = cursor.kda /\ Restorable(a)
    BY <1>2, <1>6 DEF Kda, Mla, Restorable
  <2>3. cursor.kda \o Append(Catch(a), e) = Append(q, e)
    <3>1. CASE a = n /\ n # 0
      <4>1. Catch(a) = <<c[n]>> /\ c[n] \in Tokens
        BY <1>1, <3>1 DEF Catch
      <4>2. cursor.kda \in Seq(Tokens)
        BY <1>1, <1>2, <3>1, UptoIs
      <4>3. Append(cursor.kda, c[n]) = q
        <5>1. n \in 1..Len(c)
          BY <1>1, <3>1
        <5>2. Append(Upto(P, c, n - 1), c[n]) = Upto(P, c, n)
          <6> DEFINE m == n
          <6>1. m \in 1..Len(c)
            BY <5>1
          <6> HIDE DEF m, c
          <6>2. Append(Upto(P, c, m - 1), c[m]) = Upto(P, c, m)
            BY <1>1, <6>1, UptoNext
          <6> QED
            BY <6>2 DEF m
        <5> QED
          BY <1>2, <3>1, <5>2
      <4> DEFINE k == cursor.kda
                 x == c[n]
      <4> HIDE DEF k, x, q, e
      <4>4. k \o Append(<<x>>, e) = Append(Append(k, x), e)
        BY <1>3, <4>1, <4>2, TailTwo, SMTT(30) DEF Cat, k, x
      <4> QED
        BY <4>1, <4>3, <4>4 DEF k, x
    <3>2. CASE ~(a = n /\ n # 0)
      <4>1. Catch(a) = <<>>
        BY <3>2 DEF Catch
      <4>2. cursor.kda = q
        BY <1>1, <1>2, <2>1, <3>2, UptoEnds
      <4> HIDE DEF q
      <4>3. q \o Append(<<>>, e) = Append(q, e)
        BY <1>3, <1>4, TailOne DEF Cat
      <4> QED
        BY <4>1, <4>2, <4>3
    <3> QED
      BY <3>1, <3>2
  <2> HIDE DEF q, c, e
  <2>4. Committed(a, w) = [NoCursor EXCEPT !.life = "idle",
                              !.kda = cursor.kda \o Append(Catch(a), e),
                              !.mla = cursor.kda \o Append(Catch(a), e)]
    BY <2>2 DEF Committed, e
  <2> QED
    BY <1>4, <2>2, <2>3, <2>4
<1> QED
  BY <1>5, <1>6

\* A proposal leaves a cursor that waits, if it knew one text before.
LEMMA ProposedWaits ==
  ASSUME NEW P \in Seq(Tokens), IsCursor(cursor), cursor.kda = P, cursor.mla = P,
         NEW c \in Seq(Tokens)
  PROVE  /\ IsCursor(Proposed(c)) /\ CursorWaits(Proposed(c), P)
         /\ Proposed(c).life = "pending" /\ Proposed(c).candidates = c
<1> DEFINE n == Len(c)
           went == Upto(P, c, n - 1)
           p == Proposed(c)
<1>1. n \in Nat
  OBVIOUS
<1>2. Fed(c) = SubSeq(c, 1, n - 1) /\ P \o Fed(c) = went
  BY DEF Fed, Upto, Cat
<1>3. p = [life |-> "pending", kda |-> went, mla |-> went, base |-> Mark(P, P),
           marks |-> MarksOf(c), candidates |-> c]
  <2>1. p = [cursor EXCEPT !.life = "pending", !.base = Mark(P, P), !.marks = MarksOf(c),
                !.kda = went, !.mla = went, !.candidates = c]
    BY <1>2 DEF Proposed
  <2> QED
    BY <2>1 DEF IsCursor
<1>4. /\ DOMAIN MarksOf(c) = 1..(n - 1)
      /\ \A i \in 1..(n - 1) : MarksOf(c)[i] = Mark(Upto(P, c, i), Upto(P, c, i))
  BY DEF MarksOf, Upto, Cat
<1> HIDE DEF p, went
<1>5. IsCursor(p) /\ p.life = "pending" /\ p.candidates = c
  BY <1>3 DEF IsCursor
<1>6. CursorWaits(p, P)
  BY <1>3, <1>4 DEF CursorWaits, went
<1> QED
  BY <1>5, <1>6 DEF p

-----------------------------------------------------------------------------
(* The provider and its cursor                                             *)

\* The provider p, its cursor c, the text t it has been told and the text s of
\* the request it serves are in step, unless p is broken.
InStepWith(p, c, t, s) ==
  /\ p.initialized => p.expected = t /\ (p.chosen # NotChosen => s = t)
  /\ ~p.initialized => ~p.pending /\ (c.life # "none" => p.chosen # NotChosen)
  /\ c.life \in {"none", "idle", "pending"}
  /\ p.cursorPending <=> c.life = "pending"
  /\ c.life = "idle" =>
        ~p.pending /\ c.kda = Cat(Prompt, IF p.initialized THEN t ELSE s) /\ c.mla = c.kda
  /\ c.life = "pending" =>
        p.pending /\ c.candidates = p.candidates /\ CursorWaits(c, Cat(Prompt, t))

ProviderKeeps(p, c, t, s) ==
  /\ p \in ProvSet /\ IsCursor(c)
  /\ c.life # "none" => p.kind = "persistent"
  /\ p.chosen # NotChosen => ~p.broken /\ ~p.pending /\ s \in Seq(Tokens) /\ s # <<>>
  /\ IF p.broken THEN ~p.pending ELSE InStepWith(p, c, t, s)

LEMMA ChooseKeeps ==
  ASSUME NEW t, NEW s, NEW g \in Seq(Tokens), NEW max,
         ProviderKeeps(provider, cursor, t, s), Choose(g, max)
  PROVE  ProviderKeeps(provider', cursor', t, g) /\ cursor' = cursor
<1>1. PICK length \in {0, 1, 2, 4} : provider' = [provider EXCEPT !.chosen = length]
  BY DEF Choose
<1>2. /\ cursor' = cursor /\ provider.chosen = NotChosen
      /\ ~provider.broken /\ ~provider.pending /\ g # <<>>
      /\ provider.initialized => g = provider.expected
  BY DEF Choose, InStep
<1>p. provider \in ProvSet
  BY DEF ProviderKeeps
<1>3. /\ provider' \in ProvSet /\ provider'.chosen # NotChosen
      /\ provider'.kind = provider.kind /\ provider'.initialized = provider.initialized
      /\ provider'.expected = provider.expected /\ provider'.pending = provider.pending
      /\ provider'.candidates = provider.candidates
      /\ provider'.cursorPending = provider.cursorPending
      /\ provider'.broken = provider.broken
  <2>1. length \in {0, 1, 2, 4, NotChosen} /\ length # NotChosen
    BY DEF NotChosen
  <2> QED
    BY <1>1, <1>p, <2>1 DEF ProvSet
<1>4. InStepWith(provider', cursor', t, g)
  BY <1>2, <1>3 DEF ProviderKeeps, InStepWith
<1> QED
  BY <1>2, <1>3, <1>4 DEF ProviderKeeps

LEMMA OpenKeeps ==
  ASSUME NEW t, NEW s, ProviderKeeps(provider, cursor, t, s), OpenCursor(s)
  PROVE  ProviderKeeps(provider', cursor', t, s) /\ cursor'.life = "idle"
         /\ provider' = provider
<1>1. /\ provider' = provider /\ provider.chosen # NotChosen /\ provider.kind = "persistent"
      /\ cursor' = [NoCursor EXCEPT !.life = "idle", !.kda = Cat(Prompt, s),
                                    !.mla = Cat(Prompt, s)]
  BY DEF OpenCursor, Create, NeedsCursor, Cat
<1>2. /\ IsCursor(cursor') /\ cursor'.life = "idle"
      /\ cursor'.kda = Cat(Prompt, s) /\ cursor'.mla = cursor'.kda
  BY <1>1 DEF IsCursor, NoCursor
<1>3. cursor.life = "none"
  BY DEF OpenCursor, Create
<1>4. InStepWith(provider', cursor', t, s)
  BY <1>1, <1>2, <1>3 DEF ProviderKeeps, InStepWith
<1> QED
  BY <1>1, <1>2, <1>4 DEF ProviderKeeps

LEMMA OpenFailsKeeps ==
  ASSUME NEW t, NEW s, ProviderKeeps(provider, cursor, t, s), OpenCursorFails
  PROVE  ProviderKeeps(provider', cursor', t, s) /\ cursor' = cursor
<1>1. /\ provider' = [provider EXCEPT !.chosen = NotChosen] /\ cursor' = cursor
      /\ cursor.life = "none"
  BY DEF OpenCursorFails, CreateFails
<1>2. /\ provider' \in ProvSet /\ provider'.chosen = NotChosen
      /\ provider'.kind = provider.kind /\ provider'.initialized = provider.initialized
      /\ provider'.expected = provider.expected /\ provider'.pending = provider.pending
      /\ provider'.candidates = provider.candidates
      /\ provider'.cursorPending = provider.cursorPending
      /\ provider'.broken = provider.broken
  BY <1>1 DEF ProviderKeeps, ProvSet
<1>3. provider.broken \/ InStepWith(provider', cursor', t, s)
  BY <1>1, <1>2 DEF ProviderKeeps, InStepWith
<1> QED
  BY <1>1, <1>2, <1>3 DEF ProviderKeeps

LEMMA GenerateKeeps ==
  ASSUME NEW t, NEW s, ProviderKeeps(provider, cursor, t, s), NEW c \in Seq(Tokens),
         Generate(s, c)
  PROVE  /\ ProviderKeeps(provider', cursor', IF provider.initialized THEN t ELSE s, s)
         /\ provider' \in ProvSet /\ provider'.chosen = NotChosen /\ provider'.pending
         /\ provider'.anchor = s[Len(s)] /\ provider'.candidates = c
         /\ ~provider'.broken /\ provider'.initialized
<1> DEFINE u == IF provider.initialized THEN t ELSE s
           e == IF provider.initialized THEN provider.expected ELSE s
           w == provider.cursorPending \/ UsesCursor
           a == s[Len(s)]
           P == Cat(Prompt, u)
<1>1. /\ provider.chosen # NotChosen /\ ~NeedsCursor
      /\ IF UsesCursor THEN cursor.life = "idle" /\ cursor' = Proposed(c)
         ELSE cursor' = cursor
      /\ provider' = [provider EXCEPT !.chosen = NotChosen, !.initialized = TRUE,
            !.expected = e, !.pending = TRUE, !.anchor = a, !.candidates = c,
            !.cursorPending = w]
  BY DEF Generate, Generating, Propose, CanPropose
<1>2. /\ provider \in ProvSet /\ ~provider.broken /\ ~provider.pending /\ s \in Seq(Tokens)
      /\ s # <<>> /\ InStepWith(provider, cursor, t, s) /\ IsCursor(cursor)
      /\ cursor.life # "none" => provider.kind = "persistent"
  BY <1>1 DEF ProviderKeeps
<1>3. a \in Tokens /\ e \in Seq(Tokens) /\ w \in BOOLEAN /\ e = u
  BY <1>1, <1>2, FrontLast DEF ProvSet, InStepWith
<1>4. u \in Seq(Tokens) /\ P \in Seq(Tokens)
  <2>1. u \in Seq(Tokens)
    BY <1>3
  <2> HIDE DEF u
  <2> QED
    BY <2>1, PromptAssumption, CatAssociative
<1> HIDE DEF a, e
<1>5. /\ provider' \in ProvSet /\ provider'.chosen = NotChosen /\ provider'.initialized = TRUE
      /\ provider'.expected = e /\ provider'.pending = TRUE /\ provider'.candidates = c
      /\ provider'.cursorPending = w /\ provider'.broken = FALSE
      /\ provider'.kind = provider.kind /\ provider'.anchor = a
  <2> HIDE DEF w
  <2> QED
    BY <1>1, <1>2, <1>3 DEF ProvSet
<1>6. CASE UsesCursor
  <2>1. cursor.kda = P /\ cursor.mla = P /\ cursor.life = "idle" /\ cursor' = Proposed(c)
    BY <1>1, <1>2, <1>6 DEF InStepWith
  <2> HIDE DEF u, P
  <2>2. /\ IsCursor(cursor') /\ CursorWaits(cursor', P)
        /\ cursor'.life = "pending" /\ cursor'.candidates = c
    BY <1>2, <1>4, <2>1, ProposedWaits
  <2>3. InStepWith(provider', cursor', u, s)
    BY <1>3, <1>5, <1>6, <2>2 DEF InStepWith, P
  <2>4. ProviderKeeps(provider', cursor', u, s)
    BY <1>2, <1>5, <2>1, <2>2, <2>3 DEF ProviderKeeps
  <2> QED
    BY <1>2, <1>5, <2>4 DEF u, a
<1>7. CASE ~UsesCursor
  <2>1. cursor.life = "none" /\ cursor' = cursor
    BY <1>1, <1>2, <1>7 DEF UsesCursor
  <2>2. ~w
    BY <1>2, <1>7, <2>1 DEF InStepWith
  <2> HIDE DEF u
  <2>3. InStepWith(provider', cursor', u, s)
    BY <1>3, <1>5, <2>1, <2>2 DEF InStepWith
  <2>4. ProviderKeeps(provider', cursor', u, s)
    BY <1>2, <1>5, <2>1, <2>3 DEF ProviderKeeps
  <2> QED
    BY <1>2, <1>5, <2>4 DEF u, a
<1> QED
  BY <1>6, <1>7

\* A cursor that failed.
LEMMA FailedIs ==
  ASSUME IsCursor(cursor), NEW kda, NEW mla
  PROVE  IsCursor(Failed(kda, mla)) /\ Failed(kda, mla).life = "failed"
<1> DEFINE f == Failed(kda, mla)
<1>1. f = [life |-> "failed", kda |-> kda, mla |-> mla, base |-> cursor.base,
           marks |-> cursor.marks, candidates |-> cursor.candidates]
  <2>1. f = [cursor EXCEPT !.life = "failed", !.kda = kda, !.mla = mla]
    BY DEF Failed
  <2> HIDE DEF f
  <2> QED
    BY <2>1 DEF IsCursor
<1> HIDE DEF f
<1>2. IsCursor(f) /\ f.life = "failed"
  BY <1>1 DEF IsCursor
<1> QED
  BY <1>2 DEF f

LEMMA GenerateFailsKeeps ==
  ASSUME NEW t, NEW s, ProviderKeeps(provider, cursor, t, s), GenerateFails
  PROVE  /\ ProviderKeeps(provider', cursor', t, s)
         /\ cursor' = cursor \/ cursor'.life = "failed"
         /\ provider'.chosen = NotChosen
<1>1. provider.chosen # NotChosen /\ ~NeedsCursor /\ provider \in ProvSet /\ IsCursor(cursor)
      /\ ~provider.broken
  BY DEF GenerateFails, Generating, ProviderKeeps
<1>2. CASE UsesCursor
  <2>1. /\ provider' = [provider EXCEPT !.chosen = NotChosen, !.broken = TRUE]
        /\ ProposeThrows(provider.chosen) \/ ProposeRefused
        /\ provider.kind = "persistent"
    BY <1>2 DEF GenerateFails, UsesCursor
  <2>2. IsCursor(cursor') /\ (cursor' = cursor \/ cursor'.life = "failed")
    BY <1>1, <2>1, FailedIs DEF ProposeThrows, ProposeRefused
  <2>3. /\ provider' \in ProvSet /\ provider'.chosen = NotChosen /\ provider'.broken = TRUE
        /\ provider'.kind = "persistent" /\ provider'.pending = provider.pending
    BY <1>1, <2>1 DEF ProvSet
  <2>4. ~provider.pending
    BY <1>1 DEF ProviderKeeps
  <2> QED
    BY <2>2, <2>3, <2>4 DEF ProviderKeeps
<1>3. CASE ~UsesCursor
  <2>1. /\ provider' = [provider EXCEPT !.chosen = NotChosen] /\ cursor' = cursor
        /\ cursor.life = "none"
    BY <1>1, <1>3 DEF GenerateFails, UsesCursor, ProviderKeeps
  <2>2. /\ provider' \in ProvSet /\ provider'.chosen = NotChosen
        /\ provider'.kind = provider.kind /\ provider'.initialized = provider.initialized
        /\ provider'.expected = provider.expected /\ provider'.pending = provider.pending
        /\ provider'.candidates = provider.candidates
        /\ provider'.cursorPending = provider.cursorPending
        /\ provider'.broken = provider.broken
    BY <1>1, <2>1 DEF ProvSet
  <2>3. InStepWith(provider', cursor', t, s)
    BY <1>1, <2>1, <2>2 DEF ProviderKeeps, InStepWith
  <2> QED
    BY <1>1, <2>1, <2>2, <2>3 DEF ProviderKeeps
<1> QED
  BY <1>2, <1>3

\* A refused or failed report breaks the provider for good.
LEMMA BrokenKeeps ==
  ASSUME NEW t, NEW s, ProviderKeeps(provider, cursor, t, s),
         provider.chosen = NotChosen, NEW t2, NEW s2, IsCursor(cursor'),
         cursor'.life # "none" => cursor.life # "none",
         \/ provider' = Broken
         \/ provider' = [Broken EXCEPT !.cursorPending = provider.cursorPending]
  PROVE  /\ ProviderKeeps(provider', cursor', t2, s2)
         /\ provider'.broken /\ provider'.chosen = NotChosen
<1>1. provider \in ProvSet
  BY DEF ProviderKeeps
<1>2. /\ Broken \in ProvSet /\ Broken.chosen = provider.chosen /\ Broken.broken = TRUE
      /\ Broken.kind = provider.kind /\ Broken.pending = FALSE
  <2>1. <<>> \in Seq(Tokens)
    OBVIOUS
  <2>2. /\ Settled \in ProvSet /\ Settled.chosen = provider.chosen
        /\ Settled.kind = provider.kind /\ Settled.pending = FALSE
    BY <1>1, <2>1 DEF Settled, ProvSet
  <2> QED
    BY <2>2 DEF Broken, ProvSet
<1> DEFINE b == [Broken EXCEPT !.cursorPending = provider.cursorPending]
<1>3. /\ b \in ProvSet /\ b.chosen = provider.chosen /\ b.broken = TRUE
      /\ b.kind = provider.kind /\ b.pending = FALSE
  BY <1>1, <1>2 DEF ProvSet
<1> HIDE DEF b
<1>4. /\ provider' \in ProvSet /\ provider'.chosen = NotChosen /\ provider'.broken = TRUE
      /\ provider'.kind = provider.kind /\ provider'.pending = FALSE
  BY <1>2, <1>3 DEF b
<1> QED
  BY <1>4 DEF ProviderKeeps

\* A report that is taken in.
LEMMA UpdateKeeps ==
  ASSUME NEW t \in Seq(Tokens), NEW s, NEW s2, ProviderKeeps(provider, cursor, t, s), NEW v,
         v.accepted \in Nat, v.committed \in Seq(Tokens), Update(v)
  PROVE  /\ ProviderKeeps(provider', cursor', Cat(t, v.committed), s2)
         /\ cursor'.life # "pending"
         /\ provider'.broken => ~Acceptable(FeedbackOf(v))
         /\ ~provider'.pending /\ provider'.chosen = NotChosen
<1> DEFINE w == v.committed
           u == Cat(t, w)
           P == Cat(Prompt, t)
<1>1. /\ provider.pending /\ provider \in ProvSet /\ ~provider.broken
      /\ provider.chosen = NotChosen /\ IsCursor(cursor)
      /\ cursor.life # "none" => provider.kind = "persistent"
      /\ InStepWith(provider, cursor, t, s)
  BY DEF Update, ValidUpdate, ProviderKeeps
<1>2. PICK counted \in BOOLEAN :
        /\ counted = Acceptable(FeedbackOf(v))
        /\ provider' = IF counted THEN [Settled EXCEPT !.expected = @ \o w] ELSE Broken
  BY DEF Update, Observe
<1>3. u \in Seq(Tokens) /\ P \in Seq(Tokens) /\ Cat(P, w) = Cat(Prompt, u)
  BY PromptAssumption, CatAssociative
<1>4. provider.initialized /\ provider.expected = t
  BY <1>1 DEF InStepWith
<1>5. /\ Settled \in ProvSet /\ Settled.chosen = provider.chosen /\ Settled.broken = FALSE
      /\ Settled.kind = provider.kind /\ Settled.pending = FALSE /\ Settled.expected = t
      /\ Settled.initialized = TRUE /\ Settled.cursorPending = FALSE
  <2>1. <<>> \in Seq(Tokens)
    OBVIOUS
  <2> QED
    BY <1>1, <1>4, <2>1 DEF Settled, ProvSet
<1>6. /\ IsCursor(cursor') /\ cursor'.life # "pending"
      /\ cursor'.life # "none" => cursor.life # "none"
      /\ cursor'.life = "idle" => cursor'.kda = Cat(Prompt, u) /\ cursor'.mla = cursor'.kda
      /\ cursor'.life \in {"none", "idle"}
  <2>1. CASE provider.cursorPending
    <3>1. ValidCommit(v.accepted, w) /\ cursor' = Committed(v.accepted, w)
          /\ cursor.life = "pending"
      BY <2>1 DEF Update, Commit, ValidCommit
    <3>2. CursorWaits(cursor, P)
      BY <1>1, <2>1, <3>1 DEF InStepWith
    <3> HIDE DEF P, u, w
    <3>3. w \in Seq(Tokens)
      BY DEF w
    <3>4. cursor' = [NoCursor EXCEPT !.life = "idle", !.kda = Cat(P, w), !.mla = Cat(P, w)]
      BY <1>3, <3>1, <3>2, <3>3, CommitFollows
    <3>5. /\ IsCursor(cursor') /\ cursor'.life = "idle"
          /\ cursor'.kda = Cat(P, w) /\ cursor'.mla = Cat(P, w)
      BY <3>4 DEF IsCursor, NoCursor
    <3> QED
      BY <1>3, <3>1, <3>5
  <2>2. CASE ~provider.cursorPending
    <3>1. cursor' = cursor /\ cursor.life = "none"
      BY <1>1, <2>2 DEF Update, InStepWith
    <3> QED
      BY <1>1, <3>1
  <2> QED
    BY <2>1, <2>2
<1>7. CASE ~counted
  <2>1. provider' = Broken
    BY <1>2, <1>7
  <2>2. /\ ProviderKeeps(provider', cursor', u, s2) /\ provider'.chosen = NotChosen
        /\ provider'.broken
    <3> HIDE DEF u
    <3> QED
      BY <1>1, <1>6, <2>1, BrokenKeeps
  <2> QED
    BY <1>2, <1>6, <1>7, <2>2 DEF ProviderKeeps
<1>8. CASE counted
  <2>1. provider' = [Settled EXCEPT !.expected = u]
    BY <1>2, <1>5, <1>8 DEF Cat
  <2> HIDE DEF u
  <2>2. /\ provider' \in ProvSet /\ provider'.chosen = NotChosen /\ provider'.broken = FALSE
        /\ provider'.kind = provider.kind /\ provider'.pending = FALSE
        /\ provider'.expected = u /\ provider'.initialized = TRUE
        /\ provider'.cursorPending = FALSE
    BY <1>1, <1>3, <1>5, <2>1 DEF ProvSet
  <2>3. InStepWith(provider', cursor', u, s2)
    BY <1>6, <2>2 DEF InStepWith
  <2> QED
    BY <1>1, <1>6, <2>2, <2>3 DEF ProviderKeeps, u
<1> QED
  BY <1>7, <1>8

LEMMA UpdateRefusedKeeps ==
  ASSUME NEW t, NEW s, ProviderKeeps(provider, cursor, t, s), NEW t2, NEW s2,
         provider.chosen = NotChosen, NEW v, UpdateRefused(v) \/ UpdateFails(v)
  PROVE  /\ ProviderKeeps(provider', cursor', t2, s2)
         /\ cursor' = cursor \/ cursor'.life = "failed"
         /\ provider'.broken /\ provider'.chosen = NotChosen
<1>1. IsCursor(cursor)
  BY DEF ProviderKeeps
<1>2. /\ IsCursor(cursor') /\ (cursor' = cursor \/ cursor'.life = "failed")
      /\ cursor'.life # "none" => cursor.life # "none"
  <2>1. CASE UpdateRefused(v)
    BY <1>1, <2>1 DEF UpdateRefused
  <2>2. CASE UpdateFails(v)
    BY <1>1, <2>2, FailedIs DEF UpdateFails, CommitRefused, CommitThrows, ValidCommit
  <2> QED
    BY <2>1, <2>2
<1>3. \/ provider' = Broken
      \/ provider' = [Broken EXCEPT !.cursorPending = provider.cursorPending]
  BY DEF UpdateRefused, UpdateFails
<1> QED
  BY <1>2, <1>3, BrokenKeeps

-----------------------------------------------------------------------------
(* The provider under any caller                                           *)

\* What the steps of an arbitrary caller preserve.  A cursor that waits means
\* the told text even when the provider broke: nothing is told any more.
ProtocolInv ==
  /\ ProviderKeeps(provider, cursor, told, shown)
  /\ told \in Seq(Tokens)
  /\ cursor.life = "pending" => CursorWaits(cursor, Cat(Prompt, told))

LEMMA ProtocolInitial ==
  ASSUME ProtocolInit
  PROVE  ProtocolInv
<1>1. PICK kind \in Kinds : provider = FreshProvider(kind)
  BY DEF ProtocolInit, ProviderInit
<1>2. cursor = NoCursor /\ told = <<>> /\ shown = <<>>
  BY DEF ProtocolInit, ProviderInit, CursorInit, NoText
<1>3. Prompt[1] \in Tokens /\ <<>> \in Seq(Tokens)
  BY PromptAssumption
<1>4. /\ provider \in ProvSet /\ provider.chosen = NotChosen /\ provider.initialized = FALSE
      /\ provider.pending = FALSE /\ provider.cursorPending = FALSE
  BY <1>1, <1>3 DEF FreshProvider, ProvSet
<1>5. provider.broken = FALSE
  BY <1>1 DEF FreshProvider
<1>6. IsCursor(cursor) /\ cursor.life = "none"
  BY <1>2 DEF IsCursor, NoCursor
<1>7. InStepWith(provider, cursor, told, shown)
  BY <1>4, <1>6 DEF InStepWith
<1> QED
  BY <1>2, <1>3, <1>4, <1>5, <1>6, <1>7 DEF ProtocolInv, ProviderKeeps

LEMMA RequestStep ==
  ASSUME ProtocolInv, Request
  PROVE  ProtocolInv'
<1>1. PICK g \in Texts :
        \/ (\E max \in ProviderRequests : Choose(g, max)) /\ shown' = g
        \/ ProposeOutOfStep(g) /\ UNCHANGED shown
  BY DEF Request
<1>2. told' = told /\ told \in Seq(Tokens)
  BY DEF Request, ProtocolInv
<1>3. g \in Seq(Tokens)
  BY DEF Texts, SeqOf
<1>4. CASE (\E max \in ProviderRequests : Choose(g, max)) /\ shown' = g
  <2>1. ProviderKeeps(provider', cursor', told, g) /\ cursor' = cursor
    BY <1>3, <1>4, ChooseKeeps DEF ProtocolInv
  <2> QED
    BY <1>2, <1>4, <2>1 DEF ProtocolInv
<1>5. CASE ProposeOutOfStep(g) /\ UNCHANGED shown
  BY <1>2, <1>5 DEF ProtocolInv, ProposeOutOfStep, providerVars
<1> QED
  BY <1>1, <1>4, <1>5

LEMMA ServeStep ==
  ASSUME ProtocolInv, Serve
  PROVE  ProtocolInv'
<1>1. CASE OpenCursor(shown) /\ UNCHANGED <<shown, told, throws>>
  BY <1>1, OpenKeeps DEF ProtocolInv
<1>2. ASSUME NEW c \in [1..provider.chosen -> Tokens], Generate(shown, c),
             told' = (IF provider.initialized THEN told ELSE shown), UNCHANGED shown
      PROVE  ProtocolInv'
  <2>1. provider.chosen \in Nat /\ provider.chosen # NotChosen
    BY DEF ProtocolInv, ProviderKeeps, ProvSet, NotChosen, Serve
  <2>2. c \in Seq(Tokens)
    BY <2>1
  <2>3. /\ ProviderKeeps(provider', cursor', told', shown) /\ ~provider'.broken
    BY <1>2, <2>2, GenerateKeeps DEF ProtocolInv
  <2>4. told' \in Seq(Tokens)
    BY <1>2, <2>1 DEF ProtocolInv, ProviderKeeps
  <2> QED
    BY <1>2, <2>3, <2>4 DEF ProtocolInv, ProviderKeeps, InStepWith
<1>3. CASE (OpenCursorFails \/ GenerateFails) /\ UNCHANGED <<shown, told>>
  <2>1. /\ ProviderKeeps(provider', cursor', told, shown)
        /\ cursor' = cursor \/ cursor'.life = "failed"
    BY <1>3, OpenFailsKeeps, GenerateFailsKeeps DEF ProtocolInv
  <2> QED
    BY <1>3, <2>1 DEF ProtocolInv
<1> QED
  BY <1>1, <1>2, <1>3 DEF Serve

\* Every report of a caller has a length and tokens, the wrong ones included.
LEMMA ReportIs ==
  ASSUME provider \in ProvSet, NEW v \in Reports
  PROVE  v.accepted \in Nat /\ v.committed \in Seq(Tokens)
<1> DEFINE c == provider.candidates
           H == {Honest(accepted, token, costs) :
                    accepted \in 0..Len(c), token \in Tokens, costs \in {<<0, 0>>, <<1, 1>>}}
           Fits(x) == /\ x.accepted \in Nat /\ x.committed \in Seq(Tokens)
                      /\ x.committed # <<>> /\ x.anchor \in Tokens
                      /\ DOMAIN x = {"anchor", "proposed", "accepted", "committed", "all",
                                     "loads", "assigned"}
<1>1. c \in Seq(Tokens) /\ provider.anchor \in Tokens
  BY DEF ProvSet
<1>2. ASSUME NEW x \in H
      PROVE  Fits(x)
  <2>1. PICK a \in 0..Len(c), token \in Tokens, costs \in {<<0, 0>>, <<1, 1>>} :
          x = Honest(a, token, costs)
    OBVIOUS
  <2> DEFINE d == SubSeq(c, 1, a)
             w == Append(d, token)
  <2>2. d \in Seq(Tokens) /\ a \in Nat
    BY <1>1
  <2> HIDE DEF d
  <2>3. w \in Seq(Tokens) /\ w # <<>>
    BY <2>2, SMTT(30)
  <2>4. x.accepted = a /\ x.committed = w /\ x.anchor = provider.anchor
        /\ DOMAIN x = {"anchor", "proposed", "accepted", "committed", "all", "loads",
                       "assigned"}
    BY <2>1 DEF Honest, d
  <2> HIDE DEF w
  <2> QED
    BY <1>1, <2>2, <2>3, <2>4
<1>3. ASSUME NEW x, Fits(x), NEW y \in Twists(x)
      PROVE  y.accepted \in Nat /\ y.committed \in Seq(Tokens)
  <2>1. CASE y \in {[x EXCEPT !.proposed = @ + 1], [x EXCEPT !.accepted = @ + 1],
                    [x EXCEPT !.all = ~@]}
    BY <1>3, <2>1
  <2>2. CASE y = [x EXCEPT !.committed = Append(@, x.anchor)]
    BY <1>3, <2>2
  <2>3. ASSUME NEW u \in Tokens, y = [x EXCEPT !.anchor = u]
        PROVE  y.accepted \in Nat /\ y.committed \in Seq(Tokens)
    BY <1>3, <2>3
  <2>4. ASSUME NEW u \in Tokens, y = [x EXCEPT !.committed[1] = u]
        PROVE  y.accepted \in Nat /\ y.committed \in Seq(Tokens)
    <3>1. y.accepted = x.accepted /\ y.committed = [x.committed EXCEPT ![1] = u]
      BY <1>3, <2>4
    <3> QED
      BY <1>3, <3>1
  <2> QED
    BY <1>3, <2>1, <2>2, <2>3, <2>4 DEF Twists
<1>4. v \in H \/ \E x \in H : v \in Twists(x)
  BY DEF Reports
<1> HIDE DEF H, Fits
<1>5. \A x : Fits(x) => x.accepted \in Nat /\ x.committed \in Seq(Tokens)
  BY DEF Fits
<1> QED
  BY <1>2, <1>3, <1>4, <1>5

LEMMA UpdateStep ==
  ASSUME ProtocolInv, NEW v \in Reports, UpdateWith(v)
  PROVE  ProtocolInv'
<1>1. /\ v.accepted \in Nat /\ v.committed \in Seq(Tokens)
      /\ provider.chosen = NotChosen /\ shown' = shown /\ told \in Seq(Tokens)
  BY ReportIs DEF ProtocolInv, ProviderKeeps, UpdateWith
<1>2. CASE Update(v) /\ told' = told \o v.committed
  <2> DEFINE w == v.committed
  <2>1. told' = Cat(told, w) /\ told' \in Seq(Tokens)
    BY <1>1, <1>2, CatAssociative DEF Cat
  <2>2. ProviderKeeps(provider', cursor', Cat(told, w), shown) /\ cursor'.life # "pending"
    BY <1>1, <1>2, UpdateKeeps DEF ProtocolInv
  <2> QED
    BY <1>1, <2>1, <2>2 DEF ProtocolInv
<1>3. CASE (UpdateRefused(v) \/ UpdateFails(v)) /\ told' = told
  <2>1. /\ ProviderKeeps(provider', cursor', told, shown)
        /\ cursor' = cursor \/ cursor'.life = "failed"
    BY <1>1, <1>3, UpdateRefusedKeeps DEF ProtocolInv
  <2> QED
    BY <1>1, <1>3, <2>1 DEF ProtocolInv
<1> QED
  BY <1>2, <1>3 DEF UpdateWith

LEMMA ProtocolStep ==
  ASSUME ProtocolInv, [ProtocolNext]_protocolVars
  PROVE  ProtocolInv'
<1>1. CASE UNCHANGED protocolVars
  BY <1>1 DEF protocolVars, providerVars, ProtocolInv
<1> QED
  BY <1>1, RequestStep, ServeStep, UpdateStep DEF ProtocolNext

\* The checkpoints of a waiting cursor are the texts they stand for.
LEMMA MarksAre ==
  ASSUME ProtocolInv
  PROVE  CheckpointsAgree
<1> SUFFICES ASSUME cursor.life = "pending"
    PROVE  LET went(i) == Prompt \o told \o SubSeq(cursor.candidates, 1, i)
           IN  /\ cursor.base = Mark(went(0), went(0))
               /\ \A i \in DOMAIN cursor.marks :
                     /\ cursor.marks[i].kda = went(i)
                     /\ cursor.marks[i].length = Len(went(i))
                     /\ IsPrefix(went(i), cursor.mla)
  BY DEF CheckpointsAgree
<1> DEFINE P == Cat(Prompt, told)
           c == cursor.candidates
           n == Len(c)
<1>1. /\ c \in Seq(Tokens) /\ n \in Nat
      /\ cursor.mla = Upto(P, c, n - 1) /\ cursor.base = Mark(P, P)
      /\ DOMAIN cursor.marks = 1..(n - 1)
      /\ \A i \in 1..(n - 1) : cursor.marks[i] = Mark(Upto(P, c, i), Upto(P, c, i))
  BY DEF ProtocolInv, CursorWaits
<1>2. P \in Seq(Tokens)
  BY PromptAssumption, CatAssociative DEF ProtocolInv
<1>3. \A i : Prompt \o told \o SubSeq(c, 1, i) = Upto(P, c, i)
  BY DEF Upto, Cat
<1> HIDE DEF P, c
<1>4. cursor.base = Mark(Upto(P, c, 0), Upto(P, c, 0))
  BY <1>1, <1>2, UptoEnds
<1>5. ASSUME NEW i \in DOMAIN cursor.marks
      PROVE  /\ cursor.marks[i].kda = Upto(P, c, i)
             /\ cursor.marks[i].length = Len(Upto(P, c, i))
             /\ IsPrefix(Upto(P, c, i), cursor.mla)
  <2>1. i \in 1..(n - 1) /\ n - 1 \in 0..Len(c) /\ i \in 0..(n - 1)
    BY <1>1, <1>5
  <2>2. /\ SubSeq(Upto(P, c, n - 1), 1, Len(Upto(P, c, i))) = Upto(P, c, i)
        /\ Len(Upto(P, c, i)) <= Len(Upto(P, c, n - 1))
    <3> DEFINE m == n - 1
    <3>1. m \in 0..Len(c) /\ i \in 0..m
      BY <2>1
    <3> HIDE DEF m
    <3>2. /\ SubSeq(Upto(P, c, m), 1, Len(Upto(P, c, i))) = Upto(P, c, i)
          /\ Len(Upto(P, c, i)) <= Len(Upto(P, c, m))
      BY <1>1, <1>2, <3>1, CropIs
    <3> QED
      BY <3>2 DEF m
  <2>3. Upto(P, c, i) \in Seq(Tokens) /\ Upto(P, c, n - 1) \in Seq(Tokens)
    <3>1. \A k \in 0..Len(c) : Upto(P, c, k) \in Seq(Tokens)
      BY <1>1, <1>2, UptoIs
    <3>2. i \in 0..Len(c)
      BY <1>1, <2>1
    <3> QED
      BY <2>1, <3>1, <3>2
  <2> DEFINE a == Upto(P, c, i)
             b == cursor.mla
  <2>4. a \in Seq(Tokens) /\ b \in Seq(Tokens) /\ SubSeq(b, 1, Len(a)) = a /\ Len(a) <= Len(b)
    BY <1>1, <2>2, <2>3
  <2>5. cursor.marks[i].kda = a /\ cursor.marks[i].length = Len(a)
    <3>1. cursor.marks[i] = Mark(a, a)
      BY <1>1, <2>1
    <3> HIDE DEF a
    <3> QED
      BY <3>1 DEF Mark
  <2> HIDE DEF a, b
  <2>6. IsPrefix(a, b)
    BY <2>4 DEF IsPrefix
  <2> QED
    BY <2>5, <2>6 DEF a, b
<1> QED
  BY <1>3, <1>4, <1>5 DEF c

\* Whatever the caller of a provider does, the provider, its cursor and the
\* draft state stay in step until it refuses to work, and a checkpoint means
\* one moment of both kinds of state.
THEOREM PartsAgreeCorrect == ProtocolSpec => []PartsAgree
<1>1. ProtocolInit => ProtocolInv
  BY ProtocolInitial
<1>2. ProtocolInv /\ [ProtocolNext]_protocolVars => ProtocolInv'
  BY ProtocolStep
<1>3. ProtocolInv => PartsAgree
  <2> SUFFICES ASSUME ProtocolInv, ~provider.broken
               PROVE  /\ provider.initialized => provider.expected = told
                      /\ provider.cursorPending <=> cursor.life = "pending"
                      /\ provider.cursorPending => provider.pending
                      /\ cursor.life = "pending" => cursor.candidates = provider.candidates
                      /\ cursor.life = "idle" /\ provider.initialized =>
                           cursor.kda = Prompt \o provider.expected /\ cursor.mla = cursor.kda
    BY MarksAre DEF PartsAgree
  <2> QED
    BY DEF ProtocolInv, ProviderKeeps, InStepWith, Cat
<1> QED
  BY <1>1, <1>2, <1>3, PTL DEF ProtocolSpec

-----------------------------------------------------------------------------
(* The length of a proposal                                                *)

\* What matters of the scheduler: a fixed policy never caps.
SchedulerKeeps ==
  /\ config.maximum \in {1, 2, 4} /\ DOMAIN scheduler = DOMAIN Fresh
  /\ scheduler.cap \in {0, 1, 2, NoCap}
  /\ config.policy = "fixed" => scheduler.cap = NoCap

\* A length n an engine that has room for max may be offered.
Offered(n, max) ==
  /\ n \in {0, 1, 2, 4} /\ n <= max /\ n <= config.maximum
  /\ config.policy = "fixed" /\ n = 0 => max = 0

\* select answers a length the engine has room for, and only an adaptive one
\* answers nothing when there is room.
LEMMA SelectKeeps ==
  ASSUME SchedulerKeeps, NEW max \in Nat, NEW n, Select(max, n)
  PROVE  SchedulerKeeps' /\ Offered(n, max) /\ config' = config
<1> DEFINE top == Ceiling(scheduler, max)
<1>1. /\ top \in Nat /\ top <= max /\ top <= config.maximum
      /\ top = 0 <=> max = 0 \/ scheduler.cap = 0
  BY CeilingIs DEF SchedulerKeeps
<1>2. /\ n = Choice(scheduler, max) /\ scheduler' = AfterSelect(scheduler, max)
      /\ config' = config
  BY DEF Select
<1>3. Ladder[1] = 1 /\ Ladder[2] = 2 /\ Ladder[3] = 4 /\ Rungs = {1, 2, 3}
  BY DEF Ladder, Rungs
<1>4. config.maximum \in {1, 2, 4} /\ (config.policy = "fixed" => scheduler.cap = NoCap)
  BY DEF SchedulerKeeps
<1>5. Offered(n, max)
  <2>1. CASE max = 0 \/ top = 0
    <3>1. n = 0
      BY <1>2, <2>1 DEF Choice
    <3>2. config.policy = "fixed" => max = 0
      BY <1>1, <1>4, <2>1 DEF NoCap
    <3> QED
      BY <1>4, <3>1, <3>2 DEF Offered
  <2>2. ASSUME top # 0, NEW rungs \in SUBSET Fitting(scheduler, max), n = Longest(rungs),
               config.policy = "fixed" => rungs = Fitting(scheduler, max)
        PROVE  Offered(n, max)
    <3>1. rungs \in SUBSET Rungs /\ \A r \in rungs : Ladder[r] <= top
      BY <2>2 DEF Fitting
    <3>2. 1 \in Fitting(scheduler, max)
      BY <1>1, <1>3, <2>2 DEF Fitting
    <3>3. CASE rungs = {}
      <4>1. n = 0 /\ config.policy # "fixed"
        BY <2>2, <3>2, <3>3 DEF Longest
      <4> QED
        BY <1>4, <4>1 DEF Offered
    <3>4. CASE rungs # {}
      <4>1. PICK r \in rungs : n = Ladder[r]
        BY <2>2, <3>1, <3>4, LongestIs
      <4> QED
        BY <1>1, <1>3, <1>4, <3>1, <4>1 DEF Offered
    <3> QED
      BY <3>3, <3>4
  <2>3. CASE max # 0 /\ top # 0
    <3>1. CASE config.policy = "fixed"
      <4>1. n = Longest(Fitting(scheduler, max))
        BY <1>2, <2>3, <3>1 DEF Choice
      <4> QED
        BY <2>2, <2>3, <4>1
    <3>2. CASE config.policy # "fixed" /\ Retries(scheduler, max)
      <4>1. n = 1
        BY <1>2, <2>3, <3>2 DEF Choice
      <4> QED
        BY <1>1, <1>4, <2>3, <4>1 DEF Offered
    <3>3. CASE config.policy # "fixed" /\ ~Retries(scheduler, max)
      <4>1. n = Longest(Eligible(scheduler, max))
        BY <1>2, <2>3, <3>3 DEF Choice
      <4>2. Eligible(scheduler, max) \in SUBSET Fitting(scheduler, max)
        BY DEF Eligible
      <4> QED
        BY <2>2, <2>3, <3>3, <4>1, <4>2
    <3> QED
      BY <3>1, <3>2, <3>3
  <2> QED
    BY <2>1, <2>3
<1>6. SchedulerKeeps'
  <2>1. DOMAIN scheduler = DOMAIN Fresh /\ "cap" \in DOMAIN Fresh
    BY DEF SchedulerKeeps, Fresh
  <2>2. \/ scheduler' = scheduler
        \/ scheduler.cap = 0 /\ scheduler' = [scheduler EXCEPT !.cap = NoCap, !.retry = TRUE]
        \/ scheduler' = [scheduler EXCEPT !.retry = FALSE]
    BY <1>2 DEF AfterSelect
  <2>3. /\ DOMAIN scheduler' = DOMAIN Fresh
        /\ scheduler'.cap \in {scheduler.cap, NoCap}
    BY <2>1, <2>2
  <2> QED
    BY <1>2, <2>3 DEF SchedulerKeeps
<1> QED
  BY <1>2, <1>5, <1>6

\* observe keeps it too, and refuses no report of a length it offered but one
\* of an empty proposal that has a cost.
LEMMA ObserveKeeps ==
  ASSUME SchedulerKeeps, NEW v, NEW ok, Observe(v, ok)
  PROVE  SchedulerKeeps' /\ config' = config
<1>1. config' = config
  BY DEF Observe
<1>2. CASE scheduler' = scheduler
  BY <1>1, <1>2 DEF SchedulerKeeps
<1>3. CASE scheduler' # scheduler
  <2>1. Acceptable(v) /\ scheduler' = AfterObserve(scheduler, v) /\ v.proposed # 0
    BY <1>3 DEF Observe, AfterObserve
  <2> DEFINE r == RungOf(v.proposed)
             c == Counted(scheduler, v, r)
  <2>2. r \in Rungs
    <3>1. IsRung(v.proposed)
      BY <2>1 DEF Acceptable
    <3> QED
      BY <3>1 DEF IsRung, RungOf
  <2>3. DOMAIN scheduler = DOMAIN Fresh
        /\ DOMAIN Fresh = {"trials", "successes", "loads", "assigned", "observed",
                           "qualified", "cap", "retry"}
    BY DEF SchedulerKeeps, Fresh
  <2>4. DOMAIN c = DOMAIN Fresh /\ c.cap = scheduler.cap
    BY <2>3 DEF Counted
  <2>5. \/ config.policy = "fixed" /\ scheduler' = c
        \/ config.policy # "fixed" /\ (scheduler' = Rejected(c, r) \/ scheduler' = Confirmed(c, r))
    BY <2>1 DEF AfterObserve
  <2>6. Ladder[1] = 1 /\ Ladder[2] = 2 /\ r \in {1, 2, 3}
    BY <2>2 DEF Ladder, Rungs
  <2> HIDE DEF c, r
  <2>7. CASE config.policy = "fixed" /\ scheduler' = c
    BY <1>1, <2>4, <2>7 DEF SchedulerKeeps
  <2>8. CASE config.policy # "fixed" /\ scheduler' = Rejected(c, r)
    <3> DEFINE cap == IF r = 1 THEN 0 ELSE Ladder[r - 1]
    <3>1. cap \in {0, 1, 2}
      BY <2>6
    <3>2. scheduler' = [c EXCEPT !.cap = cap]
      BY <2>8 DEF Rejected
    <3> HIDE DEF cap
    <3>3. DOMAIN scheduler' = DOMAIN Fresh /\ scheduler'.cap = cap
      BY <2>3, <2>4, <3>2
    <3> QED
      BY <1>1, <2>8, <3>1, <3>3 DEF SchedulerKeeps
  <2>9. CASE config.policy # "fixed" /\ scheduler' = Confirmed(c, r)
    <3>1. DOMAIN scheduler' = DOMAIN Fresh /\ scheduler'.cap = NoCap
      BY <2>3, <2>4, <2>9 DEF Confirmed
    <3> QED
      BY <1>1, <2>9, <3>1 DEF SchedulerKeeps
  <2> QED
    BY <2>5, <2>7, <2>8, <2>9
<1> QED
  BY <1>1, <1>2, <1>3

LEMMA AcceptableIs ==
  ASSUME SchedulerKeeps, NEW n \in {0, 1, 2, 4}, n <= config.maximum, NEW a \in Nat, a <= n,
         NEW l \in Nat, NEW m \in Nat, l <= m
  PROVE  Acceptable(Feedback(n, a, l, m)) \/ (n = 0 /\ (l # 0 \/ m # 0))
<1>1. /\ Feedback(n, a, l, m).proposed = n /\ Feedback(n, a, l, m).accepted = a
      /\ Feedback(n, a, l, m).loads = l /\ Feedback(n, a, l, m).assigned = m
  BY DEF Feedback
<1>2. n # 0 => IsRung(n)
  <2>1. Ladder[1] = 1 /\ Ladder[2] = 2 /\ Ladder[3] = 4 /\ Rungs = {1, 2, 3}
    BY DEF Ladder, Rungs
  <2> QED
    BY <2>1 DEF IsRung
<1> QED
  BY <1>1, <1>2 DEF Acceptable

-----------------------------------------------------------------------------
(* The engine and its provider                                             *)

Drafting == provider.kind # "scripted"

\* What the engine may take from its provider.
AskingOffers ==
  /\ status = "propose" /\ provider.chosen # NotChosen =>
        Len(text) < count /\ Offered(provider.chosen, MaxDraft)
  /\ status = "prefill" \/ ~Drafting =>
        ~provider.initialized /\ ~provider.broken /\ provider.chosen = NotChosen

\* The provider waits for the verdict on what the engine verifies.
WaitsForVerdict ==
  /\ status \in {"verify", "update"} => provider.chosen = NotChosen
  /\ Drafting /\ status = "propose" => ~provider.pending
  /\ Drafting /\ status \in {"verify", "update"} =>
        /\ ~provider.broken /\ provider.pending
        /\ provider.candidates = Candidates /\ provider.anchor = proposal.anchor
        /\ Candidates \in Seq(Tokens) /\ Offered(Len(Candidates), MaxDraft)
        /\ Len(text) < count

\* The verdict accepts a prefix and adds a token; a token by token verification
\* has no cost.
VerdictFits ==
  /\ status = "verify" => verdict.loads = 0 /\ verdict.assigned = 0
  /\ status = "update" =>
        /\ verdict.accepted <= Len(Candidates)
        /\ Len(verdict.committed) = verdict.accepted + 1
        /\ \A i \in 1..verdict.accepted : verdict.committed[i] = Candidates[i]
        /\ verdict.loads <= verdict.assigned
        /\ mode = "token_major" => verdict.loads = 0 /\ verdict.assigned = 0

\* Without a failure below, only a block of the anchor alone can break the
\* provider, and with fixed lengths only the last block is one.
FaultFree ==
  /\ faults \in Nat
  /\ Drafting /\ faults = 0 /\ mode = "token_major" => ~provider.broken
  /\ Drafting /\ faults = 0 /\ config.policy = "fixed" /\ provider.broken =>
        status \in {"propose", "done"} /\ Len(text) >= count
  /\ Drafting /\ faults = 0 /\ (mode = "token_major" \/ config.policy = "fixed") =>
        status # "failed"

DraftInv ==
  /\ SchedulerKeeps /\ ProviderKeeps(provider, cursor, text, text)
  /\ AskingOffers /\ WaitsForVerdict /\ VerdictFits /\ FaultFree

\* A block without candidates is the last one, when there was room for any.
LEMMA NoRoom ==
  ASSUME Types, Len(text) < count, MaxDraft = 0
  PROVE  count - Len(text) - 1 = 0
<1> DEFINE m == count - Len(text) - 1
<1>1. m \in Nat /\ BlockSize \in Nat \ {0}
  BY SpeculativeAssumption DEF Types
<1>2. Min({BlockSize, m}) = 0
  BY DEF MaxDraft
<1> HIDE DEF m
<1>3. \E x \in {BlockSize, m} : \A y \in {BlockSize, m} : x <= y
  BY <1>1
<1>4. Min({BlockSize, m}) \in {BlockSize, m}
  BY <1>3 DEF Min
<1> QED
  BY <1>1, <1>2, <1>4 DEF m

\* What the steps below know to begin with.
LEMMA DraftingTypes ==
  ASSUME EngineInv
  PROVE  /\ Types /\ text \in Seq(Tokens) /\ Len(text) \in Nat /\ count \in Nat
         /\ verdict \in VerdictSet /\ verdict.accepted \in Nat /\ verdict.loads \in Nat
         /\ verdict.assigned \in Nat /\ verdict.committed \in Seq(Tokens)
         /\ Len(text) < count => MaxDraft \in Nat
BY SpeculativeAssumption, MaxDraftIs DEF EngineInv, Types, VerdictSet

\* A provider that was never asked is in step with any text.
LEMMA FreshKeeps ==
  ASSUME NEW t, NEW s, NEW t2, NEW s2, ProviderKeeps(provider, cursor, t, s),
         ~provider.initialized, ~provider.broken, provider.chosen = NotChosen
  PROVE  ProviderKeeps(provider, cursor, t2, s2)
<1>1. InStepWith(provider, cursor, t, s)
  BY DEF ProviderKeeps
<1>2. InStepWith(provider, cursor, t2, s2)
  BY <1>1 DEF InStepWith
<1> QED
  BY <1>2 DEF ProviderKeeps

LEMMA PrefillDrafts ==
  ASSUME EngineInv, DraftInv, Prefill
  PROVE  DraftInv'
<1>1. /\ UNCHANGED providerVars /\ status = "prefill" /\ status' = "propose"
      /\ UNCHANGED <<mode, faults>>
      /\ ~provider.initialized /\ ~provider.broken /\ provider.chosen = NotChosen
  BY DEF Prefill, DraftInv, AskingOffers
<1>2. UNCHANGED <<config, scheduler, cursor, provider>>
  BY <1>1 DEF providerVars
<1>3. ~provider.pending
  BY <1>1 DEF DraftInv, ProviderKeeps, InStepWith
<1>4. ProviderKeeps(provider', cursor', text', text')
  <2>1. ProviderKeeps(provider, cursor, text', text')
    BY <1>1, FreshKeeps DEF DraftInv
  <2> QED
    BY <1>2, <2>1
<1>5. SchedulerKeeps'
  BY <1>2 DEF DraftInv, SchedulerKeeps
<1>6. AskingOffers' /\ WaitsForVerdict' /\ VerdictFits' /\ FaultFree'
  BY <1>1, <1>2, <1>3 DEF DraftInv, AskingOffers, WaitsForVerdict, VerdictFits, FaultFree, Drafting
<1> QED
  BY <1>4, <1>5, <1>6 DEF DraftInv

\* A call that ends, in good order or after a failure below.
LEMMA EndDrafts ==
  ASSUME DraftInv, ProviderKeeps(provider', cursor', text, text),
         UNCHANGED <<config, scheduler, count, mode, text>>,
         provider'.kind = provider.kind, Drafting \/ provider' = provider,
         \/ faults' = faults + 1 /\ status' = "failed"
         \/ UNCHANGED <<provider, faults>> /\ status = "propose" /\ status' = "done"
  PROVE  DraftInv'
<1>1. SchedulerKeeps' /\ faults \in Nat /\ ProviderKeeps(provider', cursor', text', text')
  BY DEF DraftInv, SchedulerKeeps, FaultFree
<1>2. AskingOffers' /\ WaitsForVerdict' /\ VerdictFits'
  BY DEF DraftInv, AskingOffers, WaitsForVerdict, VerdictFits, Drafting
<1>3. FaultFree'
  BY <1>1 DEF DraftInv, FaultFree, Drafting
<1> QED
  BY <1>1, <1>2, <1>3 DEF DraftInv

LEMMA FailingDrafts ==
  ASSUME EngineInv, DraftInv, TargetThrows \/ Finish \/ RejectProposal
  PROVE  DraftInv'
<1>1. CASE TargetThrows \/ Finish
  <2>1. /\ UNCHANGED <<config, scheduler, cursor, provider, count, mode, text>>
        /\ \/ faults' = faults + 1 /\ status' = "failed"
           \/ UNCHANGED <<provider, faults>> /\ status = "propose" /\ status' = "done"
    BY <1>1 DEF TargetThrows, Finish, Fault, FailCall, providerVars
  <2> QED
    BY <2>1, EndDrafts DEF DraftInv
<1>2. CASE RejectProposal
  <2>1. /\ UNCHANGED <<config, scheduler, cursor, provider, count, mode, text, faults>>
        /\ status = "verify" /\ status' = "failed" /\ ~ValidProposal
    BY <1>2 DEF RejectProposal, FailCall, providerVars
  <2>2. ~Drafting
    <3>1. CASE Drafting
      <4>1. Candidates \in Seq(Tokens) /\ Len(Candidates) <= MaxDraft
        BY <2>1, <3>1 DEF DraftInv, WaitsForVerdict, Offered
      <4>2. \A i \in 1..Len(Candidates) : Candidates[i] \in Tokens
        <5> HIDE DEF Candidates
        <5> QED
          BY <4>1
      <4> QED
        BY <2>1, <4>1, <4>2 DEF ValidProposal
    <3> QED
      BY <3>1
  <2> QED
    BY <2>1, <2>2 DEF DraftInv, SchedulerKeeps, AskingOffers, WaitsForVerdict, VerdictFits,
                      FaultFree, Drafting
<1> QED
  BY <1>1, <1>2

LEMMA ChooseDrafts ==
  ASSUME EngineInv, DraftInv, ChooseLength
  PROVE  DraftInv'
<1>1. /\ status = "propose" /\ Len(text) < count /\ Drafting /\ Choose(text, MaxDraft)
      /\ UNCHANGED <<model, count, mode, fed, text, proposal, verdict, status, faults>>
  BY DEF ChooseLength, Asking, engineVars, Drafting
<1>2. text \in Seq(Tokens) /\ MaxDraft \in Nat
  BY <1>1, DraftingTypes
<1>3. PICK n \in {0, 1, 2, 4} :
        Select(MaxDraft, n) /\ provider' = [provider EXCEPT !.chosen = n]
  BY <1>1 DEF Choose
<1>4. SchedulerKeeps' /\ Offered(n, MaxDraft) /\ config' = config
  BY <1>2, <1>3, SelectKeeps DEF DraftInv
<1>5. ProviderKeeps(provider', cursor', text, text)
  BY <1>1, <1>2, ChooseKeeps DEF DraftInv
<1>6. /\ provider'.chosen = n /\ provider'.kind = provider.kind
      /\ provider'.broken = provider.broken /\ provider'.pending = provider.pending
  <2>1. provider \in ProvSet
    BY DEF DraftInv, ProviderKeeps
  <2> QED
    BY <1>3, <2>1 DEF ProvSet
<1>7. MaxDraft' = MaxDraft
  BY <1>1 DEF MaxDraft
<1>8. Offered(n, MaxDraft)'
  BY <1>4, <1>7 DEF Offered
<1>9. AskingOffers'
  BY <1>1, <1>6, <1>7, <1>8, <1>4 DEF AskingOffers, Drafting, Offered
<1>10. WaitsForVerdict' /\ VerdictFits' /\ FaultFree'
  BY <1>1, <1>4, <1>6 DEF DraftInv, WaitsForVerdict, VerdictFits, FaultFree, Drafting
<1> QED
  BY <1>1, <1>4, <1>5, <1>9, <1>10 DEF DraftInv

LEMMA OpenDrafts ==
  ASSUME EngineInv, DraftInv, OpenDraft
  PROVE  DraftInv'
<1>1. /\ status = "propose" /\ OpenCursor(text)
      /\ UNCHANGED <<model, count, mode, fed, text, proposal, verdict, status, faults>>
  BY DEF OpenDraft, Asking, engineVars
<1>2. UNCHANGED <<config, scheduler, provider>>
  BY <1>1 DEF OpenCursor
<1>3. ProviderKeeps(provider', cursor', text', text')
  BY <1>1, OpenKeeps DEF DraftInv
<1>4. MaxDraft' = MaxDraft
  BY <1>1 DEF MaxDraft
<1>5. SchedulerKeeps'
  BY <1>2 DEF DraftInv, SchedulerKeeps
<1>6. AskingOffers'
  BY <1>1, <1>2, <1>4 DEF DraftInv, AskingOffers, Offered, Drafting
<1>7. WaitsForVerdict' /\ VerdictFits' /\ FaultFree'
  BY <1>1, <1>2 DEF DraftInv, WaitsForVerdict, VerdictFits, FaultFree, Drafting
<1> QED
  BY <1>3, <1>5, <1>6, <1>7 DEF DraftInv

LEMMA DraftDrafts ==
  ASSUME EngineInv, DraftInv, Draft
  PROVE  DraftInv'
<1>1. /\ status = "propose" /\ Len(text) < count /\ Drafting /\ provider.chosen # NotChosen
  BY DEF Draft, Asking, Drafting
<1>2. PICK c \in [1..provider.chosen -> Tokens] :
        Generate(text, c) /\ TakeProposal(text[Len(text)], c)
  BY DEF Draft
<1>3. provider \in ProvSet /\ Offered(provider.chosen, MaxDraft) /\ provider.chosen \in Nat
  BY <1>1 DEF DraftInv, ProviderKeeps, AskingOffers, Offered
<1>4. c \in Seq(Tokens) /\ Len(c) = provider.chosen
  BY <1>3
<1>5. /\ ProviderKeeps(provider', cursor', text, text)
      /\ provider'.chosen = NotChosen /\ provider'.pending
      /\ provider'.anchor = text[Len(text)] /\ provider'.candidates = c
      /\ ~provider'.broken
  BY <1>2, <1>4, GenerateKeeps DEF DraftInv
<1>6. provider'.kind = provider.kind
  BY <1>2, <1>3 DEF Generate, ProvSet
<1>7. /\ proposal' = [anchor |-> text[Len(text)], candidates |-> c]
      /\ verdict' = NoVerdict /\ status' = "verify"
      /\ UNCHANGED <<model, count, mode, fed, text, faults>>
  BY <1>2 DEF TakeProposal
<1>8. UNCHANGED <<config, scheduler>>
  BY <1>2 DEF Generate
<1>9. MaxDraft' = MaxDraft /\ Candidates' = c /\ proposal'.anchor = text[Len(text)]
  BY <1>7 DEF MaxDraft, Candidates
<1>10. Offered(Len(Candidates), MaxDraft)'
  BY <1>3, <1>4, <1>8, <1>9 DEF Offered
<1>11. WaitsForVerdict'
  BY <1>1, <1>4, <1>5, <1>7, <1>9, <1>10 DEF WaitsForVerdict
<1>12. AskingOffers' /\ VerdictFits' /\ FaultFree' /\ SchedulerKeeps'
  BY <1>1, <1>5, <1>6, <1>7, <1>8
     DEF DraftInv, AskingOffers, VerdictFits, FaultFree, Drafting, SchedulerKeeps, NoVerdict
<1> QED
  BY <1>5, <1>7, <1>11, <1>12 DEF DraftInv

LEMMA ScriptDrafts ==
  ASSUME EngineInv, DraftInv, FollowScript
  PROVE  DraftInv'
<1>1. /\ UNCHANGED <<config, scheduler, cursor, provider>> /\ ~Drafting
      /\ verdict' = NoVerdict /\ status' \in {"verify", "failed"} /\ UNCHANGED <<text, mode, faults>>
  BY DEF FollowScript, TakeProposal, providerVars, Drafting
<1> QED
  BY <1>1 DEF DraftInv, SchedulerKeeps, AskingOffers, WaitsForVerdict, VerdictFits, FaultFree,
              Drafting, NoVerdict

LEMMA DraftFailsDrafts ==
  ASSUME EngineInv, DraftInv, DraftFails
  PROVE  DraftInv'
<1>1. /\ status = "propose" /\ Len(text) < count
      /\ status' = "failed" /\ UNCHANGED <<count, mode, text>>
  BY DEF DraftFails, Asking, FailCall
<1>2. CASE ProposeOutOfStep(text) /\ Drafting /\ UNCHANGED faults
  <2>1. UNCHANGED <<config, scheduler, cursor, provider>> /\ provider.chosen = NotChosen
        /\ ~InStep(text)
    BY <1>2 DEF ProposeOutOfStep, providerVars
  <2>2. provider.broken
    <3>1. ~provider.pending /\ text # <<>>
      BY <1>1, <1>2, DraftingTypes DEF DraftInv, WaitsForVerdict, EngineInv, AtPropose
    <3>2. ~provider.broken /\ provider.initialized => text = provider.expected
      BY DEF DraftInv, ProviderKeeps, InStepWith
    <3> QED
      BY <2>1, <3>1, <3>2 DEF InStep
  <2>3. ~(Len(text) >= count)
    BY <1>1, DraftingTypes
  <2> QED
    BY <1>1, <1>2, <2>1, <2>2, <2>3
       DEF DraftInv, SchedulerKeeps, AskingOffers, WaitsForVerdict, VerdictFits, FaultFree, Drafting
<1>3. CASE /\ faults' = faults + 1
           /\ \/ provider.kind = "scripted" /\ UNCHANGED providerVars
              \/ OpenCursorFails
              \/ GenerateFails
  <2>1. /\ ProviderKeeps(provider', cursor', text, text)
        /\ UNCHANGED providerVars \/ provider'.chosen = NotChosen
    <3>1. CASE UNCHANGED providerVars
      BY <3>1 DEF providerVars, DraftInv
    <3>2. CASE OpenCursorFails
      <4>1. provider'.chosen = NotChosen
        BY <3>2 DEF OpenCursorFails, DraftInv, ProviderKeeps, ProvSet
      <4> QED
        BY <3>2, <4>1, OpenFailsKeeps DEF DraftInv
    <3>3. CASE GenerateFails
      BY <3>3, GenerateFailsKeeps DEF DraftInv
    <3> QED
      BY <1>3, <3>1, <3>2, <3>3
  <2>2. /\ UNCHANGED <<config, scheduler>> /\ provider'.kind = provider.kind
        /\ Drafting \/ provider' = provider
    <3>1. provider \in ProvSet /\ (~Drafting => provider.chosen = NotChosen)
      BY DEF DraftInv, ProviderKeeps, AskingOffers
    <3> QED
      BY <1>3, <2>1, <3>1 DEF providerVars, OpenCursorFails, GenerateFails, Generating, ProvSet
  <2> QED
    BY <1>1, <1>3, <2>1, <2>2, EndDrafts
<1> QED
  BY <1>2, <1>3 DEF DraftFails, Fault, Drafting

\* A verdict on what waits for it: only the verdict changes.
LEMMA VerdictDrafts ==
  ASSUME EngineInv, DraftInv, status = "verify", status' \in {"verify", "update"},
         UNCHANGED <<providerVars, count, mode, text, proposal, faults>>, VerdictFits'
  PROVE  DraftInv'
<1>1. UNCHANGED <<config, scheduler, cursor, provider>>
  BY DEF providerVars
<1>2. MaxDraft' = MaxDraft /\ Candidates' = Candidates
  BY DEF MaxDraft, Candidates
<1>3. SchedulerKeeps' /\ AskingOffers'
  BY <1>1 DEF DraftInv, SchedulerKeeps, AskingOffers, Drafting
<1>4. WaitsForVerdict'
  BY <1>1, <1>2 DEF DraftInv, WaitsForVerdict, Offered, Drafting
<1>5. FaultFree'
  BY <1>1 DEF DraftInv, FaultFree, Drafting
<1> QED
  BY <1>1, <1>3, <1>4, <1>5 DEF DraftInv

LEMMA TokenDrafts ==
  ASSUME EngineInv, DraftInv, VerifyToken
  PROVE  DraftInv'
<1> DEFINE c == verdict.committed
           i == verdict.accepted + 1
           e == model[Append(fed, Input(i))]
           agrees == i <= Len(Candidates) /\ Candidates[i] = e
           S == Tokens \cup {e}
           w == Append(c, e)
<1>1. /\ status = "verify" /\ mode = "token_major"
      /\ verdict' = [verdict EXCEPT !.committed = w, !.accepted = IF agrees THEN i ELSE @,
                                    !.done = ~agrees]
      /\ status' = IF agrees THEN "verify" ELSE "update"
      /\ UNCHANGED <<providerVars, count, mode, text, proposal, faults>>
  BY DEF VerifyToken
<1>2. /\ verdict \in VerdictSet /\ c \in Seq(Tokens) /\ verdict.accepted \in Nat
      /\ Len(c) = verdict.accepted /\ verdict.accepted <= Len(Candidates)
      /\ \A j \in 1..verdict.accepted : c[j] = Candidates[j]
      /\ verdict.loads = 0 /\ verdict.assigned = 0
  BY <1>1, DraftingTypes DEF EngineInv, AtVerify, DraftInv, VerdictFits
<1> HIDE DEF e, agrees, c
<1>3. c \in Seq(S) /\ e \in S
  BY <1>2
<1> HIDE DEF S
<1>4. /\ Len(w) = Len(c) + 1 /\ \A j \in 1..Len(c) : w[j] = c[j]
  BY <1>3, AppendProperties
<1> HIDE DEF w
<1>5. /\ verdict'.loads = 0 /\ verdict'.assigned = 0 /\ verdict'.committed = w
      /\ ~agrees => verdict'.accepted = verdict.accepted
  BY <1>1, <1>2 DEF VerdictSet
<1>6. VerdictFits'
  <2>1. CASE agrees
    BY <1>1, <1>5, <2>1 DEF VerdictFits
  <2>2. CASE ~agrees
    <3>1. Candidates' = Candidates
      BY <1>1 DEF Candidates
    <3> QED
      BY <1>1, <1>2, <1>4, <1>5, <2>2, <3>1 DEF VerdictFits
  <2> QED
    BY <2>1, <2>2
<1> QED
  BY <1>1, <1>6, VerdictDrafts

LEMMA BlockDrafts ==
  ASSUME EngineInv, DraftInv, VerifyBlock
  PROVE  DraftInv'
<1> DEFINE k == AgreedPrefix
           cs == Candidates
           e == BlockTargets[k + 1]
           d == SubSeq(cs, 1, k)
           S == Tokens \cup {e}
           w == Append(d, e)
<1>1. /\ status = "verify" /\ mode = "expert_major" /\ ValidProposal /\ status' = "update"
      /\ UNCHANGED <<providerVars, count, mode, text, proposal, faults>>
  BY DEF VerifyBlock
<1>2. PICK cost \in Costs :
        verdict' = [accepted |-> k, committed |-> w, done |-> TRUE,
                    loads |-> cost[1], assigned |-> cost[2]]
  BY DEF VerifyBlock
<1>3. cs \in Seq(Tokens)
  BY <1>1, Verifying
<1>4. k \in 0..Len(cs)
  BY <1>3, AgreedPrefixIs
<1>5. Candidates' = cs
  BY <1>1 DEF Candidates
<1> HIDE DEF k, cs, e
<1>6. /\ k \in Nat /\ Len(cs) \in Nat /\ k <= Len(cs)
      /\ d \in Seq(Tokens) /\ Len(d) = k /\ \A j \in 1..k : d[j] = cs[j]
  BY <1>3, <1>4
<1> HIDE DEF d
<1>7. d \in Seq(S) /\ e \in S
  BY <1>6
<1> HIDE DEF S
<1>8. /\ Len(w) = Len(d) + 1 /\ \A j \in 1..Len(d) : w[j] = d[j]
  BY <1>7, AppendProperties
<1> HIDE DEF w
<1>9. cost[1] <= cost[2]
  BY SpeculativeAssumption
<1>10. VerdictFits'
  BY <1>1, <1>2, <1>5, <1>6, <1>8, <1>9 DEF VerdictFits
<1> QED
  BY <1>1, <1>10, VerdictDrafts

\* The engine's report fits what the provider proposed.
LEMMA ReportFits ==
  ASSUME EngineInv, DraftInv, status = "update", Drafting
  PROVE  /\ ValidUpdate(Verification)
         /\ Verification.accepted \in Nat /\ Verification.committed = verdict.committed
         /\ FeedbackOf(Verification) = Feedback(Len(Candidates), verdict.accepted,
                                                verdict.loads, verdict.assigned)
<1>1. /\ Verification.anchor = proposal.anchor /\ Verification.proposed = Len(Candidates)
      /\ Verification.accepted = verdict.accepted
      /\ Verification.committed = verdict.committed
      /\ Verification.all = (verdict.accepted = Len(Candidates))
      /\ Verification.loads = verdict.loads /\ Verification.assigned = verdict.assigned
  BY DEF Verification
<1>2. /\ provider.pending /\ provider.candidates = Candidates
      /\ provider.anchor = proposal.anchor
      /\ verdict.accepted <= Len(Candidates)
      /\ Len(verdict.committed) = verdict.accepted + 1
      /\ \A i \in 1..verdict.accepted : verdict.committed[i] = Candidates[i]
  BY DEF DraftInv, WaitsForVerdict, VerdictFits
<1> HIDE DEF Candidates
<1>3. ValidUpdate(Verification)
  BY <1>1, <1>2 DEF ValidUpdate
<1> QED
  BY <1>1, <1>3, DraftingTypes DEF FeedbackOf

LEMMA CommitDrafts ==
  ASSUME EngineInv, DraftInv, CommitBlock
  PROVE  DraftInv'
<1> DEFINE c == verdict.committed
           n == Len(Candidates)
           v == Verification
<1>1. /\ status = "update" /\ status' = "propose" /\ text' = Cat(text, c)
      /\ verdict' = NoVerdict /\ UNCHANGED <<model, count, mode, fed>> /\ Report
  BY DEF CommitBlock, Cat
<1>2. /\ text \in Seq(Tokens) /\ Len(text) \in Nat /\ c \in Seq(Tokens) /\ count \in Nat
      /\ faults \in Nat /\ provider.chosen = NotChosen /\ verdict.accepted \in Nat
      /\ verdict.loads \in Nat /\ verdict.assigned \in Nat
  BY <1>1, DraftingTypes DEF DraftInv, FaultFree, WaitsForVerdict
<1>3. CASE ~Drafting
  <2>1. UNCHANGED <<config, scheduler, cursor, provider, faults>>
    BY <1>1, <1>3 DEF Report, Drafting, providerVars
  <2>2. ProviderKeeps(provider', cursor', text', text')
    <3>1. ~provider.initialized /\ ~provider.broken
      BY <1>3 DEF DraftInv, AskingOffers
    <3>2. ProviderKeeps(provider, cursor, text', text')
      BY <1>2, <3>1, FreshKeeps DEF DraftInv
    <3> QED
      BY <2>1, <3>2
  <2> QED
    BY <1>1, <1>2, <1>3, <2>1, <2>2
       DEF DraftInv, SchedulerKeeps, AskingOffers, WaitsForVerdict, VerdictFits, FaultFree, Drafting
<1>4. CASE Drafting
  <2>1. /\ ValidUpdate(v) /\ v.accepted \in Nat /\ v.committed = c
        /\ FeedbackOf(v) = Feedback(n, verdict.accepted, verdict.loads, verdict.assigned)
    BY <1>1, <1>4, ReportFits
  <2>2. /\ Offered(n, MaxDraft) /\ Len(text) < count
        /\ verdict.accepted <= n /\ Len(c) = verdict.accepted + 1
        /\ verdict.loads <= verdict.assigned
        /\ mode = "token_major" => verdict.loads = 0 /\ verdict.assigned = 0
    BY <1>1, <1>4 DEF DraftInv, WaitsForVerdict, VerdictFits
  <2>3. \/ Update(v) /\ UNCHANGED faults
        \/ UpdateFails(v) /\ faults' = faults + 1
    BY <1>1, <1>4, <2>1 DEF Report, Drafting, UpdateRefused, Fault
  <2>4. provider'.kind = provider.kind
    <3>1. provider \in ProvSet
      BY DEF DraftInv, ProviderKeeps
    <3>2. Settled.kind = provider.kind /\ DOMAIN Settled = DOMAIN provider
      BY <3>1 DEF Settled, ProvSet
    <3>3. Broken.kind = provider.kind
      BY <3>1, <3>2 DEF Broken, ProvSet
    <3>4. [Settled EXCEPT !.expected = @ \o v.committed].kind = Settled.kind
      BY <3>1, <3>2 DEF ProvSet
    <3> QED
      BY <2>3, <3>2, <3>3, <3>4 DEF Update, UpdateFails
  <2> HIDE DEF c, n, v
  <2>5. CASE Update(v) /\ UNCHANGED faults
    <3>1. PICK counted \in BOOLEAN : Observe(FeedbackOf(v), counted)
      BY <2>5 DEF Update
    <3>2. SchedulerKeeps' /\ config' = config
      BY <3>1, ObserveKeeps DEF DraftInv
    <3>3. v.committed \in Seq(Tokens)
      BY <1>2, <2>1
    <3>4. /\ ProviderKeeps(provider', cursor', Cat(text, c), Cat(text, c))
          /\ provider'.broken => ~Acceptable(FeedbackOf(v))
          /\ ~provider'.pending /\ provider'.chosen = NotChosen
      <4>1. ProviderKeeps(provider, cursor, text, text)
        BY DEF DraftInv
      <4> DEFINE after == Cat(text, c)
      <4>2. after = Cat(text, v.committed)
        BY <2>1
      <4> HIDE DEF after
      <4>3. /\ ProviderKeeps(provider', cursor', Cat(text, v.committed), after)
            /\ provider'.broken => ~Acceptable(FeedbackOf(v))
            /\ ~provider'.pending /\ provider'.chosen = NotChosen
        BY <1>2, <2>1, <2>5, <3>3, <4>1, UpdateKeeps
      <4> QED
        BY <4>2, <4>3 DEF after
    <3>5. provider'.broken =>
            mode # "token_major" /\ (config.policy = "fixed" => Len(text') >= count)
      <4>1. SUFFICES ASSUME provider'.broken
                     PROVE  /\ mode # "token_major"
                            /\ config.policy = "fixed" => Len(text') >= count
        OBVIOUS
      <4>2. n = 0 /\ (verdict.loads # 0 \/ verdict.assigned # 0)
        <5>1. n \in {0, 1, 2, 4} /\ n <= config.maximum /\ SchedulerKeeps
          BY <2>2 DEF Offered, DraftInv
        <5> QED
          BY <1>2, <2>1, <2>2, <3>4, <4>1, <5>1, AcceptableIs, SMTT(30)
      <4>3. Len(text') = Len(text) + 1
        <5>1. Len(c) = 1
          BY <1>2, <2>2, <4>2
        <5>2. Len(text \o c) = Len(text) + Len(c)
          BY <1>2, ConcatProperties
        <5> QED
          BY <1>1, <1>2, <5>1, <5>2 DEF Cat
      <4>4. config.policy = "fixed" => Len(text) + 1 >= count
        <5>1. config.policy = "fixed" => MaxDraft = 0
          BY <2>2, <4>2 DEF Offered
        <5>2. MaxDraft = 0 => count - Len(text) - 1 = 0
          BY <2>2, DraftingTypes, NoRoom
        <5> QED
          BY <1>2, <5>1, <5>2
      <4> QED
        BY <1>2, <2>2, <4>2, <4>3, <4>4
    <3>6. AskingOffers' /\ WaitsForVerdict' /\ VerdictFits'
      BY <1>1, <1>4, <2>4, <3>4 DEF AskingOffers, WaitsForVerdict, VerdictFits, Drafting
    <3>7. FaultFree'
      BY <1>1, <1>2, <2>5, <3>2, <3>5 DEF FaultFree
    <3> QED
      BY <1>1, <3>2, <3>4, <3>6, <3>7 DEF DraftInv, c
  <2>6. CASE UpdateFails(v) /\ faults' = faults + 1
    <3>1. UNCHANGED <<config, scheduler>>
      BY <2>6 DEF UpdateFails
    <3>2. /\ ProviderKeeps(provider', cursor', text', text')
          /\ provider'.broken /\ provider'.chosen = NotChosen
      BY <1>2, <2>6, UpdateRefusedKeeps DEF DraftInv
    <3>3. ~provider'.pending
      BY <3>2 DEF ProviderKeeps
    <3>4. AskingOffers' /\ WaitsForVerdict' /\ VerdictFits' /\ FaultFree' /\ SchedulerKeeps'
      BY <1>1, <1>2, <1>4, <2>4, <2>6, <3>1, <3>2, <3>3
         DEF DraftInv, SchedulerKeeps, AskingOffers, WaitsForVerdict, VerdictFits, FaultFree,
             Drafting
    <3> QED
      BY <3>2, <3>4 DEF DraftInv
  <2> QED
    BY <2>3, <2>5, <2>6
<1> QED
  BY <1>3, <1>4

LEMMA DraftInitial ==
  ASSUME Init
  PROVE  DraftInv
<1>1. /\ status = "prefill" /\ text = <<>> /\ verdict = NoVerdict /\ faults = 0
      /\ cursor = NoCursor /\ scheduler = Fresh
      /\ config \in [policy : Policies, maximum : MaximumLengths]
  BY DEF Init, ProviderInit, SchedulerInit, CursorInit
<1>2. /\ provider \in ProvSet /\ provider.chosen = NotChosen /\ provider.initialized = FALSE
      /\ provider.pending = FALSE /\ provider.broken = FALSE
      /\ provider.cursorPending = FALSE
  <2>1. PICK kind \in Kinds : provider = FreshProvider(kind)
    BY DEF Init, ProviderInit
  <2>2. Prompt[1] \in Tokens /\ <<>> \in Seq(Tokens)
    BY PromptAssumption
  <2> QED
    BY <2>1, <2>2 DEF FreshProvider, ProvSet
<1>3. ProviderKeeps(provider, cursor, text, text)
  <2>1. IsCursor(cursor) /\ cursor.life = "none"
    BY <1>1 DEF IsCursor, NoCursor
  <2> QED
    BY <1>2, <2>1 DEF ProviderKeeps, InStepWith
<1>4. SchedulerKeeps
  <2>1. config.maximum \in {1, 2, 4}
    BY <1>1, SchedulerConfigAssumption
  <2> QED
    BY <1>1, <2>1 DEF SchedulerKeeps, Fresh
<1>5. AskingOffers /\ WaitsForVerdict /\ VerdictFits /\ FaultFree
  BY <1>1, <1>2 DEF AskingOffers, WaitsForVerdict, VerdictFits, FaultFree, NoVerdict
<1> QED
  BY <1>3, <1>4, <1>5 DEF DraftInv

LEMMA DraftStuttering ==
  ASSUME DraftInv, UNCHANGED vars
  PROVE  DraftInv'
<1>1. UNCHANGED <<config, scheduler, cursor, provider, model, count, mode, fed, text, proposal,
                  verdict, status, faults>>
  BY DEF vars, providerVars, engineVars
<1> QED
  BY <1>1 DEF DraftInv, SchedulerKeeps, AskingOffers, WaitsForVerdict, VerdictFits, FaultFree,
              Drafting, Offered, MaxDraft, Candidates

\* What the steps preserve of the engine and its provider.
THEOREM DraftInvariant == Spec => []DraftInv
<1>1. Init => DraftInv
  BY DraftInitial
<1>2. EngineInv /\ DraftInv /\ [Next]_vars => DraftInv'
  BY PrefillDrafts, FailingDrafts, ChooseDrafts, OpenDrafts, DraftDrafts, ScriptDrafts,
     DraftFailsDrafts, TokenDrafts, BlockDrafts, CommitDrafts, DraftStuttering DEF Next
<1> QED
  BY <1>1, <1>2, EngineInvariant, PTL DEF Spec

\* The engine's text is the one its AURORA provider expects and the persistent
\* draft state was fed; and without a failure below, nothing that the provider
\* proposes is refused and no report of a token by token verification is, so
\* the call does not fail.
THEOREM DraftFollowsTextCorrect == Spec => []DraftFollowsText
<1>1. DraftInv => DraftFollowsText
  <2> SUFFICES ASSUME DraftInv, provider.kind # "scripted"
               PROVE  /\ status = "propose" /\ ~provider.broken =>
                            /\ provider.initialized => provider.expected = text
                            /\ cursor.life = "idle" =>
                                 cursor.kda = Prompt \o text /\ cursor.mla = Prompt \o text
                      /\ faults = 0 /\ mode = "token_major" => ~provider.broken
                      /\ faults = 0 /\ (mode = "token_major" \/ config.policy = "fixed") =>
                            status # "failed"
    BY DEF DraftFollowsText
  <2>1. ~provider.broken => InStepWith(provider, cursor, text, text)
    BY DEF DraftInv, ProviderKeeps
  <2>2. ~provider.broken =>
           /\ provider.initialized => provider.expected = text
           /\ cursor.life = "idle" =>
                cursor.kda = Prompt \o text /\ cursor.mla = Prompt \o text
    BY <2>1 DEF InStepWith, Cat
  <2> QED
    BY <2>2 DEF DraftInv, FaultFree, Drafting
<1> QED
  BY <1>1, DraftInvariant, PTL
=============================================================================
