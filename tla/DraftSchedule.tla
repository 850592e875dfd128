--------------------------- MODULE DraftSchedule ---------------------------
(***************************************************************************)
(* AdaptiveDraftScheduler under its one caller: a draft provider asks for  *)
(* a length, the target verifies the proposal, the provider reports how    *)
(* much of it was accepted and what it cost, and asks again.               *)
(***************************************************************************)
EXTENDS AuroraScheduler

CONSTANTS
    Requests,    \* max_draft_tokens of the requests; 0 for the last token
    ReportCosts, \* pairs <<payload loads, assignments>> a verification reports
    MaxBlocks    \* bound on the verified proposals of a run

ASSUME DraftScheduleAssumption ==
    /\ Requests \subseteq Nat
    /\ ReportCosts \subseteq {c \in Nat \X Nat : c[1] <= c[2]}
    /\ MaxBlocks \in Nat

VARIABLES
    offered,     \* the length last selected, or Waiting
    blocks,      \* verified proposals so far
    confirmed,   \* history: lengths some proposal of which was fully accepted
    refused,     \* history: length of the last proposal when it was rejected, else 0
    rests        \* history: positive requests answered by zero since that proposal

Waiting == 99
scheduleVars == <<config, scheduler, offered, blocks, confirmed, refused, rests>>

ScheduleInit ==
    /\ SchedulerInit
    /\ offered = Waiting /\ blocks = 0
    /\ confirmed = {} /\ refused = 0 /\ rests = 0

Ask(max) ==
    /\ offered = Waiting /\ blocks < MaxBlocks
    /\ \E length \in {0, 1, 2, 4} :
          /\ Select(max, length)
          /\ offered' = length
          /\ rests' = IF max > 0 /\ length = 0 THEN Min({rests + 1, 2}) ELSE rests
    /\ UNCHANGED <<blocks, confirmed, refused>>

\* An empty proposal reports zeros; another reports some accepted prefix.
ReportAccepted(accepted, cost) ==
    /\ offered # Waiting /\ accepted <= offered
    /\ offered = 0 => cost = <<0, 0>>
    /\ Observe(Feedback(offered, accepted, cost[1], cost[2]), TRUE)
    /\ offered' = Waiting
    /\ blocks' = blocks + 1
    /\ confirmed' = confirmed \cup
                      (IF offered > 0 /\ accepted = offered THEN {offered} ELSE {})
    /\ refused' = IF offered = 0 THEN refused
                  ELSE IF accepted < offered THEN offered ELSE 0
    /\ rests' = IF offered = 0 THEN rests ELSE 0

ScheduleNext ==
        \/ \E max \in Requests : Ask(max)
        \/ \E accepted \in 0..4, cost \in ReportCosts \cup {<<0, 0>>} :
              ReportAccepted(accepted, cost)

ScheduleSpec == ScheduleInit /\ [][ScheduleNext]_scheduleVars

----------------------------------------------------------------------------
\* Counters, rung, cap, flag and the caller's position have their types.
TypeOK ==
    /\ SchedulerType
    /\ offered \in {0, 1, 2, 4, Waiting}
    /\ blocks \in 0..MaxBlocks
    /\ confirmed \subseteq {1, 2, 4}
    /\ refused \in {0, 1, 2, 4} /\ rests \in 0..2

\* The adaptive ladder: a length is offered only once a whole proposal of the
\* next smaller length was accepted; after a rejected proposal of two or four
\* tokens the next ones are shorter until one is accepted whole, and a rejected
\* one of a single token costs exactly one ordinary step, whatever the survival
\* estimate says and whatever empty requests come in between.
LadderDiscipline ==
    config.policy = "adaptive" =>
        /\ offered \in {2, 4} => Ladder[RungOf(offered) - 1] \in confirmed
        /\ refused > 1 /\ offered # Waiting => offered < refused
        /\ refused = 1 => rests <= 1 /\ (offered = 1 => rests = 1)

\* What the scheduling design says of rejection: it may suspend drafting for
\* a step but not end it, so from every state a request of full length either
\* gets a proposal or changes the state for the next request.
DraftingIsNeverDisabled ==
    config.policy = "adaptive" /\ offered = Waiting =>
        \/ Choice(scheduler, config.maximum) > 0
        \/ AfterSelect(scheduler, config.maximum) # scheduler
============================================================================
