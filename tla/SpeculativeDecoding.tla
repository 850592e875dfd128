------------------------ MODULE SpeculativeDecoding ------------------------
(***************************************************************************)
(* generate_speculative: the target model verifies the proposals of a      *)
(* draft provider and commits the prefix it agrees with plus one token of  *)
(* its own, either token by token or as one expert-major block that        *)
(* evaluates every position and then keeps the state of the last committed *)
(* one.                                                                    *)
(*                                                                         *)
(* A model state is the token history it was fed, a model a function from  *)
(* histories to the greedy next token.  The function is single threaded;   *)
(* the steps below are the places where it can fail.                       *)
(***************************************************************************)
EXTENDS AuroraProvider

CONSTANTS
    Models,         \* the target models: functions from histories to tokens
    Counts,         \* tokens asked for
    BlockSize,      \* the largest proposal the engine asks for
    Verifications,  \* subset of {"token_major", "expert_major"}
    Costs,          \* pairs <<payload loads, assignments>> of a block
    BadToken,       \* a token outside the vocabulary
    MaxFaults       \* bound on the model and provider failures of a run

\* A model answers every history of a call with a token of the vocabulary.
ASSUME SpeculativeAssumption ==
    /\ Counts \subseteq Nat /\ BlockSize \in Nat \ {0} /\ MaxFaults \in Nat
    /\ Kinds \subseteq {"scripted", "replay", "persistent"}
    /\ Verifications \subseteq {"token_major", "expert_major"}
    /\ Costs \subseteq {c \in Nat \X Nat : c[1] <= c[2]}
    /\ BadToken \notin Tokens
    /\ \A target \in Models, n \in Counts : \A more \in SeqOf(Tokens, n) :
          target[Prompt \o more] \in Tokens

VARIABLES
    model, count, mode, \* fixed by the call
    fed,                \* what the target's recurrent state was fed
    text,               \* result.token_ids
    proposal,           \* [anchor, candidates]
    verdict,            \* [accepted, committed, done, loads, assigned]
    status,
    faults              \* failures so far

engineVars == <<model, count, mode, fed, text, proposal, verdict, status, faults>>
vars == <<providerVars, engineVars>>

NoProposal == [anchor |-> BadToken, candidates |-> <<>>]
NoVerdict == [accepted |-> 0, committed |-> <<>>, done |-> FALSE,
              loads |-> 0, assigned |-> 0]

Init ==
    /\ ProviderInit
    /\ model \in Models /\ count \in Counts /\ mode \in Verifications
    /\ fed = <<>> /\ text = <<>>
    /\ proposal = NoProposal /\ verdict = NoVerdict
    /\ status = "prefill" /\ faults = 0

----------------------------------------------------------------------------
\* The call

MaxDraft == Min({BlockSize, count - Len(text) - 1})

Asking == status = "propose" /\ Len(text) < count

\* Something below returns an error: so does the call.
FailCall == status' = "failed" /\ UNCHANGED <<model, count, mode, fed, text, proposal, verdict>>

Fault == faults < MaxFaults /\ faults' = faults + 1

Prefill ==
    /\ status = "prefill"
    /\ fed' = Prompt
    /\ text' = IF count = 0 THEN <<>> ELSE <<model[Prompt]>>
    /\ status' = "propose"
    /\ UNCHANGED <<providerVars, model, count, mode, proposal, verdict, faults>>

\* Any forward of the target may throw.
TargetThrows ==
    /\ status \in {"prefill", "verify"}
    /\ Fault /\ FailCall
    /\ UNCHANGED providerVars

Finish ==
    /\ status = "propose" /\ Len(text) >= count
    /\ status' = "done"
    /\ UNCHANGED <<providerVars, model, count, mode, fed, text, proposal, verdict, faults>>

----------------------------------------------------------------------------
\* draft_provider.propose

TakeProposal(anchor, candidates) ==
    /\ proposal' = [anchor |-> anchor, candidates |-> candidates]
    /\ verdict' = NoVerdict
    /\ status' = IF anchor = text[Len(text)] THEN "verify" ELSE "failed"
    /\ UNCHANGED <<model, count, mode, fed, text, faults>>

ChooseLength ==
    /\ Asking /\ provider.kind # "scripted"
    /\ Choose(text, MaxDraft)
    /\ UNCHANGED engineVars

OpenDraft ==
    /\ Asking /\ OpenCursor(text)
    /\ UNCHANGED engineVars

Draft ==
    /\ Asking /\ provider.kind # "scripted"
    /\ provider.chosen # NotChosen
    /\ \E candidates \in [1..provider.chosen -> Tokens] :
          Generate(text, candidates) /\ TakeProposal(text[Len(text)], candidates)

\* The script holds what its author wrote: the wrong anchor, too many tokens
\* or tokens outside the vocabulary.
FollowScript ==
    /\ Asking /\ provider.kind = "scripted"
    /\ \E anchor \in Tokens,
          candidates \in SeqOf(Tokens \cup {BadToken}, MaxDraft + 1) :
          TakeProposal(anchor, candidates)
    /\ UNCHANGED providerVars

\* The provider returns an error: its model throws, its script is exhausted
\* or it refuses a request that is out of step.
DraftFails ==
    /\ Asking
    /\ \/ /\ Fault
          /\ \/ provider.kind = "scripted" /\ UNCHANGED providerVars
             \/ OpenCursorFails
             \/ GenerateFails
       \/ /\ provider.kind # "scripted" /\ ProposeOutOfStep(text)
          /\ UNCHANGED faults
    /\ FailCall

----------------------------------------------------------------------------
\* verify_greedy_draft and verify_greedy_target_block

Candidates == proposal.candidates

ValidProposal ==
    /\ Len(Candidates) <= MaxDraft
    /\ \A i \in 1..Len(Candidates) : Candidates[i] \in Tokens

RejectProposal ==
    /\ status = "verify" /\ ~ValidProposal
    /\ FailCall /\ UNCHANGED <<providerVars, faults>>

\* The token the target is fed at the next position of a block.
Input(i) == IF i = 1 THEN proposal.anchor ELSE Candidates[i - 1]

\* One target step of the token by token verification.  A candidate that
\* differs ends the block with the target's token, and so does the step after
\* the last candidate.
VerifyToken ==
    /\ status = "verify" /\ mode = "token_major" /\ ValidProposal
    /\ LET i == verdict.accepted + 1
           history == Append(fed, Input(i))
           target == model[history]
           agrees == i <= Len(Candidates) /\ Candidates[i] = target
       IN  /\ fed' = history
           /\ verdict' = [verdict EXCEPT
                             !.committed = Append(@, target),
                             !.accepted = IF agrees THEN i ELSE @,
                             !.done = ~agrees]
           /\ status' = IF agrees THEN "verify" ELSE "update"
    /\ UNCHANGED <<providerVars, model, count, mode, text, proposal, faults>>

\* The block path feeds every input, reads every target token and keeps the
\* state after the last committed position.
BlockInputs == <<proposal.anchor>> \o Candidates

BlockTargets ==
    [i \in 1..Len(BlockInputs) |-> model[fed \o SubSeq(BlockInputs, 1, i)]]

AgreedAnywhere ==
    Cardinality({i \in 1..Len(Candidates) : Candidates[i] = BlockTargets[i]})

AgreedPrefix ==
    Max({k \in 0..Len(Candidates) :
            \A i \in 1..k : Candidates[i] = BlockTargets[i]})

VerifyBlockKeepsAll ==
    /\ status = "verify" /\ mode = "expert_major" /\ ValidProposal
    /\ LET k == AgreedPrefix IN
       \E cost \in Costs :
         /\ verdict' = [accepted |-> k,
                        committed |-> Append(SubSeq(Candidates, 1, k), BlockTargets[k + 1]),
                        done |-> TRUE, loads |-> cost[1], assigned |-> cost[2]]
         /\ fed' = fed \o BlockInputs
    /\ status' = "update"
    /\ UNCHANGED <<providerVars, model, count, mode, text, proposal, faults>>

VerifyBlockNoBonus ==
    /\ status = "verify" /\ mode = "expert_major" /\ ValidProposal
    /\ LET k == AgreedPrefix IN
       \E cost \in Costs :
         /\ verdict' = [accepted |-> k,
                        committed |-> SubSeq(Candidates, 1, k),
                        done |-> TRUE, loads |-> cost[1], assigned |-> cost[2]]
         /\ fed' = fed \o SubSeq(BlockInputs, 1, k)
    /\ status' = "update"
    /\ UNCHANGED <<providerVars, model, count, mode, text, proposal, faults>>

VerifyBlock ==
    /\ status = "verify" /\ mode = "expert_major" /\ ValidProposal
    /\ LET k == AgreedPrefix IN
       \E cost \in Costs :
         /\ verdict' = [accepted |-> k,
                        committed |-> Append(SubSeq(Candidates, 1, k), BlockTargets[k + 1]),
                        done |-> TRUE, loads |-> cost[1], assigned |-> cost[2]]
         /\ fed' = fed \o SubSeq(BlockInputs, 1, k + 1)
    /\ status' = "update"
    /\ UNCHANGED <<providerVars, model, count, mode, text, proposal, faults>>

----------------------------------------------------------------------------
\* draft_provider.update and the commit of the block

\* A block of the anchor alone proposes nothing, and the scheduler takes a
\* cost only with a proposal: its report is refused.
Verification ==
    [anchor |-> proposal.anchor, proposed |-> Len(Candidates),
     accepted |-> verdict.accepted, committed |-> verdict.committed,
     all |-> verdict.accepted = Len(Candidates),
     loads |-> verdict.loads, assigned |-> verdict.assigned]

Report ==
    \/ provider.kind = "scripted" /\ UNCHANGED <<providerVars, faults>>
    \/ /\ provider.kind # "scripted"
       /\ \/ Update(Verification) /\ UNCHANGED faults
          \/ UpdateRefused(Verification) /\ UNCHANGED faults
          \/ UpdateFails(Verification) /\ Fault

CommitBlock ==
    /\ status = "update"
    /\ Report
    /\ text' = text \o verdict.committed
    /\ proposal' = NoProposal /\ verdict' = NoVerdict
    /\ status' = "propose"
    /\ UNCHANGED <<model, count, mode, fed>>

----------------------------------------------------------------------------
Next == \/ Prefill \/ TargetThrows \/ Finish
        \/ ChooseLength \/ OpenDraft \/ Draft \/ FollowScript \/ DraftFails
        \/ RejectProposal \/ VerifyToken \/ VerifyBlock \/ CommitBlock

Spec == Init /\ [][Next]_vars

\* One thread runs the call to its end.
FairSpec == Spec /\ WF_vars(Next)

----------------------------------------------------------------------------
\* Speculation changes how the text is computed and never what it is: with
\* any provider and either verification the text grows by the target's greedy
\* tokens only, never past the length asked for, and done means all of it.
Abstract == INSTANCE GreedyText WITH
    status <- IF status \in {"done", "failed"} THEN status ELSE "running"

ImplementsGreedyText == Abstract!Spec

\* Before every request the target's recurrent state has been fed the prompt
\* and the text but its last token, which is the next anchor: no rejected
\* candidate stays in it and no accepted one is missing.
TargetFollowsText ==
    status = "propose" /\ text # <<>> =>
        fed = Prompt \o SubSeq(text, 1, Len(text) - 1)

\* Engine and AURORA provider stay in step: between proposals an unbroken
\* provider expects the engine's text and the persistent draft state has been
\* fed the prompt and that whole text; and while no model failed, no feedback
\* is refused and the call does not fail, when verification is token by token
\* or the lengths are fixed.
DraftFollowsText ==
    provider.kind # "scripted" =>
        /\ status = "propose" /\ ~provider.broken =>
              /\ provider.initialized => provider.expected = text
              /\ cursor.life = "idle" =>
                    cursor.kda = Prompt \o text /\ cursor.mla = Prompt \o text
        /\ faults = 0 /\ mode = "token_major" => ~provider.broken
        /\ faults = 0 /\ (mode = "token_major" \/ config.policy = "fixed") => status # "failed"

\* What the scheduling design says of a step without a proposal: its feedback
\* is a no-op, so a call in which no model failed does not fail, whatever the
\* policy and the verification.
EmptyProposalIsHarmless ==
    faults = 0 /\ provider.kind # "scripted" => status # "failed"

\* Every call returns: rejection, an empty choice and a failure all lead on.
CallReturns == <>(status \in {"done", "failed"})
============================================================================
