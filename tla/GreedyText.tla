----------------------------- MODULE GreedyText -----------------------------
(***************************************************************************)
(* What every generation promises: a text that grows by the target model's *)
(* own greedy tokens, however they were computed, until it has the length  *)
(* asked for, or an error instead of a text.                               *)
(***************************************************************************)
EXTENDS Naturals, Sequences

CONSTANTS Tokens, Prompt, Counts, Models

VARIABLES model,   \* the target: the greedy next token of a history
          count,   \* tokens asked for
          text,    \* tokens generated so far
          status   \* "running", "done" or "failed"

vars == <<model, count, text, status>>

\* more continues known exactly as the target would.
Greedy(known, more) ==
    \A i \in 1..Len(more) :
        more[i] = model[Prompt \o known \o SubSeq(more, 1, i - 1)]

Init == /\ model \in Models /\ count \in Counts
        /\ text = <<>> /\ status = "running"

Extend ==
    /\ status = "running"
    /\ \E n \in 1..(count - Len(text)) : \E more \in [1..n -> Tokens] :
          Greedy(text, more) /\ text' = text \o more
    /\ UNCHANGED <<model, count, status>>

Finish ==
    /\ status = "running" /\ Len(text) = count
    /\ status' = "done"
    /\ UNCHANGED <<model, count, text>>

Fail ==
    /\ status = "running"
    /\ status' = "failed"
    /\ UNCHANGED <<model, count, text>>

Next == Extend \/ Finish \/ Fail

Spec == Init /\ [][Next]_vars
=============================================================================
