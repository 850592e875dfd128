--------------------------- MODULE AuroraProvider ---------------------------
(***************************************************************************)
(* The draft providers of AURORA: the replay provider generates every      *)
(* proposal from the whole committed text with a draft session of its own, *)
(* the persistent provider keeps an incremental cursor.  Both alternate    *)
(* propose and update, and refuse to work once the caller's text or their  *)
(* own state went out of step.                                             *)
(*                                                                         *)
(* A propose is up to three steps: Choose a length, OpenCursor when the    *)
(* persistent provider has none yet, and Generate; each can fail on its    *)
(* own and leaves what the earlier ones did.  What the draft model would   *)
(* say is any token: nothing relies on it.                                 *)
(***************************************************************************)
EXTENDS AuroraScheduler, DraftCursor

CONSTANTS
    Prompt,     \* the prompt, nonempty
    Kinds       \* draft providers: "scripted", "replay", "persistent"

ASSUME PromptAssumption == Prompt \in Seq(Tokens) /\ Prompt # <<>>

VARIABLE provider

NotChosen == 99

\* broken: lifecycle_error_; expected: expected_generated_, the generated
\* text the next request must show; chosen: the length select returned.
FreshProvider(kind) ==
    [kind |-> kind, initialized |-> FALSE, expected |-> <<>>, chosen |-> NotChosen,
     pending |-> FALSE, anchor |-> Prompt[1], candidates |-> <<>>,
     cursorPending |-> FALSE, broken |-> FALSE]

ProviderInit ==
    /\ SchedulerInit /\ CursorInit
    /\ provider \in {FreshProvider(kind) : kind \in Kinds}

providerVars == <<config, scheduler, cursor, provider>>

----------------------------------------------------------------------------
\* propose(request): the request carries the generated text, whose last token
\* is the anchor, and the largest length.

InStep(generated) ==
    /\ ~provider.broken /\ ~provider.pending
    /\ generated # <<>>
    /\ provider.initialized => generated = provider.expected

Choose(generated, max) ==
    /\ provider.chosen = NotChosen /\ InStep(generated)
    /\ \E length \in {0, 1, 2, 4} :
          /\ Select(max, length)
          /\ provider' = [provider EXCEPT !.chosen = length]
    /\ UNCHANGED cursor

\* A request out of turn, or for another text, is refused without a trace.
ProposeOutOfStep(generated) ==
    /\ provider.chosen = NotChosen /\ ~InStep(generated)
    /\ UNCHANGED providerVars

\* The persistent provider makes its cursor at the first request that gets a
\* positive length, and from then on asks the cursor even for nothing.
NeedsCursor ==
    provider.kind = "persistent" /\ provider.chosen > 0 /\ cursor.life = "none"

Generating == provider.chosen # NotChosen /\ ~NeedsCursor

UsesCursor == provider.kind = "persistent" /\ cursor.life # "none"

OpenCursor(generated) ==
    /\ provider.chosen # NotChosen /\ NeedsCursor
    /\ Create(Prompt \o generated)
    /\ UNCHANGED <<config, scheduler, provider>>

OpenCursorFails ==
    /\ provider.chosen # NotChosen /\ NeedsCursor
    /\ CreateFails
    /\ provider' = [provider EXCEPT !.chosen = NotChosen]
    /\ UNCHANGED <<config, scheduler>>

Generate(generated, candidates) ==
    /\ Generating /\ Len(candidates) = provider.chosen
    /\ IF UsesCursor THEN Propose(candidates) ELSE UNCHANGED cursor
    /\ provider' = [provider EXCEPT
           !.chosen = NotChosen,
           !.initialized = TRUE,
           !.expected = IF provider.initialized THEN @ ELSE generated,
           !.pending = TRUE,
           !.anchor = generated[Len(generated)],
           !.candidates = candidates,
           !.cursorPending = @ \/ UsesCursor]
    /\ UNCHANGED <<config, scheduler>>

\* The draft model throws.  A replay leaves nothing behind; a cursor that
\* failed can not be asked again.
GenerateFails ==
    /\ Generating
    /\ IF UsesCursor
       THEN /\ ProposeThrows(provider.chosen) \/ ProposeRefused
            /\ provider' = [provider EXCEPT !.chosen = NotChosen, !.broken = TRUE]
       ELSE /\ provider.kind = "replay" /\ provider.chosen > 0
            /\ provider' = [provider EXCEPT !.chosen = NotChosen]
            /\ UNCHANGED cursor
    /\ UNCHANGED <<config, scheduler>>

----------------------------------------------------------------------------
\* update(verification): a verification is [anchor, proposed, accepted,
\* committed, all, loads, assigned].

ValidUpdate(v) ==
    /\ provider.pending /\ v.anchor = provider.anchor
    /\ v.proposed = Len(provider.candidates)
    /\ v.accepted <= v.proposed
    /\ Len(v.committed) = v.accepted + 1
    /\ v.all = (v.accepted = v.proposed)
    /\ \A i \in 1..v.accepted : v.committed[i] = provider.candidates[i]

FeedbackOf(v) == Feedback(v.proposed, v.accepted, v.loads, v.assigned)

Settled == [provider EXCEPT !.pending = FALSE, !.candidates = <<>>,
                            !.cursorPending = FALSE]

Broken == [Settled EXCEPT !.broken = TRUE]

\* The report is taken in: the cursor follows the target, then the scheduler
\* counts, then the expected text grows.
Update(v) ==
    /\ ValidUpdate(v)
    /\ IF provider.cursorPending THEN Commit(v.accepted, v.committed)
       ELSE UNCHANGED cursor
    /\ \E counted \in BOOLEAN :
          /\ Observe(FeedbackOf(v), counted)
          /\ provider' = IF counted
                         THEN [Settled EXCEPT !.expected = @ \o v.committed]
                         ELSE Broken

\* update returns nothing: a report that does not fit or a cursor that can
\* not follow is remembered and shows at the next request.
UpdateRefused(v) ==
    /\ ~ValidUpdate(v)
    /\ provider' = [Broken EXCEPT !.cursorPending = provider.cursorPending]
    /\ UNCHANGED <<config, scheduler, cursor>>

UpdateFails(v) ==
    /\ ValidUpdate(v) /\ provider.cursorPending
    /\ CommitRefused(v.accepted, v.committed) \/ CommitThrows(v.accepted, v.committed)
    /\ provider' = Broken
    /\ UNCHANGED <<config, scheduler>>

ProviderType ==
    /\ SchedulerType /\ CursorType
    /\ provider.expected \in Seq(Tokens) /\ provider.candidates \in Seq(Tokens)
    /\ provider.chosen \in {0, 1, 2, 4, NotChosen}
    /\ \A flag \in {provider.initialized, provider.pending,
                    provider.cursorPending, provider.broken} : flag \in BOOLEAN
=============================================================================
