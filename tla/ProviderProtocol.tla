-------------------------- MODULE ProviderProtocol --------------------------
(***************************************************************************)
(* An AURORA provider under an arbitrary caller: one that may show a text  *)
(* the provider does not expect, ask twice, update twice, or report what   *)
(* was never proposed.  generate_speculative is one such caller.           *)
(***************************************************************************)
EXTENDS AuroraProvider

CONSTANTS
    ProviderRequests,  \* max_draft_tokens of the requests
    MaxText,           \* bound on the generated text of a request
    MaxThrows          \* bound on the draft model's failures

VARIABLES
    shown,    \* the text of the request being served
    told,     \* history: the first text shown and all that was reported since
    throws    \* failures of the draft model so far

protocolVars == <<providerVars, shown, told, throws>>

NoText == <<>>
Texts == SeqOf(Tokens, MaxText)

ProtocolInit ==
    /\ ProviderInit
    /\ shown = NoText /\ told = NoText /\ throws = 0

Request ==
    /\ provider.chosen = NotChosen
    /\ \E text \in Texts :
         \/ /\ \E max \in ProviderRequests : Choose(text, max)
            /\ shown' = text
         \/ ProposeOutOfStep(text) /\ UNCHANGED shown
    /\ UNCHANGED <<told, throws>>

Throw == throws < MaxThrows /\ throws' = throws + 1

Serve ==
    /\ provider.chosen # NotChosen
    /\ \/ /\ OpenCursor(shown) /\ UNCHANGED <<shown, told, throws>>
       \/ /\ \E candidates \in [1..provider.chosen -> Tokens] : Generate(shown, candidates)
          /\ told' = IF provider.initialized THEN told ELSE shown
          /\ UNCHANGED <<shown, throws>>
       \/ /\ (OpenCursorFails \/ GenerateFails) /\ Throw
          /\ UNCHANGED <<shown, told>>

\* What the target makes of the pending proposal: a prefix is accepted and one
\* token of its own added.  Expert-major steps also cost loads without a draft.
Honest(accepted, token, costs) ==
    [anchor    |-> provider.anchor,
     proposed  |-> Len(provider.candidates),
     accepted  |-> accepted,
     committed |-> Append(SubSeq(provider.candidates, 1, accepted), token),
     all       |-> accepted = Len(provider.candidates),
     loads     |-> costs[1],
     assigned  |-> costs[2]]

\* The same report with one thing in it wrong.
Twists(v) ==
    {[v EXCEPT !.proposed = @ + 1], [v EXCEPT !.accepted = @ + 1], [v EXCEPT !.all = ~@],
     [v EXCEPT !.committed = Append(@, v.anchor)]}
    \cup {[v EXCEPT !.anchor = t] : t \in Tokens \ {v.anchor}}
    \cup {[v EXCEPT !.committed[1] = t] : t \in Tokens \ {v.committed[1]}}

Reports ==
    LET honest == {Honest(accepted, token, costs) :
                      accepted \in 0..Len(provider.candidates), token \in Tokens,
                      costs \in {<<0, 0>>, <<1, 1>>}}
    IN  honest \cup UNION {Twists(v) : v \in honest}

UpdateWith(v) ==
    /\ provider.chosen = NotChosen
    /\ Len(provider.expected) + Len(v.committed) <= MaxText
    /\ \/ Update(v) /\ told' = told \o v.committed /\ UNCHANGED throws
       \/ UpdateRefused(v) /\ UNCHANGED <<told, throws>>
       \/ UpdateFails(v) /\ Throw /\ UNCHANGED told
    /\ UNCHANGED shown

ProtocolNext == Request \/ Serve \/ \E v \in Reports : UpdateWith(v)

ProtocolSpec == ProtocolInit /\ [][ProtocolNext]_protocolVars

----------------------------------------------------------------------------
\* While the cursor waits for a commit, every checkpoint describes one moment
\* for both kinds of state: cropping the MLA cache to its mark leaves the tokens
\* its KDA copy was fed, the committed text and a prefix of the proposal.
CheckpointsAgree ==
    LET fed(i) == Prompt \o told \o SubSeq(cursor.candidates, 1, i)
    IN  cursor.life = "pending" /\ provider.initialized =>
            /\ cursor.base = Mark(fed(0), fed(0))
            /\ \A i \in DOMAIN cursor.marks :
                  /\ cursor.marks[i].kda = fed(i)
                  /\ cursor.marks[i].length = Len(fed(i)) /\ IsPrefix(fed(i), cursor.mla)

\* Whatever the caller does, an unbroken provider's three parts stay in step:
\* it expects the text it was told, it waits for a report exactly as its
\* cursor does, and the draft state is the one of the expected text; and the
\* checkpoints a commit may go back to mean one moment each.
PartsAgree ==
    /\ ~provider.broken =>
         /\ provider.initialized => provider.expected = told
         /\ provider.cursorPending <=> cursor.life = "pending"
         /\ provider.cursorPending => provider.pending
         /\ cursor.life = "pending" => cursor.candidates = provider.candidates
         /\ cursor.life = "idle" /\ provider.initialized =>
              cursor.kda = Prompt \o provider.expected /\ cursor.mla = cursor.kda
    /\ CheckpointsAgree
=============================================================================
