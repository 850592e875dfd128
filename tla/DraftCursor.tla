---------------------------- MODULE DraftCursor ----------------------------
(***************************************************************************)
(* IncrementalDraftCursor: the draft model's recurrent state, kept across  *)
(* proposals instead of being replayed from the prompt.                    *)
(*                                                                         *)
(* A layer's state is what was fed to it.  The KDA layers have a fixed     *)
(* size state that a checkpoint copies; the MLA layer appends one position *)
(* per token, so a checkpoint only marks its length and a rollback crops   *)
(* it.  kda and mla are the token histories the two states stand for; the  *)
(* logits are a function of them and every rollback is followed by a       *)
(* forward that replaces them, so they are left out.                       *)
(*                                                                         *)
(* A forward that throws may have advanced some layers and not others.     *)
(***************************************************************************)
EXTENDS Integers, Sequences, SequencesExt

CONSTANT Tokens

VARIABLE cursor

NoMark == [kda |-> <<>>, length |-> 0]

\* life: the pending and failed flags, which exclude each other.
NoCursor == [life |-> "none", kda |-> <<>>, mla |-> <<>>,
             base |-> NoMark, marks |-> <<>>, candidates |-> <<>>]

CursorInit == cursor = NoCursor

Mark(kda, mla) == [kda |-> kda, length |-> Len(mla)]

\* What is left of a state s when the forward of t throws inside a layer.
Torn(s, t) == {s, Append(s, t)}

Failed(kda, mla) ==
    [cursor EXCEPT !.life = "failed", !.kda = kda, !.mla = mla]

----------------------------------------------------------------------------
\* create(context): the whole context is prefilled.
Create(context) ==
    /\ cursor.life = "none" /\ context # <<>>
    /\ cursor' = [NoCursor EXCEPT !.life = "idle", !.kda = context, !.mla = context]

\* A context that is empty, or a prefill that throws, yields no cursor.
CreateFails == cursor.life = "none" /\ UNCHANGED cursor

\* propose(n) feeds all candidates but the last: the base is checkpointed
\* before the first forward, and each forward is checkpointed after it.
MarksOf(candidates) ==
    [i \in 1..(Len(candidates) - 1) |->
        LET fed == SubSeq(candidates, 1, i)
        IN  Mark(cursor.kda \o fed, cursor.mla \o fed)]

Fed(candidates) == SubSeq(candidates, 1, Len(candidates) - 1)

Proposed(candidates) ==
    [cursor EXCEPT !.life = "pending",
                   !.base = Mark(cursor.kda, cursor.mla),
                   !.marks = MarksOf(candidates),
                   !.kda = @ \o Fed(candidates),
                   !.mla = @ \o Fed(candidates),
                   !.candidates = candidates]

CanPropose == cursor.life = "idle"

Propose(candidates) == CanPropose /\ cursor' = Proposed(candidates)

\* A forward of the proposal throws: fed tokens went in, t went in halfway.
ProposeThrows(n) ==
    /\ CanPropose /\ n >= 2
    /\ \E fed \in SeqOf(Tokens, n - 2), t \in Tokens :
         \E kda \in Torn(cursor.kda \o fed, t), mla \in Torn(cursor.mla \o fed, t) :
            cursor' = Failed(kda, mla)

\* Called out of turn: an error is returned and nothing changes.
ProposeRefused == ~CanPropose /\ cursor.life # "none" /\ UNCHANGED cursor

----------------------------------------------------------------------------
\* commit(accepted_prefix, committed_tokens)

ValidCommit(accepted, committed) ==
    /\ cursor.life = "pending"
    /\ accepted <= Len(cursor.candidates)
    /\ Len(committed) = accepted + 1
    /\ \A i \in 1..accepted : committed[i] = cursor.candidates[i]

Rolls(accepted) == accepted + 1 < Len(cursor.candidates)

MarkOf(accepted) == IF accepted = 0 THEN cursor.base ELSE cursor.marks[accepted]

\* The states after a rollback to what the accepted prefix needs.
Kda(accepted) == IF Rolls(accepted) THEN MarkOf(accepted).kda ELSE cursor.kda

MlaUncropped(accepted) == cursor.mla

Mla(accepted) ==
    IF Rolls(accepted) THEN SubSeq(cursor.mla, 1, MarkOf(accepted).length)
    ELSE cursor.mla

\* The forwards that follow: the last candidate if all were accepted (it was
\* proposed but never fed), then the target's own token.
CatchNothing(accepted) == <<>>

Catch(accepted) ==
    IF accepted = Len(cursor.candidates) /\ accepted # 0
    THEN <<cursor.candidates[accepted]>> ELSE <<>>

Committed(accepted, committed) ==
    LET tail == Append(Catch(accepted), committed[accepted + 1])
    IN  [NoCursor EXCEPT !.life = "idle",
                         !.kda = Kda(accepted) \o tail,
                         !.mla = Mla(accepted) \o tail]

\* restore() refuses a checkpoint that is longer than the state.
Restorable(accepted) ==
    Rolls(accepted) => MarkOf(accepted).length <= Len(cursor.mla)

Commit(accepted, committed) ==
    /\ ValidCommit(accepted, committed) /\ Restorable(accepted)
    /\ cursor' = Committed(accepted, committed)

\* A mismatched commit, a checkpoint that does not fit or a commit without a
\* proposal breaks the cursor without touching the model state.
CommitRefused(accepted, committed) ==
    /\ cursor.life # "none"
    /\ ~(ValidCommit(accepted, committed) /\ Restorable(accepted))
    /\ cursor' = Failed(cursor.kda, cursor.mla)

\* One of the catch-up forwards throws after the rollback.
CommitThrows(accepted, committed) ==
    /\ ValidCommit(accepted, committed) /\ Restorable(accepted)
    /\ LET tail == Append(Catch(accepted), committed[accepted + 1])
       IN  \E i \in 1..Len(tail) :
             \E kda \in Torn(Kda(accepted) \o SubSeq(tail, 1, i - 1), tail[i]),
                mla \in Torn(Mla(accepted) \o SubSeq(tail, 1, i - 1), tail[i]) :
                cursor' = Failed(kda, mla)

CursorType ==
    /\ cursor.life \in {"none", "idle", "pending", "failed"}
    /\ \A s \in {cursor.kda, cursor.mla, cursor.candidates} : s \in Seq(Tokens)
    /\ cursor.life = "pending" =>
          \A m \in {cursor.base} \cup {cursor.marks[i] : i \in DOMAIN cursor.marks} :
             m.kda \in Seq(Tokens) /\ m.length \in 1..Len(cursor.mla)
============================================================================
