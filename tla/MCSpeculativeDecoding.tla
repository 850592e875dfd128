----------------------- MODULE MCSpeculativeDecoding -----------------------
\* A one token prompt, two tokens, and target models whose next token depends
\* on the parity of the history's length and on its last token: a state that
\* is too long, too short or ends in the wrong token answers differently.  The
\* first token is always the other one than the prompt's.
EXTENDS SpeculativeDecoding

Half == <<1, 2>>
NineTenths == <<9, 10>>
TokenSet == {"a", "b"}
OnePrompt == <<"a">>
Histories == UNION {[1..n -> TokenSet] : n \in 1..8}
SomeModels == {[h \in Histories |-> t[Len(h) % 2][h[Len(h)]]] :
                 t \in {u \in [{0, 1} -> [TokenSet -> TokenSet]] : u[1]["a"] = "b"}}
TwoModels == {[h \in Histories |-> t[h[Len(h)]]] :
                 t \in {[c \in TokenSet |-> "a"],
                       [c \in TokenSet |-> IF c = "a" THEN "b" ELSE "a"]}}
BlockCosts == {<<1, 2>>, <<2, 2>>}
============================================================================
