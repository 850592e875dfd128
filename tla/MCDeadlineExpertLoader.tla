----------------------- MODULE MCDeadlineExpertLoader -----------------------
(***************************************************************************)
(* A small instance of the deadline loader: two clients with two loads, of *)
(* which the second must start before the first, on two workers.           *)
(***************************************************************************)
EXTENDS DeadlineExpertLoader, TLC

CONSTANTS k1, k2, w1, w2, c1, c2

TwoTickets == {k1, k2}
MCLatestStart == [k \in Tickets |-> IF k = k2 THEN 1 ELSE 2]
TwoWorkers == {w1, w2}
TwoClients == {c1, c2}
=============================================================================
