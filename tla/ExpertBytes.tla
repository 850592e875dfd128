----------------------------- MODULE ExpertBytes -----------------------------
(***************************************************************************)
(* How many bytes a set of experts is charged.  An expert is charged the   *)
(* sum of its six vector sizes (charged_bytes in host_expert_store.cpp),   *)
(* the same number each time it is loaded.  The total of a set is written  *)
(* as the cardinality of the bytes the set occupies, one pair <<k, i>> per *)
(* byte i of expert k, so that it needs no recursion over the set.         *)
(***************************************************************************)
EXTENDS Naturals, FiniteSets

CONSTANTS
  Keys,      \* the (layer, expert) keys of the model
  Bytes,     \* Bytes[k]: the size charged for the payload of k
  MaxBytes   \* the largest of these sizes

\* valid_projection rejects empty and half-filled projections, so a payload
\* that was accepted never charges zero bytes.
ASSUME BytesAssumption ==
  /\ IsFiniteSet(Keys)
  /\ MaxBytes \in Nat
  /\ Bytes \in [Keys -> 1..MaxBytes]

\* The bytes that the payloads of S occupy.
Occupied(S) ==
  {b \in Keys \X (1..MaxBytes) : b[1] \in S /\ b[2] <= Bytes[b[1]]}

\* The total that the payloads of S are charged.
Charged(S) == Cardinality(Occupied(S))
=============================================================================
