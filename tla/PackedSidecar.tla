---------------------------- MODULE PackedSidecar ----------------------------
(***************************************************************************)
(* What a sidecar of GLM5XPackedExpertCache holds: the three projections   *)
(* of an expert in one precision, each as packed values and quantisation   *)
(* parameters, at offsets its metadata names.                              *)
(***************************************************************************)
EXTENDS Naturals, Sequences, SequencesExt, Folds

Precisions == {"int4", "fp8", "mxfp4", "nvfp4", "nvfp4_gate_up"}

\* How a projection is represented; dense is a floating point matrix.
Kinds == {"int4", "fp8", "nvfp4", "dense"}

\* Gate, up and down projection.
Experts == [1..3 -> Kinds]

\* _path: the suffix keeps the precisions of one expert apart.
Suffix == [int4 |-> "pi4", fp8 |-> "pf8", mxfp4 |-> "pm4", nvfp4 |-> "pn4",
           nvfp4_gate_up |-> "pgu"]

SidecarPath(expert, precision) == <<expert, Suffix[precision]>>

\* The checks put makes of the whole expert before it encodes a projection.
PutAccepts(expert, precision) ==
    CASE precision \in {"int4", "fp8", "nvfp4"} -> \A i \in 1..3 : expert[i] = precision
      [] precision = "nvfp4_gate_up" ->
            expert[1] = "nvfp4" /\ expert[2] = "nvfp4" /\ expert[3] = "dense"
      [] OTHER -> TRUE

\* _weight_payload of one projection: the stored form and the parts of its
\* payload, or Refused.  A bf16 matrix and a matrix in mxfp4 are both dense
\* when they come back.
Refused == [form |-> "refused", parts |-> <<0, 0>>]

Encoded(kind, precision) ==
    CASE precision = "mxfp4" /\ kind = "dense" -> [form |-> "mxfp4", parts |-> <<4, 1>>]
      [] precision = "nvfp4_gate_up" /\ kind = "dense" ->
            [form |-> "bf16", parts |-> <<16, 0>>]
      [] kind = "nvfp4" /\ precision \in {"nvfp4", "nvfp4_gate_up"} ->
            [form |-> "nvfp4", parts |-> <<4, 2>>]
      [] kind = "int4" /\ precision = "int4" -> [form |-> "int4", parts |-> <<4, 2>>]
      [] kind = "fp8" /\ precision = "fp8" -> [form |-> "fp8", parts |-> <<8, 1>>]
      [] OTHER -> Refused

Stored(expert, precision) == [i \in 1..3 |-> Encoded(expert[i], precision)]

CanStore(expert, precision) ==
    PutAccepts(expert, precision) /\ \A i \in 1..3 : Stored(expert, precision)[i] # Refused

\* _decode_role: the representation a stored projection comes back in.
Decoded(stored, precision) ==
    CASE precision = "mxfp4" \/ stored.form = "bf16" -> "dense"
      [] OTHER -> stored.form

\* The parts of the payload in the order put appends them, and their offsets.
Parts(stored) == stored[1].parts \o stored[2].parts \o stored[3].parts

Offset(stored, i) == FoldLeft(LAMBDA x, y : x + y, 0, SubSeq(Parts(stored), 1, i - 1))

\* _pinned_sections: pinned copies by offset and size; empty parts have none.
PinnedSections(stored) ==
    {<<Offset(stored, i), Parts(stored)[i]>> : i \in {j \in 1..6 : Parts(stored)[j] > 0}}

\* The sections _decode_role asks for: bf16 has no parameters, and mxfp4 is
\* decoded on the host from the payload itself.
Transferred(stored, precision) ==
    IF precision = "mxfp4" THEN {}
    ELSE {<<Offset(stored, i), Parts(stored)[i]>> :
             i \in {j \in 1..6 : j % 2 = 1 \/ stored[(j + 1) \div 2].form # "bf16"}}

----------------------------------------------------------------------------
\* What put accepts comes back in the representation it had, read from pinned
\* sections that exist and do not overlap; the precisions of an expert never
\* share a file.
ASSUME SidecarRoundTrip ==
    /\ \A expert \in Experts, precision \in Precisions : CanStore(expert, precision) =>
          LET stored == Stored(expert, precision)  sections == PinnedSections(stored) IN
          /\ \A i \in 1..3 : Decoded(stored[i], precision) = expert[i]
          /\ Transferred(stored, precision) \subseteq sections
          /\ \A a, b \in sections : a[1] < b[1] => a[1] + a[2] <= b[1]
    /\ \A p, q \in Precisions : SidecarPath(1, p) = SidecarPath(1, q) => p = q
=============================================================================
