---------------------------- MODULE MCPythonTools ----------------------------
(***************************************************************************)
(* Two independent parts of the Python side in one instance: a behaviour   *)
(* is of the packed expert cache or of an ablation tool.                   *)
(*                                                                         *)
(* The cache: three sidecars, one twice as large as the others; no tier    *)
(* holds all of them and only the host tier has room for the large one.    *)
(* The tools: every study, run twice in one directory.                     *)
(***************************************************************************)
EXTENDS PackedExpertCache, PackedSidecar, Ablation, TLC

CONSTANTS p1, p2, big, t1, t2, d1, d2

VARIABLE part

MCPaths == {p1, p2, big}
MCThreads == {t1, t2}
MCDigests == {d1, d2}
MCSize == [p \in MCPaths |-> IF p = big THEN 2 ELSE 1]
Symmetry ==
    Permutations({p1, p2}) \cup Permutations(MCThreads) \cup Permutations(MCDigests)

PartsInit ==
    /\ Init /\ ToolInit
    /\ \/ part = "cache" /\ study.name = "cuda-ffn"
       \/ part = "ablation" /\ usage.shared

CacheStep == part = "cache" /\ Next /\ UNCHANGED <<part, toolVars>>
ToolStep == part = "ablation" /\ ToolNext /\ UNCHANGED <<part, vars>>

PartsNext == CacheStep \/ ToolStep

PartsSpec == PartsInit /\ [][PartsNext]_<<part, vars, toolVars>>
=============================================================================
