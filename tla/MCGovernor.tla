----------------------------- MODULE MCGovernor -----------------------------
(* Governor on three threads, two permits and a failure threshold of two. *)
EXTENDS Governor, TLC

CONSTANTS t1, t2, t3, agent

MCThreads == {t1, t2, t3}
MCAgents == {agent}
\* compute_width against its reference, on the ceilings where it may go wrong.
Fan == INSTANCE Width
MCCeilings == {c \in [Fan!Labels -> {0, 1, 2, 255, 256}] : c \in Fan!Ceilings}
ASSUME WidthIsLeast == \A c \in MCCeilings : Fan!LeastCeiling(c, Fan!ComputeWidth(c))

MCSymmetry == Permutations(MCThreads)
============================================================================
