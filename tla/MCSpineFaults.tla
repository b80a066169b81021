--------------------------- MODULE MCSpineFaults ---------------------------
(* Two processes, a task with a run, a note, and two outages or edits. *)
EXTENDS SpineFaults, TLC

CONSTANTS p1, p2, k1, body1, early

MCProcesses == {p1, p2}
MCRequests == {[key |-> k1, body |-> body1, verify |-> TRUE]}
MCNotes == {[kind |-> "perceive.snapshot", about |-> "fleet"]}
MCTimes == {early}
MCSymmetry == Permutations(MCProcesses)
============================================================================
