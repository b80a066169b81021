----------------------------- MODULE MCDcgAdmit -----------------------------
(* Writes to one resource: a low and a high fence, and a trace used twice. *)
EXTENDS DcgAdmit, TLC

CONSTANTS p1, p2, git, t1, t2, a, b

MCProcesses == {p1, p2}
Write(t, f, kind, body) ==
  [resource |-> git, trace |-> t, fence |-> f, kind |-> kind, body |-> body]
MCRequests ==
  {Write(t1, 1, "TASK", a), Write(t2, 2, "TASK", a), Write(t1, 3, "TASK", b), Write(t2, 1, "recipe.execution", a)}

Allow(starts, failures, crashes, notes, toggles) ==
  [starts |-> starts, failures |-> failures, crashes |-> crashes, notes |-> notes, toggles |-> toggles]
MCBound == Allow(3, 1, 1, 2, 2)
MCNoFailures == Allow(3, 0, 0, 2, 0)
MCOneFailure == Allow(3, 1, 0, 2, 0)

MCSymmetry == Permutations(MCProcesses)
============================================================================
