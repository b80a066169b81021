------------------------------ MODULE MCSpine ------------------------------
(* A task with a run, another request for its key, a plain task of another key,
   and one note that may stand before, between or behind them. *)
EXTENDS Spine, TLC

CONSTANTS p1, p2, k1, k2, body1, body2, early, late

MCProcesses == {p1, p2}
MCRequests == {[key |-> k1, body |-> body1, verify |-> TRUE],
               [key |-> k1, body |-> body2, verify |-> FALSE],
               [key |-> k2, body |-> body1, verify |-> FALSE]}
Perception == [kind |-> "perceive.snapshot", about |-> "fleet"]
MCNotes == {Perception}
MCTimes == {early, late}

(* No order of clock readings matters: event ids are only compared. *)
MCSymmetry == Permutations(MCProcesses) \cup Permutations(MCTimes)

(* Bound: what follows a second note is not explored. *)
OneNote == Cardinality({i \in DOMAIN tx.log : tx.log[i].kind = Perception.kind}) <= 1
============================================================================
