-------------------------------- MODULE Width --------------------------------
(***************************************************************************)
(* compute_width: the least of up to four ceilings, and which of them it   *)
(* is.  A ceiling is a u8; one that is not given is NoCeiling.             *)
(***************************************************************************)
EXTENDS Naturals, Sequences, SequencesExt

NoCeiling == 256
Labels == {"semaphore", "model_tier", "budget_soft", "antichain"}

\* The semaphore is always given.
Ceilings == {c \in [Labels -> 0..NoCeiling] : c["semaphore"] # NoCeiling}

\* One turn of the loop.
Tighten(best, value, label) ==
  IF value = NoCeiling \/ value > best.width THEN best
  ELSE [width |-> value, bound_by |-> IF value < best.width THEN <<label>> ELSE Append(best.bound_by, label)]

ComputeWidth(c) ==
  LET hard == [width |-> c["semaphore"], bound_by |-> <<"semaphore">>]
      tiered == Tighten(hard, c["model_tier"], "model_tier")
      afforded == Tighten(tiered, c["budget_soft"], "budget_soft")
  IN Tighten(afforded, c["antichain"], "antichain")

\* The width is the least ceiling, and bound_by names exactly those that are as low.
LeastCeiling(c, result) ==
  /\ \A label \in Labels : result.width <= c[label]
  /\ \A label \in Labels : label \in ToSet(result.bound_by) <=> c[label] = result.width
  /\ result.bound_by # <<>>
==============================================================================
