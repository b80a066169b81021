----------------------------- MODULE WidthProofs -----------------------------
(* compute_width returns what its documentation says, for all ceilings. *)
EXTENDS Width, TLAPS

\* What the loop has worked out after the ceilings in `done`.
Least(c, width, names, done) ==
  /\ width \in 0..255
  /\ names \in Seq(Labels) /\ names # <<>>
  /\ \A label \in done : width <= c[label]
  /\ \A label \in Labels : label \in ToSet(names) <=> label \in done /\ c[label] = width

LEMMA RangeOfAppend ==
  ASSUME NEW s \in Seq(Labels), NEW label \in Labels
  PROVE  ToSet(Append(s, label)) = ToSet(s) \cup {label}
  <1>1. Len(s) \in Nat /\ DOMAIN s = 1..Len(s) /\ DOMAIN Append(s, label) = 1..(Len(s) + 1)
    OBVIOUS
  <1>2. \A i \in 1..Len(s) : Append(s, label)[i] = s[i]
    OBVIOUS
  <1>3. Append(s, label)[Len(s) + 1] = label
    OBVIOUS
  <1>4. \A x : x \in ToSet(Append(s, label)) <=> \E i \in 1..(Len(s) + 1) : Append(s, label)[i] = x
    BY <1>1 DEF ToSet
  <1>5. \A x : x \in ToSet(s) <=> \E i \in 1..Len(s) : s[i] = x
    BY <1>1 DEF ToSet
  <1>6. 1..(Len(s) + 1) = 1..Len(s) \cup {Len(s) + 1}
    BY <1>1
  <1>7. \A x : (\E i \in 1..(Len(s) + 1) : Append(s, label)[i] = x) <=> (\E i \in 1..Len(s) : s[i] = x) \/ x = label
    <2> SUFFICES ASSUME NEW x
                 PROVE  (\E i \in 1..(Len(s) + 1) : Append(s, label)[i] = x) <=> (\E i \in 1..Len(s) : s[i] = x) \/ x = label
      OBVIOUS
    <2>1. ASSUME NEW i \in 1..(Len(s) + 1), Append(s, label)[i] = x
          PROVE  (\E j \in 1..Len(s) : s[j] = x) \/ x = label
      BY <1>2, <1>3, <1>6, <2>1
    <2>2. ASSUME NEW i \in 1..Len(s), s[i] = x
          PROVE  \E j \in 1..(Len(s) + 1) : Append(s, label)[j] = x
      BY <1>2, <1>6, <2>2
    <2>3. Len(s) + 1 \in 1..(Len(s) + 1)
      BY <1>1
    <2> QED
      BY <1>3, <2>1, <2>2, <2>3
  <1> QED
    BY <1>4, <1>5, <1>7

\* A turn of the loop takes one more ceiling into account.
LEMMA OneTurn ==
  ASSUME NEW c \in [Labels -> 0..256], NEW done \in SUBSET Labels, NEW label \in Labels \ done,
         NEW width, NEW names, Least(c, width, names, done)
  PROVE  \E w, n : /\ Tighten([width |-> width, bound_by |-> names], c[label], label) = [width |-> w, bound_by |-> n]
                   /\ Least(c, w, n, done \cup {label})
  <1> DEFINE best == [width |-> width, bound_by |-> names]
  <1>1. PICK value \in 0..256 : value = c[label]
    OBVIOUS
  <1>2. width \in 0..255 /\ names \in Seq(Labels) /\ names # <<>>
    BY DEF Least
  <1>3. \A l \in Labels : c[l] \in 0..256
    OBVIOUS
  <1>4. best.width = width /\ best.bound_by = names
    OBVIOUS
  <1> HIDE DEF best
  <1>5. CASE value # NoCeiling /\ value < width
    <2>1. ~(value > width)
      BY <1>2, <1>5
    <2>2. Tighten(best, value, label) = [width |-> value, bound_by |-> <<label>>]
      BY <1>4, <1>5, <2>1, Zenon DEF Tighten
    <2>3. ToSet(<<label>>) = {label}
      BY DEF ToSet
    <2>4. value \in 0..255
      BY <1>2, <1>5
    <2>5. <<label>> \in Seq(Labels) /\ <<label>> # <<>>
      OBVIOUS
    <2>6. \A l \in done : width <= c[l]
      BY DEF Least
    <2>7. ASSUME NEW l \in done PROVE value <= c[l] /\ value # c[l]
      <3>1. PICK v \in 0..256 : v = c[l] /\ width <= v
        BY <1>3, <2>6
      <3>2. value <= v /\ value # v
        BY <1>2, <1>5, <3>1
      <3> QED
        BY <3>1, <3>2
    <2>8. value <= c[label]
      BY <1>1
    <2>9. Least(c, value, <<label>>, done \cup {label})
      BY <1>1, <2>3, <2>4, <2>5, <2>7, <2>8 DEF Least
    <2> QED
      BY <1>1, <2>2, <2>9 DEF best
  <1>6. CASE value # NoCeiling /\ value = width
    <2>1. ~(value > width) /\ ~(value < width)
      BY <1>2, <1>6
    <2>2. Tighten(best, value, label) = [width |-> value, bound_by |-> Append(names, label)]
      BY <1>4, <1>6, <2>1, Zenon DEF Tighten
    <2>3. ToSet(Append(names, label)) = ToSet(names) \cup {label}
      BY <1>2, RangeOfAppend
    <2>4. Append(names, label) \in Seq(Labels) /\ Append(names, label) # <<>>
      BY <1>2
    <2>5. value <= c[label]
      BY <1>1
    <2>6. \A l \in done \cup {label} : width <= c[l]
      BY <1>1, <1>6, <2>5 DEF Least
    <2>7. \A l \in Labels : l \in ToSet(Append(names, label)) <=> l \in done \cup {label} /\ c[l] = width
      BY <1>1, <1>6, <2>3 DEF Least
    <2>8. Least(c, value, Append(names, label), done \cup {label})
      BY <1>2, <1>6, <2>4, <2>6, <2>7, Zenon DEF Least
    <2> QED
      BY <1>1, <2>2, <2>8 DEF best
  <1>7. CASE value = NoCeiling \/ value > width
    <2>1. Tighten(best, value, label) = best
      BY <1>4, <1>7, Zenon DEF Tighten
    <2>2. width <= value /\ width # value
      BY <1>2, <1>7 DEF NoCeiling
    <2>3. Least(c, width, names, done \cup {label})
      BY <1>1, <2>2 DEF Least
    <2> QED
      BY <1>1, <2>1, <2>3 DEF best
  <1>8. \/ value # NoCeiling /\ value < width
        \/ value # NoCeiling /\ value = width
        \/ value = NoCeiling \/ value > width
    BY <1>2
  <1> QED
    BY <1>5, <1>6, <1>7, <1>8

\* For every choice of ceilings the width is the least of them, and bound_by
\* names all of those, and no other, that tie for it.
THEOREM WidthIsLeastCeiling == \A c \in Ceilings : LeastCeiling(c, ComputeWidth(c))
  <1> SUFFICES ASSUME NEW c \in Ceilings PROVE LeastCeiling(c, ComputeWidth(c))
    OBVIOUS
  <1> DEFINE hard == [width |-> c["semaphore"], bound_by |-> <<"semaphore">>]
             tiered == Tighten(hard, c["model_tier"], "model_tier")
             afforded == Tighten(tiered, c["budget_soft"], "budget_soft")
             result == Tighten(afforded, c["antichain"], "antichain")
             Reached(best, done) == \E w, n : best = [width |-> w, bound_by |-> n] /\ Least(c, w, n, done)
  <1>1. c \in [Labels -> 0..256] /\ c["semaphore"] \in 0..255
    BY DEF Ceilings, NoCeiling, Labels
  <1>2. \A best, done, label : Reached(best, done) /\ done \in SUBSET Labels /\ label \in Labels \ done
                                => Reached(Tighten(best, c[label], label), done \cup {label})
    <2> SUFFICES ASSUME NEW best, NEW done \in SUBSET Labels, NEW label \in Labels \ done, Reached(best, done)
                 PROVE  Reached(Tighten(best, c[label], label), done \cup {label})
      OBVIOUS
    <2>1. PICK w, n : best = [width |-> w, bound_by |-> n] /\ Least(c, w, n, done)
      OBVIOUS
    <2> QED
      BY ZenonT(40), <1>1, <2>1, OneTurn
  <1>3. Reached(hard, {"semaphore"})
    <2>1. ToSet(<<"semaphore">>) = {"semaphore"}
      BY DEF ToSet
    <2>2. Least(c, c["semaphore"], <<"semaphore">>, {"semaphore"})
      BY <1>1, <2>1 DEF Least, Labels
    <2> QED
      BY <2>2
  <1> HIDE DEF Reached, hard, tiered, afforded
  <1>4. Reached(tiered, {"semaphore"} \cup {"model_tier"})
    <2>1. "model_tier" \in Labels \ {"semaphore"} /\ {"semaphore"} \in SUBSET Labels
      BY DEF Labels
    <2> QED
      BY <1>3, <1>2, <2>1 DEF tiered
  <1>5. Reached(afforded, {"semaphore", "model_tier"} \cup {"budget_soft"})
    <2>1. "budget_soft" \in Labels \ {"semaphore", "model_tier"} /\ {"semaphore", "model_tier"} \in SUBSET Labels
      BY DEF Labels
    <2> QED
      BY <1>4, <1>2, <2>1 DEF afforded
  <1>6. Reached(result, {"semaphore", "model_tier", "budget_soft"} \cup {"antichain"})
    <2>1. "antichain" \in Labels \ {"semaphore", "model_tier", "budget_soft"} /\ {"semaphore", "model_tier", "budget_soft"} \in SUBSET Labels
      BY DEF Labels
    <2> QED
      BY <1>5, <1>2, <2>1 DEF result
  <1>7. Labels = {"semaphore", "model_tier", "budget_soft"} \cup {"antichain"}
    BY DEF Labels
  <1>8. ComputeWidth(c) = result
    BY DEF ComputeWidth, hard, tiered, afforded
  <1>9. PICK w, n : ComputeWidth(c) = [width |-> w, bound_by |-> n] /\ Least(c, w, n, Labels)
    BY <1>6, <1>7, <1>8 DEF Reached
  <1> QED
    BY <1>9 DEF Least, LeastCeiling
==============================================================================
