---------------------------- MODULE StatusPanels ----------------------------
(***************************************************************************)
(* The panels whose state is what each feed last said: orchestrator_kernel *)
(* and orchestrator_witness, with the words of their headers, and          *)
(* bridge_health with a service's last answer.  An answer overwrites what  *)
(* came before it, whichever was polled first.                             *)
(***************************************************************************)
EXTENDS Naturals, Sequences, SequencesExt

CONSTANTS WitnessFeeds,  \* tags of the witness's feeds
          Services,      \* ports probed, by tag
          NerveService,  \* the port of Nerve, which has a probe of its own as well
          StaleTicks     \* ticks after which the witness calls a feed stale

NewKernel == [snapshot |-> <<>>, degraded |-> TRUE, receipt |-> FALSE, perceiveDegraded |-> FALSE]

OnSnapshotError(st) == [st EXCEPT !.degraded = TRUE]

OnKernelEvent(st, ev) ==
  CASE ev.type = "BridgeData" /\ ev.tag = "kernel_snapshot" ->
         IF ev.payload.out = "json" THEN [st EXCEPT !.snapshot = ev.payload.data, !.degraded = FALSE]
         ELSE OnSnapshotError(st)
    [] ev.type = "BridgeError" /\ ev.tag = "kernel_snapshot" -> OnSnapshotError(st)
    [] ev.type = "BridgeData" /\ ev.tag = "perceive_snapshot" ->
         IF ev.payload.out = "json" THEN [st EXCEPT !.receipt = TRUE, !.perceiveDegraded = FALSE]
         ELSE [st EXCEPT !.perceiveDegraded = TRUE]
    [] ev.type = "BridgeError" /\ ev.tag = "perceive_snapshot" -> [st EXCEPT !.perceiveDegraded = TRUE]
    [] OTHER -> st

\* Fault: the header asks whether the command worked and not what it found.
TrustsTheCommand(st) == IF st.snapshot # <<>> /\ ~st.degraded THEN "OK" ELSE "DEGRADED"

KernelStatus(st) ==
  CASE st.snapshot # <<>> /\ ~st.degraded /\ st.snapshot.verify_chain_ok -> "OK"
    [] st.snapshot # <<>> /\ ~st.degraded /\ ~st.snapshot.verify_chain_ok -> "CHAIN WARN"
    [] OTHER -> "DEGRADED"

NewWitness ==
  [data |-> [f \in WitnessFeeds |-> <<>>],
   ticks |-> [f \in WitnessFeeds |-> 0],
   degraded |-> {}]

\* A feed that decodes resets its age; one that fails keeps its data and its age.
Decoded(st, tag, data) ==
  [data |-> [st.data EXCEPT ![tag] = data],
   ticks |-> [st.ticks EXCEPT ![tag] = 0],
   degraded |-> st.degraded \ {tag}]

OnWitnessEvent(st, ev) ==
  CASE ev.type = "Tick" ->
         [st EXCEPT !.ticks = [f \in WitnessFeeds |-> IF @[f] <= StaleTicks THEN @[f] + 1 ELSE @[f]]]
    [] ev.type = "BridgeData" /\ ev.tag \in WitnessFeeds /\ ev.payload.out = "json" ->
         Decoded(st, ev.tag, ev.payload.data)
    [] ev.type \in {"BridgeData", "BridgeError"} /\ ev.tag \in WitnessFeeds /\
       (ev.type = "BridgeData" => ev.payload.out # "json") ->
         [st EXCEPT !.degraded = @ \cup {ev.tag}]
    [] OTHER -> st

\* Only the first two feeds can make the header stale.
Stale(st) == \E f \in {"ow_perceive", "ow_kernel"} : st.ticks[f] > StaleTicks

WitnessStatus(st) ==
  LET kernel == st.data["ow_kernel"]
  IN CASE st.degraded # {} -> "DEGRADED"
       [] st.degraded = {} /\ kernel # <<>> /\ ~kernel.verify_chain_ok -> "CHAIN WARN"
       [] st.degraded = {} /\ (kernel = <<>> \/ kernel.verify_chain_ok) /\ Stale(st) -> "STALE"
       [] st.degraded = {} /\ ~Stale(st) /\ kernel = <<>> /\ st.data["ow_perceive"] = <<>> -> "SENSING"
       [] OTHER -> "OK"

NewHealth == [service |-> [s \in Services |-> "Unknown"], nerveUp |-> FALSE, bridges |-> <<>>, thermal |-> <<>>]

\* The service a probe is about.
Probed(tag) == IF tag = "nerve_health" THEN NerveService ELSE tag

\* Any answer of a server, JSON or text, means that it is up.
OnProbe(st, tag, up) ==
  [st EXCEPT !.service = [@ EXCEPT ![Probed(tag)] = IF up THEN "Up" ELSE "Down"],
             !.nerveUp = IF tag = "nerve_health" THEN up ELSE @]

\* Of ORAC only what decodes is kept; an error leaves what was there.
OnHealthEvent(st, ev) ==
  LET decoded == ev.type = "BridgeData" /\ ev.payload.out = "json"
  IN CASE ev.type \notin {"BridgeData", "BridgeError"} -> st
       [] ev.type \in {"BridgeData", "BridgeError"} /\ Probed(ev.tag) \in Services ->
            OnProbe(st, ev.tag, ev.type = "BridgeData")
       [] decoded /\ ev.tag = "orac_bridges" -> [st EXCEPT !.bridges = ev.payload.data]
       [] decoded /\ ev.tag = "orac_thermal" -> [st EXCEPT !.thermal = ev.payload.data]
       [] OTHER -> st
=============================================================================
