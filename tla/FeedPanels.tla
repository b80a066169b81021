----------------------------- MODULE FeedPanels -----------------------------
(***************************************************************************)
(* The panels that keep the last answer of each of their feeds: fleet_view,*)
(* coherence_gauge, na_panel, session_timer and sphere_warden.  A failed   *)
(* poll leaves the answer where it is, and only sphere_warden counts how   *)
(* old it is: the others show a dead service as it last was.               *)
(***************************************************************************)
EXTENDS Naturals

CONSTANT AgeCap  \* ticks are not counted further: a feed that old is stale

FleetFeeds == {"orac_health", "pv2_health"}
GaugeFeeds == {"pv2_field", "orac_coupling", "orac_hebbian"}
ProposalFeeds == {"pv2_proposals"}
SessionFeeds == {"orac_session", "orac_tokens"}
WardenFeeds == {"sphere_warden"}

Blank(feeds) == [f \in feeds |-> <<>>]

Answers(data, ev) == ev.type = "BridgeData" /\ ev.tag \in DOMAIN data /\ ev.payload.out = "json"

Latest(data, ev) == IF Answers(data, ev) THEN [data EXCEPT ![ev.tag] = ev.payload.data] ELSE data

NewFleet == [data |-> Blank(FleetFeeds)]
OnFleetEvent(st, ev) == [st EXCEPT !.data = Latest(@, ev)]

NewGauge == [data |-> Blank(GaugeFeeds), matrix |-> FALSE]
OnGaugeEvent(st, ev) ==
  [data |-> Latest(st.data, ev),
   matrix |-> IF ev.type = "KeyPress" /\ ev.key = "c" THEN ~st.matrix ELSE st.matrix]

NewProposals == [data |-> Blank(ProposalFeeds)]
OnProposalsEvent(st, ev) == [st EXCEPT !.data = Latest(@, ev)]

NewSession == [data |-> Blank(SessionFeeds)]
OnSessionEvent(st, ev) == [st EXCEPT !.data = Latest(@, ev)]

NewWarden == [data |-> Blank(WardenFeeds), ticks |-> 0]
OnWardenEvent(st, ev) ==
  CASE ev.type = "Tick" -> [st EXCEPT !.ticks = IF @ < AgeCap THEN @ + 1 ELSE @]
    [] Answers(st.data, ev) -> [data |-> Latest(st.data, ev), ticks |-> 0]
    [] OTHER -> st
=============================================================================
