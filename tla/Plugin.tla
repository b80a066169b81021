------------------------------- MODULE Plugin -------------------------------
(***************************************************************************)
(* The dashboard plugin: Zellij hands it timers, keys, pipe messages and   *)
(* the results of its commands, one at a time; it hands each to every      *)
(* module that subscribes to its kind.  Around it run the commands it has  *)
(* started, the sidecar's other writers, and whoever loads and closes the  *)
(* pane.  What a closed instance held is gone; the log stays.              *)
(***************************************************************************)
EXTENDS BridgeClient, SnapshotReader

CONSTANTS Names, Nodes, NoNodes, NoName, MaxWatched, AgeCap,        \* campaign_attention
          MaxEvents, ScrollCap,                                     \* event_feed
          MaxLog, Cooldown, Modulus,                                \* cmd_pipe
          WitnessTags, ServiceTags, NerveService, StaleTicks,       \* status panels
          Interval,  \* interval of each poll, by tag
          Payloads,  \* JSON that the other commands may print, by tag
          Layouts    \* a pane's modules, and bounds: pipes, keys, clock, flight, entries, failures

ASSUME NoneIsNodes == NoNodes \in Nodes
ASSUME NoNameIsNone == NoName \notin Names
ASSUME PanelBounds ==
  /\ MaxWatched \in Nat \ {0} /\ AgeCap \in Nat
  /\ MaxEvents \in Nat /\ ScrollCap \in Nat
ASSUME ClockIsUnsigned ==
  /\ MaxLog \in Nat /\ Cooldown \in Nat /\ Modulus \in Nat \ {0}
  /\ \A l \in Layouts : l.clock \subseteq 0..(Modulus - 1)
ASSUME PerceptionIsNote == PerceiveNote \in Notes
ASSUME WitnessReadsTheLog == {"ow_perceive", "ow_kernel"} \subseteq ToSet(WitnessTags)

VARIABLES layout,   \* the configuration of the pane
          modules   \* the state of each module, by id; no module in a closed pane

vars == <<clientVars, logVars, altered, layout, modules>>

Attention == INSTANCE CampaignAttention
Cockpit == INSTANCE FiberCockpit WITH NoFeed <- Attention!NoFeed
Feed == INSTANCE EventFeed
Pipes == INSTANCE CmdPipe
Latest == INSTANCE FeedPanels
Panels == INSTANCE StatusPanels WITH WitnessFeeds <- ToSet(WitnessTags), Services <- ToSet(ServiceTags)

\* What the panels decode of the feeds: a payload of another shape is text to them.
ASSUME PayloadsDecode ==
  /\ Payloads["fiber_snapshot"] \subseteq Attention!Feeds
  /\ Payloads["orac_field_emergence"] \subseteq Seq([tick : Nat, lasting : BOOLEAN])
  /\ Payloads["pv2_bus_events"] \subseteq Seq([tick : Nat, wanted : BOOLEAN])

AttentionPipes == {"attention-ack", "attention-watch", "attention-unwatch", "attention-mine"}

\* A pipe message has a name; what follows it is a feed, the name of a campaign or nothing.
ASSUME PipesDecode ==
  \A l \in Layouts : \A msg \in l.pipes :
    /\ msg.name \in STRING
    /\ msg.name = "fiber-data" /\ msg.payload.out = "json" => msg.payload.data \in Attention!Feeds
    /\ msg.name \in AttentionPipes => msg.payload \in Names \cup {NoName}

Open == modules # <<>>

Source(tag) == [tag |-> tag, interval |-> Interval[tag]]

CockpitSources == <<Source("fiber_snapshot")>>
FeedSources == <<Source("orac_field_emergence"), Source("pv2_bus_events")>>
KernelSources == <<Source("kernel_snapshot"), Source("perceive_snapshot")>>
WitnessSources == [i \in DOMAIN WitnessTags |-> Source(WitnessTags[i])]
HealthSources ==
  <<Source("orac_bridges"), Source("orac_thermal"), Source("nerve_health")>> \o
  [i \in DOMAIN ServiceTags |-> Source(ServiceTags[i])]

GaugeSources == <<Source("pv2_field"), Source("orac_coupling"), Source("orac_hebbian")>>
FleetSources == <<Source("orac_health"), Source("pv2_health")>>
ProposalSources == <<Source("pv2_proposals")>>
SessionSources == <<Source("orac_session"), Source("orac_tokens")>>
WardenSources == <<Source("sphere_warden")>>

\* The sources that a module registers.
SourcesOf(id) ==
  CASE id = "fiber_cockpit" -> CockpitSources
    [] id = "event_feed" -> FeedSources
    [] id = "orchestrator_kernel" -> KernelSources
    [] id = "orchestrator_witness" -> WitnessSources
    [] id = "bridge_health" -> HealthSources
    [] id = "coherence_gauge" -> GaugeSources
    [] id = "fleet_view" -> FleetSources
    [] id = "na_panel" -> ProposalSources
    [] id = "session_timer" -> SessionSources
    [] id = "sphere_warden" -> WardenSources
    [] OTHER -> <<>>

Registered(ids) == FlattenSeq([i \in DOMAIN ids |-> SourcesOf(ids[i])])

\* What a module registers is a list of endpoints, their intervals as clamped by config.rs.
ASSUME SourcesTyped ==
  \A l \in Layouts :
    l.modules \in Seq(STRING) /\ \A id \in ToSet(l.modules) : SourcesOf(id) \in Seq(Endpoints)

NewModule(id) ==
  CASE id = "campaign_attention" -> Attention!NewAttention
    [] id = "fiber_cockpit" -> Cockpit!NewCockpit
    [] id = "event_feed" -> Feed!NewFeed
    [] id = "cmd_pipe" -> Pipes!NewCmdPipe
    [] id = "orchestrator_kernel" -> Panels!NewKernel
    [] id = "orchestrator_witness" -> Panels!NewWitness
    [] id = "bridge_health" -> Panels!NewHealth
    [] id = "coherence_gauge" -> Latest!NewGauge
    [] id = "fleet_view" -> Latest!NewFleet
    [] id = "na_panel" -> Latest!NewProposals
    [] id = "session_timer" -> Latest!NewSession
    [] id = "sphere_warden" -> Latest!NewWarden

NewModules(ids) == [id \in ToSet(ids) |-> NewModule(id)]

Category(ev) == IF ev.type \in {"BridgeData", "BridgeError"} THEN "BridgeResponse" ELSE ev.type

\* Fault: the attention panel misses the answers, and lives on pipes alone.
PipeFedAttention(id) ==
  CASE id = "campaign_attention" -> {"PipeCommand", "KeyPress", "Tick"}
    [] id = "fiber_cockpit" -> {"BridgeResponse", "PipeCommand", "KeyPress", "Tick"}
    [] OTHER -> {"BridgeResponse", "PipeCommand", "KeyPress", "Tick"}

Subscriptions(id) ==
  CASE id \in {"campaign_attention", "fiber_cockpit"} -> {"BridgeResponse", "PipeCommand", "KeyPress", "Tick"}
    [] id \in {"event_feed", "coherence_gauge"} -> {"BridgeResponse", "KeyPress"}
    [] id = "cmd_pipe" -> {"PipeCommand"}
    [] id \in {"orchestrator_witness", "sphere_warden"} -> {"BridgeResponse", "Tick"}
    [] OTHER -> {"BridgeResponse"}

Handle(id, st, ev) ==
  CASE id = "campaign_attention" -> Attention!HandleEvent(st, ev)
    [] id = "fiber_cockpit" -> Cockpit!HandleEvent(st, ev)
    [] id = "event_feed" -> Feed!HandleEvent(st, ev)
    [] id = "cmd_pipe" -> Pipes!HandleEvent(st, ev)
    [] id = "orchestrator_kernel" -> Panels!OnKernelEvent(st, ev)
    [] id = "orchestrator_witness" -> Panels!OnWitnessEvent(st, ev)
    [] id = "bridge_health" -> Panels!OnHealthEvent(st, ev)
    [] id = "coherence_gauge" -> Latest!OnGaugeEvent(st, ev)
    [] id = "fleet_view" -> Latest!OnFleetEvent(st, ev)
    [] id = "na_panel" -> Latest!OnProposalsEvent(st, ev)
    [] id = "session_timer" -> Latest!OnSessionEvent(st, ev)
    [] id = "sphere_warden" -> Latest!OnWardenEvent(st, ev)

DispatchEvent(ev) ==
  modules' = [id \in DOMAIN modules |->
                IF Category(ev) \in Subscriptions(id) THEN Handle(id, modules[id], ev) ELSE modules[id]]

----------------------------------------------------------------------------
(* The plugin's handlers *)

\* Bound: a poll waits when its endpoint has as many commands unanswered as the layout allows.
RoomToPoll == \A i \in DOMAIN running' : Len(running'[i]) <= layout.flight[i]

Timer ==
  /\ Open
  /\ DispatchEvent([type |-> "Tick"])
  /\ PollDue(PollSecs)
  /\ RoomToPoll
  /\ UNCHANGED <<logVars, altered, layout>>

\* The r key polls as if no time had passed.
Refresh ==
  /\ Open
  /\ PollDue(0)
  /\ RoomToPoll
  /\ UNCHANGED <<logVars, altered, layout, modules>>

PressKey(key) ==
  /\ Open
  /\ DispatchEvent([type |-> "KeyPress", key |-> key])
  /\ UNCHANGED <<clientVars, logVars, altered, layout>>

\* The q key. The instance is unloaded, with the state cache it has just filled.
Quit ==
  /\ Open
  /\ modules' = <<>>
  /\ ClientLoads(<<>>)
  /\ UNCHANGED <<logVars, altered, layout>>

Load ==
  /\ ~Open
  /\ modules' = NewModules(layout.modules)
  /\ ClientLoads(Registered(layout.modules))
  /\ UNCHANGED <<logVars, altered, layout>>

PipeMessage(msg, now) ==
  /\ Open
  /\ DispatchEvent([type |-> "PipeCommand", name |-> msg.name, payload |-> msg.payload, now |-> now])
  /\ UNCHANGED <<clientVars, logVars, altered, layout>>

----------------------------------------------------------------------------
(* The commands it has started *)

ReaderTags == {"kernel_snapshot", "ow_kernel"}
PerceiveTag == "perceive_snapshot"

Failed == [exit |-> 1, out |-> "empty"]
Printed(data) == [exit |-> 0, out |-> "json", data |-> data]

\* Bound: in a layout without failures, only a pass that finds no more room in the log
\* fails, and verify_chain only of an edited row.
MayFail(tag, done) ==
  layout.failures \/ (tag = PerceiveTag /\ done = <<>> /\ Len(log) >= layout.entries)

\* How a command may end; it may fail at any point. A perception pass prints nothing.
Results(tag, done) ==
  (IF MayFail(tag, done) THEN {Failed} ELSE {}) \cup
  CASE tag \in ReaderTags -> IF Complete(done) THEN {Printed(Snapshot(done))} ELSE {}
    [] tag = PerceiveTag -> IF done = <<>> THEN {} ELSE {[exit |-> 0, out |-> "empty"]}
    [] OTHER -> {Printed(data) : data \in Payloads[tag]} \cup {[exit |-> 0, out |-> "text"]}

CommandEnds(i, p) ==
  /\ Ends(i, p)
  /\ \E result \in Results(endpoints[i].tag, running[i][p]) :
       DispatchEvent(HandleResult(endpoints[i].tag, result))
  /\ UNCHANGED <<logVars, altered, layout>>

SnapshotReads(i, p) ==
  /\ endpoints[i].tag \in ReaderTags
  /\ ~Complete(running[i][p])
  /\ \E value \in NextReads(running[i][p], layout.failures) : Advances(i, p, value)
  /\ UNCHANGED <<logVars, altered, layout, modules>>

\* Bound: the log of a layout stays this short.
RoomInLog == Len(log') <= layout.entries

\* The pass has observed everything and its one append is committed.
PerceptionAppends(i, p) ==
  /\ endpoints[i].tag = PerceiveTag
  /\ running[i][p] = <<>>
  /\ AddNote(PerceiveNote)
  /\ RoomInLog
  /\ Advances(i, p, "appended")
  /\ UNCHANGED <<altered, layout, modules>>

----------------------------------------------------------------------------
(* Everybody else *)

OtherSubmits ==
  /\ \E k \in Keys, h \in Hashes, run \in BOOLEAN : Admit(k, h, run)
  /\ RoomInLog
  /\ UNCHANGED <<clientVars, altered, layout, modules>>

RowIsEdited ==
  /\ AlterRow
  /\ UNCHANGED <<clientVars, layout, modules>>

PluginInit ==
  /\ Init
  /\ altered = FALSE
  /\ layout \in Layouts
  /\ modules = NewModules(layout.modules)
  /\ ClientInit(Registered(layout.modules))

Steps(i) == \E p \in DOMAIN running[i] : SnapshotReads(i, p) \/ PerceptionAppends(i, p)
Answers(i) == \E p \in DOMAIN running[i] : CommandEnds(i, p)

PluginNext ==
  \/ Timer \/ Refresh \/ Quit \/ Load
  \/ \E key \in layout.keys : PressKey(key)
  \/ \E msg \in layout.pipes, now \in layout.clock : PipeMessage(msg, now)
  \/ \E i \in Indices : Steps(i) \/ Answers(i)
  \/ OtherSubmits \/ RowIsEdited

\* Timers come for ever, and every endpoint's commands get on and end.
EndpointNumbers == UNION {DOMAIN Registered(l.modules) : l \in Layouts}
Ending(i) == i \in Indices /\ Answers(i)
Advancing(i) == i \in Indices /\ Steps(i)

PluginSpec == PluginInit /\ [][PluginNext]_vars
FairSpec ==
  /\ PluginSpec
  /\ WF_vars(Timer)
  /\ \A i \in EndpointNumbers : WF_vars(Ending(i)) /\ WF_vars(Advancing(i))

----------------------------------------------------------------------------
(* Properties *)

Shows(id) == id \in DOMAIN modules

PluginTypeOK ==
  /\ ClientTypeOK
  /\ Open => DOMAIN modules = ToSet(layout.modules)
  /\ Shows("campaign_attention") => Attention!AttentionTypeOK(modules["campaign_attention"])
  /\ Shows("fiber_cockpit") => Cockpit!CockpitTypeOK(modules["fiber_cockpit"])
  /\ Shows("event_feed") => Feed!FeedTypeOK(modules["event_feed"])
  /\ Shows("cmd_pipe") => Pipes!CmdPipeTypeOK(modules["cmd_pipe"])

\* Two panels that live on one feed show the same feed, of the same age, whatever
\* mix of polls, pipes, keys and undecodable answers brought it (dispatch_event
\* hands an event to all modules; neither panel may drop one the other takes).
WitnessesAgree ==
  Shows("campaign_attention") /\ Shows("fiber_cockpit") =>
    LET one == modules["campaign_attention"]  other == modules["fiber_cockpit"]
    IN one.snapshot = other.snapshot /\ one.ticks = other.ticks

Shown(n, st) == n \in Attention!VisibleCampaigns(st)

\* The operator acknowledges n: by its name, or with all that is on the panel.
Acknowledges(n) ==
  LET shown == Shown(n, modules["campaign_attention"])
  IN \/ shown /\ \E key \in layout.keys : key = "a" /\ PressKey(key)
     \/ \E msg \in layout.pipes, now \in layout.clock :
          /\ msg.name = "attention-ack"
          /\ msg.payload = n \/ (msg.payload = NoName /\ shown)
          /\ PipeMessage(msg, now)

ChoosesWatch ==
  \E msg \in layout.pipes, now \in layout.clock :
    msg.name \in {"attention-watch", "attention-unwatch"} /\ PipeMessage(msg, now)

\* Nothing is watched, so the first campaigns of the feed are shown, and there are more.
FeedOverflows(st) == st.watch = <<>> /\ Len(st.snapshot.campaigns) > MaxWatched

\* An alert is not lost (campaign_attention).  A campaign is NEW until the operator
\* acknowledges it, it leaves the feed, or it is again as it was acknowledged: no
\* tick, watch or repeated answer clears that, nor an acknowledgement of others, of
\* all that is shown while this one is not.  And an alert on the panel stays on it,
\* unless the operator changes the watch list, or watches nothing and the feed lists
\* more campaigns than are shown: then it can leave the panel and the header go
\* quiet, but the campaign is still NEW when it is shown again.
AlertStandsUntilAcked ==
  [][Shows("campaign_attention") /\ Open' =>
       LET old == modules["campaign_attention"]  new == modules'["campaign_attention"]
       IN \A n \in Names : Attention!IsNew(old, n) =>
            \/ ~Attention!In(new.snapshot, n)
            \/ Attention!CampaignDigest(new.snapshot, n) = old.acked[n]
            \/ /\ Attention!IsNew(new, n)
               /\ Shown(n, old) => Shown(n, new) \/ FeedOverflows(new) \/ ChoosesWatch
            \/ Acknowledges(n)]_vars

\* The event panel lists no tick twice, and bus events in the order of their ticks,
\* although two feeds repeat, mix and reorder theirs and both buffers overflow
\* (event_feed: seen_ticks guards entries, last_bus_tick the order).
FeedShowsEachTickOnce ==
  Shows("event_feed") => Feed!EachTickOnce(modules["event_feed"]) /\ Feed!BusInOrder(modules["event_feed"])

\* Two snapshot commands let through one after the other are a cooldown apart,
\* or the clock was set back between them (cmd_pipe: an unsigned difference).
CooldownHolds == Shows("cmd_pipe") => Pipes!Spaced(modules["cmd_pipe"])

ShownSnapshots ==
  (IF Shows("orchestrator_kernel") THEN {modules["orchestrator_kernel"].snapshot} ELSE {}) \cup
  (IF Shows("orchestrator_witness") THEN {modules["orchestrator_witness"].data["ow_kernel"]} ELSE {})

\* Every snapshot on a panel is a forward cut of the log (ForwardCut).
SnapshotIsForwardCut == \A s \in ShownSnapshots : s # <<>> => ForwardCut(s)

SaysOK ==
  \/ Shows("orchestrator_kernel") /\ Panels!KernelStatus(modules["orchestrator_kernel"]) = "OK"
  \/ Shows("orchestrator_witness") /\ Panels!WitnessStatus(modules["orchestrator_witness"]) = "OK"

\* Once a stored row has been edited, and if the pane is not closed again and
\* again, a time comes from which no header says OK: an answer from before the
\* edit may still overwrite a newer one, but not for ever (bridge client,
\* orchestrator_kernel and orchestrator_witness).
DamageReachesDashboard == []<>~Open \/ (altered ~> []~SaysOK)

\* No endpoint is left out for good, whatever its neighbours' intervals are
\* (poll_due: the stagger, and a loop over all endpoints after it).
EveryEndpointPolled ==
  \A i \in EndpointNumbers : []<>(i \notin Indices \/ running[i] # <<>>)

\* A perception whose append was committed shows its receipt when its command
\* returns: "writes the resulting `AppendReceipt` JSON to stdout.  That JSON
\* arrives here as `BridgeData`" (orchestrator_kernel.rs, handle_event).
ReceiptReachesPanel ==
  [][\A i \in Indices : \A p \in DOMAIN running[i] :
       endpoints[i].tag = PerceiveTag /\ running[i][p] # <<>> /\ Ends(i, p)
         => ~modules'["orchestrator_kernel"].perceiveDegraded]_vars
============================================================================
