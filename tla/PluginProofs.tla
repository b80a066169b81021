---------------------------- MODULE PluginProofs ----------------------------
(* The dashboard for any layouts, payloads and intervals. *)
EXTENDS Plugin, SequenceTheorems, WellFoundedInduction, TLAPS

----------------------------------------------------------------------------
(* The feed that campaign_attention and fiber_cockpit share *)

AttentionFields == {"snapshot", "acked", "watch", "mine", "ticks"}
CockpitFields == {"snapshot", "selected", "expanded", "ticks"}

\* The events that bring a new feed, and what the feed and its age become.
Brings(ev) ==
  \/ ev.type = "PipeCommand" /\ ev.name = "fiber-data" /\ ev.payload.out = "json"
  \/ ev.type = "BridgeData" /\ ev.tag = "fiber_snapshot" /\ ev.payload.out = "json"

FedWith(st, ev) == IF Brings(ev) THEN ev.payload.data ELSE st.snapshot
Aged(st, ev) ==
  IF Brings(ev) THEN 0
  ELSE IF ev.type = "Tick" THEN (IF st.ticks < AgeCap THEN st.ticks + 1 ELSE st.ticks) ELSE st.ticks

LEMMA CockpitKey ==
  ASSUME NEW st, DOMAIN st = CockpitFields, NEW key
  PROVE  /\ DOMAIN Cockpit!OnKey(st, key) = CockpitFields
         /\ Cockpit!OnKey(st, key).snapshot = st.snapshot
         /\ Cockpit!OnKey(st, key).ticks = st.ticks
  BY DEF Cockpit!OnKey, CockpitFields

LEMMA CockpitFed ==
  ASSUME NEW st, DOMAIN st = CockpitFields, NEW feed
  PROVE  /\ DOMAIN Cockpit!SetSnapshot(st, feed) = CockpitFields
         /\ Cockpit!SetSnapshot(st, feed).snapshot = feed
         /\ Cockpit!SetSnapshot(st, feed).ticks = 0
  BY DEF Cockpit!SetSnapshot, CockpitFields

LEMMA CockpitNamed ==
  ASSUME NEW st, DOMAIN st = CockpitFields, NEW name
  PROVE  /\ DOMAIN Cockpit!SelectByName(st, name) = CockpitFields
         /\ Cockpit!SelectByName(st, name).snapshot = st.snapshot
         /\ Cockpit!SelectByName(st, name).ticks = st.ticks
  BY DEF Cockpit!SelectByName, CockpitFields

LEMMA CockpitEvent ==
  ASSUME NEW st, DOMAIN st = CockpitFields, NEW ev
  PROVE  /\ DOMAIN Cockpit!HandleEvent(st, ev) = CockpitFields
         /\ Cockpit!HandleEvent(st, ev).snapshot = FedWith(st, ev)
         /\ Cockpit!HandleEvent(st, ev).ticks = Aged(st, ev)
  <1> DEFINE aged == [st EXCEPT !.ticks = IF @ < AgeCap THEN @ + 1 ELSE @]
  <1>1. /\ DOMAIN aged = CockpitFields
        /\ aged.snapshot = st.snapshot
        /\ aged.ticks = IF st.ticks < AgeCap THEN st.ticks + 1 ELSE st.ticks
    BY DEF CockpitFields
  <1> HIDE DEF aged
  <1>2. CASE ev.type = "PipeCommand"
    BY <1>2, CockpitFed, CockpitNamed DEF Cockpit!HandleEvent, FedWith, Aged, Brings
  <1>3. CASE ev.type = "KeyPress"
    BY <1>3, CockpitKey DEF Cockpit!HandleEvent, FedWith, Aged, Brings
  <1>4. CASE ev.type = "Tick"
    BY <1>4, <1>1 DEF Cockpit!HandleEvent, FedWith, Aged, Brings, aged
  <1>5. CASE ev.type \notin {"PipeCommand", "KeyPress", "Tick"}
    BY <1>5, CockpitFed DEF Cockpit!HandleEvent, FedWith, Aged, Brings
  <1> QED
    BY <1>2, <1>3, <1>4, <1>5

LEMMA AttentionFed ==
  ASSUME NEW st, DOMAIN st = AttentionFields, NEW feed
  PROVE  /\ DOMAIN Attention!SetSnapshot(st, feed) = AttentionFields
         /\ Attention!SetSnapshot(st, feed).snapshot = feed
         /\ Attention!SetSnapshot(st, feed).ticks = 0
  BY DEF Attention!SetSnapshot, AttentionFields

LEMMA AttentionPiped ==
  ASSUME NEW st, DOMAIN st = AttentionFields, NEW name, NEW payload
  PROVE  LET new == Attention!OnPipe(st, name, payload)
             feeds == name = "fiber-data" /\ payload.out = "json"
         IN /\ DOMAIN new = AttentionFields
            /\ new.snapshot = IF feeds THEN payload.data ELSE st.snapshot
            /\ new.ticks = IF feeds THEN 0 ELSE st.ticks
  <1>1. CASE name = "fiber-data"
    BY <1>1, AttentionFed DEF Attention!OnPipe
  <1>2. CASE name = "attention-ack"
    BY <1>2 DEF Attention!OnPipe, Attention!Ack, AttentionFields
  <1>3. CASE name = "attention-watch"
    BY <1>3 DEF Attention!OnPipe, Attention!Watch, AttentionFields
  <1>4. CASE name = "attention-unwatch"
    BY <1>4 DEF Attention!OnPipe, Attention!Unwatch, AttentionFields
  <1>5. CASE name = "attention-mine"
    BY <1>5 DEF Attention!OnPipe, AttentionFields
  <1>6. CASE name \notin {"fiber-data", "attention-ack", "attention-watch", "attention-unwatch", "attention-mine"}
    BY <1>6 DEF Attention!OnPipe
  <1> QED
    BY <1>1, <1>2, <1>3, <1>4, <1>5, <1>6

LEMMA AttentionEvent ==
  ASSUME NEW st, DOMAIN st = AttentionFields, NEW ev
  PROVE  /\ DOMAIN Attention!HandleEvent(st, ev) = AttentionFields
         /\ Attention!HandleEvent(st, ev).snapshot = FedWith(st, ev)
         /\ Attention!HandleEvent(st, ev).ticks = Aged(st, ev)
  <1> DEFINE aged == [st EXCEPT !.ticks = IF @ < AgeCap THEN @ + 1 ELSE @]
  <1>1. /\ DOMAIN aged = AttentionFields
        /\ aged.snapshot = st.snapshot
        /\ aged.ticks = IF st.ticks < AgeCap THEN st.ticks + 1 ELSE st.ticks
    BY DEF AttentionFields
  <1> HIDE DEF aged
  <1>2. CASE ev.type = "PipeCommand"
    BY <1>2, AttentionPiped DEF Attention!HandleEvent, FedWith, Aged, Brings
  <1>3. CASE ev.type = "KeyPress"
    BY <1>3 DEF Attention!HandleEvent, Attention!Ack, FedWith, Aged, Brings, AttentionFields
  <1>4. CASE ev.type = "Tick"
    BY <1>4, <1>1 DEF Attention!HandleEvent, FedWith, Aged, Brings, aged
  <1>5. CASE ev.type \notin {"PipeCommand", "KeyPress", "Tick"}
    BY <1>5, AttentionFed DEF Attention!HandleEvent, FedWith, Aged, Brings
  <1> QED
    BY <1>2, <1>3, <1>4, <1>5

CA == "campaign_attention"
FC == "fiber_cockpit"
PanelKinds == {"BridgeResponse", "PipeCommand", "KeyPress", "Tick"}

\* What an event makes of the two panels.
LEMMA PanelsDispatched ==
  ASSUME NEW ev, DispatchEvent(ev)
  PROVE  /\ DOMAIN modules' = DOMAIN modules
         /\ CA \in DOMAIN modules =>
              modules'[CA] = IF Category(ev) \in PanelKinds
                               THEN Attention!HandleEvent(modules[CA], ev) ELSE modules[CA]
         /\ FC \in DOMAIN modules =>
              modules'[FC] = IF Category(ev) \in PanelKinds
                               THEN Cockpit!HandleEvent(modules[FC], ev) ELSE modules[FC]
  <1>1. Subscriptions(CA) = PanelKinds /\ Subscriptions(FC) = PanelKinds
    BY DEF Subscriptions, PanelKinds, CA, FC
  <1>2. \A st : Handle(CA, st, ev) = Attention!HandleEvent(st, ev)
    BY DEF Handle, CA
  <1>3. \A st : Handle(FC, st, ev) = Cockpit!HandleEvent(st, ev)
    BY DEF Handle, FC
  <1> QED
    BY <1>1, <1>2, <1>3 DEF DispatchEvent

\* The two panels have their fields, and show the same feed.
PanelInv ==
  /\ CA \in DOMAIN modules => DOMAIN modules[CA] = AttentionFields
  /\ FC \in DOMAIN modules => DOMAIN modules[FC] = CockpitFields
  /\ CA \in DOMAIN modules /\ FC \in DOMAIN modules =>
       /\ modules[CA].snapshot = modules[FC].snapshot
       /\ modules[CA].ticks = modules[FC].ticks

LEMMA PanelsFresh ==
  ASSUME NEW ids
  PROVE  LET fresh == NewModules(ids)
         IN /\ CA \in DOMAIN fresh => fresh[CA] = Attention!NewAttention
            /\ FC \in DOMAIN fresh => fresh[FC] = Cockpit!NewCockpit
  <1>1. NewModule(CA) = Attention!NewAttention
    BY DEF NewModule, CA
  <1>2. NewModule(FC) = Cockpit!NewCockpit
    BY DEF NewModule, FC
  <1> QED
    BY <1>1, <1>2 DEF NewModules

LEMMA PanelInvFresh ==
  /\ DOMAIN Attention!NewAttention = AttentionFields
  /\ DOMAIN Cockpit!NewCockpit = CockpitFields
  /\ Attention!NewAttention.snapshot = Cockpit!NewCockpit.snapshot
  /\ Attention!NewAttention.ticks = Cockpit!NewCockpit.ticks
  BY DEF Attention!NewAttention, Cockpit!NewCockpit, AttentionFields, CockpitFields

\* What an action may do to the modules.
LEMMA ModulesStep ==
  ASSUME [PluginNext]_vars
  PROVE  \/ modules' = modules
         \/ modules' = <<>>
         \/ ~Open /\ modules' = NewModules(layout.modules)
         \/ \E ev : DispatchEvent(ev)
  BY DEF PluginNext, vars, Timer, Refresh, Quit, Load, PressKey, PipeMessage, Steps, Answers,
         CommandEnds, SnapshotReads, PerceptionAppends, OtherSubmits, RowIsEdited

LEMMA PanelInvStep ==
  ASSUME PanelInv, [PluginNext]_vars
  PROVE  PanelInv'
  <1>1. CASE modules' = modules
    BY <1>1 DEF PanelInv
  <1>2. CASE modules' = <<>>
    BY <1>2 DEF PanelInv
  <1>3. CASE modules' = NewModules(layout.modules)
    BY <1>3, PanelsFresh, PanelInvFresh DEF PanelInv
  <1>4. CASE \E ev : DispatchEvent(ev)
    <2>1. PICK ev : DispatchEvent(ev)
      BY <1>4
    <2>2. CASE Category(ev) \in PanelKinds
      <3>1. CA \in DOMAIN modules => /\ DOMAIN modules'[CA] = AttentionFields
                                     /\ modules'[CA].snapshot = FedWith(modules[CA], ev)
                                     /\ modules'[CA].ticks = Aged(modules[CA], ev)
        BY <2>1, <2>2, PanelsDispatched, AttentionEvent DEF PanelInv
      <3>2. FC \in DOMAIN modules => /\ DOMAIN modules'[FC] = CockpitFields
                                     /\ modules'[FC].snapshot = FedWith(modules[FC], ev)
                                     /\ modules'[FC].ticks = Aged(modules[FC], ev)
        BY <2>1, <2>2, PanelsDispatched, CockpitEvent DEF PanelInv
      <3> QED
        BY <2>1, <3>1, <3>2, PanelsDispatched DEF PanelInv, FedWith, Aged
    <2>3. CASE Category(ev) \notin PanelKinds
      BY <2>1, <2>3, PanelsDispatched DEF PanelInv
    <2> QED
      BY <2>2, <2>3
  <1> QED
    BY <1>1, <1>2, <1>3, <1>4, ModulesStep

LEMMA PanelInvInit == PluginInit => PanelInv
  BY PanelsFresh, PanelInvFresh DEF PluginInit, PanelInv

\* Whatever reaches the plugin, the two panels never show different feeds, nor
\* the same feed with different ages.
THEOREM PanelsAgree == PluginSpec => []WitnessesAgree
  <1>1. PanelInv => WitnessesAgree
    BY DEF PanelInv, WitnessesAgree, Shows, CA, FC
  <1> QED
    BY <1>1, PanelInvInit, PanelInvStep, PTL DEF PluginSpec

----------------------------------------------------------------------------
(* What the modules register *)

\* Induction: a set of numbers that is not empty has a smallest one.
LEMMA SmallestExists ==
  ASSUME NEW T, T \subseteq Nat, T # {}
  PROVE  \E n \in T : \A m \in T : n <= m
  <1> DEFINE Less == {pair \in Nat \X Nat : pair[1] < pair[2]}
  <1>1. IsWellFoundedOn(Less, Nat)
    BY NatLessThanWellFounded DEF OpToRel
  <1> HIDE DEF Less
  <1>2. PICK n \in T : \A m \in T : ~(<<m, n>> \in Less)
    BY <1>1, WFMin
  <1>3. \A m \in T : ~(m < n)
    BY <1>2 DEF Less
  <1> QED
    BY <1>3

LEMMA FlattenTyped ==
  ASSUME NEW Q, NEW n \in Nat \ {0}, NEW ss \in [1..n -> Seq(Q)]
  PROVE  FlattenSeq(ss) \in Seq(Q)
  <1> DEFINE Flat(f, k) == [i \in 1..k |-> IF i = 1 THEN ss[i] ELSE f[i - 1] \o ss[i]]
             flat == CHOOSE f : f = Flat(f, n)
             Unsolved == {k \in 0..n : \A f : f # Flat(f, k)}
             Bad == {i \in 1..n : flat[i] \notin Seq(Q)}
  <1>1. FlattenSeq(ss) = flat[n]
    <2>1. Len(ss) = n
      <3>1. ss \in Seq(Seq(Q)) /\ DOMAIN ss = 1..n
        OBVIOUS
      <3> QED
        BY <3>1
    <2> QED
      BY <2>1 DEF FlattenSeq
  <1>2. ASSUME NEW k \in 0..(n - 1), NEW f, f = Flat(f, k) PROVE \E longer : longer = Flat(longer, k + 1)
    <2> DEFINE next == IF k = 0 THEN ss[1] ELSE f[k] \o ss[k + 1]
               longer == [i \in 1..(k + 1) |-> IF i = k + 1 THEN next ELSE f[i]]
    <2>0. k \in Nat
      OBVIOUS
    <2>1. ASSUME NEW i \in 1..(k + 1)
          PROVE  longer[i] = IF i = 1 THEN ss[i] ELSE longer[i - 1] \o ss[i]
      <3>1. CASE i = k + 1
        <4>1. longer[i] = next
          BY <3>1
        <4>2. i # 1 => i - 1 \in 1..(k + 1) /\ i - 1 # k + 1 /\ i - 1 = k
          BY <2>0, <3>1
        <4>3. i # 1 => longer[i - 1] = f[k]
          BY <4>2
        <4> HIDE DEF longer
        <4> QED
          BY <2>0, <3>1, <4>1, <4>3
      <3>2. CASE i # k + 1
        <4>1. i \in 1..k /\ longer[i] = f[i]
          BY <2>0, <3>2
        <4>2. f[i] = IF i = 1 THEN ss[i] ELSE f[i - 1] \o ss[i]
          BY <1>2, <4>1
        <4>3. i # 1 => i - 1 \in 1..(k + 1) /\ i - 1 # k + 1
          BY <2>0, <3>2
        <4>4. i # 1 => longer[i - 1] = f[i - 1]
          BY <4>3
        <4> HIDE DEF longer
        <4> QED
          BY <4>1, <4>2, <4>4
      <3> QED
        BY <3>1, <3>2
    <2>2. longer = [i \in 1..(k + 1) |-> longer[i]]
      OBVIOUS
    <2> HIDE DEF longer
    <2>3. longer = Flat(longer, k + 1)
      BY <2>1, <2>2
    <2> QED
      BY <2>3
  <1> HIDE DEF Flat
  <1>3. Unsolved = {}
    <2> SUFFICES ASSUME Unsolved # {} PROVE FALSE
      OBVIOUS
    <2>1. PICK k \in Unsolved : \A m \in Unsolved : k <= m
      <3>1. Unsolved \subseteq Nat
        OBVIOUS
      <3> QED
        BY <3>1, SmallestExists
    <2>2. k \in 0..n /\ \A f : f # Flat(f, k)
      BY <2>1
    <2>3. k # 0
      <3>1. <<>> = Flat(<<>>, 0)
        BY DEF Flat
      <3> QED
        BY <2>2, <3>1
    <2>4. k - 1 \in 0..(n - 1) /\ k - 1 \in 0..n /\ (k - 1) + 1 = k /\ ~(k <= k - 1)
      BY <2>2, <2>3
    <2>5. k - 1 \notin Unsolved
      BY <2>1, <2>4
    <2>6. PICK f : f = Flat(f, k - 1)
      BY <2>4, <2>5
    <2> QED
      BY <1>2, <2>2, <2>4, <2>6
  <1>4. \E f : f = Flat(f, n)
    <2>1. n \in 0..n
      OBVIOUS
    <2> QED
      BY <1>3, <2>1
  <1>5. flat = Flat(flat, n)
    BY <1>4
  <1> HIDE DEF flat
  <1>6. \A i \in 1..n : flat[i] = IF i = 1 THEN ss[i] ELSE flat[i - 1] \o ss[i]
    BY <1>5 DEF Flat
  <1>7. Bad = {}
    <2> SUFFICES ASSUME Bad # {} PROVE FALSE
      OBVIOUS
    <2>1. PICK i \in Bad : \A m \in Bad : i <= m
      <3>1. Bad \subseteq Nat
        OBVIOUS
      <3> QED
        BY <3>1, SmallestExists
    <2>2. i \in 1..n /\ flat[i] \notin Seq(Q) /\ ss[i] \in Seq(Q)
      BY <2>1
    <2>3. i # 1
      BY <1>6, <2>2
    <2>4. i - 1 \in 1..n /\ i - 1 \notin Bad
      BY <2>1, <2>2, <2>3
    <2>5. flat[i - 1] \in Seq(Q)
      BY <2>4
    <2>6. flat[i - 1] \o ss[i] \in Seq(Q)
      BY <2>2, <2>5
    <2> QED
      BY <1>6, <2>2, <2>3, <2>6
  <1> QED
    BY <1>1, <1>7

LEMMA RegistrationsTyped ==
  ASSUME NEW l \in Layouts
  PROVE  Registered(l.modules) \in Seq(Endpoints)
  <1> DEFINE ss == [i \in DOMAIN l.modules |-> SourcesOf(l.modules[i])]
  <1>1. PICK n \in Nat : n = Len(l.modules) /\ DOMAIN l.modules = 1..n
    BY SourcesTyped
  <1>2. \A i \in 1..n : SourcesOf(l.modules[i]) \in Seq(Endpoints)
    BY <1>1, SourcesTyped DEF ToSet
  <1>3. ss \in [1..n -> Seq(Endpoints)]
    BY <1>1, <1>2
  <1>4. Registered(l.modules) = FlattenSeq(ss)
    BY DEF Registered
  <1>5. CASE n = 0
    <2>1. ss = <<>> /\ Len(ss) = 0
      BY <1>1, <1>5
    <2>2. Registered(l.modules) = <<>>
      BY <1>4, <2>1 DEF FlattenSeq
    <2> QED
      BY <2>2
  <1>6. CASE n # 0
    <2> HIDE DEF ss
    <2> QED
      BY <1>3, <1>4, <1>6, FlattenTyped
  <1> QED
    BY <1>5, <1>6

----------------------------------------------------------------------------
(* The schedule *)

\* How long ago endpoint i may have been polled, n endpoints into the first round.
StaggerAge(n, i) == IF i <= n THEN (n - i) * PollSecs ELSE n * PollSecs

\* The first round is over exactly when it has reached the last endpoint. While
\* it lasts an endpoint's age is what the round has taken since its turn; after
\* it, the claim itself is inductive.
ScheduleInv ==
  /\ ClientTypeOK
  /\ layout \in Layouts
  /\ ~staggerComplete => staggerIdx < Len(endpoints) \/ Len(endpoints) = 0
  /\ ~staggerComplete => \A i \in Indices : age[i] <= StaggerAge(staggerIdx, i)
  /\ staggerComplete => PolledInTime

LEMMA TimesMonotone ==
  ASSUME NEW m \in Nat, NEW n \in Nat, m <= n
  PROVE  m * PollSecs \in Nat /\ m * PollSecs <= n * PollSecs
  BY PollSecsAssumption

LEMMA OneMoreTimer ==
  ASSUME NEW n \in Nat
  PROVE  (n + 1) * PollSecs = n * PollSecs + PollSecs
  BY PollSecsAssumption

\* What registering a list of endpoints leaves.
LEMMA ClientFresh ==
  ASSUME NEW eps \in Seq(Endpoints), ClientLoads(eps), layout' \in Layouts
  PROVE  ScheduleInv'
  <1>1. endpoints' = eps /\ age' = [i \in DOMAIN eps |-> 0] /\ running' = [i \in DOMAIN eps |-> <<>>]
    BY DEF ClientLoads, NewClient
  <1>2. staggerIdx' = 0 /\ staggerComplete' = FALSE
    BY DEF ClientLoads
  <1>3. Len(eps) \in Nat /\ DOMAIN eps = 1..Len(eps)
    OBVIOUS
  <1>4. ClientTypeOK'
    <2>1. endpoints' \in Seq(Endpoints) /\ Indices' = DOMAIN eps
      BY <1>1 DEF Indices
    <2>2. age' \in [Indices' -> Nat] /\ DOMAIN running' = Indices'
      BY <1>1, <2>1
    <2>3. staggerIdx' \in 0..Len(endpoints') /\ staggerComplete' \in BOOLEAN
      <3>1. 0 \in 0..Len(eps)
        BY <1>3
      <3> QED
        BY <1>1, <1>2, <3>1, Zenon
    <2> QED
      BY <2>1, <2>2, <2>3 DEF ClientTypeOK
  <1>5. \A i \in Indices' : age'[i] <= StaggerAge(0, i)
    <2> SUFFICES ASSUME NEW i \in 1..Len(eps) PROVE 0 <= StaggerAge(0, i)
      BY <1>1, <1>3 DEF Indices
    <2> QED
      BY PollSecsAssumption DEF StaggerAge
  <1>6. staggerIdx' < Len(endpoints') \/ Len(endpoints') = 0
    BY <1>1, <1>2, <1>3
  <1>7. \A i \in Indices' : age'[i] <= StaggerAge(staggerIdx', i)
    BY <1>2, <1>5
  <1> QED
    BY <1>2, <1>4, <1>6, <1>7, Zenon DEF ScheduleInv, StaggerAge

\* A step that leaves the clock and the list alone.
LEMMA ClientSame ==
  ASSUME ScheduleInv, UNCHANGED <<endpoints, age, staggerIdx, staggerComplete, layout>>,
         DOMAIN running' = DOMAIN running
  PROVE  ScheduleInv'
  BY DEF ScheduleInv, ClientTypeOK, PolledInTime, Indices, StaggerAge

LEMMA PollTyped ==
  ASSUME ClientTypeOK, NEW polled, NEW secs \in Nat, Poll(polled, secs),
         staggerIdx' \in 0..Len(endpoints), staggerComplete' \in BOOLEAN
  PROVE  ClientTypeOK'
  <1>1. endpoints' = endpoints /\ Indices' = Indices
    BY DEF Poll, Indices
  <1>2. age' \in [Indices -> Nat]
    <2>1. \A i \in Indices : age[i] \in Nat
      BY DEF ClientTypeOK
    <2> QED
      BY <2>1 DEF Poll
  <1> QED
    BY <1>1, <1>2 DEF ClientTypeOK, Poll

\* A turn of the first round takes at most one timer from everybody.
LEMMA StaggerStep ==
  ASSUME ScheduleInv, NEW secs \in {0, PollSecs}, StaggerPoll(secs), layout' = layout
  PROVE  ScheduleInv'
  <1>1. /\ ~staggerComplete
        /\ Poll({staggerIdx + 1} \cap Indices, secs)
        /\ staggerIdx' = IF staggerIdx < Len(endpoints) THEN staggerIdx + 1 ELSE staggerIdx
        /\ staggerComplete' = (staggerIdx' >= Len(endpoints))
    BY DEF StaggerPoll
  <1>2. Len(endpoints) \in Nat /\ Indices = 1..Len(endpoints) /\ staggerIdx \in 0..Len(endpoints) /\ secs \in Nat
    BY PollSecsAssumption DEF ScheduleInv, ClientTypeOK, Indices
  <1>3. endpoints' = endpoints /\ Indices' = Indices
    BY <1>1 DEF Poll, Indices
  <1>4. ClientTypeOK'
    BY <1>1, <1>2, PollTyped DEF ScheduleInv
  <1>5. CASE Len(endpoints) = 0
    BY <1>1, <1>2, <1>3, <1>4, <1>5 DEF ScheduleInv, PolledInTime
  <1>6. CASE Len(endpoints) # 0
    <2>1. staggerIdx < Len(endpoints) /\ staggerIdx' = staggerIdx + 1
      BY <1>1, <1>2, <1>6 DEF ScheduleInv
    <2>2. \A i \in Indices : age'[i] <= StaggerAge(staggerIdx + 1, i)
      <3> SUFFICES ASSUME NEW i \in Indices PROVE age'[i] <= StaggerAge(staggerIdx + 1, i)
        OBVIOUS
      <3>1. i \in 1..Len(endpoints) /\ age[i] \in Nat /\ age[i] <= StaggerAge(staggerIdx, i)
        BY <1>1, <1>2 DEF ScheduleInv, ClientTypeOK
      <3>2. CASE i = staggerIdx + 1
        <4>1. age'[i] = 0
          BY <1>1, <3>2 DEF Poll
        <4>2. StaggerAge(staggerIdx + 1, i) = 0
          BY <1>2, <3>2, PollSecsAssumption DEF StaggerAge
        <4> QED
          BY <4>1, <4>2
      <3>3. CASE i # staggerIdx + 1
        <4>1. age'[i] = age[i] + secs
          BY <1>1, <3>3 DEF Poll
        <4>2. secs <= PollSecs /\ PollSecs \in Nat
          BY PollSecsAssumption
        <4>3. CASE i <= staggerIdx
          <5>1. PICK n \in Nat : n = staggerIdx - i
            BY <1>2, <3>1, <4>3
          <5>2. n + 1 = staggerIdx + 1 - i /\ i <= staggerIdx + 1
            BY <1>2, <3>1, <4>3, <5>1
          <5>3. StaggerAge(staggerIdx, i) = n * PollSecs /\ StaggerAge(staggerIdx + 1, i) = (n + 1) * PollSecs
            <6>1. StaggerAge(staggerIdx, i) = (staggerIdx - i) * PollSecs
              BY <4>3 DEF StaggerAge
            <6>2. StaggerAge(staggerIdx + 1, i) = (staggerIdx + 1 - i) * PollSecs
              <7>1. PICK m \in Nat : m = staggerIdx + 1
                BY <1>2
              <7>2. StaggerAge(m, i) = (m - i) * PollSecs
                BY <5>2, <7>1 DEF StaggerAge
              <7> QED
                BY <1>2, <3>1, <7>1, <7>2, PollSecsAssumption
            <6> QED
              BY <5>1, <5>2, <6>1, <6>2
          <5> QED
            BY <3>1, <4>1, <4>2, <5>3, <1>2, OneMoreTimer, TimesMonotone
        <4>4. CASE ~(i <= staggerIdx)
          <5>1. ~(i <= staggerIdx + 1) /\ staggerIdx \in Nat
            BY <1>2, <3>1, <3>3, <4>4
          <5>2. StaggerAge(staggerIdx, i) = staggerIdx * PollSecs /\ StaggerAge(staggerIdx + 1, i) = (staggerIdx + 1) * PollSecs
            BY <4>4, <5>1 DEF StaggerAge
          <5> QED
            BY <3>1, <4>1, <4>2, <5>1, <5>2, <1>2, OneMoreTimer, TimesMonotone
        <4> QED
          BY <4>3, <4>4
      <3> QED
        BY <3>2, <3>3
    <2>3. ASSUME staggerComplete' PROVE PolledInTime'
      <3>1. staggerIdx + 1 = Len(endpoints)
        <4>1. staggerIdx + 1 >= Len(endpoints)
          BY <1>1, <2>1, <2>3, Zenon
        <4> QED
          BY <1>2, <2>1, <4>1
      <3>2. \A i \in Indices : age'[i] <= (Len(endpoints) - 1) * PollSecs
        <4> SUFFICES ASSUME NEW i \in Indices PROVE age'[i] <= (Len(endpoints) - 1) * PollSecs
          OBVIOUS
        <4>1. i \in 1..Len(endpoints) /\ age'[i] <= StaggerAge(Len(endpoints), i) /\ age'[i] \in Nat
          BY <1>2, <1>3, <1>4, <2>2, <3>1 DEF ClientTypeOK
        <4>2. StaggerAge(Len(endpoints), i) = (Len(endpoints) - i) * PollSecs
          BY <4>1 DEF StaggerAge
        <4>3. Len(endpoints) - i \in Nat /\ Len(endpoints) - 1 \in Nat /\ Len(endpoints) - i <= Len(endpoints) - 1
          BY <1>2, <4>1
        <4>4. (Len(endpoints) - i) * PollSecs \in Nat /\ (Len(endpoints) - 1) * PollSecs \in Nat
              /\ (Len(endpoints) - i) * PollSecs <= (Len(endpoints) - 1) * PollSecs
          BY <4>3, TimesMonotone
        <4> QED
          BY <4>1, <4>2, <4>4
      <3> QED
        BY <1>3, <3>2 DEF PolledInTime
    <2>4. ~staggerComplete' => staggerIdx' < Len(endpoints)
      <3>1. ~staggerComplete' => ~(staggerIdx + 1 >= Len(endpoints))
        BY <1>1, <2>1, Zenon
      <3>2. ~(staggerIdx + 1 >= Len(endpoints)) => staggerIdx + 1 < Len(endpoints)
        BY <1>2
      <3> QED
        BY <2>1, <3>1, <3>2, Zenon
    <2> QED
      BY <1>3, <1>4, <2>1, <2>2, <2>3, <2>4 DEF ScheduleInv
  <1> QED
    BY <1>5, <1>6

\* After the first round an endpoint that is not polled was not due.
LEMMA IntervalStep ==
  ASSUME ScheduleInv, NEW secs \in Nat, IntervalPoll(secs), layout' = layout
  PROVE  ScheduleInv'
  <1>1. staggerComplete /\ Poll(Due(secs), secs) /\ UNCHANGED <<staggerIdx, staggerComplete>>
    BY DEF IntervalPoll
  <1>2. endpoints' = endpoints /\ Indices' = Indices
    BY <1>1 DEF Poll, Indices
  <1>3. ClientTypeOK'
    BY <1>1, PollTyped DEF ScheduleInv, ClientTypeOK
  <1>4. \A i \in Indices : age'[i] < endpoints[i].interval
    <2> SUFFICES ASSUME NEW i \in Indices PROVE age'[i] < endpoints[i].interval
      OBVIOUS
    <2>1. endpoints[i] \in Endpoints /\ age[i] \in Nat
      BY DEF ScheduleInv, ClientTypeOK, Indices
    <2>2. endpoints[i].interval \in Nat \ {0}
      BY <2>1 DEF Endpoints
    <2>3. CASE i \in Due(secs)
      BY <1>1, <2>2, <2>3 DEF Poll
    <2>4. CASE i \notin Due(secs)
      <3>1. age'[i] = age[i] + secs /\ ~(age[i] + secs >= endpoints[i].interval)
        BY <1>1, <2>4 DEF Poll, Due
      <3> QED
        BY <2>1, <2>2, <3>1
    <2> QED
      BY <2>3, <2>4
  <1>5. PolledInTime'
    BY <1>2, <1>4 DEF PolledInTime
  <1> QED
    BY <1>1, <1>2, <1>3, <1>5 DEF ScheduleInv

LEMMA ScheduleStep ==
  ASSUME ScheduleInv, [PluginNext]_vars
  PROVE  ScheduleInv'
  <1>1. ASSUME UNCHANGED <<clientVars, layout>> PROVE ScheduleInv'
    BY <1>1, ClientSame DEF clientVars
  <1>2. ASSUME NEW secs \in {0, PollSecs}, PollDue(secs), layout' = layout PROVE ScheduleInv'
    BY <1>2, StaggerStep, IntervalStep, PollSecsAssumption DEF PollDue
  <1>3. ASSUME NEW eps \in Seq(Endpoints), ClientLoads(eps), layout' = layout PROVE ScheduleInv'
    BY <1>3, ClientFresh DEF ScheduleInv
  <1>4. CASE Timer
    BY <1>2, <1>4 DEF Timer
  <1>5. CASE Refresh
    BY <1>2, <1>5 DEF Refresh
  <1>6. CASE Quit
    <2>1. <<>> \in Seq(Endpoints)
      OBVIOUS
    <2> QED
      BY <1>3, <1>6, <2>1 DEF Quit
  <1>7. CASE Load
    BY <1>3, <1>7, RegistrationsTyped DEF Load, ScheduleInv
  <1>8. ASSUME NEW i \in Indices, Steps(i) \/ Answers(i) PROVE ScheduleInv'
    BY <1>8, ClientSame
    DEF Steps, Answers, SnapshotReads, PerceptionAppends, CommandEnds, Ends, Advances
  <1> QED
    BY <1>1, <1>4, <1>5, <1>6, <1>7, <1>8
    DEF PluginNext, vars, PressKey, PipeMessage, OtherSubmits, RowIsEdited

LEMMA ScheduleInit == PluginInit => ScheduleInv
  <1> SUFFICES ASSUME PluginInit PROVE ScheduleInv
    OBVIOUS
  <1>1. layout \in Layouts /\ ClientInit(Registered(layout.modules))
    BY DEF PluginInit
  <1>2. Registered(layout.modules) \in Seq(Endpoints)
    BY <1>1, RegistrationsTyped
  <1>3. PICK eps \in Seq(Endpoints) : eps = Registered(layout.modules)
    BY <1>2
  <1>4. endpoints = eps /\ age = [i \in DOMAIN eps |-> 0] /\ running = [i \in DOMAIN eps |-> <<>>]
    BY <1>1, <1>3 DEF ClientInit, NewClient
  <1>5. staggerIdx = 0 /\ staggerComplete = FALSE
    BY <1>1 DEF ClientInit
  <1>6. Len(eps) \in Nat /\ DOMAIN eps = 1..Len(eps)
    BY <1>3
  <1>7. ClientTypeOK
    <2>1. endpoints \in Seq(Endpoints) /\ Indices = DOMAIN eps
      BY <1>4 DEF Indices
    <2>2. age \in [Indices -> Nat] /\ DOMAIN running = Indices
      BY <1>4, <2>1
    <2>3. staggerIdx \in 0..Len(endpoints) /\ staggerComplete \in BOOLEAN
      <3>1. 0 \in 0..Len(eps)
        BY <1>6
      <3> QED
        BY <1>4, <1>5, <3>1, Zenon
    <2> QED
      BY <2>1, <2>2, <2>3 DEF ClientTypeOK
  <1>8. \A i \in Indices : age[i] <= StaggerAge(0, i)
    <2> SUFFICES ASSUME NEW i \in 1..Len(eps) PROVE 0 <= StaggerAge(0, i)
      BY <1>4, <1>6 DEF Indices
    <2> QED
      BY PollSecsAssumption DEF StaggerAge
  <1>9. staggerIdx < Len(endpoints) \/ Len(endpoints) = 0
    BY <1>4, <1>5, <1>6
  <1> QED
    BY <1>1, <1>5, <1>7, <1>8, <1>9, Zenon DEF ScheduleInv

\* For any list of endpoints and any intervals, no endpoint waits longer than
\* its interval or a first round, whatever the r key does in between.
THEOREM PollsInTime == PluginSpec => []PolledInTime
  <1>1. ScheduleInv => PolledInTime
    <2> SUFFICES ASSUME ScheduleInv, ~staggerComplete, Len(endpoints) # 0, NEW i \in Indices
                 PROVE  age[i] <= (Len(endpoints) - 1) * PollSecs
      <3>1. Len(endpoints) = 0 /\ ScheduleInv => Indices = {}
        BY DEF ScheduleInv, ClientTypeOK, Indices
      <3> QED
        BY <3>1 DEF ScheduleInv, PolledInTime
    <2>1. /\ Len(endpoints) \in Nat /\ i \in 1..Len(endpoints) /\ staggerIdx \in Nat
          /\ staggerIdx <= Len(endpoints) - 1 /\ age[i] \in Nat
      BY DEF ScheduleInv, ClientTypeOK, Indices
    <2>2. age[i] <= StaggerAge(staggerIdx, i)
      BY DEF ScheduleInv
    <2>3. PICK n \in Nat : StaggerAge(staggerIdx, i) = n * PollSecs /\ n <= Len(endpoints) - 1
      <3>1. CASE i <= staggerIdx
        <4>1. StaggerAge(staggerIdx, i) = (staggerIdx - i) * PollSecs
          BY <3>1 DEF StaggerAge
        <4>2. staggerIdx - i \in Nat /\ staggerIdx - i <= Len(endpoints) - 1
          BY <2>1, <3>1
        <4> QED
          BY <4>1, <4>2
      <3>2. CASE ~(i <= staggerIdx)
        BY <2>1, <3>2 DEF StaggerAge
      <3> QED
        BY <3>1, <3>2
    <2>4. Len(endpoints) - 1 \in Nat
      BY <2>1, <2>3
    <2>5. n * PollSecs \in Nat /\ (Len(endpoints) - 1) * PollSecs \in Nat /\ n * PollSecs <= (Len(endpoints) - 1) * PollSecs
      BY <2>3, <2>4, TimesMonotone
    <2> QED
      BY <2>1, <2>2, <2>3, <2>5
  <1> QED
    BY <1>1, ScheduleInit, ScheduleStep, PTL DEF PluginSpec

----------------------------------------------------------------------------
(* Snapshots *)

Entries ==
  {PerceiveNote} \cup {Ingested(k) : k \in Keys} \cup {RunOf(k)[1] : k \in Keys} \cup {RunOf(k)[2] : k \in Keys}

Fields == {"event_count", "last_seq", "verify_chain_ok", "latest_perceive", "edges", "warrant_count"}

\* Everything that a command may have done.
Values == (UNION {{ReadAt(f, entries) : f \in Fields} : entries \in Seq(Entries)}) \cup {TRUE, FALSE, "appended"}

LEMMA ReadIsValue ==
  /\ \A f \in Fields, entries \in Seq(Entries) : ReadAt(f, entries) \in Values
  /\ TRUE \in Values /\ FALSE \in Values /\ "appended" \in Values
  <1>1. ASSUME NEW f \in Fields, NEW entries \in Seq(Entries) PROVE ReadAt(f, entries) \in Values
    <2>1. ReadAt(f, entries) \in {ReadAt(g, entries) : g \in Fields}
      OBVIOUS
    <2> QED
      BY <2>1, Zenon DEF Values
  <1>2. TRUE \in Values /\ FALSE \in Values /\ "appended" \in Values
    BY Zenon DEF Values
  <1> QED
    BY <1>1, <1>2

\* Where in the log each read so far was made, in order.
PartialCut(got, entries) ==
  \E cut \in [1..6 -> 0..Len(entries)] :
    /\ \A j \in 1..Len(got), k \in 1..Len(got) : j <= k => cut[j] <= cut[k]
    /\ \A j \in 1..Len(got) :
         Reads[j] # "verify_chain_ok" => got[j] = ReadAt(Reads[j], SubSeq(entries, 1, cut[j]))

Reading(got, entries) == got \in Seq(Values) /\ Len(got) <= 6 /\ PartialCut(got, entries)

IsCut(s, entries) == \E got : Reading(got, entries) /\ Complete(got) /\ s = Snapshot(got)

\* What was committed stays.
Grows(old, new) ==
  /\ old \in Seq(Entries) /\ new \in Seq(Entries)
  /\ Len(old) <= Len(new)
  /\ \A j \in 1..Len(old) : new[j] = old[j]

LEMMA ReadsAre ==
  /\ Len(Reads) = 6
  /\ DOMAIN Reads = 1..6
  /\ ToSet(Reads) = Fields
  /\ \A j \in 1..6 : Reads[j] \in Fields
  /\ Reads[1] = "event_count" /\ Reads[2] = "last_seq" /\ Reads[3] = "verify_chain_ok"
  /\ Reads[4] = "latest_perceive" /\ Reads[5] = "edges" /\ Reads[6] = "warrant_count"
  <1>1. /\ Len(Reads) = 6 /\ DOMAIN Reads = 1..6
        /\ Reads[1] = "event_count" /\ Reads[2] = "last_seq" /\ Reads[3] = "verify_chain_ok"
        /\ Reads[4] = "latest_perceive" /\ Reads[5] = "edges" /\ Reads[6] = "warrant_count"
    BY DEF Reads
  <1>2. 1..6 = {1, 2, 3, 4, 5, 6}
    OBVIOUS
  <1>3. \A j \in 1..6 : Reads[j] \in Fields
    BY <1>1, <1>2 DEF Fields
  <1>4. ToSet(Reads) = Fields
    BY <1>1, <1>2, ZenonT(40) DEF ToSet, Fields
  <1> QED
    BY <1>1, <1>3, <1>4

LEMMA GrowsKeeps ==
  ASSUME NEW old, NEW new, Grows(old, new), NEW n \in 0..Len(old)
  PROVE  SubSeq(new, 1, n) = SubSeq(old, 1, n)
  <1>1. Len(old) \in Nat /\ Len(new) \in Nat /\ n <= Len(new) /\ n <= Len(old) /\ n \in Nat
    BY DEF Grows
  <1>2. SubSeq(new, 1, n) \in Seq(Entries) /\ Len(SubSeq(new, 1, n)) = n
        /\ \A j \in 1..n : SubSeq(new, 1, n)[j] = new[j]
    BY <1>1, SubSeqProperties DEF Grows
  <1>3. SubSeq(old, 1, n) \in Seq(Entries) /\ Len(SubSeq(old, 1, n)) = n
        /\ \A j \in 1..n : SubSeq(old, 1, n)[j] = old[j]
    BY <1>1, SubSeqProperties DEF Grows
  <1>4. \A j \in 1..n : SubSeq(new, 1, n)[j] = SubSeq(old, 1, n)[j]
    <2>1. \A j \in 1..n : j \in 1..Len(old)
      BY <1>1
    <2> QED
      BY <1>2, <1>3, <2>1 DEF Grows
  <1> QED
    BY <1>2, <1>3, <1>4, SeqEqual

\* What was a cut of the log still is one when the log has grown.
LEMMA CutStays ==
  ASSUME NEW old, NEW new, Grows(old, new), NEW got, Reading(got, old)
  PROVE  Reading(got, new)
  <1>1. PICK cut \in [1..6 -> 0..Len(old)] :
          /\ \A j \in 1..Len(got), k \in 1..Len(got) : j <= k => cut[j] <= cut[k]
          /\ \A j \in 1..Len(got) :
               Reads[j] # "verify_chain_ok" => got[j] = ReadAt(Reads[j], SubSeq(old, 1, cut[j]))
    BY DEF Reading, PartialCut
  <1>2. Len(got) \in Nat /\ Len(got) <= 6
    BY DEF Reading
  <1>3. \A j \in 1..Len(got) : cut[j] \in 0..Len(old)
    BY <1>2
  <1>4. \A j \in 1..Len(got) : SubSeq(new, 1, cut[j]) = SubSeq(old, 1, cut[j])
    BY <1>3, GrowsKeeps
  <1>5. cut \in [1..6 -> 0..Len(new)]
    BY DEF Grows
  <1> QED
    BY <1>1, <1>4, <1>5, Zenon DEF Reading, PartialCut

\* What the next read of an unfinished reader may return.
LEMMA NextIsValue ==
  ASSUME NEW got, log \in Seq(Entries), Reading(got, log), ~Complete(got),
         NEW mayFail, NEW next \in NextReads(got, mayFail)
  PROVE  next \in Values
  <1> DEFINE field == Reads[Len(got) + 1]
             well == ~altered /\ ~mayFail
  <1>1. Len(got) + 1 \in 1..6
    <2>1. Len(got) # 6
      BY ReadsAre DEF Complete
    <2>2. PICK n \in Nat : n = Len(got) /\ n <= 6
      BY DEF Reading
    <2>3. n + 1 \in 1..6
      BY <2>1, <2>2
    <2> QED
      BY <2>2, <2>3
  <1>2. next \in IF field = "verify_chain_ok" THEN {~altered, well} ELSE {ReadAt(field, log)}
    BY DEF NextReads, ReadsOf
  <1>3. field \in Fields
    BY <1>1, ReadsAre
  <1> HIDE DEF field
  <1>4. CASE field = "verify_chain_ok"
    <2>1. next = (~altered) \/ next = well
      BY <1>2, <1>4, Zenon
    <2>2. (~altered) \in {TRUE, FALSE} /\ well \in {TRUE, FALSE}
      <3>1. (~altered) \in {TRUE, FALSE}
        BY Zenon
      <3>2. well \in {TRUE, FALSE}
        BY Zenon
      <3> QED
        BY <3>1, <3>2
    <2> HIDE DEF well
    <2>3. next \in {TRUE, FALSE}
      BY <2>1, <2>2, Zenon
    <2> QED
      BY <2>3, ReadIsValue, Zenon
  <1>5. CASE field # "verify_chain_ok"
    <2>1. next = ReadAt(field, log)
      BY <1>2, <1>5, Zenon
    <2> QED
      BY <1>3, <2>1, ReadIsValue
  <1> QED
    BY <1>4, <1>5

\* One more read, of what is committed now.
LEMMA CutAdvances ==
  ASSUME NEW got, log \in Seq(Entries), Reading(got, log), ~Complete(got),
         NEW mayFail, NEW next \in NextReads(got, mayFail)
  PROVE  Reading(Append(got, next), log)
  <1>1. PICK cut \in [1..6 -> 0..Len(log)] :
          /\ \A j \in 1..Len(got), k \in 1..Len(got) : j <= k => cut[j] <= cut[k]
          /\ \A j \in 1..Len(got) :
               Reads[j] # "verify_chain_ok" => got[j] = ReadAt(Reads[j], SubSeq(log, 1, cut[j]))
    BY DEF Reading, PartialCut
  <1>2. got \in Seq(Values) /\ Len(got) \in Nat /\ Len(got) <= 5 /\ Len(log) \in Nat
    <2>1. Len(got) # 6
      BY ReadsAre DEF Complete
    <2> QED
      BY <2>1 DEF Reading
  <1> DEFINE all == Append(got, next)
             now == [j \in 1..6 |-> IF j <= Len(got) THEN cut[j] ELSE Len(log)]
  <1>3. Len(got) + 1 \in 1..6
    BY <1>2
  <1>4. Reads[Len(got) + 1] # "verify_chain_ok" => next = ReadAt(Reads[Len(got) + 1], log)
    BY Zenon DEF NextReads, ReadsOf
  <1>5. next \in Values
    BY NextIsValue
  <1>6. /\ all \in Seq(Values) /\ Len(all) = Len(got) + 1 /\ all[Len(got) + 1] = next
        /\ \A j \in 1..Len(got) : all[j] = got[j]
    BY <1>2, <1>5
  <1>7. now \in [1..6 -> 0..Len(log)]
    BY <1>2
  <1>8. ASSUME NEW j \in 1..Len(all), NEW k \in 1..Len(all), j <= k
        PROVE  now[j] <= now[k]
    <2>1. j \in 1..6 /\ k \in 1..6
      BY SMTT(30), <1>2, <1>6
    <2>2. now[j] = (IF j <= Len(got) THEN cut[j] ELSE Len(log)) /\ now[k] = (IF k <= Len(got) THEN cut[k] ELSE Len(log))
      BY <2>1
    <2>3. cut[j] \in 0..Len(log) /\ cut[k] \in 0..Len(log)
      BY <2>1
    <2>4. CASE k <= Len(got)
      <3>1. j \in 1..Len(got) /\ k \in 1..Len(got)
        BY <1>2, <1>8, <2>1, <2>4
      <3>2. now[j] = cut[j] /\ now[k] = cut[k]
        BY <2>2, <3>1
      <3> QED
        BY <1>1, <1>8, <3>1, <3>2
    <2>5. CASE ~(k <= Len(got))
      <3>1. now[k] = Len(log)
        BY <2>2, <2>5
      <3>2. now[j] \in 0..Len(log)
        BY <1>7, <2>1
      <3> HIDE DEF now
      <3>3. PICK n \in 0..Len(log) : n = now[j]
        BY <3>2
      <3>4. n <= Len(log)
        BY <1>2
      <3> QED
        BY <3>1, <3>3, <3>4
    <2> QED
      BY <2>4, <2>5
  <1>9. SubSeq(log, 1, Len(log)) = log
    <2>1. SubSeq(log, 1, Len(log)) \in Seq(Entries) /\ Len(SubSeq(log, 1, Len(log))) = Len(log)
          /\ \A j \in 1..Len(log) : SubSeq(log, 1, Len(log))[j] = log[j]
      BY <1>2, SubSeqProperties
    <2> QED
      BY <2>1, SeqEqual
  <1>10. ASSUME NEW j \in 1..Len(all), Reads[j] # "verify_chain_ok"
         PROVE  all[j] = ReadAt(Reads[j], SubSeq(log, 1, now[j]))
    <2>1. j \in 1..6
      BY <1>2, <1>6
    <2>2. CASE j \in 1..Len(got)
      <3>1. now[j] = cut[j]
        BY <2>1, <2>2
      <3> HIDE DEF all, now
      <3> QED
        BY <1>1, <1>6, <1>10, <2>2, <3>1
    <2>3. CASE j \notin 1..Len(got)
      <3>1. j = Len(got) + 1
        BY <1>2, <1>6, <2>3
      <3>2. now[j] = Len(log)
        BY <1>2, <2>1, <3>1
      <3> HIDE DEF all, now
      <3> QED
        BY <1>4, <1>6, <1>9, <1>10, <3>1, <3>2
    <2> QED
      BY <2>2, <2>3
  <1>11. PartialCut(all, log)
    <2> HIDE DEF all, now
    <2> QED
      BY <1>7, <1>8, <1>10 DEF PartialCut
  <1>12. Len(all) <= 6 /\ all = Append(got, next)
    BY <1>2, <1>6
  <1> HIDE DEF all
  <1> QED
    BY <1>6, <1>11, <1>12 DEF Reading

LEMMA GrowsSame == ASSUME log \in Seq(Entries) PROVE Grows(log, log)
  BY DEF Grows

LEMMA GrowsByConcat ==
  ASSUME NEW old, NEW tail \in Seq(Entries), old \in Seq(Entries)
  PROVE  Grows(old, old \o tail)
  <1>1. /\ old \o tail \in Seq(Entries)
        /\ Len(old \o tail) = Len(old) + Len(tail)
        /\ \A j \in 1..Len(old) : (old \o tail)[j] = old[j]
    <2>1. Len(old) \in Nat /\ Len(tail) \in Nat
      OBVIOUS
    <2>2. \A j \in 1..Len(old) : j \in 1..(Len(old) + Len(tail))
      BY <2>1
    <2> QED
      BY <2>1, <2>2, ConcatProperties
  <1> QED
    BY <1>1 DEF Grows

\* Whoever commits, commits at the end of the log.
LEMMA LogStep ==
  ASSUME log \in Seq(Entries), altered \in BOOLEAN, [PluginNext]_vars
  PROVE  Grows(log, log') /\ altered' \in BOOLEAN
  <1>1. CASE UNCHANGED logVars
    <2>1. log' = log
      BY <1>1 DEF logVars
    <2>2. altered' = altered \/ altered' = TRUE
      BY DEF PluginNext, vars, Timer, Refresh, Quit, Load, PressKey, PipeMessage, Steps, Answers,
             CommandEnds, SnapshotReads, PerceptionAppends, OtherSubmits, RowIsEdited, AlterRow
    <2> QED
      BY <2>1, <2>2, GrowsSame
  <1>2. CASE AddNote(PerceiveNote) /\ UNCHANGED altered
    <2>1. log' = Append(log, PerceiveNote) /\ PerceiveNote \in Entries
      BY <1>2 DEF AddNote, Entries
    <2>2. Append(log, PerceiveNote) = log \o <<PerceiveNote>> /\ <<PerceiveNote>> \in Seq(Entries)
      BY <2>1
    <2> QED
      BY <1>2, <2>1, <2>2, GrowsByConcat
  <1>3. CASE (\E k \in Keys, h \in Hashes, run \in BOOLEAN : Admit(k, h, run)) /\ UNCHANGED altered
    <2>1. PICK k \in Keys, h \in Hashes, run \in BOOLEAN : Admit(k, h, run)
      BY <1>3
    <2> DEFINE first == <<Ingested(k)>>
               rest == IF run THEN RunOf(k) ELSE <<>>
    <2>2. Ingested(k) \in Entries /\ RunOf(k)[1] \in Entries /\ RunOf(k)[2] \in Entries
      BY DEF Entries
    <2>3. first \in Seq(Entries)
      BY <2>2
    <2>4. rest \in Seq(Entries)
      <3>1. RunOf(k) = <<RunOf(k)[1], RunOf(k)[2]>>
        BY DEF RunOf
      <3>2. \A a \in Entries, b \in Entries : <<a, b>> \in Seq(Entries)
        OBVIOUS
      <3>3. RunOf(k) \in Seq(Entries)
        BY <2>2, <3>1, <3>2, Zenon
      <3>4. <<>> \in Seq(Entries)
        OBVIOUS
      <3> QED
        BY <3>3, <3>4, Zenon
    <2>5. log' = log \o first \o rest
      BY <2>1 DEF Admit
    <2> HIDE DEF first, rest
    <2>6. Grows(log, log \o first)
      BY <2>3, GrowsByConcat
    <2>7. Grows(log \o first, log \o first \o rest)
      BY <2>4, <2>6, GrowsByConcat DEF Grows
    <2>8. Grows(log, log')
      <3>1. Len(log) \in Nat /\ Len(log \o first) \in Nat /\ Len(log \o first \o rest) \in Nat
        BY <2>6, <2>7 DEF Grows
      <3>2. \A j \in 1..Len(log) : j \in 1..Len(log \o first)
        BY <2>6, <3>1 DEF Grows
      <3>3. \A j \in 1..Len(log) : (log \o first \o rest)[j] = log[j]
        BY <2>6, <2>7, <3>2 DEF Grows
      <3>4. Len(log) <= Len(log \o first \o rest)
        BY <2>6, <2>7, <3>1 DEF Grows
      <3> QED
        BY <2>5, <2>6, <2>7, <3>3, <3>4 DEF Grows
    <2> QED
      BY <1>3, <2>8
  <1> QED
    BY <1>1, <1>2, <1>3
    DEF PluginNext, vars, Timer, Refresh, Quit, Load, PressKey, PipeMessage, Steps, Answers,
        CommandEnds, SnapshotReads, PerceptionAppends, OtherSubmits, RowIsEdited, AlterRow

\* What the commands of one endpoint have read.
Reliable(tag, cmds, entries) ==
  /\ cmds \in Seq(Seq(Values))
  /\ tag \in ReaderTags => \A p \in 1..Len(cmds) : Reading(cmds[p], entries)

LEMMA NothingRead ==
  ASSUME NEW entries \in Seq(Entries)
  PROVE  Reading(<<>>, entries)
  <1> DEFINE cut == [j \in 1..6 |-> 0]
  <1>1. cut \in [1..6 -> 0..Len(entries)]
    <2>1. 0 \in 0..Len(entries)
      BY LenProperties
    <2> QED
      BY <2>1
  <1>2. Len(<<>>) = 0 /\ 1..0 = {} /\ <<>> \in Seq(Values)
    OBVIOUS
  <1>3. PartialCut(<<>>, entries)
    <2> HIDE DEF cut
    <2> QED
      BY <1>1, <1>2, Zenon DEF PartialCut
  <1> QED
    BY <1>2, <1>3 DEF Reading

LEMMA ReliableGrows ==
  ASSUME NEW tag, NEW cmds, NEW old, NEW new, Reliable(tag, cmds, old), Grows(old, new)
  PROVE  Reliable(tag, cmds, new)
  BY CutStays DEF Reliable

LEMMA ReliablePolled ==
  ASSUME NEW tag, NEW cmds, NEW entries \in Seq(Entries), Reliable(tag, cmds, entries)
  PROVE  Reliable(tag, Append(cmds, <<>>), entries)
  <1>1. cmds \in Seq(Seq(Values)) /\ <<>> \in Seq(Values) /\ Len(cmds) \in Nat
    BY DEF Reliable
  <1>2. /\ Append(cmds, <<>>) \in Seq(Seq(Values))
        /\ Len(Append(cmds, <<>>)) = Len(cmds) + 1
        /\ \A p \in 1..Len(cmds) : Append(cmds, <<>>)[p] = cmds[p]
        /\ Append(cmds, <<>>)[Len(cmds) + 1] = <<>>
    BY <1>1, AppendProperties
  <1>3. \A p \in 1..(Len(cmds) + 1) : p \in 1..Len(cmds) \/ p = Len(cmds) + 1
    BY <1>1
  <1> QED
    BY <1>2, <1>3, NothingRead DEF Reliable

LEMMA ReliableEnded ==
  ASSUME NEW tag, NEW cmds, NEW entries, Reliable(tag, cmds, entries), NEW p \in 1..Len(cmds)
  PROVE  Reliable(tag, RemoveAt(cmds, p), entries)
  <1>1. cmds \in Seq(Seq(Values)) /\ Len(cmds) \in Nat
    BY DEF Reliable
  <1>2. /\ SubSeq(cmds, 1, p - 1) \in Seq(Seq(Values))
        /\ Len(SubSeq(cmds, 1, p - 1)) = p - 1
        /\ \A q \in 1..(p - 1) : SubSeq(cmds, 1, p - 1)[q] = cmds[q]
    <2>1. \A q \in 1..(p - 1) : cmds[q] \in Seq(Values)
      BY <1>1
    <2> QED
      BY <1>1, <2>1, SubSeqProperties
  <1>3. /\ SubSeq(cmds, p + 1, Len(cmds)) \in Seq(Seq(Values))
        /\ Len(SubSeq(cmds, p + 1, Len(cmds))) = Len(cmds) - p
        /\ \A q \in 1..(Len(cmds) - p) : SubSeq(cmds, p + 1, Len(cmds))[q] = cmds[p + q]
    <2>1. \A q \in (p + 1)..Len(cmds) : cmds[q] \in Seq(Values)
      BY <1>1
    <2>2. SubSeq(cmds, p + 1, Len(cmds)) \in Seq(Seq(Values))
      BY <1>1, <2>1, SubSeqProperties
    <2>3. Len(SubSeq(cmds, p + 1, Len(cmds))) = IF p + 1 <= Len(cmds) THEN Len(cmds) - (p + 1) + 1 ELSE 0
      BY <1>1, <2>1, SubSeqProperties
    <2>4. \A q \in 1..(Len(cmds) - (p + 1) + 1) : SubSeq(cmds, p + 1, Len(cmds))[q] = cmds[p + 1 + q - 1]
      BY <1>1, <2>1, SubSeqProperties
    <2>5. \A q \in 1..(Len(cmds) - p) : q \in 1..(Len(cmds) - (p + 1) + 1) /\ p + 1 + q - 1 = p + q
      BY <1>1
    <2> QED
      BY <1>1, <2>2, <2>3, <2>4, <2>5
  <1> DEFINE front == SubSeq(cmds, 1, p - 1)
             back == SubSeq(cmds, p + 1, Len(cmds))
  <1> HIDE DEF front, back
  <1>4. RemoveAt(cmds, p) = front \o back
    BY DEF RemoveAt, front, back
  <1>5. /\ front \o back \in Seq(Seq(Values))
        /\ Len(front \o back) = Len(front) + Len(back)
        /\ \A q \in 1..Len(front) + Len(back) :
             (front \o back)[q] = IF q <= Len(front) THEN front[q] ELSE back[q - Len(front)]
    BY <1>2, <1>3, ConcatProperties DEF front, back
  <1>6. ASSUME NEW q \in 1..Len(front \o back) PROVE \E r \in 1..Len(cmds) : (front \o back)[q] = cmds[r]
    <2>1. Len(front) = p - 1 /\ Len(back) = Len(cmds) - p
      BY <1>2, <1>3 DEF front, back
    <2>2. q \in 1..(Len(cmds) - 1)
      BY <1>1, <1>5, <2>1
    <2>3. CASE q <= p - 1
      <3>1. q \in 1..(p - 1) /\ q \in 1..Len(cmds)
        BY <1>1, <2>2, <2>3
      <3>2. (front \o back)[q] = cmds[q]
        BY <1>2, <1>5, <2>1, <2>3, <3>1 DEF front
      <3> QED
        BY <3>1, <3>2
    <2>4. CASE ~(q <= p - 1)
      <3>1. q - (p - 1) \in 1..(Len(cmds) - p) /\ p + (q - (p - 1)) = q + 1 /\ q + 1 \in 1..Len(cmds)
        BY <1>1, <2>2, <2>4
      <3>2. (front \o back)[q] = back[q - (p - 1)]
        BY <1>5, <2>1, <2>4
      <3>3. back[q - (p - 1)] = cmds[q + 1]
        BY <1>3, <3>1 DEF back
      <3> QED
        BY <3>1, <3>2, <3>3
    <2> QED
      BY <2>3, <2>4
  <1> QED
    BY <1>4, <1>5, <1>6 DEF Reliable

LEMMA ReliableAdvanced ==
  ASSUME NEW tag, NEW cmds, NEW entries, Reliable(tag, cmds, entries), NEW p \in 1..Len(cmds),
         NEW done \in Values, tag \in ReaderTags => Reading(Append(cmds[p], done), entries)
  PROVE  Reliable(tag, [cmds EXCEPT ![p] = Append(@, done)], entries)
  <1>1. cmds \in Seq(Seq(Values)) /\ cmds[p] \in Seq(Values)
    BY DEF Reliable
  <1>2. Append(cmds[p], done) \in Seq(Values)
    BY <1>1
  <1> DEFINE longer == Append(cmds[p], done)
  <1> HIDE DEF longer
  <1>3. /\ [cmds EXCEPT ![p] = longer] \in Seq(Seq(Values))
        /\ Len([cmds EXCEPT ![p] = longer]) = Len(cmds)
        /\ \A q \in 1..Len(cmds) : [cmds EXCEPT ![p] = longer][q] = IF q = p THEN longer ELSE cmds[q]
    <2>1. longer \in Seq(Values)
      BY <1>2 DEF longer
    <2> QED
      BY <1>1, <2>1, ExceptSeq
  <1>4. [cmds EXCEPT ![p] = Append(@, done)] = [cmds EXCEPT ![p] = longer]
    BY DEF longer
  <1>5. tag \in ReaderTags => Reading(longer, entries)
    BY DEF longer
  <1> QED
    BY <1>3, <1>4, <1>5 DEF Reliable

\* Every reader has read the log forwards, and the log has only grown.
ReadersInv ==
  /\ log \in Seq(Entries)
  /\ altered \in BOOLEAN
  /\ DOMAIN running = Indices
  /\ \A i \in Indices : Reliable(endpoints[i].tag, running[i], log)

\* The commands after a step, judged by the log before it.
LEMMA CommandsStep ==
  ASSUME ReadersInv, [PluginNext]_vars
  PROVE  DOMAIN running' = Indices' /\ \A i \in Indices' : Reliable(endpoints'[i].tag, running'[i], log)
  <1>1. ASSUME UNCHANGED clientVars
        PROVE  DOMAIN running' = Indices' /\ \A i \in Indices' : Reliable(endpoints'[i].tag, running'[i], log)
    BY <1>1 DEF clientVars, Indices, ReadersInv
  <1>2. ASSUME NEW polled, NEW secs, Poll(polled, secs)
        PROVE  DOMAIN running' = Indices' /\ \A i \in Indices' : Reliable(endpoints'[i].tag, running'[i], log)
    <2>1. endpoints' = endpoints /\ Indices' = Indices /\ DOMAIN running' = Indices
      BY <1>2 DEF Poll, Indices
    <2>2. \A i \in Indices : running'[i] = running[i] \/ running'[i] = Append(running[i], <<>>)
      BY <1>2 DEF Poll
    <2> QED
      BY <2>1, <2>2, ReliablePolled DEF ReadersInv
  <1>3. ASSUME NEW eps, ClientLoads(eps)
        PROVE  DOMAIN running' = Indices' /\ \A i \in Indices' : Reliable(endpoints'[i].tag, running'[i], log)
    <2>1. endpoints' = eps /\ running' = [i \in DOMAIN eps |-> <<>>]
      BY <1>3 DEF ClientLoads, NewClient
    <2>2. \A tag : Reliable(tag, <<>>, log)
      <3>1. <<>> \in Seq(Seq(Values)) /\ 1..Len(<<>>) = {}
        OBVIOUS
      <3> QED
        BY <3>1 DEF Reliable
    <2> QED
      BY <2>1, <2>2 DEF Indices
  <1>4. ASSUME NEW i \in Indices, NEW cmds, UNCHANGED endpoints, running' = [running EXCEPT ![i] = cmds],
               Reliable(endpoints[i].tag, cmds, log)
        PROVE  DOMAIN running' = Indices' /\ \A j \in Indices' : Reliable(endpoints'[j].tag, running'[j], log)
    <2>1. DOMAIN running' = Indices /\ Indices' = Indices
      BY <1>4 DEF ReadersInv, Indices
    <2>2. \A j \in Indices : running'[j] = IF j = i THEN cmds ELSE running[j]
      BY <1>4 DEF ReadersInv
    <2> QED
      BY <1>4, <2>1, <2>2 DEF ReadersInv
  <1>5. ASSUME NEW i \in Indices, NEW p \in DOMAIN running[i]
        PROVE  p \in 1..Len(running[i])
    BY <1>5 DEF ReadersInv, Reliable
  <1>6. ASSUME NEW i \in Indices, NEW p \in DOMAIN running[i], CommandEnds(i, p)
        PROVE  DOMAIN running' = Indices' /\ \A j \in Indices' : Reliable(endpoints'[j].tag, running'[j], log)
    <2>1. running' = [running EXCEPT ![i] = RemoveAt(running[i], p)] /\ UNCHANGED endpoints
      BY <1>6 DEF CommandEnds, Ends
    <2>2. Reliable(endpoints[i].tag, RemoveAt(running[i], p), log)
      BY <1>5, <1>6, ReliableEnded DEF ReadersInv
    <2> QED
      BY <1>4, <2>1, <2>2
  <1>7. ASSUME NEW i \in Indices, NEW p \in DOMAIN running[i], NEW done \in Values, Advances(i, p, done),
               endpoints[i].tag \in ReaderTags => Reading(Append(running[i][p], done), log)
        PROVE  DOMAIN running' = Indices' /\ \A j \in Indices' : Reliable(endpoints'[j].tag, running'[j], log)
    <2>1. running' = [running EXCEPT ![i] = [running[i] EXCEPT ![p] = Append(@, done)]] /\ UNCHANGED endpoints
      BY <1>7 DEF Advances
    <2>2. Reliable(endpoints[i].tag, [running[i] EXCEPT ![p] = Append(@, done)], log)
      BY <1>5, <1>7, ReliableAdvanced DEF ReadersInv
    <2> QED
      BY <1>4, <2>1, <2>2
  <1>8. ASSUME NEW i \in Indices, NEW p \in DOMAIN running[i], SnapshotReads(i, p)
        PROVE  DOMAIN running' = Indices' /\ \A j \in Indices' : Reliable(endpoints'[j].tag, running'[j], log)
    <2>1. endpoints[i].tag \in ReaderTags /\ ~Complete(running[i][p])
      BY <1>8 DEF SnapshotReads
    <2>2. PICK next \in NextReads(running[i][p], layout.failures) : Advances(i, p, next)
      BY <1>8 DEF SnapshotReads
    <2>3. Reading(running[i][p], log)
      BY <1>5, <2>1 DEF ReadersInv, Reliable
    <2>4. Reading(Append(running[i][p], next), log)
      BY <2>1, <2>3, CutAdvances DEF ReadersInv
    <2>5. next \in Values
      BY <2>1, <2>3, NextIsValue DEF ReadersInv
    <2> QED
      BY <1>7, <2>2, <2>4, <2>5
  <1>9. ASSUME NEW i \in Indices, NEW p \in DOMAIN running[i], PerceptionAppends(i, p)
        PROVE  DOMAIN running' = Indices' /\ \A j \in Indices' : Reliable(endpoints'[j].tag, running'[j], log)
    <2>1. endpoints[i].tag \notin ReaderTags
      BY <1>9 DEF PerceptionAppends, PerceiveTag, ReaderTags
    <2> QED
      BY <1>7, <1>9, <2>1, ReadIsValue DEF PerceptionAppends
  <1>10. CASE Timer \/ Refresh
    BY <1>2, <1>10 DEF Timer, Refresh, PollDue, StaggerPoll, IntervalPoll
  <1>11. CASE Quit \/ Load
    BY <1>3, <1>11 DEF Quit, Load
  <1> QED
    BY <1>1, <1>6, <1>8, <1>9, <1>10, <1>11
    DEF PluginNext, vars, PressKey, PipeMessage, Steps, Answers, OtherSubmits, RowIsEdited

LEMMA ReadersStep ==
  ASSUME ReadersInv, [PluginNext]_vars
  PROVE  ReadersInv'
  BY CommandsStep, LogStep, ReliableGrows DEF ReadersInv, Grows

\* What the log's panels show, and what may reach them.
KernelFields == {"snapshot", "degraded", "receipt", "perceiveDegraded"}
KernelShows(st, entries) ==
  DOMAIN st = KernelFields /\ (st.snapshot = <<>> \/ IsCut(st.snapshot, entries))

WitnessFields == {"data", "ticks", "degraded"}
WitnessShows(st, entries) ==
  /\ DOMAIN st = WitnessFields
  /\ DOMAIN st.data = ToSet(WitnessTags)
  /\ st.data["ow_kernel"] = <<>> \/ IsCut(st.data["ow_kernel"], entries)

Truthful(ev, entries) ==
  ev.type = "BridgeData" /\ ev.tag \in ReaderTags /\ ev.payload.out = "json" => IsCut(ev.payload.data, entries)

ShownInv ==
  /\ "orchestrator_kernel" \in DOMAIN modules => KernelShows(modules["orchestrator_kernel"], log)
  /\ "orchestrator_witness" \in DOMAIN modules => WitnessShows(modules["orchestrator_witness"], log)

LEMMA KernelEvent ==
  ASSUME NEW st, NEW entries, KernelShows(st, entries), NEW ev, Truthful(ev, entries)
  PROVE  KernelShows(Panels!OnKernelEvent(st, ev), entries)
  <1>1. DOMAIN st = KernelFields
    BY DEF KernelShows
  <1>2. CASE ev.type = "BridgeData" /\ ev.tag = "kernel_snapshot" /\ ev.payload.out = "json"
    <2>1. IsCut(ev.payload.data, entries)
      BY <1>2 DEF Truthful, ReaderTags
    <2>2. Panels!OnKernelEvent(st, ev) = [st EXCEPT !.snapshot = ev.payload.data, !.degraded = FALSE]
      BY <1>2, Zenon DEF Panels!OnKernelEvent
    <2>3. /\ DOMAIN Panels!OnKernelEvent(st, ev) = KernelFields
          /\ Panels!OnKernelEvent(st, ev).snapshot = ev.payload.data
      BY <1>1, <2>2, Zenon DEF KernelFields
    <2> QED
      BY <2>1, <2>3 DEF KernelShows
  <1>3. CASE ~(ev.type = "BridgeData" /\ ev.tag = "kernel_snapshot" /\ ev.payload.out = "json")
    <2>1. /\ DOMAIN Panels!OnKernelEvent(st, ev) = KernelFields
          /\ Panels!OnKernelEvent(st, ev).snapshot = st.snapshot
      <3>1. CASE ev.type = "BridgeData" /\ ev.tag = "kernel_snapshot"
        BY <1>1, <1>3, <3>1, Zenon DEF Panels!OnKernelEvent, Panels!OnSnapshotError, KernelFields
      <3>2. CASE ev.type = "BridgeError" /\ ev.tag = "kernel_snapshot"
        BY <1>1, <3>2, Zenon DEF Panels!OnKernelEvent, Panels!OnSnapshotError, KernelFields
      <3>3. CASE ev.type = "BridgeData" /\ ev.tag = "perceive_snapshot"
        BY <1>1, <3>3, Zenon DEF Panels!OnKernelEvent, KernelFields
      <3>4. CASE ev.type = "BridgeError" /\ ev.tag = "perceive_snapshot"
        BY <1>1, <3>4, Zenon DEF Panels!OnKernelEvent, KernelFields
      <3>5. CASE ~(ev.type \in {"BridgeData", "BridgeError"} /\ ev.tag \in {"kernel_snapshot", "perceive_snapshot"})
        BY <1>1, <3>5, Zenon DEF Panels!OnKernelEvent
      <3> QED
        BY <3>1, <3>2, <3>3, <3>4, <3>5
    <2> QED
      BY <2>1 DEF KernelShows
  <1> QED
    BY <1>2, <1>3

LEMMA WitnessEvent ==
  ASSUME NEW st, NEW entries, WitnessShows(st, entries), NEW ev, Truthful(ev, entries)
  PROVE  WitnessShows(Panels!OnWitnessEvent(st, ev), entries)
  <1> DEFINE new == Panels!OnWitnessEvent(st, ev)
             fed == ev.type = "BridgeData" /\ ev.tag \in ToSet(WitnessTags) /\ ev.payload.out = "json"
  <1>1. DOMAIN st = WitnessFields /\ DOMAIN st.data = ToSet(WitnessTags) /\ "ow_kernel" \in ToSet(WitnessTags)
    BY WitnessReadsTheLog DEF WitnessShows
  <1>2. CASE fed
    <2>1. new = [data |-> [st.data EXCEPT ![ev.tag] = ev.payload.data],
                 ticks |-> [st.ticks EXCEPT ![ev.tag] = 0],
                 degraded |-> st.degraded \ {ev.tag}]
      BY <1>2, Zenon DEF Panels!OnWitnessEvent, Panels!Decoded
    <2>2. DOMAIN new = WitnessFields /\ new.data = [st.data EXCEPT ![ev.tag] = ev.payload.data]
      <3> DEFINE d == [st.data EXCEPT ![ev.tag] = ev.payload.data]
                 t == [st.ticks EXCEPT ![ev.tag] = 0]
                 g == st.degraded \ {ev.tag}
      <3> HIDE DEF d, t, g
      <3>1. DOMAIN [data |-> d, ticks |-> t, degraded |-> g] = WitnessFields
            /\ [data |-> d, ticks |-> t, degraded |-> g].data = d
        BY DEF WitnessFields
      <3> QED
        BY <2>1, <3>1 DEF d, t, g
    <2>3. DOMAIN new.data = ToSet(WitnessTags)
          /\ new.data["ow_kernel"] = IF ev.tag = "ow_kernel" THEN ev.payload.data ELSE st.data["ow_kernel"]
      BY <1>1, <2>2, Zenon
    <2>4. ev.tag = "ow_kernel" => IsCut(ev.payload.data, entries)
      BY <1>2 DEF Truthful, ReaderTags
    <2> HIDE DEF new
    <2>5. WitnessShows(new, entries)
      BY <2>2, <2>3, <2>4 DEF WitnessShows
    <2> QED
      BY <2>5 DEF new
  <1>3. CASE ~fed
    <2>1. DOMAIN new = WitnessFields /\ new.data = st.data
      <3>1. CASE ev.type = "Tick"
        BY <1>1, <3>1, Zenon DEF Panels!OnWitnessEvent, Panels!Decoded, WitnessFields
      <3>2. CASE ev.type = "BridgeData" /\ ev.tag \in ToSet(WitnessTags)
        BY <1>1, <1>3, <3>2, Zenon DEF Panels!OnWitnessEvent, Panels!Decoded, WitnessFields
      <3>3. CASE ev.type = "BridgeError" /\ ev.tag \in ToSet(WitnessTags)
        BY <1>1, <3>3, Zenon DEF Panels!OnWitnessEvent, Panels!Decoded, WitnessFields
      <3>4. CASE ev.type # "Tick" /\ ~(ev.type \in {"BridgeData", "BridgeError"} /\ ev.tag \in ToSet(WitnessTags))
        BY <1>1, <3>4, Zenon DEF Panels!OnWitnessEvent, Panels!Decoded
      <3> QED
        BY <3>1, <3>2, <3>3, <3>4
    <2> HIDE DEF new
    <2>2. WitnessShows(new, entries)
      BY <2>1 DEF WitnessShows
    <2> QED
      BY <2>2 DEF new
  <1> QED
    BY <1>2, <1>3

LEMMA ShownEvent ==
  ASSUME ShownInv, NEW ev, DispatchEvent(ev), Truthful(ev, log)
  PROVE  /\ "orchestrator_kernel" \in DOMAIN modules' => KernelShows(modules'["orchestrator_kernel"], log)
         /\ "orchestrator_witness" \in DOMAIN modules' => WitnessShows(modules'["orchestrator_witness"], log)
  <1>1. \A id \in DOMAIN modules : modules'[id] = Handle(id, modules[id], ev) \/ modules'[id] = modules[id]
    BY DEF DispatchEvent
  <1>2. DOMAIN modules' = DOMAIN modules
    BY DEF DispatchEvent
  <1>3. \A st : Handle("orchestrator_kernel", st, ev) = Panels!OnKernelEvent(st, ev)
    BY DEF Handle
  <1>4. \A st : Handle("orchestrator_witness", st, ev) = Panels!OnWitnessEvent(st, ev)
    BY DEF Handle
  <1> QED
    BY <1>1, <1>2, <1>3, <1>4, KernelEvent, WitnessEvent DEF ShownInv

LEMMA ShownFresh ==
  ASSUME NEW ids, NEW entries
  PROVE  LET fresh == NewModules(ids)
         IN /\ "orchestrator_kernel" \in DOMAIN fresh => KernelShows(fresh["orchestrator_kernel"], entries)
            /\ "orchestrator_witness" \in DOMAIN fresh => WitnessShows(fresh["orchestrator_witness"], entries)
  <1>1. NewModule("orchestrator_kernel") = Panels!NewKernel /\ NewModule("orchestrator_witness") = Panels!NewWitness
    BY DEF NewModule
  <1>2. KernelShows(Panels!NewKernel, entries)
    BY DEF KernelShows, KernelFields, Panels!NewKernel
  <1>3. WitnessShows(Panels!NewWitness, entries)
    <2>1. DOMAIN Panels!NewWitness = WitnessFields /\ Panels!NewWitness.data = [f \in ToSet(WitnessTags) |-> <<>>]
      BY DEF Panels!NewWitness, WitnessFields
    <2> QED
      BY <2>1, WitnessReadsTheLog DEF WitnessShows
  <1> QED
    BY <1>1, <1>2, <1>3 DEF NewModules

LEMMA ResultsOfReader ==
  ASSUME NEW tag \in ReaderTags, NEW done
  PROVE  Results(tag, done) = (IF MayFail(tag, done) THEN {Failed} ELSE {}) \cup
                              (IF Complete(done) THEN {Printed(Snapshot(done))} ELSE {})
  <1> DEFINE fails == IF MayFail(tag, done) THEN {Failed} ELSE {}
             prints == IF Complete(done) THEN {Printed(Snapshot(done))} ELSE {}
             notes == IF done = <<>> THEN {} ELSE {[exit |-> 0, out |-> "empty"]}
             others == {Printed(data) : data \in Payloads[tag]} \cup {[exit |-> 0, out |-> "text"]}
  <1>1. tag # PerceiveTag
    BY DEF ReaderTags, PerceiveTag
  <1> HIDE DEF prints, notes, others, fails
  <1>2. (CASE tag \in ReaderTags -> prints [] tag = PerceiveTag -> notes [] OTHER -> others) = prints
    BY <1>1, Zenon
  <1>3. Results(tag, done) =
          fails \cup (CASE tag \in ReaderTags -> prints [] tag = PerceiveTag -> notes [] OTHER -> others)
    BY Zenon DEF Results, fails, prints, notes, others
  <1> QED
    BY <1>2, <1>3, Zenon DEF fails, prints

\* A command that prints a snapshot prints what it has read.
LEMMA AnswersAreTruthful ==
  ASSUME ReadersInv, NEW i \in Indices, NEW p \in DOMAIN running[i], CommandEnds(i, p)
  PROVE  \E ev : DispatchEvent(ev) /\ Truthful(ev, log)
  <1> DEFINE tag == endpoints[i].tag
             done == running[i][p]
  <1>1. PICK result \in Results(tag, done) : DispatchEvent(HandleResult(tag, result))
    BY DEF CommandEnds
  <1>2. CASE tag \in ReaderTags /\ result.out = "json"
    <2>1. Complete(done) /\ result = Printed(Snapshot(done))
      <3>1. Results(tag, done) = (IF MayFail(tag, done) THEN {Failed} ELSE {}) \cup
                                 (IF Complete(done) THEN {Printed(Snapshot(done))} ELSE {})
        BY <1>2, ResultsOfReader
      <3>2. Failed.out = "empty"
        BY DEF Failed
      <3> HIDE DEF tag, done
      <3> QED
        BY <1>1, <1>2, <3>1, <3>2, Zenon
    <2>2. Reading(done, log)
      <3>1. running[i] \in Seq(Seq(Values)) /\ Reliable(tag, running[i], log)
        BY DEF ReadersInv, Reliable
      <3>2. p \in 1..Len(running[i])
        BY <3>1
      <3> QED
        BY <1>2, <3>1, <3>2, Zenon DEF Reliable
    <2>3. IsCut(Snapshot(done), log)
      BY <2>1, <2>2, Zenon DEF IsCut
    <2>4. HandleResult(tag, result).type = "BridgeData" => HandleResult(tag, result).payload = result
      BY Zenon DEF HandleResult
    <2>5. result.data = Snapshot(done)
      BY <2>1, Zenon DEF Printed
    <2> QED
      BY <1>1, <2>3, <2>4, <2>5 DEF Truthful
  <1>3. CASE ~(tag \in ReaderTags /\ result.out = "json")
    <2>1. /\ HandleResult(tag, result).tag = tag
          /\ HandleResult(tag, result).type = "BridgeData" => HandleResult(tag, result).payload = result
      BY Zenon DEF HandleResult
    <2> QED
      BY <1>1, <1>3, <2>1 DEF Truthful
  <1> QED
    BY <1>2, <1>3

LEMMA ShownGrows ==
  ASSUME NEW old, NEW new, Grows(old, new), NEW st
  PROVE  (KernelShows(st, old) => KernelShows(st, new)) /\ (WitnessShows(st, old) => WitnessShows(st, new))
  <1>1. ASSUME NEW s, IsCut(s, old) PROVE IsCut(s, new)
    BY <1>1, CutStays DEF IsCut
  <1> QED
    BY <1>1 DEF KernelShows, WitnessShows

LEMMA ShownStep ==
  ASSUME ReadersInv, ShownInv, [PluginNext]_vars
  PROVE  ShownInv'
  <1>1. /\ "orchestrator_kernel" \in DOMAIN modules' => KernelShows(modules'["orchestrator_kernel"], log)
        /\ "orchestrator_witness" \in DOMAIN modules' => WitnessShows(modules'["orchestrator_witness"], log)
    <2>1. CASE modules' = modules
      BY <2>1 DEF ShownInv
    <2>2. CASE Quit
      <3>1. DOMAIN modules' = {}
        BY <2>2 DEF Quit
      <3> QED
        BY <3>1
    <2>3. CASE Load
      BY <2>3, ShownFresh DEF Load
    <2>4. ASSUME NEW ev, DispatchEvent(ev), ev.type \in {"Tick", "KeyPress", "PipeCommand"}
          PROVE  /\ "orchestrator_kernel" \in DOMAIN modules' => KernelShows(modules'["orchestrator_kernel"], log)
                 /\ "orchestrator_witness" \in DOMAIN modules' => WitnessShows(modules'["orchestrator_witness"], log)
      BY <2>4, ShownEvent DEF Truthful
    <2>5. CASE Timer
      BY <2>4, <2>5 DEF Timer
    <2>6. ASSUME NEW key, PressKey(key)
          PROVE  /\ "orchestrator_kernel" \in DOMAIN modules' => KernelShows(modules'["orchestrator_kernel"], log)
                 /\ "orchestrator_witness" \in DOMAIN modules' => WitnessShows(modules'["orchestrator_witness"], log)
      BY <2>4, <2>6 DEF PressKey
    <2>7. ASSUME NEW msg, NEW now, PipeMessage(msg, now)
          PROVE  /\ "orchestrator_kernel" \in DOMAIN modules' => KernelShows(modules'["orchestrator_kernel"], log)
                 /\ "orchestrator_witness" \in DOMAIN modules' => WitnessShows(modules'["orchestrator_witness"], log)
      BY <2>4, <2>7 DEF PipeMessage
    <2>8. ASSUME NEW i \in Indices, NEW p \in DOMAIN running[i], CommandEnds(i, p)
          PROVE  /\ "orchestrator_kernel" \in DOMAIN modules' => KernelShows(modules'["orchestrator_kernel"], log)
                 /\ "orchestrator_witness" \in DOMAIN modules' => WitnessShows(modules'["orchestrator_witness"], log)
      BY <2>8, AnswersAreTruthful, ShownEvent
    <2> QED
      BY <2>1, <2>2, <2>3, <2>5, <2>6, <2>7, <2>8
      DEF PluginNext, vars, Refresh, Steps, Answers, SnapshotReads, PerceptionAppends, OtherSubmits, RowIsEdited
  <1>2. Grows(log, log')
    BY LogStep DEF ReadersInv
  <1> QED
    BY <1>1, <1>2, ShownGrows DEF ShownInv

LEMMA ShownInit == PluginInit => ReadersInv /\ ShownInv
  <1> SUFFICES ASSUME PluginInit PROVE ReadersInv /\ ShownInv
    OBVIOUS
  <1>1. log = <<>> /\ log \in Seq(Entries) /\ altered \in BOOLEAN
    <2>1. log = <<>> /\ altered = FALSE
      BY DEF PluginInit, Init
    <2>2. <<>> \in Seq(Entries)
      OBVIOUS
    <2> QED
      BY <2>1, <2>2
  <1>2. DOMAIN running = Indices /\ \A i \in Indices : running[i] = <<>>
    BY DEF PluginInit, ClientInit, NewClient, Indices
  <1>3. \A tag : Reliable(tag, <<>>, log)
    <2>1. <<>> \in Seq(Seq(Values)) /\ 1..Len(<<>>) = {}
      OBVIOUS
    <2> QED
      BY <2>1 DEF Reliable
  <1>4. ReadersInv
    BY <1>1, <1>2, <1>3 DEF ReadersInv
  <1>5. ShownInv
    BY ShownFresh DEF PluginInit, ShownInv
  <1> QED
    BY <1>4, <1>5

\* Six reads in order make a forward cut.
LEMMA CutIsForward ==
  ASSUME NEW s, log \in Seq(Entries), IsCut(s, log)
  PROVE  ForwardCut(s)
  <1>1. PICK got : Reading(got, log) /\ Complete(got) /\ s = Snapshot(got)
    BY DEF IsCut
  <1>2. Len(got) = 6
    BY <1>1, ReadsAre DEF Complete
  <1>3. PICK cut \in [1..6 -> 0..Len(log)] :
          /\ \A j \in 1..6, k \in 1..6 : j <= k => cut[j] <= cut[k]
          /\ \A j \in 1..6 : Reads[j] # "verify_chain_ok" => got[j] = ReadAt(Reads[j], SubSeq(log, 1, cut[j]))
    BY <1>1, <1>2 DEF Reading, PartialCut
  <1>4. \A j \in 1..6 : s[Reads[j]] = got[j]
    <2> SUFFICES ASSUME NEW j \in 1..6 PROVE s[Reads[j]] = got[j]
      OBVIOUS
    <2>1. s[Reads[j]] = got[CHOOSE k \in DOMAIN Reads : Reads[k] = Reads[j]]
      BY <1>1, ReadsAre DEF Snapshot
    <2>2. \A k \in 1..6 : Reads[k] = Reads[j] => k = j
      <3>1. j \in {1, 2, 3, 4, 5, 6} /\ \A k \in 1..6 : k \in {1, 2, 3, 4, 5, 6}
        OBVIOUS
      <3> QED
        BY <3>1, ReadsAre
    <2>3. (CHOOSE k \in DOMAIN Reads : Reads[k] = Reads[j]) = j
      BY <2>2, ReadsAre
    <2> QED
      BY <2>1, <2>3
  <1>5. Len(log) \in Nat /\ cut[1] \in 0..Len(log) /\ cut[2] \in 0..Len(log) /\ cut[4] \in 0..Len(log)
        /\ cut[5] \in 0..Len(log) /\ cut[6] \in 0..Len(log)
    OBVIOUS
  <1>6. cut[1] <= cut[2] /\ cut[2] <= cut[4] /\ cut[4] <= cut[5] /\ cut[5] <= cut[6]
    BY <1>3
  <1>7. \A n \in 0..Len(log) : ReadAt("event_count", SubSeq(log, 1, n)) = n /\ ReadAt("last_seq", SubSeq(log, 1, n)) = n
    <2> SUFFICES ASSUME NEW n \in 0..Len(log)
                 PROVE ReadAt("event_count", SubSeq(log, 1, n)) = n /\ ReadAt("last_seq", SubSeq(log, 1, n)) = n
      OBVIOUS
    <2>1. \A j \in 1..n : log[j] \in Entries
      OBVIOUS
    <2>2. Len(SubSeq(log, 1, n)) = n
      BY <2>1, SubSeqProperties
    <2> QED
      BY <2>2 DEF ReadAt
  <1>8. s.event_count = cut[1] /\ s.last_seq = cut[2]
    BY <1>3, <1>4, <1>5, <1>7, ReadsAre
  <1>9. /\ s.latest_perceive = ReadAt("latest_perceive", Before(cut[4]))
        /\ s.edges = ReadAt("edges", Before(cut[5]))
        /\ s.warrant_count = ReadAt("warrant_count", Before(cut[6]))
    BY <1>3, <1>4, ReadsAre DEF Before
  <1>10. cut[2] \in cut[1]..Len(log) /\ cut[4] \in cut[2]..Len(log) /\ cut[5] \in cut[4]..Len(log) /\ cut[6] \in cut[5]..Len(log)
    BY <1>5, <1>6
  <1> QED
    BY <1>5, <1>8, <1>9, <1>10, Zenon DEF ForwardCut

\* For any log, any writers and any number of readers, a snapshot on a panel is
\* a forward cut of the log.
THEOREM SnapshotsAreForwardCuts == PluginSpec => []SnapshotIsForwardCut
  <1>1. ReadersInv /\ ShownInv => SnapshotIsForwardCut
    <2> SUFFICES ASSUME ReadersInv, ShownInv, NEW s \in ShownSnapshots, s # <<>>
                 PROVE  ForwardCut(s)
      BY DEF SnapshotIsForwardCut
    <2>1. IsCut(s, log)
      BY DEF ShownSnapshots, Shows, ShownInv, KernelShows, WitnessShows
    <2> QED
      BY <2>1, CutIsForward DEF ReadersInv
  <1> QED
    BY <1>1, ShownInit, ShownStep, ReadersStep, PTL DEF PluginSpec

----------------------------------------------------------------------------
(* Events *)

\* What the plugin hands to its modules, and where it comes from.
PipeEvent(msg, now) == [type |-> "PipeCommand", name |-> msg.name, payload |-> msg.payload, now |-> now]

Received(ev) ==
  \/ ev = [type |-> "Tick"]
  \/ \E key \in layout.keys : ev = [type |-> "KeyPress", key |-> key]
  \/ \E msg \in layout.pipes, now \in layout.clock : ev = PipeEvent(msg, now)
  \/ \E tag, done : \E result \in Results(tag, done) : ev = HandleResult(tag, result)

\* What an action may do to the modules, and with which event.
LEMMA EventsStep ==
  ASSUME [PluginNext]_vars
  PROVE  \/ modules' = modules
         \/ modules' = <<>>
         \/ modules' = NewModules(layout.modules)
         \/ \E ev : Received(ev) /\ DispatchEvent(ev)
  <1>1. CASE Timer
    BY <1>1 DEF Timer, Received
  <1>2. CASE \E key \in layout.keys : PressKey(key)
    BY <1>2 DEF PressKey, Received
  <1>3. CASE \E msg \in layout.pipes, now \in layout.clock : PipeMessage(msg, now)
    BY <1>3 DEF PipeMessage, Received, PipeEvent
  <1>4. ASSUME NEW i, NEW p, CommandEnds(i, p) PROVE \E ev : Received(ev) /\ DispatchEvent(ev)
    BY <1>4 DEF CommandEnds, Received
  <1>5. CASE Quit \/ Load
    BY <1>5 DEF Quit, Load
  <1> QED
    BY <1>1, <1>2, <1>3, <1>4, <1>5
    DEF PluginNext, vars, Refresh, Steps, Answers, SnapshotReads, PerceptionAppends, OtherSubmits, RowIsEdited

----------------------------------------------------------------------------
(* The cooldown *)

CP == "cmd_pipe"
ClockValues == 0..(Modulus - 1)
Commands == [at : ClockValues, command : STRING, outcome : {"Success", "Failure", "RateLimited"}]

Accepted(entries, k) == Pipes!IsSnapshot(entries[k].command) /\ entries[k].outcome = "Success"

\* The newest snapshot that the log shows as accepted started the cooldown.
LastStarts(st) ==
  \A j \in DOMAIN st.log :
    Accepted(st.log, j) /\ (\A k \in 1..(j - 1) : ~Accepted(st.log, k)) => st.log[j].at = st.lastSnapshot

\* The inductive invariant of the panel.
PipeInv(st) ==
  /\ DOMAIN st = {"log", "lastSnapshot"}
  /\ st.log \in Seq(Commands) /\ Len(st.log) <= MaxLog
  /\ st.lastSnapshot \in ClockValues
  /\ LastStarts(st)
  /\ Pipes!Spaced(st)

\* The log moves by one place for the new entry, and loses at most its end.
LEMMA LoggedShifts ==
  ASSUME NEW entries \in Seq(Commands), Len(entries) <= MaxLog, NEW entry \in Commands
  PROVE  LET longer == Pipes!Logged(entries, entry)
         IN /\ longer \in Seq(Commands) /\ Len(longer) <= MaxLog
            /\ DOMAIN longer \subseteq 1..(Len(entries) + 1)
            /\ \A i \in DOMAIN longer : longer[i] = IF i = 1 THEN entry ELSE entries[i - 1]
            /\ \A i \in DOMAIN longer : i # 1 => i - 1 \in DOMAIN entries
  <1> DEFINE longer == <<entry>> \o entries
             kept == IF Len(longer) < MaxLog THEN Len(longer) ELSE MaxLog
  <1>1. /\ longer \in Seq(Commands) /\ Len(longer) = Len(entries) + 1
        /\ \A i \in 1..Len(longer) : longer[i] = IF i = 1 THEN entry ELSE entries[i - 1]
    BY ConcatProperties
  <1>2. MaxLog \in Nat /\ Len(entries) \in Nat /\ DOMAIN entries = 1..Len(entries)
    BY ClockIsUnsigned
  <1> HIDE DEF longer
  <1>3. kept \in 0..Len(longer) /\ kept <= MaxLog
    BY <1>1, <1>2
  <1> HIDE DEF kept
  <1>4. /\ SubSeq(longer, 1, kept) \in Seq(Commands)
        /\ Len(SubSeq(longer, 1, kept)) = kept
        /\ \A i \in 1..kept : SubSeq(longer, 1, kept)[i] = longer[i]
    BY <1>1, <1>3
  <1>5. Pipes!Logged(entries, entry) = SubSeq(longer, 1, kept)
    BY DEF Pipes!Logged, longer, kept
  <1>6. DOMAIN SubSeq(longer, 1, kept) = 1..kept
    BY <1>4
  <1> QED
    BY <1>1, <1>2, <1>3, <1>4, <1>5, <1>6

\* Without a wrap the difference is the distance; a wrap means the clock went back.
LEMMA Elapsed ==
  ASSUME NEW now \in ClockValues, NEW last \in ClockValues, ~(Pipes!Minus(now, last) < Cooldown)
  PROVE  now < last \/ now - last >= Cooldown
  <1>1. CASE now >= last
    <2>1. now - last \in 0..(Modulus - 1)
      BY <1>1, ClockIsUnsigned DEF ClockValues
    <2>2. (now - last) % Modulus = now - last
      BY <2>1, ClockIsUnsigned
    <2> QED
      BY <2>1, <2>2, ClockIsUnsigned DEF Pipes!Minus
  <1> QED
    BY <1>1, ClockIsUnsigned DEF ClockValues

LEMMA PipeCommandKeeps ==
  ASSUME NEW st, PipeInv(st), NEW ev, ev.type = "PipeCommand",
         ev.name \in STRING, ev.now \in ClockValues
  PROVE  PipeInv(Pipes!HandleEvent(st, ev))
  <1> DEFINE outcome == Pipes!Outcome(st, ev.name, ev.now)
             entry == [at |-> ev.now, command |-> ev.name, outcome |-> outcome]
             taken == Pipes!IsSnapshot(ev.name) /\ outcome = "Success"
             new == Pipes!HandleEvent(st, ev)
             entries == st.log
             longer == new.log
  <1>1. /\ new.log = Pipes!Logged(entries, entry)
        /\ new.lastSnapshot = IF taken THEN ev.now ELSE st.lastSnapshot
        /\ DOMAIN new = {"log", "lastSnapshot"}
    BY DEF Pipes!HandleEvent
  <1>2. outcome \in {"Success", "Failure", "RateLimited"}
    BY DEF Pipes!Outcome
  <1>3. taken => ~(Pipes!Minus(ev.now, st.lastSnapshot) < Cooldown)
    <2>1. Pipes!IsSnapshot(ev.name) /\ Pipes!Limited(st, ev.now) => outcome = "RateLimited"
      BY DEF Pipes!Outcome, Pipes!IsSnapshot, Pipes!IsQuery
    <2> QED
      BY <2>1 DEF Pipes!Limited
  <1>4. /\ entry \in Commands
        /\ entry.at = ev.now /\ entry.command = ev.name /\ entry.outcome = outcome
    BY <1>2 DEF Commands
  <1>5. /\ entries \in Seq(Commands) /\ Len(entries) <= MaxLog /\ Len(entries) \in Nat /\ DOMAIN entries = 1..Len(entries)
        /\ st.lastSnapshot \in ClockValues
        /\ LastStarts(st)
        /\ Pipes!Spaced(st)
    BY DEF PipeInv
  <1>a. new.log = longer /\ st.log = entries
    OBVIOUS
  <1> HIDE DEF entry, outcome, new, entries
  <1>6. /\ longer \in Seq(Commands) /\ Len(longer) <= MaxLog
        /\ DOMAIN longer \subseteq 1..(Len(entries) + 1)
        /\ \A i \in DOMAIN longer : longer[i] = IF i = 1 THEN entry ELSE entries[i - 1]
        /\ \A i \in DOMAIN longer : i # 1 => i - 1 \in DOMAIN entries
    <2> DEFINE shifted == Pipes!Logged(entries, entry)
    <2>1. /\ shifted \in Seq(Commands) /\ Len(shifted) <= MaxLog
          /\ DOMAIN shifted \subseteq 1..(Len(entries) + 1)
          /\ \A i \in DOMAIN shifted : shifted[i] = IF i = 1 THEN entry ELSE entries[i - 1]
          /\ \A i \in DOMAIN shifted : i # 1 => i - 1 \in DOMAIN entries
      BY <1>4, <1>5, LoggedShifts
    <2>2. longer = shifted
      BY <1>1
    <2> HIDE DEF shifted
    <2> QED
      BY <2>1, <2>2
  <1>7. /\ \A i \in DOMAIN longer : Accepted(longer, i) <=> IF i = 1 THEN taken ELSE Accepted(entries, i - 1)
        /\ \A i \in DOMAIN longer : \A k \in 1..(i - 1) : k \in DOMAIN longer
    <2>1. DOMAIN longer = 1..Len(longer) /\ Len(longer) \in Nat
      BY <1>6
    <2> QED
      BY <1>4, <1>6, <2>1 DEF Accepted
  <1>8. new.lastSnapshot \in ClockValues
    BY <1>1, <1>5
  <1> HIDE DEF taken
  <1>9. LastStarts(new)
    <2> SUFFICES ASSUME NEW j \in DOMAIN longer, Accepted(longer, j),
                        \A k \in 1..(j - 1) : ~Accepted(longer, k)
                 PROVE  longer[j].at = new.lastSnapshot
      BY DEF LastStarts
    <2>1. j \in Nat /\ j >= 1
      BY <1>6
    <2>2. CASE j = 1
      BY <1>1, <1>4, <1>6, <1>7, <2>2
    <2>3. CASE j # 1
      <3>1. 1 \in 1..(j - 1) /\ 1 \in DOMAIN longer /\ ~taken
        BY <1>7, <2>1, <2>3
      <3>2. j - 1 \in DOMAIN entries /\ Accepted(entries, j - 1) /\ longer[j] = entries[j - 1]
        BY <1>6, <1>7, <2>3
      <3>3. ASSUME NEW k \in 1..((j - 1) - 1) PROVE ~Accepted(entries, k)
        <4>1. k + 1 \in 1..(j - 1) /\ k + 1 # 1 /\ (k + 1) - 1 = k
          BY <2>1
        <4>2. ~Accepted(longer, k + 1) /\ k + 1 \in DOMAIN longer
          BY <1>7, <4>1
        <4> QED
          BY <1>7, <4>1, <4>2
      <3>4. entries[j - 1].at = st.lastSnapshot
        BY <1>5, <3>2, <3>3 DEF LastStarts, entries
      <3> QED
        BY <1>1, <3>1, <3>2, <3>4
    <2> QED
      BY <2>2, <2>3
  <1>10. Pipes!Spaced(new)
    <2> SUFFICES ASSUME NEW i \in DOMAIN longer, NEW j \in DOMAIN longer, i < j,
                        Accepted(longer, i), Accepted(longer, j),
                        \A k \in (i + 1)..(j - 1) : ~Accepted(longer, k)
                 PROVE  longer[i].at < longer[j].at \/ longer[i].at - longer[j].at >= Cooldown
      BY DEF Pipes!Spaced, Pipes!Successive, Accepted
    <2>1. i \in Nat /\ j \in Nat /\ i >= 1 /\ j # 1
      BY <1>6
    <2>2. j - 1 \in DOMAIN entries /\ Accepted(entries, j - 1) /\ longer[j] = entries[j - 1]
      BY <1>6, <1>7, <2>1
    <2>3. ASSUME NEW k \in i..((j - 1) - 1), k >= 1 PROVE ~Accepted(entries, k)
      <3>1. k + 1 \in (i + 1)..(j - 1) /\ k + 1 \in 1..(j - 1) /\ k + 1 # 1 /\ (k + 1) - 1 = k
        BY <2>1, <2>3
      <3>2. ~Accepted(longer, k + 1) /\ k + 1 \in DOMAIN longer
        BY <1>7, <3>1
      <3> QED
        BY <1>7, <3>1, <3>2
    <2>4. CASE i = 1
      <3>1. taken /\ longer[i].at = ev.now
        BY <1>4, <1>6, <1>7, <2>4
      <3>2. entries[j - 1].at = st.lastSnapshot
        BY <1>5, <2>2, <2>3, <2>4 DEF LastStarts, entries
      <3> QED
        BY <1>3, <1>5, <2>2, <3>1, <3>2, Elapsed
    <2>5. CASE i # 1
      <3>1. i - 1 \in DOMAIN entries /\ Accepted(entries, i - 1) /\ longer[i] = entries[i - 1]
        BY <1>6, <1>7, <2>5
      <3>2. \A k \in ((i - 1) + 1)..((j - 1) - 1) : ~Accepted(entries, k)
        BY <2>1, <2>3
      <3>3. i - 1 < j - 1
        BY <2>1
      <3>4. Pipes!Successive(entries, i - 1, j - 1)
        BY <2>2, <3>1, <3>2, <3>3 DEF Pipes!Successive, Accepted
      <3> QED
        BY <1>5, <2>2, <3>1, <3>4 DEF Pipes!Spaced, entries
    <2> QED
      BY <2>4, <2>5
  <1> QED
    BY <1>1, <1>6, <1>8, <1>9, <1>10 DEF PipeInv, new

CooldownInv == CP \in DOMAIN modules => PipeInv(modules[CP])

LEMMA PipeInvFresh == PipeInv(Pipes!NewCmdPipe)
  <1>1. Pipes!NewCmdPipe.log = <<>> /\ Pipes!NewCmdPipe.lastSnapshot = 0
        /\ DOMAIN Pipes!NewCmdPipe = {"log", "lastSnapshot"}
    BY DEF Pipes!NewCmdPipe
  <1>2. <<>> \in Seq(Commands) /\ Len(<<>>) <= MaxLog /\ 0 \in ClockValues /\ DOMAIN <<>> = {}
    BY ClockIsUnsigned DEF ClockValues
  <1> QED
    BY <1>1, <1>2 DEF PipeInv, LastStarts, Pipes!Spaced

LEMMA CooldownFresh ==
  ASSUME NEW ids, CP \in DOMAIN NewModules(ids)
  PROVE  NewModules(ids)[CP] = Pipes!NewCmdPipe
  <1>1. NewModule(CP) = Pipes!NewCmdPipe
    BY DEF NewModule, CP
  <1> QED
    BY <1>1 DEF NewModules

LEMMA CooldownStep ==
  ASSUME CooldownInv, layout \in Layouts, [PluginNext]_vars
  PROVE  CooldownInv'
  <1>1. ASSUME NEW ev, Received(ev), DispatchEvent(ev), CP \in DOMAIN modules PROVE PipeInv(modules'[CP])
    <2>1. Subscriptions(CP) = {"PipeCommand"} /\ \A st : Handle(CP, st, ev) = Pipes!HandleEvent(st, ev)
      BY DEF Subscriptions, Handle, CP
    <2>2. modules'[CP] = IF Category(ev) \in {"PipeCommand"} THEN Pipes!HandleEvent(modules[CP], ev) ELSE modules[CP]
      BY <1>1, <2>1 DEF DispatchEvent
    <2>3. CASE \E msg \in layout.pipes, now \in layout.clock : ev = PipeEvent(msg, now)
      <3>1. PICK msg \in layout.pipes, now \in layout.clock : ev = PipeEvent(msg, now)
        BY <2>3
      <3>2. ev.type = "PipeCommand" /\ ev.name = msg.name /\ ev.now = now
        BY <3>1 DEF PipeEvent
      <3>3. ev.name \in STRING /\ ev.now \in ClockValues
        BY <3>2, PipesDecode, ClockIsUnsigned DEF ClockValues
      <3>4. PipeInv(modules[CP])
        BY <1>1 DEF CooldownInv
      <3>5. PipeInv(Pipes!HandleEvent(modules[CP], ev))
        BY <3>2, <3>3, <3>4, PipeCommandKeeps
      <3> QED
        BY <2>2, <3>4, <3>5
    <2>4. CASE ~ \E msg \in layout.pipes, now \in layout.clock : ev = PipeEvent(msg, now)
      <3>1. ev.type # "PipeCommand"
        BY <1>1, <2>4 DEF Received, HandleResult
      <3>2. Category(ev) # "PipeCommand"
        BY <3>1 DEF Category
      <3> QED
        BY <1>1, <2>2, <3>2 DEF CooldownInv
    <2> QED
      BY <2>3, <2>4
  <1>2. CASE \E ev : Received(ev) /\ DispatchEvent(ev)
    BY <1>1, <1>2 DEF CooldownInv, DispatchEvent
  <1>3. CASE modules' = NewModules(layout.modules)
    BY <1>3, CooldownFresh, PipeInvFresh DEF CooldownInv
  <1>4. CASE modules' = modules \/ modules' = <<>>
    BY <1>4 DEF CooldownInv
  <1> QED
    BY <1>2, <1>3, <1>4, EventsStep

\* For any clock, cooldown and log length: two snapshots that the log shows as
\* accepted one after the other are a cooldown apart, or the clock went back.
THEOREM CooldownTheorem == PluginSpec => []CooldownHolds
  <1>1. PluginInit => CooldownInv
    BY CooldownFresh, PipeInvFresh DEF PluginInit, CooldownInv
  <1>2. ScheduleInv => layout \in Layouts
    BY DEF ScheduleInv
  <1>3. CooldownInv /\ ScheduleInv /\ [PluginNext]_vars => CooldownInv'
    BY <1>2, CooldownStep
  <1>4. CooldownInv => CooldownHolds
    BY DEF CooldownInv, CooldownHolds, Shows, PipeInv, CP
  <1> QED
    BY <1>1, <1>3, <1>4, ScheduleInit, ScheduleStep, PTL DEF PluginSpec

----------------------------------------------------------------------------
(* Folds *)

LEMMA MaxIsLast ==
  ASSUME NEW n \in Nat, NEW s \in SUBSET (1..n), s # {}
  PROVE  /\ Max(s) \in s
         /\ Max(s) \in 1..n
         /\ \A i \in s : i <= Max(s)
  <1>1. PICK k \in {n - i : i \in s} : \A m \in {n - i : i \in s} : k <= m
    <2>1. {n - i : i \in s} \subseteq Nat /\ {n - i : i \in s} # {}
      <3>1. PICK i \in s : TRUE
        OBVIOUS
      <3>2. n - i \in {n - j : j \in s}
        OBVIOUS
      <3>3. \A j \in s : n - j \in Nat
        OBVIOUS
      <3> QED
        BY <3>2, <3>3
    <2> QED
      BY <2>1, SmallestExists
  <1>2. PICK last \in s : k = n - last
    BY <1>1
  <1>3. \A i \in s : last >= i
    <2> SUFFICES ASSUME NEW i \in s PROVE last >= i
      OBVIOUS
    <2>1. k <= n - i
      BY <1>1
    <2> QED
      BY <1>2, <2>1
  <1>4. Max(s) \in s /\ \A i \in s : Max(s) >= i
    BY <1>3 DEF Max
  <1> QED
    BY <1>4

\* The recursion that a fold over a sequence is defined by has a solution.
IsFold(it, Q, base, es, f) ==
  /\ it \in [SUBSET (DOMAIN es) -> Q]
  /\ \A s \in SUBSET (DOMAIN es) :
       it[s] = IF s = {} THEN base ELSE f[it[s \ {Max(s)}], es[Max(s)]]

LEMMA FoldExists ==
  ASSUME NEW Q, NEW base \in Q, NEW E, NEW es \in Seq(E), NEW f \in [Q \X E -> Q]
  PROVE  \E it : IsFold(it, Q, base, es, f)
  <1> DEFINE Solves(it, n) ==
               /\ it \in [SUBSET (1..n) -> Q]
               /\ \A s \in SUBSET (1..n) :
                    it[s] = IF s = {} THEN base ELSE f[it[s \ {Max(s)}], es[Max(s)]]
             Unsolved == {n \in 0..Len(es) : \A it : ~Solves(it, n)}
  <1>0. Len(es) \in Nat /\ DOMAIN es = 1..Len(es) /\ \A i \in DOMAIN es : es[i] \in E
    OBVIOUS
  <1>1. Solves([s \in SUBSET (1..0) |-> base], 0)
    <2>1. SUBSET (1..0) = {{}}
      OBVIOUS
    <2> QED
      BY <2>1
  <1>2. ASSUME NEW n \in 0..(Len(es) - 1), NEW it, Solves(it, n)
        PROVE  \E longer : Solves(longer, n + 1)
    <2> DEFINE longer == [s \in SUBSET (1..(n + 1)) |->
                            IF n + 1 \in s THEN f[it[s \ {n + 1}], es[n + 1]] ELSE it[s]]
    <2>0. n \in Nat /\ n + 1 \in Nat /\ n + 1 \in DOMAIN es
      BY <1>0
    <2>1. ASSUME NEW s \in SUBSET (1..(n + 1)), n + 1 \in s
          PROVE  /\ longer[s] \in Q
                 /\ s # {}
                 /\ longer[s] = f[longer[s \ {Max(s)}], es[Max(s)]]
      <3>1. Max(s) \in s /\ Max(s) \in 1..(n + 1) /\ n + 1 <= Max(s)
        BY <2>0, <2>1, MaxIsLast
      <3>2. Max(s) = n + 1
        BY <2>0, <3>1
      <3>3. s \ {n + 1} \in SUBSET (1..n) /\ s \ {n + 1} \in SUBSET (1..(n + 1)) /\ n + 1 \notin s \ {n + 1}
        BY <2>0
      <3>4. longer[s \ {n + 1}] = it[s \ {n + 1}] /\ it[s \ {n + 1}] \in Q
        BY <1>2, <3>3
      <3>5. longer[s] = f[it[s \ {n + 1}], es[n + 1]]
        BY <2>1
      <3>6. es[n + 1] \in E
        BY <1>0, <2>0
      <3> HIDE DEF longer
      <3> QED
        BY <2>1, <3>2, <3>4, <3>5, <3>6
    <2>2. ASSUME NEW s \in SUBSET (1..(n + 1)), n + 1 \notin s
          PROVE  /\ longer[s] \in Q
                 /\ longer[s] = IF s = {} THEN base ELSE f[longer[s \ {Max(s)}], es[Max(s)]]
      <3>1. s \in SUBSET (1..n) /\ s \ {Max(s)} \in SUBSET (1..n)
            /\ s \ {Max(s)} \in SUBSET (1..(n + 1)) /\ n + 1 \notin s \ {Max(s)}
        <4>1. \A i \in s : i \in 1..n
          BY <2>0, <2>2
        <4> QED
          BY <2>2, <4>1
      <3>2. longer[s] = it[s] /\ longer[s \ {Max(s)}] = it[s \ {Max(s)}]
        BY <2>2, <3>1
      <3> HIDE DEF longer
      <3> QED
        BY <1>2, <3>1, <3>2
    <2>3. longer \in [SUBSET (1..(n + 1)) -> Q]
      <3>1. \A s \in SUBSET (1..(n + 1)) : longer[s] \in Q
        BY <2>1, <2>2
      <3> QED
        BY <3>1
    <2> HIDE DEF longer
    <2>4. Solves(longer, n + 1)
      BY <2>1, <2>2, <2>3
    <2> QED
      BY <2>4
  <1> HIDE DEF Solves
  <1>3. Unsolved = {}
    <2> SUFFICES ASSUME Unsolved # {} PROVE FALSE
      OBVIOUS
    <2>1. PICK n \in Unsolved : \A m \in Unsolved : n <= m
      <3>1. Unsolved \subseteq Nat
        OBVIOUS
      <3> QED
        BY <3>1, SmallestExists
    <2>2. n \in 0..Len(es) /\ \A it : ~Solves(it, n)
      BY <2>1
    <2>3. n # 0
      BY <1>1, <2>2
    <2>4. n - 1 \in 0..(Len(es) - 1) /\ n - 1 \in 0..Len(es) /\ (n - 1) + 1 = n
      BY <1>0, <2>2, <2>3
    <2>5. n - 1 \notin Unsolved
      <3>1. n - 1 \in Unsolved => n <= n - 1
        BY <2>1
      <3>2. n \in Nat
        BY <2>2
      <3> QED
        BY <3>1, <3>2
    <2>6. PICK it : Solves(it, n - 1)
      BY <2>4, <2>5
    <2> QED
      BY <1>2, <2>2, <2>4, <2>6
  <1>4. PICK it : Solves(it, Len(es))
    BY <1>0, <1>3
  <1> QED
    BY <1>0, <1>4 DEF Solves, IsFold

\* What holds of the base, and after an element when it held before, holds at the end.
LEMMA FoldInduction ==
  ASSUME NEW Q, NEW n \in Nat, NEW it, it[{}] \in Q,
         \A s \in SUBSET (1..n) : s # {} /\ it[s \ {Max(s)}] \in Q => it[s] \in Q
  PROVE  it[1..n] \in Q
  <1> DEFINE Bad == {k \in 0..n : it[1..k] \notin Q}
  <1> SUFFICES ASSUME Bad # {} PROVE FALSE
    OBVIOUS
  <1>1. PICK k \in Bad : \A m \in Bad : k <= m
    <2>1. Bad \subseteq Nat
      OBVIOUS
    <2> QED
      BY <2>1, SmallestExists
  <1>2. k \in 0..n /\ it[1..k] \notin Q
    BY <1>1
  <1>3. k # 0
    <2>1. 1..0 = {}
      OBVIOUS
    <2> QED
      BY <1>2, <2>1
  <1>4. k - 1 \in 0..n /\ k - 1 \notin Bad
    BY <1>1, <1>2, <1>3
  <1>5. it[1..(k - 1)] \in Q
    BY <1>4
  <1>6. 1..k \in SUBSET (1..n) /\ 1..k # {}
    BY <1>2, <1>3
  <1>7. Max(1..k) = k
    <2>1. Max(1..k) \in 1..k /\ k <= Max(1..k)
      <3>1. k \in Nat /\ 1..k \in SUBSET (1..k) /\ k \in 1..k
        BY <1>2, <1>3
      <3> QED
        BY <1>6, <3>1, MaxIsLast
    <2> QED
      BY <1>2, <2>1
  <1>8. (1..k) \ {k} = 1..(k - 1)
    BY <1>2
  <1> QED
    BY <1>2, <1>5, <1>6, <1>7, <1>8

----------------------------------------------------------------------------
(* The event list *)

EF == "event_feed"
FeedEntries == [kind : {"emergence", "bus"}, tick : Nat]
FeedStates == [entries : Seq(FeedEntries), seen : Seq(Nat), lastBusTick : Nat, scroll : 0..ScrollCap]

\* A tick on the list is still remembered: it is at most as far from the end of
\* `seen` as its entry is from the head of the list.
Remembers(st) ==
  \A i \in DOMAIN st.entries : st.entries[i].tick > 0 =>
    \E k \in DOMAIN st.seen : st.seen[k] = st.entries[i].tick /\ Len(st.seen) - k < i

BusBehind(st) ==
  \A i \in DOMAIN st.entries : st.entries[i].kind = "bus" => st.entries[i].tick <= st.lastBusTick

\* The inductive invariant of the panel, as the set of its good states.
GoodFeeds ==
  {st \in FeedStates :
     /\ Len(st.entries) <= MaxEvents /\ Len(st.seen) <= MaxEvents
     /\ Remembers(st) /\ Feed!EachTickOnce(st)
     /\ BusBehind(st) /\ Feed!BusInOrder(st)}

LEMMA NewestAre ==
  ASSUME NEW S, NEW s \in Seq(S)
  PROVE  /\ Feed!Newest(s) \in Seq(S)
         /\ Len(Feed!Newest(s)) <= MaxEvents /\ Len(Feed!Newest(s)) <= Len(s)
         /\ \A i \in DOMAIN Feed!Newest(s) : Feed!Newest(s)[i] = s[i]
  <1> DEFINE n == IF Len(s) < MaxEvents THEN Len(s) ELSE MaxEvents
  <1>1. n \in 0..Len(s) /\ n <= MaxEvents
    BY PanelBounds
  <1> HIDE DEF n
  <1>2. /\ SubSeq(s, 1, n) \in Seq(S) /\ Len(SubSeq(s, 1, n)) = n
        /\ \A i \in 1..n : SubSeq(s, 1, n)[i] = s[i]
    BY <1>1
  <1>3. Feed!Newest(s) = SubSeq(s, 1, n)
    BY DEF Feed!Newest, n
  <1>4. DOMAIN SubSeq(s, 1, n) = 1..n
    BY <1>2
  <1> QED
    BY <1>1, <1>2, <1>3, <1>4

LEMMA LastFewAre ==
  ASSUME NEW S, NEW s \in Seq(S)
  PROVE  LET few == Feed!Remembered(s)
         IN /\ few \in Seq(S) /\ Len(few) <= MaxEvents
            /\ \A k \in DOMAIN s : Len(s) - k < MaxEvents =>
                 \E l \in DOMAIN few : few[l] = s[k] /\ Len(few) - l = Len(s) - k
  <1> DEFINE first == IF Len(s) > MaxEvents THEN Len(s) - MaxEvents + 1 ELSE 1
             few == SubSeq(s, first, Len(s))
  <1>0. PICK n \in Nat : n = Len(s)
    OBVIOUS
  <1>1. /\ first \in Nat /\ first >= 1 /\ first <= n + 1
        /\ n - first + 1 <= MaxEvents
        /\ \A k \in 1..n : n - k < MaxEvents => first <= k
    BY <1>0, PanelBounds
  <1> HIDE DEF first
  <1>2. /\ few \in Seq(S) /\ Len(few) = n - first + 1
        /\ \A l \in 1..(n - first + 1) : few[l] = s[first + l - 1]
    BY <1>0, <1>1
  <1> HIDE DEF few
  <1>3. ASSUME NEW k \in DOMAIN s, Len(s) - k < MaxEvents
        PROVE  \E l \in DOMAIN few : few[l] = s[k] /\ Len(few) - l = Len(s) - k
    <2>1. k \in 1..n /\ first <= k
      BY <1>0, <1>1, <1>3
    <2>2. k - first + 1 \in 1..(n - first + 1) /\ first + (k - first + 1) - 1 = k
      BY <1>1, <2>1
    <2>3. k - first + 1 \in DOMAIN few /\ few[k - first + 1] = s[k]
      BY <1>2, <2>2
    <2>4. Len(few) - (k - first + 1) = Len(s) - k
      BY <1>0, <1>1, <1>2, <2>1
    <2> QED
      BY <2>3, <2>4
  <1>4. Feed!Remembered(s) = few
    BY DEF Feed!Remembered, Feed!LastFew, few, first
  <1> QED
    BY <1>0, <1>1, <1>2, <1>3, <1>4

\* A new entry at the head of the list.
LEMMA EntryAdded ==
  ASSUME NEW st \in GoodFeeds, NEW kind \in {"emergence", "bus"}, NEW tick \in Nat,
         kind = "bus" => /\ tick > 0 /\ tick <= st.lastBusTick
                         /\ \A i \in DOMAIN st.entries : st.entries[i].kind = "bus" => st.entries[i].tick < tick
  PROVE  Feed!AddEntry(st, kind, tick) \in GoodFeeds
  <1> DEFINE entry == [kind |-> kind, tick |-> tick]
             new == Feed!AddEntry(st, kind, tick)
             longer == <<entry>> \o st.entries
             entries == Feed!Newest(longer)
             seen == IF tick > 0 THEN Feed!Remembered(Append(st.seen, tick)) ELSE st.seen
  <1>0. /\ st.entries \in Seq(FeedEntries) /\ st.seen \in Seq(Nat)
        /\ st.lastBusTick \in Nat /\ st.scroll \in 0..ScrollCap
        /\ Len(st.entries) <= MaxEvents /\ Len(st.seen) <= MaxEvents
        /\ Remembers(st) /\ Feed!EachTickOnce(st)
        /\ BusBehind(st) /\ Feed!BusInOrder(st)
        /\ st \in FeedStates
    BY DEF GoodFeeds, FeedStates
  <1>1. CASE tick > 0 /\ tick \in Feed!ToSet(st.seen)
    BY <1>1 DEF Feed!AddEntry
  <1>2. CASE ~(tick > 0 /\ tick \in Feed!ToSet(st.seen))
    <2>1. new = [st EXCEPT !.seen = seen, !.entries = entries]
      BY <1>2 DEF Feed!AddEntry
    <2>2. /\ entry \in FeedEntries /\ entry.kind = kind /\ entry.tick = tick
      BY DEF FeedEntries
    <2> HIDE DEF entry
    <2>3. /\ longer \in Seq(FeedEntries)
          /\ Len(st.entries) \in Nat /\ Len(longer) = Len(st.entries) + 1
          /\ \A i \in 1..(Len(st.entries) + 1) : longer[i] = IF i = 1 THEN entry ELSE st.entries[i - 1]
      BY <1>0, <2>2, ConcatProperties
    <2> HIDE DEF longer
    <2>4. /\ entries \in Seq(FeedEntries) /\ Len(entries) \in Nat /\ DOMAIN entries = 1..Len(entries)
          /\ Len(entries) <= MaxEvents /\ Len(entries) <= Len(st.entries) + 1
          /\ \A i \in DOMAIN entries : entries[i] = longer[i]
      BY <2>3, NewestAre
    <2> HIDE DEF entries
    <2>5. \A i \in DOMAIN entries : /\ i \in 1..MaxEvents
                                    /\ entries[i] = IF i = 1 THEN entry ELSE st.entries[i - 1]
                                    /\ i # 1 => i - 1 \in DOMAIN st.entries
      BY SMTT(30), <1>0, <2>3, <2>4, PanelBounds
    <2>6. /\ seen \in Seq(Nat) /\ Len(seen) <= MaxEvents
          /\ \A k \in DOMAIN st.seen : tick > 0 /\ Len(st.seen) + 1 - k < MaxEvents =>
               \E l \in DOMAIN seen : seen[l] = st.seen[k] /\ Len(seen) - l = Len(st.seen) + 1 - k
          /\ tick > 0 /\ MaxEvents > 0 => \E l \in DOMAIN seen : seen[l] = tick /\ Len(seen) - l = 0
          /\ ~(tick > 0) => seen = st.seen
      <3>1. CASE ~(tick > 0)
        BY <1>0, <3>1
      <3>2. CASE tick > 0
        <4> DEFINE more == Append(st.seen, tick)
        <4>1. /\ more \in Seq(Nat) /\ Len(more) = Len(st.seen) + 1 /\ Len(st.seen) \in Nat
              /\ \A k \in DOMAIN st.seen : k \in DOMAIN more /\ more[k] = st.seen[k]
              /\ Len(st.seen) + 1 \in DOMAIN more /\ more[Len(st.seen) + 1] = tick
          BY <1>0, AppendProperties
        <4>2. seen = Feed!Remembered(more)
          BY <3>2
        <4> HIDE DEF more, seen
        <4>3. /\ seen \in Seq(Nat) /\ Len(seen) <= MaxEvents
              /\ \A k \in DOMAIN more : Len(more) - k < MaxEvents =>
                   \E l \in DOMAIN seen : seen[l] = more[k] /\ Len(seen) - l = Len(more) - k
          BY <4>1, <4>2, LastFewAre
        <4>4. ASSUME NEW k \in DOMAIN st.seen, Len(st.seen) + 1 - k < MaxEvents
              PROVE  \E l \in DOMAIN seen : seen[l] = st.seen[k] /\ Len(seen) - l = Len(st.seen) + 1 - k
          <5>1. k \in DOMAIN more /\ more[k] = st.seen[k] /\ Len(more) - k < MaxEvents
            <6>1. k \in DOMAIN more /\ more[k] = st.seen[k]
              BY <4>1
            <6>2. Len(more) - k = Len(st.seen) + 1 - k
              <7>1. PICK n \in Nat : n = Len(st.seen)
                BY <4>1
              <7>2. k \in Nat /\ Len(more) = n + 1
                BY <1>0, <4>1, <7>1
              <7> QED
                BY <7>1, <7>2
            <6> QED
              BY <4>4, <6>1, <6>2
          <5>2. PICK l \in DOMAIN seen : seen[l] = more[k] /\ Len(seen) - l = Len(more) - k
            BY <4>3, <5>1
          <5>3. Len(more) - k = Len(st.seen) + 1 - k
            BY <4>1
          <5> QED
            BY <5>1, <5>2, <5>3
        <4>5. MaxEvents > 0 => \E l \in DOMAIN seen : seen[l] = tick /\ Len(seen) - l = 0
          <5>1. Len(more) - (Len(st.seen) + 1) = 0
            BY <4>1
          <5> QED
            BY <4>1, <4>3, <5>1
        <4> QED
          BY <3>2, <4>3, <4>4, <4>5
      <3> QED
        BY <3>1, <3>2
    <2> HIDE DEF seen
    <2>7. /\ new.entries = entries /\ new.seen = seen
          /\ new.lastBusTick = st.lastBusTick /\ new.scroll = st.scroll
          /\ new \in FeedStates
      BY <1>0, <2>1, <2>4, <2>6 DEF FeedStates
    <2> HIDE DEF new
    <2>8. Remembers(new)
      <3> SUFFICES ASSUME NEW i \in DOMAIN entries, entries[i].tick > 0
                   PROVE  \E l \in DOMAIN seen : seen[l] = entries[i].tick /\ Len(seen) - l < i
        BY <2>7 DEF Remembers
      <3>1. CASE i = 1
        <4>1. entries[i].tick = tick /\ tick > 0 /\ MaxEvents > 0
          BY <2>2, <2>5, <3>1, PanelBounds
        <4>2. PICK l \in DOMAIN seen : seen[l] = tick /\ Len(seen) - l = 0
          BY <2>6, <4>1
        <4>3. Len(seen) - l < i
          BY <3>1, <4>2
        <4> QED
          BY <4>1, <4>2, <4>3
      <3>2. CASE i # 1
        <4>1. i - 1 \in DOMAIN st.entries /\ entries[i] = st.entries[i - 1] /\ i \in 1..MaxEvents
          BY <2>5, <3>2
        <4>2. PICK k \in DOMAIN st.seen : st.seen[k] = entries[i].tick /\ Len(st.seen) - k < i - 1
          BY <1>0, <4>1 DEF Remembers
        <4>3. PICK n \in Nat : n = Len(st.seen) /\ k \in 1..n
          <5>1. Len(st.seen) \in Nat /\ DOMAIN st.seen = 1..Len(st.seen)
            BY <1>0, LenProperties
          <5> QED
            BY <5>1
        <4>4. n + 1 - k < MaxEvents /\ n + 1 - k < i /\ n - k < i
          BY <4>1, <4>2, <4>3, PanelBounds
        <4>5. CASE tick > 0
          <5>1. PICK l \in DOMAIN seen : seen[l] = st.seen[k] /\ Len(seen) - l = n + 1 - k
            BY <2>6, <4>3, <4>4, <4>5
          <5> QED
            BY <4>2, <4>4, <5>1
        <4>6. CASE ~(tick > 0)
          BY <2>6, <4>2, <4>3, <4>4, <4>6
        <4> QED
          BY <4>5, <4>6
      <3> QED
        BY <3>1, <3>2
    <2>9. Feed!EachTickOnce(new)
      <3> SUFFICES ASSUME NEW i \in DOMAIN entries, NEW j \in DOMAIN entries, i < j, entries[i].tick > 0
                   PROVE  entries[i].tick # entries[j].tick
        BY <2>7 DEF Feed!EachTickOnce
      <3>1. j # 1 /\ j - 1 \in DOMAIN st.entries /\ entries[j] = st.entries[j - 1]
        BY <2>5
      <3>2. CASE i = 1
        <4>1. entries[i].tick = tick /\ tick > 0
          BY <2>2, <2>5, <3>2
        <4>2. entries[j].tick > 0 => entries[j].tick \in Feed!ToSet(st.seen)
          BY <1>0, <3>1 DEF Remembers, Feed!ToSet
        <4> QED
          BY <1>2, <4>1, <4>2
      <3>3. CASE i # 1
        <4>1. i - 1 \in DOMAIN st.entries /\ entries[i] = st.entries[i - 1] /\ i - 1 < j - 1
          BY <2>5, <3>3
        <4> QED
          BY <1>0, <3>1, <4>1 DEF Feed!EachTickOnce
      <3> QED
        BY <3>2, <3>3
    <2>10. BusBehind(new)
      BY <1>0, <2>2, <2>5, <2>7 DEF BusBehind
    <2>11. Feed!BusInOrder(new)
      <3> SUFFICES ASSUME NEW i \in DOMAIN entries, NEW j \in DOMAIN entries, i < j,
                          entries[i].kind = "bus", entries[j].kind = "bus"
                   PROVE  entries[i].tick > entries[j].tick
        BY <2>7 DEF Feed!BusInOrder
      <3>1. j # 1 /\ j - 1 \in DOMAIN st.entries /\ entries[j] = st.entries[j - 1]
        BY <2>5
      <3>2. CASE i = 1
        <4>1. entries[i].tick = tick /\ kind = "bus" /\ st.entries[j - 1].tick \in Nat
          <5>1. entries[i] = entry
            BY <2>5, <3>2
          <5>2. st.entries[j - 1] \in FeedEntries
            BY <1>0, <3>1
          <5> QED
            BY <2>2, <5>1, <5>2 DEF FeedEntries
        <4>2. st.entries[j - 1].tick < tick
          BY <3>1, <4>1
        <4> QED
          BY <3>1, <4>1, <4>2
      <3>3. CASE i # 1
        <4>1. i - 1 \in DOMAIN st.entries /\ entries[i] = st.entries[i - 1] /\ i - 1 < j - 1
          BY <2>5, <3>3
        <4> QED
          BY <1>0, <3>1, <4>1 DEF Feed!BusInOrder
      <3> QED
        BY <3>2, <3>3
    <2> QED
      BY <2>4, <2>6, <2>7, <2>8, <2>9, <2>10, <2>11 DEF GoodFeeds, new
  <1> QED
    BY <1>1, <1>2

\* A fold whose steps stay among the good states ends in one: the recursion that
\* defines it has a solution, and the one that CHOOSE takes is a solution too.
LEMMA EmergenceKeeps ==
  ASSUME NEW st \in GoodFeeds, NEW events \in Seq([tick : Nat, lasting : BOOLEAN])
  PROVE  Feed!OnEmergence(st, events) \in GoodFeeds
  <1> DEFINE E == [tick : Nat, lasting : BOOLEAN]
             Taken(acc, e) == IF e.lasting THEN Feed!AddEntry(acc, "emergence", e.tick) ELSE acc
             D == DOMAIN events
             Run(it) == [s \in SUBSET D |-> IF s = {} THEN st ELSE Taken(it[s \ {Max(s)}], events[Max(s)])]
             run == CHOOSE it : it = Run(it)
  <1>1. Feed!OnEmergence(st, events) = run[D]
    BY DEF Feed!OnEmergence, Feed!FoldLeft, Feed!MapThenFoldSet, Feed!Max, Max
  <1>2. ASSUME NEW acc \in GoodFeeds, NEW e \in E PROVE Taken(acc, e) \in GoodFeeds
    BY EntryAdded
  <1>0. events \in Seq(E)
    OBVIOUS
  <1> HIDE DEF Taken, E
  <1>3. \A i \in D : events[i] \in E
    BY <1>0
  <1>4. Len(events) \in Nat /\ D = 1..Len(events)
    BY <1>0
  <1> HIDE DEF D
  <1>5. \E it : it = Run(it)
    <2> DEFINE f == [pair \in GoodFeeds \X E |-> Taken(pair[1], pair[2])]
    <2>1. f \in [GoodFeeds \X E -> GoodFeeds] /\ \A acc \in GoodFeeds, e \in E : f[acc, e] = Taken(acc, e)
      BY <1>2
    <2> HIDE DEF f
    <2>2. PICK it : IsFold(it, GoodFeeds, st, events, f)
      BY <1>0, <2>1, FoldExists
    <2>3. /\ it \in [SUBSET D -> GoodFeeds]
          /\ \A s \in SUBSET D : it[s] = IF s = {} THEN st ELSE f[it[s \ {Max(s)}], events[Max(s)]]
      BY <2>2 DEF D, IsFold
    <2>4. \A s \in SUBSET D : it[s] = IF s = {} THEN st ELSE Taken(it[s \ {Max(s)}], events[Max(s)])
      <3> SUFFICES ASSUME NEW s \in SUBSET D, s # {}
                   PROVE  f[it[s \ {Max(s)}], events[Max(s)]] = Taken(it[s \ {Max(s)}], events[Max(s)])
        BY <2>3
      <3>1. Max(s) \in D
        BY <1>4, MaxIsLast
      <3> QED
        BY <1>3, <2>1, <2>3, <3>1
    <2> QED
      BY <2>3, <2>4
  <1>6. run = Run(run)
    BY <1>5
  <1> HIDE DEF run
  <1>7. run[{}] \in GoodFeeds
    BY <1>6
  <1>8. ASSUME NEW s \in SUBSET (1..Len(events)), s # {}, run[s \ {Max(s)}] \in GoodFeeds
        PROVE  run[s] \in GoodFeeds
    <2>1. Max(s) \in D
      BY <1>4, <1>8, MaxIsLast
    <2>2. run[s] = Taken(run[s \ {Max(s)}], events[Max(s)])
      BY <1>4, <1>6, <1>8
    <2> QED
      BY <1>2, <1>3, <1>8, <2>1, <2>2
  <1> QED
    BY <1>1, <1>4, <1>7, <1>8, FoldInduction

LEMMA BusEventKeeps ==
  ASSUME NEW st \in GoodFeeds, NEW e \in [tick : Nat, wanted : BOOLEAN], Feed!Passes(st, e)
  PROVE  Feed!AddEntry([st EXCEPT !.lastBusTick = e.tick], "bus", e.tick) \in GoodFeeds
  <1> DEFINE moved == [st EXCEPT !.lastBusTick = e.tick]
  <1>1. /\ st \in FeedStates /\ st.lastBusTick \in Nat /\ e.tick \in Nat /\ e.tick > st.lastBusTick
        /\ st.entries \in Seq(FeedEntries)
    BY DEF GoodFeeds, FeedStates, Feed!Passes
  <1>2. /\ moved \in FeedStates /\ moved.lastBusTick = e.tick
        /\ moved.entries = st.entries /\ moved.seen = st.seen
    BY <1>1 DEF FeedStates
  <1> HIDE DEF moved
  <1>3. \A i \in DOMAIN st.entries : st.entries[i].kind = "bus" => st.entries[i].tick < e.tick
    <2> SUFFICES ASSUME NEW i \in DOMAIN st.entries, st.entries[i].kind = "bus"
                 PROVE  st.entries[i].tick < e.tick
      OBVIOUS
    <2>1. st.entries[i].tick <= st.lastBusTick
      BY DEF GoodFeeds, BusBehind
    <2>2. st.entries[i] \in FeedEntries
      BY <1>1
    <2>3. st.entries[i].tick \in Nat
      BY <2>2 DEF FeedEntries
    <2> QED
      BY <1>1, <2>1, <2>3
  <1>4. BusBehind(moved)
    <2> SUFFICES ASSUME NEW i \in DOMAIN st.entries, st.entries[i].kind = "bus"
                 PROVE  st.entries[i].tick <= e.tick
      BY <1>2 DEF BusBehind
    <2>1. st.entries[i] \in FeedEntries
      BY <1>1
    <2>2. st.entries[i].tick \in Nat
      BY <2>1 DEF FeedEntries
    <2> QED
      BY <1>1, <1>3, <2>2
  <1>5. moved \in GoodFeeds
    BY <1>2, <1>4 DEF GoodFeeds, Remembers, Feed!EachTickOnce, Feed!BusInOrder
  <1>6. e.tick > 0 /\ e.tick <= moved.lastBusTick
    BY <1>1, <1>2
  <1> QED
    BY <1>1, <1>2, <1>3, <1>5, <1>6, EntryAdded DEF moved

LEMMA BusKeeps ==
  ASSUME NEW st \in GoodFeeds, NEW events \in Seq([tick : Nat, wanted : BOOLEAN])
  PROVE  Feed!OnBus(st, events) \in GoodFeeds
  <1> DEFINE E == [tick : Nat, wanted : BOOLEAN]
             Taken(acc, e) == IF Feed!Passes(acc, e)
                                THEN Feed!AddEntry([acc EXCEPT !.lastBusTick = e.tick], "bus", e.tick)
                                ELSE acc
             D == DOMAIN events
             Run(it) == [s \in SUBSET D |-> IF s = {} THEN st ELSE Taken(it[s \ {Max(s)}], events[Max(s)])]
             run == CHOOSE it : it = Run(it)
  <1>1. Feed!OnBus(st, events) = run[D]
    BY DEF Feed!OnBus, Feed!FoldLeft, Feed!MapThenFoldSet, Feed!Max, Max
  <1>2. ASSUME NEW acc \in GoodFeeds, NEW e \in E PROVE Taken(acc, e) \in GoodFeeds
    BY <1>2, BusEventKeeps
  <1>0. events \in Seq(E)
    OBVIOUS
  <1> HIDE DEF Taken, E
  <1>3. \A i \in D : events[i] \in E
    BY <1>0
  <1>4. Len(events) \in Nat /\ D = 1..Len(events)
    BY <1>0
  <1> HIDE DEF D
  <1>5. \E it : it = Run(it)
    <2> DEFINE f == [pair \in GoodFeeds \X E |-> Taken(pair[1], pair[2])]
    <2>1. f \in [GoodFeeds \X E -> GoodFeeds] /\ \A acc \in GoodFeeds, e \in E : f[acc, e] = Taken(acc, e)
      BY <1>2
    <2> HIDE DEF f
    <2>2. PICK it : IsFold(it, GoodFeeds, st, events, f)
      BY <1>0, <2>1, FoldExists
    <2>3. /\ it \in [SUBSET D -> GoodFeeds]
          /\ \A s \in SUBSET D : it[s] = IF s = {} THEN st ELSE f[it[s \ {Max(s)}], events[Max(s)]]
      BY <2>2 DEF D, IsFold
    <2>4. \A s \in SUBSET D : it[s] = IF s = {} THEN st ELSE Taken(it[s \ {Max(s)}], events[Max(s)])
      <3> SUFFICES ASSUME NEW s \in SUBSET D, s # {}
                   PROVE  f[it[s \ {Max(s)}], events[Max(s)]] = Taken(it[s \ {Max(s)}], events[Max(s)])
        BY <2>3
      <3>1. Max(s) \in D
        BY <1>4, MaxIsLast
      <3> QED
        BY <1>3, <2>1, <2>3, <3>1
    <2> QED
      BY <2>3, <2>4
  <1>6. run = Run(run)
    BY <1>5
  <1> HIDE DEF run
  <1>7. run[{}] \in GoodFeeds
    BY <1>6
  <1>8. ASSUME NEW s \in SUBSET (1..Len(events)), s # {}, run[s \ {Max(s)}] \in GoodFeeds
        PROVE  run[s] \in GoodFeeds
    <2>1. Max(s) \in D
      BY <1>4, <1>8, MaxIsLast
    <2>2. run[s] = Taken(run[s \ {Max(s)}], events[Max(s)])
      BY <1>4, <1>6, <1>8
    <2> QED
      BY <1>2, <1>3, <1>8, <2>1, <2>2
  <1> QED
    BY <1>1, <1>4, <1>7, <1>8, FoldInduction

\* JSON that a panel decodes is what its command may print.
LEMMA DataIsPrinted ==
  ASSUME NEW ev, Received(ev), ev.type = "BridgeData", ev.payload.out = "json",
         ev.tag \in {"fiber_snapshot", "orac_field_emergence", "pv2_bus_events"}
  PROVE  ev.payload.data \in Payloads[ev.tag]
  <1>1. PICK tag, done : \E result \in Results(tag, done) : ev = HandleResult(tag, result)
    BY DEF Received, PipeEvent
  <1>2. PICK result \in Results(tag, done) : ev = HandleResult(tag, result)
    BY <1>1
  <1>3. ev.tag = tag /\ ev.payload = result
    BY <1>2 DEF HandleResult
  <1>4. tag \notin ReaderTags /\ tag # PerceiveTag
    BY <1>3 DEF ReaderTags, PerceiveTag
  <1>5. result = Failed \/ (\E data \in Payloads[tag] : result = Printed(data)) \/ result = [exit |-> 0, out |-> "text"]
    BY <1>2, <1>4 DEF Results
  <1>6. PICK data \in Payloads[tag] : result = Printed(data)
    BY <1>3, <1>5 DEF Failed
  <1> QED
    BY <1>3, <1>6 DEF Printed

LEMMA FeedEvent ==
  ASSUME NEW st \in GoodFeeds, NEW ev, Received(ev)
  PROVE  Feed!HandleEvent(st, ev) \in GoodFeeds
  <1>1. ASSUME NEW n \in 0..ScrollCap PROVE [st EXCEPT !.scroll = n] \in GoodFeeds
    <2> DEFINE new == [st EXCEPT !.scroll = n]
    <2>1. /\ new \in FeedStates /\ new.entries = st.entries /\ new.seen = st.seen
          /\ new.lastBusTick = st.lastBusTick
      BY DEF GoodFeeds, FeedStates
    <2> HIDE DEF new
    <2>2. new \in GoodFeeds
      BY <2>1 DEF GoodFeeds, Remembers, BusBehind, Feed!EachTickOnce, Feed!BusInOrder
    <2> QED
      BY <2>2 DEF new
  <1>2. \A key : Feed!OnKey(st, key) \in GoodFeeds
    <2> SUFFICES ASSUME NEW key PROVE Feed!OnKey(st, key) \in GoodFeeds
      OBVIOUS
    <2>1. st.scroll \in 0..ScrollCap /\ st \in [entries : Seq(FeedEntries), seen : Seq(Nat), lastBusTick : Nat, scroll : 0..ScrollCap]
      BY DEF GoodFeeds, FeedStates
    <2>2. /\ (IF st.scroll < ScrollCap THEN st.scroll + 1 ELSE st.scroll) \in 0..ScrollCap
          /\ (IF st.scroll > 0 THEN st.scroll - 1 ELSE 0) \in 0..ScrollCap
          /\ 0 \in 0..ScrollCap
      BY <2>1, PanelBounds
    <2>3. /\ Feed!OnKey(st, "j") = [st EXCEPT !.scroll = IF st.scroll < ScrollCap THEN st.scroll + 1 ELSE st.scroll]
          /\ Feed!OnKey(st, "k") = [st EXCEPT !.scroll = IF st.scroll > 0 THEN st.scroll - 1 ELSE 0]
          /\ Feed!OnKey(st, "g") = [st EXCEPT !.scroll = 0]
      BY <2>1 DEF Feed!OnKey
    <2>4. key \notin {"j", "k", "g"} => Feed!OnKey(st, key) = st
      BY DEF Feed!OnKey
    <2>5. CASE key = "j"
      BY <1>1, <2>2, <2>3, <2>5
    <2>6. CASE key = "k"
      BY <1>1, <2>2, <2>3, <2>6
    <2>7. CASE key = "g"
      BY <1>1, <2>2, <2>3, <2>7
    <2> QED
      BY <2>4, <2>5, <2>6, <2>7
  <1>3. CASE ev.type = "BridgeData" /\ ev.payload.out = "json" /\ ev.tag = "orac_field_emergence"
    <2>1. ev.payload.data \in Seq([tick : Nat, lasting : BOOLEAN])
      BY <1>3, DataIsPrinted, PayloadsDecode
    <2>2. Feed!HandleEvent(st, ev) = Feed!OnEmergence(st, ev.payload.data)
      BY <1>3 DEF Feed!HandleEvent
    <2> QED
      BY <2>1, <2>2, EmergenceKeeps
  <1>4. CASE ev.type = "BridgeData" /\ ev.payload.out = "json" /\ ev.tag = "pv2_bus_events"
    <2>1. ev.payload.data \in Seq([tick : Nat, wanted : BOOLEAN])
      BY <1>4, DataIsPrinted, PayloadsDecode
    <2>2. Feed!HandleEvent(st, ev) = Feed!OnBus(st, ev.payload.data)
      BY <1>4 DEF Feed!HandleEvent
    <2> QED
      BY <2>1, <2>2, BusKeeps
  <1>5. CASE ev.type = "KeyPress"
    BY <1>2, <1>5 DEF Feed!HandleEvent
  <1> QED
    BY <1>3, <1>4, <1>5 DEF Feed!HandleEvent

FeedInv == EF \in DOMAIN modules => modules[EF] \in GoodFeeds

LEMMA FeedFresh ==
  ASSUME NEW ids, EF \in DOMAIN NewModules(ids)
  PROVE  NewModules(ids)[EF] \in GoodFeeds
  <1>1. NewModule(EF) = Feed!NewFeed
    BY DEF NewModule, EF
  <1>2. Feed!NewFeed \in FeedStates /\ Feed!NewFeed.entries = <<>> /\ Feed!NewFeed.seen = <<>>
    BY PanelBounds DEF Feed!NewFeed, FeedStates
  <1>3. Feed!NewFeed \in GoodFeeds
    BY <1>2, PanelBounds DEF GoodFeeds, Remembers, BusBehind, Feed!EachTickOnce, Feed!BusInOrder
  <1> QED
    BY <1>1, <1>3 DEF NewModules

LEMMA FeedStep ==
  ASSUME FeedInv, [PluginNext]_vars
  PROVE  FeedInv'
  <1>1. ASSUME NEW ev, Received(ev), DispatchEvent(ev), EF \in DOMAIN modules PROVE modules'[EF] \in GoodFeeds
    <2>1. \A st : Handle(EF, st, ev) = Feed!HandleEvent(st, ev)
      BY DEF Handle, EF
    <2>2. modules'[EF] = Feed!HandleEvent(modules[EF], ev) \/ modules'[EF] = modules[EF]
      BY <1>1, <2>1 DEF DispatchEvent
    <2> QED
      BY <1>1, <2>2, FeedEvent DEF FeedInv
  <1>2. CASE \E ev : Received(ev) /\ DispatchEvent(ev)
    BY <1>1, <1>2 DEF FeedInv, DispatchEvent
  <1>3. CASE modules' = NewModules(layout.modules)
    BY <1>3, FeedFresh DEF FeedInv
  <1>4. CASE modules' = modules \/ modules' = <<>>
    BY <1>4 DEF FeedInv
  <1> QED
    BY <1>2, <1>3, <1>4, EventsStep

LEMMA FeedInit == PluginInit => FeedInv
  BY FeedFresh DEF PluginInit, FeedInv

\* For answers of any length, in any order and repeated at will: the list shows
\* no tick twice, and bus events in the order of their ticks.
THEOREM FeedTheorem == PluginSpec => []FeedShowsEachTickOnce
  <1>1. FeedInv => FeedShowsEachTickOnce
    BY DEF FeedInv, FeedShowsEachTickOnce, Shows, GoodFeeds, EF
  <1> QED
    BY <1>1, FeedInit, FeedStep, PTL DEF PluginSpec

----------------------------------------------------------------------------
(* The cursor of fiber_cockpit *)

CockpitStates == [snapshot : Attention!Feeds, selected : Nat, expanded : BOOLEAN, ticks : 0..AgeCap]

\* The states of the panel whose cursor is on its list.
GoodCockpits == {st \in CockpitStates : Cockpit!SelectionIsListed(st)}

LEMMA CockpitFeedKeeps ==
  ASSUME NEW st \in GoodCockpits, NEW feed \in Attention!Feeds
  PROVE  Cockpit!SetSnapshot(st, feed) \in GoodCockpits
  <1> DEFINE n == Cockpit!Clamped(st.selected, feed)
  <1>1. st \in CockpitStates /\ st.selected \in Nat /\ Len(feed.campaigns) \in Nat /\ 0 \in 0..AgeCap
    BY PanelBounds DEF GoodCockpits, CockpitStates, Attention!Feeds
  <1>2. feed.campaigns # <<>> => Len(feed.campaigns) > 0
    BY DEF Attention!Feeds
  <1>3. n \in Nat /\ (n < Len(feed.campaigns) \/ (n = 0 /\ feed.campaigns = <<>>))
    BY <1>1, <1>2 DEF Cockpit!Clamped
  <1>4. Cockpit!SetSnapshot(st, feed) = [st EXCEPT !.snapshot = feed, !.selected = n, !.ticks = 0]
    BY DEF Cockpit!SetSnapshot
  <1> HIDE DEF n
  <1>5. [st EXCEPT !.snapshot = feed, !.selected = n, !.ticks = 0] \in GoodCockpits
    BY <1>1, <1>3 DEF GoodCockpits, CockpitStates, Cockpit!SelectionIsListed
  <1> QED
    BY <1>4, <1>5

LEMMA SelectedKeeps ==
  ASSUME NEW st \in GoodCockpits, NEW n \in Nat, n < Len(st.snapshot.campaigns)
  PROVE  [st EXCEPT !.selected = n] \in GoodCockpits
  BY DEF GoodCockpits, CockpitStates, Cockpit!SelectionIsListed

LEMMA CockpitNameKeeps ==
  ASSUME NEW st \in GoodCockpits, NEW name
  PROVE  Cockpit!SelectByName(st, name) \in GoodCockpits
  <1> DEFINE places == {i \in DOMAIN st.snapshot.campaigns : st.snapshot.campaigns[i].name = name}
             first == CHOOSE i \in places : \A j \in places : i <= j
  <1>1. st.snapshot \in Attention!Feeds
    BY DEF GoodCockpits, CockpitStates
  <1>2. PICK len \in Nat : len = Len(st.snapshot.campaigns) /\ DOMAIN st.snapshot.campaigns = 1..len
    BY <1>1 DEF Attention!Feeds
  <1>3. CASE places = {}
    BY <1>3 DEF Cockpit!SelectByName
  <1>4. CASE places # {}
    <2>1. places \subseteq Nat
      BY <1>2
    <2>2. \E i \in places : \A j \in places : i <= j
      BY <1>4, <2>1, SmallestExists
    <2>3. first \in places
      BY <2>2
    <2>4. first \in 1..len
      BY <1>2, <2>3
    <2>5. Cockpit!SelectByName(st, name) = [st EXCEPT !.selected = first - 1]
      BY <1>4 DEF Cockpit!SelectByName
    <2> HIDE DEF first
    <2>6. first - 1 \in Nat /\ first - 1 < Len(st.snapshot.campaigns)
      BY <1>2, <2>4
    <2> QED
      BY <2>5, <2>6, SelectedKeeps
  <1> QED
    BY <1>3, <1>4

LEMMA CockpitKeyKeeps ==
  ASSUME NEW st \in GoodCockpits, NEW key
  PROVE  Cockpit!OnKey(st, key) \in GoodCockpits
  <1>1. st.selected \in Nat /\ Len(st.snapshot.campaigns) \in Nat /\ Cockpit!SelectionIsListed(st)
    BY DEF GoodCockpits, CockpitStates, Attention!Feeds
  <1>2. CASE key = "j"
    <2>1. CASE st.selected + 1 < Len(st.snapshot.campaigns)
      <3>1. Cockpit!OnKey(st, key) = [st EXCEPT !.selected = st.selected + 1]
        BY <1>2, <2>1 DEF Cockpit!OnKey
      <3> QED
        BY <1>1, <2>1, <3>1, SelectedKeeps
    <2>2. CASE ~(st.selected + 1 < Len(st.snapshot.campaigns))
      BY <1>2, <2>2 DEF Cockpit!OnKey
    <2> QED
      BY <2>1, <2>2
  <1>3. CASE key = "k"
    <2>1. CASE st.selected > 0
      <3>1. Cockpit!OnKey(st, key) = [st EXCEPT !.selected = st.selected - 1]
        BY <1>3, <2>1 DEF Cockpit!OnKey
      <3>2. st.selected - 1 \in Nat /\ st.selected - 1 < Len(st.snapshot.campaigns)
        BY <1>1, <2>1 DEF Cockpit!SelectionIsListed
      <3> QED
        BY <3>1, <3>2, SelectedKeeps
    <2>2. CASE ~(st.selected > 0)
      BY <1>3, <2>2 DEF Cockpit!OnKey
    <2> QED
      BY <2>1, <2>2
  <1>4. CASE key \in {"l", "h"}
    <2>1. PICK shown \in BOOLEAN : Cockpit!OnKey(st, key) = [st EXCEPT !.expanded = shown]
      BY <1>4 DEF Cockpit!OnKey
    <2>2. [st EXCEPT !.expanded = shown] \in GoodCockpits
      BY DEF GoodCockpits, CockpitStates, Cockpit!SelectionIsListed
    <2> QED
      BY <2>1, <2>2
  <1>5. CASE key = "g"
    <2>1. Cockpit!OnKey(st, key) = [st EXCEPT !.selected = 0, !.expanded = FALSE]
      BY <1>5 DEF Cockpit!OnKey
    <2>2. 0 < Len(st.snapshot.campaigns) \/ st.snapshot.campaigns = <<>>
      BY <1>1 DEF Cockpit!SelectionIsListed
    <2>3. [st EXCEPT !.selected = 0, !.expanded = FALSE] \in GoodCockpits
      BY <2>2 DEF GoodCockpits, CockpitStates, Cockpit!SelectionIsListed
    <2> QED
      BY <2>1, <2>3
  <1>6. CASE key \notin {"j", "k", "l", "h", "g"}
    BY <1>6 DEF Cockpit!OnKey
  <1> QED
    BY <1>2, <1>3, <1>4, <1>5, <1>6

\* What reaches the panels as a feed is one.
LEMMA FeedIsDecoded ==
  ASSUME layout \in Layouts, NEW ev, Received(ev), Brings(ev)
  PROVE  ev.payload.data \in Attention!Feeds
  <1>1. CASE ev.type = "PipeCommand"
    <2>1. PICK msg \in layout.pipes, now \in layout.clock : ev = PipeEvent(msg, now)
      BY <1>1 DEF Received, HandleResult
    <2>2. ev.name = msg.name /\ ev.payload = msg.payload
      BY <2>1 DEF PipeEvent
    <2>3. msg.name = "fiber-data" /\ msg.payload.out = "json"
      BY <1>1, <2>2 DEF Brings
    <2> QED
      BY <2>2, <2>3, PipesDecode
  <1>2. CASE ev.type # "PipeCommand"
    <2>1. ev.type = "BridgeData" /\ ev.tag = "fiber_snapshot" /\ ev.payload.out = "json"
      BY <1>2 DEF Brings
    <2>2. ev.payload.data \in Payloads["fiber_snapshot"]
      BY <2>1, DataIsPrinted
    <2> QED
      BY <2>2, PayloadsDecode
  <1> QED
    BY <1>1, <1>2

LEMMA CockpitKeeps ==
  ASSUME layout \in Layouts, NEW st \in GoodCockpits, NEW ev, Received(ev)
  PROVE  Cockpit!HandleEvent(st, ev) \in GoodCockpits
  <1>1. CASE Brings(ev)
    <2>1. Cockpit!HandleEvent(st, ev) = Cockpit!SetSnapshot(st, ev.payload.data)
      BY <1>1 DEF Brings, Cockpit!HandleEvent
    <2> QED
      BY <1>1, <2>1, FeedIsDecoded, CockpitFeedKeeps
  <1>2. CASE ev.type = "KeyPress"
    BY <1>2, CockpitKeyKeeps DEF Cockpit!HandleEvent
  <1>3. CASE ev.type = "Tick"
    <2>1. st.ticks \in 0..AgeCap
      BY DEF GoodCockpits, CockpitStates
    <2>2. PICK n \in 0..AgeCap : n = IF st.ticks < AgeCap THEN st.ticks + 1 ELSE st.ticks
      BY <2>1, PanelBounds
    <2>3. Cockpit!HandleEvent(st, ev) = [st EXCEPT !.ticks = n]
      BY <1>3, <2>2 DEF Cockpit!HandleEvent
    <2>4. [st EXCEPT !.ticks = n] \in GoodCockpits
      BY DEF GoodCockpits, CockpitStates, Cockpit!SelectionIsListed
    <2> QED
      BY <2>3, <2>4
  <1>4. CASE ev.type \notin {"KeyPress", "Tick"} /\ ~Brings(ev)
    <2>1. \/ Cockpit!HandleEvent(st, ev) = Cockpit!SelectByName(st, ev.payload)
          \/ Cockpit!HandleEvent(st, ev) = st
      BY <1>4 DEF Brings, Cockpit!HandleEvent
    <2> QED
      BY <2>1, CockpitNameKeeps
  <1> QED
    BY <1>1, <1>2, <1>3, <1>4

----------------------------------------------------------------------------
(* The watch list and the baselines of campaign_attention *)

Distinct(names) == \A i, j \in DOMAIN names : names[i] = names[j] => i = j

\* What a filter that keeps `some` may have made of the first k names of a list.
Filtered(names, some, k) ==
  {acc \in Seq(Names) :
     /\ Len(acc) <= k
     /\ \A i \in DOMAIN acc : \E m \in 1..k : acc[i] = names[m]
     /\ \A m \in 1..k : names[m] \in some => \E i \in DOMAIN acc : acc[i] = names[m]
     /\ Distinct(names) => Distinct(acc)}

LEMMA FilteredKeeps ==
  ASSUME NEW names \in Seq(Names), NEW some, NEW k \in Nat, k + 1 <= Len(names),
         NEW acc \in Filtered(names, some, k)
  PROVE  /\ names[k + 1] \notin some => acc \in Filtered(names, some, k + 1)
         /\ Append(acc, names[k + 1]) \in Filtered(names, some, k + 1)
  <1> DEFINE longer == Append(acc, names[k + 1])
  <1>1. PICK len \in Nat : len = Len(acc) /\ DOMAIN acc = 1..len /\ len <= k
    BY DEF Filtered
  <1>2. k + 1 \in DOMAIN names /\ DOMAIN names = 1..Len(names) /\ Len(names) \in Nat
    OBVIOUS
  <1>3. names[k + 1] \in Names /\ acc \in Seq(Names)
    BY <1>2 DEF Filtered
  <1>4. /\ longer \in Seq(Names) /\ Len(longer) = len + 1 /\ DOMAIN longer = 1..(len + 1)
        /\ longer[len + 1] = names[k + 1] /\ \A i \in 1..len : longer[i] = acc[i]
    BY <1>1, <1>3
  <1> HIDE DEF longer
  <1>5. \A i \in 1..len : \E m \in 1..k : acc[i] = names[m]
    BY <1>1 DEF Filtered
  <1>6. \A i \in 1..len : \E m \in 1..(k + 1) : acc[i] = names[m]
    <2> SUFFICES ASSUME NEW i \in 1..len PROVE \E m \in 1..(k + 1) : acc[i] = names[m]
      OBVIOUS
    <2>1. PICK m \in 1..k : acc[i] = names[m]
      BY <1>5
    <2>2. m \in 1..(k + 1)
      OBVIOUS
    <2> QED
      BY <2>1, <2>2
  <1>7. ASSUME names[k + 1] \notin some PROVE acc \in Filtered(names, some, k + 1)
    <2>1. \A m \in 1..(k + 1) : names[m] \in some => \E i \in DOMAIN acc : acc[i] = names[m]
      <3> SUFFICES ASSUME NEW m \in 1..(k + 1), names[m] \in some
                   PROVE  \E i \in DOMAIN acc : acc[i] = names[m]
        OBVIOUS
      <3>1. m \in 1..k
        BY <1>7
      <3> QED
        BY <3>1 DEF Filtered
    <2> QED
      BY <1>1, <1>3, <1>6, <2>1 DEF Filtered
  <1>8. \A i \in DOMAIN longer : \E m \in 1..(k + 1) : longer[i] = names[m]
    <2> SUFFICES ASSUME NEW i \in 1..(len + 1) PROVE \E m \in 1..(k + 1) : longer[i] = names[m]
      BY <1>4
    <2>1. CASE i = len + 1
      <3>1. k + 1 \in 1..(k + 1)
        OBVIOUS
      <3> QED
        BY <1>4, <2>1, <3>1
    <2>2. CASE i # len + 1
      <3>1. i \in 1..len
        BY <1>1, <2>2
      <3> QED
        BY <1>4, <1>6, <3>1
    <2> QED
      BY <2>1, <2>2
  <1>9. ASSUME Distinct(names) PROVE Distinct(longer)
    <2>1. Distinct(acc)
      BY <1>9 DEF Filtered
    <2>2. \A i \in 1..len : acc[i] # names[k + 1]
      <3> SUFFICES ASSUME NEW i \in 1..len, acc[i] = names[k + 1] PROVE FALSE
        OBVIOUS
      <3>1. PICK m \in 1..k : acc[i] = names[m]
        BY <1>5
      <3>2. m \in DOMAIN names /\ m # k + 1
        BY <1>2
      <3> QED
        BY <1>2, <1>9, <3>1, <3>2 DEF Distinct
    <2> SUFFICES ASSUME NEW i \in 1..(len + 1), NEW j \in 1..(len + 1), longer[i] = longer[j] PROVE i = j
      BY <1>4 DEF Distinct
    <2>3. i \in 1..len \/ i = len + 1
      BY <1>1
    <2>4. j \in 1..len \/ j = len + 1
      BY <1>1
    <2>5. CASE i \in 1..len /\ j \in 1..len
      BY <1>1, <1>4, <2>1, <2>5 DEF Distinct
    <2> QED
      BY <1>4, <2>2, <2>3, <2>4, <2>5
  <1>10. Len(longer) <= k + 1
    BY <1>1, <1>4
  <1>11. \A m \in 1..(k + 1) : names[m] \in some => \E i \in DOMAIN longer : longer[i] = names[m]
    <2> SUFFICES ASSUME NEW m \in 1..(k + 1), names[m] \in some
                 PROVE  \E i \in 1..(len + 1) : longer[i] = names[m]
      BY <1>4
    <2>1. CASE m = k + 1
      <3>1. len + 1 \in 1..(len + 1)
        BY <1>1
      <3> QED
        BY <1>4, <2>1, <3>1
    <2>2. CASE m # k + 1
      <3>1. m \in 1..k
        BY <2>2
      <3>2. PICK i \in 1..len : acc[i] = names[m]
        BY <1>1, <3>1 DEF Filtered
      <3>3. i \in 1..(len + 1)
        BY <1>1
      <3> QED
        BY <1>4, <3>2, <3>3
    <2> QED
      BY <2>1, <2>2
  <1>12. longer \in Filtered(names, some, k + 1)
    BY <1>4, <1>8, <1>9, <1>10, <1>11 DEF Filtered
  <1> QED
    BY <1>7, <1>12 DEF longer

\* As FoldInduction, with a claim for each length of the list so far.
LEMMA PrefixInduction ==
  ASSUME NEW P, NEW n \in Nat, NEW it, it[{}] \in P[0],
         \A k \in 0..(n - 1) : it[1..k] \in P[k] => it[1..(k + 1)] \in P[k + 1]
  PROVE  it[1..n] \in P[n]
  <1> DEFINE Bad == {k \in 0..n : it[1..k] \notin P[k]}
  <1> SUFFICES ASSUME Bad # {} PROVE FALSE
    OBVIOUS
  <1>1. PICK k \in Bad : \A m \in Bad : k <= m
    <2>1. Bad \subseteq Nat
      OBVIOUS
    <2> QED
      BY <2>1, SmallestExists
  <1>2. k \in 0..n /\ it[1..k] \notin P[k]
    BY <1>1
  <1>3. k # 0
    <2>1. 1..0 = {}
      OBVIOUS
    <2> QED
      BY <1>2, <2>1
  <1>4. k - 1 \in 0..n /\ k - 1 \notin Bad /\ k - 1 \in 0..(n - 1) /\ (k - 1) + 1 = k
    BY <1>1, <1>2, <1>3
  <1>5. it[1..(k - 1)] \in P[k - 1]
    BY <1>4
  <1> QED
    BY <1>2, <1>4, <1>5

LEMMA KeptIsFiltered ==
  ASSUME NEW names \in Seq(Names), NEW some
  PROVE  Attention!Kept(names, some) \in Filtered(names, some, Len(names))
  <1> DEFINE Taken(acc, n) == IF n \in some THEN Append(acc, n) ELSE acc
             D == DOMAIN names
             Run(it) == [s \in SUBSET D |-> IF s = {} THEN <<>> ELSE Taken(it[s \ {Max(s)}], names[Max(s)])]
             run == CHOOSE it : it = Run(it)
             P == [k \in 0..Len(names) |-> Filtered(names, some, k)]
  <1>1. Attention!Kept(names, some) = run[D]
    BY DEF Attention!Kept, Attention!FoldLeft, Attention!MapThenFoldSet, Attention!Max, Max
  <1>2. ASSUME NEW acc \in Seq(Names), NEW n \in Names PROVE Taken(acc, n) \in Seq(Names)
    OBVIOUS
  <1>3. ASSUME NEW k \in 0..(Len(names) - 1), NEW acc \in Filtered(names, some, k)
        PROVE  Taken(acc, names[k + 1]) \in Filtered(names, some, k + 1)
    <2>1. k \in Nat /\ k + 1 <= Len(names)
      OBVIOUS
    <2>2. CASE names[k + 1] \in some
      BY <2>1, <2>2, FilteredKeeps
    <2>3. CASE names[k + 1] \notin some
      BY <2>1, <2>3, FilteredKeeps
    <2> QED
      BY <2>2, <2>3
  <1> HIDE DEF Taken
  <1>4. Len(names) \in Nat /\ D = 1..Len(names) /\ \A i \in D : names[i] \in Names
    OBVIOUS
  <1> HIDE DEF D
  <1>5. \E it : it = Run(it)
    <2> DEFINE f == [pair \in Seq(Names) \X Names |-> Taken(pair[1], pair[2])]
    <2>1. /\ f \in [Seq(Names) \X Names -> Seq(Names)]
          /\ \A acc \in Seq(Names), n \in Names : f[acc, n] = Taken(acc, n)
      BY <1>2
    <2> HIDE DEF f
    <2>2. PICK it : IsFold(it, Seq(Names), <<>>, names, f)
      <3> DEFINE Q == Seq(Names)
      <3>1. <<>> \in Q
        OBVIOUS
      <3>2. f \in [Q \X Names -> Q]
        BY <2>1
      <3> HIDE DEF Q
      <3>3. \E it : IsFold(it, Q, <<>>, names, f)
        BY <3>1, <3>2, FoldExists
      <3> QED
        BY <3>3 DEF Q
    <2>3. /\ it \in [SUBSET D -> Seq(Names)]
          /\ \A s \in SUBSET D : it[s] = IF s = {} THEN <<>> ELSE f[it[s \ {Max(s)}], names[Max(s)]]
      BY <2>2 DEF D, IsFold
    <2>4. \A s \in SUBSET D : it[s] = IF s = {} THEN <<>> ELSE Taken(it[s \ {Max(s)}], names[Max(s)])
      <3> SUFFICES ASSUME NEW s \in SUBSET D, s # {}
                   PROVE  f[it[s \ {Max(s)}], names[Max(s)]] = Taken(it[s \ {Max(s)}], names[Max(s)])
        BY <2>3
      <3>1. Max(s) \in D
        BY <1>4, MaxIsLast
      <3> QED
        BY <1>4, <2>1, <2>3, <3>1
    <2> QED
      BY <2>3, <2>4
  <1>6. run = Run(run)
    BY <1>5
  <1> HIDE DEF run
  <1>7. P[0] = Filtered(names, some, 0) /\ P[Len(names)] = Filtered(names, some, Len(names))
    BY <1>4
  <1>8. run[{}] \in P[0]
    <2>1. run[{}] = <<>>
      BY <1>6
    <2>2. <<>> \in Filtered(names, some, 0)
      BY DEF Filtered, Distinct
    <2> QED
      BY <1>7, <2>1, <2>2
  <1>9. ASSUME NEW k \in 0..(Len(names) - 1), run[1..k] \in P[k] PROVE run[1..(k + 1)] \in P[k + 1]
    <2>1. k \in Nat /\ k \in 0..Len(names) /\ k + 1 \in 0..Len(names) /\ k + 1 \in 1..(k + 1)
      BY <1>4
    <2>2. P[k] = Filtered(names, some, k) /\ P[k + 1] = Filtered(names, some, k + 1)
      BY <2>1
    <2>3. Max(1..(k + 1)) = k + 1
      <3>1. Max(1..(k + 1)) \in 1..(k + 1) /\ k + 1 <= Max(1..(k + 1))
        <4>1. k + 1 \in Nat /\ 1..(k + 1) \in SUBSET (1..(k + 1)) /\ 1..(k + 1) # {}
          BY <2>1
        <4> QED
          BY <2>1, <4>1, MaxIsLast
      <3> QED
        BY <2>1, <3>1
    <2>4. (1..(k + 1)) \ {k + 1} = 1..k /\ 1..(k + 1) \in SUBSET D /\ 1..(k + 1) # {}
      BY <1>4, <2>1
    <2>5. run[1..(k + 1)] = Taken(run[1..k], names[k + 1])
      BY <1>6, <2>3, <2>4
    <2> QED
      BY <1>3, <1>9, <2>2, <2>5
  <1> HIDE DEF P
  <1>10. run[1..Len(names)] \in P[Len(names)]
    BY <1>4, <1>8, <1>9, PrefixInduction
  <1> QED
    BY <1>1, <1>4, <1>7, <1>10

LEMMA FeedIsSequence ==
  ASSUME NEW feed \in Attention!Feeds
  PROVE  Len(feed.campaigns) \in Nat /\ DOMAIN feed.campaigns = 1..Len(feed.campaigns)
         /\ \A i \in DOMAIN feed.campaigns : feed.campaigns[i] \in [name : Names, nodes : Nodes]
  <1> DEFINE Campaigns == [name : Names, nodes : Nodes]
  <1>1. feed.campaigns \in Seq(Campaigns)
    BY DEF Attention!Feeds
  <1> HIDE DEF Campaigns
  <1>2. Len(feed.campaigns) \in Nat /\ DOMAIN feed.campaigns = 1..Len(feed.campaigns)
        /\ \A i \in DOMAIN feed.campaigns : feed.campaigns[i] \in Campaigns
    BY <1>1
  <1> QED
    BY <1>2 DEF Campaigns

LEMMA DigestTyped ==
  ASSUME NEW feed \in Attention!Feeds, NEW n
  PROVE  Attention!CampaignDigest(feed, n) \in Nodes \X BOOLEAN
  <1> DEFINE list == feed.campaigns
             places == {i \in 1..Len(list) : list[i].name = n}
             first == CHOOSE i \in places : \A j \in places : i <= j
  <1>1. Len(list) \in Nat /\ DOMAIN list = 1..Len(list)
        /\ \A i \in DOMAIN list : list[i] \in [name : Names, nodes : Nodes]
    BY FeedIsSequence
  <1>2. ASSUME Attention!In(feed, n) PROVE Attention!NodesOf(feed, n) \in Nodes
    <2>1. places \subseteq Nat /\ places # {}
      BY <1>1, <1>2 DEF Attention!In
    <2>2. \E i \in places : \A j \in places : i <= j
      BY <2>1, SmallestExists
    <2>3. first \in places
      BY <2>2
    <2>4. Attention!NodesOf(feed, n) = list[first].nodes
      BY <1>2, <2>1 DEF Attention!NodesOf, Attention!SelectInSeq, Attention!Min
    <2> HIDE DEF first
    <2>5. list[first] \in [name : Names, nodes : Nodes]
      BY <1>1, <2>3
    <2> QED
      BY <2>4, <2>5
  <1>3. ASSUME ~Attention!In(feed, n) PROVE Attention!NodesOf(feed, n) \in Nodes
    BY <1>3, NoneIsNodes DEF Attention!NodesOf
  <1>4. Attention!NodesOf(feed, n) \in Nodes
    BY <1>2, <1>3
  <1>5. (n \in feed.armed) \in BOOLEAN
    BY SMT
  <1> QED
    BY <1>4, <1>5 DEF Attention!CampaignDigest

\* What the panel shows is the head of a list: of the names in the feed, or of
\* those on the watch list that are in the feed.
LEMMA VisibleIsHead ==
  ASSUME NEW st, st.snapshot \in Attention!Feeds, st.watch \in Seq(Names)
  PROVE  \E names \in Seq(Names), n \in Nat :
           /\ n = IF Len(names) < MaxWatched THEN Len(names) ELSE MaxWatched
           /\ Attention!VisibleCampaigns(st) = {names[i] : i \in 1..n}
           /\ st.watch = <<>> =>
                /\ Len(names) = Len(st.snapshot.campaigns)
                /\ \A i \in 1..Len(names) : names[i] = st.snapshot.campaigns[i].name
           /\ st.watch # <<>> =>
                names \in Filtered(st.watch, {w \in Names : Attention!In(st.snapshot, w)}, Len(st.watch))
  <1> DEFINE list == st.snapshot.campaigns
             named == [i \in DOMAIN list |-> list[i].name]
             live == {w \in Names : Attention!In(st.snapshot, w)}
             kept == Attention!Kept(st.watch, live)
             names == IF st.watch = <<>> THEN named ELSE kept
             n == IF Len(names) < MaxWatched THEN Len(names) ELSE MaxWatched
  <1>1. kept \in Filtered(st.watch, live, Len(st.watch)) /\ kept \in Seq(Names)
    <2>1. kept \in Filtered(st.watch, live, Len(st.watch))
      BY KeptIsFiltered
    <2> QED
      BY <2>1 DEF Filtered
  <1>2. named \in Seq(Names) /\ Len(named) = Len(list) /\ \A i \in 1..Len(list) : named[i] = list[i].name
    <2>1. Len(list) \in Nat /\ DOMAIN list = 1..Len(list)
          /\ \A i \in DOMAIN list : list[i] \in [name : Names, nodes : Nodes]
      BY FeedIsSequence
    <2>2. \A i \in 1..Len(list) : list[i].name \in Names
      BY <2>1
    <2>3. named = [i \in 1..Len(list) |-> list[i].name]
      BY <2>1
    <2> QED
      BY <2>1, <2>2, <2>3
  <1>3. Attention!VisibleCampaigns(st) = Attention!ToSet(SubSeq(names, 1, n))
    BY DEF Attention!VisibleCampaigns, Attention!FirstShown
  <1> HIDE DEF kept, named
  <1>4. names \in Seq(Names)
    BY <1>1, <1>2
  <1>5. st.watch = <<>> => Len(names) = Len(list) /\ \A i \in 1..Len(names) : names[i] = list[i].name
    BY <1>2
  <1>6. st.watch # <<>> => names \in Filtered(st.watch, live, Len(st.watch))
    BY <1>1
  <1> HIDE DEF names, live, list
  <1>7. n \in Nat /\ n <= Len(names)
    BY <1>4, PanelBounds
  <1>8. n = IF Len(names) < MaxWatched THEN Len(names) ELSE MaxWatched
    OBVIOUS
  <1> HIDE DEF n
  <1>9. /\ SubSeq(names, 1, n) \in Seq(Names) /\ Len(SubSeq(names, 1, n)) = n
        /\ DOMAIN SubSeq(names, 1, n) = 1..n
        /\ \A i \in 1..n : SubSeq(names, 1, n)[i] = names[i]
    BY <1>4, <1>7
  <1>10. Attention!VisibleCampaigns(st) = {names[i] : i \in 1..n}
    BY <1>3, <1>9 DEF Attention!ToSet
  <1> QED
    BY <1>4, <1>5, <1>6, <1>7, <1>8, <1>10 DEF live, list

LEMMA VisibleTyped ==
  ASSUME NEW st, st.snapshot \in Attention!Feeds, st.watch \in Seq(Names)
  PROVE  Attention!VisibleCampaigns(st) \subseteq Names
  <1>1. PICK names \in Seq(Names), n \in Nat :
          /\ n = IF Len(names) < MaxWatched THEN Len(names) ELSE MaxWatched
          /\ Attention!VisibleCampaigns(st) = {names[i] : i \in 1..n}
    BY VisibleIsHead
  <1>2. \A i \in 1..n : i \in 1..Len(names)
    BY <1>1, PanelBounds
  <1> QED
    BY <1>1, <1>2

\* Baselines: a digest for each of some campaigns.
AreBaselines(acked) == DOMAIN acked \subseteq Names /\ \A n \in DOMAIN acked : acked[n] \in Nodes \X BOOLEAN

LEMMA BaselineTyped ==
  ASSUME NEW st, st.snapshot \in Attention!Feeds, AreBaselines(st.acked), NEW names, names \subseteq Names
  PROVE  AreBaselines(Attention!Baseline(st, names))
  BY DigestTyped DEF AreBaselines, Attention!Baseline

LEMMA LiveTyped ==
  ASSUME NEW acked, AreBaselines(acked), NEW feed
  PROVE  AreBaselines(Attention!KeepLive(acked, feed))
  BY DEF AreBaselines, Attention!KeepLive

IsWatchList(names) == names \in Seq(Names) /\ Len(names) <= MaxWatched /\ Distinct(names)

LEMMA AttentionParts ==
  ASSUME NEW st
  PROVE  Attention!AttentionTypeOK(st) <=>
           /\ DOMAIN st = AttentionFields
           /\ st.snapshot \in Attention!Feeds
           /\ AreBaselines(st.acked)
           /\ IsWatchList(st.watch)
           /\ st.mine \in Names \cup {NoName}
           /\ st.ticks \in 0..AgeCap
  BY DEF Attention!AttentionTypeOK, AttentionFields, AreBaselines, IsWatchList, Distinct

LEMMA AttentionFeedKeeps ==
  ASSUME NEW st, Attention!AttentionTypeOK(st), NEW feed \in Attention!Feeds
  PROVE  Attention!AttentionTypeOK(Attention!SetSnapshot(st, feed))
  <1> DEFINE fed == [st EXCEPT !.snapshot = feed, !.ticks = 0]
             names == Attention!VisibleCampaigns(fed) \ DOMAIN st.acked
             live == Attention!KeepLive(Attention!Baseline(fed, names), feed)
             new == [fed EXCEPT !.acked = live]
  <1>1. /\ DOMAIN st = AttentionFields /\ AreBaselines(st.acked) /\ IsWatchList(st.watch)
        /\ st.mine \in Names \cup {NoName}
    BY AttentionParts
  <1>2. /\ DOMAIN fed = AttentionFields /\ fed.snapshot = feed /\ fed.acked = st.acked
        /\ fed.watch = st.watch /\ fed.mine = st.mine /\ fed.ticks = 0
    BY <1>1 DEF AttentionFields
  <1>3. Attention!SetSnapshot(st, feed) = new
    BY DEF Attention!SetSnapshot
  <1> HIDE DEF fed
  <1>4. names \subseteq Names
    BY <1>1, <1>2, VisibleTyped DEF IsWatchList
  <1> HIDE DEF names
  <1>5. AreBaselines(live)
    BY <1>1, <1>2, <1>4, BaselineTyped, LiveTyped
  <1> HIDE DEF live
  <1>6. /\ DOMAIN new = AttentionFields /\ new.snapshot = feed /\ new.acked = live
        /\ new.watch = st.watch /\ new.mine = st.mine /\ new.ticks = 0
    BY <1>2 DEF AttentionFields
  <1> HIDE DEF new
  <1>7. 0 \in 0..AgeCap
    BY PanelBounds
  <1> QED
    BY <1>1, <1>3, <1>5, <1>6, <1>7, AttentionParts

LEMMA AckKeeps ==
  ASSUME NEW st, Attention!AttentionTypeOK(st), NEW name \in Names \cup {NoName}
  PROVE  Attention!AttentionTypeOK(Attention!Ack(st, name))
  <1> DEFINE names == IF name = NoName THEN Attention!VisibleCampaigns(st) ELSE {name}
             acked == Attention!Baseline(st, names)
             new == [st EXCEPT !.acked = acked]
  <1>1. /\ DOMAIN st = AttentionFields /\ AreBaselines(st.acked) /\ IsWatchList(st.watch)
        /\ st.snapshot \in Attention!Feeds /\ st.mine \in Names \cup {NoName} /\ st.ticks \in 0..AgeCap
    BY AttentionParts
  <1>2. Attention!Ack(st, name) = new
    BY DEF Attention!Ack
  <1>3. names \subseteq Names
    BY <1>1, VisibleTyped DEF IsWatchList
  <1> HIDE DEF names
  <1>4. AreBaselines(acked)
    BY <1>1, <1>3, BaselineTyped
  <1> HIDE DEF acked
  <1>5. /\ DOMAIN new = AttentionFields /\ new.snapshot = st.snapshot /\ new.acked = acked
        /\ new.watch = st.watch /\ new.mine = st.mine /\ new.ticks = st.ticks
    BY <1>1 DEF AttentionFields
  <1> HIDE DEF new
  <1> QED
    BY <1>1, <1>2, <1>4, <1>5, AttentionParts

LEMMA WatchListKeeps ==
  ASSUME NEW st, Attention!AttentionTypeOK(st), NEW names, IsWatchList(names)
  PROVE  Attention!AttentionTypeOK([st EXCEPT !.watch = names])
  <1> DEFINE new == [st EXCEPT !.watch = names]
  <1>1. /\ DOMAIN st = AttentionFields /\ AreBaselines(st.acked)
        /\ st.snapshot \in Attention!Feeds /\ st.mine \in Names \cup {NoName} /\ st.ticks \in 0..AgeCap
    BY AttentionParts
  <1>2. /\ DOMAIN new = AttentionFields /\ new.snapshot = st.snapshot /\ new.acked = st.acked
        /\ new.watch = names /\ new.mine = st.mine /\ new.ticks = st.ticks
    BY <1>1 DEF AttentionFields
  <1> HIDE DEF new
  <1>3. Attention!AttentionTypeOK(new)
    BY <1>1, <1>2, AttentionParts
  <1> QED
    BY <1>3 DEF new

\* A full list makes room at its head; a name that is on it is not put on it again.
LEMMA WatchKeeps ==
  ASSUME NEW st, Attention!AttentionTypeOK(st), NEW name \in Names \cup {NoName}
  PROVE  Attention!AttentionTypeOK(Attention!Watch(st, name))
  <1>1. IsWatchList(st.watch)
    BY AttentionParts
  <1>2. CASE name = NoName \/ name \in Attention!ToSet(st.watch)
    BY <1>2 DEF Attention!Watch
  <1>3. CASE ~(name = NoName \/ name \in Attention!ToSet(st.watch))
    <2> DEFINE old == st.watch
               kept == IF Len(old) >= MaxWatched THEN Tail(old) ELSE old
               longer == Append(kept, name)
    <2>1. name \in Names /\ old \in Seq(Names) /\ Distinct(old)
      BY <1>1, <1>3 DEF IsWatchList
    <2>2. PICK n \in Nat : n = Len(old) /\ DOMAIN old = 1..n /\ n <= MaxWatched
      BY <1>1 DEF IsWatchList
    <2>3. \A i \in 1..n : old[i] # name
      BY <1>3, <2>2 DEF Attention!ToSet
    <2>4. Attention!Watch(st, name) = [st EXCEPT !.watch = longer]
      BY <1>3 DEF Attention!Watch
    <2> HIDE DEF old
    <2>5. /\ kept \in Seq(Names) /\ Len(kept) < MaxWatched
          /\ \E shift \in {0, 1} : \A i \in DOMAIN kept : i + shift \in 1..n /\ kept[i] = old[i + shift]
      <3>1. MaxWatched \in Nat \ {0}
        BY PanelBounds
      <3>2. CASE n >= MaxWatched
        <4>1. old # <<>> /\ kept = Tail(old)
          BY <2>1, <2>2, <3>1, <3>2
        <4>2. /\ Tail(old) \in Seq(Names) /\ Len(Tail(old)) = n - 1 /\ DOMAIN Tail(old) = 1..(n - 1)
              /\ \A i \in 1..(n - 1) : Tail(old)[i] = old[i + 1]
          BY <2>1, <2>2, <4>1
        <4> HIDE DEF kept
        <4> QED
          BY <2>2, <3>1, <3>2, <4>1, <4>2
      <3>3. CASE ~(n >= MaxWatched)
        <4>1. kept = old
          BY <2>2, <3>3
        <4> HIDE DEF kept
        <4>2. \A i \in DOMAIN kept : i + 0 \in 1..n /\ kept[i] = old[i + 0]
          BY <2>2, <4>1
        <4> QED
          BY <2>1, <2>2, <3>1, <3>3, <4>1, <4>2
      <3> QED
        BY <3>2, <3>3
    <2> HIDE DEF kept
    <2>6. PICK k \in Nat : k = Len(kept) /\ DOMAIN kept = 1..k /\ k < MaxWatched
      BY <2>5
    <2>7. PICK shift \in {0, 1} : \A i \in 1..k : i + shift \in 1..n /\ kept[i] = old[i + shift]
      BY <2>5, <2>6
    <2>8. /\ longer \in Seq(Names) /\ Len(longer) = k + 1 /\ DOMAIN longer = 1..(k + 1)
          /\ longer[k + 1] = name /\ \A i \in 1..k : longer[i] = kept[i]
      BY <2>1, <2>5, <2>6
    <2> HIDE DEF longer
    <2>9. Distinct(longer)
      <3> SUFFICES ASSUME NEW i \in 1..(k + 1), NEW j \in 1..(k + 1), longer[i] = longer[j] PROVE i = j
        BY <2>8 DEF Distinct
      <3>1. i \in 1..k \/ i = k + 1
        OBVIOUS
      <3>2. j \in 1..k \/ j = k + 1
        OBVIOUS
      <3>3. \A m \in 1..k : longer[m] # name
        BY <2>3, <2>7, <2>8
      <3>4. CASE i \in 1..k /\ j \in 1..k
        <4>1. i + shift \in 1..n /\ j + shift \in 1..n /\ old[i + shift] = old[j + shift]
          BY <2>7, <2>8, <3>4
        <4>2. i + shift = j + shift
          BY <2>1, <2>2, <4>1 DEF Distinct
        <4> QED
          BY <4>2
      <3> QED
        BY <2>8, <3>1, <3>2, <3>3, <3>4
    <2>10. IsWatchList(longer)
      BY <2>6, <2>8, <2>9, PanelBounds DEF IsWatchList
    <2> QED
      BY <2>4, <2>10, WatchListKeeps
  <1> QED
    BY <1>2, <1>3

LEMMA UnwatchKeeps ==
  ASSUME NEW st, Attention!AttentionTypeOK(st), NEW name
  PROVE  Attention!AttentionTypeOK(Attention!Unwatch(st, name))
  <1> DEFINE kept == Attention!Kept(st.watch, Names \ {name})
  <1>1. IsWatchList(st.watch)
    BY AttentionParts
  <1>2. kept \in Filtered(st.watch, Names \ {name}, Len(st.watch))
    BY <1>1, KeptIsFiltered DEF IsWatchList
  <1>3. Attention!Unwatch(st, name) = [st EXCEPT !.watch = kept]
    BY DEF Attention!Unwatch
  <1> HIDE DEF kept
  <1>4. PICK n \in Nat, k \in Nat : n = Len(st.watch) /\ k = Len(kept) /\ n <= MaxWatched /\ k <= n
    BY <1>1, <1>2 DEF IsWatchList, Filtered
  <1>5. IsWatchList(kept)
    BY <1>1, <1>2, <1>4, PanelBounds DEF IsWatchList, Filtered
  <1> QED
    BY <1>3, <1>5, WatchListKeeps

LEMMA AttentionPipeKeeps ==
  ASSUME NEW st, Attention!AttentionTypeOK(st), NEW name, NEW payload,
         name = "fiber-data" /\ payload.out = "json" => payload.data \in Attention!Feeds,
         name \in AttentionPipes => payload \in Names \cup {NoName}
  PROVE  Attention!AttentionTypeOK(Attention!OnPipe(st, name, payload))
  <1>1. CASE name = "fiber-data"
    BY <1>1, AttentionFeedKeeps DEF Attention!OnPipe
  <1>2. CASE name = "attention-ack"
    BY <1>2, AckKeeps DEF Attention!OnPipe, AttentionPipes
  <1>3. CASE name = "attention-watch"
    BY <1>3, WatchKeeps DEF Attention!OnPipe, AttentionPipes
  <1>4. CASE name = "attention-unwatch"
    BY <1>4, UnwatchKeeps DEF Attention!OnPipe
  <1>5. CASE name = "attention-mine"
    <2> DEFINE new == [st EXCEPT !.mine = payload]
    <2>1. /\ DOMAIN st = AttentionFields /\ AreBaselines(st.acked) /\ IsWatchList(st.watch)
          /\ st.snapshot \in Attention!Feeds /\ st.ticks \in 0..AgeCap
      BY AttentionParts
    <2>2. payload \in Names \cup {NoName}
      BY <1>5 DEF AttentionPipes
    <2>3. /\ DOMAIN new = AttentionFields /\ new.snapshot = st.snapshot /\ new.acked = st.acked
          /\ new.watch = st.watch /\ new.mine = payload /\ new.ticks = st.ticks
      BY <2>1 DEF AttentionFields
    <2>4. Attention!OnPipe(st, name, payload) = new
      BY <1>5 DEF Attention!OnPipe
    <2> HIDE DEF new
    <2> QED
      BY <2>1, <2>2, <2>3, <2>4, AttentionParts
  <1>6. CASE name \notin {"fiber-data", "attention-ack", "attention-watch", "attention-unwatch", "attention-mine"}
    BY <1>6 DEF Attention!OnPipe
  <1> QED
    BY <1>1, <1>2, <1>3, <1>4, <1>5, <1>6

LEMMA AttentionKeeps ==
  ASSUME layout \in Layouts, NEW st, Attention!AttentionTypeOK(st), NEW ev, Received(ev)
  PROVE  Attention!AttentionTypeOK(Attention!HandleEvent(st, ev))
  <1>1. CASE ev.type = "PipeCommand"
    <2>1. PICK msg \in layout.pipes, now \in layout.clock : ev = PipeEvent(msg, now)
      BY <1>1 DEF Received, HandleResult
    <2>2. ev.name = msg.name /\ ev.payload = msg.payload
      BY <2>1 DEF PipeEvent
    <2>3. /\ msg.name = "fiber-data" /\ msg.payload.out = "json" => msg.payload.data \in Attention!Feeds
          /\ msg.name \in AttentionPipes => msg.payload \in Names \cup {NoName}
      BY PipesDecode
    <2>4. Attention!AttentionTypeOK(Attention!OnPipe(st, msg.name, msg.payload))
      BY <2>3, AttentionPipeKeeps
    <2>5. Attention!HandleEvent(st, ev) = Attention!OnPipe(st, msg.name, msg.payload)
      BY <1>1, <2>2 DEF Attention!HandleEvent
    <2> QED
      BY <2>4, <2>5
  <1>2. CASE ev.type = "KeyPress"
    <2>1. Attention!HandleEvent(st, ev) \in {Attention!Ack(st, NoName), st}
      BY <1>2 DEF Attention!HandleEvent
    <2> QED
      BY <2>1, AckKeeps
  <1>3. CASE ev.type = "Tick"
    <2>1. /\ DOMAIN st = AttentionFields /\ AreBaselines(st.acked) /\ IsWatchList(st.watch)
          /\ st.snapshot \in Attention!Feeds /\ st.ticks \in 0..AgeCap /\ st.mine \in Names \cup {NoName}
      BY AttentionParts
    <2>2. PICK n \in 0..AgeCap : n = IF st.ticks < AgeCap THEN st.ticks + 1 ELSE st.ticks
      BY <2>1, PanelBounds
    <2> DEFINE new == [st EXCEPT !.ticks = n]
    <2>3. /\ DOMAIN new = AttentionFields /\ new.snapshot = st.snapshot /\ new.acked = st.acked
          /\ new.watch = st.watch /\ new.mine = st.mine /\ new.ticks = n
      BY <2>1 DEF AttentionFields
    <2>4. Attention!HandleEvent(st, ev) = new
      BY <1>3, <2>2 DEF Attention!HandleEvent
    <2> HIDE DEF new
    <2> QED
      BY <2>1, <2>3, <2>4, AttentionParts
  <1>4. CASE ev.type \notin {"PipeCommand", "KeyPress", "Tick"}
    <2>1. CASE Brings(ev)
      <3>1. Attention!HandleEvent(st, ev) = Attention!SetSnapshot(st, ev.payload.data)
        BY <1>4, <2>1 DEF Brings, Attention!HandleEvent
      <3> QED
        BY <2>1, <3>1, FeedIsDecoded, AttentionFeedKeeps
    <2>2. CASE ~Brings(ev)
      BY <1>4, <2>2 DEF Brings, Attention!HandleEvent
    <2> QED
      BY <2>1, <2>2
  <1> QED
    BY <1>1, <1>2, <1>3, <1>4

----------------------------------------------------------------------------
(* Types *)

\* The panels of an open pane are those of its layout, and each is well typed.
PanelTypes ==
  /\ Open => DOMAIN modules = ToSet(layout.modules)
  /\ CA \in DOMAIN modules => Attention!AttentionTypeOK(modules[CA])
  /\ FC \in DOMAIN modules => modules[FC] \in GoodCockpits

LEMMA PanelTypesFresh ==
  ASSUME NEW ids
  PROVE  LET fresh == NewModules(ids)
         IN /\ DOMAIN fresh = ToSet(ids)
            /\ CA \in DOMAIN fresh => Attention!AttentionTypeOK(fresh[CA])
            /\ FC \in DOMAIN fresh => fresh[FC] \in GoodCockpits
  <1> DEFINE new == Attention!NewAttention
  <1>1. /\ DOMAIN new = AttentionFields /\ new.snapshot = Attention!NoFeed /\ new.acked = <<>> /\ new.watch = <<>>
        /\ new.mine = NoName /\ new.ticks = 0
    BY DEF Attention!NewAttention, AttentionFields
  <1> HIDE DEF new
  <1>2. Attention!NoFeed \in Attention!Feeds /\ AreBaselines(<<>>) /\ IsWatchList(<<>>) /\ 0 \in 0..AgeCap
    BY PanelBounds DEF Attention!NoFeed, Attention!Feeds, AreBaselines, IsWatchList, Distinct
  <1>3. Attention!AttentionTypeOK(new)
    BY <1>1, <1>2, AttentionParts
  <1>4. Cockpit!NewCockpit \in GoodCockpits
    BY <1>2 DEF Cockpit!NewCockpit, GoodCockpits, CockpitStates, Cockpit!SelectionIsListed, Attention!NoFeed
  <1>5. DOMAIN NewModules(ids) = ToSet(ids)
    BY DEF NewModules
  <1> QED
    BY <1>3, <1>4, <1>5, PanelsFresh DEF new

LEMMA PanelTypesStep ==
  ASSUME PanelTypes, layout \in Layouts, [PluginNext]_vars
  PROVE  PanelTypes'
  <1>0. layout' = layout
    BY DEF PluginNext, vars, Timer, Refresh, Quit, Load, PressKey, PipeMessage, Steps, Answers,
           CommandEnds, SnapshotReads, PerceptionAppends, OtherSubmits, RowIsEdited
  <1>1. CASE modules' = modules
    BY <1>0, <1>1 DEF PanelTypes, Open
  <1>2. CASE modules' = <<>>
    BY <1>2 DEF PanelTypes, Open
  <1>3. CASE modules' = NewModules(layout.modules)
    BY <1>0, <1>3, PanelTypesFresh DEF PanelTypes, Open
  <1>4. ASSUME NEW ev, Received(ev), DispatchEvent(ev) PROVE PanelTypes'
    <2>1. DOMAIN modules' = DOMAIN modules
      BY <1>4, PanelsDispatched
    <2>2. Open' => Open
      BY <1>4 DEF DispatchEvent, Open
    <2>3. CA \in DOMAIN modules => Attention!AttentionTypeOK(modules'[CA])
      BY <1>4, PanelsDispatched, AttentionKeeps DEF PanelTypes
    <2>4. FC \in DOMAIN modules => modules'[FC] \in GoodCockpits
      BY <1>4, PanelsDispatched, CockpitKeeps DEF PanelTypes
    <2> QED
      BY <1>0, <2>1, <2>2, <2>3, <2>4 DEF PanelTypes
  <1> QED
    BY <1>1, <1>2, <1>3, <1>4, EventsStep

LEMMA PanelTypesInit == PluginInit => PanelTypes
  BY PanelTypesFresh DEF PluginInit, PanelTypes

\* For any layouts, feeds and pipes: the schedule and every panel stay well typed;
\* a cursor stays on its list, a watch list is bounded and names nobody twice.
THEOREM PluginTypeCorrect == PluginSpec => []PluginTypeOK
  <1>1. CooldownInv => (Shows(CP) => Pipes!CmdPipeTypeOK(modules[CP]))
    <2> SUFFICES ASSUME PipeInv(modules[CP]) PROVE Pipes!CmdPipeTypeOK(modules[CP])
      BY DEF CooldownInv, Shows
    <2>1. \A i \in DOMAIN modules[CP].log : modules[CP].log[i] \in Commands
      BY DEF PipeInv
    <2> QED
      BY <2>1 DEF PipeInv, Commands, ClockValues, Pipes!CmdPipeTypeOK
  <1>2. FeedInv => (Shows(EF) => Feed!FeedTypeOK(modules[EF]))
    <2> SUFFICES ASSUME modules[EF] \in GoodFeeds PROVE Feed!FeedTypeOK(modules[EF])
      BY DEF FeedInv, Shows
    <2>1. modules[EF] \in FeedStates
      BY DEF GoodFeeds
    <2>2. \A i \in DOMAIN modules[EF].entries : modules[EF].entries[i] \in FeedEntries
      BY <2>1 DEF FeedStates
    <2> QED
      BY <2>1, <2>2 DEF GoodFeeds, FeedStates, FeedEntries, Feed!FeedTypeOK
  <1>3. PanelTypes => (Shows(FC) => Cockpit!CockpitTypeOK(modules[FC]))
    BY DEF PanelTypes, Shows, GoodCockpits, CockpitStates, Cockpit!CockpitTypeOK
  <1>4. ScheduleInv /\ PanelTypes /\ FeedInv /\ CooldownInv => PluginTypeOK
    BY <1>1, <1>2, <1>3 DEF ScheduleInv, PanelTypes, PluginTypeOK, Shows, CA, FC, EF, CP
  <1>5. ScheduleInv => layout \in Layouts
    BY DEF ScheduleInv
  <1>6. PluginInit => CooldownInv
    BY CooldownFresh, PipeInvFresh DEF PluginInit, CooldownInv
  <1>7. ScheduleInv /\ PanelTypes /\ FeedInv /\ CooldownInv /\ [PluginNext]_vars
          => ScheduleInv' /\ PanelTypes' /\ FeedInv' /\ CooldownInv'
    BY <1>5, ScheduleStep, PanelTypesStep, FeedStep, CooldownStep
  <1> QED
    BY <1>4, <1>6, <1>7, ScheduleInit, PanelTypesInit, FeedInit, PTL DEF PluginSpec

----------------------------------------------------------------------------
(* Alerts *)

\* The operator's own word on campaign n, and on what to watch.
AckEvent(st, ev, n) ==
  \/ /\ ev.type = "PipeCommand" /\ ev.name = "attention-ack"
     /\ ev.payload = n \/ (ev.payload = NoName /\ Shown(n, st))
  \/ ev.type = "KeyPress" /\ ev.key = "a" /\ Shown(n, st)

WatchEvent(ev) == ev.type = "PipeCommand" /\ ev.name \in {"attention-watch", "attention-unwatch"}

\* A campaign that is in the feed keeps the baseline it had.
KeepsBaseline(st, new, n) ==
  n \in DOMAIN st.acked /\ Attention!In(new.snapshot, n) => n \in DOMAIN new.acked /\ new.acked[n] = st.acked[n]

\* It stays on the panel, if it was there and there is room for all.
StaysShown(st, new, n) ==
  Attention!In(new.snapshot, n) /\ Shown(n, st) => Shown(n, new) \/ FeedOverflows(new)

LEMMA SameViewKeeps ==
  ASSUME NEW st, NEW new, new.snapshot = st.snapshot, new.watch = st.watch, NEW n
  PROVE  StaysShown(st, new, n)
  BY DEF StaysShown, Shown, Attention!VisibleCampaigns

\* A campaign that is shown out of a watch list is on it.
LEMMA ShownIsWatched ==
  ASSUME NEW st, Attention!AttentionTypeOK(st), st.watch # <<>>, NEW n, Shown(n, st)
  PROVE  \E m \in 1..Len(st.watch) : st.watch[m] = n
  <1>1. st.snapshot \in Attention!Feeds /\ st.watch \in Seq(Names)
    BY AttentionParts DEF IsWatchList
  <1> DEFINE live == {w \in Names : Attention!In(st.snapshot, w)}
  <1>2. PICK names \in Seq(Names), k \in Nat :
          /\ k = IF Len(names) < MaxWatched THEN Len(names) ELSE MaxWatched
          /\ Attention!VisibleCampaigns(st) = {names[i] : i \in 1..k}
          /\ names \in Filtered(st.watch, live, Len(st.watch))
    BY <1>1, VisibleIsHead
  <1> HIDE DEF live
  <1>3. PICK i \in 1..k : names[i] = n
    BY <1>2 DEF Shown
  <1>4. i \in DOMAIN names
    BY <1>2, PanelBounds
  <1> QED
    BY <1>2, <1>3, <1>4 DEF Filtered

\* What is watched and in the feed is shown, for a watch list fits on the panel;
\* and when nothing is watched, what is in a feed that fits.
LEMMA ListedIsShown ==
  ASSUME NEW st, Attention!AttentionTypeOK(st), NEW n \in Names, Attention!In(st.snapshot, n),
         st.watch # <<>> => \E m \in 1..Len(st.watch) : st.watch[m] = n,
         ~FeedOverflows(st)
  PROVE  Shown(n, st)
  <1>1. st.snapshot \in Attention!Feeds /\ IsWatchList(st.watch) /\ st.watch \in Seq(Names)
    BY AttentionParts DEF IsWatchList
  <1> DEFINE live == {w \in Names : Attention!In(st.snapshot, w)}
  <1>2. PICK names \in Seq(Names), k \in Nat :
          /\ k = IF Len(names) < MaxWatched THEN Len(names) ELSE MaxWatched
          /\ Attention!VisibleCampaigns(st) = {names[i] : i \in 1..k}
          /\ st.watch = <<>> =>
               /\ Len(names) = Len(st.snapshot.campaigns)
               /\ \A i \in 1..Len(names) : names[i] = st.snapshot.campaigns[i].name
          /\ st.watch # <<>> => names \in Filtered(st.watch, live, Len(st.watch))
    BY <1>1, VisibleIsHead
  <1>3. n \in live
    OBVIOUS
  <1> HIDE DEF live
  <1>4. Len(names) <= MaxWatched /\ \E i \in 1..Len(names) : names[i] = n
    <2>1. CASE st.watch = <<>>
      <3>1. Len(names) = Len(st.snapshot.campaigns) /\ ~(Len(st.snapshot.campaigns) > MaxWatched)
        BY <1>2, <2>1 DEF FeedOverflows
      <3>2. DOMAIN st.snapshot.campaigns = 1..Len(names)
        BY <1>1, <3>1, FeedIsSequence
      <3>3. PICK i \in 1..Len(names) : st.snapshot.campaigns[i].name = n
        BY <3>2 DEF Attention!In
      <3> QED
        BY <1>2, <2>1, <3>1, <3>3, PanelBounds
    <2>2. CASE st.watch # <<>>
      <3>1. PICK m \in 1..Len(st.watch) : st.watch[m] = n
        BY <2>2
      <3>2. \E i \in DOMAIN names : names[i] = n
        BY <1>2, <1>3, <2>2, <3>1 DEF Filtered
      <3>3. Len(names) <= Len(st.watch) /\ Len(st.watch) <= MaxWatched /\ Len(st.watch) \in Nat
        BY <1>1, <1>2, <2>2 DEF Filtered, IsWatchList
      <3> QED
        BY <1>2, <3>2, <3>3, PanelBounds
    <2> QED
      BY <2>1, <2>2
  <1>5. k = Len(names)
    BY <1>2, <1>4, PanelBounds
  <1> QED
    BY <1>2, <1>4, <1>5 DEF Shown

\* What a new feed does to baselines and view.
LEMMA FeedKeepsAlerts ==
  ASSUME NEW st, Attention!AttentionTypeOK(st), NEW feed \in Attention!Feeds, NEW n \in Names
  PROVE  KeepsBaseline(st, Attention!SetSnapshot(st, feed), n) /\ StaysShown(st, Attention!SetSnapshot(st, feed), n)
  <1> DEFINE fed == [st EXCEPT !.snapshot = feed, !.ticks = 0]
             names == Attention!VisibleCampaigns(fed) \ DOMAIN st.acked
             based == Attention!Baseline(fed, names)
             live == Attention!KeepLive(based, feed)
             new == Attention!SetSnapshot(st, feed)
  <1>1. DOMAIN st = AttentionFields
    BY AttentionParts
  <1>2. DOMAIN fed = AttentionFields /\ fed.acked = st.acked /\ fed.watch = st.watch /\ fed.snapshot = feed
    BY <1>1 DEF AttentionFields
  <1>3. \A m \in DOMAIN st.acked : m \in DOMAIN based /\ based[m] = st.acked[m]
    <2> HIDE DEF fed
    <2> QED
      BY <1>2 DEF Attention!Baseline
  <1>4. \A m \in DOMAIN st.acked : Attention!In(feed, m) => m \in DOMAIN live /\ live[m] = st.acked[m]
    <2> HIDE DEF based
    <2> QED
      BY <1>3 DEF Attention!KeepLive
  <1>5. new.acked = live /\ new.watch = st.watch /\ new.snapshot = feed
    <2>1. new = [fed EXCEPT !.acked = live]
      BY DEF Attention!SetSnapshot
    <2> HIDE DEF live, fed, new
    <2> QED
      BY <1>2, <2>1 DEF AttentionFields
  <1>6. Attention!AttentionTypeOK(new)
    BY AttentionFeedKeeps
  <1> HIDE DEF live, new
  <1>7. KeepsBaseline(st, new, n)
    BY <1>4, <1>5 DEF KeepsBaseline
  <1>8. StaysShown(st, new, n)
    <2> SUFFICES ASSUME Attention!In(new.snapshot, n), Shown(n, st), ~FeedOverflows(new)
                 PROVE  Shown(n, new)
      BY DEF StaysShown
    <2>1. new.watch # <<>> => \E m \in 1..Len(new.watch) : new.watch[m] = n
      BY <1>5, ShownIsWatched
    <2> QED
      BY <1>6, <2>1, ListedIsShown
  <1> QED
    BY <1>7, <1>8 DEF new

\* An acknowledgement of others leaves the baseline alone.
LEMMA AckOfOthersKeeps ==
  ASSUME NEW st, Attention!AttentionTypeOK(st), NEW name, NEW n \in Names,
         name # n, name = NoName => ~Shown(n, st)
  PROVE  KeepsBaseline(st, Attention!Ack(st, name), n) /\ StaysShown(st, Attention!Ack(st, name), n)
  <1> DEFINE names == IF name = NoName THEN Attention!VisibleCampaigns(st) ELSE {name}
             based == Attention!Baseline(st, names)
             new == [st EXCEPT !.acked = based]
  <1>1. Attention!Ack(st, name) = new
    BY DEF Attention!Ack
  <1>2. n \notin names
    BY DEF Shown
  <1> HIDE DEF names
  <1>3. n \in DOMAIN st.acked => n \in DOMAIN based /\ based[n] = st.acked[n]
    BY <1>2 DEF Attention!Baseline
  <1> HIDE DEF based
  <1>4. new.acked = based /\ new.watch = st.watch /\ new.snapshot = st.snapshot
    BY AttentionParts DEF AttentionFields
  <1> HIDE DEF new
  <1> QED
    BY <1>1, <1>3, <1>4, SameViewKeeps DEF KeepsBaseline

LEMMA EventKeepsAlerts ==
  ASSUME layout \in Layouts, NEW st, Attention!AttentionTypeOK(st), NEW ev, Received(ev),
         NEW n \in Names, ~AckEvent(st, ev, n)
  PROVE  LET new == Attention!HandleEvent(st, ev)
         IN KeepsBaseline(st, new, n) /\ (WatchEvent(ev) \/ StaysShown(st, new, n))
  <1> DEFINE new == Attention!HandleEvent(st, ev)
  <1>1. DOMAIN st = AttentionFields
    BY AttentionParts
  <1>2. CASE Brings(ev)
    <2>1. new = Attention!SetSnapshot(st, ev.payload.data)
      BY <1>2 DEF Brings, Attention!HandleEvent, Attention!OnPipe
    <2> QED
      BY <1>2, <2>1, FeedIsDecoded, FeedKeepsAlerts
  <1>3. CASE \/ ev.type = "PipeCommand" /\ ev.name = "attention-ack"
             \/ ev.type = "KeyPress" /\ ev.key = "a"
    <2>1. PICK name : new = Attention!Ack(st, name) /\ name # n /\ (name = NoName => ~Shown(n, st))
      <3>1. CASE ev.type = "PipeCommand" /\ ev.name = "attention-ack"
        BY <3>1 DEF Attention!HandleEvent, Attention!OnPipe, AckEvent
      <3>2. CASE ev.type = "KeyPress" /\ ev.key = "a"
        BY <3>2, NoNameIsNone DEF Attention!HandleEvent, AckEvent
      <3> QED
        BY <1>3, <3>1, <3>2
    <2> QED
      BY <2>1, AckOfOthersKeeps
  <1>4. CASE WatchEvent(ev)
    <2>1. new.acked = st.acked
      <3>1. CASE ev.name = "attention-watch"
        <4>1. new = Attention!Watch(st, ev.payload)
          BY <1>4, <3>1 DEF WatchEvent, Attention!HandleEvent, Attention!OnPipe
        <4> QED
          BY <1>1, <4>1 DEF Attention!Watch, AttentionFields
      <3>2. CASE ev.name = "attention-unwatch"
        <4>1. new = Attention!Unwatch(st, ev.payload)
          BY <1>4, <3>2 DEF WatchEvent, Attention!HandleEvent, Attention!OnPipe
        <4> QED
          BY <1>1, <4>1 DEF Attention!Unwatch, AttentionFields
      <3> QED
        BY <1>4, <3>1, <3>2 DEF WatchEvent
    <2> HIDE DEF new
    <2> QED
      BY <1>4, <2>1 DEF KeepsBaseline, new
  <1>5. CASE /\ ~Brings(ev) /\ ~WatchEvent(ev)
             /\ ~(ev.type = "PipeCommand" /\ ev.name = "attention-ack")
             /\ ~(ev.type = "KeyPress" /\ ev.key = "a")
    <2>1. new.acked = st.acked /\ new.watch = st.watch /\ new.snapshot = st.snapshot
      <3>1. CASE ev.type = "PipeCommand"
        <4>1. CASE ev.name = "attention-mine"
          BY <1>1, <3>1, <4>1 DEF Attention!HandleEvent, Attention!OnPipe, AttentionFields
        <4>2. CASE ev.name # "attention-mine"
          BY <1>5, <3>1, <4>2 DEF Attention!HandleEvent, Attention!OnPipe, WatchEvent, Brings
        <4> QED
          BY <4>1, <4>2
      <3>2. CASE ev.type = "Tick"
        BY <1>1, <3>2 DEF Attention!HandleEvent, AttentionFields
      <3>3. CASE ev.type \notin {"PipeCommand", "Tick"}
        BY <1>5, <3>3 DEF Attention!HandleEvent, Brings
      <3> QED
        BY <3>1, <3>2, <3>3
    <2> HIDE DEF new
    <2> QED
      BY <2>1, SameViewKeeps DEF KeepsBaseline, new
  <1> QED
    BY <1>2, <1>3, <1>4, <1>5

\* A step of an open pane that stays open is the operator's word on n, or keeps
\* its baseline; and on the panel it stays, unless the watch list is changed.
LEMMA AlertStep ==
  ASSUME PanelTypes, layout \in Layouts, [PluginNext]_vars, CA \in DOMAIN modules, Open', NEW n \in Names
  PROVE  \/ Acknowledges(n)
         \/ /\ KeepsBaseline(modules[CA], modules'[CA], n)
            /\ ChoosesWatch \/ StaysShown(modules[CA], modules'[CA], n)
  <1> DEFINE Keeps == KeepsBaseline(modules[CA], modules'[CA], n)
             Stays == StaysShown(modules[CA], modules'[CA], n)
  <1>1. CASE modules' = modules
    BY <1>1, SameViewKeeps DEF KeepsBaseline
  <1>2. ASSUME NEW ev, Received(ev), DispatchEvent(ev), ~AckEvent(modules[CA], ev, n)
        PROVE  Keeps /\ (WatchEvent(ev) \/ Stays)
    <2>1. CASE Category(ev) \in PanelKinds
      BY <1>2, <2>1, PanelsDispatched, EventKeepsAlerts DEF PanelTypes
    <2>2. CASE Category(ev) \notin PanelKinds
      BY <1>2, <2>2, PanelsDispatched, SameViewKeeps DEF KeepsBaseline
    <2> QED
      BY <2>1, <2>2
  <1> HIDE DEF Keeps, Stays
  <1>3. CASE Timer
    <2> DEFINE ev == [type |-> "Tick"]
    <2>1. Received(ev) /\ DispatchEvent(ev)
      BY <1>3 DEF Timer, Received
    <2>2. ~AckEvent(modules[CA], ev, n) /\ ~WatchEvent(ev)
      BY DEF AckEvent, WatchEvent
    <2> QED
      BY <1>2, <2>1, <2>2 DEF Keeps, Stays
  <1>4. CASE \E key \in layout.keys : PressKey(key)
    <2>1. PICK key \in layout.keys : PressKey(key)
      BY <1>4
    <2> DEFINE ev == [type |-> "KeyPress", key |-> key]
    <2>2. Received(ev) /\ DispatchEvent(ev)
      BY <2>1 DEF PressKey, Received
    <2>3. ~WatchEvent(ev)
      BY DEF WatchEvent
    <2>4. CASE AckEvent(modules[CA], ev, n)
      <3>1. key = "a" /\ Shown(n, modules[CA])
        BY <2>4 DEF AckEvent
      <3> QED
        BY <2>1, <3>1 DEF Acknowledges, CA
    <2>5. CASE ~AckEvent(modules[CA], ev, n)
      BY <1>2, <2>2, <2>3, <2>5 DEF Keeps, Stays
    <2> QED
      BY <2>4, <2>5
  <1>5. CASE \E msg \in layout.pipes, now \in layout.clock : PipeMessage(msg, now)
    <2>1. PICK msg \in layout.pipes, now \in layout.clock : PipeMessage(msg, now)
      BY <1>5
    <2> DEFINE ev == PipeEvent(msg, now)
    <2>2. Received(ev) /\ DispatchEvent(ev)
      BY <2>1 DEF PipeMessage, Received, PipeEvent
    <2>3. ev.type = "PipeCommand" /\ ev.name = msg.name /\ ev.payload = msg.payload
      BY DEF PipeEvent
    <2> HIDE DEF ev
    <2>4. CASE AckEvent(modules[CA], ev, n)
      <3>1. msg.name = "attention-ack" /\ (msg.payload = n \/ (msg.payload = NoName /\ Shown(n, modules[CA])))
        BY <2>3, <2>4 DEF AckEvent
      <3> QED
        BY <2>1, <3>1 DEF Acknowledges, CA
    <2>5. CASE ~AckEvent(modules[CA], ev, n)
      <3>1. Keeps /\ (WatchEvent(ev) \/ Stays)
        BY <1>2, <2>2, <2>5
      <3>2. WatchEvent(ev) => ChoosesWatch
        BY <2>1, <2>3 DEF WatchEvent, ChoosesWatch
      <3> QED
        BY <3>1, <3>2 DEF Keeps, Stays
    <2> QED
      BY <2>4, <2>5
  <1>6. ASSUME NEW i, NEW p, CommandEnds(i, p) PROVE Keeps /\ Stays
    <2>1. PICK result \in Results(endpoints[i].tag, running[i][p]) :
            DispatchEvent(HandleResult(endpoints[i].tag, result))
      BY <1>6 DEF CommandEnds
    <2> DEFINE ev == HandleResult(endpoints[i].tag, result)
    <2>2. Received(ev)
      BY <2>1 DEF Received
    <2>3. ~AckEvent(modules[CA], ev, n) /\ ~WatchEvent(ev)
      BY DEF HandleResult, AckEvent, WatchEvent
    <2> QED
      BY <1>2, <2>1, <2>2, <2>3
  <1>7. CASE Quit
    BY <1>7 DEF Quit, Open
  <1>8. CASE Load
    BY <1>8 DEF Load, Open
  <1> QED
    BY <1>1, <1>3, <1>4, <1>5, <1>6, <1>7, <1>8
    DEF Keeps, Stays, PluginNext, vars, Refresh, Steps, Answers, SnapshotReads, PerceptionAppends,
        OtherSubmits, RowIsEdited

\* For any campaigns, feeds, watch lists and bounds: nothing but the operator's
\* word on it, its leaving the feed or a return to what was acknowledged ends an
\* alert, and only a new choice of what to watch, or a feed that does not fit when
\* nothing is watched, takes it off the panel.
THEOREM AlertsStand == PluginSpec => AlertStandsUntilAcked
  <1> DEFINE Stands ==
        Shows("campaign_attention") /\ Open' =>
          LET old == modules["campaign_attention"]  new == modules'["campaign_attention"]
          IN \A n \in Names : Attention!IsNew(old, n) =>
               \/ ~Attention!In(new.snapshot, n)
               \/ Attention!CampaignDigest(new.snapshot, n) = old.acked[n]
               \/ /\ Attention!IsNew(new, n)
                  /\ Shown(n, old) => Shown(n, new) \/ FeedOverflows(new) \/ ChoosesWatch
               \/ Acknowledges(n)
  <1>1. ASSUME PanelTypes, layout \in Layouts, [PluginNext]_vars PROVE Stands
    <2> SUFFICES ASSUME Shows(CA), Open', NEW n \in Names, Attention!IsNew(modules[CA], n),
                        ~Acknowledges(n), Attention!In(modules'[CA].snapshot, n),
                        Attention!CampaignDigest(modules'[CA].snapshot, n) # modules[CA].acked[n]
                 PROVE  /\ Attention!IsNew(modules'[CA], n)
                        /\ Shown(n, modules[CA]) =>
                             Shown(n, modules'[CA]) \/ FeedOverflows(modules'[CA]) \/ ChoosesWatch
      BY DEF CA
    <2>1. /\ KeepsBaseline(modules[CA], modules'[CA], n)
          /\ ChoosesWatch \/ StaysShown(modules[CA], modules'[CA], n)
      BY <1>1, AlertStep DEF Shows
    <2>2. Attention!IsNew(modules'[CA], n)
      BY <2>1 DEF KeepsBaseline, Attention!IsNew
    <2> QED
      BY <2>1, <2>2 DEF StaysShown
  <1>2. ScheduleInv => layout \in Layouts
    BY DEF ScheduleInv
  <1>3. ScheduleInv /\ PanelTypes /\ [PluginNext]_vars => ScheduleInv' /\ PanelTypes' /\ [Stands]_vars
    BY <1>1, <1>2, ScheduleStep, PanelTypesStep
  <1> QED
    BY <1>3, ScheduleInit, PanelTypesInit, PTL DEF PluginSpec, AlertStandsUntilAcked

----------------------------------------------------------------------------
(* Composition: a step of the dashboard is one of the sidecar's log or none *)

\* What the plugin's commands and everybody else do to the log is what the
\* sidecar promises of it (EventLog), which is what Spine implements.
THEOREM DashboardUsesLog == PluginSpec => Spec
  <1>1. PluginInit => Init
    BY DEF PluginInit
  <1>2. [PluginNext]_vars => [Next]_logVars
    BY PerceptionIsNote
    DEF PluginNext, vars, Timer, Refresh, Quit, Load, PressKey, PipeMessage, Steps, Answers, CommandEnds,
        SnapshotReads, PerceptionAppends, OtherSubmits, RowIsEdited, AlterRow, Next
  <1> QED
    BY <1>1, <1>2, PTL DEF PluginSpec, Spec
============================================================================
