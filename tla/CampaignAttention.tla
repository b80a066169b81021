-------------------------- MODULE CampaignAttention --------------------------
(***************************************************************************)
(* The campaign_attention panel: which campaigns have changed since the    *)
(* operator acknowledged them.  A feed is the sequence of its campaigns,   *)
(* [name, nodes], and the names that an arming key arms; the nodes stand   *)
(* for how many they are and for their sorted statuses.  The state is a    *)
(* record, an event turns one into the next: the plugin hands each event   *)
(* to every module it holds.                                               *)
(***************************************************************************)
EXTENDS Naturals, Sequences, SequencesExt

CONSTANTS Names,        \* campaign names
          Nodes,
          NoNodes,     \* "0|": of a campaign without nodes, and of one that is not in the feed
          NoName,      \* the empty payload
          MaxWatched,  \* campaigns shown at most
          AgeCap       \* ticks are not counted further: a feed that old is stale

Feeds == [campaigns : Seq([name : Names, nodes : Nodes]), armed : SUBSET Names]
NoFeed == [campaigns |-> <<>>, armed |-> {}]

NewAttention == [snapshot |-> NoFeed, acked |-> <<>>, watch |-> <<>>, mine |-> NoName, ticks |-> 0]

In(feed, name) == \E i \in DOMAIN feed.campaigns : feed.campaigns[i].name = name

\* The nodes of the first campaign of that name.
NodesOf(feed, name) ==
  IF In(feed, name) THEN feed.campaigns[SelectInSeq(feed.campaigns, LAMBDA c : c.name = name)].nodes ELSE NoNodes

\* A campaign can be armed without being in the feed.
CampaignDigest(feed, name) == <<NodesOf(feed, name), name \in feed.armed>>

\* The names of the list that are among `some`, in their order.
Kept(names, some) == FoldLeft(LAMBDA acc, n : IF n \in some THEN Append(acc, n) ELSE acc, <<>>, names)

FirstShown(names) == SubSeq(names, 1, IF Len(names) < MaxWatched THEN Len(names) ELSE MaxWatched)

VisibleCampaigns(st) ==
  ToSet(FirstShown(IF st.watch = <<>>
                     THEN [i \in DOMAIN st.snapshot.campaigns |-> st.snapshot.campaigns[i].name]
                     ELSE Kept(st.watch, {w \in Names : In(st.snapshot, w)})))

IsNew(st, name) ==
  name \in DOMAIN st.acked /\ st.acked[name] # CampaignDigest(st.snapshot, name)

\* The baselines of `names` become what the feed says now.
Baseline(st, names) ==
  [n \in DOMAIN st.acked \cup names |->
     IF n \in names THEN CampaignDigest(st.snapshot, n) ELSE st.acked[n]]

KeepLive(acked, feed) == [n \in {m \in DOMAIN acked : In(feed, m)} |-> acked[n]]

\* Fault: a new feed overwrites the baseline of what is on screen.
RefreshBaselines(st, feed) ==
  LET fed == [st EXCEPT !.snapshot = feed, !.ticks = 0]
  IN [fed EXCEPT !.acked = KeepLive(Baseline(fed, VisibleCampaigns(fed)), feed)]

\* A first sighting is the baseline; a campaign that has left is forgotten.
SetSnapshot(st, feed) ==
  LET fed == [st EXCEPT !.snapshot = feed, !.ticks = 0]
  IN [fed EXCEPT !.acked = KeepLive(Baseline(fed, VisibleCampaigns(fed) \ DOMAIN st.acked), feed)]

\* A named campaign is acknowledged whether or not it is in the feed.
Ack(st, name) ==
  [st EXCEPT !.acked = Baseline(st, IF name = NoName THEN VisibleCampaigns(st) ELSE {name})]

Watch(st, name) ==
  IF name = NoName \/ name \in ToSet(st.watch) THEN st
  ELSE [st EXCEPT !.watch = Append(IF Len(@) >= MaxWatched THEN Tail(@) ELSE @, name)]

Unwatch(st, name) == [st EXCEPT !.watch = Kept(@, Names \ {name})]

OnPipe(st, name, payload) ==
  CASE name = "fiber-data" /\ payload.out = "json" -> SetSnapshot(st, payload.data)
    [] name = "attention-ack" -> Ack(st, payload)
    [] name = "attention-watch" -> Watch(st, payload)
    [] name = "attention-unwatch" -> Unwatch(st, payload)
    [] name = "attention-mine" -> [st EXCEPT !.mine = payload]
    [] OTHER -> st

HandleEvent(st, ev) ==
  CASE ev.type = "PipeCommand" -> OnPipe(st, ev.name, ev.payload)
    [] ev.type = "KeyPress" /\ ev.key = "a" -> Ack(st, NoName)
    [] ev.type = "Tick" -> [st EXCEPT !.ticks = IF @ < AgeCap THEN @ + 1 ELSE @]
    [] ev.type = "BridgeData" /\ ev.tag = "fiber_snapshot" /\ ev.payload.out = "json" ->
         SetSnapshot(st, ev.payload.data)
    [] OTHER -> st

AttentionTypeOK(st) ==
  /\ DOMAIN st = {"snapshot", "acked", "watch", "mine", "ticks"}
  /\ st.snapshot \in Feeds
  /\ DOMAIN st.acked \subseteq Names
  /\ \A n \in DOMAIN st.acked : st.acked[n] \in Nodes \X BOOLEAN
  /\ st.watch \in Seq(Names) /\ Len(st.watch) <= MaxWatched
  /\ \A i, j \in DOMAIN st.watch : st.watch[i] = st.watch[j] => i = j
  /\ st.mine \in Names \cup {NoName}
  /\ st.ticks \in 0..AgeCap
==============================================================================
