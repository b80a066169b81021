---------------------------- MODULE FiberCockpit ----------------------------
(***************************************************************************)
(* The fiber_cockpit panel: a cursor over the campaigns of the feed it     *)
(* shares with campaign_attention.  Indices count from 0, as in the code.  *)
(***************************************************************************)
EXTENDS Naturals, Sequences

CONSTANTS NoFeed,  \* nothing fed yet: no campaign, none armed
          NoName,  \* the empty payload
          AgeCap   \* ticks are not counted further: a feed that old is stale

NewCockpit == [snapshot |-> NoFeed, selected |-> 0, expanded |-> FALSE, ticks |-> 0]

\* Fault: the cursor stays where it was when the list shrinks.
Unclamped(selected, feed) == selected

Clamped(selected, feed) ==
  IF feed.campaigns = <<>> THEN 0
  ELSE IF selected >= Len(feed.campaigns) THEN Len(feed.campaigns) - 1 ELSE selected

SetSnapshot(st, feed) ==
  [st EXCEPT !.snapshot = feed, !.selected = Clamped(@, feed), !.ticks = 0]

\* The first campaign of that name, if any.
SelectByName(st, name) ==
  LET places == {i \in DOMAIN st.snapshot.campaigns : st.snapshot.campaigns[i].name = name}
  IN IF places = {} THEN st
     ELSE [st EXCEPT !.selected = (CHOOSE i \in places : \A j \in places : i <= j) - 1]

OnKey(st, key) ==
  CASE key = "j" /\ st.selected + 1 < Len(st.snapshot.campaigns) -> [st EXCEPT !.selected = @ + 1]
    [] key = "k" /\ st.selected > 0 -> [st EXCEPT !.selected = @ - 1]
    [] key = "l" -> [st EXCEPT !.expanded = TRUE]
    [] key = "h" -> [st EXCEPT !.expanded = FALSE]
    [] key = "g" -> [st EXCEPT !.selected = 0, !.expanded = FALSE]
    [] OTHER -> st

HandleEvent(st, ev) ==
  CASE ev.type = "PipeCommand" /\ ev.name = "fiber-data" /\ ev.payload.out = "json" ->
         SetSnapshot(st, ev.payload.data)
    [] ev.type = "PipeCommand" /\ ev.name = "fiber-refresh" /\ ev.payload # NoName ->
         SelectByName(st, ev.payload)
    [] ev.type = "KeyPress" -> OnKey(st, ev.key)
    [] ev.type = "Tick" -> [st EXCEPT !.ticks = IF @ < AgeCap THEN @ + 1 ELSE @]
    [] ev.type = "BridgeData" /\ ev.tag = "fiber_snapshot" /\ ev.payload.out = "json" ->
         SetSnapshot(st, ev.payload.data)
    [] OTHER -> st

\* The cursor is on a campaign of the feed, or at the head of an empty list.
SelectionIsListed(st) ==
  st.selected < Len(st.snapshot.campaigns) \/ (st.selected = 0 /\ st.snapshot.campaigns = <<>>)

CockpitTypeOK(st) ==
  /\ DOMAIN st = {"snapshot", "selected", "expanded", "ticks"}
  /\ SelectionIsListed(st)
  /\ st.expanded \in BOOLEAN
  /\ st.ticks \in 0..AgeCap
=============================================================================
