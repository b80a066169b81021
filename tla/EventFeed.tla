------------------------------ MODULE EventFeed ------------------------------
(***************************************************************************)
(* The event_feed panel: emergence events and bus events in one list, kept *)
(* apart by their ticks.  An emergence event is [tick, lasting], a bus     *)
(* event [tick, wanted]: whether its ttl, or its type, lets it in.         *)
(***************************************************************************)
EXTENDS Naturals, Sequences, SequencesExt

CONSTANTS MaxEvents,  \* entries, and ticks remembered
          ScrollCap   \* the offset is not counted further: rendering clamps it to the list

NewFeed == [entries |-> <<>>, seen |-> <<>>, lastBusTick |-> 0, scroll |-> 0]

Newest(s) == SubSeq(s, 1, IF Len(s) < MaxEvents THEN Len(s) ELSE MaxEvents)
LastFew(s) == SubSeq(s, IF Len(s) > MaxEvents THEN Len(s) - MaxEvents + 1 ELSE 1, Len(s))

\* Fault: a full memory drops the tick it has just been given.
DropNewest(s) == Newest(s)

\* The ticks remembered, oldest first.
Remembered(s) == LastFew(s)

\* The newest entry comes first; tick 0 is nobody's tick and is never a repetition.
AddEntry(st, kind, tick) ==
  IF tick > 0 /\ tick \in ToSet(st.seen) THEN st
  ELSE [st EXCEPT !.seen = IF tick > 0 THEN Remembered(Append(@, tick)) ELSE @,
                  !.entries = Newest(<<[kind |-> kind, tick |-> tick]>> \o @)]

OnEmergence(st, events) ==
  FoldLeft(LAMBDA acc, e : IF e.lasting THEN AddEntry(acc, "emergence", e.tick) ELSE acc, st, events)

Passes(st, e) == e.tick > st.lastBusTick /\ e.wanted

\* The mark moves whether or not the list takes the event.
OnBus(st, events) ==
  FoldLeft(LAMBDA acc, e : IF Passes(acc, e)
                             THEN AddEntry([acc EXCEPT !.lastBusTick = e.tick], "bus", e.tick)
                             ELSE acc, st, events)

OnKey(st, key) ==
  CASE key = "j" -> [st EXCEPT !.scroll = IF @ < ScrollCap THEN @ + 1 ELSE @]
    [] key = "k" -> [st EXCEPT !.scroll = IF @ > 0 THEN @ - 1 ELSE 0]
    [] key = "g" -> [st EXCEPT !.scroll = 0]
    [] OTHER -> st

HandleEvent(st, ev) ==
  CASE ev.type = "BridgeData" /\ ev.payload.out = "json" /\ ev.tag = "orac_field_emergence" ->
         OnEmergence(st, ev.payload.data)
    [] ev.type = "BridgeData" /\ ev.payload.out = "json" /\ ev.tag = "pv2_bus_events" ->
         OnBus(st, ev.payload.data)
    [] ev.type = "KeyPress" -> OnKey(st, ev.key)
    [] OTHER -> st

FeedTypeOK(st) ==
  /\ DOMAIN st = {"entries", "seen", "lastBusTick", "scroll"}
  /\ \A i \in DOMAIN st.entries : st.entries[i].kind \in {"emergence", "bus"} /\ st.entries[i].tick \in Nat
  /\ Len(st.entries) <= MaxEvents /\ Len(st.seen) <= MaxEvents
  /\ st.lastBusTick \in Nat /\ st.scroll \in 0..ScrollCap

EachTickOnce(st) ==
  \A i, j \in DOMAIN st.entries :
    i < j /\ st.entries[i].tick > 0 => st.entries[i].tick # st.entries[j].tick

\* Bus events are listed in the order of their ticks, whatever order they came in.
BusInOrder(st) ==
  \A i, j \in DOMAIN st.entries :
    i < j /\ st.entries[i].kind = "bus" /\ st.entries[j].kind = "bus" =>
      st.entries[i].tick > st.entries[j].tick
==============================================================================
