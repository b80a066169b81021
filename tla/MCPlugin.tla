------------------------------ MODULE MCPlugin ------------------------------
(* One layout per question: the pair that shares a feed, the list with two   *)
(* feeds, the cooldown, the kernel's panel with slow and with late answers,  *)
(* the witness, and a first round of several endpoints.                      *)
EXTENDS Plugin

CONSTANTS c1, c2, c3, n1, n2, none, nobody, k1, h1

\* The last feed lists one campaign more than the panel shows; c2 is armed before it is listed.
Campaign(name, nodes) == [name |-> name, nodes |-> nodes]
FeedOf(campaigns, armed) == [campaigns |-> campaigns, armed |-> armed]
MCNames == {c1, c2, c3}
MCNodes == {none, n1, n2}
MCFeeds == {FeedOf(<<>>, {}), FeedOf(<<Campaign(c1, n1)>>, {c2}),
            FeedOf(<<Campaign(c1, n2), Campaign(c2, n1)>>, {}),
            FeedOf(<<Campaign(c2, n2), Campaign(c3, none), Campaign(c1, n1)>>, {c2})}

MCEmergence == {<<[tick |-> 1, lasting |-> TRUE]>>,
                <<[tick |-> 2, lasting |-> TRUE], [tick |-> 0, lasting |-> TRUE]>>,
                <<[tick |-> 3, lasting |-> FALSE], [tick |-> 4, lasting |-> TRUE]>>}
MCBus == {<<[tick |-> 2, wanted |-> TRUE], [tick |-> 1, wanted |-> TRUE]>>,
          <<[tick |-> 3, wanted |-> FALSE], [tick |-> 3, wanted |-> TRUE], [tick |-> 4, wanted |-> TRUE]>>}

MCPayloads == [fiber_snapshot |-> MCFeeds, orac_field_emergence |-> MCEmergence, pv2_bus_events |-> MCBus,
               ow_perceive |-> {<<"seen">>}, nerve_health |-> {<<>>},
               orac_bridges |-> {<<"open">>}, orac_thermal |-> {<<"hot">>}, svc_8083 |-> {<<>>},
               orac_health |-> {<<"up">>}, pv2_health |-> {<<"up">>}, pv2_field |-> {<<"r">>},
               orac_coupling |-> {<<"r">>}, orac_hebbian |-> {<<"r">>}, pv2_proposals |-> {<<"p">>},
               orac_session |-> {<<"s">>}, orac_tokens |-> {<<"t">>}, sphere_warden |-> {<<"gap">>}]

MCInterval == [fiber_snapshot |-> 10, orac_field_emergence |-> 5, pv2_bus_events |-> 10,
               kernel_snapshot |-> 5, perceive_snapshot |-> 5, ow_perceive |-> 10, ow_kernel |-> 5,
               orac_bridges |-> 5, orac_thermal |-> 5, nerve_health |-> 5, svc_8083 |-> 12,
               orac_health |-> 5, pv2_health |-> 5, pv2_field |-> 2, orac_coupling |-> 5, orac_hebbian |-> 5,
               pv2_proposals |-> 10, orac_session |-> 10, orac_tokens |-> 10, sphere_warden |-> 15]

MCNotes == {PerceiveNote}
MCWitnessTags == <<"ow_perceive", "ow_kernel">>
MCServiceTags == <<"svc_8083">>

Msg(name, payload) == [name |-> name, payload |-> payload]
Text == [exit |-> 0, out |-> "text"]
FeedPipes == {Msg("fiber-data", Printed(f)) : f \in MCFeeds} \cup {Msg("fiber-data", Text)}
Attending ==
  {Msg("attention-ack", n) : n \in {c1, c2, nobody}} \cup {Msg("attention-watch", n) : n \in MCNames} \cup
  {Msg("attention-unwatch", c1)}
Browsing == {Msg("fiber-refresh", c2), Msg("fiber-refresh", nobody), Msg("attention-mine", c1)}
Commands == {Msg("snapshot", nobody), Msg("query", nobody), Msg("frob", nobody)}

MCClock == {0, 3, 4, 9}
Layout(ids, pipes, keys, clock, flight, entries, failures) ==
  [modules |-> ids, pipes |-> pipes, keys |-> keys, clock |-> clock, flight |-> flight, entries |-> entries, failures |-> failures]

Pair == <<"fiber_cockpit", "campaign_attention">>

MCLayouts ==
  {Layout(Pair, FeedPipes \cup Attending, {"a"}, {0}, <<1>>, 0, TRUE),
   Layout(Pair, FeedPipes \cup Browsing, {"j", "k", "l", "h", "g"}, {0}, <<1>>, 0, TRUE),
   Layout(<<"event_feed">>, {}, {"j", "k", "g"}, {0}, <<1, 1>>, 0, TRUE),
   Layout(<<"cmd_pipe">>, Commands, {}, MCClock, <<>>, 0, TRUE),
   Layout(<<"orchestrator_kernel">>, {}, {}, {0}, <<1, 1>>, 3, FALSE),
   Layout(<<"orchestrator_kernel">>, {}, {}, {0}, <<1, 1>>, 1, TRUE),
   Layout(<<"orchestrator_kernel">>, {}, {}, {0}, <<2, 1>>, 1, FALSE),
   Layout(<<"orchestrator_witness">>, {}, {}, {0}, <<1, 1>>, 1, TRUE),
   Layout(<<"bridge_health">>, {}, {}, {0}, <<1, 1, 1, 1>>, 0, TRUE),
   Layout(<<"coherence_gauge">>, {}, {"c"}, {0}, <<1, 1, 1>>, 0, TRUE),
   Layout(<<"fleet_view", "sphere_warden">>, {}, {}, {0}, <<1, 1, 1>>, 0, TRUE),
   Layout(<<"na_panel", "session_timer">>, {}, {}, {0}, <<1, 1, 1>>, 0, TRUE)}

MCReceiptLayouts == {Layout(<<"orchestrator_kernel">>, {}, {}, {0}, <<1, 1>>, 3, FALSE)}
=============================================================================
