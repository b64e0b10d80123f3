----------------------------- MODULE MCGateway -----------------------------
(* Two connections, one that creates responses and one that does something *)
(* about them; two responses, two tasks.                                   *)
EXTENDS Gateway, TLC

CONSTANTS r1, r2, s1, s2, c1, c2

Entry(pair, length, tenant) == [pair |-> pair, length |-> length, tenant |-> tenant]

GoodConfig == [drain |-> 1, page |-> 1, limit |-> 2, chainDepth |-> 1, chainItems |-> 1,
               eventPage |-> 1, maxItems |-> 1, keys |-> {Entry(TRUE, 8, TRUE)}]

SomeConfigs ==
    {GoodConfig, [GoodConfig EXCEPT !.page = 0], [GoodConfig EXCEPT !.chainDepth = 0],
     [GoodConfig EXCEPT !.keys = {Entry(TRUE, 7, TRUE)}]}

BothKeys == [tenants |-> TRUE, admin |-> TRUE]

Request(route, credential) ==
    [route |-> route, credential |-> credential, id |-> TRUE, body |-> TRUE]

Of(routes) == {Request(route, "tenant") : route \in routes}
Admin == {Request(route, "admin") : route \in {"read_only", "pending_limit"}}
Refusable ==
    {Request("create", None), Request("purge", "tenant"),
     [Request("cancel", "tenant") EXCEPT !.id = FALSE],
     [Request("create", "tenant") EXCEPT !.body = FALSE]}

Agenda(first, second, deliveries, slots) ==
    [asks |-> (c1 :> first) @@ (c2 :> second), deliveries |-> deliveries,
     slots |-> slots, intervals |-> {0}, stops |-> FALSE, signal |-> FALSE]

\* Both intervals, of which one is slower than the ttl.
Paced(a) == [a EXCEPT !.intervals = Intervals]

\* The node is told to stop.
Signalled(a) == [a EXCEPT !.signal = TRUE]

SomeAgendas ==
    {[Paced(Agenda(Of({"create"}), {}, {"background"}, {s1, s2})) EXCEPT !.stops = TRUE],
     Signalled(Agenda(Of({"create"}), Of({"create"}), {"background", "sync"}, {s1})),
     Signalled(Agenda(Of({"create"}), Of({"cancel", "delete"}), {"stream"}, {s1})),
     Signalled(Agenda(Of({"create"}), Of({"stream"}), {"sync", "stream"}, {s1})),
     Paced(Agenda(Of({"create"}), {Request("read_only", "admin")}, {"background"}, {s1})),
     Agenda(Of({"create"}), {Request("purge", "admin")}, {"background"}, {s1}),
     Signalled(Agenda(Of({"create_conversation", "delete_conversation", "events"}),
                      Admin \cup Refusable \cup Of({"delete_conversation"}),
                      {"background"}, {}))}
=============================================================================
