---------------------------- MODULE MCPlacement ----------------------------
(***************************************************************************)
(* A fleet of one node whose schedule RentalTimeline keeps, a listing that *)
(* has to be bought and a machine nobody priced.                           *)
(***************************************************************************)
EXTENDS Placement, TLC

MCContainerStart == [expected |-> 4, p90 |-> 5]

MCRuntimes == {<<1, 1>>, <<2, 2>>}

\* A class that pays for waiting, and one that pays for nothing.
Waiting == [start |-> 2, finish |-> 0, doubt |-> 3]
Careless == [start |-> 0, finish |-> 0, doubt |-> 0]

MCAsks ==
    {[expected |-> rt[1], max |-> rt[2], slo |-> limits[1], budget |-> limits[2], reads |-> use[1],
      reserve |-> 1, unpriced |-> TRUE, weights |-> use[2]] :
        rt \in {<<1, 1>>, <<0, 2>>}, limits \in {<<NoLimit, NoLimit>>, <<6, NoLimit>>, <<6, 12>>},
        use \in {<<TRUE, Waiting>>, <<FALSE, Careless>>}}

Node(image, artifact, measured, available, room, committed, until) ==
    [id |-> 1, kind |-> "standing", lane |-> "reusable", rental |-> TRUE, bars |-> {},
     machine |-> IF available THEN "m1" ELSE "",
     available |-> available, queued |-> 0, image |-> image, artifact |-> artifact,
     measured |-> measured, room |-> room, boot |-> Nothing, rate |-> 3, granularity |-> 4,
     fee |-> 0, minimum |-> 0, committed |-> committed, until |-> until]

\* The same machine for sale, or one that is not named.
Listing(machine) ==
    [Node("cold", "cold", TRUE, TRUE, 3, NoTime, NoTime) EXCEPT
        !.id = 2, !.kind = "provisionable", !.rental = FALSE, !.machine = machine,
        !.boot = [expected |-> 2, p90 |-> 6], !.fee = 2, !.minimum = 2]

OneShot ==
    [Node("silent", "silent", FALSE, TRUE, Unmeasured, NoTime, NoTime) EXCEPT
        !.id = 3, !.lane = "ephemeral", !.rental = FALSE, !.machine = "m3", !.rate = Unpriced, !.room = 2]

Nodes ==
    {Node(content[1], content[2], measured, available, terms[1], terms[2], terms[3]) :
        content \in {<<"hot", "hot">>, <<"pulled", "cold">>, <<"cold", "cold">>, <<"silent", "silent">>},
        measured \in BOOLEAN, available \in BOOLEAN,
        terms \in {<<2, NoTime, NoTime>>, <<2, 6, 10>>}}
    \cup {Node("hot", "hot", TRUE, FALSE, Unmeasured, NoTime, NoTime)}

\* A host that holds everything moves nothing, over whatever path.
MCFleets ==
    {{node, Listing(node.machine)} :
        node \in {n \in Nodes : n.image = "hot" => n.measured}}
    \cup {{node, OneShot} : node \in {n \in Nodes : n.image = "silent" /\ ~ n.measured}}

\* Bookings and Runs differ only by name.
NameSymmetry == Permutations(BookingIDs) \cup Permutations(Runs)
=============================================================================
