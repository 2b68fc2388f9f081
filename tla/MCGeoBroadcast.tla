---------------------------- MODULE MCGeoBroadcast ----------------------------
(***************************************************************************)
(* GeoBroadcast on small instances.  A behaviour is one of GbcRouter, with *)
(* any peers, or one of GbcNetwork; the other one's variables rest.        *)
(*                                                                         *)
(* The router hears three packets of which two fill the buffer, one of     *)
(* them being smaller: a scenario for every forwarding algorithm and kind  *)
(* of counter.  In the network six routers stand on a line; the setups     *)
(* differ in the algorithm, the counter and the copies that may be lost.   *)
(* Router 1 is the source, the others are named from left to right.        *)
(***************************************************************************)
EXTENDS GbcRouter, GbcNetwork

VARIABLE part  \* which of the two the behaviour is one of

MCLength == [id \in Id |-> IF id = 1 THEN 1 ELSE 2]

MCScenario(area, nonArea, maxCounter, fading, memory, sentIds) ==
  [mib |-> [area |-> area, nonArea |-> nonArea, maxCounter |-> maxCounter,
            fading |-> fading, memory |-> memory],
   traffic |-> sentIds]

MCScenarios ==
  {MCScenario("SIMPLE", "Greedy", 1, 0, 2, {1, 2, 3}),
   MCScenario("CBF", "CBF", 1, 0, 0, {1, 2, 3}),
   MCScenario("CBF", "Greedy", 1, 4, 0, {2, 3}),
   MCScenario("Advanced", "CBF", 2, 0, 0, {1, 2, 3}),
   MCScenario("Advanced", "Greedy", 2, 7, 0, {1, 2})}

MCSetup(positions, area, maxCounter, fading, losses) ==
  [position : positions, area : {area}, maxCounter : {maxCounter}, fading : {fading},
   losses : {losses}]

\* Six routers in a row, with every distance between neighbours.
MCRows ==
  {LET p[r \in Router] == IF r = 1 THEN 0 ELSE p[r - 1] + gap[r] IN p : gap \in [2..6 -> 1..MaxRange]}

\* The source among the others; two routers at one place, which time out
\* together; one at the place of the source; a row that is neither.
MCMiddle == <<3, 0, 1, 4, 5, 7>>
MCTied   == <<0, 3, 3, 4, 7, 8>>
MCPair   == <<0, 0, 2, 3, 5, 8>>
MCLine   == <<0, 2, 3, 5, 7, 9>>

MCSetups ==
  MCSetup(MCRows \union {MCPair, <<9, 0, 2, 4, 6, 7>>}, "CBF", 1, 2 * MaxTime, 0)
  \union MCSetup({MCMiddle, MCTied}, "CBF", 1, 12, 0)
  \union MCSetup({MCPair}, "CBF", 1, 1, 0)
  \union MCSetup({MCLine}, "CBF", 1, 0, 1)
  \union MCSetup({MCLine}, "CBF", 1, 12, 1)
  \union MCSetup({MCMiddle, MCLine}, "CBF", 2, 12, 0)
  \union MCSetup({MCMiddle, MCLine}, "CBF", 2, 12, 1)
  \union MCSetup({MCMiddle, MCLine}, "Advanced", 1, 12, 0)
  \union MCSetup({<<0, 1, 2, 4, 6, 7>>}, "Advanced", 1, 12, 1)
  \union MCSetup({MCLine, <<0, 1, 2, 4, 6, 7>>}, "Advanced", 2, 12, 0)
  \union MCSetup({MCLine}, "Advanced", 2, 0, 0)

mcVars == <<part, routerVars, networkVars>>

MCInit ==
  \/ /\ part = "router"
     /\ RouterInit
     /\ setup = CHOOSE s \in Setups : TRUE
     /\ buffers = [r \in Router |-> EmptyBuffer(0, 1)]
     /\ carried = [r \in Router |-> Nothing]
     /\ air = {} /\ got = Router /\ lost = 0
     /\ sent = [r \in Router |-> 0]
  \/ /\ part = "network"
     /\ NetworkInit
     /\ RouterInit
     /\ inside
     /\ [mib |-> mib, traffic |-> traffic] = CHOOSE s \in Scenarios : TRUE

MCNext ==
  /\ UNCHANGED part
  /\ \/ part = "router" /\ RouterNext /\ UNCHANGED networkVars
     \/ part = "network" /\ NetworkNext /\ UNCHANGED routerVars

MCSpec ==
  /\ MCInit
  /\ [][MCNext]_mcVars
  /\ WF_mcVars(part = "router" /\ (Expire \/ TimePasses) /\ UNCHANGED <<part, networkVars>>)
  /\ WF_mcVars(part = "network" /\ NetworkNext /\ UNCHANGED <<part, routerVars>>)
=============================================================================
