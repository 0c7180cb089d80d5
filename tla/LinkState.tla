------------------------------ MODULE LinkState ------------------------------
(***************************************************************************)
(* linkstate of mp3: Dijkstra's algorithm from every node, after the       *)
(* topology file and after every change, and the messages sent along the   *)
(* tables it fills.  One action is one iteration of a loop.                *)
(*                                                                         *)
(* A line with a zero in it, which the program skips, changes nothing and  *)
(* is no action; the texts of messages and the layout of output.txt are    *)
(* left out.                                                               *)
(***************************************************************************)
EXTENDS Routes

CONSTANT MAXCOST   \* 100000 in the code: the cost of no route

\* A link that costs more would leave min_node at MAXCOST itself, which is no
\* node; the input files have none.
ASSUME MaxCostAssumption == MAXCOST \in Nat /\ \A c \in Costs : c <= MAXCOST

VARIABLES phase,            \* "start", "dijkstra", "messages", "hops" or "done"
          costMap, allNodes,
          forwardingTable,  \* node -> destination -> [first: next hop, second: cost]
          todo,             \* the nodes whose tables are still to be filled
          confirmed, visited, costs, minCost_nodes, fTable,   \* for the first of them
          source, destination, hop_now, hops                  \* of a message on its way

searchVars  == <<confirmed, visited, costs, minCost_nodes, fTable>>
messageVars == <<source, destination, hop_now, hops>>
vars == <<phase, costMap, allNodes, forwardingTable, todo, searchVars, messageVars>>

-----------------------------------------------------------------------------
\* The locals of one iteration over allNodes, at its start and when there is none.
StartSearch(node) ==
    /\ confirmed' = {node}
    /\ costs' = [n \in allNodes' |->
                    IF costMap'[<<node, n>>] = NoLink THEN MAXCOST ELSE costMap'[<<node, n>>]]
    /\ visited' = [n \in allNodes' |-> node]
    /\ minCost_nodes' = << >>
    /\ fTable' = [n \in {node} |-> [first |-> node, second |-> 0]]

NoSearch == /\ confirmed' = {} /\ costs' = << >> /\ visited' = << >>
            /\ minCost_nodes' = << >> /\ fTable' = << >>

\* The old tables stay until new ones replace them.
Recompute_NoClear(ends) ==
    /\ todo' = allNodes' /\ forwardingTable' = forwardingTable
    /\ IF todo' = {} THEN NoSearch ELSE StartSearch(Min(todo'))

\* Between known nodes only the tables of the two ends are computed again.
Recompute_EndsOnly(ends) ==
    LET stale == forwardingTable = << >> \/ allNodes' # allNodes
    IN  /\ todo' = IF stale THEN allNodes' ELSE ends \cap allNodes'
        /\ forwardingTable' = IF stale THEN << >> ELSE forwardingTable
        /\ IF todo' = {} THEN NoSearch ELSE StartSearch(Min(todo'))

\* dijkstra begins: the tables are cleared, the first source is the lowest ID.
Recompute(ends) ==
    /\ todo' = allNodes'
    /\ forwardingTable' = << >>
    /\ IF allNodes' = {} THEN NoSearch ELSE StartSearch(Min(allNodes'))

\* The topology file has been read.
Init ==
    /\ costMap \in Networks
    /\ allNodes = Endpoints(costMap)
    /\ phase = "start"
    /\ todo = {} /\ forwardingTable = << >>
    /\ confirmed = {} /\ costs = << >> /\ visited = << >>
    /\ minCost_nodes = << >> /\ fTable = << >>
    /\ source = 0 /\ destination = 0 /\ hop_now = 0 /\ hops = << >>

Start == /\ phase = "start" /\ phase' = "dijkstra"
         /\ UNCHANGED <<costMap, allNodes, messageVars>>
         /\ Recompute({})

-----------------------------------------------------------------------------
\* The node whose iteration is under way.
node == Min(todo)

Searching == phase = "dijkstra" /\ todo # {}

\* The lowest ID, whatever its cost.
Nearest_Lowest(open) == Min(open)

\* The nearest of the open nodes, in a tie that of the lowest ID.
Nearest(open) == Min({v \in open : \A u \in open : costs[v] <= costs[u]})

\* The first route found to be as cheap wins.
Ties_FirstWins(min_node, v) == FALSE

\* Only the IDs compared.
Ties_AnyCost(min_node, v) == min_node < visited[v] /\ costs[min_node] # MAXCOST

\* A route over min_node that is as cheap as the best so far to v wins if min_node
\* has a lower ID than the node before v on that.
Ties(min_node, v) ==
    /\ costs[min_node] + costMap[<<min_node, v>>] = costs[v]
    /\ min_node < visited[v]
    /\ costs[min_node] # MAXCOST

Cheaper(min_node, v) ==
    /\ costs[min_node] + costMap[<<min_node, v>>] < costs[v]
    /\ costs[min_node] # MAXCOST

\* One iteration of the while loop: confirm the nearest node, relax its links.
Confirm ==
    LET min_node == Nearest(allNodes \ confirmed)
        open == {v \in allNodes \ (confirmed \cup {min_node}) : Linked(costMap, min_node, v)}
    IN  /\ Searching /\ confirmed # allNodes
        /\ confirmed' = confirmed \cup {min_node}
        /\ minCost_nodes' = Append(minCost_nodes, min_node)
        /\ costs' = [v \in allNodes |-> IF v \in open /\ Cheaper(min_node, v)
                                        THEN costs[min_node] + costMap[<<min_node, v>>]
                                        ELSE costs[v]]
        /\ visited' = [v \in allNodes |->
                          IF v \in open /\ (Cheaper(min_node, v) \/ Ties(min_node, v))
                          THEN min_node ELSE visited[v]]
        /\ UNCHANGED <<phase, costMap, allNodes, forwardingTable, todo, fTable, messageVars>>

\* The node before first taken for the next hop.
NextHop_Predecessor(first) == visited[first]

\* The next hop towards first is that towards the node before it.
NextHop(first) == IF visited[first] # node THEN fTable[visited[first]].first ELSE first

\* One iteration of the loop that fills the table in the order of confirmation.
FillEntry ==
    LET first == Head(minCost_nodes)
    IN  /\ Searching /\ confirmed = allNodes /\ minCost_nodes # << >>
        /\ minCost_nodes' = Tail(minCost_nodes)
        /\ fTable' = [n \in DOMAIN fTable \cup {first} |->
                         IF n = first THEN [first |-> NextHop(first), second |-> costs[first]]
                         ELSE fTable[n]]
        /\ UNCHANGED <<phase, costMap, allNodes, forwardingTable, todo,
                       confirmed, visited, costs, messageVars>>

\* The table of node is complete; the next node's iteration begins.
FinishSource ==
    /\ Searching /\ confirmed = allNodes /\ minCost_nodes = << >>
    /\ forwardingTable' = [n \in DOMAIN forwardingTable \cup {node} |->
                              IF n = node THEN fTable ELSE forwardingTable[n]]
    /\ todo' = todo \ {node}
    /\ UNCHANGED <<phase, costMap, allNodes, messageVars>>
    /\ IF todo' = {} THEN NoSearch ELSE StartSearch(Min(todo'))

\* All tables are complete and printed; the message file is read.
Announce ==
    /\ phase = "dijkstra" /\ todo = {}
    /\ phase' = "messages"
    /\ UNCHANGED <<costMap, allNodes, forwardingTable, todo, searchVars, messageVars>>

-----------------------------------------------------------------------------
Unreachable(s, d) == \/ s \notin allNodes \/ d \notin allNodes
                     \/ forwardingTable[s][d].second = MAXCOST

\* A line of the message file whose destination can be reached.  (Of any other
\* line the program only reports that.)
Send == \E s, d \in Ids :
    /\ phase = "messages" /\ ~Unreachable(s, d)
    /\ phase' = "hops"
    /\ source' = s /\ destination' = d /\ hop_now' = s /\ hops' = << >>
    /\ UNCHANGED <<costMap, allNodes, forwardingTable, todo, searchVars>>

\* The bound on the hops the model remembers: no route that adds up has more.
MaxHops == Cardinality(Ids)

Hop == /\ phase = "hops" /\ hop_now # destination
       /\ hops' = IF Len(hops) < MaxHops THEN Append(hops, hop_now) ELSE hops
       /\ hop_now' = forwardingTable[hop_now][destination].first
       /\ UNCHANGED <<phase, costMap, allNodes, forwardingTable, todo, searchVars,
                      source, destination>>

\* The loop has come to the destination: cost and hops are printed.
Deliver == /\ phase = "hops" /\ hop_now = destination
           /\ phase' = "messages"
           /\ source' = 0 /\ destination' = 0 /\ hop_now' = 0 /\ hops' = << >>
           /\ UNCHANGED <<costMap, allNodes, forwardingTable, todo, searchVars>>

\* A line of the changes file, read when all messages are sent.  -999 is NoLink
\* here.  A node that loses its last link stays in allNodes: the operator[] of the
\* two erasing lines has just given it an entry in costMap, so count is never 0.
Change == \E src, dest \in Ids, cost \in Costs \cup {NoLink} :
    /\ phase = "messages" /\ src # dest
    /\ phase' = "dijkstra"
    /\ costMap' = Relinked(costMap, src, dest, cost)
    /\ allNodes' = IF cost = NoLink THEN allNodes ELSE allNodes \cup {src, dest}
    /\ UNCHANGED messageVars
    /\ Recompute({src, dest})

\* The end of the changes file.
Finish == /\ phase = "messages" /\ phase' = "done"
          /\ UNCHANGED <<costMap, allNodes, forwardingTable, todo, searchVars, messageVars>>

Done == phase = "done" /\ UNCHANGED vars

Next == \/ Start \/ Confirm \/ FillEntry \/ FinishSource \/ Announce
        \/ Send \/ Hop \/ Deliver \/ Change \/ Finish \/ Done

Spec == Init /\ [][Next]_vars

\* A single sequential program: in the loop over the hops it goes on.
FairSpec == Spec /\ WF_vars(Hop \/ Deliver)

-----------------------------------------------------------------------------
(***************************************************************************)
(* Properties                                                              *)
(***************************************************************************)
Entry == [first : Ids, second : 0 .. MAXCOST]

\* The type of every variable; outside of a search its locals are empty.
TypeOK ==
    /\ phase \in {"start", "dijkstra", "messages", "hops", "done"}
    /\ costMap \in [Pairs -> Costs \cup {NoLink}]
    /\ allNodes \in SUBSET Ids /\ todo \in SUBSET allNodes
    /\ DOMAIN forwardingTable \in SUBSET allNodes
    /\ \A s \in DOMAIN forwardingTable : forwardingTable[s] \in [allNodes -> Entry]
    /\ IF Searching
       THEN /\ {node} \subseteq confirmed /\ confirmed \subseteq allNodes
            /\ costs \in [allNodes -> 1 .. MAXCOST]
            /\ visited \in [allNodes -> allNodes]
            /\ minCost_nodes \in Seq(confirmed)
            /\ DOMAIN fTable \subseteq confirmed /\ \A d \in DOMAIN fTable : fTable[d] \in Entry
       ELSE confirmed = {} /\ costs = << >> /\ visited = << >>
            /\ minCost_nodes = << >> /\ fTable = << >>
    /\ {source, destination, hop_now} \subseteq Ids \cup {0}
    /\ hops \in Seq(Ids)

\* What the search has found a route to v to cost; costs[node] itself is MAXCOST.
Found(v) == IF v = node THEN 0 ELSE costs[v]

\* The code never looks at a confirmed node again (lines 50 and 64), so that its
\* cost must be final when it is confirmed: no open node is nearer, every link out
\* of a confirmed node has been taken into account, and each cost that was found is
\* that of a route, along the node visited names.
ConfirmedFinal ==
    Searching =>
        \A u \in confirmed, v \in allNodes \ {node} :
            /\ v \notin confirmed => Found(u) <= costs[v]
            /\ Linked(costMap, u, v) /\ Found(u) < MAXCOST => costs[v] <= Found(u) + costMap[<<u, v>>]
            /\ u = visited[v] /\ costs[v] < MAXCOST => /\ Linked(costMap, u, v)
                                                      /\ costs[v] = Found(u) + costMap[<<u, v>>]

\* "Link State: if there is a tie, choose the lowest node ID" (line 52), for whole
\* routes: of all nodes that come right before v on a cheapest route, visited
\* names the lowest, in whatever order the search met them.
LowestPredecessor ==
    Searching /\ confirmed = allNodes =>
        \A v \in allNodes \ {node} : costs[v] < MAXCOST =>
            visited[v] = Min({u \in allNodes : /\ Linked(costMap, u, v)
                                               /\ Found(u) + costMap[<<u, v>>] = costs[v]})

\* The hops of a message are looked up in the tables of different sources
\* (line 137), but they cost together what the source's own table announces
\* (line 139): what is behind the message and what the next table still announces
\* add up to it at each hop.
HopsAddUp ==
    phase = "hops" =>
        forwardingTable[source][destination].second =
            WalkCost(costMap, Append(hops, hop_now)) + forwardingTable[hop_now][destination].second

\* linkstate as what both programs of mp3 promise: all it announces, after the
\* topology and after every change, are the cheapest routes of the network as the
\* files describe it at that point, also for a node that has lost its last link.
ready == phase \in {"messages", "hops", "done"}

R == INSTANCE Routing WITH
        network <- costMap,
        Infinity <- MAXCOST,
        table <- IF ready
                 THEN [p \in allNodes \X allNodes |->
                          LET e == forwardingTable[p[1]][p[2]]
                          IN  [cost |-> e.second, next |-> e.first]]
                 ELSE << >>

ImplementsRouting == R!Spec

\* The loop of lines 135-138 ends for every message: the tables never send one in
\* a circle.
MessagesArrive == phase = "hops" ~> phase # "hops"
=============================================================================
