----------------------------- MODULE MeshRouter -----------------------------
(***************************************************************************)
(* Routing and forwarding of the mesh daemon (src/router.rs,               *)
(* src/routing.rs and the packet handling of src/bin/trios_meshd.rs) at    *)
(* every node of a mesh: link metrics, explicit, learned and ranked        *)
(* routes, hop-by-hop forwarding under a hop budget, and the fetch         *)
(* requests a gateway node answers.                                        *)
(*                                                                         *)
(* A metric is a natural number: 0 where the table has no entry, Inf for   *)
(* f32::INFINITY.  Only the order and the sum of metrics matter.  How      *)
(* HELLO beacons turn into a link metric is the subject of module          *)
(* MeshLink, and the crypto session of a link that of module Session: here *)
(* an observation sets any metric, and sealing, sending and opening a      *)
(* frame either succeed or lose it.  Where the code takes a minimum over a *)
(* HashMap, any minimum may be taken.                                      *)
(***************************************************************************)
EXTENDS Integers

CONSTANTS Node,      \* node ids of the mesh
          Gateway,   \* the nodes started with TRIOS_GATEWAY
          None       \* the absent option

DEFAULT_TTL == 8
Limit == 1000000     \* the largest path metric
Inf == Limit + 1

Metric == 1 .. Inf
Option == Node \cup {None}
Ranking == [primary : Option, backup : Option]
Unranked == [primary |-> None, backup |-> None]
Kind == {"data", "fetch", "answer"}
Frame == [from : Node, at : Node, src : Node, dst : Node, ttl : Int, hops : Int,
          kind : Kind, origin : Node]

VARIABLES
    links,        \* links[i]: the neighbours that i has a session with
    etx,          \* etx[i][n]: metric of i's link to n
    routes,       \* routes[i][d]: explicit next hop
    path_routes,  \* path_routes[i][d]: learned next hop and path metric
    candidates,   \* candidates[i][d][n]: path metric of candidate hop n
    ranked,       \* ranked[i][d]: primary and backup hop
    frames,       \* frames in flight
    fetching,     \* <<g, o>>: gateway g is fetching for origin o
    asked,        \* nodes that sent a fetch request
    answered      \* nodes that received an answer

tables == <<etx, routes, path_routes, candidates, ranked>>
traffic == <<frames, fetching, asked, answered>>
vars == <<links, tables, traffic>>

Finite(i, n) == etx[i][n] \in 1 .. Limit
-----------------------------------------------------------------------------
(* recompute_ranked_hops: the candidates, the learned route, and failing   *)
(* those the live neighbours; dead hops are left out by their live metric. *)

Known(i, d, n) ==
    IF candidates[i][d][n] # 0 THEN candidates[i][d][n]
    ELSE IF path_routes[i][d].hop = n THEN path_routes[i][d].etx ELSE 0

Unknown(i, d) == \A n \in Node : Known(i, d, n) = 0

ByHop(i, d, n) ==
    IF Unknown(i, d) /\ n \in links[i] /\ n # d /\ n # i /\ Finite(i, n)
    THEN etx[i][n] ELSE Known(i, d, n)

Ranked(i, d) == {n \in Node : ByHop(i, d, n) # 0 /\ etx[i][n] # Inf}

Recomputed(i, d) ==
    {r \in Ranking :
        /\ IF Ranked(i, d) = {} THEN r = Unranked ELSE r.primary \in Ranked(i, d)
        /\ \A n \in Ranked(i, d) : ByHop(i, d, r.primary) <= ByHop(i, d, n)
        /\ IF Ranked(i, d) \subseteq {r.primary} THEN r.backup = None
           ELSE /\ r.backup \in Ranked(i, d) \ {r.primary}
                /\ \A n \in Ranked(i, d) \ {r.primary} :
                       ByHop(i, d, r.backup) <= ByHop(i, d, n)}

recompute_ranked_hops(i, d) ==
    \E r \in Ranking :
        /\ r \in Recomputed(i, d)'
        /\ ranked' = [ranked EXCEPT ![i] = [ranked[i] EXCEPT ![d] = r]]
-----------------------------------------------------------------------------
add_link(i, p) ==
    /\ p # i
    /\ links' = [links EXCEPT ![i] = links[i] \cup {p}]
    /\ UNCHANGED <<tables, traffic>>

(* The ticker observes its peers only, all of which are linked. *)
observe(i, p, m) ==
    /\ p \in links[i]
    /\ etx' = [etx EXCEPT ![i] = [etx[i] EXCEPT ![p] = m]]
    /\ UNCHANGED <<links, routes, path_routes, candidates, ranked, traffic>>

(* The ranking of d after p was killed. *)
Swapped(i, p, d) ==
    IF candidates[i][d][p] # 0 \/ ranked[i][d].primary = p THEN Recomputed(i, d)'
    ELSE IF ranked[i][d].backup = p
         THEN {[primary |-> ranked[i][d].primary, backup |-> None]}
         ELSE {ranked[i][d]}

force_dead(i, p) ==
    /\ p \in links[i]
    /\ etx' = IF etx[i][p] = 0 THEN etx
              ELSE [etx EXCEPT ![i] = [etx[i] EXCEPT ![p] = Inf]]
    /\ UNCHANGED <<links, routes, path_routes, candidates, traffic>>
    /\ \E rk \in [Node -> Ranking] :
          /\ \A d \in Node : rk[d] \in Swapped(i, p, d)
          /\ ranked' = [ranked EXCEPT ![i] = rk]

add_route(i, d, n) ==
    /\ routes' = [routes EXCEPT ![i] = [routes[i] EXCEPT ![d] = n]]
    /\ UNCHANGED <<links, etx, path_routes, candidates, ranked, traffic>>

compute_path_etx(i, n, adv) ==
    IF ~Finite(i, n) \/ etx[i][n] + adv > Limit THEN Inf ELSE etx[i][n] + adv

is_feasible(i, d, m) ==
    \/ path_routes[i][d].hop = None
    \/ m < path_routes[i][d].etx /\ m # Inf

learn_route(i, d, n, adv) ==
    LET m == compute_path_etx(i, n, adv)
    IN  /\ d # n
        /\ is_feasible(i, d, m)
        /\ path_routes' = [path_routes EXCEPT
               ![i] = [path_routes[i] EXCEPT ![d] = [hop |-> n, etx |-> m]]]
        /\ UNCHANGED <<links, etx, routes, candidates, traffic>>
        /\ recompute_ranked_hops(i, d)

learn_route_for_ranked(i, d, n, adv) ==
    /\ candidates' = [candidates EXCEPT
           ![i] = [candidates[i] EXCEPT
               ![d] = [candidates[i][d] EXCEPT ![n] = compute_path_etx(i, n, adv)]]]
    /\ UNCHANGED <<links, etx, routes, path_routes, traffic>>
    /\ recompute_ranked_hops(i, d)
-----------------------------------------------------------------------------
best_next_hop(i) ==
    {n \in Node : Finite(i, n) /\ \A o \in Node : Finite(i, o) => etx[i][n] <= etx[i][o]}

(* The hops next_hop may return, none for a packet to the node itself. *)
next_hop(i, d) ==
    LET learned == path_routes[i][d].hop
        first == ranked[i][d].primary
        second == ranked[i][d].backup
    IN  IF d = i THEN {}
        ELSE IF d \in links[i] /\ etx[i][d] # Inf THEN {d}
        ELSE IF routes[i][d] # None THEN {routes[i][d]}
        ELSE IF learned # None /\ Finite(i, learned) THEN {learned}
        ELSE IF first # None /\ Finite(i, first) THEN {first}
        ELSE IF first # None /\ second # None /\ Finite(i, second) THEN {second}
        ELSE best_next_hop(i)

(* The frames that sealing packet p for hop n adds: none when n has no     *)
(* link, the seal fails or the datagram is lost.                           *)
seal_to(i, n, p) ==
    {{}} \cup (IF n \in links[i] THEN {{p}} ELSE {})

Packet(i, n, s, d, ttl, hops, kind, o) ==
    [from |-> i, at |-> n, src |-> s, dst |-> d, ttl |-> ttl, hops |-> hops,
     kind |-> kind, origin |-> o]

(* What send_ip adds to the network: nothing without a route. *)
Sent(i, d, kind, o) ==
    {{}} \cup UNION {seal_to(i, n, Packet(i, n, i, d, DEFAULT_TTL, 0, kind, o)) :
                        n \in next_hop(i, d)}

(* TRIOS_SEND: one test packet. *)
send_ip(i, d) ==
    /\ \E new \in Sent(i, d, "data", i) : frames' = frames \cup new
    /\ UNCHANGED <<links, tables, fetching, asked, answered>>

(* TRIOS_FETCH: ask gateway g to reach the internet. *)
fetch(i, g) ==
    /\ asked' = asked \cup {i}
    /\ \E new \in Sent(i, g, "fetch", i) : frames' = frames \cup new
    /\ UNCHANGED <<links, tables, fetching, answered>>

(* The gateway's thread has fetched and replies to the origin. *)
reply(g, o) ==
    /\ <<g, o>> \in fetching
    /\ fetching' = fetching \ {<<g, o>>}
    /\ \E new \in Sent(g, o, "answer", o) : frames' = frames \cup new
    /\ UNCHANGED <<links, tables, asked, answered>>

(* Delivery::Local in the receive loop of the daemon. *)
Local(i, f) ==
    /\ frames' = frames \ {f}
    /\ fetching' = IF f.kind = "fetch" /\ i \in Gateway
                   THEN fetching \cup {<<i, f.origin>>} ELSE fetching
    /\ answered' = IF f.kind = "answer" THEN answered \cup {i} ELSE answered

Forward(i, f) ==
    /\ \E new \in {{}} \cup UNION {seal_to(i, n, Packet(i, n, f.src, f.dst, f.ttl - 1,
                                               f.hops + 1, f.kind, f.origin)) :
                                       n \in next_hop(i, f.dst)} :
           frames' = (frames \ {f}) \cup new
    /\ UNCHANGED <<fetching, answered>>

(* A frame that has no hop left and is not for this node is dropped. *)
handle_frame(f) ==
    /\ IF f.dst = f.at THEN Local(f.at, f)
       ELSE IF f.ttl = 0 THEN frames' = frames \ {f} /\ UNCHANGED <<fetching, answered>>
       ELSE Forward(f.at, f)
    /\ UNCHANGED <<links, tables, asked>>

(* Lost, or refused by the session of the receiving link. *)
Lose(f) ==
    /\ frames' = frames \ {f}
    /\ UNCHANGED <<links, tables, fetching, asked, answered>>
-----------------------------------------------------------------------------
Init ==
    /\ links = [i \in Node |-> {}]
    /\ etx = [i \in Node |-> [n \in Node |-> 0]]
    /\ routes = [i \in Node |-> [d \in Node |-> None]]
    /\ path_routes = [i \in Node |-> [d \in Node |-> [hop |-> None, etx |-> 0]]]
    /\ candidates = [i \in Node |-> [d \in Node |-> [n \in Node |-> 0]]]
    /\ ranked = [i \in Node |-> [d \in Node |-> Unranked]]
    /\ frames = {} /\ fetching = {} /\ asked = {} /\ answered = {}

Next ==
    \/ \E i, p \in Node : \/ add_link(i, p) \/ force_dead(i, p)
                          \/ send_ip(i, p) \/ fetch(i, p) \/ reply(i, p)
                          \/ \E m \in Metric : observe(i, p, m)
    \/ \E i, d, n \in Node : \/ add_route(i, d, n)
                             \/ \E adv \in Nat : \/ learn_route(i, d, n, adv)
                                                 \/ learn_route_for_ranked(i, d, n, adv)
    \/ \E f \in frames : handle_frame(f) \/ Lose(f)

Spec == Init /\ [][Next]_vars
-----------------------------------------------------------------------------
(* The hop budget: whatever routing loops the tables contain, a frame has  *)
(* used up one unit of its budget per relay, so that no packet is relayed  *)
(* more than DEFAULT_TTL times (handle_frame's ttl test and ttl - 1).      *)
HopBudget == \A f \in frames : f.hops + f.ttl = DEFAULT_TTL /\ f.ttl >= 0

(* Only a node that asked a gateway receives an answer, however the        *)
(* request and the answer were routed and relayed.                         *)
AnswersWereAsked == answered \subseteq asked

(* A ranking never offers the same hop twice, and has a backup only with a *)
(* primary: losing the primary never leaves a backup that is the same dead *)
(* hop (recompute_ranked_hops, and the swap of force_dead).                *)
BackupIsAnother ==
    \A i, d \in Node : ranked[i][d].backup # None =>
        ranked[i][d].primary # None /\ ranked[i][d].backup # ranked[i][d].primary

(* A frame is put only on a linked hop, one whose link is not known to be  *)
(* dead at that moment, unless an explicit route demands that hop          *)
(* (next_hop's liveness tests; explicit routes skip them).                 *)
AvoidsDeadHops ==
    [][\A f \in frames' \ frames :
           /\ f.at \in links[f.from]
           /\ \/ etx[f.from][f.at] # Inf
              \/ routes[f.from][f.dst] = f.at]_vars

(* Once force_dead has killed a measured link, no ranking of that node     *)
(* names the dead hop (the swap, and the recomputation after it).          *)
KilledIsUnranked ==
    [][\A i, p \in Node : force_dead(i, p) /\ etx[i][p] # 0 =>
           \A d \in Node : p \notin {ranked'[i][d].primary, ranked'[i][d].backup}]_vars

(* The metric of a learned route never gets worse (is_feasible): a route   *)
(* is replaced only by a strictly better one, and is never withdrawn.      *)
MetricsImprove ==
    [][\A i, d \in Node : path_routes[i][d].hop # None =>
           /\ path_routes'[i][d].hop # None
           /\ path_routes'[i][d].etx <= path_routes[i][d].etx]_vars
=============================================================================
