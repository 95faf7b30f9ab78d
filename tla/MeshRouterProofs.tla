-------------------------- MODULE MeshRouterProofs --------------------------
(***************************************************************************)
(* Proofs about module MeshRouter, for a mesh of any size and shape, and   *)
(* about the routing policies of module RoutePolicy.                       *)
(*                                                                         *)
(* Tables types the routing tables and says that only linked neighbours    *)
(* have a metric. Flow types the frames and follows the requests: every    *)
(* fetch in flight names an origin that asked, every pending or flying     *)
(* answer is for a node that asked. The two are inductive together.        *)
(*                                                                         *)
(* RouteInv is the invariant of RoutePolicy: one path is always valid, and *)
(* no neighbour is listed twice.                                           *)
(***************************************************************************)
EXTENDS MeshRouter, RoutePolicy, FiniteSetTheorems,
        WellFoundedInduction, TLAPS

Tables ==
    /\ links \in [Node -> SUBSET Node]
    /\ etx \in [Node -> [Node -> Int]]
    /\ \A i, n \in Node : etx[i][n] # 0 => n \in links[i]
    /\ routes \in [Node -> [Node -> Option]]
    /\ path_routes \in [Node -> [Node -> [hop : Option, etx : Int]]]
    /\ ranked \in [Node -> [Node -> Ranking]]

Flow ==
    /\ frames \subseteq Frame
    /\ HopBudget
    /\ fetching \subseteq Node \X asked
    /\ asked \subseteq Node
    /\ \A f \in frames : /\ f.kind = "fetch" => f.origin \in asked
                         /\ f.kind = "answer" => f.dst \in asked
    /\ AnswersWereAsked

RouterInv == Tables /\ Flow

(* The largest path metric is a natural number. *)
LEMMA LimitIsNat == Limit \in Nat
  BY SMT DEF Limit

(* What next_hop returns is not known to be dead, unless it is the         *)
(* explicit route.                                                         *)
LEMMA NextHopIsLive ==
    ASSUME NEW i \in Node, NEW d \in Node, NEW n \in next_hop(i, d)
    PROVE  etx[i][n] # Inf \/ routes[i][d] = n
<1>1. \A m : Finite(i, m) => etx[i][m] # Inf
  BY LimitIsNat DEF Finite, Inf
<1>2. \A m \in best_next_hop(i) : Finite(i, m)
  BY Zenon DEF best_next_hop
<1>3. QED
  BY <1>1, <1>2, Zenon DEF next_hop

(* The frames that sealing for any of the next hops can add. *)
LEMMA SealedFrames ==
    ASSUME NEW i \in Node, NEW d, NEW s, NEW ttl, NEW hops, NEW kind, NEW o,
           NEW new \in {{}} \cup UNION {seal_to(i, n, Packet(i, n, s, d, ttl, hops, kind, o)) :
                                            n \in next_hop(i, d)},
           NEW f \in new
    PROVE  \E n \in next_hop(i, d) :
               n \in links[i] /\ f = Packet(i, n, s, d, ttl, hops, kind, o)
  BY DEF seal_to

(* Origin of a frame that a step adds: a fresh packet or a relayed one. *)
Fresh(f) ==
    /\ f.ttl = DEFAULT_TTL /\ f.hops = 0
    /\ f.kind = "fetch" => f.origin \in asked'
    /\ f.kind = "answer" => f.dst \in asked

Relayed(f) ==
    \E g \in frames : /\ g.ttl # 0
                      /\ f.ttl = g.ttl - 1 /\ f.hops = g.hops + 1
                      /\ f.kind = g.kind /\ f.origin = g.origin /\ f.dst = g.dst

Placed(f) ==
    /\ f \in Frame
    /\ f.at \in links[f.from]
    /\ etx[f.from][f.at] # Inf \/ routes[f.from][f.dst] = f.at

(* A packet for a hop that next_hop chose is at a linked neighbour that is
   alive or an explicit route. *)
LEMMA PacketIsPlaced ==
    ASSUME Tables, NEW i \in Node, NEW d \in Node, NEW s \in Node, NEW ttl \in Int,
           NEW hops \in Int, NEW kind \in Kind, NEW o \in Node,
           NEW n \in next_hop(i, d), n \in links[i]
    PROVE  Placed(Packet(i, n, s, d, ttl, hops, kind, o))
<1>1. n \in Node
  BY Zenon DEF Tables
<1>2. etx[i][n] # Inf \/ routes[i][d] = n
  BY NextHopIsLive, Zenon
<1>3. QED
  BY <1>1, <1>2, Zenon DEF Placed, Packet, Frame

(* What a node sends has the whole hop budget and the requests it answers. *)
LEMMA SentIsFresh ==
    ASSUME RouterInv, NEW i \in Node, NEW d \in Node, NEW kind \in Kind, NEW o \in Node,
           kind = "fetch" => o \in asked', kind = "answer" => d \in asked,
           NEW new \in Sent(i, d, kind, o), NEW f \in new
    PROVE  Placed(f) /\ Fresh(f)
<1>1. PICK n \in next_hop(i, d) :
          n \in links[i] /\ f = Packet(i, n, i, d, DEFAULT_TTL, 0, kind, o)
  BY SealedFrames DEF Sent
<1>2. Placed(f)
  <2>1. Tables /\ DEFAULT_TTL \in Int /\ 0 \in Int
    BY DEF RouterInv, DEFAULT_TTL
  <2>2. QED
    BY <1>1, <2>1, PacketIsPlaced, Zenon
<1>3. Fresh(f)
  BY <1>1, Zenon DEF Fresh, Packet
<1>4. QED
  BY <1>2, <1>3, Zenon

(* Every frame that appears in a step is placed on a live link, and is a   *)
(* fresh packet or the relay of one with a hop left.                       *)
LEMMA NewFrames ==
    ASSUME RouterInv, [Next]_vars, NEW f \in frames', f \notin frames
    PROVE  Placed(f) /\ (Fresh(f) \/ Relayed(f))
<1>1. ASSUME NEW i \in Node, NEW d \in Node, send_ip(i, d) PROVE Placed(f) /\ Fresh(f)
  BY <1>1, SentIsFresh, Zenon DEF send_ip, Kind
<1>2. ASSUME NEW i \in Node, NEW g \in Node, fetch(i, g) PROVE Placed(f) /\ Fresh(f)
  BY <1>2, SentIsFresh, Zenon DEF fetch, Kind
<1>3. ASSUME NEW g \in Node, NEW o \in Node, reply(g, o) PROVE Placed(f) /\ Fresh(f)
  <2>1. o \in asked
    BY <1>3, Zenon DEF reply, RouterInv, Flow
  <2>2. QED
    BY <1>3, <2>1, SentIsFresh, Zenon DEF reply, Kind
<1>4. ASSUME NEW g \in frames, handle_frame(g) PROVE Placed(f) /\ Relayed(f)
  <2>1. g \in Frame /\ g.ttl \in Int /\ g.hops \in Int
    BY Zenon DEF RouterInv, Flow, Frame
  <2>2. g.ttl # 0 /\ Forward(g.at, g)
    BY <1>4, Zenon DEF handle_frame, Local
  <2>3. PICK n \in next_hop(g.at, g.dst) :
            /\ n \in links[g.at]
            /\ f = Packet(g.at, n, g.src, g.dst, g.ttl - 1, g.hops + 1, g.kind, g.origin)
    <3>1. g.at \in Node
      BY <2>1, Zenon DEF Frame
    <3>2. QED
      BY <2>2, <3>1, SealedFrames DEF Forward
  <2>4. Placed(f)
    <3>1. g.at \in Node /\ g.dst \in Node /\ g.src \in Node /\ g.kind \in Kind
          /\ g.origin \in Node /\ g.ttl - 1 \in Int /\ g.hops + 1 \in Int
      BY <2>1 DEF Frame
    <3>2. QED
      BY <2>3, <3>1, PacketIsPlaced, Zenon DEF RouterInv
  <2>5. Relayed(f)
    BY <2>2, <2>3, Zenon DEF Relayed, Packet
  <2>6. QED
    BY <2>4, <2>5, Zenon
<1>5. ASSUME NEW g \in frames, Lose(g) PROVE FALSE
  BY <1>5, Zenon DEF Lose
<1>6. CASE UNCHANGED frames
  BY <1>6, Zenon
<1>7. QED
  BY <1>1, <1>2, <1>3, <1>4, <1>5, <1>6
     DEF Next, vars, traffic, add_link, observe, force_dead, add_route, learn_route,
         learn_route_for_ranked

(* RouterInv holds initially. *)
LEMMA InitInv == Init => RouterInv
<1> SUFFICES ASSUME Init PROVE RouterInv
  BY Zenon
<1>1. Tables
  BY DEF Init, Tables, Option, Ranking, Unranked
<1>2. Flow
  BY Zenon DEF Init, Flow, HopBudget, AnswersWereAsked
<1>3. QED
  BY <1>1, <1>2, Zenon DEF RouterInv

(* Every step keeps the half of RouterInv about frames. *)
LEMMA FlowStep == RouterInv /\ [Next]_vars => Flow'
<1> SUFFICES ASSUME RouterInv, [Next]_vars PROVE Flow'
  BY Zenon
<1>1. asked \subseteq asked' /\ asked' \subseteq Node
  BY DEF RouterInv, Flow, Next, vars, traffic, add_link, observe, force_dead, add_route,
         learn_route, learn_route_for_ranked, send_ip, fetch, reply, handle_frame, Lose
<1>2. frames' \subseteq Frame
  BY NewFrames, Zenon DEF RouterInv, Flow, Placed
<1>3. HopBudget'
  <2> SUFFICES ASSUME NEW f \in frames', f \notin frames
               PROVE  f.hops + f.ttl = DEFAULT_TTL /\ f.ttl >= 0
    BY Zenon DEF RouterInv, Flow, HopBudget
  <2>1. CASE Fresh(f)
    BY <2>1 DEF Fresh, DEFAULT_TTL
  <2>2. CASE Relayed(f)
    <3>1. PICK g \in frames : g.ttl # 0 /\ f.ttl = g.ttl - 1 /\ f.hops = g.hops + 1
      BY <2>2, Zenon DEF Relayed
    <3>2. g.ttl \in Int /\ g.hops \in Int /\ g.hops + g.ttl = DEFAULT_TTL /\ g.ttl >= 0
      BY Zenon DEF RouterInv, Flow, HopBudget, Frame
    <3>3. QED
      BY <3>1, <3>2 DEF DEFAULT_TTL
  <2>3. QED
    BY <2>1, <2>2, NewFrames, Zenon
<1>4. \A f \in frames' : /\ f.kind = "fetch" => f.origin \in asked'
                         /\ f.kind = "answer" => f.dst \in asked'
  <2> SUFFICES ASSUME NEW f \in frames', f \notin frames
               PROVE  /\ f.kind = "fetch" => f.origin \in asked'
                      /\ f.kind = "answer" => f.dst \in asked'
    BY <1>1, Zenon DEF RouterInv, Flow
  <2>1. CASE Fresh(f)
    BY <1>1, <2>1, Zenon DEF Fresh
  <2>2. CASE Relayed(f)
    BY <1>1, <2>2, Zenon DEF Relayed, RouterInv, Flow
  <2>3. QED
    BY <2>1, <2>2, NewFrames, Zenon
<1>5. fetching' \subseteq Node \X asked' /\ AnswersWereAsked'
  <2>0. fetching \subseteq Node \X asked /\ answered \subseteq asked
    BY Zenon DEF RouterInv, Flow, AnswersWereAsked
  <2>1. ASSUME NEW f \in frames, handle_frame(f), f.dst = f.at
        PROVE  fetching' \subseteq Node \X asked' /\ answered' \subseteq asked'
    <3>1. /\ f.at \in Node
          /\ f.kind = "fetch" => f.origin \in asked
          /\ f.kind = "answer" => f.at \in asked
      BY <2>1, Zenon DEF RouterInv, Flow, Frame
    <3>2. Local(f.at, f) /\ asked' = asked
      BY <2>1, Zenon DEF handle_frame
    <3>3. QED
      BY <2>0, <3>1, <3>2 DEF Local
  <2>2. ASSUME NEW f \in frames, handle_frame(f), f.dst # f.at
        PROVE  UNCHANGED <<fetching, answered>>
    BY <2>2, Zenon DEF handle_frame, Forward
  <2>3. ASSUME NEW g \in Node, NEW o \in Node, reply(g, o)
        PROVE  fetching' \subseteq fetching /\ answered' = answered
    BY <2>3, Zenon DEF reply
  <2>4. CASE UNCHANGED <<fetching, answered>>
    BY <1>1, <2>0, <2>4, Zenon DEF AnswersWereAsked
  <2>5. QED
    BY <1>1, <2>0, <2>1, <2>2, <2>3, <2>4
       DEF AnswersWereAsked, Next, vars, traffic, add_link, observe, force_dead, add_route,
           learn_route, learn_route_for_ranked, send_ip, fetch, Lose
<1>6. QED
  BY <1>1, <1>2, <1>3, <1>4, <1>5, Zenon DEF Flow

(* Every step keeps the half of RouterInv about tables. *)
LEMMA TablesStep == RouterInv /\ [Next]_vars => Tables'
<1> SUFFICES ASSUME Tables, [Next]_vars PROVE Tables'
  BY Zenon DEF RouterInv
<1>1. ASSUME NEW i \in Node, NEW p \in Node, add_link(i, p) PROVE Tables'
  BY <1>1, Zenon DEF add_link, tables, Tables
<1>2. ASSUME NEW i \in Node, NEW p \in Node, NEW m \in Int, p \in links[i],
             etx' = [etx EXCEPT ![i] = [etx[i] EXCEPT ![p] = m]], UNCHANGED links
      PROVE  /\ etx' \in [Node -> [Node -> Int]]
             /\ \A j, n \in Node : etx'[j][n] # 0 => n \in links'[j]
  BY <1>2, Zenon DEF Tables
<1>3. ASSUME NEW i \in Node, NEW p \in Node, NEW m \in Metric, observe(i, p, m)
      PROVE  Tables'
  <2>1. m \in Int
    BY LimitIsNat DEF Metric, Inf
  <2>2. QED
    BY <1>2, <1>3, <2>1, Zenon DEF observe, Tables
<1>4. ASSUME NEW i \in Node, NEW p \in Node, force_dead(i, p) PROVE Tables'
  <2>1. Inf \in Int
    BY LimitIsNat DEF Inf
  <2>2. /\ etx' \in [Node -> [Node -> Int]]
        /\ \A j, n \in Node : etx'[j][n] # 0 => n \in links'[j]
    <3>1. CASE etx[i][p] = 0
      BY <1>4, <3>1, Zenon DEF force_dead, Tables
    <3>2. CASE etx[i][p] # 0
      BY <1>2, <1>4, <2>1, <3>2, Zenon DEF force_dead
    <3>3. QED
      BY <3>1, <3>2, Zenon
  <2>3. ranked' \in [Node -> [Node -> Ranking]]
    BY <1>4, Zenon DEF force_dead, Tables
  <2>4. QED
    BY <1>4, <2>2, <2>3, Zenon DEF force_dead, Tables
<1>5. ASSUME NEW i \in Node, NEW d \in Node, NEW n \in Node, add_route(i, d, n)
      PROVE  Tables'
  BY <1>5, Zenon DEF add_route, Tables, Option
<1>6. ASSUME NEW i \in Node, NEW d \in Node, recompute_ranked_hops(i, d)
      PROVE  ranked' \in [Node -> [Node -> Ranking]]
  BY <1>6 DEF recompute_ranked_hops, Tables
<1>7. ASSUME NEW i \in Node, NEW d \in Node, NEW n \in Node, NEW adv \in Nat,
             learn_route(i, d, n, adv)
      PROVE  Tables'
  <2>1. compute_path_etx(i, n, adv) \in Int
    BY LimitIsNat DEF compute_path_etx, Tables, Inf
  <2>2. path_routes' \in [Node -> [Node -> [hop : Option, etx : Int]]]
    BY <1>7, <2>1, Zenon DEF learn_route, Tables, Option
  <2>3. QED
    BY <1>6, <1>7, <2>2, Zenon DEF learn_route, Tables
<1>8. ASSUME NEW i \in Node, NEW d \in Node, NEW n \in Node, NEW adv \in Nat,
             learn_route_for_ranked(i, d, n, adv)
      PROVE  Tables'
  BY <1>6, <1>8, Zenon DEF learn_route_for_ranked, Tables
<1>9. CASE UNCHANGED <<links, tables>>
  BY <1>9, Zenon DEF Tables, tables
<1>10. QED
  BY <1>1, <1>3, <1>4, <1>5, <1>7, <1>8, <1>9, Zenon
     DEF Next, vars, send_ip, fetch, reply, handle_frame, Lose

(* RouterInv is an invariant. *)
LEMMA RouterInvariant == Spec => []RouterInv
<1>1. RouterInv /\ [Next]_vars => RouterInv'
  BY FlowStep, TablesStep, Zenon DEF RouterInv
<1>2. QED
  BY <1>1, InitInv, PTL DEF Spec

(* No packet is relayed more than DEFAULT_TTL times, whatever loops the    *)
(* routing tables of the mesh contain.                                     *)
THEOREM HopBudgetHolds == Spec => []HopBudget
<1>1. RouterInv => HopBudget
  BY Zenon DEF RouterInv, Flow
<1>2. QED
  BY <1>1, RouterInvariant, PTL

(* Answers of a gateway arrive only at nodes that asked. *)
THEOREM AnswersAreAsked == Spec => []AnswersWereAsked
<1>1. RouterInv => AnswersWereAsked
  BY Zenon DEF RouterInv, Flow
<1>2. QED
  BY <1>1, RouterInvariant, PTL

(* Every frame goes out on a link that is not known to be dead, or on the  *)
(* explicit route.                                                         *)
THEOREM DeadHopsAreAvoided == Spec => AvoidsDeadHops
<1>1. RouterInv /\ [Next]_vars =>
        [\A f \in frames' \ frames : /\ f.at \in links[f.from]
                                     /\ \/ etx[f.from][f.at] # Inf
                                        \/ routes[f.from][f.dst] = f.at]_vars
  BY NewFrames, Zenon DEF Placed
<1>2. QED
  BY <1>1, RouterInvariant, PTL DEF Spec, AvoidsDeadHops

(* The ranking a recomputation chooses consists of two different live      *)
(* hops, one, or none.                                                     *)
LEMMA RecomputedRanking ==
    ASSUME None \notin Node, NEW i \in Node, NEW d \in Node,
           NEW r \in Ranking, r \in Recomputed(i, d)'
    PROVE  /\ r.primary # None => etx'[i][r.primary] # Inf
           /\ r.backup # None => /\ etx'[i][r.backup] # Inf
                                 /\ r.primary # None /\ r.backup # r.primary
<1> DEFINE live == Ranked(i, d)'
<1>1. \A n \in live : n \in Node /\ etx'[i][n] # Inf
  BY Zenon DEF Ranked
<1>2. /\ IF live = {} THEN r = Unranked ELSE r.primary \in live
      /\ IF live \subseteq {r.primary} THEN r.backup = None
         ELSE r.backup \in live \ {r.primary}
  BY Zenon DEF Recomputed
<1> HIDE DEF live
<1>3. Unranked.primary = None /\ Unranked.backup = None
  BY Zenon DEF Unranked
<1>4. QED
  BY <1>1, <1>2, <1>3, Zenon

(* How a step changes the rankings: each one is kept, loses its backup, or *)
(* is recomputed.                                                          *)
LEMMA RankingStep ==
    ASSUME Tables, [Next]_vars, NEW i \in Node, NEW d \in Node
    PROVE  \/ ranked'[i][d] = ranked[i][d]
           \/ ranked'[i][d] = [primary |-> ranked[i][d].primary, backup |-> None]
           \/ ranked'[i][d] \in Ranking /\ ranked'[i][d] \in Recomputed(i, d)'
<1>0. ranked \in [Node -> [Node -> Ranking]]
  BY Zenon DEF Tables
<1>1. ASSUME NEW j \in Node, NEW p \in Node, force_dead(j, p)
      PROVE  \/ ranked'[i][d] = ranked[i][d]
             \/ ranked'[i][d] = [primary |-> ranked[i][d].primary, backup |-> None]
             \/ ranked'[i][d] \in Ranking /\ ranked'[i][d] \in Recomputed(i, d)'
  <2>1. PICK rk \in [Node -> Ranking] : /\ \A e \in Node : rk[e] \in Swapped(j, p, e)
                                        /\ ranked' = [ranked EXCEPT ![j] = rk]
    BY <1>1, Zenon DEF force_dead
  <2>2. CASE i # j
    BY <1>0, <2>1, <2>2, Zenon
  <2>3. CASE i = j
    <3>1. ranked'[i][d] = rk[d] /\ rk[d] \in Ranking /\ rk[d] \in Swapped(i, p, d)
      BY <1>0, <2>1, <2>3, Zenon
    <3>2. QED
      BY <3>1, Zenon DEF Swapped
  <2>4. QED
    BY <2>2, <2>3, Zenon
<1>2. ASSUME NEW j \in Node, NEW e \in Node, recompute_ranked_hops(j, e)
      PROVE  \/ ranked'[i][d] = ranked[i][d]
             \/ ranked'[i][d] \in Ranking /\ ranked'[i][d] \in Recomputed(i, d)'
  BY <1>0, <1>2 DEF recompute_ranked_hops
<1>3. CASE UNCHANGED ranked
  BY <1>3, Zenon
<1>4. QED
  BY <1>1, <1>2, <1>3
     DEF Next, vars, tables, add_link, observe, add_route, learn_route,
         learn_route_for_ranked, send_ip, fetch, reply, handle_frame, Lose

(* The backup of every ranking is another hop than its primary. *)
THEOREM BackupsDiffer == ASSUME None \notin Node PROVE Spec => []BackupIsAnother
<1>1. Init => BackupIsAnother
  BY DEF Init, BackupIsAnother, Unranked
<1>2. RouterInv /\ BackupIsAnother /\ [Next]_vars => BackupIsAnother'
  <2> SUFFICES ASSUME RouterInv, BackupIsAnother, [Next]_vars,
                      NEW i \in Node, NEW d \in Node, ranked'[i][d].backup # None
               PROVE  /\ ranked'[i][d].primary # None
                      /\ ranked'[i][d].backup # ranked'[i][d].primary
    BY Zenon DEF BackupIsAnother
  <2>1. CASE ranked'[i][d] = ranked[i][d]
    BY <2>1, Zenon DEF BackupIsAnother
  <2>2. CASE ranked'[i][d] = [primary |-> ranked[i][d].primary, backup |-> None]
    BY <2>2
  <2>3. CASE ranked'[i][d] \in Ranking /\ ranked'[i][d] \in Recomputed(i, d)'
    BY <2>3, RecomputedRanking, Zenon
  <2>4. QED
    BY <2>1, <2>2, <2>3, RankingStep, Zenon DEF RouterInv
<1>3. QED
  BY <1>1, <1>2, RouterInvariant, PTL DEF Spec

(* A killed link is in no ranking after force_dead. *)
THEOREM KilledHopsAreUnranked == ASSUME None \notin Node PROVE Spec => KilledIsUnranked
<1>1. ASSUME Tables, NEW i \in Node, NEW p \in Node, force_dead(i, p), etx[i][p] # 0,
             NEW d \in Node
      PROVE  p \notin {ranked'[i][d].primary, ranked'[i][d].backup}
  <2>1. etx'[i][p] = Inf
    BY <1>1, Zenon DEF force_dead, Tables
  <2>2. PICK rk \in [Node -> Ranking] : /\ \A e \in Node : rk[e] \in Swapped(i, p, e)
                                        /\ ranked' = [ranked EXCEPT ![i] = rk]
    BY <1>1, Zenon DEF force_dead
  <2>3. ranked'[i][d] = rk[d] /\ rk[d] \in Ranking /\ rk[d] \in Swapped(i, p, d)
    BY <1>1, <2>2, Zenon DEF Tables
  <2>4. CASE rk[d] \in Recomputed(i, d)'
    BY <2>1, <2>3, <2>4, RecomputedRanking, Zenon
  <2>5. CASE rk[d] = ranked[i][d] /\ ranked[i][d].primary # p /\ ranked[i][d].backup # p
    BY <2>3, <2>5, Zenon
  <2>6. CASE /\ rk[d] = [primary |-> ranked[i][d].primary, backup |-> None]
             /\ ranked[i][d].primary # p
    BY <2>3, <2>6
  <2>7. QED
    BY <2>3, <2>4, <2>5, <2>6, Zenon DEF Swapped
<1>2. RouterInv /\ [Next]_vars =>
        [\A i, p \in Node : force_dead(i, p) /\ etx[i][p] # 0 =>
           \A d \in Node : p \notin {ranked'[i][d].primary, ranked'[i][d].backup}]_vars
  BY <1>1, Zenon DEF RouterInv
<1>3. QED
  BY <1>2, RouterInvariant, PTL DEF Spec, KilledIsUnranked

(* Learned routes are replaced by better ones only. *)
THEOREM LearnedMetricsImprove == ASSUME None \notin Node PROVE Spec => MetricsImprove
<1>1. ASSUME Tables, [Next]_vars, NEW i \in Node, NEW d \in Node, path_routes[i][d].hop # None
      PROVE  /\ path_routes'[i][d].hop # None
             /\ path_routes'[i][d].etx <= path_routes[i][d].etx
  <2>0. /\ path_routes \in [Node -> [Node -> [hop : Option, etx : Int]]]
        /\ etx \in [Node -> [Node -> Int]]
    BY <1>1, Zenon DEF Tables
  <2>1. ASSUME NEW j \in Node, NEW e \in Node, NEW n \in Node, NEW adv \in Nat,
               learn_route(j, e, n, adv)
        PROVE  /\ path_routes'[i][d].hop # None
               /\ path_routes'[i][d].etx <= path_routes[i][d].etx
    <3> DEFINE m == compute_path_etx(j, n, adv)
    <3>1. m \in Int
      BY <2>0, LimitIsNat DEF compute_path_etx, Inf
    <3>2. /\ path_routes' = [path_routes EXCEPT
                 ![j] = [path_routes[j] EXCEPT ![e] = [hop |-> n, etx |-> m]]]
          /\ path_routes[j][e].hop = None \/ m < path_routes[j][e].etx
      BY <2>1, Zenon DEF learn_route, is_feasible
    <3> HIDE DEF m
    <3>3. CASE i = j /\ d = e
      BY <1>1, <2>0, <3>1, <3>2, <3>3
    <3>4. CASE ~(i = j /\ d = e)
      <4>1. path_routes'[i][d] = path_routes[i][d]
        BY <2>0, <3>2, <3>4, Zenon
      <4>2. QED
        BY <1>1, <2>0, <4>1
    <3>5. QED
      BY <3>3, <3>4, Zenon
  <2>2. CASE UNCHANGED path_routes
    BY <1>1, <2>0, <2>2
  <2>3. QED
    BY <1>1, <2>1, <2>2, Zenon
       DEF Next, vars, tables, add_link, observe, force_dead, add_route,
           learn_route_for_ranked, send_ip, fetch, reply, handle_frame, Lose
<1>2. RouterInv /\ [Next]_vars =>
        [\A i, d \in Node : path_routes[i][d].hop # None =>
           /\ path_routes'[i][d].hop # None
           /\ path_routes'[i][d].etx <= path_routes[i][d].etx]_vars
  BY <1>1, Zenon DEF RouterInv
<1>3. QED
  BY <1>2, RouterInvariant, PTL DEF Spec, MetricsImprove

(* Self-healing: as long as one neighbour is alive next_hop finds a linked *)
(* live hop toward every other node that has no explicit route, whatever   *)
(* the learned and ranked routes have become.                              *)
THEOREM SelfHealing ==
    ASSUME Tables, NEW i \in Node, NEW d \in Node, d # i, routes[i][d] = None,
           None \notin Node, \E n \in Node : Finite(i, n)
    PROVE  /\ next_hop(i, d) # {}
           /\ \A n \in next_hop(i, d) \cap Node : n \in links[i] /\ etx[i][n] # Inf
<1>1. best_next_hop(i) # {}
  <2> DEFINE alive == {n \in Node : Finite(i, n)}
             metrics == {etx[i][n] : n \in alive}
  <2>1. metrics \subseteq Nat /\ metrics # {}
    BY LimitIsNat DEF Finite
  <2>2. PICK x \in metrics : \A y \in metrics : ~(<<y, x>> \in OpToRel(<, Nat))
    BY <2>1, WFMin, NatLessThanWellFounded, Zenon
  <2>3. \A a, b \in Nat : a < b => <<a, b>> \in OpToRel(<, Nat)
    BY Zenon DEF OpToRel
  <2>5. \A y \in metrics : ~(y < x)
    BY <2>1, <2>2, <2>3, Zenon
  <2>6. ASSUME NEW y \in metrics PROVE x <= y
    <3>1. x \in Nat /\ y \in Nat
      BY <2>1, Zenon
    <3>2. ~(y < x)
      BY <2>5, Zenon
    <3>3. QED
      BY <3>1, <3>2
  <2>4. QED
    BY <2>6 DEF best_next_hop
<1>2. \A n \in next_hop(i, d) \cap Node : etx[i][n] # Inf
  BY NextHopIsLive, Zenon
<1>3. \A n \in Node : Finite(i, n) => n \in links[i]
  BY LimitIsNat DEF Tables, Finite
<1>4. QED
  BY <1>1, <1>2, <1>3, Zenon DEF next_hop, best_next_hop
-----------------------------------------------------------------------------
(* RoutePolicy: links, neighbours and paths. *)

(* A better delivery ratio never costs more: calc_etx is monotone in both. *)
THEOREM EtxIsMonotone ==
    ASSUME NEW f \in 0 .. 255, NEW g \in 0 .. 255, NEW r \in 0 .. 255, NEW s \in 0 .. 255,
           f <= g, r <= s
    PROVE  calc_etx(g, s) <= calc_etx(f, r)
BY DEF calc_etx, is_dead, DEAD_EPS, INFINITE

(* etx: an update of the estimate lies between the estimate and the sample,
   for both weights alpha_from_window can give. *)
THEOREM EstimateIsBetween ==
    ASSUME NEW est \in 0 .. 255, NEW sample \in 0 .. 255, NEW window
    PROVE  LET new == ewma_update(est, sample, alpha_from_window(window))
           IN  (est <= new /\ new <= sample) \/ (sample <= new /\ new <= est)
<1> DEFINE a == alpha_from_window(window)
           x == (a * sample + (256 - a) * est) \div 256
<1>1. a = 128 \/ a = 160  BY DEF alpha_from_window
<1> HIDE DEF a
<1>2. (est <= x /\ x <= sample) \/ (sample <= x /\ x <= est)
  <2>1. CASE a = 128  BY <2>1
  <2>2. CASE a = 160  BY <2>2
  <2>3. QED  BY <1>1, <2>1, <2>2, Zenon
<1>3. x \in 0 .. 255
  <2>1. x \in Int
    <3>1. CASE a = 128  BY <3>1
    <3>2. CASE a = 160  BY <3>2
    <3>3. QED  BY <1>1, <3>1, <3>2, Zenon
  <2> HIDE DEF x
  <2>2. QED  BY <1>2, <2>1
<1> HIDE DEF x
<1>4. Low8(x) = x  BY <1>3 DEF Low8
<1>5. ewma_update(est, sample, a) = Low8(x)  BY Zenon DEF ewma_update, x
<1>6. QED  BY <1>2, <1>4, <1>5, Zenon DEF a

(* link_quality_monitor loses up to one unit at every update: a link whose
   samples equal its estimate keeps the estimate or falls by one. *)
THEOREM SteadyEstimateDrifts ==
    ASSUME NEW e \in 0 .. 255
    PROVE  /\ update_ewma(e, e) \in {e - 1, e}
           /\ update_ewma(e, e) = e <=> e % 8 = 0
BY DEF update_ewma, AtMost255

(* The difference of two bytes that are 128 or more apart is negative as a
   signed byte, and no negative trend counts as degrading. *)
LEMMA SignedDifference ==
    ASSUME NEW x \in 0 .. 255, NEW y \in 0 .. 255, NEW e \in 0 .. 255, x >= y + 128
    PROVE  x > y /\ AsI8(x - y) < 0 /\ ~ is_degrading(e, AsI8(x - y))
BY DEF AsI8, is_degrading, TREND_THRESHOLD

(* A link that worsens by 128 or more within eight samples, from an average
   of y to one of x, shows a falling trend and is never called degrading (the
   byte difference becomes signed). *)
THEOREM SteepRiseLooksBetter ==
    ASSUME NEW h, NEW x \in 0 .. 255, NEW y \in 0 .. 255, NEW e \in 0 .. 255,
           x = (h[7] + h[6] + h[5] + h[4]) \div 4,
           y = (h[3] + h[2] + h[1] + h[0]) \div 4,
           x >= y + 128
    PROVE  calculate_trend(h) < 0 /\ ~ is_degrading(e, calculate_trend(h))
<1>1. calculate_trend(h) = IF x > y THEN AsI8(x - y)
                           ELSE IF y - x = 128 THEN -128 ELSE -AsI8(y - x)
      BY Zenon DEF calculate_trend
<1>2. x > y /\ AsI8(x - y) < 0 /\ ~ is_degrading(e, AsI8(x - y))
      BY SignedDifference, Zenon
<1>3. QED  BY <1>1, <1>2, Zenon

(* Addresses: every node number from 1 to 254 comes back from its address,
   and no other byte does. *)
THEOREM AddressesRoundTrip ==
    ASSUME NEW id \in 0 .. 255
    PROVE  node_of_ip(mesh_ip(id)) =
             IF id \in 1 .. 254 THEN [id |-> id, ok |-> TRUE] ELSE [id |-> 0, ok |-> FALSE]
<1>1. Low8(id) = id  BY DEF Low8
<1>2. mesh_ip(id).net = MESH_NET /\ mesh_ip(id).host = id  BY <1>1, Zenon DEF mesh_ip
<1>3. QED  BY <1>2 DEF node_of_ip

(* FirstIndex finds a member of a set of naturals that has one. *)
LEMMA FirstOfSome ==
    ASSUME NEW S \in SUBSET Nat, NEW none, S # {}
    PROVE  FirstIndex(S, none) \in S /\ \A j \in S : FirstIndex(S, none) <= j
<1>1. IsWellFoundedOn(OpToRel(<, Nat), Nat)  BY NatLessThanWellFounded, Zenon
<1>2. PICK m \in S : \A y \in S : <<y, m>> \notin OpToRel(<, Nat)
      BY <1>1, WFMin, Zenon
<1>3. \A y \in S : m <= y
  <2> SUFFICES ASSUME NEW y \in S PROVE m <= y  BY Zenon
  <2>1. ~ (y < m)  BY <1>2, Zenon DEF OpToRel
  <2>2. QED  BY <2>1
<1>4. QED  BY <1>3, Zenon DEF FirstIndex

(* mesh_routing: the hop chosen has a finite cost and none costs less; zero
   is chosen exactly when no hop has a finite cost. *)
THEOREM NextHopIsCheapest ==
    ASSUME NEW cost \in [1 .. 3 -> Nat], NEW has \in [1 .. 3 -> BOOLEAN],
           choose_next_hop(cost, has) # 0
    PROVE  LET n == choose_next_hop(cost, has)
           IN  /\ n \in FiniteHops(cost, has)
               /\ \A j \in FiniteHops(cost, has) : cost[n] <= cost[j]
<1> DEFINE S == {i \in FiniteHops(cost, has) : \A j \in FiniteHops(cost, has) : cost[i] <= cost[j]}
<1>1. choose_next_hop(cost, has) = FirstIndex(S, 0)  BY Zenon DEF choose_next_hop
<1>2. S \in SUBSET Nat  BY DEF FiniteHops
<1>3. S # {}
  <2> HIDE DEF S
  <2>1. QED  BY <1>1, Zenon DEF FirstIndex
<1>4. FirstIndex(S, 0) \in S
  <2> HIDE DEF S
  <2>1. QED  BY <1>2, <1>3, FirstOfSome, Zenon
<1>5. QED  BY <1>1, <1>4, Zenon

(* olsr_routing: the two relays differ, unless the best neighbour has
   number zero. *)
THEOREM RelaysDiffer ==
    ASSUME NEW t \in [Four -> [id : Nat, quality : Nat, seen : Nat]],
           get_best_neighbor(t) # 0
    PROVE  select_mprs(t)[1] # select_mprs(t)[2]
<1> DEFINE b == get_best_neighbor(t)
           u == [i \in Four |-> mask_if_id(t[i], b)]
<1>1. \A i \in Four : u[i].id # b
      BY Zenon DEF mask_if_id, ZeroNeighbor
<1>2. 0 \in Four /\ 1 \in Four /\ 2 \in Four /\ 3 \in Four  BY DEF Four
<1> HIDE DEF u
<1>3. BestOf(u) \in {u[0], u[1], u[2], u[3]}  BY Zenon DEF BestOf, best_of_two
<1>4. BestOf(u).id # b  BY <1>1, <1>2, <1>3, Zenon
<1>5. get_second_best(t, b) = BestOf(u).id  BY Zenon DEF get_second_best, u
<1>6. QED  BY <1>4, <1>5, Zenon DEF select_mprs

(* adaptive_routing: the path found has the best score of the four. *)
THEOREM BestPathIsBest ==
    ASSUME NEW ms, NEW metric,
           \A i \in Four : calculate_score(ms[i], metric) \in Nat,
           find_best_path(ms, metric) # NONE
    PROVE  LET p == find_best_path(ms, metric)
           IN  /\ p \in Four
               /\ \A j \in Four : calculate_score(ms[j], metric) <= calculate_score(ms[p], metric)
<1> DEFINE S == {i \in Four : /\ calculate_score(ms[i], metric) > 0
                             /\ \A j \in Four : calculate_score(ms[j], metric)
                                                  <= calculate_score(ms[i], metric)}
<1>1. find_best_path(ms, metric) = FirstIndex(S, NONE)  BY Zenon DEF find_best_path
<1>2. S \in SUBSET Nat  BY DEF Four
<1>3. S # {}
  <2> HIDE DEF S
  <2>1. QED  BY <1>1, Zenon DEF FirstIndex
<1>4. FirstIndex(S, NONE) \in S
  <2> HIDE DEF S
  <2>1. QED  BY <1>2, <1>3, FirstOfSome, Zenon
<1>5. QED  BY <1>1, <1>4, Zenon

(* adaptive_routing: when no path is found, storing the answer selects the
   last path, because a selection keeps two bits of it. *)
THEOREM NoPathBecomesTheLast ==
    ASSUME NEW state, NEW ms, NEW metric, NEW backup, NEW now,
           find_best_path(ms, metric) = NONE
    PROVE  update_selection(state, find_best_path(ms, metric), backup, now).primary = 3
BY DEF update_selection, create_selection_state, NONE

(* The number of valid paths is at most four, and positive if one is valid. *)
LEMMA ValidCount ==
    ASSUME NEW ps
    PROVE  /\ count_valid_paths(ps) \in 0 .. 4
           /\ count_valid_paths(ps) = 0 <=> Valid(ps) = {}
<1>1. IsFiniteSet(Four) /\ Cardinality(Four) = 4
  <2>1. 0 \in Int /\ 3 \in Int  OBVIOUS
  <2>2. IsFiniteSet(0 .. 3)  BY <2>1, FS_Interval, Zenon
  <2>3. Cardinality(0 .. 3) = IF 0 > 3 THEN 0 ELSE 3 - 0 + 1  BY <2>1, FS_Interval, Zenon
  <2>4. Cardinality(0 .. 3) = 4  BY <2>3
  <2>5. QED  BY <2>2, <2>4, Zenon DEF Four
<1>2. Valid(ps) \subseteq Four  BY Zenon DEF Valid
<1>3. IsFiniteSet(Valid(ps)) /\ Cardinality(Valid(ps)) <= 4  BY <1>1, <1>2, FS_Subset, Zenon
<1>4. Cardinality(Valid(ps)) \in Nat  BY <1>3, FS_CardinalityType, Zenon
<1>5. Cardinality(Valid(ps)) = 0 <=> Valid(ps) = {}  BY <1>3, FS_EmptySet, Zenon
<1>6. QED  BY <1>3, <1>4, <1>5 DEF count_valid_paths

(* Whatever the current path is, with two valid paths distribute_load finds a
   valid one, and with fewer it stays. *)
THEOREM LoadGoesToValid ==
    ASSUME NEW ps, NEW c \in Four
    PROVE  /\ is_multipath_viable(ps) => /\ distribute_load(ps, c) \in Four
                                        /\ ps[distribute_load(ps, c)].valid
           /\ ~ is_multipath_viable(ps) => distribute_load(ps, c) = c
<1> DEFINE total == count_valid_paths(ps)
           start == (c + 1) % total
           T == {k \in Four : ps[(start + k) % 4].valid}
           tries == FirstIndex(T, NONE)
<1>1. total \in 0 .. 4 /\ (total = 0 <=> Valid(ps) = {})  BY ValidCount, Zenon
<1>2. distribute_load(ps, c) = IF total < 2 THEN c
                               ELSE IF tries = NONE THEN c ELSE (start + tries) % 4
      BY Zenon DEF distribute_load, MIN_PATHS
<1>3. is_multipath_viable(ps) <=> total >= 2  BY Zenon DEF is_multipath_viable, MIN_PATHS
<1>4. CASE total < 2
  <2> HIDE DEF total, tries, start
  <2>1. QED  BY <1>1, <1>2, <1>3, <1>4
<1>5. CASE total >= 2
  <2>1. PICK v \in Four : ps[v].valid
        BY <1>1, <1>5 DEF Valid
  <2>2. start \in 0 .. 3
    <3> HIDE DEF total
    <3>1. total \in {2, 3, 4}  BY <1>1, <1>5
    <3>2. c \in 0 .. 3  BY Zenon DEF Four
    <3>3. CASE total = 2  BY <3>2, <3>3
    <3>4. CASE total = 3  BY <3>2, <3>4
    <3>5. CASE total = 4  BY <3>2, <3>5
    <3>6. QED  BY <3>1, <3>3, <3>4, <3>5, Zenon
  <2> HIDE DEF start, total
  <2>3. \E k \in Four : (start + k) % 4 = v
    <3>1. v \in 0 .. 3  BY Zenon DEF Four
    <3>2. CASE start <= v
      <4>1. v - start \in Four /\ (start + (v - start)) % 4 = v  BY <2>2, <3>1, <3>2 DEF Four
      <4>2. QED  BY <4>1, Zenon
    <3>3. CASE start > v
      <4>1. v + 4 - start \in Four /\ (start + (v + 4 - start)) % 4 = v
            BY <2>2, <3>1, <3>3 DEF Four
      <4>2. QED  BY <4>1, Zenon
    <3>4. QED  BY <2>2, <3>1, <3>2, <3>3
  <2>4. T # {} /\ T \in SUBSET Nat  BY <2>1, <2>3 DEF Four
  <2>5. tries \in T
    <3> HIDE DEF T
    <3>1. QED  BY <2>4, FirstOfSome, Zenon
  <2>6. tries \in Four /\ ps[(start + tries) % 4].valid  BY <2>5, Zenon
  <2> HIDE DEF tries, T
  <2>7. tries # NONE /\ (start + tries) % 4 \in Four
        BY <2>2, <2>6 DEF Four, NONE
  <2>8. QED  BY <1>1, <1>2, <1>3, <1>5, <2>6, <2>7
<1>6. QED  BY <1>1, <1>4, <1>5

(* A flow on a dead path is stranded when only one valid path is left:
   perform_failover, which needs two, leaves it there. *)
THEOREM LastPathIsNotTaken ==
    ASSUME NEW ps, NEW c \in Four, count_valid_paths(ps) = 1
    PROVE  perform_failover(ps, c) = c
<1>1. ~ is_multipath_viable(ps)  BY DEF is_multipath_viable, MIN_PATHS
<1>2. QED  BY <1>1, LoadGoesToValid, Zenon DEF perform_failover

(* The types of the table, and the inductive invariant of the policies. *)
Neighbor == [id : Nat, quality : Nat, seen : Nat]
TableOK == table \in [Four -> Neighbor]
RouteInv == /\ paths \in [Four -> Path] /\ TableOK
            /\ APathRemains /\ NeighborsApart

(* A neighbour heard goes to a slot of the table: its own if it has one, else
   one without a neighbour. *)
LEMMA SlotFound ==
    ASSUME NEW t \in [Four -> Neighbor],
           NEW id \in 1 .. 254, slot_for_update(t, id) # NONE
    PROVE  LET slot == slot_for_update(t, id)
           IN  /\ slot \in Four
               /\ t[slot].id = id \/ (\A i \in Four : t[i].id # id)
<1> DEFINE S == {i \in Four : t[i].id = id}
           E == {i \in Four : t[i].id = NONE}
<1>1. find_index(t, id) = FirstIndex(S, NONE) /\ find_index(t, NONE) = FirstIndex(E, NONE)
      BY Zenon DEF find_index
<1>2. S \in SUBSET Nat /\ E \in SUBSET Nat  BY DEF Four
<1>3. CASE S = {}
  <2>1. find_index(t, id) = NONE  BY <1>1, <1>3, Zenon DEF FirstIndex
  <2>2. slot_for_update(t, id) = FirstIndex(E, NONE)  BY <1>1, <2>1, Zenon DEF slot_for_update
  <2>3. E # {}
    <3> HIDE DEF E
    <3>1. QED  BY <2>2, Zenon DEF FirstIndex
  <2>4. FirstIndex(E, NONE) \in E
    <3> HIDE DEF E
    <3>1. QED  BY <1>2, <2>3, FirstOfSome, Zenon
  <2>5. \A i \in Four : t[i].id # id  BY <1>3, Zenon
  <2>6. QED  BY <2>2, <2>4, <2>5, Zenon
<1>4. CASE S # {}
  <2>1. FirstIndex(S, NONE) \in S
    <3> HIDE DEF S
    <3>1. QED  BY <1>2, <1>4, FirstOfSome, Zenon
  <2>2. find_index(t, id) \in Four /\ t[find_index(t, id)].id = id  BY <1>1, <2>1, Zenon
  <2>3. find_index(t, id) # NONE  BY <2>2 DEF Four, NONE
  <2>4. slot_for_update(t, id) = find_index(t, id)  BY <2>3, Zenon DEF slot_for_update
  <2>5. QED  BY <2>2, <2>4, Zenon
<1>5. QED  BY <1>3, <1>4, Zenon

(* Hearing a neighbour keeps the table and its neighbours apart. *)
LEMMA HearKept ==
    ASSUME TableOK, NeighborsApart, NEW id \in 1 .. 254, NEW quality \in 0 .. 255,
           NEW now \in Nat, Hear(id, quality, now)
    PROVE  TableOK' /\ NeighborsApart'
<1> DEFINE slot == slot_for_update(table, id)
           e == create_neighbor(id, quality, now)
<1>1. Low8(id) = id /\ Low8(quality) = quality  BY DEF Low8
<1>2. Low16(now) \in Nat  BY DEF Low16
<1>3. e = [id |-> id, quality |-> quality, seen |-> Low16(now)]
      BY <1>1, Zenon DEF create_neighbor
<1>4. e \in Neighbor /\ e.id = id
      BY <1>2, <1>3 DEF Neighbor
<1>5. slot # NONE /\ table' = [table EXCEPT ![slot] = e]  BY Zenon DEF Hear
<1>6. slot \in Four /\ (table[slot].id = id \/ (\A i \in Four : table[i].id # id))
  <2>1. table \in [Four -> Neighbor]  BY Zenon DEF TableOK
  <2>2. QED  BY <1>5, <2>1, SlotFound, Zenon
<1> HIDE DEF slot, e
<1>7. TableOK'  BY <1>4, <1>5, <1>6, Zenon DEF TableOK
<1>8. \A i \in Four : i # slot => table'[i] = table[i]  BY <1>5, <1>6, Zenon DEF TableOK
<1>9. table'[slot].id = id  BY <1>4, <1>5, <1>6, Zenon DEF TableOK
<1>10. \A i \in Four : i # slot => table[i].id # id
  <2>1. id # NONE  BY DEF NONE
  <2>2. QED  BY <1>6, <2>1, Zenon DEF NeighborsApart
<1>11. NeighborsApart'
  <2> SUFFICES ASSUME NEW i \in Four, NEW j \in Four, i # j, table'[i].id = table'[j].id
               PROVE  table'[i].id = NONE
      BY Zenon DEF NeighborsApart
  <2>1. i # slot /\ j # slot  BY <1>8, <1>9, <1>10, Zenon
  <2>2. QED  BY <1>8, <2>1 DEF NeighborsApart
<1>12. QED  BY <1>7, <1>11, Zenon

(* Failing over and repairing keep a valid path. *)
LEMMA PathsKept ==
    ASSUME paths \in [Four -> Path], Valid(paths) # {}, NEW i \in Four, Fail(i) \/ Repair(i)
    PROVE  paths' \in [Four -> Path] /\ Valid(paths') # {}
<1> DEFINE p(b) == [paths EXCEPT ![i].valid = b]
<1>1. \A b \in BOOLEAN : /\ p(b) \in [Four -> Path]
                         /\ p(b)[i].valid = b
                         /\ \A j \in Four : j # i => p(b)[j] = paths[j]
      BY Zenon DEF Path
<1>2. CASE Repair(i)
  <2>1. paths' = p(TRUE)  BY <1>2, Zenon DEF Repair, validate_path
  <2> HIDE DEF p
  <2>2. QED  BY <1>1, <2>1, Zenon DEF Valid
<1>3. CASE Fail(i)
  <2> DEFINE B == Valid(paths) \ {i}
  <2>1. paths' = IF FirstIndex(B, NONE) # NONE THEN p(FALSE) ELSE paths
        BY <1>3, Zenon DEF Fail, failover, find_backup_path, invalidate_path
  <2>2. CASE B = {}
    <3>1. paths' = paths  BY <2>1, <2>2, Zenon DEF FirstIndex
    <3>2. QED  BY <3>1, Zenon
  <2>3. CASE B # {}
    <3>1. PICK j \in B : TRUE  BY <2>3, Zenon
    <3>2. j \in Four /\ j # i /\ paths[j].valid  BY <3>1, Zenon DEF Valid
    <3> HIDE DEF p, B
    <3>3. p(FALSE)[j].valid  BY <1>1, <3>2, Zenon
    <3>4. p(FALSE) \in [Four -> Path] /\ Valid(p(FALSE)) # {}  BY <1>1, <3>2, <3>3,
                                                            Zenon DEF Valid
    <3>5. paths' = p(FALSE) \/ paths' = paths  BY <2>1, Zenon
    <3>6. QED  BY <3>4, <3>5, Zenon
  <2>4. QED  BY <2>2, <2>3, Zenon
<1>4. QED  BY <1>2, <1>3, Zenon

(* The flow moves only to a valid path, and stays among the four. *)
LEMMA FlowKept ==
    ASSUME paths \in [Four -> Path], chosen \in Four, Move \/ Balance
    PROVE  chosen' \in Four /\ (chosen' # chosen => paths[chosen'].valid)
<1>1. chosen' \in {chosen, distribute_load(paths, chosen)}
      BY Zenon DEF Move, Balance, perform_failover
<1>2. distribute_load(paths, chosen) \in Four
        /\ (distribute_load(paths, chosen) # chosen => paths[distribute_load(paths, chosen)].valid)
      BY LoadGoesToValid, Zenon
<1>3. QED  BY <1>1, <1>2, Zenon

(* The invariant of the routing policies. *)
LEMMA RouteInvariant == RouteSpec => []RouteInv
<1>1. RouteInit => RouteInv
  <2> SUFFICES ASSUME RouteInit PROVE RouteInv  BY Zenon
  <2>1. NoNeighbor \in Neighbor
        /\ NoNeighbor.id = NONE
        BY DEF NoNeighbor, NONE, Neighbor
  <2>2. TableOK /\ NeighborsApart
    <3> HIDE DEF NoNeighbor
    <3>1. QED  BY <2>1, Zenon DEF RouteInit, TableOK, NeighborsApart
  <2>3. Valid(paths) # {} /\ Valid(paths) \in SUBSET Nat /\ Valid(paths) \subseteq Four
        BY DEF RouteInit, Valid, Four
  <2>4. chosen \in Four
    <3>1. chosen = FirstIndex(Valid(paths), NONE)  BY Zenon DEF RouteInit, find_primary_path
    <3>2. QED  BY <2>3, <3>1, FirstOfSome, Zenon
  <2>5. QED  BY <2>2, <2>3, <2>4, Zenon DEF RouteInit, RouteInv, APathRemains
<1>2. RouteInv /\ [RouteNext]_routeVars => RouteInv'
  <2> SUFFICES ASSUME RouteInv, [RouteNext]_routeVars PROVE RouteInv'  BY Zenon
  <2>1. paths \in [Four -> Path] /\ TableOK /\ Valid(paths) # {} /\ chosen \in Four
        /\ NeighborsApart
        BY Zenon DEF RouteInv, APathRemains
  <2>2. CASE \E i \in Four : Fail(i) \/ Repair(i)
    <3>1. PICK i \in Four : Fail(i) \/ Repair(i)  BY <2>2, Zenon
    <3>2. UNCHANGED <<chosen, table>>  BY <3>1, Zenon DEF Fail, Repair
    <3>3. paths' \in [Four -> Path] /\ Valid(paths') # {}  BY <2>1, <3>1, PathsKept, Zenon
    <3>4. QED  BY <2>1, <3>2, <3>3, Zenon DEF RouteInv, APathRemains, TableOK, NeighborsApart
  <2>3. CASE Move \/ Balance
    <3>1. UNCHANGED <<paths, table>>  BY <2>3, Zenon DEF Move, Balance
    <3>2. chosen' \in Four  BY <2>1, <2>3, FlowKept, Zenon
    <3>3. QED  BY <2>1, <3>1, <3>2, Zenon DEF RouteInv, APathRemains, TableOK, NeighborsApart
  <2>4. CASE \E id \in 1 .. 254, quality \in 0 .. 255, now \in Nat : Hear(id, quality, now)
    <3>1. PICK id \in 1 .. 254, quality \in 0 .. 255, now \in Nat : Hear(id, quality, now)
          BY <2>4, Zenon
    <3>2. UNCHANGED <<paths, chosen>>  BY <3>1, Zenon DEF Hear
    <3>3. TableOK' /\ NeighborsApart'  BY <2>1, <3>1, HearKept, Zenon
    <3>4. QED  BY <2>1, <3>2, <3>3, Zenon DEF RouteInv, APathRemains
  <2>5. CASE UNCHANGED routeVars
        BY <2>1, <2>5, Zenon DEF routeVars, RouteInv, APathRemains, TableOK, NeighborsApart
  <2>6. QED  BY <2>2, <2>3, <2>4, <2>5, Zenon DEF RouteNext
<1>3. QED  BY <1>1, <1>2, PTL DEF RouteSpec

(* failover never takes the last valid path away. *)
THEOREM APathAlwaysRemains == RouteSpec => []APathRemains
<1>1. RouteInv => APathRemains  BY Zenon DEF RouteInv
<1>2. QED  BY <1>1, RouteInvariant, PTL

(* No neighbour is listed twice. *)
THEOREM NeighborsStayApart == RouteSpec => []NeighborsApart
<1>1. RouteInv => NeighborsApart  BY Zenon DEF RouteInv
<1>2. QED  BY <1>1, RouteInvariant, PTL

(* The flow moves only to valid paths. *)
THEOREM MovesAreAlwaysValid == RouteSpec => MovesAreValid
<1>1. RouteInv /\ [RouteNext]_routeVars => [chosen' # chosen => paths[chosen'].valid]_routeVars
  <2> SUFFICES ASSUME RouteInv, RouteNext, chosen' # chosen PROVE paths[chosen'].valid
      BY Zenon
  <2>1. Move \/ Balance  BY Zenon DEF RouteNext, Fail, Repair, Hear
  <2>2. paths \in [Four -> Path] /\ chosen \in Four  BY Zenon DEF RouteInv, APathRemains
  <2>3. QED  BY <2>1, <2>2, FlowKept, Zenon
<1>2. QED  BY <1>1, RouteInvariant, PTL DEF RouteSpec, MovesAreValid
=============================================================================
