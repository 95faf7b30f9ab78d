---------------------------- MODULE RoutePolicy -----------------------------
(***************************************************************************)
(* How a node picks a link, a neighbour and a path: the generated          *)
(* libraries etx, link_quality_monitor, mesh_routing, olsr_routing,        *)
(* adaptive_routing, multipath_routing and redundancy_management           *)
(* (gen/rust).                                                             *)
(*                                                                         *)
(* The libraries are operators under their own names.  The state machine   *)
(* is their caller: a flow with four paths that break, are repaired and    *)
(* are failed over, and the table of neighbours heard.                     *)
(***************************************************************************)
EXTENDS PackedArrays

Four == 0 .. 3
NONE == 255
INFINITE == 65535
-----------------------------------------------------------------------------
(* etx: delivery ratios as fractions of 256. *)

DEAD_EPS == 38
alpha_from_window(window) == IF window = 10 THEN 128 ELSE 160
bool_to_sample(b) == IF b THEN 255 ELSE 0
fp_mul(a, b) == (a * b) \div 256
ewma_update(est, sample, alpha) == Low8((alpha * sample + (256 - alpha) * est) \div 256)
is_dead(ratio) == ratio < DEAD_EPS

calc_etx(forward, reverse) ==
    IF is_dead(forward) \/ is_dead(reverse) THEN INFINITE
    ELSE IF forward >= 200 /\ reverse >= 200 THEN 256
    ELSE IF forward >= 100 /\ reverse >= 100 /\ (forward >= 200 \/ reverse >= 200) THEN 512
    ELSE IF forward >= 50 /\ reverse >= 50 THEN 1024
    ELSE 2048
-----------------------------------------------------------------------------
(* link_quality_monitor: an estimate in 1/64 of a transmission, its trend  *)
(* over eight samples, and a score.                                        *)

QUALITY_POOR == 96
TREND_THRESHOLD == 5

AtMost255(n) == IF n > 255 THEN 255 ELSE n
AsI8(n) == IF n >= 128 THEN n - 256 ELSE n

(* Each product is cut to an integer on its own. *)
update_ewma(current, sample) == AtMost255((32 * sample) \div 256 + (224 * current) \div 256)

(* The difference is a byte reinterpreted as a signed one, and its negation *)
(* wraps (a build with overflow checks stops at a fall of 128).             *)
calculate_trend(h) ==
    LET recent == (h[7] + h[6] + h[5] + h[4]) \div 4
        older == (h[3] + h[2] + h[1] + h[0]) \div 4
    IN  IF recent > older THEN AsI8(recent - older)
        ELSE IF older - recent = 128 THEN -128 ELSE -AsI8(older - recent)

predict_next_etx(current, trend) ==
    IF current + trend < 64 THEN 64 ELSE AtMost255(current + trend)
is_degrading(current, trend) == current > QUALITY_POOR /\ trend > TREND_THRESHOLD
quality_score(etx, latency_ms) == AtMost255((etx * 7) \div 10 + latency_ms \div 100)
classify_quality(score) ==
    IF score <= 50 THEN 0 ELSE IF score <= 100 THEN 1 ELSE IF score <= 150 THEN 2
    ELSE IF score <= 200 THEN 3 ELSE 4
-----------------------------------------------------------------------------
(* mesh_routing: node addresses 10.42.0.1 to 10.42.0.254, and the choice   *)
(* among three next hops: the cheapest, and the first one on a tie.        *)

MESH_NET == <<10, 42, 0>>
mesh_ip(id) == [net |-> MESH_NET, host |-> Low8(id)]
node_of_ip(ip) ==
    IF ip.net = MESH_NET /\ ip.host \in 1 .. 254 THEN [id |-> ip.host, ok |-> TRUE]
    ELSE [id |-> 0, ok |-> FALSE]

decrement_ttl(ttl) == [ttl |-> IF ttl > 1 THEN ttl - 1 ELSE 0, expired |-> ttl <= 1]

FiniteHops(etx, has) == {i \in 1 .. 3 : has[i] /\ etx[i] # INFINITE}
choose_next_hop(etx, has) ==
    FirstIndex({i \in FiniteHops(etx, has) : \A j \in FiniteHops(etx, has) : etx[i] <= etx[j]}, 0)

delivery_decision(is_local, ttl_expired, route_exists) ==
    IF is_local THEN "local" ELSE IF ttl_expired \/ ~ route_exists THEN "drop" ELSE "forward"
-----------------------------------------------------------------------------
(* olsr_routing: a table of four neighbours. *)

VALID_TIMEOUT == 6000
create_neighbor(id, quality, seen) ==
    [id |-> Low8(id), quality |-> Low8(quality), seen |-> Low16(seen)]
ZeroNeighbor == [id |-> 0, quality |-> 0, seen |-> 0]
NoNeighbor == [id |-> NONE, quality |-> 0, seen |-> 0]

is_valid(entry, time) == time - entry.seen < VALID_TIMEOUT
find_index(table, id) == FirstIndex({i \in Four : table[i].id = id}, NONE)
slot_for_update(table, id) ==
    IF find_index(table, id) # NONE THEN find_index(table, id) ELSE find_index(table, NONE)

best_of_two(a, b) == IF a.quality >= b.quality THEN a ELSE b
BestOf(table) == best_of_two(best_of_two(table[0], table[1]), best_of_two(table[2], table[3]))
get_best_neighbor(table) == BestOf(table).id
mask_if_id(entry, id) == IF entry.id = id THEN ZeroNeighbor ELSE entry
get_second_best(table, best) == BestOf([i \in Four |-> mask_if_id(table[i], best)]).id
select_mprs(table) ==
    <<get_best_neighbor(table), get_second_best(table, get_best_neighbor(table))>>
count_neighbors(table) == Cardinality({i \in Four : table[i].id # NONE})
-----------------------------------------------------------------------------
(* adaptive_routing: four paths compared by one of three metrics. *)

METRIC_LATENCY == 0
METRIC_HOPS == 1
METRIC_BANDWIDTH == 2
UPDATE_INTERVAL == 5000

create_path_metrics(latency, hops, bandwidth, load) ==
    [latency |-> Low8(latency), hops |-> Low8(hops), bandwidth |-> Low8(bandwidth),
     load |-> Low8(load)]
create_selection_state(primary, backup, metric, last) ==
    [primary |-> primary % 4, backup |-> backup % 4, metric |-> metric % 4, last |-> last % 2^24]

Inverse255(n) == IF n = 0 THEN 255 ELSE 255 \div n
calculate_score(m, metric) ==
    IF metric = METRIC_LATENCY THEN Inverse255(m.latency)
    ELSE IF metric = METRIC_HOPS THEN Inverse255(m.hops)
    ELSE IF metric = METRIC_BANDWIDTH THEN m.bandwidth ELSE 0

(* The first of the paths with the best score, if that is not zero. *)
find_best_path(ms, metric) ==
    FirstIndex({i \in Four : /\ calculate_score(ms[i], metric) > 0
                             /\ \A j \in Four : calculate_score(ms[j], metric)
                                                  <= calculate_score(ms[i], metric)}, NONE)

needs_update(state, now) == now - state.last >= UPDATE_INTERVAL
update_selection(state, primary, backup, now) ==
    create_selection_state(primary, backup, state.metric, now)
change_metric_type(state, metric) ==
    create_selection_state(state.primary, state.backup, metric, state.last)
is_path_congested(m) == m.load > 80
find_least_congested(ms) ==
    FirstIndex({i \in Four : \A j \in Four : ms[i].load <= ms[j].load}, 0)
-----------------------------------------------------------------------------
(* multipath_routing and redundancy_management: four paths of up to three  *)
(* hops, each marked valid or not.                                         *)

MIN_PATHS == 2
create_path(valid, hop1, hop2, hop3) ==
    [valid |-> valid, hop1 |-> Low8(hop1), hop2 |-> Low8(hop2), hop3 |-> Low8(hop3)]

Valid(ps) == {i \in Four : ps[i].valid}
count_valid_paths(ps) == Cardinality(Valid(ps))
is_multipath_viable(ps) == count_valid_paths(ps) >= MIN_PATHS
has_redundancy(ps) == count_valid_paths(ps) > 1

select_primary_path(ps) == IF is_multipath_viable(ps) THEN FirstIndex(Valid(ps), NONE) ELSE NONE

(* The hops are bits of a word, of which only the low eight are counted    *)
(* (a shift by 32 or more wraps, or stops a build with overflow checks).   *)
calculate_path_diversity(ps) == Cardinality({ps[i].hop1 % 32 : i \in Valid(ps)} \cap 0 .. 7)
calculate_multipath_gain(ps) == IF is_multipath_viable(ps) THEN count_valid_paths(ps) * 30 ELSE 0

(* The next valid path, searched round the four from one place on; that    *)
(* place is taken modulo the number of valid paths, not of all.            *)
distribute_load(ps, current) ==
    LET total == count_valid_paths(ps)
        start == (current + 1) % total
        tries == FirstIndex({k \in Four : ps[(start + k) % 4].valid}, NONE)
    IN  IF total < MIN_PATHS THEN current
        ELSE IF tries = NONE THEN current ELSE (start + tries) % 4

needs_failover(ps, current) == current < 4 /\ ~ ps[current].valid
perform_failover(ps, current) ==
    IF needs_failover(ps, current) THEN distribute_load(ps, current) ELSE current

find_primary_path(ps) == FirstIndex(Valid(ps), NONE)
find_backup_path(ps, failed) == FirstIndex(Valid(ps) \ {failed}, NONE)
invalidate_path(ps, i) == [ps EXCEPT ![i].valid = FALSE]
validate_path(ps, i) == [ps EXCEPT ![i].valid = TRUE]
failover(ps, failed) == IF find_backup_path(ps, failed) # NONE THEN invalidate_path(ps, failed) ELSE ps

get_hop_count(p) == Cardinality({k \in 1 .. 3 : <<p.hop1, p.hop2, p.hop3>>[k] # 0})
find_shortest_path(ps) ==
    FirstIndex({i \in Valid(ps) : \A j \in Valid(ps) : get_hop_count(ps[i]) <= get_hop_count(ps[j])},
               NONE)
-----------------------------------------------------------------------------
VARIABLES paths, chosen, table
routeVars == <<paths, chosen, table>>

Hops == 0 .. 255
Path == [valid : BOOLEAN, hop1 : Hops, hop2 : Hops, hop3 : Hops]

RouteInit ==
    /\ paths \in [Four -> Path]
    /\ Valid(paths) # {}
    /\ chosen = find_primary_path(paths)
    /\ table = [i \in Four |-> NoNeighbor]

(* redundancy_management: a path fails, a path comes back. *)
Fail(i) ==
    /\ paths' = failover(paths, i)
    /\ UNCHANGED <<chosen, table>>

Repair(i) ==
    /\ paths' = validate_path(paths, i)
    /\ UNCHANGED <<chosen, table>>

(* multipath_routing: the flow leaves a path that is gone, or takes turns. *)
Move ==
    /\ chosen' = perform_failover(paths, chosen)
    /\ UNCHANGED <<paths, table>>

Balance ==
    /\ chosen' = distribute_load(paths, chosen)
    /\ UNCHANGED <<paths, table>>

(* A neighbour is heard; NONE is not the number of a node. *)
Hear(id, quality, now) ==
    LET slot == slot_for_update(table, id)
    IN  /\ slot # NONE
        /\ table' = [table EXCEPT ![slot] = create_neighbor(id, quality, now)]
        /\ UNCHANGED <<paths, chosen>>

RouteNext ==
    \/ \E i \in Four : Fail(i) \/ Repair(i)
    \/ Move \/ Balance
    \/ \E id \in 1 .. 254, quality \in 0 .. 255, now \in Nat : Hear(id, quality, now)

RouteSpec == RouteInit /\ [][RouteNext]_routeVars
-----------------------------------------------------------------------------
(* Failing over never takes the last valid path away, and the flow points at
   one of the four paths (failover, distribute_load). *)
APathRemains == Valid(paths) # {} /\ chosen \in Four

(* The flow only ever moves to a path that is valid at that moment
   (distribute_load, perform_failover). *)
MovesAreValid == [][chosen' # chosen => paths[chosen'].valid]_routeVars

(* No neighbour is in the table twice (slot_for_update). *)
NeighborsApart ==
    \A i, j \in Four : i # j /\ table[i].id = table[j].id => table[i].id = NONE
=============================================================================
