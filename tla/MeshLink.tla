------------------------------ MODULE MeshLink ------------------------------
(***************************************************************************)
(* The HELLO protocol of trios-meshd (src/bin/trios_meshd.rs) and the link *)
(* metric it feeds (src/routing.rs).  Every node has an RX thread, which   *)
(* notes in RxShared whom it heard, and a ticker, which once per HELLO_MS  *)
(* takes those notes, updates the metric, declares silent neighbours dead  *)
(* and sends its own HELLO.                                                *)
(*                                                                         *)
(* A delivery ratio is kept in twentieths, rounded down.  Since            *)
(* floor((20 s + floor(x)) / 2) = floor((20 s + x) / 2), the comparison    *)
(* with DEAD_EPS = 3/20 comes out as on the exact ratio.                   *)
(*                                                                         *)
(* Tickers have the same period and no common phase: a round is a period   *)
(* in which every node ticks once, in an order that may differ from round  *)
(* to round.  A frame arrives, or is lost, before the next tick of any     *)
(* node.  The two steps of a tick, taking the notes and using them, are    *)
(* one action: what the RX thread notes in between is for the next         *)
(* interval.                                                               *)
(*                                                                         *)
(* Of a Hello (src/discovery.rs) only the list of neighbours matters here: *)
(* the daemon reads neither its number nor its timestamp nor its MAC.      *)
(***************************************************************************)
EXTENDS Integers, Sequences, FiniteSets

CONSTANTS Node,
          MaxFaults  \* bound on the changes of links and drop files

ASSUME LinkAssumption ==
    IsFiniteSet(Node) /\ Node \subseteq Nat /\ MaxFaults \in Nat

VARIABLES forward, reverse, \* LinkStats: [node, peer] -> 0 .. One
          misses,           \* the ticker's misses
          seen, they_heard, \* RxShared
          dropped,          \* the daemon's copy of mesh.drop
          file,             \* mesh.drop on that node: neighbours to ignore
          net,              \* HELLOs on the way
          cut,              \* directed links that lose every frame
          ticked, order,    \* who ticked in this round, and in the one before
          faults,           \* the changes of links and drop files so far
          calm              \* links, drop files and phases change no more

linkVars == <<forward, reverse, misses, seen, they_heard, dropped, file, net, cut, ticked,
              order, faults, calm>>
metric == <<forward, reverse, misses>>
environment == <<file, cut, faults, calm>>

FAST_FAIL_MISSES == 2
One == 20          \* ratio 1.0
OPTIMISTIC == 18   \* 0.9
DEAD_EPS == 3      \* 0.15
MAX_HEARD == 255   \* u8::MAX, the neighbours a Hello can list

Peers(i) == Node \ {i}
Orders == {s \in [1 .. Cardinality(Node) -> Node] : \A i \in Node : \E k \in DOMAIN s : s[k] = i}

\* DeliveryRatio::record with alpha = 1/2 (ETX_WINDOW = 3).
record(est, sample) == ((IF sample THEN One ELSE 0) + est) \div 2

\* LinkStats::etx is finite
usable(f, r) == f >= DEAD_EPS /\ r >= DEAD_EPS

\* The link to peer p is usable in i's EtxTable.
Alive(i, p) == usable(forward[i][p], reverse[i][p])

\* (The estimates of a peer start with its first observation, at OPTIMISTIC.)
LinkInit ==
    /\ forward = [i \in Node |-> [p \in Peers(i) |-> OPTIMISTIC]]
    /\ reverse = [i \in Node |-> [p \in Peers(i) |-> OPTIMISTIC]]
    /\ misses = [i \in Node |-> [p \in Peers(i) |-> 0]]
    /\ seen = [i \in Node |-> {}]
    /\ they_heard = [i \in Node |-> {}]
    /\ dropped = [i \in Node |-> {}]
    /\ net = {}
    /\ file = [i \in Node |-> {}] /\ cut = {} /\ calm = FALSE
    /\ ticked = <<>> /\ order \in Orders /\ faults = 0
-----------------------------------------------------------------------------
(* The beacon *)

\* Hello::to_bytes and Hello::parse: the sorted list is cut after MAX_HEARD
\* entries, and what is left arrives as it was.
carried(S) == {p \in S : Cardinality({q \in S : q < p}) < MAX_HEARD}

\* Hello::authenticated, addressed to p by send_direct.
authenticated(i, p, S) == [from |-> i, to |-> p, heard |-> carried(S)]

reports_hearing(m, me) == me \in m.heard
-----------------------------------------------------------------------------
(* The RX thread.  they_heard[i] holds the peers whose last HELLO listed i. *)

receive(m) ==
    LET i == m.to IN
    /\ <<m.from, i>> \notin cut
    /\ net' = net \ {m}
    /\ IF m.from \in dropped[i]
       THEN UNCHANGED <<seen, they_heard>>
       ELSE /\ seen' = [seen EXCEPT ![i] = @ \cup {m.from}]
            /\ they_heard' = [they_heard EXCEPT
                  ![i] = IF reports_hearing(m, i) THEN @ \cup {m.from} ELSE @ \ {m.from}]
    /\ UNCHANGED <<metric, dropped, ticked, order, environment>>

Lose(m) ==
    /\ <<m.from, m.to>> \in cut
    /\ net' = net \ {m}
    /\ UNCHANGED <<metric, seen, they_heard, dropped, ticked, order, environment>>
-----------------------------------------------------------------------------
(* The ticker *)

\* It is node i's turn to tick; in calm the order of the ticks stays.
Due(i) == /\ net = {}
          /\ \A k \in DOMAIN ticked : ticked[k] # i
          /\ calm => i = order[Len(ticked) + 1]

\* Bug: one missed HELLO is enough.
BugFails(m) == m >= 1

fails(m) == m >= FAST_FAIL_MISSES

\* Bug: a silent neighbour is left to the decay of the estimate.
BugKilled(est, m) == est

\* force_dead of a neighbour that was silent too long
killed(est, m) == IF fails(m) THEN 0 ELSE est

\* Bug: no beacons over a link that is dead.
BugBeaconed(i) == {p \in Peers(i) \ file[i] : Alive(i, p)}

\* send_direct: beacons go out over dead links too.
beaconed(i) == Peers(i) \ file[i]

\* One turn of the ticker's loop: it takes the notes of the interval
\* (they_heard is copied and not cleared), reads mesh.drop, records, counts
\* misses, fails over, and beacons whom it heard.
tick(i) ==
    LET heard(p) == p \in seen[i] /\ p \notin file[i]
        they(p)  == p \in they_heard[i] /\ p \notin file[i]
        missed(p) == IF heard(p) THEN 0 ELSE misses[i][p] + 1
    IN
    /\ Due(i)
    /\ seen' = [seen EXCEPT ![i] = {}]
    /\ dropped' = [dropped EXCEPT ![i] = file[i]]
    /\ misses' = [misses EXCEPT ![i] = [p \in Peers(i) |->
           IF fails(missed(p)) THEN FAST_FAIL_MISSES ELSE missed(p)]]
    /\ reverse' = [reverse EXCEPT ![i] = [p \in Peers(i) |->
           killed(record(reverse[i][p], heard(p)), missed(p))]]
    /\ forward' = [forward EXCEPT ![i] = [p \in Peers(i) |->
           killed(record(forward[i][p], they(p)), missed(p))]]
    /\ net' = net \cup {authenticated(i, p, seen[i]) : p \in beaconed(i)}
    /\ IF Len(ticked) + 1 = Cardinality(Node)
       THEN ticked' = <<>> /\ order' = Append(ticked, i)
       ELSE ticked' = Append(ticked, i) /\ UNCHANGED order
    /\ UNCHANGED <<they_heard, file, cut, faults, calm>>
-----------------------------------------------------------------------------
(* What changes the links *)

SetDrop(i, S) ==
    /\ ~calm /\ faults < MaxFaults
    /\ file' = [file EXCEPT ![i] = S] /\ faults' = faults + 1
    /\ UNCHANGED <<metric, seen, they_heard, dropped, net, cut, ticked, order, calm>>

SetCut(C) ==
    /\ ~calm /\ faults < MaxFaults
    /\ cut' = C /\ faults' = faults + 1
    /\ UNCHANGED <<metric, seen, they_heard, dropped, file, net, ticked, order, calm>>

Calm ==
    /\ ~calm /\ ticked = <<>> /\ calm' = TRUE
    /\ UNCHANGED <<metric, seen, they_heard, dropped, file, net, cut, ticked, order,
                   faults>>

LinkNext ==
    \/ \E i \in Node : tick(i)
    \/ \E m \in net : receive(m) \/ Lose(m)
    \/ \E i \in Node : \E S \in SUBSET Peers(i) : SetDrop(i, S)
    \/ \E C \in SUBSET {l \in Node \X Node : l[1] # l[2]} : SetCut(C)
    \/ Calm

\* Threads run and frames arrive.
Fairness == /\ \A i \in Node : WF_linkVars(tick(i))
            /\ WF_linkVars(\E m \in net : receive(m) \/ Lose(m))

LinkSpec == LinkInit /\ [][LinkNext]_linkVars
FairLinkSpec == LinkSpec /\ Fairness
-----------------------------------------------------------------------------
LinkTypeOK ==
    /\ forward \in [Node -> UNION {[Peers(i) -> 0 .. One] : i \in Node}]
    /\ reverse \in [Node -> UNION {[Peers(i) -> 0 .. One] : i \in Node}]
    /\ misses \in [Node -> UNION {[Peers(i) -> 0 .. FAST_FAIL_MISSES] : i \in Node}]
    /\ \A f \in {seen, they_heard, dropped, file} : f \in [Node -> SUBSET Node]
    /\ net \subseteq [from : Node, to : Node, heard : SUBSET Node]
    /\ cut \subseteq Node \X Node /\ ticked \in Seq(Node) /\ order \in Orders
    /\ faults \in 0 .. MaxFaults /\ calm \in BOOLEAN

\* A neighbour that was silent for FAST_FAIL_MISSES intervals is not used,
\* although they_heard still holds what it said when it was last heard and
\* feeds the forward ratio a success in every interval.
SilentIsDead ==
    \A i \in Node : \A p \in Peers(i) : misses[i][p] >= FAST_FAIL_MISSES => ~Alive(i, p)

\* A link that never failed is never declared dead for
\* silence, however the phases of the two tickers move: an interval may pass without a HELLO, two
\* in a row do not, and FAST_FAIL_MISSES is 2.
NoFalseAlarm ==
    faults = 0 => \A i \in Node : \A p \in Peers(i) : misses[i][p] < FAST_FAIL_MISSES

\* Neither direction between i and p loses frames or is switched off.
Sound(i, p) == /\ <<i, p>> \notin cut /\ <<p, i>> \notin cut
               /\ p \notin file[i] /\ i \notin file[p]

\* Once links and phases stop changing, both ends of every link settle on the truth and
\* stay there: a link is usable at i exactly if it works in both directions.
\* A link cut in one direction only is given up by the end that still hears
\* the other, and a dead link that works again is found again.
Settles == \A i \in Node : \A p \in Peers(i) :
    calm ~> [](Alive(i, p) <=> Sound(i, p))
=============================================================================
