----------------------------- MODULE NodePolicy -----------------------------
(***************************************************************************)
(* What a node decides about a peer, with the generated libraries          *)
(* quarantine_manager, trust_manager, access_control, key_management,      *)
(* fault_detection and self_healing (gen/rust).                            *)
(*                                                                         *)
(* The code packs every state into one u32.  Here it is a record, and      *)
(* writing a record takes each field modulo its width, as the masks of the *)
(* create functions do.  Answers 0 and 1, and flags of one bit, are        *)
(* booleans.  The functions are pure: the state machine is a caller that   *)
(* watches one peer while time passes by any amount, stores what they      *)
(* return, and acts when and as they advise.                               *)
(***************************************************************************)
EXTENDS PackedArrays

Slot == 0 .. 7
NoIndex == 255
-----------------------------------------------------------------------------
(* quarantine_manager *)

QUARANTINE_DURATION == 1000
VIOLATION_THRESHOLD == 3
QUARANTINE_TRUST == 30
STATUS_NORMAL == 0
STATUS_QUARANTINED == 1
STATUS_SUSPENDED == 2
STATUS_BANNED == 3
MOST_VIOLATIONS == 16383

create_quarantine_state(node, status, start, violations) ==
    [node |-> Low8(node), status |-> status % 4, start |-> Low8(start),
     violations |-> Low14(violations)]

is_quarantined(q) == q.status # STATUS_NORMAL

quarantine_node(q, now) ==
    create_quarantine_state(q.node, STATUS_QUARANTINED, now, q.violations + 1)
release_quarantine(q) == create_quarantine_state(q.node, STATUS_NORMAL, 0, q.violations)
suspend_node(q, now) ==
    create_quarantine_state(q.node, STATUS_SUSPENDED, now, q.violations + 2)
ban_node(q) == create_quarantine_state(q.node, STATUS_BANNED, 0, MOST_VIOLATIONS)

should_release_quarantine(q, now) ==
    q.status = STATUS_QUARANTINED /\ now - q.start >= QUARANTINE_DURATION

update_quarantine_state(q, now) ==
    IF should_release_quarantine(q, now) THEN release_quarantine(q) ELSE q

record_violation(q, violator) ==
    IF q.node # violator THEN q
    ELSE create_quarantine_state(q.node, q.status, q.start, q.violations + 1)

should_quarantine(q) == q.status = STATUS_NORMAL /\ q.violations >= VIOLATION_THRESHOLD

calculate_quarantine_severity(q) ==
    IF q.status = STATUS_BANNED THEN 100
    ELSE IF q.status = STATUS_SUSPENDED THEN 70
    ELSE IF q.status = STATUS_NORMAL THEN 0
    ELSE IF q.violations * 10 > 50 THEN 50 ELSE q.violations * 10

find_quarantined_node(qs, node) == FirstIndex({i \in Slot : qs[i].node = node}, 8)
count_quarantined_nodes(qs) == Cardinality({i \in Slot : is_quarantined(qs[i])})
calculate_health_impact(qs) == (count_quarantined_nodes(qs) * 100) \div 8

is_communication_allowed(q, score) ==
    /\ q.status # STATUS_BANNED
    /\ ~(q.status = STATUS_SUSPENDED /\ score < QUARANTINE_TRUST + 20)
    /\ ~(q.status = STATUS_QUARANTINED /\ score < QUARANTINE_TRUST)

recommend_quarantine_action(q, score) ==
    IF q.status = STATUS_BANNED THEN "keep_banned"
    ELSE IF score < 10 /\ q.violations > 5 THEN "ban"
    ELSE IF q.violations < VIOLATION_THRESHOLD THEN "none"
    ELSE IF score < QUARANTINE_TRUST THEN "suspend" ELSE "quarantine"
-----------------------------------------------------------------------------
(* trust_manager *)

TRUST_THRESHOLD == 50
TRUST_HIGH == 80
TRUST_LOW == 20
MAX_TRUST_SCORE == 100

create_trust_score(node, score, positive, negative) ==
    [node |-> Low8(node), score |-> Low8(score), positive |-> Low8(positive),
     negative |-> Low8(negative)]

calculate_trust_score(positive, negative) ==
    IF positive + negative = 0 THEN 50
    ELSE LET score == (positive * 100) \div (positive + negative)
         IN  IF score > MAX_TRUST_SCORE THEN MAX_TRUST_SCORE ELSE score

update_trust_score(t, positive, negative) ==
    LET p == t.positive + positive
        n == t.negative + negative
    IN  create_trust_score(t.node, calculate_trust_score(p, n), p, n)

penalize_node(t, penalty) == update_trust_score(t, 0, penalty)
reward_node(t, reward) == update_trust_score(t, reward, 0)

is_node_trusted(t) == t.score >= TRUST_THRESHOLD
is_node_highly_trusted(t) == t.score >= TRUST_HIGH
is_node_low_trusted(t) == t.score <= TRUST_LOW

find_most_trusted(ts) ==
    FirstIndex({i \in Slot : ts[i].score > 0 /\ \A j \in Slot : ts[j].score <= ts[i].score},
               NoIndex)

should_route_via_node(ts, i, min_trust) == i \in Slot /\ ts[i].score >= min_trust
-----------------------------------------------------------------------------
(* access_control *)

ROLE_NONE == 0
ROLE_GUEST == 1
ROLE_USER == 2
ROLE_ADMIN == 3

create_node_creds(node, role, token, authorized) ==
    [node |-> Low8(node), role |-> role % 4, token |-> token % 1024,
     authorized |-> authorized]

create_policy(min_role, guest, user, admin) ==
    [min_role |-> min_role % 4, guest |-> guest, user |-> user, admin |-> admin]

role_meets_minimum(role, min_role) == role >= min_role

check_access(policy, role) ==
    /\ role_meets_minimum(role, policy.min_role)
    /\ \/ role = ROLE_GUEST /\ policy.guest
       \/ role = ROLE_USER /\ policy.user
       \/ role = ROLE_ADMIN /\ policy.admin

verify_creds(c, token) == c.authorized /\ c.token = token
authorize_node(c) == create_node_creds(c.node, c.role, c.token, TRUE)
revoke_node(c) == create_node_creds(c.node, c.role, c.token, FALSE)
change_role(c, role) == create_node_creds(c.node, role, c.token, c.authorized)
check_resource_access(c, policy, token) == verify_creds(c, token) /\ check_access(policy, c.role)
-----------------------------------------------------------------------------
(* key_management *)

KeySlot == 0 .. 3
ROTATION_INTERVAL == 30000

create_key_entry(valid, id, value, timestamp) ==
    [valid |-> valid, id |-> Low7(id), value |-> Low16(value), timestamp |-> Low8(timestamp)]

find_key_by_id(keys, id) ==
    FirstIndex({i \in KeySlot : keys[i].id = id /\ keys[i].valid}, NoIndex)

add_key(keys, id, value, now) ==
    LET free == FirstIndex({i \in KeySlot : ~keys[i].valid}, NoIndex)
    IN  IF free = NoIndex THEN keys
        ELSE [keys EXCEPT ![free] = create_key_entry(TRUE, id, value, now)]

invalidate_key(keys, id) ==
    LET i == find_key_by_id(keys, id)
    IN  IF i = NoIndex THEN keys
        ELSE [keys EXCEPT ![i] = create_key_entry(FALSE, keys[i].id, keys[i].value,
                                                  keys[i].timestamp)]

needs_rotation(entry, now) == entry.valid /\ now - entry.timestamp >= ROTATION_INTERVAL

rotate_key(keys, id, value, now) ==
    LET i == find_key_by_id(keys, id)
    IN  IF i = NoIndex THEN keys
        ELSE [keys EXCEPT ![i] = create_key_entry(TRUE, id, value, now)]

(* The last valid key among those with the highest timestamp, 0 if none. *)
get_active_key(keys) ==
    LET valid == {i \in KeySlot : keys[i].valid}
        newest == {i \in valid : \A j \in valid : keys[j].timestamp <= keys[i].timestamp}
    IN  IF valid = {} THEN 0
        ELSE keys[CHOOSE i \in newest : \A j \in newest : j <= i].value

count_valid_keys(keys) == Cardinality({i \in KeySlot : keys[i].valid})
-----------------------------------------------------------------------------
(* fault_detection *)

FAILURE_THRESHOLD == 3
WARNING_THRESHOLD == 2
HEARTBEAT_TIMEOUT == 10000
LINK_QUALITY_POOR == 30

create_node_state(alive, failures, heartbeat, quality) ==
    [alive |-> alive, failures |-> Low7(failures), heartbeat |-> Low16(heartbeat),
     quality |-> Low8(quality)]

is_heartbeat_timeout(n, now) == now - n.heartbeat >= HEARTBEAT_TIMEOUT
detect_node_failure(n, now) == is_heartbeat_timeout(n, now)
increment_failure_count(n) ==
    create_node_state(n.alive, n.failures + 1, n.heartbeat, n.quality)
reset_failure_count(n, now) == create_node_state(n.alive, 0, now, n.quality)
is_node_failed(n) == n.failures >= FAILURE_THRESHOLD
is_node_warning(n) == n.failures >= WARNING_THRESHOLD /\ n.failures < FAILURE_THRESHOLD
is_poor_link(n) == n.quality < LINK_QUALITY_POOR
update_link_quality(n, quality) == create_node_state(n.alive, n.failures, n.heartbeat, quality)
mark_node_dead(n) == create_node_state(FALSE, n.failures, n.heartbeat, n.quality)
mark_node_alive(n, now) == create_node_state(TRUE, 0, now, n.quality)
count_failed_nodes(ns) == Cardinality({i \in Slot : is_node_failed(ns[i])})
-----------------------------------------------------------------------------
(* self_healing *)

RECOVERY_COOLDOWN == 5000
MAX_RECOVERY_ATTEMPTS == 3

create_recovery_state(attempts, last, in_progress, successes) ==
    [attempts |-> attempts % 16, last |-> Low16(last), in_progress |-> in_progress,
     successes |-> Low8(successes)]

can_recover(r, now) ==
    /\ r.attempts < MAX_RECOVERY_ATTEMPTS
    /\ ~r.in_progress
    /\ now - r.last >= RECOVERY_COOLDOWN

start_recovery(r, now) == create_recovery_state(r.attempts, now, TRUE, r.successes)
complete_recovery_success(r) ==
    create_recovery_state(r.attempts, r.last, FALSE, r.successes + 1)
complete_recovery_failure(r) ==
    create_recovery_state(r.attempts + 1, r.last, FALSE, r.successes)
reset_recovery == create_recovery_state(0, 0, FALSE, 0)
is_recovery_failed(r) == r.attempts >= MAX_RECOVERY_ATTEMPTS

create_network_state(healthy, total, degraded, links) ==
    [healthy |-> Low8(healthy), total |-> Low8(total), degraded |-> Low8(degraded),
     links |-> Low8(links)]

network_health_percent(s) == IF s.total = 0 THEN 100 ELSE (s.healthy * 100) \div s.total
is_network_healthy(s) == network_health_percent(s) >= 75
is_network_degraded(s) == network_health_percent(s) >= 50 /\ network_health_percent(s) < 75
is_network_critical(s) == network_health_percent(s) < 50

should_initiate_healing(r, s, now) ==
    IF is_network_healthy(s) THEN "no" ELSE IF can_recover(r, now) THEN "now" ELSE "wait"

update_network_after_recovery(s, nodes, links) ==
    create_network_state(s.healthy + nodes, s.total, s.degraded - links, s.links)
-----------------------------------------------------------------------------
VARIABLES
    clock,       \* the caller's time, a u32 that does not wrap here
    standing,    \* quarantine state of the peer
    since,       \* when its last quarantine began
    trust,       \* trust score of the peer
    peer,        \* fault state of the peer
    misses,      \* failures detected since it was last heard
    healing,     \* recovery state of the network
    begun,       \* when its last recovery began, 0 after a reset
    losses,      \* recoveries that failed since the last reset
    keys         \* the key store

isolation == <<standing, since>>
faults == <<peer, misses>>
recovery == <<healing, begun, losses>>
policy == <<clock, isolation, trust, faults, recovery, keys>>

PolicyInit ==
    /\ clock \in Nat
    /\ \E node \in 0 .. 255 : standing = create_quarantine_state(node, STATUS_NORMAL, 0, 0)
    /\ since = 0
    /\ trust = create_trust_score(standing.node, 50, 0, 0)
    /\ \E quality \in 0 .. 255 : peer = create_node_state(TRUE, 0, clock, quality)
    /\ misses = 0
    /\ healing = reset_recovery /\ begun = 0 /\ losses = 0
    /\ keys = [i \in KeySlot |-> create_key_entry(FALSE, 0, 0, 0)]

Pass(d) ==
    /\ clock' = clock + d
    /\ UNCHANGED <<isolation, trust, faults, recovery, keys>>

Violate(violator) ==
    /\ standing' = record_violation(standing, violator)
    /\ UNCHANGED <<clock, since, trust, faults, recovery, keys>>

(* The caller carries out what recommend_quarantine_action advises. *)
Enforce ==
    LET advice == recommend_quarantine_action(standing, trust.score)
    IN  /\ \/ advice \in {"none", "keep_banned"} /\ UNCHANGED isolation
           \/ /\ advice = "quarantine"
              /\ standing' = quarantine_node(standing, clock)
              /\ since' = clock
           \/ advice = "suspend" /\ standing' = suspend_node(standing, clock) /\ UNCHANGED since
           \/ advice = "ban" /\ standing' = ban_node(standing) /\ UNCHANGED since
        /\ UNCHANGED <<clock, trust, faults, recovery, keys>>

Refresh ==
    /\ standing' = update_quarantine_state(standing, clock)
    /\ UNCHANGED <<clock, since, trust, faults, recovery, keys>>

Interact(positive, negative) ==
    /\ trust' = update_trust_score(trust, positive, negative)
    /\ UNCHANGED <<clock, isolation, faults, recovery, keys>>

Beat ==
    /\ peer' \in {mark_node_alive(peer, clock), reset_failure_count(peer, clock)}
    /\ misses' = 0
    /\ UNCHANGED <<clock, isolation, trust, recovery, keys>>

Probe ==
    /\ detect_node_failure(peer, clock)
    /\ peer' = increment_failure_count(peer)
    /\ misses' = misses + 1
    /\ UNCHANGED <<clock, isolation, trust, recovery, keys>>

Bury ==
    /\ is_node_failed(peer)
    /\ peer' = mark_node_dead(peer)
    /\ UNCHANGED <<clock, isolation, trust, misses, recovery, keys>>

Measure(quality) ==
    /\ peer' = update_link_quality(peer, quality)
    /\ UNCHANGED <<clock, isolation, trust, misses, recovery, keys>>

(* The network is in some state s when the caller asks. *)
Heal(s) ==
    /\ should_initiate_healing(healing, s, clock) = "now"
    /\ healing' = start_recovery(healing, clock)
    /\ begun' = clock
    /\ UNCHANGED <<clock, isolation, trust, faults, losses, keys>>

Healed(ok) ==
    /\ healing.in_progress
    /\ healing' = IF ok THEN complete_recovery_success(healing)
                   ELSE complete_recovery_failure(healing)
    /\ losses' = IF ok THEN losses ELSE losses + 1
    /\ UNCHANGED <<clock, isolation, trust, faults, begun, keys>>

Restart ==
    /\ is_recovery_failed(healing)
    /\ healing' = reset_recovery /\ begun' = 0 /\ losses' = 0
    /\ UNCHANGED <<clock, isolation, trust, faults, keys>>

AddKey(id, value) ==
    /\ keys' = add_key(keys, id, value, clock)
    /\ UNCHANGED <<clock, isolation, trust, faults, recovery>>

ChangeKey(id, value) ==
    /\ keys' \in {invalidate_key(keys, id), rotate_key(keys, id, value, clock)}
    /\ UNCHANGED <<clock, isolation, trust, faults, recovery>>

PolicyNext ==
    \/ \E d \in Nat : Pass(d)
    \/ \E violator \in 0 .. 255 : Violate(violator)
    \/ Enforce \/ Refresh
    \/ \E positive, negative \in Nat : Interact(positive, negative)
    \/ Beat \/ Probe \/ Bury
    \/ \E quality \in Nat : Measure(quality)
    \/ \E s \in [healthy : 0 .. 255, total : 0 .. 255] : Heal(s)
    \/ \E ok \in BOOLEAN : Healed(ok)
    \/ Restart
    \/ \E id, value \in Nat : AddKey(id, value) \/ ChangeKey(id, value)

PolicySpec == PolicyInit /\ [][PolicyNext]_policy
-----------------------------------------------------------------------------
(* A ban is permanent: no violation, release or advice that follows lifts  *)
(* it, although recording one more violation wraps the saturated count of  *)
(* ban_node to zero.                                                       *)
BansHold == [][standing.status = STATUS_BANNED => standing'.status = STATUS_BANNED]_policy

(* The quarantine clock keeps eight bits of the starting time.  A          *)
(* quarantine never lasts longer than QUARANTINE_DURATION, and one that    *)
(* began before time 256 never less; a later one is due for release        *)
(* early, by exactly the bits that were dropped.                           *)
QuarantineEnds ==
    standing.status = STATUS_QUARANTINED =>
        /\ clock - since >= QUARANTINE_DURATION => should_release_quarantine(standing, clock)
        /\ should_release_quarantine(standing, clock)
              => clock - since >= QUARANTINE_DURATION - (since - Low8(since))

(* A trust score is a percentage, whatever the interactions were and       *)
(* however often the counters of eight bits wrapped.                       *)
TrustIsPercentage == trust.score \in 0 .. MAX_TRUST_SCORE

(* A peer is failed exactly when FAILURE_THRESHOLD failures were detected  *)
(* with no sign of life between them, until the count of seven bits wraps: *)
(* the 128th detection in a row makes it look sound again.                 *)
FailedIsSilent ==
    /\ is_node_failed(peer) => misses >= FAILURE_THRESHOLD
    /\ misses \in FAILURE_THRESHOLD .. 127 => is_node_failed(peer)

(* A recovery starts only while fewer than MAX_RECOVERY_ATTEMPTS have      *)
(* failed since the last reset (those that succeed are not counted), and   *)
(* RECOVERY_COOLDOWN after the one before began less the bits of that time *)
(* that were dropped: sixteen are kept, so one that began at 65536 or      *)
(* later is followed without any pause.                                    *)
RecoveriesSpaced ==
    [][~healing.in_progress /\ healing'.in_progress =>
          /\ losses < MAX_RECOVERY_ATTEMPTS
          /\ clock - begun >= RECOVERY_COOLDOWN - (begun - Low16(begun))]_policy

(* add_key does not ask whether the identifier is in use, so two valid     *)
(* keys may share one.  No valid key is lost to an addition: one changes   *)
(* only by rotate_key or invalidate_key under its own identifier, and only *)
(* when it is the first with it; a second one is out of reach until then.  *)
KeysChangeInOrder ==
    [][\A i \in KeySlot : keys[i].valid /\ keys'[i] # keys[i] =>
          /\ keys'[i].id = keys[i].id
          /\ \A j \in KeySlot : keys[j].valid /\ keys[j].id = keys[i].id => i <= j]_policy
=============================================================================
