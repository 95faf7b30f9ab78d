----------------------------- MODULE NodeHealth -----------------------------
(***************************************************************************)
(* How a node judges its own health and that of the network: the generated *)
(* libraries health_monitoring, anomaly_detector and health_dashboard      *)
(* (gen/rust).                                                             *)
(*                                                                         *)
(* All of it is pure: arrays of packed words are functions of records, a   *)
(* loop that counts is the cardinality of the set it counts, and the       *)
(* answers 0 and 1 are booleans.  The timestamps that are stored and never *)
(* read are left out, except where a zero word is special.                 *)
(***************************************************************************)
EXTENDS PackedArrays

(* The sum of f[0] to f[n - 1]. *)
SumTo(f, n) ==
    LET sum[i \in 0 .. n] == IF i = 0 THEN 0 ELSE sum[i - 1] + f[i - 1] IN sum[n]

Count(n, P) == Cardinality({i \in 0 .. n - 1 : P[i]})
Distance(a, b) == IF a > b THEN a - b ELSE b - a
-----------------------------------------------------------------------------
(* health_monitoring: eight checks of the node itself. *)

Check == 0 .. 7
RESULT_PASS == 0
RESULT_WARN == 1
RESULT_FAIL == 2
RESULT_SKIP == 3
CHECK_CPU == 0
CHECK_MEMORY == 1

create_health_check(type, result, value) ==
    [type |-> type % 16, result |-> result % 4, value |-> Low8(value)]

(* An index beyond the array writes the last entry. *)
update_health_check(cs, i, c) == [cs EXCEPT ![IF i < 7 THEN i ELSE 7] = c]

With(cs, result) == {i \in Check : cs[i].result = result}
count_failed_checks(cs) == Cardinality(With(cs, RESULT_FAIL))
count_warning_checks(cs) == Cardinality(With(cs, RESULT_WARN))

calculate_overall_health(cs) ==
    IF count_failed_checks(cs) > 0 THEN "critical"
    ELSE IF count_warning_checks(cs) >= 3 THEN "warning" ELSE "healthy"

(* Only the checks of processor and memory are ever looked up. *)
is_check_failing(cs, type) ==
    \/ type = CHECK_CPU /\ cs[0].type = CHECK_CPU /\ cs[0].result = RESULT_FAIL
    \/ type = CHECK_MEMORY /\ cs[1].type = CHECK_MEMORY /\ cs[1].result = RESULT_FAIL

get_health_percentage(cs) ==
    LET counted == Check \ With(cs, RESULT_SKIP)
    IN  IF counted = {} THEN 100
        ELSE (Cardinality(counted \ With(cs, RESULT_FAIL)) * 100) \div Cardinality(counted)
-----------------------------------------------------------------------------
(* anomaly_detector: a history of readings of one metric and the current   *)
(* one.  A reading is its metric and its value; h is the function of the   *)
(* values of the first n readings.                                         *)

BASELINE_WINDOW == 8
ANOMALY_THRESHOLD == 30
SEVERITY_HIGH == 80
SEVERITY_MEDIUM == 50
TYPE_SPIKE == 0
TYPE_DROP == 1
TYPE_PATTERN == 2
TYPE_TREND == 3

create_anomaly_report(metric, severity, type, confidence) ==
    [metric |-> Low8(metric), severity |-> Low8(severity), type |-> type % 4,
     confidence |-> Low14(confidence)]

(* The zero word that stands for no anomaly. *)
NoAnomaly == create_anomaly_report(0, 0, 0, 0)

calculate_baseline(h, n) == IF n > 0 THEN SumTo(h, n) \div n ELSE 0

calculate_variance(h, n, baseline) ==
    IF n > 0 THEN SumTo([i \in 0 .. n - 1 |-> Distance(h[i], baseline)], n) \div n ELSE 0

Tolerance(variance) == IF variance > 0 THEN variance * 3 ELSE ANOMALY_THRESHOLD
detect_spike(current, baseline, variance) ==
    current > baseline /\ current - baseline > Tolerance(variance)
detect_drop(current, baseline, variance) ==
    current < baseline /\ baseline - current > Tolerance(variance)

detect_pattern(h, n) ==
    /\ n >= 4
    /\ Count(n - 2, [i \in 0 .. n - 3 |->
                       \/ h[i] > h[i + 1] /\ h[i + 1] < h[i + 2]
                       \/ h[i] < h[i + 1] /\ h[i + 1] > h[i + 2]]) >= 2

Rises(h, n) == Count(n - 1, [i \in 0 .. n - 2 |-> h[i + 1] > h[i]])
Falls(h, n) == Count(n - 1, [i \in 0 .. n - 2 |-> h[i + 1] < h[i]])

detect_trend(h, n) ==
    LET total == Rises(h, n) + Falls(h, n)
    IN  /\ n >= 4 /\ total > 0
        /\ (Rises(h, n) * 100) \div total > 80 \/ (Falls(h, n) * 100) \div total > 80

calculate_severity(current, baseline) ==
    IF Distance(current, baseline) > SEVERITY_HIGH THEN 90
    ELSE IF Distance(current, baseline) > SEVERITY_MEDIUM THEN 60 ELSE 30

(* A report is made only if the type is not 0, the code of a spike. *)
detect_anomaly(h, n, metric, current) ==
    LET baseline == calculate_baseline(h, n)
        variance == calculate_variance(h, n, baseline)
        type == IF detect_spike(current, baseline, variance) THEN TYPE_SPIKE
                ELSE IF detect_drop(current, baseline, variance) THEN TYPE_DROP
                ELSE IF detect_pattern(h, n) THEN TYPE_PATTERN
                ELSE IF detect_trend(h, n) THEN TYPE_TREND ELSE 0
        severity == IF type = TYPE_PATTERN THEN 50 ELSE IF type = TYPE_TREND THEN 40
                    ELSE calculate_severity(current, baseline)
    IN  IF n < BASELINE_WINDOW \/ type = 0 THEN NoAnomaly
        ELSE create_anomaly_report(metric, severity, type, 80)

is_critical_anomaly(r) == r.severity >= SEVERITY_HIGH

get_anomaly_description(r) ==
    IF r.type = TYPE_SPIKE THEN "spike" ELSE IF r.type = TYPE_DROP THEN "drop"
    ELSE IF r.type = TYPE_PATTERN THEN "pattern" ELSE "trend"

correlate_metrics(h1, h2, n) ==
    IF n < 4 THEN 0
    ELSE (Count(n - 1, [i \in 0 .. n - 2 |->
                          \/ h1[i + 1] > h1[i] /\ h2[i + 1] > h2[i]
                          \/ h1[i + 1] < h1[i] /\ h2[i + 1] < h2[i]]) * 100) \div (n - 1)

detect_coordinated_attack(rs, n) == Count(n, [i \in 0 .. n - 1 |-> is_critical_anomaly(rs[i])]) >= 2

calculate_anomaly_confidence(r, historical) ==
    LET weighted == (r.severity * 30) \div 100 + (r.confidence * 50) \div 100
                      + (historical * 20) \div 100
    IN  IF weighted > 100 THEN 100 ELSE weighted
-----------------------------------------------------------------------------
(* health_dashboard *)

ALERT_THRESHOLD == 70
CRITICAL_THRESHOLD == 90
HEALTH_UPDATE_INTERVAL == 1000

create_health_metric(node, type, value, timestamp) ==
    [node |-> Low8(node), type |-> Low8(type), value |-> Low8(value),
     timestamp |-> Low8(timestamp)]
ZeroMetric == create_health_metric(0, 0, 0, 0)

Load(m) == m.type \in {0, 1}             \* processor, memory
Resource(m) == m.type \in {2, 6, 7}      \* bandwidth, link quality, battery
Impairment(m) == m.type \in {3, 4, 5}    \* latency, packet loss, error rate

(* The loops read a list up to the first word that is zero. *)
Listed(ms, n) == {i \in 0 .. n - 1 : \A j \in 0 .. i : ms[j] # ZeroMetric}

MetricScore(m) ==
    IF Load(m) \/ Impairment(m) THEN (IF m.value < 100 THEN 100 - m.value ELSE 0)
    ELSE IF Resource(m) THEN m.value ELSE 50

calculate_node_health(ms, n) ==
    LET k == Cardinality(Listed(ms, n))
    IN  IF k = 0 THEN 100 ELSE SumTo([i \in 0 .. k - 1 |-> MetricScore(ms[i])], k) \div k

calculate_network_health(healths, n) == IF n = 0 THEN 100 ELSE SumTo(healths, n) \div n

Critical(m) ==
    \/ (Load(m) \/ Impairment(m)) /\ m.value > CRITICAL_THRESHOLD
    \/ Resource(m) /\ m.value < 100 - CRITICAL_THRESHOLD

Warning(m) ==
    \/ /\ Load(m) \/ Impairment(m)
       /\ m.value > ALERT_THRESHOLD /\ m.value <= CRITICAL_THRESHOLD
    \/ /\ Resource(m)
       /\ m.value < 100 - ALERT_THRESHOLD /\ m.value >= 100 - CRITICAL_THRESHOLD

detect_critical_issues(ms, n) == Cardinality({i \in Listed(ms, n) : Critical(ms[i])})
detect_warning_issues(ms, n) == Cardinality({i \in Listed(ms, n) : Warning(ms[i])})

create_health_score(overall, critical, warning) ==
    [overall |-> Low8(overall), critical |-> Low8(critical), warning |-> Low8(warning)]

generate_health_report(ms, n) ==
    create_health_score(calculate_node_health(ms, n), detect_critical_issues(ms, n),
                        detect_warning_issues(ms, n))

(* The severity of an alert does not depend on what is measured. *)
generate_alert(node, type, value) ==
    [node |-> Low8(node), type |-> type % 16,
     severity |-> IF value > CRITICAL_THRESHOLD \/ value < 100 - CRITICAL_THRESHOLD THEN 3
                  ELSE IF value > ALERT_THRESHOLD \/ value < 100 - ALERT_THRESHOLD THEN 2
                  ELSE 1]

analyze_health_trend(current, previous) ==
    IF current > previous THEN (IF current - previous > 10 THEN "rising" ELSE "better")
    ELSE IF current < previous THEN (IF previous - current > 10 THEN "falling" ELSE "worse")
    ELSE "steady"

find_unhealthy_nodes(healths, threshold) == Cardinality({i \in Check : healths[i] < threshold})

calculate_network_trend(current, previous, n) ==
    LET trend(T) == Count(n, [i \in 0 .. n - 1 |->
                                analyze_health_trend(current[i], previous[i]) \in T])
        improving == trend({"better", "rising"})
        degrading == trend({"worse", "falling"})
    IN  IF degrading > improving THEN "degrading"
        ELSE IF improving > degrading THEN "improving" ELSE "stable"

is_monitoring_active(last_update, now) == now - last_update < HEALTH_UPDATE_INTERVAL * 3
calculate_uptime(up, total) == IF total > 0 THEN (up * 100) \div total ELSE 100
=============================================================================
