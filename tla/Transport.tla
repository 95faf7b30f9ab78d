----------------------------- MODULE Transport ------------------------------
(***************************************************************************)
(* The generated transport library: congestion_control, flow_control,      *)
(* packet_queue, transport_tx_fsm and adaptive_retry (gen/rust).           *)
(*                                                                         *)
(* The code packs every state into one u32.  Here it is a record, and      *)
(* writing a record takes each field modulo its width, as the masks of the *)
(* create functions do.  The flags 0 and 1 are booleans.  The functions    *)
(* are pure: the state machine is a caller that keeps MAX_FLOWS flows and  *)
(* one queue and applies any operation to any of them at any time, with    *)
(* control messages delayed, lost, duplicated and reordered on the way.    *)
(***************************************************************************)
EXTENDS PackedArrays

MAX_FLOWS == 8
FlowIndex == 0 .. MAX_FLOWS - 1
-----------------------------------------------------------------------------
(* congestion_control *)

INITIAL_WINDOW == 4
MAX_WINDOW == 64
MIN_WINDOW == 2
CONGESTION_THRESHOLD == 3
STATE_SLOW_START == 0
STATE_CONGESTION_AVOIDANCE == 1
STATE_FAST_RECOVERY == 2
STATE_FAST_RETRANSMIT == 3

create_congestion_state(cwnd, ssthresh, state, losses) ==
    [cwnd |-> cwnd % 256, ssthresh |-> ssthresh % 256, state |-> state % 4,
     losses |-> losses % 16384]

initialize_congestion ==
    create_congestion_state(INITIAL_WINDOW, MAX_WINDOW, STATE_SLOW_START, 0)

AtMostMax(w) == IF w > MAX_WINDOW THEN MAX_WINDOW ELSE w
HalfWindow(w) == IF w \div 2 < MIN_WINDOW THEN MIN_WINDOW ELSE w \div 2

on_ack(c) ==
    IF c.state = STATE_SLOW_START
    THEN create_congestion_state(
             AtMostMax(2 * c.cwnd), c.ssthresh,
             IF 2 * c.cwnd >= c.ssthresh THEN STATE_CONGESTION_AVOIDANCE ELSE c.state,
             c.losses)
    ELSE IF c.state = STATE_CONGESTION_AVOIDANCE
    THEN create_congestion_state(AtMostMax(c.cwnd + 1), c.ssthresh, c.state, c.losses)
    ELSE create_congestion_state(
             AtMostMax(c.cwnd), c.ssthresh,
             IF c.state = STATE_FAST_RECOVERY THEN STATE_CONGESTION_AVOIDANCE ELSE c.state,
             c.losses)

on_loss(c) ==
    IF c.losses + 1 >= CONGESTION_THRESHOLD
    THEN create_congestion_state(MIN_WINDOW, HalfWindow(c.cwnd), STATE_SLOW_START, 0)
    ELSE create_congestion_state(c.cwnd, c.ssthresh, c.state, c.losses + 1)

on_triple_dup_ack(c) ==
    create_congestion_state(AtMostMax(HalfWindow(c.cwnd) + 3), HalfWindow(c.cwnd),
                            STATE_FAST_RECOVERY, c.losses)

probe_bandwidth(c) ==
    create_congestion_state(AtMostMax(c.cwnd + 1), c.ssthresh, c.state, c.losses)

reset_after_timeout(c) ==
    create_congestion_state(MIN_WINDOW, HalfWindow(c.cwnd), STATE_SLOW_START, 0)

get_effective_window(c, receiver_window) ==
    IF c.cwnd < receiver_window THEN c.cwnd ELSE receiver_window

is_congested(c) == c.state \in {STATE_FAST_RECOVERY, STATE_FAST_RETRANSMIT}

calculate_sending_rate(c, rtt) == IF rtt > 0 THEN (c.cwnd * 1000) \div rtt ELSE c.cwnd

estimate_bandwidth(c, rtt, packet_size) ==
    IF rtt > 0 THEN (c.cwnd * packet_size) \div rtt ELSE 0

is_any_flow_congested(cs) == \E i \in FlowIndex : is_congested(cs[i])

calculate_total_cwnd(cs) ==
    cs[0].cwnd + cs[1].cwnd + cs[2].cwnd + cs[3].cwnd
      + cs[4].cwnd + cs[5].cwnd + cs[6].cwnd + cs[7].cwnd

OpenFlows(cs) == {i \in FlowIndex : cs[i].cwnd > 0}

allocate_fair_bandwidth(cs, total_bandwidth) ==
    IF OpenFlows(cs) = {} THEN 0 ELSE total_bandwidth \div Cardinality(OpenFlows(cs))

find_congestion_controller(flow_id) == FirstIndex({i \in FlowIndex : i = flow_id}, MAX_FLOWS)
-----------------------------------------------------------------------------
(* flow_control *)

WINDOW_SIZE == 16
CREDIT_THRESHOLD == 4
BACKPRESSURE_THRESHOLD == 12

create_flow_state(sender, receiver, window, credits) ==
    [sender |-> sender % 16, receiver |-> receiver % 16, window |-> window % 256,
     credits |-> credits % 256]

update_credits(f, n) == create_flow_state(f.sender, f.receiver, f.window, n)
has_credits(f) == f.credits > 0
consume_credit(f) == IF has_credits(f) THEN update_credits(f, f.credits - 1) ELSE f

add_credits(f, n) ==
    update_credits(f, IF f.credits + n > f.window THEN f.window ELSE f.credits + n)

(* window - credits: negative where the u32 subtraction of the code        *)
(* underflows.                                                             *)
UsedCredits(f) == f.window - f.credits
is_under_backpressure(f) == UsedCredits(f) >= BACKPRESSURE_THRESHOLD

calculate_backpressure_level(f) ==
    IF UsedCredits(f) >= BACKPRESSURE_THRESHOLD THEN 2
    ELSE IF UsedCredits(f) >= CREDIT_THRESHOLD THEN 1 ELSE 0

(* The sequence number of a message is read by no operation and left out. *)
create_flow_message(type, flow_id, credits) ==
    [type |-> type, flow_id |-> flow_id % 256, credits |-> credits % 256]

process_message(f, m) ==
    IF m.type = "ack" THEN add_credits(f, m.credits)
    ELSE IF m.type = "credit_update" THEN update_credits(f, m.credits) ELSE f

send_data(f) == IF has_credits(f) THEN consume_credit(f) ELSE f
send_ack(f, flow_id) == create_flow_message("ack", flow_id, UsedCredits(f))

find_flow_by_sender(fs, sender) ==
    FirstIndex({i \in FlowIndex : fs[i].sender = sender}, MAX_FLOWS)
find_flow_by_receiver(fs, receiver) ==
    FirstIndex({i \in FlowIndex : fs[i].receiver = receiver}, MAX_FLOWS)
is_any_flow_blocked(fs) == \E i \in FlowIndex : ~has_credits(fs[i])
count_active_flows(fs) == Cardinality({i \in FlowIndex : fs[i].sender # 0})

calculate_total_credits(fs) ==
    fs[0].credits + fs[1].credits + fs[2].credits + fs[3].credits
      + fs[4].credits + fs[5].credits + fs[6].credits + fs[7].credits

apply_backpressure(f) == update_credits(f, f.credits - (f.credits \div 2))
release_backpressure(f) == update_credits(f, f.window)
-----------------------------------------------------------------------------
(* packet_queue: head, tail and count of a ring whose slots the caller     *)
(* keeps.                                                                  *)

QUEUE_SIZE == 8

is_full(q) == q.count >= QUEUE_SIZE
is_empty(q) == q.count = 0
increment_index(idx) == IF idx >= 7 THEN 0 ELSE idx + 1

enqueue(q) ==
    IF is_full(q) THEN q
    ELSE [head |-> q.head, tail |-> increment_index(q.tail), count |-> q.count + 1]

dequeue(q) ==
    IF is_empty(q) THEN q
    ELSE [head |-> increment_index(q.head), tail |-> q.tail, count |-> q.count - 1]

clear == [head |-> 0, tail |-> 0, count |-> 0]
-----------------------------------------------------------------------------
(* transport_tx_fsm and adaptive_retry *)

MAX_RETRIES == 5
BASE_RETRY_MS == 10

next_state(state, frame_ready, ack_received, retries_exceeded) ==
    IF state = "idle" THEN (IF frame_ready THEN "enqueue" ELSE "idle")
    ELSE IF state = "enqueue" THEN "build_hdr"
    ELSE IF state = "build_hdr" THEN "tx_wait"
    ELSE IF state = "tx_wait"
         THEN IF ack_received THEN "acked"
              ELSE IF retries_exceeded THEN "failed" ELSE "tx_wait"
    ELSE "idle"

retry_delay_ms(retry_count, base_ms) ==
    base_ms * (IF retry_count = 0 THEN 1 ELSE IF retry_count = 1 THEN 2
               ELSE IF retry_count = 2 THEN 4 ELSE IF retry_count = 3 THEN 8 ELSE 16)

is_retries_exceeded(retry_count) == retry_count >= MAX_RETRIES

increment_retry(retry_count) ==
    IF retry_count >= MAX_RETRIES THEN MAX_RETRIES ELSE retry_count + 1

backoff_delay_ms(attempt) == IF attempt <= 5 THEN 10 * 2 ^ attempt ELSE 5000

QUALITY_HIGH == 204
QUALITY_MEDIUM == 128

ByQuality(q, high, medium, low) ==
    IF q >= QUALITY_HIGH THEN high ELSE IF q >= QUALITY_MEDIUM THEN medium ELSE low

max_retries_for_quality(q) == ByQuality(q, 5, 3, 1)
should_retry(attempt, q) == attempt < max_retries_for_quality(q)
base_probability(q) == ByQuality(q, 200, 150, 100)

(* The u8 product of base / 4 and the attempt. *)
Decay(attempt, q) == ((base_probability(q) \div 4) * attempt) % 256

retry_success_probability(attempt, q) ==
    IF base_probability(q) > Decay(attempt, q)
    THEN base_probability(q) - Decay(attempt, q) ELSE 10
-----------------------------------------------------------------------------
VARIABLES
    controllers,   \* one congestion state per flow
    flows,         \* one credit state per flow
    messages,      \* control messages ever sent: any may arrive, at any time, again
    queue,         \* head, tail and count of the packet queue
    slots,         \* the packets the caller keeps in the ring, by number
    put, got,      \* packets queued and taken so far
    tx,            \* state of the transmitter
    retries,       \* its retry count
    timeouts       \* timeouts of the frame being transmitted

congestion == <<controllers>>
credit == <<flows, messages>>
ring == <<queue, slots, put, got>>
transmit == <<tx, retries, timeouts>>
transport == <<congestion, credit, ring, transmit>>

TransportInit ==
    /\ controllers = [i \in FlowIndex |-> initialize_congestion]
    /\ flows \in [FlowIndex -> [sender : 0 .. 15, receiver : 0 .. 15,
                                window : {WINDOW_SIZE}, credits : {WINDOW_SIZE}]]
    /\ messages = {}
    /\ queue = clear
    /\ slots = [i \in 0 .. QUEUE_SIZE - 1 |-> 0]
    /\ put = 0 /\ got = 0
    /\ tx = "idle" /\ retries = 0 /\ timeouts = 0

Congest(i) ==
    /\ \E c \in {on_ack(controllers[i]), on_loss(controllers[i]),
                 on_triple_dup_ack(controllers[i]), probe_bandwidth(controllers[i]),
                 reset_after_timeout(controllers[i])} :
           controllers' = [controllers EXCEPT ![i] = c]
    /\ UNCHANGED <<credit, ring, transmit>>

SetFlow(i, f) ==
    /\ flows' = [flows EXCEPT ![i] = f]
    /\ UNCHANGED <<congestion, ring, transmit>>

SendData(i) == SetFlow(i, send_data(flows[i])) /\ UNCHANGED messages

Throttle(i) ==
    /\ \E f \in {apply_backpressure(flows[i]), release_backpressure(flows[i])} : SetFlow(i, f)
    /\ UNCHANGED messages

(* A receiver announces what it can take, never more than the window. *)
Announce(i) ==
    /\ \E m \in {send_ack(flows[i], i)}
             \cup {create_flow_message("credit_update", i, n) : n \in 0 .. WINDOW_SIZE} :
           messages' = messages \cup {m}
    /\ UNCHANGED <<congestion, flows, ring, transmit>>

ReceiveMessage(i, m) == SetFlow(i, process_message(flows[i], m)) /\ UNCHANGED messages

(* The caller writes slots[tail] as it enqueues and reads slots[head] as   *)
(* it dequeues.                                                            *)
Enqueue ==
    /\ queue' = enqueue(queue)
    /\ IF is_full(queue) THEN UNCHANGED <<slots, put>>
       ELSE slots' = [slots EXCEPT ![queue.tail] = put] /\ put' = put + 1
    /\ UNCHANGED <<got, congestion, credit, transmit>>

Dequeue ==
    /\ queue' = dequeue(queue)
    /\ got' = IF is_empty(queue) THEN got ELSE got + 1
    /\ UNCHANGED <<slots, put, congestion, credit, transmit>>

(* A new frame starts with a fresh retry count. *)
Transmit(frame_ready, ack_received) ==
    /\ tx' = next_state(tx, frame_ready, ack_received, is_retries_exceeded(retries))
    /\ IF tx = "idle" THEN retries' = 0 /\ timeouts' = 0 ELSE UNCHANGED <<retries, timeouts>>
    /\ UNCHANGED <<congestion, credit, ring>>

Timeout ==
    /\ tx = "tx_wait"
    /\ retries' = increment_retry(retries)
    /\ timeouts' = timeouts + 1
    /\ UNCHANGED <<tx, congestion, credit, ring>>

TransportNext ==
    \/ \E i \in FlowIndex :
          Congest(i) \/ SendData(i) \/ Throttle(i) \/ Announce(i)
    \/ \E m \in messages : ReceiveMessage(m.flow_id, m)
    \/ Enqueue \/ Dequeue
    \/ \E frame_ready, ack_received \in BOOLEAN : Transmit(frame_ready, ack_received)
    \/ Timeout

TransportSpec == TransportInit /\ [][TransportNext]_transport
-----------------------------------------------------------------------------
(* The windows of every controller stay between MIN_WINDOW and MAX_WINDOW  *)
(* and the loss count below its threshold, so no packed field of           *)
(* create_congestion_state ever loses a bit, and no flow is ever stopped   *)
(* by a zero window.                                                       *)
WindowsBounded ==
    \A i \in FlowIndex :
        /\ controllers[i].cwnd \in MIN_WINDOW .. MAX_WINDOW
        /\ controllers[i].ssthresh \in MIN_WINDOW .. MAX_WINDOW
        /\ controllers[i].losses < CONGESTION_THRESHOLD

(* However the acknowledgements and updates are delayed, repeated and      *)
(* reordered, a flow has no more credits than its window: the subtraction  *)
(* window - credits of is_under_backpressure and send_ack never            *)
(* underflows.                                                             *)
CreditsFitWindow == \A i \in FlowIndex : UsedCredits(flows[i]) >= 0

(* The ring hands packets out in the order they came in: the slot at head  *)
(* holds the oldest packet not yet taken, across any number of wraps.      *)
QueueIsFifo ==
    /\ queue.count = put - got
    /\ ~is_empty(queue) => slots[queue.head] = got

(* The transmitter gives a frame up only after MAX_RETRIES timeouts of     *)
(* that frame, whatever happened to the frames before it.                  *)
FailureIsEarned == tx = "failed" => timeouts >= MAX_RETRIES
=============================================================================
