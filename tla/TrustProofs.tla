---------------------------- MODULE TrustProofs -----------------------------
(***************************************************************************)
(* Proofs about who a node and the call service listen to, and about the   *)
(* policies a node applies: RequestAuth, NodePolicy, Transport and         *)
(* NodeHealth.                                                             *)
(*                                                                         *)
(* RequestAuth: AuthInv is inductive. Its heart is NonceKept: a thread     *)
(* purges by a clock that is not ahead of the present one, so it never     *)
(* removes the row of a request that is still fresh.                       *)
(*                                                                         *)
(* NodePolicy: PolicyInv joins one invariant per library, each of which    *)
(* says what the packed fields of that library can still tell (an          *)
(* eight-bit start time, a seven-bit count, a key with a used flag).       *)
(*                                                                         *)
(* Transport: TransportInv says that the windows, the credits and the      *)
(* retries stay in their ranges, and that the ring of packets is the       *)
(* stretch of the stream between what was taken out and what was put in.   *)
(***************************************************************************)
EXTENDS RequestAuth, NodePolicy, Transport, NodeHealth, FiniteSetTheorems, TLAPS

\* A row that has not expired by the present clock survives every purge.
LEMMA PurgeKeeps ==
    ASSUME TypeOK, NEW h \in stamped, NEW w \in nonces, now <= w.expires_at
    PROVE  w \in Purged(h.now)
<1>1. h.now \in Int /\ h.now <= now /\ now \in Int
  BY AuthAssumption DEF TypeOK, Time
<1>2. w.expires_at \in Int
  BY AuthAssumption DEF TypeOK, NonceRow
<1> QED BY <1>1, <1>2 DEF Purged

(* The row of a request is a row of the nonce table. *)
LEMMA NewRowType ==
    ASSUME NEW r \in Request
    PROVE  /\ NewRow(r) \in NonceRow
           /\ NewRow(r).device = r.device /\ NewRow(r).nonce = r.nonce
           /\ NewRow(r).expires_at = r.signed_at + TTL
           /\ r.signed_at \in Int /\ r.signed_at + TTL \in Int
<1>1. r.signed_at \in Int /\ r.signed_at >= 0 /\ r.signed_at <= MaxTime
  BY AuthAssumption DEF Request, Time
<1>2. r.device \in Device /\ r.nonce \in Nonce
  BY Zenon DEF Request
<1>3. r.signed_at + TTL \in 0 .. MaxTime + TTL
  BY <1>1, AuthAssumption
<1> QED BY <1>1, <1>2, <1>3, AuthAssumption DEF NewRow, NonceRow

(* AuthInv holds initially. *)
LEMMA InitAuth == Init => AuthInv
<1> SUFFICES ASSUME Init PROVE AuthInv
  BY Zenon
<1>1. TypeOK
  BY AuthAssumption DEF Init, TypeOK, Time
<1> QED BY <1>1 DEF Init, AuthInv, NonceKept, RowsAreOfAccepted, AcceptedOnceWhileFresh

(* Every step keeps the types. *)
LEMMA TypeStep == TypeOK /\ [Next]_vars => TypeOK'
<1> SUFFICES ASSUME TypeOK, [Next]_vars PROVE TypeOK'
  BY Zenon
<1>0. now \in Int /\ 0 <= now /\ now <= MaxTime /\ MaxTime \in Int
  BY AuthAssumption DEF TypeOK, Time
<1>1. ASSUME NEW d \in Device, NEW n \in Nonce, NEW t \in Time, NEW b \in BOOLEAN,
             Sign(d, n, t, b)
      PROVE  TypeOK'
  <2>1. signed' \subseteq Request /\ signed \subseteq signed'
    BY <1>1, Zenon DEF Sign, TypeOK, Request
  <2> QED BY <1>1, <2>1, Zenon DEF Sign, TypeOK
<1>2. ASSUME NEW r \in signed, Receive(r) PROVE TypeOK'
  <2>1. now \in 0 .. now
    BY <1>0
  <2>2. [req |-> r, now |-> now] \in [req : signed, now : 0 .. now]
    BY <2>1, Zenon
  <2> QED BY <1>2, <2>2, Zenon DEF Receive, TypeOK
<1>3. ASSUME NEW h \in stamped, authenticate(h) PROVE TypeOK'
  <2>1. h.req \in Request
    BY Zenon DEF TypeOK
  <2>2. nonces' \subseteq NonceRow
    BY <1>3, <2>1, NewRowType, Zenon DEF authenticate, Purged, TypeOK
  <2>3. accepted' \in [Request -> 0 .. 2]
    BY <1>3, <2>1 DEF authenticate, TypeOK
  <2> QED BY <1>3, <2>2, <2>3, Zenon DEF authenticate, TypeOK
<1>4. ASSUME NEW d \in Device, register_device(d) \/ revoke_device(d) PROVE TypeOK'
  BY <1>4, Zenon DEF register_device, revoke_device, TypeOK
<1>5. CASE Tick
  <2>1. now' \in Time /\ 0 .. now \subseteq 0 .. now'
    BY <1>0, <1>5 DEF Tick, Time
  <2> QED BY <1>5, <2>1, Zenon DEF Tick, TypeOK
<1>6. CASE UNCHANGED vars
  BY <1>6, Zenon DEF vars, TypeOK
<1> QED BY <1>1, <1>2, <1>3, <1>4, <1>5, <1>6, Zenon DEF Next

(* Every step keeps AuthInv. *)
LEMMA StepAuth == AuthInv /\ [Next]_vars => AuthInv'
<1> SUFFICES ASSUME AuthInv, [Next]_vars PROVE AuthInv'
  BY Zenon
<1> USE DEF AuthInv
<1>0. TypeOK'
  BY TypeStep, Zenon
<1>t. now \in Int /\ accepted \in [Request -> 0 .. 2] /\ signed \subseteq Request
  BY AuthAssumption DEF TypeOK, Time
<1>1. ASSUME NEW d \in Device, NEW n \in Nonce, NEW t \in Time, NEW b \in BOOLEAN,
             Sign(d, n, t, b)
      PROVE  AuthInv'
  <2>1. NonceKept' /\ AcceptedOnceWhileFresh'
    BY <1>1, Zenon DEF Sign, NonceKept, AcceptedOnceWhileFresh, NewRow
  <2>2. RowsAreOfAccepted'
    BY <1>1 DEF Sign, RowsAreOfAccepted, NewRow
  <2> QED BY <1>0, <2>1, <2>2, Zenon
<1>2. ASSUME NEW r \in signed, Receive(r) PROVE AuthInv'
  BY <1>0, <1>2, Zenon DEF Receive, NonceKept, AcceptedOnceWhileFresh, RowsAreOfAccepted, NewRow
<1>3. ASSUME NEW h \in stamped, authenticate(h) PROVE AuthInv'
  <2>1. h.req \in Request /\ h.req \in signed
    BY Zenon DEF TypeOK
  <2>2. nonces' = Purged(h.now) \cup {NewRow(h.req)} /\ now' = now /\ signed' = signed
        /\ accepted' = [accepted EXCEPT ![h.req] = IF @ = 0 THEN 1 ELSE 2]
        /\ ~Used(h.req, h.now)
    BY <1>3, Zenon DEF authenticate
  <2>3. ASSUME NEW r \in Request, accepted[r] > 0, now <= r.signed_at + TTL
        PROVE  NewRow(r) \in Purged(h.now)
    BY <2>3, PurgeKeeps, NewRowType, Zenon DEF NonceKept
  <2>4. NonceKept'
    <3> SUFFICES ASSUME NEW r \in Request, accepted'[r] > 0, now <= r.signed_at + TTL
                 PROVE  NewRow(r) \in nonces'
      BY <2>2, Zenon DEF NonceKept, NewRow
    <3>1. CASE r = h.req
      BY <3>1, <2>2, Zenon
    <3>2. CASE r # h.req
      BY <3>2, <2>1, <2>2, <2>3, <1>t, Zenon
    <3> QED BY <3>1, <3>2, Zenon
  <2>5. AcceptedOnceWhileFresh'
    <3> SUFFICES ASSUME NEW r \in Request, accepted'[r] = 2, now <= r.signed_at + TTL
                 PROVE  FALSE
      BY <2>2, <1>t, NewRowType DEF AcceptedOnceWhileFresh
    <3>1. accepted[r] > 0
      BY <2>1, <2>2, <1>t
    <3>2. NewRow(r) \in Purged(h.now)
      BY <3>1, <2>3, Zenon
    <3>3. r # h.req
      BY <3>2, <2>2, NewRowType, Zenon DEF Used
    <3> QED BY <3>3, <2>1, <2>2, <1>t, NewRowType DEF AcceptedOnceWhileFresh
  <2>6. RowsAreOfAccepted'
    <3>1. ASSUME NEW w \in nonces'
          PROVE  \E r \in signed : accepted'[r] > 0 /\ NewRow(r) = w
      <4>1. CASE w = NewRow(h.req)
        BY <4>1, <2>1, <2>2, <1>t
      <4>2. CASE w \in Purged(h.now)
        <5>1. PICK r \in signed : accepted[r] > 0 /\ NewRow(r) = w
          BY <4>2, Zenon DEF Purged, RowsAreOfAccepted
        <5> QED BY <5>1, <2>1, <2>2, <1>t
      <4> QED BY <3>1, <4>1, <4>2, <2>2, Zenon
    <3> QED BY <3>1, <2>2, Zenon DEF RowsAreOfAccepted, NewRow
  <2> QED BY <1>0, <2>4, <2>5, <2>6, Zenon
<1>4. ASSUME NEW d \in Device, register_device(d) \/ revoke_device(d) PROVE AuthInv'
  BY <1>0, <1>4, Zenon DEF register_device, revoke_device, NonceKept, AcceptedOnceWhileFresh,
                    RowsAreOfAccepted, NewRow
<1>5. CASE Tick
  <2>0. now' = now + 1 /\ nonces' = nonces /\ accepted' = accepted
    BY <1>5, Zenon DEF Tick
  <2>n. \A r \in Request : r.signed_at + TTL \in Int
    BY NewRowType, Zenon
  <2>1. NonceKept' /\ AcceptedOnceWhileFresh'
    <3>1. NonceKept'
      BY <2>0, <2>n, <1>t DEF NonceKept, NewRow
    <3> QED BY <3>1, <2>0, <2>n, <1>t DEF AcceptedOnceWhileFresh
  <2> QED BY <1>0, <1>5, <2>1, Zenon DEF Tick, RowsAreOfAccepted, NewRow
<1>6. CASE UNCHANGED vars
  BY <1>0, <1>6, Zenon DEF vars, NonceKept, AcceptedOnceWhileFresh, RowsAreOfAccepted, NewRow
<1> QED BY <1>1, <1>2, <1>3, <1>4, <1>5, <1>6, Zenon DEF Next

(* FirstDeliveryIsNoReplay follows from AuthInv. *)
LEMMA FirstFollows == AuthInv => FirstDeliveryIsNoReplay
<1> SUFFICES ASSUME AuthInv, NEW h \in stamped, accepted[h.req] = 0,
                    NEW w \in Purged(h.now),
                    w.device = h.req.device, w.nonce = h.req.nonce
             PROVE  FALSE
  BY Zenon DEF FirstDeliveryIsNoReplay, Used
<1>1. h.req \in signed
  BY Zenon DEF AuthInv, TypeOK
<1>2. PICK r \in signed : accepted[r] > 0 /\ NewRow(r) = w
  BY Zenon DEF AuthInv, RowsAreOfAccepted, Purged
<1>3. r.device = w.device /\ r.nonce = w.nonce
  BY <1>2, NewRowType, Zenon DEF AuthInv, TypeOK
<1> QED BY <1>1, <1>2, <1>3 DEF AuthInv, RowsAreOfAccepted

(* The nonce table keeps what authenticate() relies on, for every TTL,     *)
(* skew and number of threads.                                             *)
THEOREM AuthInvariant == Spec => []AuthInv
BY InitAuth, StepAuth, PTL DEF Spec

(* A request is answered at most once while its signature is fresh: the    *)
(* clock authenticate() reads before the lock may be late but not early.   *)
THEOREM ReplaysWaitForExpiry == Spec => []AcceptedOnceWhileFresh
<1>1. AuthInv => AcceptedOnceWhileFresh
  BY Zenon DEF AuthInv
<1> QED BY <1>1, AuthInvariant, PTL

(* A request judged fresh and not answered before is never refused as a    *)
(* replay.                                                                 *)
THEOREM FirstDeliveryPasses == Spec => []FirstDeliveryIsNoReplay
BY FirstFollows, AuthInvariant, PTL
-----------------------------------------------------------------------------
(* NodePolicy: isolation, trust, faults, recovery and keys. *)

IsolationInv ==
    /\ standing \in [node : Nat, status : 0 .. 3, start : Nat, violations : Nat]
    /\ since \in Nat /\ since <= clock
    /\ standing.status = STATUS_QUARANTINED => standing.start = Low8(since)

TrustInv == trust \in [node : Nat, score : 0 .. 100, positive : Nat, negative : Nat]

FaultInv ==
    /\ peer \in [alive : BOOLEAN, failures : 0 .. 127, heartbeat : Nat, quality : Nat]
    /\ misses \in Nat /\ peer.failures = Low7(misses)

RecoveryInv ==
    /\ healing \in [attempts : 0 .. 3, last : Nat, in_progress : BOOLEAN, successes : Nat]
    /\ begun \in Nat /\ begun <= clock /\ healing.last = Low16(begun)
    /\ losses = healing.attempts
    /\ healing.in_progress => healing.attempts < MAX_RECOVERY_ATTEMPTS

KeyEntry == [valid : BOOLEAN, id : 0 .. 127, value : Nat, timestamp : Nat]
KeysInv == keys \in [KeySlot -> KeyEntry]

PolicyInv ==
    clock \in Nat /\ IsolationInv /\ TrustInv /\ FaultInv /\ RecoveryInv /\ KeysInv

(* Time does not run backwards, and each part of the state is written only *)
(* by its own operations.                                                  *)
LEMMA PolicyFrame ==
    ASSUME clock \in Nat, [PolicyNext]_policy
    PROVE  /\ clock' \in Nat /\ clock <= clock'
           /\ \/ UNCHANGED isolation
              \/ /\ clock' = clock
                 /\ Enforce \/ Refresh \/ \E v \in 0 .. 255 : Violate(v)
           /\ UNCHANGED trust \/ \E p, n \in Nat : Interact(p, n)
           /\ UNCHANGED faults \/ Beat \/ Probe \/ Bury \/ \E q \in Nat : Measure(q)
           /\ \/ UNCHANGED recovery
              \/ /\ clock' = clock
                 /\ \/ \E s \in [healthy : 0 .. 255, total : 0 .. 255] : Heal(s)
                    \/ \E ok \in BOOLEAN : Healed(ok)
                    \/ Restart
           /\ \/ UNCHANGED keys
              \/ \E id, value \in Nat : AddKey(id, value) \/ ChangeKey(id, value)
<1>1. CASE UNCHANGED policy
  BY <1>1 DEF policy, isolation, faults, recovery
<1>2. ASSUME NEW d \in Nat, Pass(d)
      PROVE  /\ clock' \in Nat /\ clock <= clock'
             /\ UNCHANGED <<isolation, trust, faults, recovery, keys>>
  BY <1>2 DEF Pass
<1>3. CASE Enforce \/ Refresh \/ \E v \in 0 .. 255 : Violate(v)
  <2>1. UNCHANGED <<clock, trust, faults, recovery, keys>>
    BY <1>3, Zenon DEF Enforce, Refresh, Violate
  <2>2. QED
    BY <1>3, <2>1
<1>4. CASE \E p, n \in Nat : Interact(p, n)
  <2>1. UNCHANGED <<clock, isolation, faults, recovery, keys>>
    BY <1>4, Zenon DEF Interact
  <2>2. QED
    BY <1>4, <2>1
<1>5. CASE Beat \/ Probe \/ Bury \/ \E q \in Nat : Measure(q)
  <2>1. UNCHANGED <<clock, isolation, trust, recovery, keys>>
    BY <1>5, Zenon DEF Beat, Probe, Bury, Measure
  <2>2. QED
    BY <1>5, <2>1
<1>6. CASE \/ \E s \in [healthy : 0 .. 255, total : 0 .. 255] : Heal(s)
           \/ \E ok \in BOOLEAN : Healed(ok)
           \/ Restart
  <2>1. UNCHANGED <<clock, isolation, trust, faults, keys>>
    BY <1>6, Zenon DEF Heal, Healed, Restart
  <2>2. QED
    BY <1>6, <2>1
<1>7. CASE \E id, value \in Nat : AddKey(id, value) \/ ChangeKey(id, value)
  <2>1. UNCHANGED <<clock, isolation, trust, faults, recovery>>
    BY <1>7, Zenon DEF AddKey, ChangeKey
  <2>2. QED
    BY <1>7, <2>1
<1>8. QED
  BY <1>1, <1>2, <1>3, <1>4, <1>5, <1>6, <1>7, ZenonT(30) DEF PolicyNext

(* The low bits of a number are a number no greater, and keep their own    *)
(* low bits.                                                               *)
LEMMA LowBits ==
    /\ \A n \in Nat : Low7(n) \in 0 .. 127 /\ Low7(Low7(n)) = Low7(n)
    /\ \A n \in Nat : Low8(n) \in Nat /\ Low8(n) <= n /\ Low8(Low8(n)) = Low8(n)
    /\ \A n \in Nat : Low14(n) \in Nat
    /\ \A n \in Nat : Low16(n) \in Nat /\ Low16(n) <= n /\ Low16(Low16(n)) = Low16(n)
<1>1. \A n \in Nat : Low7(n) \in 0 .. 127 /\ Low7(Low7(n)) = Low7(n)
  BY DEF Low7
<1>2. \A n \in Nat : Low8(n) \in Nat /\ Low8(n) <= n /\ Low8(Low8(n)) = Low8(n)
  BY DEF Low8
<1>3. \A n \in Nat : Low14(n) \in Nat
  BY DEF Low14
<1>4. \A n \in Nat : Low16(n) \in Nat /\ Low16(n) <= n /\ Low16(Low16(n)) = Low16(n)
  BY DEF Low16
<1>5. QED
  BY <1>1, <1>2, <1>3, <1>4, Zenon

(* Every step keeps the invariant of the quarantine. *)
LEMMA IsolationKept == PolicyInv /\ [PolicyNext]_policy => IsolationInv'
<1>. SUFFICES ASSUME PolicyInv, [PolicyNext]_policy
              PROVE  IsolationInv'
  BY Zenon
<1>1. clock \in Nat /\ IsolationInv /\ TrustInv
  BY Zenon DEF PolicyInv
<1>2. /\ standing.node \in Nat /\ standing.status \in 0 .. 3 /\ standing.start \in Nat
      /\ standing.violations \in Nat /\ since \in Nat /\ since <= clock
      /\ standing.status = 1 => standing.start = Low8(since)
  BY <1>1, Zenon DEF IsolationInv, STATUS_QUARANTINED
<1>3. ASSUME NEW st \in 0 .. 3, NEW t \in Nat, NEW v \in Nat
      PROVE  create_quarantine_state(standing.node, st, t, v)
               = [node |-> Low8(standing.node), status |-> st, start |-> Low8(t),
                  violations |-> Low14(v)]
  <2>1. st % 4 = st
    OBVIOUS
  <2>2. QED
    BY <2>1, Zenon DEF create_quarantine_state
<1>4. CASE UNCHANGED isolation
  BY <1>1, <1>4, PolicyFrame DEF IsolationInv, isolation
<1>5. ASSUME NEW st \in 0 .. 3, NEW t \in Nat, NEW v \in Nat, clock' = clock,
             standing' = create_quarantine_state(standing.node, st, t, v),
             since' \in Nat, since' <= clock, st = 1 => Low8(t) = Low8(since')
      PROVE  IsolationInv'
  <2>. DEFINE a == Low8(standing.node)
              b == Low8(t)
              c == Low14(v)
  <2>1. a \in Nat /\ b \in Nat /\ c \in Nat
    BY <1>2, LowBits, Zenon
  <2>2. standing' = [node |-> a, status |-> st, start |-> b, violations |-> c]
    BY <1>3, <1>5, Zenon
  <2>3. st = 1 => b = Low8(since')
    BY <1>5, Zenon
  <2>. HIDE DEF a, b, c
  <2>4. standing' \in [node : Nat, status : 0 .. 3, start : Nat, violations : Nat]
    BY <2>1, <2>2, Zenon
  <2>5. standing'.status = 1 => standing'.start = Low8(since')
    BY <2>2, <2>3, Zenon
  <2>6. QED
    BY <1>5, <2>4, <2>5, Zenon DEF IsolationInv, STATUS_QUARANTINED
<1>6. CASE clock' = clock /\ Enforce
  <2>1. standing.violations + 1 \in Nat /\ standing.violations + 2 \in Nat /\ MOST_VIOLATIONS \in Nat
        /\ 0 \in Nat
    BY <1>2 DEF MOST_VIOLATIONS
  <2>2. 1 \in 0 .. 3 /\ 2 \in 0 .. 3 /\ 3 \in 0 .. 3
    OBVIOUS
  <2>3. \/ UNCHANGED isolation
        \/ standing' = quarantine_node(standing, clock) /\ since' = clock
        \/ standing' = suspend_node(standing, clock) /\ since' = since
        \/ standing' = ban_node(standing) /\ since' = since
    BY <1>6, Zenon DEF Enforce
  <2>4. CASE standing' = quarantine_node(standing, clock) /\ since' = clock
    <3>1. since' \in Nat /\ since' <= clock /\ Low8(clock) = Low8(since')
      BY <1>1, <2>4
    <3>2. standing' = create_quarantine_state(standing.node, 1, clock, standing.violations + 1)
      BY <2>4, Zenon DEF quarantine_node, STATUS_QUARANTINED
    <3>3. QED
      BY <1>1, <1>5, <1>6, <2>1, <2>2, <3>1, <3>2, Zenon
  <2>5. CASE standing' = suspend_node(standing, clock) /\ since' = since
    BY <1>1, <1>2, <1>5, <1>6, <2>1, <2>2, <2>5 DEF suspend_node, STATUS_SUSPENDED
  <2>6. CASE standing' = ban_node(standing) /\ since' = since
    BY <1>1, <1>2, <1>5, <1>6, <2>1, <2>2, <2>6 DEF ban_node, STATUS_BANNED
  <2>7. QED
    BY <1>4, <2>3, <2>4, <2>5, <2>6
<1>7. CASE clock' = clock /\ Refresh
  <2>1. UNCHANGED isolation \/ (standing' = release_quarantine(standing) /\ since' = since)
    BY <1>7, Zenon DEF Refresh, update_quarantine_state, isolation
  <2>2. 0 \in 0 .. 3 /\ 0 \in Nat
    OBVIOUS
  <2>3. QED
    BY <1>2, <1>4, <1>5, <1>7, <2>1, <2>2 DEF release_quarantine, STATUS_NORMAL
<1>8. ASSUME NEW v \in 0 .. 255, Violate(v), clock' = clock
      PROVE  IsolationInv'
  <2>1. \/ UNCHANGED isolation
        \/ /\ standing' = create_quarantine_state(standing.node, standing.status,
                             standing.start, standing.violations + 1)
           /\ since' = since
    BY <1>8, Zenon DEF Violate, record_violation, isolation
  <2>2. standing.violations + 1 \in Nat /\ Low8(Low8(since)) = Low8(since)
    BY <1>2, LowBits
  <2>3. QED
    BY <1>2, <1>4, <1>5, <1>8, <2>1, <2>2, Zenon
<1>9. QED
  BY <1>1, <1>4, <1>6, <1>7, <1>8, PolicyFrame, Zenon

(* Every step keeps the invariant of the trust score. *)
LEMMA TrustKept == PolicyInv /\ [PolicyNext]_policy => TrustInv'
<1>. SUFFICES ASSUME PolicyInv, [PolicyNext]_policy
              PROVE  TrustInv'
  BY Zenon
<1>1. clock \in Nat /\ TrustInv
  BY Zenon DEF PolicyInv
<1>2. trust.node \in Nat /\ trust.positive \in Nat /\ trust.negative \in Nat
  BY <1>1, Zenon DEF TrustInv
<1>3. ASSUME NEW p \in Nat, NEW n \in Nat
      PROVE  calculate_trust_score(p, n) \in 0 .. 100
  <2>1. CASE p + n = 0
    BY <2>1 DEF calculate_trust_score
  <2>2. CASE p + n # 0
    <3>1. (p * 100) \div (p + n) \in Nat
      <4>1. p * 100 \in Nat /\ p + n \in Nat /\ p + n > 0
        BY <2>2
      <4>2. \A a, b \in Nat : b > 0 => a \div b \in Nat
        OBVIOUS
      <4>3. QED
        BY <4>1, <4>2, Zenon
    <3>2. QED
      BY <2>2, <3>1 DEF calculate_trust_score, MAX_TRUST_SCORE
  <2>3. QED
    BY <2>1, <2>2, Zenon
<1>4. ASSUME NEW p \in Nat, NEW n \in Nat, Interact(p, n)
      PROVE  TrustInv'
  <2>. DEFINE a == trust.positive + p
              b == trust.negative + n
              c == calculate_trust_score(a, b)
  <2>1. a \in Nat /\ b \in Nat
    BY <1>2
  <2>2. c \in 0 .. 100
    BY <1>3, <2>1, Zenon
  <2>3. trust' = [node |-> Low8(trust.node), score |-> Low8(c), positive |-> Low8(a),
                  negative |-> Low8(b)]
    BY <1>4, Zenon DEF Interact, update_trust_score, create_trust_score
  <2>. HIDE DEF a, b, c
  <2>4. /\ Low8(trust.node) \in Nat /\ Low8(a) \in Nat /\ Low8(b) \in Nat
    BY <1>2, <2>1, LowBits, Zenon
  <2>4a. Low8(c) \in 0 .. 100
    BY <2>2 DEF Low8
  <2>5. QED
    BY <2>3, <2>4, <2>4a, Zenon DEF TrustInv
<1>5. QED
  BY <1>1, <1>4, PolicyFrame, Zenon DEF TrustInv

(* Every step keeps the invariant of the fault detector. *)
LEMMA FaultKept == PolicyInv /\ [PolicyNext]_policy => FaultInv'
<1>. SUFFICES ASSUME PolicyInv, [PolicyNext]_policy
              PROVE  FaultInv'
  BY Zenon
<1>1. clock \in Nat /\ FaultInv
  BY Zenon DEF PolicyInv
<1>2. /\ peer.alive \in BOOLEAN /\ peer.failures \in 0 .. 127 /\ peer.heartbeat \in Nat
      /\ peer.quality \in Nat /\ misses \in Nat /\ peer.failures = Low7(misses)
  BY <1>1, Zenon DEF FaultInv
<1>3. ASSUME NEW a \in BOOLEAN, NEW f \in Nat, NEW h \in Nat, NEW q \in Nat,
             peer' = create_node_state(a, f, h, q), misses' \in Nat, Low7(f) = Low7(misses')
      PROVE  FaultInv'
  <2>. DEFINE b == Low7(f)
              c == Low16(h)
              d == Low8(q)
  <2>1. b \in 0 .. 127 /\ c \in Nat /\ d \in Nat
    BY LowBits, Zenon
  <2>2. peer' = [alive |-> a, failures |-> b, heartbeat |-> c, quality |-> d]
    BY <1>3, Zenon DEF create_node_state
  <2>3. b = Low7(misses')
    BY <1>3, Zenon
  <2>. HIDE DEF b, c, d
  <2>4. QED
    BY <1>3, <2>1, <2>2, <2>3 DEF FaultInv
<1>4. CASE Beat
  <2>1. misses' = 0 /\ 0 \in Nat
    BY <1>4, Zenon DEF Beat
  <2>2. \E a \in BOOLEAN : peer' = create_node_state(a, 0, clock, peer.quality)
    BY <1>2, <1>4, Zenon DEF Beat, mark_node_alive, reset_failure_count
  <2>3. QED
    BY <1>1, <1>2, <1>3, <2>1, <2>2, Zenon
<1>5. CASE Probe
  <2>1. misses' = misses + 1
        /\ peer' = create_node_state(peer.alive, peer.failures + 1, peer.heartbeat, peer.quality)
    BY <1>5, Zenon DEF Probe, increment_failure_count
  <2>2. peer.failures + 1 \in Nat /\ misses' \in Nat
        /\ Low7(peer.failures + 1) = Low7(misses')
    BY <1>2, <2>1 DEF Low7
  <2>3. QED
    BY <1>2, <1>3, <2>1, <2>2, Zenon
<1>6. CASE Bury \/ \E q \in Nat : Measure(q)
  <2>1. misses' = misses /\ peer.failures \in Nat
    BY <1>2, <1>6 DEF Bury, Measure
  <2>1a. Low7(peer.failures) = Low7(misses)
    BY <1>2, LowBits, Zenon
  <2>2. \E a \in BOOLEAN, q \in Nat :
            peer' = create_node_state(a, peer.failures, peer.heartbeat, q)
    BY <1>2, <1>6, Zenon DEF Bury, Measure, mark_node_dead, update_link_quality
  <2>3. QED
    BY <1>2, <1>3, <2>1, <2>1a, <2>2, Zenon
<1>7. CASE UNCHANGED faults
  BY <1>1, <1>7, Zenon DEF FaultInv, faults
<1>8. QED
  BY <1>1, <1>4, <1>5, <1>6, <1>7, PolicyFrame, Zenon

(* Every step keeps the invariant of the recoveries. *)
LEMMA RecoveryKept == PolicyInv /\ [PolicyNext]_policy => RecoveryInv'
<1>. SUFFICES ASSUME PolicyInv, [PolicyNext]_policy
              PROVE  RecoveryInv'
  BY Zenon
<1>1. clock \in Nat /\ RecoveryInv
  BY Zenon DEF PolicyInv
<1>2. /\ healing.attempts \in 0 .. 3 /\ healing.last \in Nat
      /\ healing.in_progress \in BOOLEAN /\ healing.successes \in Nat
      /\ begun \in Nat /\ begun <= clock /\ healing.last = Low16(begun)
      /\ losses = healing.attempts
      /\ healing.in_progress => healing.attempts < 3
  BY <1>1, Zenon DEF RecoveryInv, MAX_RECOVERY_ATTEMPTS
<1>3. ASSUME NEW a \in 0 .. 3, NEW l \in Nat, NEW p \in BOOLEAN, NEW s \in Nat,
             healing' = create_recovery_state(a, l, p, s), losses' = a, clock' = clock,
             begun' \in Nat, begun' <= clock, Low16(l) = Low16(begun'), p => a < 3
      PROVE  RecoveryInv'
  <2>. DEFINE b == Low16(l)
              c == Low8(s)
  <2>0. a % 16 = a
    OBVIOUS
  <2>1. b \in Nat /\ c \in Nat
    BY LowBits, Zenon
  <2>2. healing' = [attempts |-> a, last |-> b, in_progress |-> p, successes |-> c]
    BY <1>3, <2>0, Zenon DEF create_recovery_state
  <2>3. b = Low16(begun')
    BY <1>3, Zenon
  <2>. HIDE DEF b, c
  <2>4. QED
    BY <1>3, <2>1, <2>2, <2>3 DEF RecoveryInv, MAX_RECOVERY_ATTEMPTS
<1>4. ASSUME NEW s, Heal(s), clock' = clock
      PROVE  RecoveryInv'
  <2>1. /\ healing' = create_recovery_state(healing.attempts, clock, TRUE, healing.successes)
        /\ begun' = clock /\ losses' = losses /\ healing.attempts < 3
    BY <1>4, Zenon DEF Heal, start_recovery, should_initiate_healing, can_recover,
                MAX_RECOVERY_ATTEMPTS
  <2>2. begun' \in Nat /\ begun' <= clock /\ Low16(clock) = Low16(begun')
    BY <1>1, <2>1
  <2>3. QED
    BY <1>1, <1>2, <1>3, <1>4, <2>1, <2>2, Zenon
<1>5. ASSUME NEW ok \in BOOLEAN, Healed(ok), clock' = clock
      PROVE  RecoveryInv'
  <2>1. /\ Low16(Low16(begun)) = Low16(begun)
        /\ healing.in_progress /\ healing.attempts + 1 \in 0 .. 3
        /\ healing.successes + 1 \in Nat
    BY <1>2, <1>5, LowBits DEF Healed
  <2>2. begun' = begun
    BY <1>5, Zenon DEF Healed
  <2>3. CASE ok
    BY <1>2, <1>3, <1>5, <2>1, <2>2, <2>3, Zenon DEF Healed, complete_recovery_success
  <2>4. CASE ~ok
    BY <1>2, <1>3, <1>5, <2>1, <2>2, <2>4, Zenon DEF Healed, complete_recovery_failure
  <2>5. QED
    BY <2>3, <2>4, Zenon
<1>6. CASE Restart /\ clock' = clock
  <2>1. 0 \in 0 .. 3 /\ 0 \in Nat /\ 0 <= clock
    BY <1>1
  <2>2. QED
    BY <1>3, <1>6, <2>1, Zenon DEF Restart, reset_recovery
<1>7. CASE UNCHANGED recovery
  <2>1. clock' \in Nat /\ clock <= clock'
    BY <1>1, PolicyFrame, Zenon
  <2>2. begun <= clock'
    BY <1>1, <1>2, <2>1
  <2>3. QED
    BY <1>1, <1>7, <2>2, Zenon DEF RecoveryInv, recovery
<1>8. QED
  BY <1>1, <1>4, <1>5, <1>6, <1>7, PolicyFrame

(* A scan answers the first index with the property, or the value for      *)
(* none.                                                                   *)
LEMMA FirstIndexFound ==
    ASSUME NEW S \in SUBSET (0 .. 3)
    PROVE  /\ S = {} => FirstIndex(S, NoIndex) = NoIndex
           /\ S # {} => /\ FirstIndex(S, NoIndex) \in S
                         /\ \A j \in S : FirstIndex(S, NoIndex) <= j
<1>1. ASSUME S # {}
      PROVE  \E i \in S : \A j \in S : i <= j
  <2>1. CASE 0 \in S
    BY <2>1
  <2>2. CASE 0 \notin S /\ 1 \in S
    BY <2>2
  <2>3. CASE 0 \notin S /\ 1 \notin S /\ 2 \in S
    BY <2>3
  <2>4. CASE 0 \notin S /\ 1 \notin S /\ 2 \notin S
    <3>1. \A j \in S : j = 3
      BY <2>4
    <3>2. PICK x \in S : TRUE
      BY <1>1, Zenon
    <3>3. 3 \in S /\ \A j \in S : 3 <= j
      BY <3>1, <3>2
    <3>4. QED
      BY <3>3, Zenon
  <2>5. QED
    BY <2>1, <2>2, <2>3, <2>4, Zenon
<1>2. QED
  BY <1>1, Zenon DEF FirstIndex

(* The key that find_key_by_id answers is the first that is valid and has  *)
(* the identifier; if it answers none there is no such key.                *)
LEMMA KeyFound ==
    ASSUME NEW ks \in [KeySlot -> KeyEntry], NEW id
    PROVE  \/ /\ find_key_by_id(ks, id) = NoIndex
              /\ \A i \in KeySlot : ~(ks[i].id = id /\ ks[i].valid)
           \/ /\ find_key_by_id(ks, id) \in KeySlot
              /\ ks[find_key_by_id(ks, id)].id = id
              /\ ks[find_key_by_id(ks, id)].valid
              /\ \A i \in KeySlot : ks[i].id = id /\ ks[i].valid => find_key_by_id(ks, id) <= i
<1>. DEFINE S == {i \in KeySlot : ks[i].id = id /\ ks[i].valid}
<1>1. S \in SUBSET (0 .. 3) /\ find_key_by_id(ks, id) = FirstIndex(S, NoIndex)
  BY Zenon DEF KeySlot, find_key_by_id
<1>2. CASE S = {}
  BY <1>1, <1>2, FirstIndexFound, Zenon
<1>3. CASE S # {}
  <2>1. find_key_by_id(ks, id) \in S /\ \A j \in S : find_key_by_id(ks, id) <= j
    BY <1>1, <1>3, FirstIndexFound, Zenon
  <2>2. QED
    BY <2>1, Zenon
<1>4. QED
  BY <1>2, <1>3, Zenon

(* The store after a step: unchanged, or with one entry written, in a free *)
(* slot or in the first valid one under its identifier.                    *)
Written(i, e) ==
    /\ keys' = [keys EXCEPT ![i] = e] /\ e \in KeyEntry
    /\ keys[i].valid => /\ e.id = keys[i].id
                        /\ \A j \in KeySlot : keys[j].id = keys[i].id /\ keys[j].valid => i <= j

LEMMA EntryType ==
    ASSUME NEW v \in BOOLEAN, NEW id \in Nat, NEW x \in Nat, NEW t \in Nat
    PROVE  create_key_entry(v, id, x, t) \in KeyEntry
<1>1. Low7(id) \in 0 .. 127 /\ Low16(x) \in Nat /\ Low8(t) \in Nat
  BY LowBits, Zenon
<1>2. QED
  BY <1>1, Zenon DEF create_key_entry, KeyEntry

LEMMA EntryId ==
    ASSUME NEW v \in BOOLEAN, NEW id \in 0 .. 127, NEW x \in Nat, NEW t \in Nat
    PROVE  create_key_entry(v, id, x, t) \in KeyEntry /\ create_key_entry(v, id, x, t).id = id
<1>1. Low7(id) = id /\ id \in Nat
  BY DEF Low7
<1>2. create_key_entry(v, id, x, t).id = id
  BY <1>1, Zenon DEF create_key_entry
<1>3. QED
  BY <1>1, <1>2, EntryType, Zenon

LEMMA KeysWritten ==
    ASSUME PolicyInv, [PolicyNext]_policy
    PROVE  UNCHANGED keys \/ \E i \in KeySlot : \E e : Written(i, e)
<1>1. clock \in Nat /\ keys \in [KeySlot -> KeyEntry]
  BY Zenon DEF PolicyInv, KeysInv
<1>2. ASSUME NEW id \in Nat, NEW x \in Nat, AddKey(id, x), keys' # keys
      PROVE  \E i \in KeySlot : \E e : Written(i, e)
  <2>. DEFINE S == {i \in KeySlot : ~keys[i].valid}
              g == FirstIndex(S, NoIndex)
              e == create_key_entry(TRUE, id, x, clock)
  <2>1. S \in SUBSET (0 .. 3)
    BY Zenon DEF KeySlot
  <2>2. keys' = add_key(keys, id, x, clock)
    BY <1>2, Zenon DEF AddKey
  <2>3. g # NoIndex /\ keys' = [keys EXCEPT ![g] = e]
    BY <1>2, <2>2, Zenon DEF add_key
  <2>4. g \in S
    BY <2>1, <2>3, FirstIndexFound, Zenon
  <2>5. e \in KeyEntry
    BY <1>1, EntryType, Zenon
  <2>. HIDE DEF e, g
  <2>6. QED
    BY <2>3, <2>4, <2>5, Zenon DEF Written
<1>3. ASSUME NEW id \in Nat, NEW x \in Nat, ChangeKey(id, x), keys' # keys
      PROVE  \E i \in KeySlot : \E e : Written(i, e)
  <2>. DEFINE f == find_key_by_id(keys, id)
              out == create_key_entry(FALSE, keys[f].id, keys[f].value, keys[f].timestamp)
              new == create_key_entry(TRUE, id, x, clock)
  <2>1. /\ f # NoIndex
        /\ keys' = [keys EXCEPT ![f] = out] \/ keys' = [keys EXCEPT ![f] = new]
    BY <1>3, Zenon DEF ChangeKey, invalidate_key, rotate_key
  <2>2. /\ f \in KeySlot /\ keys[f].id = id
        /\ \A j \in KeySlot : keys[j].id = id /\ keys[j].valid => f <= j
    BY <1>1, <2>1, KeyFound, Zenon
  <2>3. keys[f] \in KeyEntry
    BY <1>1, <2>2, Zenon
  <2>4. id \in 0 .. 127 /\ keys[f].value \in Nat /\ keys[f].timestamp \in Nat
    BY <2>2, <2>3, Zenon DEF KeyEntry
  <2>. HIDE DEF f
  <2>5. out \in KeyEntry /\ out.id = id
    <3>1. out = create_key_entry(FALSE, id, keys[f].value, keys[f].timestamp)
      BY <2>2, Zenon
    <3>. HIDE DEF out
    <3>2. PICK x0 \in Nat, t0 \in Nat : x0 = keys[f].value /\ t0 = keys[f].timestamp
      BY <2>4, Zenon
    <3>3. create_key_entry(FALSE, id, x0, t0) \in KeyEntry
          /\ create_key_entry(FALSE, id, x0, t0).id = id
      BY <2>4, EntryId, Zenon
    <3>4. QED
      BY <3>1, <3>2, <3>3, Zenon
  <2>6. new \in KeyEntry /\ new.id = id
    BY <1>1, <2>4, EntryId, Zenon
  <2>. HIDE DEF out, new
  <2>7. ASSUME NEW e \in KeyEntry, e.id = id, keys' = [keys EXCEPT ![f] = e]
        PROVE  Written(f, e)
    BY <2>2, <2>7, Zenon DEF Written
  <2>8. QED
    BY <2>1, <2>2, <2>5, <2>6, <2>7, Zenon
<1>4. QED
  BY <1>1, <1>2, <1>3, PolicyFrame, Zenon

(* Every step keeps the invariant of the key store. *)
LEMMA KeysKept == PolicyInv /\ [PolicyNext]_policy => KeysInv'
<1>. SUFFICES ASSUME PolicyInv, [PolicyNext]_policy
              PROVE  KeysInv'
  BY Zenon
<1>1. keys \in [KeySlot -> KeyEntry]
  BY Zenon DEF PolicyInv, KeysInv
<1>2. QED
  BY <1>1, KeysWritten, Zenon DEF Written, KeysInv

(* PolicyInv holds initially. *)
LEMMA PolicyInitially == PolicyInit => PolicyInv
<1>. SUFFICES ASSUME PolicyInit
              PROVE  PolicyInv
  BY Zenon
<1>0. Low8(0) = 0 /\ Low7(0) = 0 /\ Low14(0) = 0 /\ Low16(0) = 0 /\ Low8(50) = 50
  BY DEF Low7, Low8, Low14, Low16
<1>1. clock \in Nat /\ IsolationInv
  <2>1. PICK node \in 0 .. 255 : standing = create_quarantine_state(node, STATUS_NORMAL, 0, 0)
    BY Zenon DEF PolicyInit
  <2>2. Low8(node) \in Nat /\ 0 % 4 = 0
    BY LowBits
  <2>3. QED
    BY <1>0, <2>1, <2>2 DEF PolicyInit, IsolationInv, create_quarantine_state, STATUS_NORMAL,
                            STATUS_QUARANTINED
<1>2. TrustInv
  <2>1. standing.node \in Nat
    BY <1>1, Zenon DEF IsolationInv
  <2>2. Low8(standing.node) \in Nat
    BY <2>1, LowBits, Zenon
  <2>3. QED
    BY <1>0, <2>2 DEF PolicyInit, TrustInv, create_trust_score
<1>3. FaultInv
  <2>1. PICK quality \in 0 .. 255 : peer = create_node_state(TRUE, 0, clock, quality)
    BY Zenon DEF PolicyInit
  <2>2. Low8(quality) \in Nat /\ Low16(clock) \in Nat
    BY <1>1, LowBits
  <2>3. QED
    BY <1>0, <2>1, <2>2 DEF PolicyInit, FaultInv, create_node_state
<1>4. RecoveryInv
  <2>1. 0 % 16 = 0
    OBVIOUS
  <2>2. QED
    BY <1>0, <1>1, <2>1 DEF PolicyInit, RecoveryInv, reset_recovery, create_recovery_state,
                            MAX_RECOVERY_ATTEMPTS
<1>5. KeysInv
  BY <1>0 DEF PolicyInit, KeysInv, KeyEntry, create_key_entry
<1>6. QED
  BY <1>1, <1>2, <1>3, <1>4, <1>5 DEF PolicyInv

(* Each part of the invariant survives every step of the caller. *)
LEMMA PolicyInvariant == PolicySpec => []PolicyInv
<1>1. PolicyInv /\ [PolicyNext]_policy => PolicyInv'
  <2>1. PolicyInv /\ [PolicyNext]_policy => clock' \in Nat
    BY PolicyFrame, Zenon DEF PolicyInv
  <2>2. QED
    BY <2>1, IsolationKept, TrustKept, FaultKept, RecoveryKept, KeysKept, Zenon DEF PolicyInv
<1>2. QED
  BY <1>1, PolicyInitially, PTL DEF PolicySpec

(* No sequence of violations, recommendations and releases lifts a ban. *)
THEOREM BansArePermanent == PolicySpec => BansHold
<1>1. PolicyInv /\ [PolicyNext]_policy
        => [standing.status = STATUS_BANNED => standing'.status = STATUS_BANNED]_policy
  <2>. SUFFICES ASSUME PolicyInv, [PolicyNext]_policy, standing.status = STATUS_BANNED
                PROVE  standing'.status = STATUS_BANNED
    BY Zenon
  <2>1. CASE Enforce
    BY <2>1, Zenon DEF Enforce, recommend_quarantine_action, isolation
  <2>2. CASE Refresh
    BY <2>2 DEF Refresh, update_quarantine_state, should_release_quarantine, STATUS_BANNED,
                STATUS_QUARANTINED
  <2>3. ASSUME NEW v \in 0 .. 255, Violate(v)
        PROVE  standing'.status = STATUS_BANNED
    <3>1. 3 % 4 = 3
      OBVIOUS
    <3>2. QED
      BY <2>3, <3>1, Zenon DEF Violate, record_violation, create_quarantine_state, STATUS_BANNED
  <2>4. QED
    BY <2>1, <2>2, <2>3, PolicyFrame, Zenon DEF PolicyInv, isolation
<1>2. QED
  BY <1>1, PolicyInvariant, PTL DEF PolicySpec, BansHold

(* A quarantine is never too long, and too short only by the bits that the *)
(* packed starting time drops.                                             *)
THEOREM QuarantinesEnd == PolicySpec => []QuarantineEnds
<1>1. PolicyInv => QuarantineEnds
  <2>. SUFFICES ASSUME PolicyInv, standing.status = STATUS_QUARANTINED
                PROVE  QuarantineEnds
    BY Zenon DEF QuarantineEnds
  <2>1. clock \in Nat /\ since \in Nat /\ standing.start = Low8(since)
    BY Zenon DEF PolicyInv, IsolationInv
  <2>2. Low8(since) \in Nat /\ Low8(since) <= since
    BY <2>1, LowBits, Zenon
  <2>3. QED
    BY <2>1, <2>2 DEF QuarantineEnds, should_release_quarantine, QUARANTINE_DURATION
<1>2. QED
  BY <1>1, PolicyInvariant, PTL

(* A trust score stays a percentage. *)
THEOREM TrustStaysPercentage == PolicySpec => []TrustIsPercentage
<1>1. PolicyInv => TrustIsPercentage
  BY Zenon DEF PolicyInv, TrustInv, TrustIsPercentage, MAX_TRUST_SCORE
<1>2. QED
  BY <1>1, PolicyInvariant, PTL

(* A peer is failed exactly while FAILURE_THRESHOLD to 127 failures in a   *)
(* row have been detected, and never with fewer.                           *)
THEOREM FailedPeersAreSilent == PolicySpec => []FailedIsSilent
<1>1. PolicyInv => FailedIsSilent
  <2>. SUFFICES ASSUME PolicyInv
                PROVE  FailedIsSilent
    BY Zenon
  <2>1. misses \in Nat /\ peer.failures = Low7(misses)
    BY Zenon DEF PolicyInv, FaultInv
  <2>2. Low7(misses) <= misses /\ (misses < 128 => Low7(misses) = misses)
    BY <2>1 DEF Low7
  <2>3. QED
    BY <2>1, <2>2, LowBits DEF FailedIsSilent, is_node_failed, FAILURE_THRESHOLD
<1>2. QED
  BY <1>1, PolicyInvariant, PTL

(* Three failures stop the recoveries, and each starts the cooldown after  *)
(* the one before, less the bits of the time that were dropped.            *)
THEOREM RecoveriesAreSpaced == PolicySpec => RecoveriesSpaced
<1>. DEFINE A == ~healing.in_progress /\ healing'.in_progress =>
                   /\ losses < MAX_RECOVERY_ATTEMPTS
                   /\ clock - begun >= RECOVERY_COOLDOWN - (begun - Low16(begun))
<1>1. PolicyInv /\ [PolicyNext]_policy => [A]_policy
  <2>. SUFFICES ASSUME PolicyInv, [PolicyNext]_policy, ~healing.in_progress,
                       healing'.in_progress
                PROVE  /\ losses < MAX_RECOVERY_ATTEMPTS
                       /\ clock - begun >= RECOVERY_COOLDOWN - (begun - Low16(begun))
    OBVIOUS
  <2>1. /\ clock \in Nat /\ begun \in Nat
        /\ healing.last = Low16(begun) /\ losses = healing.attempts
    BY DEF PolicyInv, RecoveryInv
  <2>2. Low16(begun) \in Nat
    BY <2>1, LowBits, Zenon
  <2>3. ASSUME NEW s, Heal(s)
        PROVE  /\ losses < MAX_RECOVERY_ATTEMPTS
               /\ clock - begun >= RECOVERY_COOLDOWN - (begun - Low16(begun))
    <3>1. can_recover(healing, clock)
      BY <2>3, Zenon DEF Heal, should_initiate_healing
    <3>2. losses < MAX_RECOVERY_ATTEMPTS /\ clock - Low16(begun) >= RECOVERY_COOLDOWN
      BY <2>1, <3>1, Zenon DEF can_recover
    <3>3. QED
      BY <2>1, <2>2, <3>2 DEF RECOVERY_COOLDOWN
  <2>4. ~(Restart \/ (\E ok \in BOOLEAN : Healed(ok)) \/ UNCHANGED recovery)
    BY DEF Restart, Healed, recovery, reset_recovery, create_recovery_state
  <2>5. QED
    BY <2>1, <2>3, <2>4, PolicyFrame
<1>2. QED
  BY <1>1, PolicyInvariant, PTL DEF PolicySpec, RecoveriesSpaced

(* No valid key is overwritten but under its own identifier, the first one *)
(* first.                                                                  *)
THEOREM KeysAreNotOverwritten == PolicySpec => KeysChangeInOrder
<1>. DEFINE A(i) == keys[i].valid /\ keys'[i] # keys[i] =>
                      /\ keys'[i].id = keys[i].id
                      /\ \A j \in KeySlot : keys[j].valid /\ keys[j].id = keys[i].id => i <= j
<1>1. ASSUME PolicyInv, [PolicyNext]_policy, NEW i \in KeySlot
      PROVE  A(i)
  <2>1. keys \in [KeySlot -> KeyEntry]
    BY <1>1, Zenon DEF PolicyInv, KeysInv
  <2>2. ASSUME NEW k \in KeySlot, NEW e, Written(k, e)
        PROVE  A(i)
    BY <2>1, <2>2, Zenon DEF Written
  <2>3. QED
    BY <1>1, <2>2, KeysWritten, Zenon
<1>2. PolicyInv /\ [PolicyNext]_policy => [\A i \in KeySlot : A(i)]_policy
  BY <1>1, Zenon
<1>3. QED
  BY <1>2, PolicyInvariant, PTL DEF PolicySpec, KeysChangeInOrder

(* invalidate_key takes one key out of the store: the next one that was    *)
(* added under the same identifier answers for it from then on.            *)
THEOREM InvalidatedUncoversNext ==
    ASSUME PolicyInv, NEW id \in Nat
    PROVE  find_key_by_id(invalidate_key(keys, id), id)
             = FirstIndex({i \in KeySlot : keys[i].id = id /\ keys[i].valid}
                             \ {find_key_by_id(keys, id)}, NoIndex)
<1>. DEFINE f == find_key_by_id(keys, id)
            ks == invalidate_key(keys, id)
            S == {i \in KeySlot : keys[i].id = id /\ keys[i].valid}
<1>1. keys \in [KeySlot -> KeyEntry]
  BY Zenon DEF PolicyInv, KeysInv
<1>2. {i \in KeySlot : ks[i].id = id /\ ks[i].valid} = S \ {f}
  <2>1. CASE f = NoIndex
    <3>1. NoIndex \notin KeySlot
      BY DEF NoIndex, KeySlot
    <3>2. QED
      BY <2>1, <3>1, Zenon DEF invalidate_key
  <2>2. CASE f # NoIndex
    <3>1. f \in KeySlot
      BY <1>1, <2>2, KeyFound, Zenon
    <3>. DEFINE e == create_key_entry(FALSE, keys[f].id, keys[f].value, keys[f].timestamp)
    <3>2. ~e.valid
      BY Zenon DEF create_key_entry
    <3>3. ks = [keys EXCEPT ![f] = e]
      BY <2>2, Zenon DEF invalidate_key
    <3>. HIDE DEF e, f, ks
    <3>4. \A i \in KeySlot : ks[i] = IF i = f THEN e ELSE keys[i]
      BY <1>1, <3>1, <3>3, Zenon
    <3>5. QED
      BY <3>2, <3>4, Zenon
  <2>3. QED
    BY <2>1, <2>2, Zenon
<1>3. QED
  BY <1>2, Zenon DEF find_key_by_id

(* Access is granted only to an authorized node that presents its token,   *)
(* in a role that the policy asks for, and never after revoke_node,        *)
(* whatever role it is given.                                              *)
THEOREM RevokedIsDenied ==
    ASSUME NEW c, NEW p, NEW t, NEW role
    PROVE  /\ check_resource_access(c, p, t)
                => c.authorized /\ c.token = t /\ c.role # ROLE_NONE /\ c.role >= p.min_role
           /\ ~check_resource_access(revoke_node(c), p, t)
           /\ ~check_resource_access(change_role(revoke_node(c), role), p, t)
  BY DEF check_resource_access, verify_creds, check_access, role_meets_minimum, revoke_node,
         change_role, create_node_creds, ROLE_NONE, ROLE_GUEST, ROLE_USER, ROLE_ADMIN

-----------------------------------------------------------------------------
(* Transport: congestion windows. *)

CongestionState == [cwnd : 2 .. 64, ssthresh : 2 .. 64, state : 0 .. 3, losses : 0 .. 2]

(* Packing a state whose fields are in range loses nothing. *)
LEMMA PackedCongestion ==
    ASSUME NEW w \in 2 .. 64, NEW s \in 2 .. 64, NEW st \in 0 .. 3, NEW l \in 0 .. 2
    PROVE  /\ create_congestion_state(w, s, st, l) \in CongestionState
           /\ create_congestion_state(w, s, st, l)
                = [cwnd |-> w, ssthresh |-> s, state |-> st, losses |-> l]
<1>1. w % 256 = w /\ s % 256 = s /\ st % 4 = st /\ l % 16384 = l
  OBVIOUS
<1>2. QED
  BY <1>1 DEF create_congestion_state, CongestionState

(* Every operation on a controller keeps its fields in range. *)
LEMMA CongestionClosed ==
    ASSUME NEW c \in CongestionState
    PROVE  /\ on_ack(c) \in CongestionState
           /\ on_loss(c) \in CongestionState
           /\ on_triple_dup_ack(c) \in CongestionState
           /\ probe_bandwidth(c) \in CongestionState
           /\ reset_after_timeout(c) \in CongestionState
<1>. DEFINE h == HalfWindow(c.cwnd)
<1>1. /\ c.cwnd \in 2 .. 64 /\ c.ssthresh \in 2 .. 64
      /\ c.state \in 0 .. 3 /\ c.losses \in 0 .. 2
  BY Zenon DEF CongestionState
<1>2. /\ h \in 2 .. 32
      /\ AtMostMax(2 * c.cwnd) \in 2 .. 64
      /\ AtMostMax(c.cwnd + 1) \in 2 .. 64
      /\ AtMostMax(c.cwnd) \in 2 .. 64
      /\ AtMostMax(h + 3) \in 2 .. 64
  BY <1>1 DEF HalfWindow, AtMostMax, MAX_WINDOW, MIN_WINDOW
<1>3. /\ 0 \in 0 .. 3 /\ 1 \in 0 .. 3 /\ 2 \in 0 .. 3 /\ 2 \in 2 .. 64 /\ 0 \in 0 .. 2
      /\ h \in 2 .. 64
  BY <1>2
<1>. HIDE DEF h
<1>4. on_ack(c) \in CongestionState
  BY <1>1, <1>2, <1>3, PackedCongestion, Zenon
     DEF on_ack, STATE_SLOW_START, STATE_CONGESTION_AVOIDANCE, STATE_FAST_RECOVERY
<1>5. on_loss(c) \in CongestionState
  <2>1. CASE c.losses + 1 >= CONGESTION_THRESHOLD
    BY <1>3, <2>1, PackedCongestion, Zenon DEF on_loss, STATE_SLOW_START, MIN_WINDOW, h
  <2>2. CASE ~(c.losses + 1 >= CONGESTION_THRESHOLD)
    <3>1. c.losses + 1 \in 0 .. 2
      BY <1>1, <2>2 DEF CONGESTION_THRESHOLD
    <3>2. QED
      BY <1>1, <2>2, <3>1, PackedCongestion, Zenon DEF on_loss
  <2>3. QED
    BY <2>1, <2>2, Zenon
<1>6. on_triple_dup_ack(c) \in CongestionState
  BY <1>1, <1>2, <1>3, PackedCongestion, Zenon DEF on_triple_dup_ack, STATE_FAST_RECOVERY, h
<1>7. probe_bandwidth(c) \in CongestionState
  BY <1>1, <1>2, PackedCongestion, Zenon DEF probe_bandwidth
<1>8. reset_after_timeout(c) \in CongestionState
  BY <1>3, PackedCongestion, Zenon DEF reset_after_timeout, STATE_SLOW_START, MIN_WINDOW, h
<1>9. QED
  BY <1>4, <1>5, <1>6, <1>7, <1>8, Zenon
-----------------------------------------------------------------------------
(* Transport: credits. *)

FlowState == [sender : 0 .. 15, receiver : 0 .. 15, window : {16}, credits : 0 .. 16]
FlowMessage == [type : {"ack", "credit_update"}, flow_id : FlowIndex, credits : 0 .. 16]

(* Packing credits that fit the window loses nothing. *)
LEMMA PackedCredits ==
    ASSUME NEW f \in FlowState, NEW n \in 0 .. 16
    PROVE  update_credits(f, n) \in FlowState
<1>1. /\ f.sender % 16 \in 0 .. 15 /\ f.receiver % 16 \in 0 .. 15
      /\ f.window % 256 = 16 /\ n % 256 = n
  BY DEF FlowState
<1>2. QED
  BY <1>1, Zenon DEF update_credits, create_flow_state, FlowState

(* Every operation on a flow keeps its credits within the window. *)
LEMMA FlowClosed ==
    ASSUME NEW f \in FlowState, NEW m \in FlowMessage
    PROVE  /\ send_data(f) \in FlowState
           /\ apply_backpressure(f) \in FlowState
           /\ release_backpressure(f) \in FlowState
           /\ process_message(f, m) \in FlowState
<1>1. f.credits \in 0 .. 16 /\ f.window = 16 /\ m.credits \in 0 .. 16
  BY Zenon DEF FlowState, FlowMessage
<1>2. /\ has_credits(f) => f.credits - 1 \in 0 .. 16
      /\ f.credits - (f.credits \div 2) \in 0 .. 16
      /\ (IF f.credits + m.credits > f.window THEN f.window ELSE f.credits + m.credits)
            \in 0 .. 16
  BY <1>1 DEF has_credits
<1>3. send_data(f) \in FlowState
  BY <1>2, PackedCredits, Zenon DEF send_data, consume_credit
<1>4. apply_backpressure(f) \in FlowState /\ release_backpressure(f) \in FlowState
  BY <1>1, <1>2, PackedCredits DEF apply_backpressure, release_backpressure
<1>5. add_credits(f, m.credits) \in FlowState
  BY <1>2, PackedCredits, Zenon DEF add_credits
<1>6. update_credits(f, m.credits) \in FlowState
  BY <1>1, PackedCredits, Zenon
<1>7. process_message(f, m) \in FlowState
  BY <1>5, <1>6, Zenon DEF process_message
<1>8. QED
  BY <1>3, <1>4, <1>7, Zenon

(* The credits that a receiver announces fit the window. *)
LEMMA AnnouncementsFit ==
    ASSUME NEW f \in FlowState, NEW i \in FlowIndex, NEW n \in 0 .. 16
    PROVE  /\ send_ack(f, i) \in FlowMessage
           /\ create_flow_message("credit_update", i, n) \in FlowMessage
<1>1. UsedCredits(f) \in 0 .. 16
  BY DEF UsedCredits, FlowState
<1>2. ASSUME NEW k \in 0 .. 16, NEW t \in {"ack", "credit_update"}
      PROVE  create_flow_message(t, i, k) \in FlowMessage
  <2>1. i % 256 = i /\ k % 256 = k
    BY DEF FlowIndex, MAX_FLOWS
  <2>2. QED
    BY <2>1, Zenon DEF create_flow_message, FlowMessage
<1>3. QED
  BY <1>1, <1>2, Zenon DEF send_ack
-----------------------------------------------------------------------------
(* Transport: the inductive invariant. *)

RingInv ==
    /\ queue \in [head : 0 .. 7, tail : 0 .. 7, count : 0 .. 8]
    /\ slots \in [0 .. 7 -> Nat]
    /\ put \in Nat /\ got \in Nat
    /\ queue.head = got % 8 /\ queue.tail = put % 8
    /\ queue.count = put - got
    /\ \A n \in Nat : got <= n /\ n < put => slots[n % 8] = n

TransmitInv ==
    /\ retries \in 0 .. 5 /\ timeouts \in Nat
    /\ timeouts < MAX_RETRIES => retries <= timeouts
    /\ FailureIsEarned

TransportInv ==
    /\ controllers \in [FlowIndex -> CongestionState]
    /\ flows \in [FlowIndex -> FlowState]
    /\ messages \subseteq FlowMessage
    /\ RingInv
    /\ TransmitInv

(* One more packet moves an index of the ring by one, modulo its size. *)
LEMMA IndexFollows ==
    ASSUME NEW n \in Nat
    PROVE  increment_index(n % 8) = (n + 1) % 8
  BY DEF increment_index

(* Packets of one window of eight are in different slots. *)
LEMMA SlotsApart ==
    ASSUME NEW m \in Nat, NEW n \in Nat, m < n, n < m + 8
    PROVE  m % 8 # n % 8
  OBVIOUS

(* enqueue keeps the ring in order. *)
LEMMA EnqueueKeepsRing ==
    ASSUME RingInv, Enqueue
    PROVE  RingInv'
<1>1. CASE is_full(queue)
  BY <1>1, Zenon DEF Enqueue, enqueue, RingInv
<1>2. CASE ~is_full(queue)
  <2>1. /\ queue \in [head : 0 .. 7, tail : 0 .. 7, count : 0 .. 8]
        /\ put \in Nat /\ got \in Nat /\ slots \in [0 .. 7 -> Nat]
        /\ queue.head = got % 8 /\ queue.tail = put % 8 /\ queue.count = put - got
    BY Zenon DEF RingInv
  <2>2. queue.count + 1 \in 0 .. 8
    BY <1>2, <2>1 DEF is_full, QUEUE_SIZE
  <2>3. /\ queue' = [head |-> queue.head, tail |-> increment_index(queue.tail),
                     count |-> queue.count + 1]
        /\ slots' = [slots EXCEPT ![queue.tail] = put]
        /\ put' = put + 1 /\ got' = got
    BY <1>2, Zenon DEF Enqueue, enqueue
  <2>4. increment_index(queue.tail) = (put + 1) % 8
    BY <2>1, IndexFollows, Zenon
  <2>5. (put + 1) % 8 \in 0 .. 7 /\ put % 8 \in 0 .. 7
    BY <2>1
  <2>6. ASSUME NEW n \in Nat, got' <= n, n < put'
        PROVE  slots'[n % 8] = n
    <3>1. n % 8 \in 0 .. 7
      OBVIOUS
    <3>2. CASE n = put
      BY <2>1, <2>3, <2>5, <3>2, Zenon
    <3>3. CASE n < put
      <4>1. n % 8 # put % 8
        BY <2>1, <2>2, <2>3, <2>6, <3>3, SlotsApart
      <4>2. slots[n % 8] = n
        BY <2>3, <2>6, <3>3, Zenon DEF RingInv
      <4>3. QED
        BY <2>1, <2>3, <3>1, <4>1, <4>2, Zenon
    <3>4. QED
      BY <2>1, <2>3, <2>6, <3>2, <3>3
  <2>7. queue'.count = put' - got' /\ put' \in Nat /\ slots' \in [0 .. 7 -> Nat]
    BY <2>1, <2>3
  <2>8. queue' \in [head : 0 .. 7, tail : 0 .. 7, count : 0 .. 8]
    BY <2>1, <2>2, <2>3, <2>4, <2>5, Zenon
  <2>9. queue'.head = got' % 8 /\ queue'.tail = put' % 8
    BY <2>1, <2>3, <2>4, Zenon
  <2>10. QED
    BY <2>1, <2>3, <2>6, <2>7, <2>8, <2>9, Zenon DEF RingInv
<1>3. QED
  BY <1>1, <1>2, Zenon

(* dequeue keeps the ring in order. *)
LEMMA DequeueKeepsRing ==
    ASSUME RingInv, Dequeue
    PROVE  RingInv'
<1>1. CASE is_empty(queue)
  BY <1>1, Zenon DEF Dequeue, dequeue, RingInv
<1>2. CASE ~is_empty(queue)
  <2>1. /\ queue \in [head : 0 .. 7, tail : 0 .. 7, count : 0 .. 8]
        /\ put \in Nat /\ got \in Nat /\ slots \in [0 .. 7 -> Nat]
        /\ queue.head = got % 8 /\ queue.tail = put % 8 /\ queue.count = put - got
    BY Zenon DEF RingInv
  <2>2. queue.count - 1 \in 0 .. 8
    BY <1>2, <2>1 DEF is_empty
  <2>3. /\ queue' = [head |-> increment_index(queue.head), tail |-> queue.tail,
                     count |-> queue.count - 1]
        /\ slots' = slots /\ put' = put /\ got' = got + 1
    BY <1>2, Zenon DEF Dequeue, dequeue
  <2>4. increment_index(queue.head) = (got + 1) % 8 /\ (got + 1) % 8 \in 0 .. 7
    BY <2>1, IndexFollows
  <2>5. queue' \in [head : 0 .. 7, tail : 0 .. 7, count : 0 .. 8]
    BY <2>1, <2>2, <2>3, <2>4, Zenon
  <2>6. queue'.head = got' % 8 /\ queue'.tail = put' % 8 /\ queue'.count = put' - got'
    BY <2>1, <2>3, <2>4
  <2>7. \A n \in Nat : got' <= n /\ n < put' => slots'[n % 8] = n
    BY <2>1, <2>3 DEF RingInv
  <2>8. QED
    BY <2>1, <2>3, <2>5, <2>6, <2>7 DEF RingInv
<1>3. QED
  BY <1>1, <1>2, Zenon

(* The sender keeps its retries within the limit. *)
LEMMA TransmitKept ==
    ASSUME TransmitInv,
           \/ \E fr, ack \in BOOLEAN : Transmit(fr, ack)
           \/ Timeout
    PROVE  TransmitInv'
<1>1. ASSUME NEW fr \in BOOLEAN, NEW ack \in BOOLEAN, Transmit(fr, ack)
      PROVE  TransmitInv'
  BY <1>1 DEF Transmit, TransmitInv, FailureIsEarned, next_state, is_retries_exceeded,
              MAX_RETRIES
<1>2. CASE Timeout
  BY <1>2 DEF Timeout, TransmitInv, FailureIsEarned, increment_retry, MAX_RETRIES
<1>3. QED
  BY <1>1, <1>2, Zenon

(* Every step keeps TransportInv. *)
LEMMA TransportStep == TransportInv /\ [TransportNext]_transport => TransportInv'
<1>. SUFFICES ASSUME TransportInv, [TransportNext]_transport
              PROVE  TransportInv'
  BY Zenon
<1>1. ASSUME NEW i \in FlowIndex, Congest(i)
      PROVE  TransportInv'
  <2>1. /\ controllers' \in [FlowIndex -> CongestionState]
        /\ UNCHANGED <<credit, ring, transmit>>
    BY <1>1, CongestionClosed DEF Congest, TransportInv
  <2>2. QED
    BY <2>1, Zenon DEF TransportInv, RingInv, TransmitInv, FailureIsEarned, credit, ring, transmit
<1>2. ASSUME NEW i \in FlowIndex, NEW f \in FlowState, SetFlow(i, f), UNCHANGED messages
      PROVE  TransportInv'
  <2>1. flows' \in [FlowIndex -> FlowState] /\ UNCHANGED <<congestion, ring, transmit>>
    BY <1>2, Zenon DEF SetFlow, TransportInv
  <2>2. QED
    BY <1>2, <2>1, Zenon DEF TransportInv, RingInv, TransmitInv, FailureIsEarned, congestion,
                      ring, transmit
<1>3. ASSUME NEW i \in FlowIndex, SendData(i) \/ Throttle(i)
      PROVE  TransportInv'
  <2>1. flows[i] \in FlowState
    BY Zenon DEF TransportInv
  <2>2. /\ send_data(flows[i]) \in FlowState
        /\ apply_backpressure(flows[i]) \in FlowState
        /\ release_backpressure(flows[i]) \in FlowState
    <3>1. [type |-> "ack", flow_id |-> i, credits |-> 0] \in FlowMessage
      BY DEF FlowMessage
    <3>2. QED
      BY <2>1, <3>1, FlowClosed, Zenon
  <2>3. QED
    BY <1>2, <1>3, <2>2, Zenon DEF SendData, Throttle
<1>4. ASSUME NEW i \in FlowIndex, Announce(i)
      PROVE  TransportInv'
  <2>1. flows[i] \in FlowState /\ messages \subseteq FlowMessage
    BY Zenon DEF TransportInv
  <2>2. /\ send_ack(flows[i], i) \in FlowMessage
        /\ \A n \in 0 .. 16 : create_flow_message("credit_update", i, n) \in FlowMessage
    BY <2>1, AnnouncementsFit
  <2>3. messages' \subseteq FlowMessage /\ UNCHANGED <<congestion, flows, ring, transmit>>
    BY <1>4, <2>1, <2>2, Zenon DEF Announce, WINDOW_SIZE
  <2>4. QED
    BY <2>3, Zenon DEF TransportInv, RingInv, TransmitInv, FailureIsEarned, congestion, ring,
                transmit
<1>5. ASSUME NEW m \in messages, ReceiveMessage(m.flow_id, m)
      PROVE  TransportInv'
  <2>1. m \in FlowMessage /\ m.flow_id \in FlowIndex
    BY Zenon DEF TransportInv, FlowMessage
  <2>2. flows[m.flow_id] \in FlowState
    BY <2>1, Zenon DEF TransportInv
  <2>3. process_message(flows[m.flow_id], m) \in FlowState
    BY <2>1, <2>2, FlowClosed, Zenon
  <2>4. QED
    BY <1>2, <1>5, <2>1, <2>3, Zenon DEF ReceiveMessage
<1>6. CASE Enqueue \/ Dequeue
  <2>1. RingInv'
    BY <1>6, EnqueueKeepsRing, DequeueKeepsRing, Zenon DEF TransportInv
  <2>2. UNCHANGED <<congestion, credit, transmit>>
    BY <1>6, Zenon DEF Enqueue, Dequeue
  <2>3. QED
    BY <2>1, <2>2, Zenon DEF TransportInv, TransmitInv, FailureIsEarned, congestion, credit,
                             transmit
<1>7. CASE (\E fr, ack \in BOOLEAN : Transmit(fr, ack)) \/ Timeout
  <2>1. TransmitInv'
    BY <1>7, TransmitKept, Zenon DEF TransportInv
  <2>2. UNCHANGED <<congestion, credit, ring>>
    BY <1>7, Zenon DEF Transmit, Timeout
  <2>3. QED
    BY <2>1, <2>2, Zenon DEF TransportInv, RingInv, congestion, credit, ring
<1>8. CASE UNCHANGED transport
  BY <1>8, Zenon DEF TransportInv, RingInv, TransmitInv, FailureIsEarned, transport, congestion,
              credit, ring, transmit
<1>9. QED
  BY <1>1, <1>3, <1>4, <1>5, <1>6, <1>7, <1>8, Zenon DEF TransportNext

(* TransportInv holds initially. *)
LEMMA TransportInitially == TransportInit => TransportInv
<1>. SUFFICES ASSUME TransportInit
              PROVE  TransportInv
  BY Zenon
<1>1. controllers \in [FlowIndex -> CongestionState]
  <2>1. /\ 4 \in 2 .. 64 /\ 64 \in 2 .. 64 /\ 0 \in 0 .. 3 /\ 0 \in 0 .. 2
    OBVIOUS
  <2>2. initialize_congestion \in CongestionState
    BY <2>1, PackedCongestion, Zenon DEF initialize_congestion, INITIAL_WINDOW, MAX_WINDOW,
                                  STATE_SLOW_START
  <2>3. QED
    BY <2>2, Zenon DEF TransportInit
<1>2. flows \in [FlowIndex -> FlowState] /\ messages \subseteq FlowMessage
  BY DEF TransportInit, FlowState, WINDOW_SIZE
<1>3. RingInv
  BY DEF TransportInit, RingInv, clear, QUEUE_SIZE
<1>4. TransmitInv
  BY DEF TransportInit, TransmitInv, FailureIsEarned
<1>5. QED
  BY <1>1, <1>2, <1>3, <1>4, Zenon DEF TransportInv

(* The windows of every congestion controller stay in their bounds for any *)
(* sequence of acknowledgements, losses, probes and timeouts: no field of  *)
(* the packed state is ever truncated.                                     *)
THEOREM WindowsStayBounded == TransportSpec => []WindowsBounded
<1>1. TransportInv => WindowsBounded
  BY DEF TransportInv, WindowsBounded, CongestionState, MIN_WINDOW, MAX_WINDOW,
         CONGESTION_THRESHOLD
<1>2. QED
  BY <1>1, TransportInitially, TransportStep, PTL DEF TransportSpec

(* Credits never exceed the window, although acknowledgements are lost,    *)
(* repeated and reordered.                                                 *)
THEOREM CreditsStayInWindow == TransportSpec => []CreditsFitWindow
<1>1. TransportInv => CreditsFitWindow
  BY DEF TransportInv, CreditsFitWindow, FlowState, UsedCredits
<1>2. QED
  BY <1>1, TransportInitially, TransportStep, PTL DEF TransportSpec

(* The packet queue is first in, first out over any number of wraps. *)
THEOREM PacketsInOrder == TransportSpec => []QueueIsFifo
<1>1. TransportInv => QueueIsFifo
  BY DEF TransportInv, RingInv, QueueIsFifo, is_empty
<1>2. QED
  BY <1>1, TransportInitially, TransportStep, PTL DEF TransportSpec

(* A frame is given up only after MAX_RETRIES timeouts of its own. *)
THEOREM FailuresAreEarned == TransportSpec => []FailureIsEarned
<1>1. TransportInv => FailureIsEarned
  BY Zenon DEF TransportInv, TransmitInv
<1>2. QED
  BY <1>1, TransportInitially, TransportStep, PTL DEF TransportSpec

(* As no window is ever zero, every flow is active, and the bandwidth is   *)
(* always shared by all MAX_FLOWS of them.                                 *)
THEOREM SharesAreFair ==
    ASSUME WindowsBounded, NEW b \in Nat
    PROVE  allocate_fair_bandwidth(controllers, b) = b \div 8
<1>0. \A i \in 0 .. 7 : controllers[i].cwnd \in 2 .. 64
  <2>1. FlowIndex = 0 .. 7
    BY DEF FlowIndex, MAX_FLOWS
  <2>2. QED
    BY <2>1, Zenon DEF WindowsBounded, MIN_WINDOW, MAX_WINDOW
<1>1. OpenFlows(controllers) = 0 .. 7
  <2>1. FlowIndex = 0 .. 7
    BY DEF FlowIndex, MAX_FLOWS
  <2>2. \A i \in 0 .. 7 : controllers[i].cwnd > 0
    <3>1. \A w \in 2 .. 64 : w > 0
      OBVIOUS
    <3>2. QED  BY <1>0, <3>1, Zenon
  <2>3. QED
    BY <2>1, <2>2, Zenon DEF OpenFlows
<1>2. Cardinality(0 .. 7) = 8
  <2>1. Cardinality(0 .. 7) = IF 0 > 7 THEN 0 ELSE 7 - 0 + 1
    BY FS_Interval, 0 \in Int, 7 \in Int, Zenon
  <2>2. QED
    BY <2>1
<1>3. 0 \in 0 .. 7
  OBVIOUS
<1>4. QED
  BY <1>1, <1>2, <1>3, Zenon DEF allocate_fair_bandwidth

(* Within the attempts that should_retry allows, the u8 product of         *)
(* retry_success_probability does not wrap: the estimate is positive and   *)
(* every further attempt is less likely to succeed.                        *)
THEOREM RetriesLoseHope ==
    ASSUME NEW q \in 0 .. 255, NEW n \in Nat, should_retry(n + 1, q)
    PROVE  /\ retry_success_probability(n, q) \in 1 .. 200
           /\ retry_success_probability(n + 1, q) < retry_success_probability(n, q)
<1>. DEFINE b == base_probability(q)
<1>1. \/ b = 200 /\ n \in 0 .. 3
      \/ b = 150 /\ n \in 0 .. 1
  BY DEF should_retry, max_retries_for_quality, base_probability, ByQuality, QUALITY_HIGH,
         QUALITY_MEDIUM
<1>2. CASE b = 200 /\ n \in 0 .. 3
  <2>1. Decay(n, q) = 50 * n /\ Decay(n + 1, q) = 50 * (n + 1)
    BY <1>2 DEF Decay
  <2>2. QED
    BY <1>2, <2>1 DEF retry_success_probability
<1>3. CASE b = 150 /\ n \in 0 .. 1
  <2>1. Decay(n, q) = 37 * n /\ Decay(n + 1, q) = 37 * (n + 1)
    BY <1>3 DEF Decay
  <2>2. QED
    BY <1>3, <2>1 DEF retry_success_probability
<1>4. QED
  BY <1>1, <1>2, <1>3, Zenon
-----------------------------------------------------------------------------
(* NodeHealth: what the verdicts on a node's health agree on. *)

(* The low eight and fourteen bits of zero are zero. *)
LEMMA ZeroWord == Low8(0) = 0 /\ Low14(0) = 0
BY DEF Low8, Low14

(* A rise beyond the tolerance is never reported, because its type has the
   code that means no anomaly. *)
THEOREM SpikesAreSilent ==
    ASSUME NEW h, NEW n, NEW metric, NEW current,
           detect_spike(current, calculate_baseline(h, n),
                        calculate_variance(h, n, calculate_baseline(h, n)))
    PROVE  detect_anomaly(h, n, metric, current) = NoAnomaly
BY Zenon DEF detect_anomaly, TYPE_SPIKE

(* The anomaly detector only ever calls a drop critical: detect_anomaly gives
   patterns and trends a severity below the limit. *)
THEOREM CriticalIsDrop ==
    ASSUME NEW h, NEW n, NEW metric, NEW current,
           is_critical_anomaly(detect_anomaly(h, n, metric, current))
    PROVE  /\ detect_drop(current, calculate_baseline(h, n),
                          calculate_variance(h, n, calculate_baseline(h, n)))
           /\ ~ detect_spike(current, calculate_baseline(h, n),
                             calculate_variance(h, n, calculate_baseline(h, n)))
<1> DEFINE b == calculate_baseline(h, n)
           v == calculate_variance(h, n, b)
           p == detect_pattern(h, n)
           t == detect_trend(h, n)
           r == detect_anomaly(h, n, metric, current)
           s == calculate_severity(current, b)
           up == detect_spike(current, b, v)
           down == detect_drop(current, b, v)
<1>1. Low8(0) = 0 /\ Low8(40) = 40 /\ Low8(50) = 50  BY DEF Low8
<1>2. r.severity >= 80  BY Zenon DEF is_critical_anomaly, SEVERITY_HIGH
<1>3. NoAnomaly.severity = 0  BY <1>1, Zenon DEF NoAnomaly, create_anomaly_report
<1>4. ~ up  BY SpikesAreSilent, <1>2, <1>3
<1>5. r \in {NoAnomaly, create_anomaly_report(metric, 50, 2, 80),
             create_anomaly_report(metric, 40, 3, 80)} \/ down
  <2> SUFFICES ASSUME ~ down PROVE r \in {NoAnomaly, create_anomaly_report(metric, 50, 2, 80),
             create_anomaly_report(metric, 40, 3, 80)}
      BY Zenon
  <2>1. r = LET type == IF p THEN 2 ELSE IF t THEN 3 ELSE 0
                severity == IF type = 2 THEN 50 ELSE IF type = 3 THEN 40 ELSE s
            IN  IF n < 8 \/ type = 0 THEN NoAnomaly
                ELSE create_anomaly_report(metric, severity, type, 80)
        BY <1>4, Zenon DEF detect_anomaly, TYPE_SPIKE, TYPE_DROP, TYPE_PATTERN, TYPE_TREND,
                    BASELINE_WINDOW
  <2> HIDE DEF r, p, t, s
  <2>2. QED  BY <2>1, Zenon
<1>6. create_anomaly_report(metric, 50, 2, 80).severity = 50
      BY <1>1, Zenon DEF create_anomaly_report
<1>7. create_anomaly_report(metric, 40, 3, 80).severity = 40
      BY <1>1, Zenon DEF create_anomaly_report
<1> HIDE DEF r, p, t, s
<1>8. down  BY <1>2, <1>3, <1>5, <1>6, <1>7
<1>9. QED  BY <1>4, <1>8, Zenon

(* The dashboard never counts one metric both as critical and as a warning. *)
THEOREM IssuesAreApart ==
    ASSUME NEW m \in [node : Nat, type : Nat, value : Nat, timestamp : Nat]
    PROVE  ~ (Critical(m) /\ Warning(m))
BY DEF Critical, Warning, Load, Resource, Impairment, ALERT_THRESHOLD, CRITICAL_THRESHOLD

(* A metric the dashboard counts as critical raises an alert of the highest
   severity; so does an idle processor, which it counts as nothing, because
   generate_alert does not look at what is measured. *)
THEOREM CriticalIsAlerted ==
    ASSUME NEW m \in [node : Nat, type : Nat, value : Nat, timestamp : Nat], NEW kind \in Nat
    PROVE  /\ Critical(m) => generate_alert(m.node, kind, m.value).severity = 3
           /\ Load(m) /\ m.value < 10 =>
                 ~ Critical(m) /\ generate_alert(m.node, kind, m.value).severity = 3
BY DEF Critical, Load, Resource, Impairment, generate_alert, ALERT_THRESHOLD, CRITICAL_THRESHOLD

(* A first metric that packs to zero (node 0, processor, value 0, time 0)
   hides all that follow: the node counts as healthy without any issue. *)
THEOREM ZeroMetricHides ==
    ASSUME NEW ms, NEW n \in Nat, ms[0] = ZeroMetric
    PROVE  /\ calculate_node_health(ms, n) = 100
           /\ detect_critical_issues(ms, n) = 0
           /\ detect_warning_issues(ms, n) = 0
<1>1. Listed(ms, n) = {}  BY DEF Listed
<1>2. Cardinality({}) = 0  BY FS_EmptySet, Zenon
<1>3. {i \in {} : Critical(ms[i])} = {} /\ {i \in {} : Warning(ms[i])} = {}  BY Zenon
<1>4. QED  BY <1>1, <1>2, <1>3, Zenon DEF calculate_node_health, detect_critical_issues,
                                   detect_warning_issues

(* health_monitoring: the node is critical exactly when its percentage is
   below one hundred; warnings never lower the percentage. *)
THEOREM CriticalIsNotHundred ==
    ASSUME NEW cs
    PROVE  /\ calculate_overall_health(cs) = "critical" <=> get_health_percentage(cs) < 100
           /\ get_health_percentage(cs) \in 0 .. 100
<1> DEFINE F == With(cs, RESULT_FAIL)
           C == Check \ With(cs, RESULT_SKIP)
           f == Cardinality(F)
           c == Cardinality(C)
           g == Cardinality(C \ F)
<1>1. IsFiniteSet(Check)
  <2>1. 0 \in Int /\ 7 \in Int  OBVIOUS
  <2>2. IsFiniteSet(0 .. 7)  BY <2>1, FS_Interval, Zenon
  <2>3. QED  BY <2>2, Zenon DEF Check
<1>2. F \subseteq C  BY DEF With, RESULT_FAIL, RESULT_SKIP
<1>3. IsFiniteSet(C)  BY <1>1, FS_Subset, Zenon
<1>4. IsFiniteSet(F) /\ IsFiniteSet(C \ F)  BY <1>2, <1>3, FS_Subset, FS_Difference, Zenon
<1>5. f \in Nat /\ c \in Nat /\ g \in Nat  BY <1>3, <1>4, FS_CardinalityType, Zenon
<1>6. c = f + g
  <2>1. F \cup (C \ F) = C /\ F \cap (C \ F) = {}  BY <1>2, Zenon
  <2>2. Cardinality(F \cup (C \ F)) = f + g - Cardinality(F \cap (C \ F))
        BY <1>4, FS_Union, Zenon
  <2>3. Cardinality({}) = 0  BY FS_EmptySet, Zenon
  <2>4. Cardinality(C) = f + g - 0  BY <2>1, <2>2, <2>3, Zenon
  <2>5. QED  BY <1>5, <2>4
<1>7. C = {} <=> c = 0  BY <1>3, FS_EmptySet, Zenon
<1>8. calculate_overall_health(cs) = "critical" <=> f > 0
      BY Zenon DEF calculate_overall_health, count_failed_checks
<1>9. get_health_percentage(cs) = IF C = {} THEN 100 ELSE (g * 100) \div c
      BY Zenon DEF get_health_percentage
<1> HIDE DEF F, C, f, c, g
<1>10. CASE c = 0  BY <1>5, <1>6, <1>7, <1>8, <1>9, <1>10
<1>11. CASE c # 0
  <2> DEFINE q == (g * 100) \div c
  <2>1. q \in Int /\ c * q <= g * 100 /\ g * 100 < c * (q + 1)
        BY <1>5, <1>11
  <2>2. get_health_percentage(cs) = q  BY <1>7, <1>9, <1>11, Zenon
  <2> HIDE DEF q
  <2>3. g <= c  BY <1>5, <1>6
  <2>4. q <= 100
    <3> SUFFICES ASSUME q >= 101 PROVE FALSE  BY <2>1
    <3>1. c * q >= c * 101  BY <1>5, <2>1
    <3>2. QED  BY <1>5, <1>11, <2>1, <2>3, <3>1
  <2>5. q >= 0
    <3> SUFFICES ASSUME q + 1 <= 0 PROVE FALSE  BY <2>1
    <3>1. c * (q + 1) <= 0  BY <1>5, <2>1
    <3>2. QED  BY <1>5, <2>1, <3>1
  <2>6. f = 0 => q >= 100
    <3> SUFFICES ASSUME f = 0, q <= 99 PROVE FALSE  BY <2>1
    <3>1. c * (q + 1) <= c * 100  BY <1>5, <2>1
    <3>2. g = c  BY <1>5, <1>6
    <3>3. QED  BY <1>5, <2>1, <3>1, <3>2
  <2>7. f > 0 => q < 100
    <3> SUFFICES ASSUME f > 0, q = 100 PROVE FALSE  BY <2>1, <2>4
    <3>1. QED  BY <1>5, <1>6, <2>1
  <2>8. QED  BY <1>5, <1>8, <2>1, <2>2, <2>4, <2>5, <2>6, <2>7
<1>12. QED  BY <1>10, <1>11, Zenon

=============================================================================
