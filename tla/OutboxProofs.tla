---------------------------- MODULE OutboxProofs ----------------------------
(***************************************************************************)
(* Proofs about ApnsOutbox, for any number of workers, events, tokens,     *)
(* rotations and restarts and any lease: its types, that a token is        *)
(* cleared and an endpoint changed only when APNs said so, that claims are *)
(* exclusive within a lease, that a blocked event is left alone, and that  *)
(* neither coalescing nor a rotation loses an alert that is still wanted.  *)
(***************************************************************************)
EXTENDS ApnsOutbox, TLAPS

(* Every step keeps the types. *)
LEMMA TypeStep == TypeOK /\ [Next]_vars => TypeOK'
<1> SUFFICES ASSUME TypeOK, [Next]_vars PROVE TypeOK'
    BY Zenon
<1> USE OutboxAssumption DEF TypeOK, device, objects
<1>1. CASE Tick
    BY <1>1 DEF Tick, Time
<1>2. CASE Restart
    BY <1>2 DEF Restart, Gen
<1>3. ASSUME NEW e \in Event, enqueue(e) PROVE TypeOK'
    BY <1>3, Zenon DEF enqueue, SetRow, Released, Row
<1>4. ASSUME NEW e \in Event, close(e) PROVE TypeOK'
    BY <1>4, Zenon DEF close
<1>5. ASSUME NEW t \in Token \cup {None}, NEW v \in Environment, register_device(t, v)
      PROVE TypeOK'
    BY <1>5 DEF register_device
<1>6. ASSUME NEW w \in Worker, NEW e \in Event, claim_due(w, e) PROVE TypeOK'
    <2> DEFINE r == [next_attempt_at |-> row[e].next_attempt_at, claimed_at |-> now,
                     claim_owner |-> gen, blocked_owner |-> row[e].blocked_owner,
                     environment |-> row[e].environment, digest |-> row[e].digest]
               c == [pc |-> "load", event |-> e, claimed_at |-> now,
                     token |-> row[e].digest, environment |-> row[e].environment,
                     override |-> FALSE, result |-> "none", since |-> None]
    <2>1. row[e] \in Row
        BY <1>6, Zenon DEF claim_due, Due
    <2>2. r \in Row
        BY <2>1, Zenon DEF Row
    <2>3. c \in Claim
        BY <2>1, Zenon DEF Row, Claim, ClaimRecord
    <2>4. /\ row' = [row EXCEPT ![e] = r] /\ worker' = [worker EXCEPT ![w] = c]
          /\ UNCHANGED <<now, gen, device, objects, refused>>
        BY <1>6, Zenon DEF claim_due, SetRow
    <2> HIDE DEF r, c
    <2>5. QED
        BY <2>2, <2>3, <2>4, Zenon
<1>7. ASSUME NEW w \in Worker, load(w) PROVE TypeOK'
    <2> DEFINE c == worker[w]
    <2>1. c \in Claim /\ Override(c) \in BOOLEAN
        BY <1>7, Zenon DEF load, Override
    <2>2. PICK pc \in {"http", "drop"}, v \in Environment, b \in BOOLEAN :
             /\ pc = "http" => token # None
             /\ worker' = [worker EXCEPT ![w] =
                   [pc |-> pc, event |-> c.event, claimed_at |-> c.claimed_at,
                    token |-> token, environment |-> v, override |-> b,
                    result |-> "none", since |-> None]]
        BY <1>7, <2>1, Zenon DEF load, Override, Claim, ClaimRecord
    <2>3. [pc |-> pc, event |-> c.event, claimed_at |-> c.claimed_at,
           token |-> token, environment |-> v, override |-> b,
           result |-> "none", since |-> None] \in Claim
        <3>1. c.event \in Event /\ c.claimed_at \in Time
            BY <2>1, Zenon DEF Claim, ClaimRecord
        <3>2. v # None
            BY Zenon DEF Environment
        <3>3. QED
            BY <2>2, <3>1, <3>2, Zenon DEF Claim, ClaimRecord
    <2>4. worker' \in [Worker -> Claim \cup {None}]
        BY <2>2, <2>3, Zenon
    <2>5. UNCHANGED <<now, gen, device, objects, row, refused>>
        BY <1>7, Zenon DEF load
    <2>6. QED
        BY <2>4, <2>5, Zenon
<1>8. ASSUME NEW w \in Worker, NEW res \in Results, NEW since \in Time \cup {None},
             respond(w, res, since)
      PROVE TypeOK'
    <2> DEFINE c == worker[w]
               n == [pc |-> "settle", event |-> c.event, claimed_at |-> c.claimed_at,
                     token |-> c.token, environment |-> c.environment,
                     override |-> c.override, result |-> res, since |-> since]
    <2>1. c \in Claim /\ c.pc = "http"
        BY <1>8, Zenon DEF respond
    <2>2. n \in Claim
        BY <2>1, Zenon DEF Claim, ClaimRecord, Results
    <2>3. /\ worker' = [worker EXCEPT ![w] = n]
          /\ UNCHANGED <<now, gen, device, objects, row>>
        BY <1>8, Zenon DEF respond
    <2>4. refused' \in SUBSET (Token \X Environment)
        <3>1. c.token \in Token /\ c.environment \in Environment
            BY <2>1, Zenon DEF Claim, ClaimRecord
        <3>2. QED
            BY <1>8, <3>1 DEF respond
    <2> HIDE DEF n, c
    <2>5. QED
        BY <2>2, <2>3, <2>4, Zenon
<1>9. ASSUME NEW w \in Worker, lost(w) \/ abandon(w) PROVE TypeOK'
    BY <1>9, Zenon DEF lost, abandon, Idle
<1>10. ASSUME NEW w \in Worker, acknowledge(w) PROVE TypeOK'
    BY <1>10, Zenon DEF acknowledge, Idle, SetRow, Claim, ClaimRecord
<1>11. ASSUME NEW w \in Worker, schedule_alternate(w) PROVE TypeOK'
    BY <1>11, Zenon DEF schedule_alternate, Idle, SetRow, Released, Row, Claim, ClaimRecord,
                        alternate, Environment
<1>12. ASSUME NEW w \in Worker, invalidate(w) PROVE TypeOK'
    BY <1>12, Zenon DEF invalidate, Idle, SetRow, Released, Row, Claim, ClaimRecord, Holds
<1>13. ASSUME NEW w \in Worker, NEW d \in 1 .. MaxDelay, reschedule(w, d) PROVE TypeOK'
    <2> DEFINE e == worker[w].event
               t == IF now + d <= MaxTime THEN now + d ELSE MaxTime
               r == Released(t, row[e].blocked_owner, row[e].environment, row[e].digest)
    <2>1. e \in Event /\ row[e] \in Row
        BY <1>13, Zenon DEF reschedule, Holds, Claim, ClaimRecord
    <2>2. t \in Time
        BY DEF Time
    <2> HIDE DEF t
    <2>3. r \in Row
        BY <2>1, <2>2, Zenon DEF Released, Row
    <2>4. /\ row' = [row EXCEPT ![e] = r] /\ worker' = [worker EXCEPT ![w] = None]
          /\ UNCHANGED <<now, gen, device, objects, refused>>
        BY <1>13, Zenon DEF reschedule, SetRow, Idle, t
    <2> HIDE DEF r, e
    <2>5. QED
        BY <2>1, <2>3, <2>4, Zenon
<1>14. ASSUME NEW w \in Worker, block(w) PROVE TypeOK'
    BY <1>14, Zenon DEF block, Idle, SetRow, Released, Row, Claim, ClaimRecord, Holds
<1>15. CASE UNCHANGED vars
    BY <1>15, Zenon DEF vars
<1>16. QED
    BY <1>1, <1>2, <1>3, <1>4, <1>5, <1>6, <1>7, <1>8, <1>9, <1>10, <1>11, <1>12,
       <1>13, <1>14, <1>15, Zenon DEF Next, Work, Answered, settle

\* apns_outbox, the devices row and the workers' claims keep their types.
THEOREM OutboxTyped == Spec => []TypeOK
<1>1. Init => TypeOK
    BY OutboxAssumption DEF Init, TypeOK, Time, Gen
<1>2. QED
    BY <1>1, TypeStep, PTL DEF Spec
-----------------------------------------------------------------------------
(* Why a token is cleared *)

\* An override stands for a refusal of its token at the other endpoint, in the
\* row, in a claim that has read it and in a request that uses it.
Refuted ==
    /\ \A e \in Event : row[e] # None /\ row[e].environment # None =>
          <<row[e].digest, alternate(row[e].environment)>> \in refused
    /\ \A w \in Worker : worker[w] # None =>
          LET c == worker[w] IN
          /\ c.environment # None /\ (c.pc = "load" \/ c.override) =>
                <<c.token, alternate(c.environment)>> \in refused
          /\ c.result = "bad" => <<c.token, c.environment>> \in refused

(* Every step keeps Refuted: a recorded refusal really happened. *)
LEMMA RefutedStep ==
    ASSUME TypeOK, TypeOK', Refuted, [Next]_vars PROVE Refuted'
<1> USE OutboxAssumption
<1>0. /\ row \in [Event -> Row \cup {None}] /\ worker \in [Worker -> Claim \cup {None}]
      /\ \A w \in Worker : worker[w] # None => worker[w].event \in Event
      /\ \A v \in Environment : alternate(alternate(v)) = v /\ alternate(v) \in Environment
    BY Zenon DEF TypeOK, Claim, ClaimRecord, alternate, Environment
<1>1. CASE UNCHANGED <<row, worker, refused>>
    BY <1>1, Zenon DEF Refuted
<1>2. CASE Restart
    BY <1>2, Zenon DEF Restart, Refuted
<1>3. ASSUME NEW e \in Event, enqueue(e) PROVE Refuted'
    BY <1>0, <1>3, Zenon DEF enqueue, SetRow, Released, Refuted
<1>4. ASSUME NEW w \in Worker, NEW e \in Event, claim_due(w, e) PROVE Refuted'
    BY <1>0, <1>4, Zenon DEF claim_due, SetRow, Due, Refuted
<1>5. ASSUME NEW w \in Worker, load(w) PROVE Refuted'
    <2>1. /\ UNCHANGED <<row, refused>> /\ worker[w] # None /\ worker[w].pc = "load"
          /\ \A x \in Worker : x # w => worker'[x] = worker[x]
          /\ worker'[w].pc # "load" /\ worker'[w].result = "none" /\ worker'[w].token = token
          /\ worker'[w].override <=> Override(worker[w])
          /\ Override(worker[w]) => worker'[w].environment = worker[w].environment
        BY <1>0, <1>5, Zenon DEF load
    <2>2. QED
        BY <2>1, Zenon DEF Refuted, Override
<1>6. ASSUME NEW w \in Worker, NEW res \in Results, NEW since \in Time \cup {None},
             respond(w, res, since)
      PROVE Refuted'
    <2>1. /\ UNCHANGED row /\ worker[w] # None /\ worker[w].pc = "http"
          /\ refused \subseteq refused'
          /\ res = "bad" => <<worker[w].token, worker[w].environment>> \in refused'
          /\ \A x \in Worker : x # w => worker'[x] = worker[x]
          /\ worker'[w].pc = "settle" /\ worker'[w].result = res
          /\ worker'[w].token = worker[w].token /\ worker'[w].override = worker[w].override
          /\ worker'[w].environment = worker[w].environment
        BY <1>0, <1>6, Zenon DEF respond
    <2>2. QED
        BY <2>1, Zenon DEF Refuted
<1>7. ASSUME NEW w \in Worker, lost(w) \/ abandon(w) PROVE Refuted'
    BY <1>0, <1>7, Zenon DEF lost, abandon, Idle, Refuted
<1>8. ASSUME NEW w \in Worker, acknowledge(w) PROVE Refuted'
    BY <1>0, <1>8, Zenon DEF acknowledge, Idle, SetRow, Refuted
<1>9. ASSUME NEW w \in Worker, schedule_alternate(w) PROVE Refuted'
    <2> DEFINE c == worker[w]
    <2>1. c.environment \in Environment
        BY <1>9, Zenon DEF schedule_alternate, TypeOK, Claim, ClaimRecord
    <2>2. <<c.token, c.environment>> \in refused
        BY <1>9, Zenon DEF schedule_alternate, Refuted
    <2>3. /\ UNCHANGED refused
          /\ \A x \in Event : x # c.event => row'[x] = row[x]
          /\ row'[c.event].environment = alternate(c.environment)
          /\ row'[c.event].digest = c.token
          /\ \A x \in Worker : x # w => worker'[x] = worker[x]
          /\ worker'[w] = None
        BY <1>0, <1>9, Zenon DEF schedule_alternate, Idle, SetRow, Released
    <2>4. <<c.token, alternate(alternate(c.environment))>> \in refused
        BY <1>0, <2>1, <2>2, Zenon
    <2>5. \A x \in Event : row'[x] # None /\ row'[x].environment # None =>
             <<row'[x].digest, alternate(row'[x].environment)>> \in refused'
        <3> TAKE x \in Event
        <3>1. CASE x = c.event
            BY <2>3, <2>4, <3>1, Zenon
        <3>2. CASE x # c.event
            BY <2>3, <3>2, Zenon DEF Refuted
        <3>3. QED
            BY <3>1, <3>2, Zenon
    <2>6. \A x \in Worker : worker'[x] # None => worker'[x] = worker[x]
        BY <2>3, Zenon
    <2>7. QED
        BY <2>3, <2>5, <2>6, Zenon DEF Refuted
<1>10. ASSUME NEW w \in Worker,
              invalidate(w) \/ block(w) \/ \E d \in 1 .. MaxDelay : reschedule(w, d)
       PROVE Refuted'
    <2> DEFINE c == worker[w]
    <2>1. /\ UNCHANGED refused /\ c # None /\ row[c.event] # None
          /\ \A x \in Event : x # c.event => row'[x] = row[x]
          /\ row'[c.event] # None =>
                /\ row'[c.event].environment = row[c.event].environment
                /\ row'[c.event].digest = row[c.event].digest
          /\ \A x \in Worker : x # w => worker'[x] = worker[x]
          /\ worker'[w] = None
        <3>1. c # None /\ Holds(w) /\ c.event \in Event
            BY <1>0, <1>10, Zenon DEF invalidate, block, reschedule
        <3>2. CASE invalidate(w)
            BY <1>0, <3>1, <3>2, Zenon DEF invalidate, Holds, Idle, SetRow, Released
        <3>3. CASE block(w)
            BY <1>0, <3>1, <3>3, Zenon DEF block, Holds, Idle, SetRow, Released
        <3>4. CASE \E d \in 1 .. MaxDelay : reschedule(w, d)
            <4>1. PICK d \in 1 .. MaxDelay : reschedule(w, d)
                BY <3>4, Zenon
            <4>2. PICK t : row' = [row EXCEPT ![c.event] =
                      Released(t, row[c.event].blocked_owner, row[c.event].environment,
                               row[c.event].digest)]
                BY <4>1, Zenon DEF reschedule, SetRow
            <4>3. UNCHANGED refused /\ worker' = [worker EXCEPT ![w] = None]
                BY <4>1, Zenon DEF reschedule, Idle
            <4>4. QED
                BY <1>0, <3>1, <4>2, <4>3, Zenon DEF Holds, Released
        <3>5. QED
            BY <1>10, <3>2, <3>3, <3>4, Zenon
    <2>2. QED
        BY <1>0, <2>1, Zenon DEF Refuted
<1>11. QED
    BY <1>1, <1>2, <1>3, <1>4, <1>5, <1>6, <1>7, <1>8, <1>9, <1>10, Zenon
    DEF Next, Work, Answered, settle, Tick, close, register_device, vars

(* A token is dropped only on evidence against that very token. *)
LEMMA InvalidationStep ==
    ASSUME TypeOK, Refuted, [Next]_vars, row' # row, token # None, token' = None
    PROVE  \/ {token} \X Environment \subseteq refused
           \/ \E w \in Worker :
                /\ worker[w] # None /\ worker[w].result = "gone" /\ worker[w].token = token
                /\ worker[w].since # None => registered_at <= worker[w].since
<1>1. PICK w \in Worker : invalidate(w)
    BY Zenon DEF Next, Work, Answered, settle, Tick, Restart, enqueue, close, register_device,
       claim_due, load, respond, abandon, lost, acknowledge, schedule_alternate, reschedule,
       block, device, objects, vars
<1> DEFINE c == worker[w]
<1>2. /\ c # None /\ token = c.token
      /\ c.since # None => registered_at <= c.since
      /\ c.result = "gone" \/ (c.result = "bad" /\ c.override)
    BY <1>1, Zenon DEF invalidate
<1>3. CASE c.result = "bad" /\ c.override
    <2>1. c.environment \in Environment /\ c.environment # None
        BY <1>1, <1>2, Zenon DEF invalidate, TypeOK, Claim, ClaimRecord
    <2>2. <<token, c.environment>> \in refused /\ <<token, alternate(c.environment)>> \in refused
        BY <1>2, <1>3, <2>1, Zenon DEF Refuted
    <2>3. QED
        BY <2>1, <2>2 DEF Environment, alternate
<1>4. QED
    BY <1>2, <1>3, Zenon

\* A worker clears a token only if APNs refused it at both endpoints or declared
\* it gone after its registration (invalidate_apns_outbox_token), for any
\* number of workers, rotations and restarts.
THEOREM TokensAreClearedForCause == Spec => InvalidationIsEarned
<1>1. Init => Refuted
    BY Zenon DEF Init, Refuted
<1>2. TypeOK /\ TypeOK' /\ Refuted /\ [Next]_vars => Refuted'
    BY RefutedStep, Zenon
<1>3. TypeOK /\ Refuted /\ [Next]_vars =>
        [row' # row /\ token # None /\ token' = None =>
          \/ {token} \X Environment \subseteq refused
          \/ \E w \in Worker :
                /\ worker[w] # None /\ worker[w].result = "gone" /\ worker[w].token = token
                /\ worker[w].since # None => registered_at <= worker[w].since]_vars
    BY InvalidationStep, Zenon
<1>4. QED
    BY <1>1, <1>2, <1>3, OutboxTyped, PTL DEF Spec, InvalidationIsEarned
-----------------------------------------------------------------------------
\* Rows and claims belong to created events, and to this or earlier processes.
Dated ==
    /\ \A e \in Event : row[e] # None =>
          /\ created[e] # None
          /\ row[e].claim_owner # None => row[e].claim_owner <= gen
          /\ row[e].blocked_owner # None => row[e].blocked_owner <= gen
    /\ \A w \in Worker : worker[w] # None =>
          created[worker[w].event] # None /\ worker[w].claimed_at <= now

\* A worker either holds its claim or lost it to one made after its lease.
ClaimOrder ==
    \A w \in Worker : worker[w] # None /\ row[worker[w].event] # None =>
        LET r == row[worker[w].event]  c == worker[w].claimed_at IN
        \/ r.claim_owner = gen /\ r.claimed_at = c
        \/ /\ now >= c + Lease
           /\ r.claimed_at # None => r.claim_owner = gen /\ r.claimed_at >= c + Lease

\* The part of the inductive invariant that is about claims.
OInv == TypeOK /\ Dated /\ ClaimOrder /\ SingleFlight /\ BlockedIsParked

(* OInv holds initially. *)
LEMMA InitOInv == Init => OInv
BY OutboxAssumption
DEF Init, OInv, TypeOK, Dated, ClaimOrder, SingleFlight, BlockedIsParked, Busy, Rows,
    Time, Gen

-----------------------------------------------------------------------------
(* What the steps do to claims, in four kinds *)

\* Neither rows nor claims change; time may pass.
Quiet == UNCHANGED <<gen, created, row, worker>> /\ now' \in {now, now + 1}

\* A worker goes on with its claim (load, respond).
Continue(w) ==
    /\ UNCHANGED <<now, gen, created, row>> /\ worker[w] # None
    /\ \E n : /\ n.event = worker[w].event /\ n.claimed_at = worker[w].claimed_at
                /\ worker' = [worker EXCEPT ![w] = n]

\* A worker forgets its claim (lost, abandon).
Forget(w) ==
    UNCHANGED <<now, gen, created, row>> /\ worker' = [worker EXCEPT ![w] = None]

\* A worker settles the claim it holds (the other settlements).
Settle(w) ==
    /\ UNCHANGED <<now, gen, created>> /\ worker[w] # None /\ Holds(w)
    /\ worker' = [worker EXCEPT ![w] = None]
    /\ \E r \in Row \cup {None} :
          /\ row' = [row EXCEPT ![worker[w].event] = r]
          /\ r # None => /\ r.claimed_at = None /\ r.claim_owner = None
                         /\ r.blocked_owner \in {None, gen, row[worker[w].event].blocked_owner}

(* Every step is of one of the kinds the proofs distinguish. *)
LEMMA Kinds ==
    ASSUME TypeOK, TypeOK', [Next]_vars
    PROVE  \/ Quiet \/ Restart
           \/ \E e \in Event : enqueue(e)
           \/ \E w \in Worker, e \in Event : claim_due(w, e)
           \/ \E w \in Worker : Continue(w) \/ Forget(w) \/ Settle(w)
<1> USE DEF device, objects
<1>1. CASE Tick
    BY <1>1, Zenon DEF Tick, Quiet
<1>2. ASSUME NEW e \in Event, close(e) PROVE Quiet
    BY <1>2, Zenon DEF close, Quiet
<1>3. ASSUME NEW t \in Token \cup {None}, NEW v \in Environment, register_device(t, v)
      PROVE Quiet
    BY <1>3, Zenon DEF register_device, Quiet
<1>4. ASSUME NEW w \in Worker, load(w) PROVE Continue(w)
    BY <1>4, Zenon DEF load, Continue, TypeOK
<1>5. ASSUME NEW w \in Worker, NEW res \in Results, NEW since \in Time \cup {None},
             respond(w, res, since)
      PROVE Continue(w)
    BY <1>5, Zenon DEF respond, Continue, TypeOK
<1>6. ASSUME NEW w \in Worker, lost(w) \/ abandon(w) PROVE Forget(w)
    BY <1>6, Zenon DEF lost, abandon, Idle, Forget
<1>7. ASSUME NEW w \in Worker, acknowledge(w) PROVE Settle(w)
    BY <1>7, Zenon DEF acknowledge, Idle, SetRow, Settle
<1>8. ASSUME NEW w \in Worker,
             \/ schedule_alternate(w) \/ invalidate(w) \/ block(w)
             \/ \E d \in 1 .. MaxDelay : reschedule(w, d)
      PROVE Settle(w)
    <2>1. worker[w] # None /\ Holds(w)
        BY <1>8, Zenon DEF schedule_alternate, invalidate, block, reschedule
    <2>2. worker[w].event \in Event
        BY <2>1, Zenon DEF TypeOK, Claim, ClaimRecord
    <2>3. row'[worker[w].event] \in Row \cup {None}
        BY <2>2, Zenon DEF TypeOK
    <2>4. PICK r : /\ row' = [row EXCEPT ![worker[w].event] = r]
                   /\ r # None => /\ r.claimed_at = None /\ r.claim_owner = None
                                  /\ r.blocked_owner \in {None, gen, row[worker[w].event].blocked_owner}
        BY <1>8, Zenon DEF schedule_alternate, invalidate, block, reschedule, SetRow, Released
    <2>5. r \in Row \cup {None}
        BY <2>2, <2>3, <2>4, Zenon DEF TypeOK
    <2>6. QED
        BY <1>8, <2>1, <2>4, <2>5, Zenon DEF schedule_alternate, invalidate, block, reschedule,
                                             Idle, Settle
<1>9. CASE UNCHANGED vars
    BY <1>9, Zenon DEF vars, Quiet
<1>10. QED
    BY <1>1, <1>2, <1>3, <1>4, <1>5, <1>6, <1>7, <1>8, <1>9, Zenon
    DEF Next, Work, Answered, settle

(* Times, process numbers and the lease are integers. *)
LEMMA NumbersAreInts ==
    ASSUME TypeOK
    PROVE  now \in Int /\ gen \in Int /\ Lease \in Int /\ Lease > 0
<1>1. now \in Int
    BY OutboxAssumption DEF TypeOK, Time
<1>2. gen \in Int
    BY OutboxAssumption DEF TypeOK, Gen
<1>3. QED
    BY <1>1, <1>2, OutboxAssumption

(* Every step keeps the conjuncts of OInv about leases and claims. *)
LEMMA ClaimStep ==
    ASSUME OInv, TypeOK', [Next]_vars
    PROVE  Dated' /\ ClaimOrder' /\ SingleFlight' /\ BlockedIsParked'
<1>0. now \in Int /\ gen \in Int /\ Lease \in Int /\ Lease > 0
    BY NumbersAreInts, Zenon DEF OInv
<1>a. row \in [Event -> Row \cup {None}] /\ worker \in [Worker -> Claim \cup {None}]
    BY Zenon DEF OInv, TypeOK
<1>b. \A w \in Worker : worker[w] # None =>
         worker[w].event \in Event /\ worker[w].claimed_at \in Int
    <2>1. \A c \in Claim : c.event \in Event /\ c.claimed_at \in Int
        BY OutboxAssumption DEF Claim, ClaimRecord, Time
    <2>2. QED
        BY <1>a, <2>1, Zenon
<1>c. \A e \in Event : row[e] # None =>
         /\ row[e].claimed_at \in Int \cup {None} /\ row[e].claim_owner \in Int \cup {None}
         /\ row[e].blocked_owner \in Int \cup {None}
    <2>1. \A r \in Row : /\ r.claimed_at \in Int \cup {None} /\ r.claim_owner \in Int \cup {None}
                         /\ r.blocked_owner \in Int \cup {None}
        BY OutboxAssumption DEF Row, Time, Gen
    <2>2. QED
        BY <1>a, <2>1, Zenon
<1>d. None \notin Int
    BY OutboxAssumption, Zenon
<1>e. created \in [Event -> Time \cup {None}] /\ now # None
    BY <1>0, <1>d, Zenon DEF OInv, TypeOK
<1> USE DEF OInv
<1>1. CASE Quiet
    <2>1. UNCHANGED <<gen, created, row, worker>> /\ now' \in Int /\ now' >= now
        BY <1>0, <1>1 DEF Quiet
    <2>2. Dated'
        BY <1>0, <1>b, <2>1 DEF Dated
    <2>3. ClaimOrder'
        <3>1. \A w \in Worker : worker[w] # None /\ now >= worker[w].claimed_at + Lease
                 => now' >= worker[w].claimed_at + Lease
            BY <1>0, <1>b, <2>1
        <3>2. QED
            BY <2>1, <3>1, Zenon DEF ClaimOrder
    <2>4. SingleFlight' /\ BlockedIsParked'
        BY <2>1, Zenon DEF SingleFlight, BlockedIsParked, Busy, Rows
    <2>5. QED
        BY <2>2, <2>3, <2>4, Zenon
<1>2. CASE Restart
    <2>1. /\ gen' = gen + 1 /\ UNCHANGED <<now, created, row>>
          /\ \A w \in Worker : worker'[w] = None
        BY <1>2, Zenon DEF Restart, objects
    <2>2. Dated' /\ BlockedIsParked'
        <3>1. \A x \in Int : x <= gen => x <= gen' /\ x # gen'
            BY <1>0, <2>1
        <3>2. Dated
            BY Zenon DEF OInv
        <3>3. \A e \in Event : row[e] # None =>
                 /\ row[e].claim_owner # None => row[e].claim_owner <= gen'
                 /\ row[e].blocked_owner # None =>
                      row[e].blocked_owner <= gen' /\ row[e].blocked_owner # gen'
            BY <1>c, <3>1, <3>2, Zenon DEF Dated
        <3>4. Dated'
            BY <2>1, <3>2, <3>3, Zenon DEF Dated
        <3>5. gen' # None
            BY <1>0, <1>d, <2>1
        <3>6. ASSUME NEW e \in Event, row[e] # None
              PROVE  row[e].blocked_owner # gen'
            BY <3>3, <3>5, <3>6, Zenon
        <3>7. BlockedIsParked'
            BY <2>1, <3>6, Zenon DEF BlockedIsParked, Rows
        <3>8. QED
            BY <3>4, <3>7, Zenon
    <2>3. ClaimOrder' /\ SingleFlight'
        BY <2>1, Zenon DEF ClaimOrder, SingleFlight, Busy
    <2>4. QED
        BY <2>2, <2>3, Zenon
<1>3. ASSUME NEW e \in Event, enqueue(e)
      PROVE  Dated' /\ ClaimOrder' /\ SingleFlight' /\ BlockedIsParked'
    <2>1. UNCHANGED <<now, gen, worker>> /\ row[e] = None
        BY <1>3, Zenon DEF enqueue, Dated
    <2>2. \A w \in Worker : worker[w] # None => worker[w].event # e
        BY <1>3, Zenon DEF enqueue, Dated
    <2>3. /\ \A x \in Event : x # e => row'[x] = row[x] /\ created'[x] = created[x]
          /\ created'[e] # None
          /\ row'[e].claim_owner = None /\ row'[e].blocked_owner = None
        BY <1>a, <1>e, <1>3, Zenon DEF enqueue, SetRow, Released
    <2>4. Dated'
        BY <1>b, <2>1, <2>2, <2>3, Zenon DEF Dated
    <2>5. ClaimOrder'
        <3>1. \A w \in Worker : worker[w] # None => row'[worker[w].event] = row[worker[w].event]
            BY <1>a, <1>b, <2>2, <2>3, Zenon
        <3>2. QED
            BY <2>1, <3>1, Zenon DEF ClaimOrder
    <2>6. SingleFlight'
        BY <2>1, Zenon DEF SingleFlight, Busy
    <2>7. BlockedIsParked'
        BY <1>0, <1>d, <2>1, <2>3, Zenon DEF BlockedIsParked, Rows
    <2>8. QED
        BY <2>4, <2>5, <2>6, <2>7, Zenon
<1>4. ASSUME NEW w \in Worker, NEW e \in Event, claim_due(w, e)
      PROVE  Dated' /\ ClaimOrder' /\ SingleFlight' /\ BlockedIsParked'
    <2>1. /\ UNCHANGED <<now, gen, created>> /\ Due(e) /\ worker[w] = None
          /\ \A x \in Event : x # e => row'[x] = row[x]
          /\ row'[e].claim_owner = gen /\ row'[e].claimed_at = now
          /\ row'[e].blocked_owner = row[e].blocked_owner
          /\ \A x \in Worker : x # w => worker'[x] = worker[x]
          /\ worker'[w].event = e /\ worker'[w].claimed_at = now
        BY <1>a, <1>4, Zenon DEF claim_due, SetRow, objects
    <2>2. \A x \in Worker : Busy(x, e) => now >= worker[x].claimed_at + Lease
        <3> SUFFICES ASSUME NEW x \in Worker, Busy(x, e)
                     PROVE  now >= worker[x].claimed_at + Lease
            BY Zenon
        <3>1. /\ row[e] # None
              /\ row[e].claimed_at # None /\ row[e].claim_owner = gen
                    => row[e].claimed_at + Lease <= now
            <4>1. /\ row[e] # None
                  /\ row[e].claimed_at # None /\ row[e].claim_owner = gen
                        => row[e].claimed_at <= now - Lease
                BY <2>1, Zenon DEF Due
            <4>2. row[e].claimed_at \in Int \cup {None}
                BY <1>c, <4>1, Zenon
            <4>3. QED
                BY <1>0, <4>1, <4>2
        <3>2. worker[x] # None /\ worker[x].event = e /\ worker[x].claimed_at \in Int
            BY <1>b, Zenon DEF Busy
        <3>3. \/ row[e].claim_owner = gen /\ row[e].claimed_at = worker[x].claimed_at
              \/ now >= worker[x].claimed_at + Lease
            BY <3>1, <3>2, Zenon DEF ClaimOrder
        <3>4. QED
            BY <1>0, <1>d, <3>1, <3>2, <3>3, Zenon
    <2>3. Dated'
        <3>1. row[e] # None /\ created[e] # None /\ now <= now /\ gen <= gen
            <4>1. row[e] # None
                BY <2>1, Zenon DEF Due
            <4>2. created[e] # None
                BY <4>1, Zenon DEF Dated
            <4>3. QED
                BY <1>0, <4>1, <4>2
        <3>2. \A x \in Event : row'[x] # None =>
                 /\ created[x] # None
                 /\ row'[x].claim_owner # None => row'[x].claim_owner <= gen
                 /\ row'[x].blocked_owner # None => row'[x].blocked_owner <= gen
            BY <1>0, <1>c, <1>d, <2>1, <3>1, Zenon DEF Dated
        <3>3. \A x \in Worker : worker'[x] # None =>
                 created[worker'[x].event] # None /\ worker'[x].claimed_at <= now
            BY <1>0, <1>b, <2>1, <3>1, Zenon DEF Dated
        <3>4. QED
            BY <2>1, <3>2, <3>3, Zenon DEF Dated
    <2>4. ClaimOrder'
        <3> SUFFICES ASSUME NEW x \in Worker, worker'[x] # None, row'[worker'[x].event] # None
                     PROVE  LET r == row'[worker'[x].event]  c == worker'[x].claimed_at IN
                            \/ r.claim_owner = gen' /\ r.claimed_at = c
                            \/ /\ now' >= c + Lease
                               /\ r.claimed_at # None => r.claim_owner = gen' /\ r.claimed_at >= c + Lease
            BY Zenon DEF ClaimOrder
        <3>1. CASE x = w
            BY <2>1, <3>1, Zenon
        <3>2. CASE x # w /\ worker[x].event = e
            <4>1. worker'[x] = worker[x] /\ Busy(x, e)
                BY <2>1, <3>2, Zenon DEF Busy
            <4>2. now >= worker[x].claimed_at + Lease
                BY <2>2, <4>1, Zenon
            <4>3. QED
                BY <2>1, <3>2, <4>1, <4>2, Zenon
        <3>3. CASE x # w /\ worker[x].event # e
            <4>1. worker'[x] = worker[x] /\ worker[x] # None
                BY <2>1, <3>3, Zenon
            <4>2. worker[x].event \in Event
                BY <1>b, <4>1, Zenon
            <4>3. row'[worker'[x].event] = row[worker[x].event]
                BY <2>1, <3>3, <4>1, <4>2, Zenon
            <4>4. now' = now /\ gen' = gen
                BY <2>1, Zenon
            <4>5. QED
                BY <4>1, <4>3, <4>4, Zenon DEF ClaimOrder
        <3>4. QED
            BY <3>1, <3>2, <3>3, Zenon
    <2>5. SingleFlight'
        <3> SUFFICES ASSUME NEW x \in Worker, NEW y \in Worker, NEW f \in Event,
                            x # y, Busy(x, f)', Busy(y, f)'
                     PROVE  \/ worker'[x].claimed_at >= worker'[y].claimed_at + Lease
                            \/ worker'[y].claimed_at >= worker'[x].claimed_at + Lease
            BY Zenon DEF SingleFlight
        <3>1. CASE x = w
            BY <1>0, <1>b, <2>1, <2>2, <3>1, Zenon DEF Busy
        <3>2. CASE y = w
            BY <1>0, <1>b, <2>1, <2>2, <3>2, Zenon DEF Busy
        <3>3. CASE x # w /\ y # w
            BY <2>1, <3>3, Zenon DEF Busy, SingleFlight
        <3>4. QED
            BY <3>1, <3>2, <3>3, Zenon
    <2>6. BlockedIsParked'
        BY <1>a, <2>1, Zenon DEF BlockedIsParked, Due, Rows
    <2>7. QED
        BY <2>3, <2>4, <2>5, <2>6, Zenon
<1>5. ASSUME NEW w \in Worker, Continue(w) \/ Forget(w)
      PROVE  Dated' /\ ClaimOrder' /\ SingleFlight' /\ BlockedIsParked'
    <2>1. /\ UNCHANGED <<now, gen, created, row>>
          /\ \A x \in Worker : x # w => worker'[x] = worker[x]
          /\ worker'[w] # None =>
                /\ worker[w] # None
                /\ worker'[w].event = worker[w].event
                /\ worker'[w].claimed_at = worker[w].claimed_at
        BY <1>a, <1>5, Zenon DEF Continue, Forget
    <2>2. \A x \in Worker : worker'[x] # None =>
             /\ worker[x] # None
             /\ worker'[x].event = worker[x].event
             /\ worker'[x].claimed_at = worker[x].claimed_at
        BY <2>1, Zenon
    <2>3. Dated' /\ BlockedIsParked'
        BY <1>b, <2>1, <2>2, Zenon DEF Dated, BlockedIsParked, Rows
    <2>4. ClaimOrder'
        BY <2>1, <2>2, Zenon DEF ClaimOrder
    <2>5. SingleFlight'
        BY <2>1, <2>2, Zenon DEF SingleFlight, Busy
    <2>6. QED
        BY <2>5, <2>3, <2>4, Zenon
<1>6. ASSUME NEW w \in Worker, Settle(w)
      PROVE  Dated' /\ ClaimOrder' /\ SingleFlight' /\ BlockedIsParked'
    <2> DEFINE e == worker[w].event
    <2>1. /\ UNCHANGED <<now, gen, created>> /\ e \in Event
          /\ Busy(w, e) /\ Holds(w)
          /\ \A x \in Event : x # e => row'[x] = row[x]
          /\ row'[e] # None =>
                /\ row'[e].claimed_at = None /\ row'[e].claim_owner = None
                /\ row'[e].blocked_owner \in {None, gen, row[e].blocked_owner}
          /\ \A x \in Worker : x # w => worker'[x] = worker[x]
          /\ worker'[w] = None
        BY <1>a, <1>b, <1>6, Zenon DEF Settle, Busy
    <2>2. \A x \in Worker \ {w} : Busy(x, e) => now >= worker[x].claimed_at + Lease
        <3> SUFFICES ASSUME NEW x \in Worker \ {w}, Busy(x, e)
                     PROVE  now >= worker[x].claimed_at + Lease
            BY Zenon
        <3>1. /\ row[e] # None /\ row[e].claimed_at = worker[w].claimed_at
              /\ worker[x] # None /\ worker[x].event = e
            BY <2>1, Zenon DEF Holds, Busy
        <3>2. worker[x].claimed_at \in Int /\ worker[w].claimed_at \in Int
            BY <1>b, <2>1, <3>1, Zenon DEF Busy
        <3>3. \/ worker[x].claimed_at >= worker[w].claimed_at + Lease
              \/ worker[w].claimed_at >= worker[x].claimed_at + Lease
            BY <2>1, Zenon DEF SingleFlight
        <3>4. \/ row[e].claimed_at = worker[x].claimed_at
              \/ now >= worker[x].claimed_at + Lease
            BY <3>1, Zenon DEF ClaimOrder
        <3>5. QED
            BY <1>0, <3>1, <3>2, <3>3, <3>4
    <2>3. SingleFlight'
        <3>1. \A x \in Worker, y \in Event : Busy(x, y)' =>
                 Busy(x, y) /\ worker'[x].claimed_at = worker[x].claimed_at
            BY <2>1, Zenon DEF Busy
        <3>2. QED
            BY <3>1, Zenon DEF SingleFlight
    <2>4. Dated'
        BY <1>0, <1>c, <1>d, <1>b, <2>1, Zenon DEF Dated, Holds
    <2>5. BlockedIsParked'
        BY <1>0, <1>d, <2>1, Zenon DEF BlockedIsParked, Rows
    <2>6. ClaimOrder'
        <3> SUFFICES ASSUME NEW x \in Worker, worker'[x] # None, row'[worker'[x].event] # None
                     PROVE  LET r == row'[worker'[x].event]  c == worker'[x].claimed_at IN
                            \/ r.claim_owner = gen' /\ r.claimed_at = c
                            \/ /\ now' >= c + Lease
                               /\ r.claimed_at # None => r.claim_owner = gen' /\ r.claimed_at >= c + Lease
            BY Zenon DEF ClaimOrder
        <3>1. x # w /\ worker'[x] = worker[x] /\ worker[x] # None
            BY <2>1, Zenon
        <3>2. worker[x].event \in Event /\ now' = now /\ gen' = gen
            BY <1>b, <2>1, <3>1, Zenon
        <3>3. CASE worker[x].event = e
            <4>1. now >= worker[x].claimed_at + Lease
                BY <2>2, <3>1, <3>3, Zenon DEF Busy
            <4>2. row'[e].claimed_at = None
                BY <2>1, <3>1, <3>3, Zenon
            <4>3. QED
                BY <3>1, <3>2, <3>3, <4>1, <4>2, Zenon
        <3>4. CASE worker[x].event # e
            <4>1. row'[worker'[x].event] = row[worker[x].event]
                BY <2>1, <3>1, <3>2, <3>4, Zenon
            <4>2. QED
                BY <3>1, <3>2, <4>1, Zenon DEF ClaimOrder
        <3>5. QED
            BY <3>3, <3>4, Zenon
    <2>7. QED
        BY <2>3, <2>6, <2>4, <2>5, Zenon
<1>7. QED
    BY <1>1, <1>2, <1>3, <1>4, <1>5, <1>6, Kinds, Zenon

\* The claims of the outbox stay in order through every step of the service,
\* the device, the workers and the process.
THEOREM ClaimsInOrder == Spec => []OInv
<1>1. OInv /\ [Next]_vars => OInv'
    BY TypeStep, ClaimStep, Zenon DEF OInv
<1>2. QED
    BY InitOInv, <1>1, PTL DEF Spec

\* No two workers work on one event within a lease (claim_due's WHERE clause
\* and the settlements' fencing by claimed_at and claim_owner).
THEOREM ClaimsAreExclusive == Spec => []SingleFlight
BY ClaimsInOrder, PTL DEF OInv

\* A process leaves alone what it blocked.
THEOREM BlocksHold == Spec => []BlockedIsParked
BY ClaimsInOrder, PTL DEF OInv
-----------------------------------------------------------------------------
(* Which events go *)

\* Why an event no longer needs to be delivered, for good: unlike Wanted, it
\* does not ask whether the newer event is still pending.
Pointless(e) ==
    \/ over[e]
    \/ ~fresh(e)
    \/ Kind = "direct_message" /\ \E x \in Event : x > e /\ created[x] # None

\* A worker that is about to drop its event found it pointless, or no token.
DropsAreDue ==
    \A w \in Worker : worker[w] # None /\ worker[w].pc = "drop" =>
        worker[w].token = None \/ Pointless(worker[w].event)

(* What every step does to events and to the clock. *)
LEMMA ObjectsStep ==
    ASSUME TypeOK, [Next]_vars
    PROVE  /\ \A x \in Event : over[x] => over'[x]
           /\ \A x \in Event : created[x] # None => created'[x] = created[x]
           /\ now' = now \/ now' = now + 1
<1> USE DEF device, objects
<1>1. ASSUME NEW e \in Event, enqueue(e)
      PROVE  /\ over' = over /\ now' = now
             /\ \A x \in Event : created[x] # None => created'[x] = created[x]
    BY <1>1, Zenon DEF enqueue, TypeOK
<1>2. ASSUME NEW e \in Event, close(e)
      PROVE  created' = created /\ now' = now /\ \A x \in Event : over[x] => over'[x]
    BY <1>2, Zenon DEF close
<1>3. CASE Tick
    BY <1>3, Zenon DEF Tick
<1>4. CASE UNCHANGED <<created, over, now>>
    BY <1>4, Zenon
<1>5. QED
    BY <1>1, <1>2, <1>3, <1>4, Zenon
    DEF Next, Work, Answered, settle, Restart, register_device, claim_due, load, respond, abandon,
        lost, acknowledge, schedule_alternate, invalidate, reschedule, block, vars

(* An event that has become pointless stays so. *)
LEMMA PointlessStays ==
    ASSUME TypeOK, TypeOK', [Next]_vars, NEW e \in Event, created[e] # None, Pointless(e)
    PROVE  Pointless(e)'
<1>1. /\ over[e] => over'[e]
      /\ created'[e] = created[e]
      /\ \A x \in Event : created[x] # None => created'[x] # None
      /\ now' = now \/ now' = now + 1
    BY ObjectsStep, Zenon
<1>2. ASSUME ~fresh(e) PROVE ~(now' - created'[e] <= TTL)
    <2>1. created[e] \in Int /\ now \in Int /\ TTL \in Int
        BY OutboxAssumption DEF TypeOK, Time
    <2>2. QED
        BY <1>1, <1>2, <2>1 DEF fresh
<1>3. QED
    BY <1>1, <1>2, Zenon DEF Pointless, fresh

(* A worker comes to drop an event by load only. *)
LEMMA DropStep ==
    ASSUME TypeOK, [Next]_vars, NEW w \in Worker, worker'[w] # None, worker'[w].pc = "drop"
    PROVE  worker'[w] = worker[w] \/ load(w)
<1> USE DEF device, objects
<1>0. worker \in [Worker -> Claim \cup {None}]
    BY Zenon DEF TypeOK
<1>1. ASSUME NEW x \in Worker, NEW e \in Event, claim_due(x, e) PROVE worker'[w] = worker[w]
    <2>1. x = w => worker'[w].pc = "load"
        BY <1>0, <1>1, Zenon DEF claim_due
    <2>2. QED
        BY <1>0, <1>1, <2>1, Zenon DEF claim_due
<1>2. ASSUME NEW x \in Worker, load(x) PROVE worker'[w] = worker[w] \/ x = w
    BY <1>0, <1>2, Zenon DEF load
<1>3. ASSUME NEW x \in Worker, NEW res \in Results, NEW since \in Time \cup {None},
             respond(x, res, since)
      PROVE  worker'[w] = worker[w]
    <2>1. x = w => worker'[w].pc = "settle"
        BY <1>0, <1>3, Zenon DEF respond
    <2>2. QED
        BY <1>0, <1>3, <2>1, Zenon DEF respond
<1>4. ASSUME NEW x \in Worker, Idle(x) PROVE worker'[w] = worker[w]
    BY <1>0, <1>4, Zenon DEF Idle
<1>5. CASE Restart
    BY <1>5, Zenon DEF Restart
<1>6. CASE UNCHANGED worker
    BY <1>6, Zenon
<1>7. QED
    BY <1>1, <1>2, <1>3, <1>4, <1>5, <1>6, Zenon
    DEF Next, Work, Answered, settle, Tick, enqueue, close, register_device, abandon,
        lost, acknowledge, schedule_alternate, invalidate, reschedule, block, vars

LEMMA DropsStep ==
    ASSUME OInv, OInv', DropsAreDue, [Next]_vars
    PROVE  DropsAreDue'
<1>0. TypeOK /\ TypeOK' /\ Dated
    BY Zenon DEF OInv
<1> SUFFICES ASSUME NEW w \in Worker, worker'[w] # None, worker'[w].pc = "drop"
             PROVE  worker'[w].token = None \/ Pointless(worker[w].event)'
    BY Zenon DEF DropsAreDue
<1>1. CASE worker'[w] = worker[w]
    <2> DEFINE e == worker[w].event
    <2>1. worker[w] # None /\ worker[w].pc = "drop" /\ e \in Event /\ created[e] # None
        BY <1>0, <1>1, Zenon DEF TypeOK, Claim, ClaimRecord, Dated
    <2>2. worker[w].token = None \/ Pointless(e)
        BY <2>1, Zenon DEF DropsAreDue
    <2>3. PICK x \in Event : x = e
        BY <2>1, Zenon
    <2>4. Pointless(x) => Pointless(x)'
        BY <1>0, <2>1, <2>3, PointlessStays, Zenon
    <2>5. QED
        BY <1>1, <2>2, <2>3, <2>4, Zenon DEF Pointless, fresh
<1>2. CASE load(w)
    <2>1. worker[w] \in Claim
        BY <1>0, <1>2, Zenon DEF load, TypeOK
    <2>2. PICK e \in Event : e = worker[w].event
        BY <2>1, Zenon DEF Claim, ClaimRecord
    <2>3. /\ worker'[w].event = e /\ worker'[w].token = token
          /\ ~(Wanted(e) /\ token # None)
          /\ over' = over /\ created' = created /\ now' = now
        BY <1>0, <1>2, <2>2, Zenon DEF load, TypeOK, objects
    <2>4. token = None \/ Pointless(e)
        BY <1>0, <2>3, Zenon DEF Wanted, Pointless, newer_event_pending, Rows, Dated
    <2>5. QED
        BY <2>3, <2>4, Zenon DEF Pointless, fresh
<1>3. QED
    BY <1>0, <1>1, <1>2, DropStep, Zenon

\* Whoever drops an event has a reason that outlives the database lock.
THEOREM DropsAreAlwaysDue == Spec => [](OInv /\ DropsAreDue)
<1>1. Init => DropsAreDue
    BY Zenon DEF Init, DropsAreDue
<1>2. QED
    BY <1>1, ClaimsInOrder, DropsStep, PTL DEF Spec

(* A row is deleted by a worker that acknowledges its event, or together   *)
(* with the token.                                                         *)
LEMMA Deletion ==
    ASSUME TypeOK, [Next]_vars, NEW e \in Event, Deleted(e)
    PROVE  (\E w \in Worker : acknowledge(w) /\ worker[w].event = e) \/ token' = None
<1> USE DEF device, objects
<1>0. row \in [Event -> Row \cup {None}] /\ row[e] # None /\ row'[e] = None
    BY Zenon DEF TypeOK, Deleted
<1>1. ASSUME NEW x \in Event, NEW r \in Row, SetRow(x, r) PROVE FALSE
    BY <1>0, <1>1, NoneIsNoRow, Zenon DEF SetRow
<1>2. ASSUME NEW x \in Event, enqueue(x) PROVE FALSE
    <2>1. Released(now, None, None, None) \in Row
        BY Zenon DEF Released, Row, TypeOK
    <2>2. QED
        BY <1>1, <1>2, <2>1, Zenon DEF enqueue
<1>3. ASSUME NEW w \in Worker, NEW x \in Event, claim_due(w, x) PROVE FALSE
    <2> DEFINE r == [next_attempt_at |-> row[x].next_attempt_at, claimed_at |-> now,
                     claim_owner |-> gen, blocked_owner |-> row[x].blocked_owner,
                     environment |-> row[x].environment, digest |-> row[x].digest]
    <2>1. row[x] \in Row
        BY <1>0, <1>3, Zenon DEF claim_due, Due
    <2>2. r \in Row
        BY <2>1, Zenon DEF Row, TypeOK
    <2>3. SetRow(x, r)
        BY <1>3, Zenon DEF claim_due
    <2> HIDE DEF r
    <2>4. QED
        BY <1>1, <2>2, <2>3, Zenon
<1>4. ASSUME NEW w \in Worker, acknowledge(w) PROVE worker[w].event = e
    <2>1. worker[w].event \in Event
        BY <1>4, Zenon DEF acknowledge, TypeOK, Claim, ClaimRecord
    <2>2. QED
        BY <1>0, <1>4, <2>1, Zenon DEF acknowledge, SetRow
<1>5. ASSUME NEW w \in Worker, worker[w] # None, Holds(w)
      PROVE  worker[w] \in Claim /\ worker[w].event \in Event /\ row[worker[w].event] \in Row
    BY <1>0, <1>5, Zenon DEF Holds, TypeOK, Claim, ClaimRecord
<1>6. ASSUME NEW w \in Worker, schedule_alternate(w) PROVE FALSE
    <2>1. worker[w] \in Claim /\ worker[w].event \in Event
        BY <1>5, <1>6, Zenon DEF schedule_alternate
    <2>2. Released(now, None, alternate(worker[w].environment), worker[w].token) \in Row
        BY <2>1, Zenon DEF Released, Row, TypeOK, Claim, ClaimRecord, alternate, Environment
    <2>3. QED
        BY <1>1, <1>6, <2>1, <2>2, Zenon DEF schedule_alternate
<1>7. ASSUME NEW w \in Worker, invalidate(w) PROVE token' = None
    <2> DEFINE x == worker[w].event
    <2>1. x \in Event /\ row[x] \in Row
        BY <1>5, <1>7, Zenon DEF invalidate
    <2>2. Released(now, row[x].blocked_owner, row[x].environment, row[x].digest) \in Row
        BY <2>1, Zenon DEF Released, Row, TypeOK
    <2>3. \/ token' = None
          \/ SetRow(x, Released(now, row[x].blocked_owner, row[x].environment, row[x].digest))
        BY <1>7, Zenon DEF invalidate
    <2>4. QED
        BY <1>1, <2>1, <2>2, <2>3, Zenon
<1>8. ASSUME NEW w \in Worker, NEW d \in 1 .. MaxDelay, reschedule(w, d) PROVE FALSE
    <2> DEFINE x == worker[w].event
               t == IF now + d <= MaxTime THEN now + d ELSE MaxTime
    <2>1. x \in Event /\ row[x] \in Row
        BY <1>5, <1>8, Zenon DEF reschedule
    <2>2. t \in Time
        BY OutboxAssumption DEF Time, TypeOK
    <2>3. SetRow(x, Released(t, row[x].blocked_owner, row[x].environment, row[x].digest))
        BY <1>8, Zenon DEF reschedule
    <2> HIDE DEF t
    <2>4. Released(t, row[x].blocked_owner, row[x].environment, row[x].digest) \in Row
        BY <2>1, <2>2, Zenon DEF Released, Row
    <2>5. QED
        BY <1>1, <2>1, <2>3, <2>4, Zenon
<1>9. ASSUME NEW w \in Worker, block(w) PROVE FALSE
    <2> DEFINE x == worker[w].event
    <2>1. x \in Event /\ row[x] \in Row
        BY <1>5, <1>9, Zenon DEF block
    <2>2. Released(row[x].next_attempt_at, gen, row[x].environment, row[x].digest) \in Row
        BY <2>1, Zenon DEF Released, Row, TypeOK
    <2>3. QED
        BY <1>1, <1>9, <2>1, <2>2, Zenon DEF block
<1>10. CASE UNCHANGED row
    BY <1>0, <1>10, Zenon
<1>11. QED
    BY <1>2, <1>3, <1>4, <1>6, <1>7, <1>8, <1>9, <1>10, Zenon
    DEF Next, Work, Answered, settle, Tick, Restart, close, register_device, load, respond,
        abandon, lost, vars

(* What an event that goes had coming to it. *)
LEMMA DeletionIsDue ==
    ASSUME OInv, DropsAreDue, [Next]_vars, NEW e \in Event, Deleted(e)
    PROVE  \/ Brings(e, {"ok", "terminal"}) \/ FoundTokenless(e)
           \/ Pointless(e) \/ token' = None
<1>0. TypeOK
    BY Zenon DEF OInv
<1>1. ASSUME NEW w \in Worker, acknowledge(w), worker[w].event = e
      PROVE  Brings(e, {"ok", "terminal"}) \/ FoundTokenless(e) \/ Pointless(e)
    <2>1. worker[w] # None /\ Busy(w, e)
        BY <1>1, Zenon DEF acknowledge, Busy
    <2>2. CASE worker[w].pc = "drop"
        BY <1>1, <2>1, <2>2, Zenon DEF DropsAreDue, FoundTokenless
    <2>3. CASE worker[w].result \in {"ok", "terminal"}
        BY <2>1, <2>3, Zenon DEF Brings
    <2>4. QED
        BY <1>1, <2>2, <2>3, Zenon DEF acknowledge
<1>2. QED
    BY <1>0, <1>1, Deletion, Zenon

\* The alert of the newest message, unread and young, goes only after APNs took
\* or refused it, or for want of a token (load_apns_outbox_delivery), whatever
\* becomes of the newer alerts it was compared with.
THEOREM NewestAlertsSurvive == Spec => NewestAlertSurvives
<1> DEFINE A == \A e \in Event :
          /\ Deleted(e) /\ ~over[e] /\ now - created[e] <= TTL
          /\ \A x \in Event : x > e => created[x] = None
          => \/ Brings(e, {"ok", "terminal"}) \/ FoundTokenless(e)
             \/ token' = None
<1>1. ASSUME OInv, DropsAreDue, [Next]_vars PROVE A
    BY <1>1, DeletionIsDue, Zenon DEF Pointless, fresh
<1>2. OInv /\ DropsAreDue /\ [Next]_vars => [A]_vars
    BY <1>1, Zenon
<1>3. QED
    BY <1>2, DropsAreAlwaysDue, PTL DEF Spec, NewestAlertSurvives

\* A wanted call invitation is not lost to a rotation of the token while its
\* request is in flight (invalidate_apns_outbox_token). For messages Wanted also
\* asks that no newer alert is pending, which may change back: that case is
\* NewestAlertsSurvive.
THEOREM RotationsRetain == (Kind = "call_invite") /\ Spec => RotationRetains
<1> DEFINE A == \A e \in Event : Deleted(e) /\ Wanted(e) =>
          \/ Brings(e, {"ok", "terminal"}) \/ FoundTokenless(e)
          \/ token' = None
<1>1. ASSUME Kind = "call_invite", OInv, DropsAreDue, [Next]_vars PROVE A
    <2>1. Kind # "direct_message"
        BY <1>1
    <2>2. QED
        BY <1>1, <2>1, DeletionIsDue, Zenon DEF Pointless, fresh, Wanted
<1>2. (Kind = "call_invite") /\ OInv /\ DropsAreDue /\ [Next]_vars => [A]_vars
    BY <1>1, Zenon
<1>3. (Kind = "call_invite") => [](Kind = "call_invite")
    OBVIOUS
<1>4. QED
    BY <1>2, <1>3, DropsAreAlwaysDue, PTL DEF Spec, RotationRetains

\* A worker changes the endpoint of a device only to the one where APNs just
\* accepted the device's present token (acknowledge_apns_outbox_event).
THEOREM EndpointsAreProven == Spec => EndpointIsProven
<1> DEFINE A == row' # row /\ environment' # environment =>
          \E w \in Worker :
             /\ worker[w] # None /\ worker[w].result = "ok"
             /\ worker[w].token = token /\ worker[w].environment = environment'
<1>1. ASSUME [Next]_vars PROVE A
    <2> SUFFICES ASSUME row' # row, environment' # environment
                 PROVE  \E w \in Worker :
                           /\ worker[w] # None /\ worker[w].result = "ok"
                           /\ worker[w].token = token /\ worker[w].environment = environment'
        BY Zenon
    <2>1. PICK w \in Worker : acknowledge(w)
        BY <1>1, Zenon DEF Next, Work, Answered, settle, Tick, Restart, enqueue, close,
           register_device, claim_due, load, respond, abandon, lost, schedule_alternate,
           invalidate, reschedule, block, device, objects, vars
    <2>2. QED
        BY <2>1, Zenon DEF acknowledge
<1>2. [Next]_vars => [A]_vars
    BY <1>1, Zenon
<1>3. QED
    BY <1>2, PTL DEF Spec, EndpointIsProven
=============================================================================
