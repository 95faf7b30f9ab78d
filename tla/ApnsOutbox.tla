----------------------------- MODULE ApnsOutbox -----------------------------
(***************************************************************************)
(* The durable APNs outbox of services/call-api: the events of one kind    *)
(* ("call_invite" or "direct_message") for one device, the worker tasks    *)
(* that claim, revalidate, send and settle them, process restarts, and the *)
(* device registering push tokens meanwhile.                               *)
(*                                                                         *)
(* A worker takes the database lock three times (claim, load, settle) and  *)
(* holds nothing while its HTTP request is in flight, so each of these is  *)
(* an action.  Worker tasks die with their process; rows do not.           *)
(*                                                                         *)
(* Abstracted: payloads, badges, provider tokens; the backoff is any delay *)
(* up to MaxDelay (so "attempts", which only selects it, is left out);     *)
(* what makes an event pointless (the call left RINGING on this target,    *)
(* the message was read, the device left the account) is "over".           *)
(***************************************************************************)
EXTENDS Integers, FiniteSets

CONSTANTS Kind,         \* the event kind this pool of workers serves
          Worker, Token, None,
          MaxEvents,    \* bound on events; their ids grow like message_id
          Pool,         \* APNS_VOIP_OUTBOX_WORKERS, as an admission limit
          Lease,        \* APNS_OUTBOX_CLAIM_LEASE_SECONDS (120 in the code)
          TTL,          \* INVITE_TTL_SECONDS or PUSH_ALERT_MAX_AGE_SECONDS
          MaxDelay,     \* longest backoff
          MaxGen,       \* bound on process generations
          MaxRegs,      \* bound on registrations
          MaxTime       \* bound on the clock

ASSUME OutboxAssumption ==
    /\ Kind \in {"call_invite", "direct_message"}
    /\ MaxEvents \in Nat /\ Pool \in Nat /\ TTL \in Nat /\ MaxDelay \in Nat
    /\ Lease \in Nat \ {0} /\ MaxGen \in Nat /\ MaxRegs \in Nat /\ MaxTime \in Nat
    /\ None \notin Token \cup Int \cup {"sandbox", "production"}

VARIABLES now,            \* unix_time()
          gen,            \* apns_outbox_owner, fresh at each process start
          token,          \* devices.voip_push_token or alert_push_token
          environment,    \* devices.push_environment
          registered_at,  \* devices.*_push_token_registered_at_ms
          regs,           \* how often the device has registered (a bound)
          created,        \* created_at of the event's call or message
          over,           \* the event has become pointless
          row,            \* apns_outbox
          worker,         \* what each worker task holds
          refused         \* history: where APNs answered BadDeviceToken

device == <<token, environment, registered_at, regs>>
objects == <<created, over>>
vars == <<now, gen, device, objects, row, worker, refused>>

Event == 1 .. MaxEvents
Time == 0 .. MaxTime
Gen == 0 .. MaxGen
Environment == {"sandbox", "production"}
alternate(v) == IF v = "sandbox" THEN "production" ELSE "sandbox"
Row == [next_attempt_at : Time, claimed_at : Time \cup {None}, claim_owner : Gen \cup {None},
        blocked_owner : Gen \cup {None}, environment : Environment \cup {None},
        digest : Token \cup {None}]
ASSUME NoneIsNoRow == None \notin Row

ClaimRecord ==
    [pc : {"load", "drop", "http", "settle"}, event : Event, claimed_at : Time,
     token : Token \cup {None}, environment : Environment \cup {None}, override : BOOLEAN,
     result : {"none", "ok", "bad", "gone", "terminal", "transient", "config"},
     since : Time \cup {None}]
Claim == {c \in ClaimRecord :
            /\ c.pc \in {"http", "settle"} => c.token # None /\ c.environment # None
            /\ c.pc # "settle" => c.result = "none"}

Init ==
    /\ now = 0 /\ gen = 0
    /\ token \in Token /\ environment \in Environment
    /\ registered_at = 0 /\ regs = 0
    /\ created = [e \in Event |-> None]
    /\ over = [e \in Event |-> FALSE]
    /\ row = [e \in Event |-> None]
    /\ worker = [w \in Worker |-> None]
    /\ refused = {}
-----------------------------------------------------------------------------
(* What a worker looks at *)

Rows == {e \in Event : row[e] # None}

\* invite_is_fresh and push_alert_is_fresh.
fresh(e) == now - created[e] <= TTL

\* Bug: any other pending event suppresses this one.
BugNewer(e) == Rows \ {e} # {}

newer_event_pending(e) == \E x \in Rows : x > e

\* What load revalidates besides the token.
Wanted(e) == ~over[e] /\ fresh(e) /\ (Kind = "direct_message" => ~newer_event_pending(e))

\* Bug: a block of this process is not looked at.
BugDue(e) ==
    /\ row[e] # None /\ row[e].next_attempt_at <= now
    /\ row[e].claimed_at # None /\ row[e].claim_owner = gen =>
          row[e].claimed_at <= now - Lease

\* Bug: a claim is not looked at.
BugDueClaimed(e) ==
    /\ row[e] # None /\ row[e].next_attempt_at <= now
    /\ row[e].blocked_owner # gen

\* Bug: no lease, a claim of this process is never taken over.
BugDueNoLease(e) ==
    /\ row[e] # None /\ row[e].next_attempt_at <= now
    /\ row[e].blocked_owner # gen
    /\ row[e].claimed_at # None => row[e].claim_owner # gen

\* The WHERE clause of the claim: due, not blocked by this process, and free,
\* left by another process or held beyond the lease.
Due(e) ==
    /\ row[e] # None /\ row[e].next_attempt_at <= now
    /\ row[e].blocked_owner # gen
    /\ row[e].claimed_at # None /\ row[e].claim_owner = gen =>
          row[e].claimed_at <= now - Lease

\* ORDER BY next_attempt_at, created_at, event_id (a digest: any order).
First(e) == \A x \in Event : Due(x) =>
    \/ row[e].next_attempt_at < row[x].next_attempt_at
    \/ row[e].next_attempt_at = row[x].next_attempt_at /\ created[e] <= created[x]

\* WHERE event_id = .. AND claimed_at = .. AND claim_owner = ..
Holds(w) == LET e == worker[w].event
            IN  /\ row[e] # None /\ row[e].claim_owner = gen
                /\ row[e].claimed_at = worker[w].claimed_at

Idle(w) == worker' = [worker EXCEPT ![w] = None]
SetRow(e, r) == row' = [row EXCEPT ![e] = r]

\* The row of e after a settlement that keeps it: unclaimed again.
Released(next, blocked, env, digest) ==
    [next_attempt_at |-> next, claimed_at |-> None, claim_owner |-> None,
     blocked_owner |-> blocked, environment |-> env, digest |-> digest]
-----------------------------------------------------------------------------
(* The rest of the service and the device *)

\* new_call_admission_is_allowed, for one more event: every row counts.
Admitted == Kind = "call_invite" => Cardinality(Rows) < Pool

\* create_call or send_direct_message stores an event with its object.  Events
\* are created early enough for the bounded clock to outlive them.
enqueue(e) ==
    /\ created[e] = None /\ \A x \in Event : x < e => created[x] # None
    /\ token # None /\ Admitted
    /\ now + TTL < MaxTime
    /\ created' = [created EXCEPT ![e] = now]
    /\ SetRow(e, Released(now, None, None, None))
    /\ UNCHANGED <<now, gen, device, over, worker, refused>>

\* The call is answered, declined, cancelled or missed; reading a message
\* reads the ones before it; or the device leaves the account.
close(e) ==
    /\ created[e] # None /\ ~over[e]
    /\ over' = [x \in Event |->
          over[x] \/ x = e \/ (Kind = "direct_message" /\ x < e)]
    /\ UNCHANGED <<now, gen, device, created, row, worker, refused>>

\* register_device overwrites token, environment and registration time.
register_device(t, v) ==
    /\ regs < MaxRegs /\ regs' = regs + 1
    /\ token' = t /\ environment' = v /\ registered_at' = now
    /\ UNCHANGED <<now, gen, objects, row, worker, refused>>

\* The process stops, cleanly or not, and starts again.
Restart ==
    /\ gen < MaxGen
    /\ gen' = gen + 1
    /\ worker' = [w \in Worker |-> None]
    /\ UNCHANGED <<now, device, objects, row, refused>>

Tick ==
    /\ now < MaxTime
    /\ now' = now + 1
    /\ UNCHANGED <<gen, device, objects, row, worker, refused>>
-----------------------------------------------------------------------------
(* process_one_apns_outbox_event *)

claim_due(w, e) ==
    /\ worker[w] = None
    /\ Due(e) /\ First(e)
    /\ SetRow(e, [next_attempt_at |-> row[e].next_attempt_at, claimed_at |-> now,
                  claim_owner |-> gen, blocked_owner |-> row[e].blocked_owner,
                  environment |-> row[e].environment, digest |-> row[e].digest])
    /\ worker' = [worker EXCEPT ![w] =
          [pc |-> "load", event |-> e, claimed_at |-> now, token |-> row[e].digest,
           environment |-> row[e].environment, override |-> FALSE, result |-> "none",
           since |-> None]]
    /\ UNCHANGED <<now, gen, device, objects, refused>>

\* Bug: the override is used whatever token it was recorded for.
BugOverride(c) == c.environment # None

\* apns_outbox_delivery_environment: an override holds for its own token only.
Override(c) == c.environment # None /\ c.token = token

\* load_apns_outbox_delivery, with the override columns read by the claim.
load(w) ==
    LET c == worker[w] IN
    /\ c # None /\ c.pc = "load"
    /\ worker' = [worker EXCEPT ![w] =
          [pc |-> IF Wanted(c.event) /\ token # None THEN "http" ELSE "drop",
           event |-> c.event, claimed_at |-> c.claimed_at, token |-> token,
           environment |-> IF Override(c) THEN c.environment ELSE environment,
           override |-> Override(c), result |-> "none", since |-> None]]
    /\ UNCHANGED <<now, gen, device, objects, row, refused>>

\* APNs refused the one request of this claim (send_once).  "transient" also
\* stands for a request that never got an answer, delivered or not.
respond(w, res, since) ==
    LET c == worker[w] IN
    /\ c # None /\ c.pc = "http"
    /\ since # None => res = "gone" /\ since <= now
    /\ worker' = [worker EXCEPT ![w] =
          [pc |-> "settle", event |-> c.event, claimed_at |-> c.claimed_at,
           token |-> c.token, environment |-> c.environment,
           override |-> c.override, result |-> res, since |-> since]]
    /\ refused' = IF res = "bad" THEN refused \cup {<<c.token, c.environment>>} ELSE refused
    /\ UNCHANGED <<now, gen, device, objects, row>>

\* An error before or while settling (`?` on the database): the task goes back
\* to its loop and leaves the claim behind.
abandon(w) ==
    /\ worker[w] # None /\ worker[w].pc # "http" /\ now + Lease <= MaxTime
    /\ Idle(w)
    /\ UNCHANGED <<now, gen, device, objects, row, refused>>
-----------------------------------------------------------------------------
(* Settling.  A claim that was lost changes nothing. *)

\* A settlement that finds its claim gone.
lost(w) ==
    /\ worker[w] # None /\ worker[w].pc \in {"drop", "settle"}
    /\ ~Holds(w)
    /\ Idle(w)
    /\ UNCHANGED <<now, gen, device, objects, row, refused>>

\* Bug: the endpoint is learned without comparing the token.
BugAcknowledge(w) ==
    LET c == worker[w] IN
    /\ c # None /\ Holds(w)
    /\ c.pc = "drop" \/ (c.pc = "settle" /\ c.result \in {"ok", "terminal"})
    /\ SetRow(c.event, None)
    /\ environment' = IF c.result = "ok" /\ c.override THEN c.environment ELSE environment
    /\ Idle(w)
    /\ UNCHANGED <<now, gen, token, registered_at, regs, objects, refused>>

\* acknowledge_apns_outbox_event: nothing to deliver, delivered, or refused for
\* good; a success on the other endpoint is remembered for its token.
acknowledge(w) ==
    LET c == worker[w] IN
    /\ c # None /\ Holds(w)
    /\ c.pc = "drop" \/ (c.pc = "settle" /\ c.result \in {"ok", "terminal"})
    /\ SetRow(c.event, None)
    /\ environment' = IF c.result = "ok" /\ c.override /\ token = c.token
                      THEN c.environment ELSE environment
    /\ Idle(w)
    /\ UNCHANGED <<now, gen, token, registered_at, regs, objects, refused>>

\* schedule_apns_outbox_alternate_environment after a first BadDeviceToken.
schedule_alternate(w) ==
    LET c == worker[w] IN
    /\ c # None /\ c.pc = "settle" /\ c.result = "bad" /\ ~c.override /\ Holds(w)
    /\ SetRow(c.event, Released(now, None, alternate(c.environment), c.token))
    /\ Idle(w)
    /\ UNCHANGED <<now, gen, device, objects, refused>>

\* Bug: the event is dropped although its token was not the one refused.
BugInvalidate(w) ==
    LET c == worker[w]  e == c.event
        current == /\ token = c.token
                   /\ c.since # None => registered_at <= c.since IN
    /\ c # None /\ c.pc = "settle" /\ Holds(w)
    /\ c.result = "gone" \/ (c.result = "bad" /\ c.override)
    /\ token' = IF current THEN None ELSE token
    /\ SetRow(e, None)
    /\ Idle(w)
    /\ UNCHANGED <<now, gen, environment, registered_at, regs, objects, refused>>

\* invalidate_apns_outbox_token: the token is cleared if it is still the one
\* that was refused, in the registration that was refused; otherwise the event
\* stays for the token registered meanwhile.
invalidate(w) ==
    LET c == worker[w]  e == c.event
        current == /\ token = c.token
                   /\ c.since # None => registered_at <= c.since IN
    /\ c # None /\ c.pc = "settle" /\ Holds(w)
    /\ c.result = "gone" \/ (c.result = "bad" /\ c.override)
    /\ token' = IF current THEN None ELSE token
    /\ SetRow(e, IF current THEN None
                 ELSE Released(now, row[e].blocked_owner, row[e].environment, row[e].digest))
    /\ Idle(w)
    /\ UNCHANGED <<now, gen, environment, registered_at, regs, objects, refused>>

\* reschedule_apns_outbox_event; a retry beyond the bounded clock is due at its
\* end.
reschedule(w, delay) ==
    LET c == worker[w]  e == c.event IN
    /\ c # None /\ c.pc = "settle" /\ c.result = "transient" /\ Holds(w)
    /\ SetRow(e, Released(IF now + delay <= MaxTime THEN now + delay ELSE MaxTime,
                          row[e].blocked_owner, row[e].environment, row[e].digest))
    /\ Idle(w)
    /\ UNCHANGED <<now, gen, device, objects, refused>>

\* block_apns_outbox_event_for_process.
block(w) ==
    LET c == worker[w]  e == c.event IN
    /\ c # None /\ c.pc = "settle" /\ c.result = "config" /\ Holds(w)
    /\ SetRow(e, Released(row[e].next_attempt_at, gen, row[e].environment, row[e].digest))
    /\ Idle(w)
    /\ UNCHANGED <<now, gen, device, objects, refused>>

settle(w) ==
    \/ lost(w) \/ acknowledge(w) \/ schedule_alternate(w) \/ invalidate(w)
    \/ \E d \in 1 .. MaxDelay : reschedule(w, d)
    \/ block(w)
-----------------------------------------------------------------------------
\* Results of send_once, as process_one_apns_outbox_event classifies them.
Results == {"ok", "bad", "gone", "terminal", "transient", "config"}

Answered(w) == \E res \in Results, since \in Time \cup {None} : respond(w, res, since)

Work(w) == (\E e \in Event : claim_due(w, e)) \/ load(w) \/ Answered(w) \/ settle(w)

Next ==
    \/ Tick \/ Restart
    \/ \E e \in Event : enqueue(e) \/ close(e)
    \/ \E t \in Token \cup {None}, v \in Environment : register_device(t, v)
    \/ \E w \in Worker : Work(w) \/ abandon(w)

Spec == Init /\ [][Next]_vars

\* The runtime polls every worker task and the HTTP client times out.
FairSpec == Spec /\ WF_vars(Tick) /\ \A w \in Worker : WF_vars(Work(w))
-----------------------------------------------------------------------------
(* Properties *)

TypeOK ==
    /\ now \in Time /\ gen \in Gen
    /\ token \in Token \cup {None} /\ environment \in Environment
    /\ registered_at \in Time /\ regs \in 0 .. MaxRegs
    /\ created \in [Event -> Time \cup {None}]
    /\ over \in [Event -> BOOLEAN]
    /\ row \in [Event -> Row \cup {None}]
    /\ worker \in [Worker -> Claim \cup {None}]
    /\ refused \in SUBSET (Token \X Environment)

Busy(w, e) == worker[w] # None /\ worker[w].event = e

\* Two workers are never on the same event within a lease of each other's
\* claim: beyond the lease the earlier one is stuck, and its settlement will
\* find the claim taken.
SingleFlight ==
    \A w1, w2 \in Worker, e \in Event :
        w1 # w2 /\ Busy(w1, e) /\ Busy(w2, e) =>
            \/ worker[w1].claimed_at >= worker[w2].claimed_at + Lease
            \/ worker[w2].claimed_at >= worker[w1].claimed_at + Lease

\* "Blocked for the current process generation, preventing a tight loop": an
\* event this process blocked is not claimed by it.
BlockedIsParked ==
    \A e \in Rows : row[e].blocked_owner = gen => row[e].claim_owner # gen

Deleted(e) == row[e] # None /\ row'[e] = None

\* A worker of event e brings home one of the results R.
Brings(e, R) == \E w \in Worker : Busy(w, e) /\ worker[w].result \in R

\* A worker found event e without a token to send to.
FoundTokenless(e) ==
    \E w \in Worker : Busy(w, e) /\ worker[w].pc = "drop" /\ worker[w].token = None

\* "Rotation or later re-registration during an in-flight request retains the
\* event for the current token": an event that is still wanted, and that APNs
\* neither took nor refused for good, is deleted only with its token, or when
\* load found no token.
RotationRetains ==
    [][\A e \in Event : Deleted(e) /\ Wanted(e) =>
          \/ Brings(e, {"ok", "terminal"}) \/ FoundTokenless(e)
          \/ token' = None]_vars

\* "Direct-message alerts are coalesced to the newest pending event per device":
\* the alert of the newest message, unread and young, is not swallowed by
\* coalescing; it goes only as RotationRetains allows.
NewestAlertSurvives ==
    [][\A e \in Event :
          /\ Deleted(e) /\ ~over[e] /\ now - created[e] <= TTL
          /\ \A x \in Event : x > e => created[x] = None
          => \/ Brings(e, {"ok", "terminal"}) \/ FoundTokenless(e)
             \/ token' = None]_vars

\* "A BadDeviceToken response schedules one durable check against the other
\* endpoint before the exact token registration is invalidated": a worker
\* clears a token only if APNs refused it at both endpoints, or declared it
\* gone no earlier than it was registered.
InvalidationIsEarned ==
    [][row' # row /\ token # None /\ token' = None =>
          \/ {token} \X Environment \subseteq refused
          \/ \E w \in Worker :
                /\ worker[w] # None /\ worker[w].result = "gone" /\ worker[w].token = token
                /\ worker[w].since # None => registered_at <= worker[w].since]_vars

\* A worker changes the endpoint of a device only to one where APNs has just
\* accepted the token the device has now.
EndpointIsProven ==
    [][row' # row /\ environment' # environment =>
          \E w \in Worker :
             /\ worker[w] # None /\ worker[w].result = "ok"
             /\ worker[w].token = token /\ worker[w].environment = environment']_vars

\* Every stored event is settled in the end: delivered, dropped, or blocked
\* until the next start.  No claim is lost for good, whatever worker errors,
\* restarts and rotations happen.
Drained ==
    \A e \in Event : row[e] # None ~> (row[e] = None \/ row[e].blocked_owner = gen)
=============================================================================
