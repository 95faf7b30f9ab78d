---------------------------- MODULE RequestAuth ----------------------------
(***************************************************************************)
(* authenticate() of services/call-api.  The clock is read and the         *)
(* signature's freshness is judged before the database lock; the nonce     *)
(* table is purged and extended under it.  Requests are delayed, delivered *)
(* more than once and handled by any number of threads, so a thread can    *)
(* purge by a clock that lies before, or after, that of the thread it      *)
(* overtook.                                                               *)
(*                                                                         *)
(* A request is what a device signed: signatures are ideal, and the body,  *)
(* the service token and the presence column last_seen are left out.       *)
(***************************************************************************)
EXTENDS Integers, FiniteSets

CONSTANTS Device, Nonce,
          TTL,          \* REQUEST_SIGNATURE_TTL_SECONDS (60 in the code)
          Skew,         \* REQUEST_SIGNATURE_MAX_FUTURE_SKEW_SECONDS (15)
          MaxTime,      \* bound on the clock
          MaxSigned     \* bound on the requests signed

ASSUME AuthAssumption == TTL \in Nat /\ Skew \in Nat /\ MaxTime \in Nat

VARIABLES now,          \* unix_time()
          signed,       \* every request a device has signed so far
          stamped,      \* [req, now]: threads that judged req fresh at now
          row,          \* the device's row: "none", "active" or "revoked"
          nonces,       \* request_nonces
          accepted      \* how often authenticate() answered Ok, up to twice

vars == <<now, signed, stamped, row, nonces, accepted>>

Time == 0 .. MaxTime
Request == [device : Device, nonce : Nonce, signed_at : Time, bootstrap : BOOLEAN]
Stamp == [req : Request, now : Time]
NonceRow == [device : Device, nonce : Nonce, expires_at : 0 .. MaxTime + TTL]

Init ==
    /\ now = 0
    /\ signed = {}
    /\ stamped = {}
    /\ row = [d \in Device |-> "none"]
    /\ nonces = {}
    /\ accepted = [r \in Request |-> 0]
-----------------------------------------------------------------------------
request_signature_is_fresh(signed_at, t) ==
    IF signed_at > t THEN signed_at - t <= Skew ELSE t - signed_at <= TTL

\* A device signs by its own clock and never draws a nonce twice.
Sign(d, n, t, b) ==
    /\ Cardinality(signed) < MaxSigned
    /\ \A r \in signed : r.device = d => r.nonce # n
    /\ signed' = signed \cup
          {[device |-> d, nonce |-> n, signed_at |-> t, bootstrap |-> b]}
    /\ UNCHANGED <<now, stamped, row, nonces, accepted>>

\* authenticate() up to lock_database.  A stamp stands for any number of
\* threads that hold copies of the request, so it is never taken away.
Receive(r) ==
    /\ request_signature_is_fresh(r.signed_at, now)
    /\ stamped' = stamped \cup {[req |-> r, now |-> now]}
    /\ UNCHANGED <<now, signed, row, nonces, accepted>>

\* Bug: a row is purged in its last second.
BugPurged(t) == {w \in nonces : w.expires_at > t}

\* DELETE FROM request_nonces WHERE expires_at < t.
Purged(t) == {w \in nonces : w.expires_at >= t}

\* Bug: the table is keyed by the nonce alone.
BugUsed(r, t) == \E w \in Purged(t) : w.nonce = r.nonce

\* INSERT OR IGNORE finds the key (device_id, nonce) taken.
Used(r, t) == \E w \in Purged(t) : w.device = r.device /\ w.nonce = r.nonce

NewRow(r) == [device |-> r.device, nonce |-> r.nonce,
              expires_at |-> r.signed_at + TTL]

\* The device's row as read under the lock: registration may come without one.
Known(r) == row[r.device] = "active" \/ (row[r.device] = "none" /\ r.bootstrap)

\* The rest of authenticate(), under the lock, when it answers Ok.  When it
\* does not, its transaction is rolled back and nothing changes.
authenticate(h) ==
    /\ Known(h.req)
    /\ ~Used(h.req, h.now)
    /\ nonces' = Purged(h.now) \cup {NewRow(h.req)}
    /\ accepted' = [accepted EXCEPT ![h.req] = IF @ = 0 THEN 1 ELSE 2]
    /\ UNCHANGED <<now, signed, stamped, row>>

\* register_device after authenticate(), and revoke_device, on the device's row.
register_device(d) ==
    /\ row[d] = "none"
    /\ \E r \in signed : r.device = d /\ r.bootstrap /\ accepted[r] > 0
    /\ row' = [row EXCEPT ![d] = "active"]
    /\ UNCHANGED <<now, signed, stamped, nonces, accepted>>

revoke_device(d) ==
    /\ row[d] = "active"
    /\ row' = [row EXCEPT ![d] = "revoked"]
    /\ UNCHANGED <<now, signed, stamped, nonces, accepted>>

Tick ==
    /\ now < MaxTime
    /\ now' = now + 1
    /\ UNCHANGED <<signed, stamped, row, nonces, accepted>>

Next ==
    \/ \E d \in Device, n \in Nonce, t \in Time, b \in BOOLEAN : Sign(d, n, t, b)
    \/ \E r \in signed : Receive(r)
    \/ \E h \in stamped : authenticate(h)
    \/ \E d \in Device : register_device(d) \/ revoke_device(d)
    \/ Tick

Spec == Init /\ [][Next]_vars
-----------------------------------------------------------------------------
TypeOK ==
    /\ now \in Time
    /\ signed \subseteq Request
    /\ stamped \subseteq [req : signed, now : 0 .. now]
    /\ row \in [Device -> {"none", "active", "revoked"}]
    /\ nonces \subseteq NonceRow
    /\ accepted \in [Request -> 0 .. 2]

(* A request is answered a second time only after its signature has gone   *)
(* stale, although threads purge by clocks they read before the lock.      *)
AcceptedOnceWhileFresh ==
    \A r \in Request : accepted[r] = 2 => now > r.signed_at + TTL

(* A request that was judged fresh and never answered yet is not taken for *)
(* a replay: whatever is in the nonce table, its insertion succeeds.       *)
FirstDeliveryIsNoReplay ==
    \A h \in stamped : accepted[h.req] = 0 => ~Used(h.req, h.now)
-----------------------------------------------------------------------------
(* What authenticate() needs for AcceptedOnceWhileFresh: while a request   *)
(* it has answered is fresh its nonce is in the table.                     *)
NonceKept ==
    \A r \in Request :
        accepted[r] > 0 /\ now <= r.signed_at + TTL => NewRow(r) \in nonces

\* What it needs for FirstDeliveryIsNoReplay.
RowsAreOfAccepted ==
    /\ \A w \in nonces : \E r \in signed : accepted[r] > 0 /\ NewRow(r) = w
    /\ \A r, s \in signed : r.device = s.device /\ r.nonce = s.nonce => r = s

AuthInv == TypeOK /\ NonceKept /\ RowsAreOfAccepted /\ AcceptedOnceWhileFresh
=============================================================================
