------------------------------- MODULE Calls -------------------------------
(***************************************************************************)
(* The call lifecycle of services/call-api: creation with fan-out to the   *)
(* callee's devices, answer, decline, status, end and cancel, under lazy   *)
(* expiry, while devices are linked to other accounts and revoked.         *)
(*                                                                         *)
(* Every handler runs authenticate() under one lock of the database and    *)
(* its own transaction under a later one, so it works with the account of  *)
(* an earlier moment.  "auths" holds every (device, account) that          *)
(* authenticate() could have answered so far; a handler picks any of them. *)
(* decline_call and call_status also read the clock before that lock.      *)
(*                                                                         *)
(* Abstracted: nickname lookup (the callee is an account), media           *)
(* capabilities, presence and push reachability (any non-empty set of      *)
(* idle devices may be selected), the VoIP capacity part of admission (see *)
(* ApnsOutbox), tokens and room names.                                     *)
(***************************************************************************)
EXTENDS Integers, FiniteSets

CONSTANTS Device, User, CallId,
          Owner,        \* the account each device first registered with
          ClientId,     \* caller-chosen idempotency keys
          None,         \* SQL NULL
          InviteTTL,    \* INVITE_TTL_SECONDS (30 in the code)
          MaxPending,   \* MAX_PENDING_CALLS_PER_DEVICE (2 in the code)
          MaxRecent,    \* MAX_NEW_CALLS_PER_DEVICE_WINDOW (6 in the code)
          RateWindow,   \* CALL_RATE_WINDOW_SECONDS (60 in the code)
          MaxTime       \* bound on the clock

ASSUME CallsAssumption ==
    /\ None \notin Device \cup User
    /\ Owner \in [Device -> User]
    /\ InviteTTL \in Nat /\ MaxTime \in Nat
    /\ MaxPending \in Nat /\ MaxRecent \in Nat /\ RateWindow \in Nat

VARIABLES now,          \* unix_time()
          user_id,      \* devices.user_id
          revoked,      \* devices.revoked_at IS NOT NULL
          auths,        \* what authenticate() could have answered so far
          status,       \* calls.status ("IDLE": no such row)
          call,         \* the columns of calls that never change
          answered,     \* calls.answered_device_id
          target        \* call_targets.state ("NONE": no such row)

members == <<user_id, revoked, auths>>
callvars == <<status, call, answered, target>>
vars == <<now, members, callvars>>

Time == 0 .. MaxTime
Status == {"IDLE", "RINGING", "ACTIVE", "ENDED", "DECLINED", "CANCELLED", "MISSED"}
Terminal == {"ENDED", "DECLINED", "CANCELLED", "MISSED"}
TargetState == {"NONE", "RINGING", "ACTIVE", "ENDED", "DECLINED"}
CallRow == [client : ClientId, device : Device, user : User, callee : User,
            created : Time]
Auth == [device : Device, user : User]

Init ==
    /\ now = 0
    /\ user_id = Owner
    /\ revoked = [d \in Device |-> FALSE]
    /\ auths = {[device |-> d, user |-> Owner[d]] : d \in Device}
    /\ status = [c \in CallId |-> "IDLE"]
    /\ call = [c \in CallId |-> None]
    /\ answered = [c \in CallId |-> None]
    /\ target = [c \in CallId |-> [d \in Device |-> "NONE"]]
-----------------------------------------------------------------------------
(* Policies of gen/rust/internet_call.rs *)

invite_is_fresh(c, t) == call[c].created <= t /\ t - call[c].created <= InviteTTL

\* Bug: off by one, an invitation is dropped in its last second.
BugShouldExpire(c, t) == status[c] = "RINGING" /\ t - call[c].created >= InviteTTL

call_should_expire(c, t) == status[c] = "RINGING" /\ ~invite_is_fresh(c, t)

\* A call that keeps its devices busy: active, or ringing and not yet stale.
Live(c) == \/ status[c] = "ACTIVE"
           \/ status[c] = "RINGING" /\ invite_is_fresh(c, now)

Rows(c) == {d \in Device : target[c][d] # "NONE"}

\* Bug: only ringing calls keep a device busy.
BugBusy == UNION {Rows(c) : c \in {x \in CallId : Live(x) /\ status[x] = "RINGING"}}

\* busy_target_device_ids: every target row counts, whatever its state.
busy == UNION {Rows(c) \cup {call[c].device} : c \in {x \in CallId : Live(x)}}

ExactCaller(r, c) == r.user = call[c].user /\ r.device = call[c].device

ExactTarget(r, c) == r.user = call[c].callee /\ target[c][r.device] # "NONE"

ExactAnswerer(r, c) == r.user = call[c].callee /\ answered[c] = r.device
-----------------------------------------------------------------------------
(* State changes shared by the handlers *)

SetStatus(c, s) == status' = [status EXCEPT ![c] = s]

\* Bug: the ringing target rows survive the expiry of their call.
BugExpire(c) == SetStatus(c, "MISSED") /\ UNCHANGED <<target, call, answered>>

\* expire_ringing_call and refresh_expired_call.
expire(c) ==
    /\ SetStatus(c, "MISSED")
    /\ target' = [target EXCEPT ![c] =
          [d \in Device |-> IF target[c][d] = "RINGING" THEN "ENDED"
                           ELSE target[c][d]]]
    /\ UNCHANGED <<call, answered>>

\* UPDATE call_targets SET state = ENDED WHERE call_id = c.
EndTargets(c) ==
    target' = [target EXCEPT ![c] =
          [d \in Device |-> IF target[c][d] = "NONE" THEN "NONE" ELSE "ENDED"]]
-----------------------------------------------------------------------------
(* Handlers.  r is the snapshot authenticate() returned for the request.   *)

\* Calls of device d that count against new_call_admission_is_allowed.
Recent(d) == {c \in CallId : status[c] # "IDLE" /\ call[c].device = d
                             /\ call[c].created >= now - RateWindow}
Pending(d) == {c \in CallId : status[c] = "RINGING" /\ call[c].device = d
                              /\ invite_is_fresh(c, now)}

\* Bug: a retry is recognised only while the first attempt rings.
BugExisting(r, i) == {c \in CallId : status[c] = "RINGING" /\ call[c].device = r.device
                                     /\ call[c].client = i}

\* The row a client_call_id already names for this device.
Existing(r, i) == {c \in CallId : status[c] # "IDLE" /\ call[c].device = r.device
                                  /\ call[c].client = i}

\* The devices of another account that a call may ring: not revoked, not busy,
\* and, of those, the ones that are reachable and support the media.
Targeted(r, callee, T) ==
    /\ callee # r.user
    /\ T # {}
    /\ T \subseteq {d \in Device : user_id[d] = callee /\ ~revoked[d]} \ busy

\* create_call with a new client_call_id: T are the callee devices selected.
create_call(r, i, callee, T, c) ==
    /\ status[c] = "IDLE"
    /\ Existing(r, i) = {}
    /\ Targeted(r, callee, T)
    /\ Cardinality(Recent(r.device)) < MaxRecent
    /\ Cardinality(Pending(r.device)) < MaxPending
    /\ SetStatus(c, "RINGING")
    /\ call' = [call EXCEPT ![c] =
          [client |-> i, device |-> r.device, user |-> r.user,
           callee |-> callee, created |-> now]]
    /\ target' = [target EXCEPT ![c] =
          [d \in Device |-> IF d \in T THEN "RINGING" ELSE "NONE"]]
    /\ UNCHANGED <<answered, now, members>>

\* create_call again with the same client_call_id: the only change is lazy
\* expiry; a live call just gets another media session.
retry_call(r, c) ==
    /\ status[c] # "IDLE" /\ ExactCaller(r, c)
    /\ call_should_expire(c, now)
    /\ expire(c)
    /\ UNCHANGED <<now, members>>

\* Bug: the other targets are left as they are.
BugJoin(r, c) ==
    /\ status[c] = "RINGING" /\ invite_is_fresh(c, now)
    /\ ExactTarget(r, c) /\ target[c][r.device] = "RINGING"
    /\ SetStatus(c, "ACTIVE")
    /\ answered' = [answered EXCEPT ![c] = r.device]
    /\ target' = [target EXCEPT ![c][r.device] = "ACTIVE"]
    /\ UNCHANGED <<call, now, members>>

\* join_call: a stale invitation expires whoever asks; a retry by the winner
\* changes nothing; otherwise the first answer wins.
join_call(r, c) ==
    /\ status[c] = "RINGING" /\ target[c][r.device] # "NONE"
    /\ \/ /\ call_should_expire(c, now)
          /\ expire(c)
       \/ /\ invite_is_fresh(c, now)
          /\ ExactTarget(r, c) /\ target[c][r.device] = "RINGING"
          /\ SetStatus(c, "ACTIVE")
          /\ answered' = [answered EXCEPT ![c] = r.device]
          /\ target' = [target EXCEPT ![c] =
                [d \in Device |-> IF d = r.device THEN "ACTIVE"
                                 ELSE IF target[c][d] = "NONE" THEN "NONE"
                                 ELSE "ENDED"]]
          /\ UNCHANGED call
    /\ UNCHANGED <<now, members>>

\* The seconds a handler may have read before it got the lock: a request
\* names a call only after the call was committed.
Earlier(c) == call[c].created .. now

\* Bug: the call stays ringing when its last target declines.
BugDecline(r, c, t) ==
    /\ status[c] = "RINGING" /\ ExactTarget(r, c)
    /\ target[c][r.device] = "RINGING"
    /\ target' = [target EXCEPT ![c][r.device] = "DECLINED"]
    /\ UNCHANGED <<status, call, answered, now, members>>

\* decline_call, with the time t it read before taking the lock.
decline_call(r, c, t) ==
    /\ status[c] = "RINGING" /\ ExactTarget(r, c)
    /\ \/ /\ call_should_expire(c, t)
          /\ expire(c)
       \/ /\ invite_is_fresh(c, t)
          /\ target[c][r.device] = "RINGING"
          /\ target' = [target EXCEPT ![c][r.device] = "DECLINED"]
          /\ SetStatus(c, IF \E d \in Device \ {r.device} : target[c][d] = "RINGING"
                          THEN "RINGING" ELSE "DECLINED")
          /\ UNCHANGED <<call, answered>>
    /\ UNCHANGED <<now, members>>

\* Bug: the expiry is reported but not stored.
BugStatus(r, c, t) ==
    /\ status[c] = "RINGING" /\ (ExactCaller(r, c) \/ ExactTarget(r, c))
    /\ UNCHANGED vars

\* call_status, with the time t it read before taking the lock.
call_status(r, c, t) ==
    /\ status[c] = "RINGING" /\ (ExactCaller(r, c) \/ ExactTarget(r, c))
    /\ call_should_expire(c, t)
    /\ expire(c)
    /\ UNCHANGED <<now, members>>

\* end_call: the originating or the answering device hangs up.
end_call(r, c) ==
    /\ status[c] = "ACTIVE"
    /\ ExactCaller(r, c) \/ (ExactTarget(r, c) /\ ExactAnswerer(r, c))
    /\ SetStatus(c, "ENDED")
    /\ EndTargets(c)
    /\ UNCHANGED <<call, answered, now, members>>

\* Bug: a late cancel rewrites a call that is already over.
BugCancel(r, c) ==
    /\ status[c] \in {"RINGING", "ACTIVE", "MISSED"} /\ ExactCaller(r, c)
    /\ SetStatus(c, "CANCELLED")
    /\ EndTargets(c)
    /\ UNCHANGED <<call, answered, now, members>>

\* cancel_call: the originating device gives up or hangs up.
cancel_call(r, c) ==
    /\ status[c] \in {"RINGING", "ACTIVE"} /\ ExactCaller(r, c)
    /\ SetStatus(c, IF status[c] = "RINGING" THEN "CANCELLED" ELSE "ENDED")
    /\ EndTargets(c)
    /\ UNCHANGED <<call, answered, now, members>>
-----------------------------------------------------------------------------
(* Accounts, as far as calls depend on them *)

Active(u) == {d \in Device : user_id[d] = u /\ ~revoked[d]}

\* link_device: the only active device of its account moves to an account
\* some other device once made a link code for.
link_device(r, u) ==
    /\ u # r.user
    /\ \E a \in auths : a.user = u /\ a.device # r.device
    /\ Active(r.user) = {r.device}
    /\ user_id' = [user_id EXCEPT ![r.device] = u]
    /\ auths' = auths \cup {[device |-> r.device, user |-> u]}
    /\ UNCHANGED <<now, revoked, callvars>>

\* revoke_device: never the last active device of the account.
revoke_device(r, d) ==
    /\ d \in Active(r.user)
    /\ Active(r.user) # {d}
    /\ revoked' = [revoked EXCEPT ![d] = TRUE]
    /\ UNCHANGED <<now, user_id, auths, callvars>>

\* The clock.
Tick ==
    /\ now < MaxTime
    /\ now' = now + 1
    /\ UNCHANGED <<members, callvars>>
-----------------------------------------------------------------------------
\* Calls are created early enough for the bounded clock to outlive them.
Create(r) ==
    \E i \in ClientId, u \in User, c \in CallId :
        \E T \in SUBSET Device :
            now + InviteTTL < MaxTime /\ create_call(r, i, u, T, c)

Handle(r, c) ==
    \/ retry_call(r, c) \/ join_call(r, c)
    \/ end_call(r, c) \/ cancel_call(r, c)
    \/ /\ status[c] = "RINGING"
       /\ \E t \in Earlier(c) : decline_call(r, c, t) \/ call_status(r, c, t)

Membership(r) == \/ \E u \in User : link_device(r, u)
                 \/ \E d \in Device : revoke_device(r, d)

Next == \/ Tick
        \/ \E r \in auths : \/ Create(r)
                            \/ Membership(r)
                            \/ \E c \in CallId : Handle(r, c)

Spec == Init /\ [][Next]_vars

\* The device that placed call c may still ask about it.
CallerPresent(c) == ~revoked[call[c].device] /\ user_id[call[c].device] = call[c].user

\* The app polls the status of its outgoing call every second.
Poll(c) ==
    /\ status[c] = "RINGING" /\ CallerPresent(c)
    /\ call_status([device |-> call[c].device, user |-> call[c].user], c, now)

FairSpec == Spec /\ WF_vars(Tick) /\ \A c \in CallId : WF_vars(Poll(c))
-----------------------------------------------------------------------------
(* Properties *)

TypeOK ==
    /\ now \in Time
    /\ user_id \in [Device -> User]
    /\ revoked \in [Device -> BOOLEAN]
    /\ auths \in SUBSET Auth
    /\ status \in [CallId -> Status]
    /\ call \in [CallId -> CallRow \cup {None}]
    /\ answered \in [CallId -> Device \cup {None}]
    /\ target \in [CallId -> [Device -> TargetState]]

\* A ringing call can still be answered: nobody has answered it, some target
\* rings and the others declined ("Declining one target leaves the call
\* ringing while another target can still answer").
RingingIsOpen ==
    \A c \in CallId : status[c] = "RINGING" =>
        /\ answered[c] = None
        /\ \E d \in Device : target[c][d] = "RINGING"
        /\ \A d \in Device : target[c][d] \in {"NONE", "RINGING", "DECLINED"}

\* "The first successful answer atomically changes the call to active; every
\* other target becomes ended": an active call has one active target, the one
\* that answered, and it is a device of the call.
ActiveIsExclusive ==
    \A c \in CallId : status[c] = "ACTIVE" =>
        /\ answered[c] \in Rows(c)
        /\ \A d \in Rows(c) :
               target[c][d] = IF d = answered[c] THEN "ACTIVE" ELSE "ENDED"

\* A call that is over rings and runs nowhere.
TerminalIsQuiet ==
    \A c \in CallId : status[c] \in Terminal \cup {"IDLE"} =>
        \A d \in Device : target[c][d] \notin {"RINGING", "ACTIVE"}

\* Fan-out never selects a busy device: no device is a target of two live
\* calls, and a device that originated a live call is a target only of calls
\* that were there before.
NoOverlappingRing ==
    \A c1, c2 \in CallId : c1 # c2 /\ Live(c1) /\ Live(c2) =>
        /\ Rows(c1) \cap Rows(c2) = {}
        /\ call[c1].device \in Rows(c2) => call[c2].created <= call[c1].created

\* "An identical retry never creates another call or ring."
OneCallPerClientId ==
    \A c1, c2 \in CallId :
        /\ status[c1] # "IDLE" /\ status[c2] # "IDLE"
        /\ call[c1].device = call[c2].device /\ call[c1].client = call[c2].client
        => c1 = c2

\* No call is written off as missed while its invitation can be answered, even
\* by a handler that read the clock before it got the lock.
MissedIsStale ==
    \A c \in CallId : status[c] = "MISSED" => ~invite_is_fresh(c, now)

\* The moves of a call's status.
StatusEdge == {<<"IDLE", "RINGING">>, <<"ACTIVE", "ENDED">>} \cup
              ({"RINGING"} \X {"ACTIVE", "DECLINED", "CANCELLED", "MISSED"})

LifecycleStep ==
    \A c \in CallId :
        /\ status'[c] # status[c] => <<status[c], status'[c]>> \in StatusEdge
        /\ answered[c] # None => answered'[c] = answered[c]
        /\ \A d \in Device : target[c][d] = "DECLINED" =>
              target'[c][d] \in {"DECLINED", "ENDED"}

\* A call leaves a state only in the direction of its life cycle, and who
\* answered never changes: late, duplicated or racing requests cannot revive
\* or re-answer a call, nor ring a device that declined.
Lifecycle == [][LifecycleStep]_vars

\* Every ringing call is resolved (answered, declined, cancelled or missed) as
\* long as the app that placed it keeps polling: expiry has no timer of its own.
RingingResolves ==
    \A c \in CallId :
        status[c] = "RINGING" ~> (status[c] # "RINGING" \/ ~CallerPresent(c))

\* The part of the invariant that types the rows: a stored call has all its
\* columns and was created in the past.
RowsTyped ==
    \A c \in CallId :
        IF status[c] = "IDLE" THEN answered[c] = None /\ Rows(c) = {}
        ELSE call[c] \in CallRow /\ call[c].created <= now
=============================================================================
