---------------------------- MODULE CallsProofs ----------------------------
(***************************************************************************)
(* Proofs about Calls, for any devices, accounts, calls and limits.        *)
(***************************************************************************)
EXTENDS Calls, TLAPS

\* The inductive invariant.  Each part needs TypeOK and RowsTyped; TerminalIsQuiet
\* and RingingIsOpen together are what join_call's first-answer rule rests on.
CInv == /\ TypeOK /\ RowsTyped
        /\ RingingIsOpen /\ ActiveIsExclusive /\ TerminalIsQuiet
        /\ NoOverlappingRing /\ OneCallPerClientId /\ MissedIsStale

\* An empty database satisfies the invariant.
LEMMA InitCInv == Init => CInv
<1> SUFFICES ASSUME Init PROVE CInv
  BY Zenon
<1> USE CallsAssumption
<1>1. TypeOK
  BY DEF Init, TypeOK, Time, Auth, Status, TargetState
<1>2. RowsTyped /\ RingingIsOpen /\ ActiveIsExclusive /\ MissedIsStale
  BY Zenon DEF Init, RowsTyped, Rows, RingingIsOpen, ActiveIsExclusive, MissedIsStale
<1>3. TerminalIsQuiet /\ NoOverlappingRing /\ OneCallPerClientId
  BY Zenon DEF Init, TerminalIsQuiet, NoOverlappingRing, OneCallPerClientId, Live
<1> QED
  BY <1>1, <1>2, <1>3, Zenon DEF CInv

\* What every handler except create_call does: it moves one call to status s,
\* with target rows g and answering device a, and touches nothing else.
Move(c, s, g, a) ==
    /\ status' = [status EXCEPT ![c] = s]
    /\ target' = [target EXCEPT ![c] = g]
    /\ answered' = [answered EXCEPT ![c] = a]
    /\ UNCHANGED <<call, now, members>>

\* A move that keeps the set of target rows, does not revive a call and leaves
\* the call itself consistent preserves the invariant.
LEMMA MoveStep ==
    ASSUME CInv, NEW c \in CallId, NEW s \in Status, NEW g \in [Device -> TargetState],
           NEW a \in Device \cup {None}, Move(c, s, g, a),
           status[c] # "IDLE", s # "IDLE",
           s = "ACTIVE" => Live(c),
           s = "RINGING" => status[c] = "RINGING",
           s = "MISSED" => ~invite_is_fresh(c, now),
           \A d \in Device : g[d] = "NONE" <=> target[c][d] = "NONE",
           s = "RINGING" => /\ a = None
                            /\ \E d \in Device : g[d] = "RINGING"
                            /\ \A d \in Device : g[d] \in {"NONE", "RINGING", "DECLINED"},
           s = "ACTIVE" => /\ a \in Device /\ g[a] = "ACTIVE"
                           /\ \A d \in Device : d # a => g[d] \in {"NONE", "ENDED"},
           s \in Terminal => \A d \in Device : g[d] \notin {"RINGING", "ACTIVE"}
    PROVE  CInv'
<1> USE CallsAssumption
<1>1. TypeOK /\ RowsTyped
  BY Zenon DEF CInv
<1>2. /\ status'[c] = s /\ target'[c] = g /\ answered'[c] = a
      /\ \A x \in CallId : x # c => /\ status'[x] = status[x] /\ target'[x] = target[x]
                                    /\ answered'[x] = answered[x]
      /\ call' = call /\ now' = now
  BY <1>1, Zenon DEF Move, TypeOK
<1>3. TypeOK'
  BY <1>1, Zenon DEF Move, TypeOK, members
<1>4. RowsTyped'
  BY <1>1, <1>2 DEF RowsTyped, Rows
<1>5. RingingIsOpen'
  BY <1>2 DEF CInv, RingingIsOpen
<1>6. ActiveIsExclusive'
  BY <1>2 DEF CInv, ActiveIsExclusive, Rows
<1>7. TerminalIsQuiet'
  BY <1>2, Zenon DEF CInv, TerminalIsQuiet, Terminal
<1>8. \A x \in CallId : Rows(x)' = Rows(x)
  BY <1>2 DEF Rows
<1>9. \A x \in CallId : Live(x)' => Live(x)
  BY <1>2, Zenon DEF Live, invite_is_fresh
<1>10. NoOverlappingRing'
  BY <1>2, <1>8, <1>9, Zenon DEF CInv, NoOverlappingRing
<1>11. OneCallPerClientId'
  BY <1>2 DEF CInv, OneCallPerClientId
<1>12. MissedIsStale'
  BY <1>2, Zenon DEF CInv, MissedIsStale, invite_is_fresh
<1> QED
  BY <1>3, <1>4, <1>5, <1>6, <1>7, <1>10, <1>11, <1>12, Zenon DEF CInv

\* Lazy expiry of a ringing call that is stale now, or was at an earlier second.
LEMMA ExpireStep ==
    ASSUME CInv, NEW c \in CallId, NEW t \in Int, t <= now,
           status[c] = "RINGING", call[c].created <= t, call_should_expire(c, t),
           expire(c), UNCHANGED <<now, members>>
    PROVE  CInv'
<1> USE CallsAssumption
<1> DEFINE g == [d \in Device |-> IF target[c][d] = "RINGING" THEN "ENDED"
                                 ELSE target[c][d]]
<1>1. TypeOK /\ RowsTyped /\ now \in Int
  BY DEF CInv, TypeOK, Time
<1>2. call[c].created \in Int
  BY <1>1 DEF RowsTyped, CallRow, Time
<1>3. ~invite_is_fresh(c, now)
  BY <1>1, <1>2 DEF call_should_expire, invite_is_fresh
<1>4. g \in [Device -> TargetState]
  BY <1>1 DEF TypeOK, TargetState
<1>5. answered[c] \in Device \cup {None} /\ answered = [answered EXCEPT ![c] = answered[c]]
  BY <1>1, Zenon DEF TypeOK
<1>6. Move(c, "MISSED", g, answered[c])
  BY <1>5, Zenon DEF Move, expire, SetStatus
<1>7. \A d \in Device : g[d] \notin {"RINGING", "ACTIVE"}
  BY Zenon DEF CInv, RingingIsOpen
<1>8. \A d \in Device : g[d] = "NONE" <=> target[c][d] = "NONE"
  BY Zenon
<1> HIDE DEF g
<1> QED
  BY <1>3, <1>4, <1>5, <1>6, <1>7, <1>8, MoveStep DEF Status

\* join_call.
LEMMA JoinStep ==
    ASSUME CInv, NEW r \in auths, NEW c \in CallId, join_call(r, c)
    PROVE  CInv'
<1> USE CallsAssumption
<1>1. TypeOK /\ RowsTyped /\ now \in Int /\ r \in Auth
  BY DEF CInv, TypeOK, Time
<1>2. CASE call_should_expire(c, now) /\ expire(c)
  BY <1>1, <1>2, ExpireStep DEF join_call, RowsTyped
<1>3. CASE ~(call_should_expire(c, now) /\ expire(c))
  <2> DEFINE g == [d \in Device |-> IF d = r.device THEN "ACTIVE"
                                   ELSE IF target[c][d] = "NONE" THEN "NONE"
                                   ELSE "ENDED"]
  <2>1. r.device \in Device /\ r.device \in Device \cup {None}
    BY <1>1, Zenon DEF Auth
  <2>2. g \in [Device -> TargetState]
    BY Zenon DEF TargetState
  <2>3. Move(c, "ACTIVE", g, r.device)
    BY <1>3, Zenon DEF join_call, Move, SetStatus
  <2>4. \A d \in Device : g[d] = "NONE" <=> target[c][d] = "NONE"
    BY <1>3, Zenon DEF join_call
  <2>5. status[c] = "RINGING" /\ Live(c)
    BY <1>3, Zenon DEF join_call, Live
  <2>6. g[r.device] = "ACTIVE" /\ \A d \in Device : d # r.device => g[d] \in {"NONE", "ENDED"}
    BY <2>1, Zenon
  <2> HIDE DEF g
  <2> QED
    BY <2>1, <2>2, <2>3, <2>4, <2>5, <2>6, MoveStep DEF Status, Terminal
<1> QED
  BY <1>2, <1>3, Zenon

\* decline_call, with a second t read earlier.
LEMMA DeclineStep ==
    ASSUME CInv, NEW r \in auths, NEW c \in CallId, NEW t \in Earlier(c),
           status[c] = "RINGING", decline_call(r, c, t)
    PROVE  CInv'
<1> USE CallsAssumption
<1>1. TypeOK /\ RowsTyped /\ now \in Int /\ r \in Auth
  BY DEF CInv, TypeOK, Time
<1>2. call[c].created \in Int
  BY <1>1 DEF RowsTyped, CallRow, Time
<1>3. t \in Int /\ t <= now /\ call[c].created <= t
  BY <1>1, <1>2 DEF Earlier
<1>4. CASE call_should_expire(c, t) /\ expire(c)
  BY <1>3, <1>4, ExpireStep, Zenon DEF decline_call
<1>5. CASE ~(call_should_expire(c, t) /\ expire(c))
  <2> DEFINE g == [target[c] EXCEPT ![r.device] = "DECLINED"]
             s == IF \E d \in Device \ {r.device} : target[c][d] = "RINGING"
                  THEN "RINGING" ELSE "DECLINED"
  <2>1. r.device \in Device /\ target[c] \in [Device -> TargetState]
        /\ target[c][r.device] = "RINGING"
    BY <1>1, <1>5, Zenon DEF Auth, decline_call, TypeOK
  <2>2. g \in [Device -> TargetState]
    BY <2>1, Zenon DEF TargetState
  <2>3. answered[c] = None /\ answered = [answered EXCEPT ![c] = answered[c]]
    BY <1>1 DEF CInv, RingingIsOpen, TypeOK
  <2>4. Move(c, s, g, None)
    BY <1>1, <1>5, <2>3, Zenon DEF decline_call, Move, SetStatus, TypeOK
  <2>5. \A d \in Device : g[d] = "NONE" <=> target[c][d] = "NONE"
    BY <2>1, Zenon
  <2>6. \A d \in Device : g[d] \in {"NONE", "RINGING", "DECLINED"}
    BY <2>1, Zenon DEF CInv, RingingIsOpen
  <2>7. CASE s = "RINGING"
    <3>1. \E d \in Device : g[d] = "RINGING"
      BY <2>1, <2>7, Zenon
    <3> HIDE DEF g, s
    <3> QED
      BY <2>2, <2>4, <2>5, <2>6, <2>7, <3>1, MoveStep, Zenon DEF Status, Terminal
  <2>8. CASE s = "DECLINED"
    <3>1. \A d \in Device : g[d] # "RINGING"
      BY <2>1, <2>8, Zenon
    <3> HIDE DEF g, s
    <3> QED
      BY <2>2, <2>4, <2>5, <2>6, <2>8, <3>1, MoveStep DEF Status, Terminal
  <2> QED
    BY <2>7, <2>8, Zenon
<1> QED
  BY <1>4, <1>5, Zenon

\* end_call and cancel_call.
LEMMA HangupStep ==
    ASSUME CInv, NEW c \in CallId, NEW s \in {"ENDED", "CANCELLED"},
           status[c] \in {"RINGING", "ACTIVE"}, SetStatus(c, s), EndTargets(c),
           UNCHANGED <<call, answered, now, members>>
    PROVE  CInv'
<1> USE CallsAssumption
<1> DEFINE g == [d \in Device |-> IF target[c][d] = "NONE" THEN "NONE" ELSE "ENDED"]
<1>1. g \in [Device -> TargetState]
  BY Zenon DEF TargetState
<1>2. answered[c] \in Device \cup {None} /\ answered = [answered EXCEPT ![c] = answered[c]]
  BY Zenon DEF CInv, TypeOK
<1>3. Move(c, s, g, answered[c])
  BY <1>2, Zenon DEF Move, SetStatus, EndTargets
<1>4. \A d \in Device : /\ g[d] = "NONE" <=> target[c][d] = "NONE"
                        /\ g[d] \notin {"RINGING", "ACTIVE"}
  BY Zenon
<1> HIDE DEF g
<1> QED
  BY <1>1, <1>2, <1>3, <1>4, MoveStep DEF Status, Terminal

\* create_call: the selected devices are in no live call.
LEMMA CreateStep ==
    ASSUME CInv, NEW r \in auths, NEW i \in ClientId, NEW u \in User, NEW c \in CallId,
           NEW T \in SUBSET Device, create_call(r, i, u, T, c)
    PROVE  CInv'
<1> USE CallsAssumption
<1> DEFINE row == [client |-> i, device |-> r.device, user |-> r.user,
                   callee |-> u, created |-> now]
           g == [d \in Device |-> IF d \in T THEN "RINGING" ELSE "NONE"]
<1>1. TypeOK /\ RowsTyped /\ now \in Time /\ r \in Auth
  BY Zenon DEF CInv, TypeOK
<1>2. row \in CallRow /\ g \in [Device -> TargetState]
  BY <1>1, Zenon DEF CallRow, Auth, TargetState
<1>3. /\ status[c] = "IDLE" /\ status'[c] = "RINGING"
      /\ call'[c] = row /\ target'[c] = g
      /\ \A x \in CallId : x # c => /\ status'[x] = status[x] /\ target'[x] = target[x]
                                    /\ call'[x] = call[x]
      /\ answered' = answered /\ now' = now
  BY <1>1, Zenon DEF create_call, SetStatus, TypeOK
<1>4. TypeOK'
  <2>1. status' \in [CallId -> Status] /\ call' \in [CallId -> CallRow \cup {None}]
        /\ target' \in [CallId -> [Device -> TargetState]]
    BY <1>1, <1>2, Zenon DEF create_call, SetStatus, TypeOK, Status
  <2> QED
    BY <1>1, <2>1, Zenon DEF create_call, TypeOK, members
<1>5. RowsTyped'
  BY <1>1, <1>2, <1>3 DEF RowsTyped, Rows, Time
<1>6. answered[c] = None
  BY <1>1, <1>3, Zenon DEF RowsTyped
<1>7. RingingIsOpen'
  <2>1. \E d \in Device : g[d] = "RINGING"
    BY Zenon DEF create_call, Targeted
  <2> QED
    BY <1>3, <1>6, <2>1 DEF CInv, RingingIsOpen
<1>8. ActiveIsExclusive'
  BY <1>3 DEF CInv, ActiveIsExclusive, Rows
<1>9. TerminalIsQuiet'
  BY <1>3, Zenon DEF CInv, TerminalIsQuiet, Terminal
<1>10. \A x \in CallId : x # c => /\ Live(x)' <=> Live(x)
                                  /\ Rows(x)' = Rows(x)
  BY <1>3, Zenon DEF Live, invite_is_fresh, Rows
<1>11. Rows(c)' = T
  BY <1>3, Zenon DEF Rows
<1>12. ASSUME NEW x \in CallId, x # c, Live(x)
       PROVE  Rows(x) \cap T = {} /\ call[x].device \notin T
  BY <1>12 DEF create_call, Targeted, busy
<1>13. ASSUME NEW x \in CallId, x # c, Live(x) PROVE call[x].created <= now
  BY <1>1, <1>13, Zenon DEF RowsTyped, Live
<1>14. NoOverlappingRing'
  <2> SUFFICES ASSUME NEW c1 \in CallId, NEW c2 \in CallId, c1 # c2,
                      Live(c1)', Live(c2)'
               PROVE  /\ Rows(c1)' \cap Rows(c2)' = {}
                      /\ call'[c1].device \in Rows(c2)' =>
                            call'[c2].created <= call'[c1].created
    BY Zenon DEF NoOverlappingRing
  <2>1. CASE c1 # c /\ c2 # c
    BY <2>1, <1>3, <1>10, Zenon DEF CInv, NoOverlappingRing
  <2>2. CASE c1 = c
    BY <2>2, <1>3, <1>10, <1>11, <1>12, <1>13
  <2>3. CASE c2 = c
    BY <2>3, <1>3, <1>10, <1>11, <1>12, Zenon
  <2> QED
    BY <2>1, <2>2, <2>3, Zenon
<1>15. OneCallPerClientId'
  <2>1. ASSUME NEW x \in CallId, x # c, status[x] # "IDLE"
        PROVE  ~(call[x].device = r.device /\ call[x].client = i)
    BY <2>1, Zenon DEF create_call, Existing
  <2> QED
    BY <1>3, <2>1 DEF CInv, OneCallPerClientId
<1>16. MissedIsStale'
  BY <1>3, Zenon DEF CInv, MissedIsStale, invite_is_fresh
<1> QED
  BY <1>4, <1>5, <1>7, <1>8, <1>9, <1>14, <1>15, <1>16, Zenon DEF CInv

\* The clock only makes calls stale.
LEMMA TickStep ==
    ASSUME CInv, Tick
    PROVE  CInv'
<1> USE CallsAssumption
<1>1. TypeOK /\ RowsTyped /\ now \in Nat /\ now' = now + 1 /\ now < MaxTime
  BY DEF CInv, TypeOK, Time, Tick
<1>2. UNCHANGED <<user_id, revoked, auths, status, call, answered, target>>
  BY Zenon DEF Tick, members, callvars
<1>3. TypeOK'
  BY <1>1, <1>2 DEF TypeOK, Time
<1>4. \A c \in CallId : status[c] # "IDLE" =>
          call[c] \in CallRow /\ call[c].created \in Nat /\ call[c].created <= now
  BY <1>1 DEF RowsTyped, CallRow, Time
<1>5. RowsTyped'
  BY <1>1, <1>2, <1>4 DEF RowsTyped, Rows
<1>6. RingingIsOpen' /\ ActiveIsExclusive' /\ TerminalIsQuiet' /\ OneCallPerClientId'
  BY <1>2 DEF CInv, RingingIsOpen, ActiveIsExclusive, TerminalIsQuiet,
              OneCallPerClientId, Rows
<1>7. \A c \in CallId : (Live(c)' => Live(c)) /\ Rows(c)' = Rows(c)
  BY <1>1, <1>2, <1>4 DEF Live, invite_is_fresh, Rows
<1>8. NoOverlappingRing'
  BY <1>2, <1>7, Zenon DEF CInv, NoOverlappingRing
<1>9. MissedIsStale'
  BY <1>1, <1>2, <1>4 DEF CInv, MissedIsStale, invite_is_fresh
<1> QED
  BY <1>3, <1>5, <1>6, <1>8, <1>9, Zenon DEF CInv

\* Linking and revoking devices leave the calls alone.
LEMMA MembershipStep ==
    ASSUME CInv, NEW r \in auths, Membership(r)
    PROVE  CInv'
<1> USE CallsAssumption
<1>1. TypeOK /\ r \in Auth
  BY Zenon DEF CInv, TypeOK
<1>2. UNCHANGED <<now, status, call, answered, target>>
  BY Zenon DEF Membership, link_device, revoke_device, callvars
<1>3. TypeOK'
  <2>1. ASSUME NEW u \in User, link_device(r, u) PROVE TypeOK'
    BY <1>1, <1>2, <2>1 DEF TypeOK, link_device, Auth
  <2>2. ASSUME NEW d \in Device, revoke_device(r, d) PROVE TypeOK'
    BY <1>1, <1>2, <2>2, Zenon DEF TypeOK, revoke_device
  <2> QED
    BY <2>1, <2>2, Zenon DEF Membership
<1>4. \A c \in CallId : (Live(c)' <=> Live(c)) /\ Rows(c)' = Rows(c)
  BY <1>2, Zenon DEF Live, invite_is_fresh, Rows
<1>5. RowsTyped' /\ RingingIsOpen' /\ TerminalIsQuiet' /\ OneCallPerClientId'
      /\ MissedIsStale'
  BY <1>2 DEF CInv, RowsTyped, Rows, RingingIsOpen, TerminalIsQuiet, OneCallPerClientId,
              MissedIsStale, invite_is_fresh
<1>6. ActiveIsExclusive' /\ NoOverlappingRing'
  BY <1>2, <1>4 DEF CInv, ActiveIsExclusive, NoOverlappingRing
<1> QED
  BY <1>3, <1>5, <1>6, Zenon DEF CInv

\* Every handler that works on one stored call.
LEMMA HandleStep ==
    ASSUME CInv, NEW r \in auths, NEW c \in CallId, Handle(r, c)
    PROVE  CInv'
<1>1. RowsTyped /\ now \in Int
  BY DEF CInv, TypeOK, Time
<1>2. CASE retry_call(r, c)
  BY <1>1, <1>2, ExpireStep DEF retry_call, RowsTyped, call_should_expire
<1>3. CASE join_call(r, c)
  BY <1>3, JoinStep, Zenon
<1>4. CASE end_call(r, c)
  BY <1>4, HangupStep, Zenon DEF end_call
<1>5. CASE cancel_call(r, c)
  BY <1>5, HangupStep, Zenon DEF cancel_call
<1>6. ASSUME status[c] = "RINGING", NEW t \in Earlier(c), decline_call(r, c, t)
      PROVE  CInv'
  BY <1>6, DeclineStep, Zenon
<1>7. ASSUME status[c] = "RINGING", NEW t \in Earlier(c), call_status(r, c, t)
      PROVE  CInv'
  <2>1. call[c].created \in Int
    BY <1>1, <1>7 DEF RowsTyped, CallRow, Time
  <2>2. t \in Int /\ t <= now /\ call[c].created <= t
    BY <1>1, <2>1 DEF Earlier
  <2> QED
    BY <1>7, <2>2, ExpireStep, Zenon DEF call_status
<1> QED
  BY <1>2, <1>3, <1>4, <1>5, <1>6, <1>7, Zenon DEF Handle

\* Every step preserves the invariant.
LEMMA CInvStep == CInv /\ [Next]_vars => CInv'
<1> SUFFICES ASSUME CInv, [Next]_vars PROVE CInv'
  BY Zenon
<1>1. CASE Tick
  BY <1>1, TickStep, Zenon
<1>2. ASSUME NEW r \in auths, Create(r) PROVE CInv'
  BY <1>2, CreateStep, Zenon DEF Create
<1>3. ASSUME NEW r \in auths, Membership(r) PROVE CInv'
  BY <1>3, MembershipStep, Zenon
<1>4. ASSUME NEW r \in auths, NEW c \in CallId, Handle(r, c) PROVE CInv'
  BY <1>4, HandleStep, Zenon
<1>5. CASE UNCHANGED vars
  BY <1>5 DEF vars, members, callvars, CInv, TypeOK, RowsTyped, RingingIsOpen,
              ActiveIsExclusive, TerminalIsQuiet, NoOverlappingRing,
              OneCallPerClientId, MissedIsStale, Live, invite_is_fresh, Rows
<1> QED
  BY <1>1, <1>2, <1>3, <1>4, <1>5, Zenon DEF Next

\* Ringing, active and finished calls are consistent with their target rows,
\* fan-out never overlaps, retries never duplicate and nothing is missed early.
THEOREM CallsInvariant == Spec => []CInv
<1> QED
  BY InitCInv, CInvStep, PTL DEF Spec

\* First answer wins: one active target, the one that answered.
THEOREM FirstAnswerWins == Spec => []ActiveIsExclusive
<1>1. CInv => ActiveIsExclusive
  BY Zenon DEF CInv
<1> QED
  BY <1>1, CallsInvariant, PTL

\* No device is rung by two live calls.
THEOREM FanOutNeverOverlaps == Spec => []NoOverlappingRing
<1>1. CInv => NoOverlappingRing
  BY Zenon DEF CInv
<1> QED
  BY <1>1, CallsInvariant, PTL

\* A retried create never makes a second call.
THEOREM CreateIsIdempotent == Spec => []OneCallPerClientId
<1>1. CInv => OneCallPerClientId
  BY Zenon DEF CInv
<1> QED
  BY <1>1, CallsInvariant, PTL

\* A ringing call has a device left that can answer it, and no answer yet.
THEOREM RingingStaysAnswerable == Spec => []RingingIsOpen
<1>1. CInv => RingingIsOpen
  BY Zenon DEF CInv
<1> QED
  BY <1>1, CallsInvariant, PTL

\* A finished call leaves no device ringing or talking.
THEOREM FinishedCallsAreQuiet == Spec => []TerminalIsQuiet
<1>1. CInv => TerminalIsQuiet
  BY Zenon DEF CInv
<1> QED
  BY <1>1, CallsInvariant, PTL

\* A call is missed only when its invitation is over, whatever clock readings
\* the requests carried into the lock.
THEOREM MissedOnlyWhenStale == Spec => []MissedIsStale
<1>1. CInv => MissedIsStale
  BY Zenon DEF CInv
<1> QED
  BY <1>1, CallsInvariant, PTL

\* Late, duplicated or racing requests never revive or re-answer a call.
THEOREM LifecycleHolds == Spec => Lifecycle
<1>1. CInv /\ [Next]_vars => [LifecycleStep]_vars
  <2> SUFFICES ASSUME CInv, Next PROVE LifecycleStep
    BY Zenon
  <2> USE DEF StatusEdge
  <2>1. TypeOK /\ RowsTyped
    BY Zenon DEF CInv
  <2>2. CASE Tick
    BY <2>2, Zenon DEF Tick, callvars, LifecycleStep
  <2>3. ASSUME NEW r \in auths, Membership(r) PROVE LifecycleStep
    BY <2>3, Zenon DEF Membership, link_device, revoke_device, callvars, LifecycleStep
  <2>4. ASSUME NEW r \in auths, Create(r) PROVE LifecycleStep
    <3>1. PICK i \in ClientId, u \in User, c \in CallId :
              \E T \in SUBSET Device : create_call(r, i, u, T, c)
      BY <2>4, Zenon DEF Create
    <3>2. \A d \in Device : target[c][d] # "DECLINED"
      <4>1. status[c] = "IDLE"
        BY <3>1, Zenon DEF create_call
      <4> QED
        BY <2>1, <4>1, Zenon DEF RowsTyped, Rows
    <3> QED
      BY <2>1, <3>1, <3>2 DEF create_call, SetStatus, LifecycleStep, TypeOK
  <2>5. ASSUME NEW c \in CallId, status[c] = "RINGING", expire(c) PROVE LifecycleStep
    BY <2>1, <2>5, Zenon DEF expire, SetStatus, LifecycleStep, TypeOK
  <2>6. ASSUME NEW r \in auths, NEW c \in CallId, Handle(r, c) PROVE LifecycleStep
    <3>1. CASE retry_call(r, c)
      BY <2>5, <3>1, Zenon DEF retry_call, call_should_expire
    <3>2. CASE join_call(r, c)
      <4>1. CASE expire(c)
        BY <2>5, <3>2, <4>1, Zenon DEF join_call
      <4>2. CASE ~expire(c)
        <5>1. /\ status[c] = "RINGING" /\ target[c][r.device] = "RINGING"
              /\ status' = [status EXCEPT ![c] = "ACTIVE"]
              /\ answered' = [answered EXCEPT ![c] = r.device]
          BY <3>2, <4>2, Zenon DEF join_call, SetStatus
        <5>2. target' = [target EXCEPT ![c] =
                [d \in Device |-> IF d = r.device THEN "ACTIVE"
                                 ELSE IF target[c][d] = "NONE" THEN "NONE"
                                 ELSE "ENDED"]]
          BY <3>2, <4>2, Zenon DEF join_call
        <5>3. answered[c] = None
          BY <5>1, Zenon DEF CInv, RingingIsOpen
        <5>4. ASSUME NEW x \in CallId, x # c
              PROVE  status'[x] = status[x] /\ answered'[x] = answered[x] /\ target'[x] = target[x]
          BY <2>1, <5>1, <5>2, <5>4, Zenon DEF TypeOK
        <5>5. ASSUME NEW d \in Device, target[c][d] = "DECLINED"
              PROVE  target'[c][d] = "ENDED"
          BY <2>1, <5>1, <5>2, <5>5, Zenon DEF TypeOK
        <5>6. status'[c] = "ACTIVE"
          BY <2>1, <5>1, Zenon DEF TypeOK
        <5> QED
          BY <5>1, <5>3, <5>4, <5>5, <5>6 DEF LifecycleStep
      <4> QED
        BY <4>1, <4>2, Zenon
    <3>3. CASE end_call(r, c)
      BY <2>1, <3>3, Zenon DEF end_call, SetStatus, EndTargets, LifecycleStep, TypeOK
    <3>4. CASE cancel_call(r, c)
      BY <2>1, <3>4 DEF cancel_call, SetStatus, EndTargets, LifecycleStep, TypeOK
    <3>5. ASSUME status[c] = "RINGING", NEW t \in Earlier(c), decline_call(r, c, t)
          PROVE  LifecycleStep
      <4>1. CASE expire(c)
        BY <2>5, <3>5, <4>1, Zenon
      <4>2. CASE ~expire(c)
        BY <2>1, <3>5, <4>2 DEF decline_call, SetStatus, LifecycleStep, TypeOK
      <4> QED
        BY <4>1, <4>2, Zenon
    <3>6. ASSUME status[c] = "RINGING", NEW t \in Earlier(c), call_status(r, c, t)
          PROVE  LifecycleStep
      BY <2>5, <3>6, Zenon DEF call_status
    <3> QED
      BY <2>6, <3>1, <3>2, <3>3, <3>4, <3>5, <3>6, Zenon DEF Handle
  <2> QED
    BY <2>2, <2>3, <2>4, <2>6, Zenon DEF Next
<1> QED
  BY <1>1, CallsInvariant, PTL DEF Spec, Lifecycle
=============================================================================
