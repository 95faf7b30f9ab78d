--------------------------- MODULE MessagesProofs ---------------------------
(***************************************************************************)
(* Proofs about Messages, for any devices, accounts, chats, page size and  *)
(* bounds.                                                                 *)
(*                                                                         *)
(* The rows of the log never change once they are committed (LogStep).     *)
(* Typed is the part of the type the proofs need; it keeps cursors and     *)
(* client positions within the log.  Unique says which rows a retry can    *)
(* find, Gapless is InboxHasNoGaps for every account a device could come   *)
(* to, and Alerts ties alerts to rows of chats.                            *)
(***************************************************************************)
EXTENDS Messages, FiniteSetTheorems, SequenceTheorems, WellFoundedInduction, TLAPS

Row == Direct \cup Group

Typed ==
    /\ user_id \in [Device -> User] /\ joined \in [Device -> Nat]
    /\ auths \subseteq Auth
    /\ nickname \in [Nickname -> User \cup {None}]
    /\ log \in Seq(Row)
    /\ cursor \in [User -> [User \cup Chat -> 0 .. Len(log)]]
    /\ seen \in [Device -> [User -> SUBSET (1 .. Len(log))]]

(* No two rows of a device have one client_message_id, among its direct    *)
(* messages and within a chat.                                             *)
Unique ==
    \A l, m \in Ids :
        log[l].device = log[m].device /\ log[l].client = log[m].client
            /\ ((IsDirect(l) /\ IsDirect(m)) \/ log[l].to = log[m].to)
        => l = m

Gapless ==
    \A r \in Auth : {m \in Inbox(r) : m <= After(r)} \subseteq seen[r.device][r.user]

TokensTyped == key \in [Device -> Nat] /\ environment \in [Device -> Environment]

(* Tasks and alerts are for rows of the log.  There is one task for each   *)
(* row and device, and none once its alert is known to be taken.           *)
For(a, b) == a.id = b.id /\ a.device = b.device
Alerts ==
    /\ jobs \subseteq Job /\ alerted \subseteq Alert
    /\ \A j \in jobs \cup alerted : j.id \in Ids
    /\ \A j \in jobs : j.attempts < Attempts
    /\ \A i, j \in jobs : For(i, j) => i = j
    /\ \A a \in alerted, j \in jobs : For(a, j) => ~a.heard

(* What one step may do to each part of the state. *)
Sent == \/ \E r \in auths, n \in Nickname, i \in ClientId, E \in SUBSET Registered :
              send_direct_message(r, n, i, E)
        \/ \E r \in auths, g \in Chat, i \in ClientId : send_group_message(r, g, i)

Delivered == \E j \in jobs, res \in {"ok", "transient", "bad", "invalid", "refused"},
                taken \in BOOLEAN : deliver(j, res, taken)

LogFrame == log' = log \/ Sent
DeviceFrame ==
    \/ UNCHANGED <<user_id, revoked, joined, auths>>
    \/ \E d \in Device : revoke_device(d)
    \/ \E d \in Device, u \in User : link_device(d, u)
AlertFrame ==
    \/ UNCHANGED <<jobs, alerted>>
    \/ \E r \in auths, g \in Chat, i \in ClientId : send_group_message(r, g, i)
    \/ Delivered
    \/ Crash
TokenFrame ==
    \/ UNCHANGED <<key, tokenless, environment>>
    \/ \E d \in Device, v \in Environment : register_device(d, v)
    \/ Delivered
SeenFrame == seen' = seen \/ \E r \in auths : list_direct_messages(r)
CursorFrame ==
    \/ cursor' = cursor
    \/ \E r \in auths, p \in User, m \in 0 .. MaxLog : mark_direct_messages_read(r, p, m)
    \/ \E r \in auths, g \in Chat, m \in 0 .. MaxLog : mark_group_chat_read(r, g, m)
NameFrame ==
    \/ nickname' = nickname
    \/ \E r \in auths, n \in Nickname : claim_nickname(r, n)
    \/ \E d \in Device, u \in User : link_device(d, u)

Framed == LogFrame /\ DeviceFrame /\ AlertFrame /\ TokenFrame /\ SeenFrame /\ CursorFrame /\ NameFrame

(* Every step of the service is within the frames. *)
LEMMA Frames == ASSUME [Next]_vars PROVE Framed
<1>1. ASSUME NEW r \in auths, NEW n \in Nickname, NEW i \in ClientId,
             NEW E \in SUBSET Registered, send_direct_message(r, n, i, E)
      PROVE  Framed
  BY <1>1, Zenon DEF send_direct_message, accountvars, Framed, LogFrame, Sent, DeviceFrame,
                     AlertFrame,
                     TokenFrame, SeenFrame, CursorFrame, NameFrame
<1>2. ASSUME NEW r \in auths, NEW n \in Nickname, claim_nickname(r, n)
      PROVE  Framed
  BY <1>2, Zenon DEF claim_nickname, Framed, LogFrame, DeviceFrame, AlertFrame,
                     TokenFrame, SeenFrame, CursorFrame, NameFrame
<1>3. ASSUME NEW r \in auths, list_direct_messages(r)
      PROVE  Framed
  BY <1>3, Zenon DEF list_direct_messages, accountvars, tables, Framed, LogFrame, DeviceFrame,
                     AlertFrame,
                     TokenFrame, SeenFrame, CursorFrame, NameFrame
<1>4. ASSUME NEW r \in auths, NEW p \in User, NEW m \in 0 .. MaxLog,
             mark_direct_messages_read(r, p, m)
      PROVE  Framed
  BY <1>4, Zenon DEF mark_direct_messages_read, accountvars, Framed, LogFrame, DeviceFrame,
                     AlertFrame,
                     TokenFrame, SeenFrame, CursorFrame, NameFrame
<1>5. ASSUME NEW r \in auths, NEW g \in Chat, NEW N \in SUBSET Nickname,
             create_group_chat(r, g, N)
      PROVE  Framed
  BY <1>5, Zenon DEF create_group_chat, accountvars, Framed, LogFrame, DeviceFrame, AlertFrame,
                     TokenFrame, SeenFrame, CursorFrame, NameFrame
<1>6. ASSUME NEW r \in auths, NEW g \in Chat, NEW i \in ClientId, send_group_message(r, g, i)
      PROVE  Framed
  BY <1>6, Zenon DEF send_group_message, accountvars, Framed, LogFrame, Sent, DeviceFrame,
                     AlertFrame,
                     TokenFrame, SeenFrame, CursorFrame, NameFrame
<1>7. ASSUME NEW r \in auths, NEW g \in Chat, NEW m \in 0 .. MaxLog,
             mark_group_chat_read(r, g, m)
      PROVE  Framed
  BY <1>7, Zenon DEF mark_group_chat_read, accountvars, Framed, LogFrame, DeviceFrame, AlertFrame,
                     TokenFrame, SeenFrame, CursorFrame, NameFrame
<1>8. ASSUME Delivered
      PROVE  Framed
  BY <1>8, Zenon DEF Delivered, deliver, Framed, LogFrame, DeviceFrame, AlertFrame,
                     TokenFrame, SeenFrame, CursorFrame, NameFrame
<1>9. CASE Crash
  BY <1>9, Zenon DEF Crash, accountvars, tables, Framed, LogFrame, DeviceFrame, AlertFrame,
                     TokenFrame, SeenFrame, CursorFrame, NameFrame
<1>10. ASSUME NEW d \in Device, NEW v \in Environment, register_device(d, v)
       PROVE  Framed
  BY <1>10, Zenon DEF register_device, Framed, LogFrame, DeviceFrame, AlertFrame,
                     TokenFrame, SeenFrame, CursorFrame, NameFrame
<1>11. ASSUME NEW d \in Device, revoke_device(d)
       PROVE  Framed
  BY <1>11, Zenon DEF revoke_device, tables, Framed, LogFrame, DeviceFrame, AlertFrame,
                     TokenFrame, SeenFrame, CursorFrame, NameFrame
<1>12. ASSUME NEW d \in Device, NEW u \in User, link_device(d, u)
       PROVE  Framed
  BY <1>12, Zenon DEF link_device, Framed, LogFrame, DeviceFrame, AlertFrame,
                     TokenFrame, SeenFrame, CursorFrame, NameFrame
<1>13. CASE UNCHANGED vars
  BY <1>13, Zenon DEF vars, accountvars, tables, Framed, LogFrame, DeviceFrame, AlertFrame,
                     TokenFrame, SeenFrame, CursorFrame, NameFrame
<1>14. QED
  BY <1>1, <1>2, <1>3, <1>4, <1>5, <1>6, <1>7, <1>8, <1>9, <1>10, <1>11, <1>12, <1>13,
     Zenon DEF Next, Delivered

(* Committed rows stay, and at most one is added at the end. *)
Grown == /\ log' \in Seq(Row) /\ Len(log) \in Nat /\ Len(log') = Len(log) + 1
         /\ \A m \in 1 .. Len(log) : log'[m] = log[m]

LEMMA AppendRow ==
    ASSUME log \in Seq(Row), NEW e \in Row, log' = Append(log, e)
    PROVE  Grown /\ log'[Len(log) + 1] = e
<1>1. Len(log) \in Nat
  BY LenProperties, Zenon
<1>2. QED
  BY <1>1, AppendProperties DEF Grown

(* The row of a new direct message. *)
LEMMA DirectRow ==
    ASSUME Typed, NEW r \in auths, NEW n \in Nickname, NEW i \in ClientId,
           NEW E \in SUBSET Registered, send_direct_message(r, n, i, E)
    PROVE  LET e == log'[Len(log) + 1]
           IN  /\ Grown
               /\ e.to = nickname[n] /\ e.to \in User /\ e.user = r.user
               /\ e.device = r.device /\ e.client = i /\ e.envelopes = E
<1> DEFINE e == [to |-> nickname[n], nick |-> n, user |-> r.user,
                 device |-> r.device, client |-> i, envelopes |-> E]
<1>1. nickname[n] \in User /\ r.user \in User /\ r.device \in Device
  BY Zenon DEF Typed, send_direct_message, may_resolve, Auth
<1>2. E \in SUBSET Envelope
  BY Zenon DEF Registered
<1>3. e \in Direct
  BY <1>1, <1>2 DEF Direct
<1>4. /\ e.to = nickname[n] /\ e.user = r.user /\ e.device = r.device
      /\ e.client = i /\ e.envelopes = E
  BY Zenon
<1>5. log' = Append(log, e)
  BY Zenon DEF send_direct_message
<1> HIDE DEF e
<1>6. Grown /\ log'[Len(log) + 1] = e
  BY <1>3, <1>5, AppendRow, Zenon DEF Row, Typed
<1>7. QED
  BY <1>1, <1>4, <1>6, Zenon

(* The row of a new group message. *)
LEMMA GroupRow ==
    ASSUME Typed, NEW r \in auths, NEW g \in Chat, NEW i \in ClientId,
           send_group_message(r, g, i)
    PROVE  LET e == log'[Len(log) + 1]
           IN  /\ Grown
               /\ e.to = g /\ e.user = r.user /\ e.device = r.device /\ e.client = i
<1> DEFINE e == [to |-> g, user |-> r.user, device |-> r.device, client |-> i]
<1>1. r.user \in User /\ r.device \in Device
  BY Zenon DEF Typed, Auth
<1>2. e \in Group
  BY <1>1 DEF Group
<1>3. e.to = g /\ e.user = r.user /\ e.device = r.device /\ e.client = i
  BY Zenon
<1>4. log' = Append(log, e)
  BY Zenon DEF send_group_message
<1> HIDE DEF e
<1>5. Grown /\ log'[Len(log) + 1] = e
  BY <1>2, <1>4, AppendRow, Zenon DEF Row, Typed
<1>6. QED
  BY <1>3, <1>5, Zenon

LEMMA LogStep ==
    ASSUME Typed, Framed
    PROVE  /\ log' \in Seq(Row) /\ Len(log) \in Nat
           /\ log' = log \/ Grown
<1>1. log \in Seq(Row) /\ Len(log) \in Nat
  BY LenProperties, Zenon DEF Typed
<1>2. ASSUME NEW r \in auths, NEW n \in Nickname, NEW i \in ClientId,
             NEW E \in SUBSET Registered, send_direct_message(r, n, i, E)
      PROVE  Grown
  BY <1>2, DirectRow, Zenon
<1>3. ASSUME NEW r \in auths, NEW g \in Chat, NEW i \in ClientId, send_group_message(r, g, i)
      PROVE  Grown
  BY <1>3, GroupRow, Zenon
<1>4. log' = log \/ Grown
  BY <1>2, <1>3, Zenon DEF Framed, LogFrame, Sent
<1>5. QED
  BY <1>1, <1>4, Zenon DEF Grown

(* The largest of a bounded set of naturals exists. *)
LEMMA LargestOf ==
    ASSUME NEW n \in Nat, NEW S \in SUBSET (0 .. n), NEW x \in 0 .. n
    PROVE  /\ Largest(S, x) \in S \cup {x}
           /\ \A z \in S \cup {x} : z <= Largest(S, x)
           /\ Largest(S, x) \in 0 .. n
<1> DEFINE U == S \cup {x}
           B == {b \in Nat : \A z \in U : z <= b}
<1>1. U \in SUBSET (0 .. n) /\ x \in U
  BY Zenon
<1>2. n \in B
  BY <1>1
<1>3. IsWellFoundedOn(OpToRel(<, Nat), Nat)
  BY NatLessThanWellFounded, Zenon
<1>4. PICK m \in B : \A y \in B : <<y, m>> \notin OpToRel(<, Nat)
  <2>1. B \in SUBSET Nat /\ B # {}
    BY <1>2, Zenon
  <2> HIDE DEF B
  <2>2. QED
    BY <1>3, <2>1, WFMin, Zenon
<1>5. \A y \in B : ~(y < m)
  <2>1. B \in SUBSET Nat
    BY Zenon
  <2> HIDE DEF B
  <2>2. QED
    BY <1>4, <2>1, Zenon DEF OpToRel
<1>6. m \in Nat /\ \A z \in U : z <= m
  BY Zenon
<1>7. m \in U
  <2> SUFFICES ASSUME m \notin U PROVE FALSE
    BY Zenon
  <2>1. \A z \in U : z \in Nat /\ z < m
    BY <1>1, <1>6
  <2>2. m - 1 \in Nat /\ m - 1 < m
    BY <1>1, <1>6, <2>1
  <2>3. \A z \in U : z <= m - 1
    BY <1>6, <2>1
  <2>4. m - 1 \in B
    BY <2>2, <2>3, Zenon
  <2>5. QED
    BY <1>5, <2>2, <2>4, Zenon
<1> HIDE DEF B
<1>8. Largest(S, x) \in U /\ \A z \in U : z <= Largest(S, x)
  BY <1>6, <1>7, Zenon DEF Largest
<1>9. QED
  BY <1>1, <1>8, Zenon
-----------------------------------------------------------------------------
(* What a client names as read is cut down to rows that exist. *)
LEMMA AdvanceType ==
    ASSUME Typed, NEW u \in User, NEW p \in User \cup Chat, NEW through,
           NEW observed \in SUBSET Ids, cursor' = Advance(u, p, observed, through)
    PROVE  /\ cursor' \in [User -> [User \cup Chat -> 0 .. Len(log)]]
           /\ \A v \in User, q \in User \cup Chat : cursor[v][q] <= cursor'[v][q]
<1> DEFINE top == Largest(observed, cursor[u][p])
<1>1. Len(log) \in Nat
  BY LenProperties, Zenon DEF Typed
<1>2. cursor[u][p] \in 0 .. Len(log)
  BY Zenon DEF Typed
<1>3. observed \in SUBSET (0 .. Len(log))
  BY <1>1 DEF Ids
<1>4. top \in 0 .. Len(log) /\ cursor[u][p] <= top
  BY <1>1, <1>2, <1>3, LargestOf, Zenon
<1>5. cursor' = [cursor EXCEPT ![u][p] = top]
  BY Zenon DEF Advance
<1> DEFINE Peer == User \cup Chat
           Bound == 0 .. Len(log)
<1>6. cursor \in [User -> [Peer -> Bound]] /\ p \in Peer /\ top \in Bound
  BY <1>4, Zenon DEF Typed
<1> HIDE DEF top, Peer, Bound
<1>7. \A v \in User, q \in Peer :
         /\ cursor[v][q] \in Bound
         /\ cursor'[v][q] = IF v = u /\ q = p THEN top ELSE cursor[v][q]
  BY <1>5, <1>6
<1>8. cursor' \in [User -> [Peer -> Bound]]
  BY <1>5, <1>6
<1>9. \A v \in User, q \in Peer : cursor[v][q] <= cursor'[v][q]
  BY <1>1, <1>4, <1>7 DEF Bound
<1>10. QED
  BY <1>8, <1>9, Zenon DEF Peer, Bound

(* Cursors only move forward, and stay within the log. *)
LEMMA CursorStep ==
    ASSUME Typed, Framed
    PROVE  /\ cursor' \in [User -> [User \cup Chat -> 0 .. Len(log)]]
           /\ \A v \in User, q \in User \cup Chat : cursor[v][q] <= cursor'[v][q]
<1>1. CASE cursor' = cursor
  <2>1. \A v \in User, q \in User \cup Chat : cursor[v][q] \in 0 .. Len(log)
    BY Zenon DEF Typed
  <2>2. Len(log) \in Nat
    BY LenProperties, Zenon DEF Typed
  <2>3. \A v \in User, q \in User \cup Chat : cursor[v][q] <= cursor[v][q]
    BY <2>1, <2>2
  <2>4. QED
    BY <1>1, <2>3, Zenon DEF Typed
<1>2. ASSUME NEW r \in auths, NEW p \in User, NEW m \in 0 .. MaxLog,
             mark_direct_messages_read(r, p, m)
      PROVE  /\ cursor' \in [User -> [User \cup Chat -> 0 .. Len(log)]]
             /\ \A v \in User, q \in User \cup Chat : cursor[v][q] <= cursor'[v][q]
  <2> DEFINE observed == {x \in Inbox(r) : log[x].user = p /\ x <= m}
  <2>1. observed \in SUBSET Ids
    BY Zenon DEF Inbox
  <2>2. r.user \in User /\ p \in User \cup Chat
    BY Zenon DEF Typed, Auth
  <2>3. cursor' = Advance(r.user, p, observed, m)
    BY <1>2, Zenon DEF mark_direct_messages_read
  <2> HIDE DEF observed
  <2>4. QED
    BY <2>1, <2>2, <2>3, AdvanceType, Zenon
<1>3. ASSUME NEW r \in auths, NEW g \in Chat, NEW m \in 0 .. MaxLog,
             mark_group_chat_read(r, g, m)
      PROVE  /\ cursor' \in [User -> [User \cup Chat -> 0 .. Len(log)]]
             /\ \A v \in User, q \in User \cup Chat : cursor[v][q] <= cursor'[v][q]
  <2> DEFINE observed == {x \in Ids : log[x].to = g /\ x <= m}
  <2>1. observed \in SUBSET Ids
    BY Zenon
  <2>2. r.user \in User /\ g \in User \cup Chat
    BY Zenon DEF Typed, Auth
  <2>3. cursor' = Advance(r.user, g, observed, m)
    BY <1>3, Zenon DEF mark_group_chat_read
  <2> HIDE DEF observed
  <2>4. QED
    BY <2>1, <2>2, <2>3, AdvanceType, Zenon
<1>4. QED
  BY <1>1, <1>2, <1>3, Zenon DEF Framed, CursorFrame

(* A client gets rows of its inbox only. *)
LEMMA SeenStep ==
    ASSUME Typed, Framed
    PROVE  seen' \in [Device -> [User -> SUBSET (1 .. Len(log))]]
<1>1. ASSUME NEW r \in auths, list_direct_messages(r)
      PROVE  seen' \in [Device -> [User -> SUBSET (1 .. Len(log))]]
  <2> DEFINE got == PageOf({m \in Inbox(r) : m > After(r)})
  <2>1. got \in SUBSET (1 .. Len(log))
    BY Zenon DEF PageOf, Inbox, Ids
  <2>2. seen' = [seen EXCEPT ![r.device][r.user] = @ \cup got]
    BY <1>1, Zenon DEF list_direct_messages
  <2> HIDE DEF got
  <2>3. r.device \in Device /\ r.user \in User
    BY Zenon DEF Typed, Auth
  <2>4. seen \in [Device -> [User -> SUBSET (1 .. Len(log))]]
    BY Zenon DEF Typed
  <2>5. QED
    BY <2>1, <2>2, <2>3, <2>4
<1>2. QED
  BY <1>1, Zenon DEF Framed, SeenFrame, Typed

LEMMA InitTyped == Init => Typed
<1> SUFFICES ASSUME Init PROVE Typed
  BY Zenon
<1>1. log = <<>> /\ log \in Seq(Row) /\ Len(log) = 0
  BY DEF Init
<1>2. user_id \in [Device -> User] /\ nickname \in [Nickname -> User \cup {None}]
  BY MessagesAssumption, Zenon DEF Init
<1>3. joined \in [Device -> Nat] /\ cursor \in [User -> [User \cup Chat -> 0 .. Len(log)]]
  BY <1>1 DEF Init
<1>4. auths \subseteq Auth
  BY MessagesAssumption DEF Init, Auth
<1>5. seen \in [Device -> [User -> SUBSET (1 .. Len(log))]]
  BY Zenon DEF Init
<1>6. QED
  BY <1>1, <1>2, <1>3, <1>4, <1>5, Zenon DEF Typed

LEMMA TypedStep == ASSUME Typed, Framed PROVE Typed'
<1>1. /\ log' \in Seq(Row) /\ Len(log) \in Nat /\ Len(log') \in Nat
      /\ Len(log) <= Len(log')
  <2>1. Len(log') \in Nat
    BY LogStep, LenProperties, Zenon
  <2>2. QED
    BY <2>1, LogStep DEF Grown
<1>2. 0 .. Len(log) \subseteq 0 .. Len(log') /\ 1 .. Len(log) \subseteq 1 .. Len(log')
  BY <1>1
<1>3. cursor' \in [User -> [User \cup Chat -> 0 .. Len(log')]]
  BY <1>2, CursorStep
<1>4. seen' \in [Device -> [User -> SUBSET (1 .. Len(log'))]]
  BY <1>2, SeenStep
<1>5. ASSUME NEW d \in Device, NEW u \in User, link_device(d, u)
      PROVE  /\ user_id' \in [Device -> User] /\ joined' \in [Device -> Nat]
             /\ auths' \subseteq Auth
             /\ nickname' \in [Nickname -> User \cup {None}]
  <2>1. [device |-> d, user |-> u] \in Auth
    BY DEF Auth
  <2>2. auths' \subseteq Auth
    BY <1>5, <2>1, Zenon DEF link_device, Typed
  <2>3. user_id' \in [Device -> User] /\ joined' \in [Device -> Nat]
    BY <1>1, <1>5 DEF link_device, Typed
  <2>4. nickname' \in [Nickname -> User \cup {None}]
    BY <1>5, Zenon DEF link_device, Typed
  <2>5. QED
    BY <2>2, <2>3, <2>4, Zenon
<1>6. user_id' \in [Device -> User] /\ joined' \in [Device -> Nat] /\ auths' \subseteq Auth
  BY <1>5, Zenon DEF Framed, DeviceFrame, revoke_device, Typed
<1>7. ASSUME NEW r \in auths, NEW n \in Nickname, claim_nickname(r, n)
      PROVE  nickname' \in [Nickname -> User \cup {None}]
  BY <1>7, Zenon DEF claim_nickname, Typed, Auth
<1>8. nickname' \in [Nickname -> User \cup {None}]
  BY <1>5, <1>7, Zenon DEF Framed, NameFrame, Typed
<1>9. QED
  BY <1>1, <1>3, <1>4, <1>6, <1>8, Zenon DEF Typed
-----------------------------------------------------------------------------
(* The ids after a row was added. *)
LEMMA GrownIds ==
    ASSUME Grown, NEW m \in Ids'
    PROVE  m \in 1 .. Len(log) \/ m = Len(log) + 1
BY DEF Grown, Ids

(* A request is stored once: load_existing_direct_message and the primary  *)
(* key of group_chat_messages find the row of a repetition.                *)
LEMMA UniqueStep == ASSUME Typed, Framed, Unique PROVE Unique'
<1> DEFINE Same(l, m) ==
             log'[l].device = log'[m].device /\ log'[l].client = log'[m].client
               /\ ((log'[l].to \in User /\ log'[m].to \in User) \/ log'[l].to = log'[m].to)
<1>1. CASE log' = log
  BY <1>1, Zenon DEF Unique, Ids, IsDirect
<1>2. ASSUME Grown, \A m \in 1 .. Len(log) : ~Same(m, Len(log) + 1)
      PROVE  Unique'
  <2> SUFFICES ASSUME NEW l \in Ids', NEW m \in Ids', Same(l, m) PROVE l = m
    BY Zenon DEF Unique, IsDirect
  <2>1. CASE l \in 1 .. Len(log) /\ m \in 1 .. Len(log)
    <3>1. log'[l] = log[l] /\ log'[m] = log[m]
      BY <1>2, <2>1, Zenon DEF Grown
    <3>2. QED
      BY <2>1, <3>1, Zenon DEF Unique, Ids, IsDirect
  <2>2. Same(m, l)
    BY Zenon
  <2>3. QED
    BY <1>2, <2>1, <2>2, GrownIds, Zenon
<1>3. ASSUME NEW r \in auths, NEW n \in Nickname, NEW i \in ClientId,
             NEW E \in SUBSET Registered, send_direct_message(r, n, i, E)
      PROVE  Unique'
  <2> DEFINE e == log'[Len(log) + 1]
  <2>1. Grown /\ e.to \in User /\ e.device = r.device /\ e.client = i
    BY <1>3, DirectRow, Zenon
  <2>2. \A m \in 1 .. Len(log) :
           ~(log[m].to \in User /\ log[m].device = r.device /\ log[m].client = i)
    BY <1>3, Zenon DEF send_direct_message, Existing, IsDirect, Ids
  <2>3. \A m \in 1 .. Len(log) : log'[m] = log[m]
    BY <2>1, Zenon DEF Grown
  <2>4. \A m \in 1 .. Len(log) : ~Same(m, Len(log) + 1)
    BY <2>1, <2>2, <2>3, Zenon
  <2>5. QED
    BY <1>2, <2>1, <2>4, Zenon
<1>4. ASSUME NEW r \in auths, NEW g \in Chat, NEW i \in ClientId, send_group_message(r, g, i)
      PROVE  Unique'
  <2> DEFINE e == log'[Len(log) + 1]
  <2>1. Grown /\ e.to = g /\ e.device = r.device /\ e.client = i
    BY <1>4, GroupRow, Zenon
  <2>2. \A m \in 1 .. Len(log) :
           ~(log[m].to = g /\ log[m].device = r.device /\ log[m].client = i)
    BY <1>4, Zenon DEF send_group_message, Taken, Ids
  <2>3. g \notin User
    BY MessagesAssumption, Zenon
  <2>4. \A m \in 1 .. Len(log) : log'[m] = log[m]
    BY <2>1, Zenon DEF Grown
  <2>5. \A m \in 1 .. Len(log) : ~Same(m, Len(log) + 1)
    BY <2>1, <2>2, <2>3, <2>4, Zenon
  <2>6. QED
    BY <1>2, <2>1, <2>5, Zenon
<1>5. QED
  BY <1>1, <1>3, <1>4, Zenon DEF Framed, LogFrame, Sent

(* Every device of the recipient has an envelope of the row that is added. *)
LEMMA CompleteRow ==
    ASSUME Typed, NEW r \in auths, NEW n \in Nickname, NEW i \in ClientId,
           NEW E \in SUBSET Registered, send_direct_message(r, n, i, E)
    PROVE  \A d \in Active(nickname[n]) :
              \E e \in log'[Len(log) + 1].envelopes : e.device = d
<1>1. log'[Len(log) + 1].envelopes = E
  BY DirectRow
<1>2. E = {[device |-> d, key |-> key[d]] : d \in Active(nickname[n])}
  BY Zenon DEF send_direct_message, complete
<1>3. \A d \in Active(nickname[n]) : [device |-> d, key |-> key[d]] \in E
  BY <1>2, Zenon
<1>4. \A d : [device |-> d, key |-> key[d]].device = d
  BY Zenon
<1>5. QED
  BY <1>1, <1>3, <1>4, Zenon

LEMMA LeftOutStep == ASSUME Typed, Framed, NoDeviceLeftOut PROVE NoDeviceLeftOut'
<1> SUFFICES ASSUME NEW m \in Ids', log'[m].to \in User, NEW d \in Active(log[m].to)',
                    joined'[d] < m
             PROVE  \E e \in log'[m].envelopes : e.device = d
  BY Zenon DEF NoDeviceLeftOut, IsDirect
<1>0. d \in Device /\ user_id'[d] = log'[m].to /\ d \notin revoked'
  BY Zenon DEF Active
<1>1. ASSUME m \in Ids, log'[m] = log[m], d \in Active(log[m].to), joined'[d] = joined[d]
      PROVE  \E e \in log'[m].envelopes : e.device = d
  BY <1>1, Zenon DEF NoDeviceLeftOut, IsDirect
<1>2. CASE log' = log
  <2>1. m \in Ids /\ log'[m] = log[m]
    BY <1>2, Zenon DEF Ids
  <2>2. CASE UNCHANGED <<user_id, revoked, joined, auths>>
    BY <1>0, <1>1, <2>1, <2>2, Zenon DEF Active
  <2>3. ASSUME NEW x \in Device, revoke_device(x)
        PROVE  \E e \in log'[m].envelopes : e.device = d
    BY <1>0, <1>1, <2>1, <2>3, Zenon DEF Active, revoke_device
  <2>4. ASSUME NEW x \in Device, NEW u \in User, link_device(x, u)
        PROVE  \E e \in log'[m].envelopes : e.device = d
    <3>1. CASE d = x
      <4>1. joined'[d] = Len(log)
        BY <1>0, <2>4, <3>1, Zenon DEF link_device, Typed
      <4>2. Len(log) \in Nat /\ m \in 1 .. Len(log)
        BY <1>2, LogStep, Zenon DEF Ids
      <4>3. QED
        BY <4>1, <4>2
    <3>2. CASE d # x
      <4>1. user_id'[d] = user_id[d] /\ joined'[d] = joined[d] /\ revoked' = revoked
        BY <1>0, <2>4, <3>2, Zenon DEF link_device, Typed
      <4>2. QED
        BY <1>0, <1>1, <2>1, <4>1, Zenon DEF Active
    <3>3. QED
      BY <3>1, <3>2, Zenon
  <2>5. QED
    BY <2>2, <2>3, <2>4, Zenon DEF Framed, DeviceFrame
<1>3. ASSUME Grown, UNCHANGED <<user_id, revoked, joined>>, m # Len(log) + 1
      PROVE  \E e \in log'[m].envelopes : e.device = d
  <2>1. m \in Ids /\ log'[m] = log[m]
    BY <1>3, GrownIds, Zenon DEF Grown, Ids
  <2>2. QED
    BY <1>0, <1>1, <1>3, <2>1, Zenon DEF Active
<1>4. ASSUME NEW r \in auths, NEW n \in Nickname, NEW i \in ClientId,
             NEW E \in SUBSET Registered, send_direct_message(r, n, i, E)
      PROVE  \E e \in log'[m].envelopes : e.device = d
  <2>1. Grown /\ log'[Len(log) + 1].to = nickname[n]
    BY <1>4, DirectRow, Zenon
  <2>2. UNCHANGED <<user_id, revoked, joined>>
    BY <1>4, Zenon DEF send_direct_message, accountvars
  <2>3. CASE m = Len(log) + 1
    <3>1. d \in Active(nickname[n])
      BY <1>0, <2>1, <2>2, <2>3, Zenon DEF Active
    <3>2. QED
      BY <1>4, <2>3, <3>1, CompleteRow, Zenon
  <2>4. QED
    BY <1>3, <2>1, <2>2, <2>3, Zenon
<1>5. ASSUME NEW r \in auths, NEW g \in Chat, NEW i \in ClientId, send_group_message(r, g, i)
      PROVE  \E e \in log'[m].envelopes : e.device = d
  <2>1. Grown /\ log'[Len(log) + 1].to \notin User
    BY <1>5, GroupRow, MessagesAssumption, Zenon
  <2>2. UNCHANGED <<user_id, revoked, joined>>
    BY <1>5, Zenon DEF send_group_message, accountvars
  <2>3. QED
    BY <1>3, <2>1, <2>2, Zenon
<1>6. QED
  BY <1>2, <1>4, <1>5, Zenon DEF Framed, LogFrame, Sent
-----------------------------------------------------------------------------
(* The position of a client is the largest id it got. *)
LEMMA Position ==
    ASSUME Typed, NEW r \in Auth
    PROVE  /\ Len(log) \in Nat /\ After(r) \in 0 .. Len(log)
           /\ After(r) = 0 \/ After(r) \in seen[r.device][r.user]
           /\ \A z \in seen[r.device][r.user] : z <= After(r)
<1>1. Len(log) \in Nat
  BY LenProperties, Zenon DEF Typed
<1>2. seen[r.device][r.user] \in SUBSET (1 .. Len(log))
  BY Zenon DEF Typed, Auth
<1>3. 0 \in 0 .. Len(log) /\ 1 .. Len(log) \subseteq 0 .. Len(log)
  BY <1>1
<1>4. seen[r.device][r.user] \in SUBSET (0 .. Len(log))
  BY <1>2, <1>3, Zenon
<1>5. QED
  BY <1>1, <1>3, <1>4, LargestOf, Zenon DEF After

(* A page is the beginning of what it is taken from. *)
LEMMA PageIsPrefix ==
    ASSUME NEW k \in Nat, NEW S \in SUBSET (1 .. k), NEW x \in PageOf(S), NEW m \in S, m <= x
    PROVE  m \in PageOf(S)
<1> DEFINE Below(y) == {z \in S : z < y}
<1>1. IsFiniteSet(1 .. k)
  BY FS_Interval
<1>2. x \in S /\ Cardinality(Below(x)) < Page
  BY Zenon DEF PageOf
<1>3. Below(m) \in SUBSET Below(x) /\ Below(x) \in SUBSET (1 .. k)
  <2>1. \A z \in S : z < m => z < x
    <3>1. \A z \in S : z \in Int
      OBVIOUS
    <3>2. QED
      BY <1>2, <3>1
  <2>2. QED
    BY <2>1, Zenon
<1>4. IsFiniteSet(Below(x)) /\ IsFiniteSet(Below(m))
  BY <1>1, <1>3, FS_Subset, Zenon
<1>5. Cardinality(Below(m)) <= Cardinality(Below(x))
  BY <1>3, <1>4, FS_Subset, Zenon
<1>6. Cardinality(Below(m)) \in Nat /\ Cardinality(Below(x)) \in Nat
  BY <1>4, FS_CardinalityType, Zenon
<1>7. Cardinality(Below(m)) < Page
  <2> HIDE DEF Below
  <2>1. QED
    BY <1>2, <1>5, <1>6, MessagesAssumption
<1>8. QED
  BY <1>7, Zenon DEF PageOf

(* Rows that are added are beyond every client's position, and a page      *)
(* continues where the client's position was.                              *)
LEMMA GaplessStep == ASSUME Typed, Framed, Gapless PROVE Gapless'
<1> SUFFICES ASSUME NEW r \in Auth, NEW m \in Inbox(r)', m <= After(r)'
             PROVE  m \in seen'[r.device][r.user]
  BY Zenon DEF Gapless
<1> DEFINE mine == seen[r.device][r.user]
<1>1. m \in Ids' /\ r.device \in Device /\ r.user \in User
  BY Zenon DEF Inbox, Auth
<1>2. ASSUME seen'[r.device][r.user] = mine
      PROVE  m \in mine
  <2>1. After(r)' = After(r)
    BY <1>2, Zenon DEF After
  <2>2. m \in Ids /\ log'[m] = log[m]
    <3>1. After(r) \in 0 .. Len(log) /\ Len(log) \in Nat
      BY Position, Zenon
    <3>2. CASE Grown
      <4>1. m # Len(log) + 1
        BY <2>1, <3>1
      <4>2. QED
        BY <1>1, <3>2, <4>1, GrownIds, Zenon DEF Grown, Ids
    <3>3. QED
      BY <1>1, <3>2, LogStep, Zenon DEF Ids
  <2>3. m \in Inbox(r)
    BY <2>2, Zenon DEF Inbox, IsDirect
  <2>4. QED
    BY <2>1, <2>3, Zenon DEF Gapless
<1>3. ASSUME NEW q \in auths, list_direct_messages(q)
      PROVE  m \in seen'[r.device][r.user]
  <2> DEFINE rest == {x \in Inbox(q) : x > After(q)}
             got == PageOf(rest)
  <2>1. seen' = [seen EXCEPT ![q.device][q.user] = @ \cup got] /\ log' = log
    BY <1>3, Zenon DEF list_direct_messages, tables
  <2>2. q \in Auth /\ q.device \in Device /\ q.user \in User
    BY Zenon DEF Typed, Auth
  <2>3. seen \in [Device -> [User -> SUBSET (1 .. Len(log))]]
    BY Zenon DEF Typed
  <2>4. CASE ~(q.device = r.device /\ q.user = r.user)
    <3> HIDE DEF got
    <3>1. seen'[r.device][r.user] = mine
      BY <1>1, <2>1, <2>2, <2>3, <2>4
    <3>2. QED
      BY <1>2, <3>1, Zenon
  <2>5. CASE q.device = r.device /\ q.user = r.user
    <3>1. seen'[r.device][r.user] = mine \cup got
      <4> HIDE DEF got
      <4>1. QED
        BY <1>1, <2>1, <2>2, <2>3, <2>5
    <3>2. Inbox(q) = Inbox(r) /\ After(q) = After(r) /\ Inbox(r)' = Inbox(r)
      BY <2>1, <2>5, Zenon DEF Inbox, After, Ids, IsDirect
    <3>3. CASE m <= After(r)
      BY <3>1, <3>2, <3>3, Zenon DEF Gapless
    <3>4. CASE ~(m <= After(r))
      <4>1. /\ Len(log) \in Nat /\ After(r) \in 0 .. Len(log)
            /\ \A z \in mine : z <= After(r)
        BY Position, Zenon
      <4>2. After(r)' \in mine \cup got \cup {0} /\ m \in Ids
        <5>1. seen'[r.device][r.user] \in SUBSET (1 .. Len(log))
          BY <1>1, SeenStep, Zenon
        <5>2. seen'[r.device][r.user] \in SUBSET (0 .. Len(log)) /\ 0 \in 0 .. Len(log)
          BY <4>1, <5>1
        <5>3. After(r)' \in seen'[r.device][r.user] \cup {0}
          BY <4>1, <5>2, LargestOf, Zenon DEF After
        <5>4. QED
          BY <1>1, <2>1, <3>1, <5>3, Zenon DEF Ids
      <4>3. got \in SUBSET rest /\ rest \in SUBSET (1 .. Len(log))
        BY Zenon DEF PageOf, Inbox, Ids
      <4>4. After(r)' \in got
        <5>1. m > 0 /\ m > After(r)
          BY <3>4, <4>1, <4>2 DEF Ids
        <5>2. \A z \in mine \cup {0} : ~(m <= z)
          <6>1. mine \in SUBSET (1 .. Len(log))
            BY <1>1, <2>3, Zenon
          <6> HIDE DEF mine
          <6>2. m \in Int /\ After(r) \in Int /\ \A z \in mine : z \in Int
            BY <4>1, <4>2, <6>1 DEF Ids
          <6>3. QED
            BY <4>1, <5>1, <6>2
        <5>3. QED
          BY <4>2, <5>2, Zenon
      <4>5. m \in rest
        <5>1. m > After(q)
          BY <3>2, <3>4, <4>1, <4>2 DEF Ids
        <5>2. QED
          BY <3>2, <5>1, Zenon
      <4>6. m \in got
        <5> HIDE DEF rest
        <5>1. QED
          BY <4>1, <4>3, <4>4, <4>5, PageIsPrefix, Zenon
      <4>7. QED
        BY <3>1, <4>6, Zenon
    <3>5. QED
      BY <3>3, <3>4, Zenon
  <2>6. QED
    BY <2>4, <2>5, Zenon
<1>4. QED
  BY <1>2, <1>3, Zenon DEF Framed, SeenFrame
-----------------------------------------------------------------------------
(* Registrations and deliveries keep the types of what they write. *)
LEMMA TokensStep == ASSUME TokensTyped, Framed, Alerts PROVE TokensTyped'
<1>1. CASE UNCHANGED <<key, tokenless, environment>>
  BY <1>1, Zenon DEF TokensTyped
<1>2. ASSUME NEW d \in Device, NEW v \in Environment, register_device(d, v)
      PROVE  TokensTyped'
  <2>1. key[d] + 1 \in Nat
    BY DEF TokensTyped
  <2>2. QED
    BY <1>2, <2>1, Zenon DEF register_device, TokensTyped
<1>3. ASSUME NEW j \in jobs, NEW res, NEW taken, deliver(j, res, taken)
      PROVE  TokensTyped'
  <2>1. j.environment \in Environment
    BY Zenon DEF Alerts, Job
  <2>2. QED
    BY <1>3, <2>1, Zenon DEF deliver, TokensTyped
<1>4. QED
  BY <1>1, <1>2, <1>3, Zenon DEF Framed, TokenFrame, Delivered

(* What is left of a task is a task for the same row and device. *)
LEMMA RestIsForTheSame ==
    ASSUME NEW j \in Job, NEW res, NEW i \in Rest(j, res), j.attempts < Attempts
    PROVE  i \in Job /\ For(i, j) /\ i.attempts < Attempts /\ Rest(j, res) = {i} /\ res # "ok"
<1>1. Attempts \in Nat \ {0} /\ j.attempts \in Nat
  BY MessagesAssumption DEF Job
<1>2. CASE Again(res, j.attempts + 1)
  <2>1. i = [j EXCEPT !.attempts = j.attempts + 1] /\ Rest(j, res) = {i} /\ res # "ok"
    BY <1>2, Zenon DEF Rest, Again
  <2>2. j.attempts + 1 < Attempts /\ j.attempts + 1 \in 0 .. Attempts
    BY <1>1, <1>2 DEF Again
  <2>3. QED
    BY <2>1, <2>2 DEF Job, For
<1>3. CASE ~Again(res, j.attempts + 1) /\ Fallback(j, res)
  <2>1. /\ i = [j EXCEPT !.environment = alternate(j.environment), !.fallback = TRUE,
                         !.attempts = 0]
        /\ Rest(j, res) = {i} /\ res # "ok"
    BY <1>3, Zenon DEF Rest, Fallback
  <2>2. 0 \in 0 .. Attempts /\ 0 < Attempts
    BY <1>1
  <2>3. alternate(j.environment) \in Environment
    BY Zenon DEF alternate, Environment
  <2>4. QED
    BY <2>1, <2>2, <2>3 DEF Job, For
<1>4. QED
  BY <1>2, <1>3, Zenon DEF Rest

(* The tasks of a message are new with its row, and a task goes on for     *)
(* the same row and device until it has heard an answer.                   *)
LEMMA AlertsStep == ASSUME Typed, TokensTyped, Framed, Alerts PROVE Alerts'
<1>0. Len(log) \in Nat /\ Ids \subseteq Ids'
  <2>1. CASE log' = log
    BY <2>1, LogStep, Zenon DEF Ids
  <2>2. CASE Grown
    BY <2>2 DEF Grown, Ids
  <2>3. QED
    BY <2>1, <2>2, LogStep, Zenon
<1>1. CASE UNCHANGED <<jobs, alerted>>
  BY <1>0, <1>1, Zenon DEF Alerts
<1>2. ASSUME NEW r \in auths, NEW g \in Chat, NEW i \in ClientId, send_group_message(r, g, i)
      PROVE  Alerts'
  <2> DEFINE k == Len(log) + 1
             job(d) == [id |-> k, device |-> d, key |-> key[d],
                        environment |-> environment[d], fallback |-> FALSE, attempts |-> 0]
             new == {job(d) : d \in Audience(g, r.user) \ tokenless}
  <2>1. jobs' = jobs \cup new /\ alerted' = alerted
    BY <1>2, Zenon DEF send_group_message
  <2>2. k \in Ids' /\ k \notin Ids /\ k \in Nat
    BY <1>0, <1>2, GroupRow DEF Grown, Ids
  <2>3. ASSUME NEW j \in new
        PROVE  /\ j.id = k /\ j \in Job /\ j.attempts < Attempts
               /\ \A h \in new : For(h, j) => h = j
    <3>1. Attempts \in Nat \ {0}
      BY MessagesAssumption
    <3>2. \A d \in Audience(g, r.user) : d \in Device
      BY Zenon DEF Audience, Active
    <3>3. PICK d \in Device : j = job(d)
      BY <3>2, Zenon
    <3>4. key[d] \in Nat /\ environment[d] \in Environment
      BY Zenon DEF TokensTyped
    <3>5. j.id = k /\ j \in Job /\ j.attempts < Attempts
      BY <2>2, <3>1, <3>3, <3>4 DEF Job
    <3>6. \A h \in new : h = job(h.device)
      OBVIOUS
    <3>7. QED
      BY <3>5, <3>6, Zenon DEF For
  <2> HIDE DEF new, k, job
  <2>4. \A a \in jobs \cup alerted, b \in new : ~For(a, b) /\ ~For(b, a)
    BY <2>2, <2>3, Zenon DEF Alerts, For
  <2>5. jobs' \subseteq Job /\ alerted' \subseteq Alert
    BY <2>1, <2>3, Zenon DEF Alerts
  <2>6. /\ \A j \in jobs' \cup alerted' : j.id \in Ids'
        /\ \A j \in jobs' : j.attempts < Attempts
    BY <1>0, <2>1, <2>2, <2>3, Zenon DEF Alerts
  <2>7. /\ \A h, j \in jobs' : For(h, j) => h = j
        /\ \A a \in alerted', j \in jobs' : For(a, j) => ~a.heard
    BY <2>1, <2>3, <2>4, Zenon DEF Alerts
  <2>8. QED
    BY <2>5, <2>6, <2>7, Zenon DEF Alerts
<1>3. ASSUME NEW j \in jobs, NEW res, NEW taken \in BOOLEAN, deliver(j, res, taken)
      PROVE  Alerts'
  <2> DEFINE t == [id |-> j.id, device |-> j.device, heard |-> (res = "ok")]
             rest == Rest(j, res)
  <2>0. j \in Job /\ j.attempts < Attempts /\ j.id \in Ids
    BY Zenon DEF Alerts
  <2>1. jobs' = (jobs \ {j}) \cup rest
    BY <1>3, Zenon DEF deliver
  <2>2. alerted' \in {alerted, alerted \cup {t}}
    BY <1>3, Zenon DEF deliver
  <2>3. \A i \in rest : /\ i \in Job /\ For(i, j) /\ i.attempts < Attempts
                         /\ rest = {i} /\ res # "ok"
    BY <2>0, RestIsForTheSame, Zenon
  <2>4. t \in Alert /\ t.id = j.id /\ t.device = j.device /\ (t.heard <=> res = "ok")
    BY <2>0 DEF Alert, Job
  <2> HIDE DEF t, rest
  <2>5. jobs' \subseteq Job /\ alerted' \subseteq Alert
    BY <2>1, <2>2, <2>3, <2>4, Zenon DEF Alerts
  <2>6. \A i \in jobs' \cup alerted' : i.id \in Ids'
    BY <1>0, <2>0, <2>1, <2>2, <2>3, <2>4, Zenon DEF Alerts, For
  <2>7. \A i \in jobs' : i.attempts < Attempts
    BY <2>1, <2>3, Zenon DEF Alerts
  <2>8. ASSUME NEW h \in jobs', NEW i \in jobs', For(h, i)
        PROVE  h = i
    <3>1. \A x \in rest, y \in jobs \ {j} : ~For(x, y) /\ ~For(y, x)
      BY <2>3, Zenon DEF Alerts, For
    <3>2. CASE h \in rest /\ i \in rest
      BY <2>3, <3>2, Zenon
    <3>3. CASE h \in jobs \ {j} /\ i \in jobs \ {j}
      BY <2>8, <3>3, Zenon DEF Alerts
    <3>4. QED
      BY <2>1, <2>8, <3>1, <3>2, <3>3, Zenon
  <2>9. ASSUME NEW a \in alerted', NEW i \in jobs', For(a, i), a.heard
        PROVE  FALSE
    <3>1. CASE a \in alerted
      BY <2>1, <2>3, <2>9, <3>1, Zenon DEF Alerts, For
    <3>2. CASE a = t /\ i \in rest
      BY <2>3, <2>4, <2>9, <3>2, Zenon
    <3>3. CASE a = t /\ i \in jobs \ {j}
      BY <2>4, <2>9, <3>3, Zenon DEF Alerts, For
    <3>4. QED
      BY <2>1, <2>2, <3>1, <3>2, <3>3, Zenon
  <2>10. QED
    BY <2>5, <2>6, <2>7, <2>8, <2>9, Zenon DEF Alerts
<1>4. CASE Crash
  <2>1. jobs' = {} /\ alerted' = alerted
    BY <1>4, Zenon DEF Crash
  <2>2. QED
    BY <1>0, <2>1, Zenon DEF Alerts
<1>5. QED
  BY <1>1, <1>2, <1>3, <1>4, Zenon DEF Framed, AlertFrame, Delivered
-----------------------------------------------------------------------------
MessagesInv == Typed /\ TokensTyped /\ Unique /\ NoDeviceLeftOut /\ Gapless /\ Alerts

LEMMA InitMessages == Init => MessagesInv
<1> SUFFICES ASSUME Init PROVE MessagesInv
  BY Zenon
<1>1. Typed
  BY InitTyped, Zenon
<1>2. Ids = {}
  BY DEF Init, Ids
<1>3. Unique /\ NoDeviceLeftOut /\ Gapless /\ Alerts
  BY <1>2, Zenon DEF Init, Unique, NoDeviceLeftOut, Gapless, Inbox, Alerts
<1>4. TokensTyped
  <2>1. 0 \in Nat
    OBVIOUS
  <2>2. QED
    BY <2>1, Zenon DEF Init, TokensTyped, Environment
<1>5. QED
  BY <1>1, <1>3, <1>4, Zenon DEF MessagesInv

(* The inductive invariant of the message tables. *)
THEOREM MessagesInvariant == Spec => []MessagesInv
<1>1. MessagesInv /\ [Next]_vars => MessagesInv'
  BY Frames, TypedStep, TokensStep, UniqueStep, LeftOutStep, GaplessStep, AlertsStep, Zenon
     DEF MessagesInv
<1>2. QED
  BY <1>1, InitMessages, PTL DEF Spec

(* Whatever joins, leaves or changes its key while a direct message is on  *)
(* its way, every device that was with the recipient's account when it was *)
(* committed can read it.                                                  *)
THEOREM EveryDeviceIsServed == Spec => []NoDeviceLeftOut
<1>1. MessagesInv => NoDeviceLeftOut
  BY Zenon DEF MessagesInv
<1>2. QED
  BY <1>1, MessagesInvariant, PTL

(* A client that pages through its inbox misses nothing, for every page    *)
(* size.                                                                   *)
THEOREM PagingIsComplete == Spec => []InboxHasNoGaps
<1>1. MessagesInv => InboxHasNoGaps
  BY Zenon DEF MessagesInv, Typed, Gapless, InboxHasNoGaps
<1>2. QED
  BY <1>1, MessagesInvariant, PTL

(* A repeated request is answered with the message it stored, whatever has *)
(* changed since.                                                          *)
THEOREM RetriesFindTheirMessage == Spec => []RetryIsAnswered
<1>1. MessagesInv => RetryIsAnswered
  <2> SUFFICES ASSUME MessagesInv, NEW r \in auths, NEW m \in Ids, IsDirect(m),
                      log[m].device = r.device, log[m].user = r.user
               PROVE  retry_answer(r, log[m].nick, log[m].client, log[m].envelopes) = {m}
    BY Zenon DEF RetryIsAnswered
  <2>1. Existing(r, log[m].client) = {m}
    BY Zenon DEF Existing, MessagesInv, Unique
  <2>2. QED
    BY <2>1, Zenon DEF retry_answer
<1>2. QED
  BY <1>1, MessagesInvariant, PTL

(* One task tells a device of what was sent once, and it stops when it     *)
(* hears that the alert was taken, although requests are repeated,         *)
(* attempts fail and the process may stop at any point.                    *)
THEOREM AlertsEndWhenHeard == Spec => []HeardOnce
<1>1. MessagesInv => HeardOnce
  <2> SUFFICES ASSUME MessagesInv PROVE HeardOnce
    BY Zenon
  <2>1. \A a, b \in jobs \cup alerted : Request(a) = Request(b) => For(a, b)
    <3> SUFFICES ASSUME NEW a \in jobs \cup alerted, NEW b \in jobs \cup alerted,
                        Request(a) = Request(b)
                 PROVE  For(a, b)
      BY Zenon
    <3>1. /\ log[a.id].to = log[b.id].to /\ log[a.id].device = log[b.id].device
          /\ log[a.id].client = log[b.id].client /\ a.device = b.device
      BY DEF Request
    <3>2. QED
      BY <3>1, Zenon DEF MessagesInv, Alerts, Unique, For
  <2>2. \A a, b \in Alert : For(a, b) /\ a.heard = b.heard => a = b
    BY DEF Alert, For
  <2>3. QED
    BY <2>1, <2>2, Zenon DEF HeardOnce, MessagesInv, Alerts
<1>2. QED
  BY <1>1, MessagesInvariant, PTL

(* A late answer changes nothing but the registration it is about. *)
THEOREM LateAnswersAreHarmless == Spec => AnswersAreForTheToken
<1> DEFINE A(d) ==
        key'[d] = key[d] /\ (environment'[d] # environment[d] \/ d \in tokenless' \ tokenless)
        => \E j \in jobs \ jobs' :
              /\ j.device = d /\ j.key = key[d] /\ d \notin tokenless
              /\ environment'[d] # environment[d] =>
                    /\ environment'[d] = j.environment
                    /\ [id |-> j.id, device |-> d, heard |-> TRUE] \in alerted'
<1>1. ASSUME MessagesInv, [Next]_vars, NEW d \in Device
      PROVE  A(d)
  <2>0. TokensTyped
    BY <1>1, Zenon DEF MessagesInv
  <2>1. CASE UNCHANGED <<key, tokenless, environment>>
    BY <2>1, Zenon
  <2>2. ASSUME NEW e \in Device, NEW v \in Environment, register_device(e, v)
        PROVE  A(d)
    <3>1. key[d] \in Nat /\ key[d] + 1 # key[d]
      BY <2>0 DEF TokensTyped
    <3>2. CASE d = e
      BY <2>0, <2>2, <3>1, <3>2, Zenon DEF register_device, TokensTyped
    <3>3. CASE d # e
      BY <2>0, <2>2, <3>3, Zenon DEF register_device, TokensTyped
    <3>4. QED
      BY <3>2, <3>3, Zenon
  <2>3. ASSUME NEW j \in jobs, NEW res, NEW taken \in BOOLEAN, deliver(j, res, taken),
               environment'[d] # environment[d] \/ d \in tokenless' \ tokenless
        PROVE  /\ j \in jobs \ jobs' /\ j.device = d /\ j.key = key[d] /\ d \notin tokenless
               /\ environment'[d] # environment[d] =>
                     /\ environment'[d] = j.environment
                     /\ [id |-> j.id, device |-> d, heard |-> TRUE] \in alerted'
    <3>1. j.device = d /\ Holds(j) /\ ((res = "ok" /\ j.fallback) \/ Invalid(j, res))
      BY <2>0, <2>3, Zenon DEF deliver, TokensTyped
    <3>2. Rest(j, res) = {}
      BY <3>1, Zenon DEF Invalid, Rest, Again, Fallback
    <3>3. j \notin jobs'
      BY <2>3, <3>2, Zenon DEF deliver
    <3>4. ASSUME environment'[d] # environment[d]
          PROVE  res = "ok" /\ environment'[d] = j.environment
      BY <2>0, <2>3, <3>1, <3>4, Zenon DEF deliver, TokensTyped
    <3>5. ASSUME res = "ok"
          PROVE  [id |-> j.id, device |-> d, heard |-> TRUE] \in alerted'
      <4>1. [id |-> j.id, device |-> j.device, heard |-> (res = "ok")] \in alerted'
        BY <2>3, <3>5, Zenon DEF deliver
      <4>2. (res = "ok") = TRUE
        BY <3>5
      <4>3. QED
        BY <3>1, <4>1, <4>2
    <3>6. QED
      BY <3>1, <3>3, <3>4, <3>5, Zenon DEF Holds
  <2>4. CASE Delivered
    BY <2>3, <2>4, Zenon DEF Delivered
  <2>5. QED
    BY <1>1, <2>1, <2>2, <2>4, Frames, Zenon DEF Framed, TokenFrame
<1>2. MessagesInv /\ [Next]_vars => [\A d \in Device : A(d)]_vars
  BY <1>1, Zenon
<1>3. QED
  BY <1>2, MessagesInvariant, PTL DEF Spec, AnswersAreForTheToken

(* A new message is unread on every device it is for, and read cursors     *)
(* only move forward, whatever ids the clients name.                       *)
THEOREM NewMessagesAreUnread == Spec => NewIsUnread
<1> DEFINE Forward == \A u \in User : \A p \in User \cup Chat : cursor[u][p] <= cursor'[u][p]
           Noticed == \A u \in User, d \in Device :
                         (NewestIsFor(u, d) => Len(log) \in Unread(u, d))'
<1>1. ASSUME Typed, [Next]_vars PROVE Forward
  BY <1>1, Frames, CursorStep, Zenon
<1>2. ASSUME Typed, Framed, Grown
      PROVE  \A u \in User, p \in User \cup Chat : Len(log') > cursor'[u][p]
  <2>1. Len(log) \in Nat /\ Len(log') = Len(log) + 1
    BY <1>2, Zenon DEF Grown
  <2>2. \A u \in User, p \in User \cup Chat : cursor'[u][p] \in 0 .. Len(log)
    BY <1>2, CursorStep, Zenon
  <2>3. QED
    BY <2>1, <2>2
<1>3. ASSUME Typed, Framed, NEW r \in auths, NEW n \in Nickname, NEW i \in ClientId,
             NEW E \in SUBSET Registered, send_direct_message(r, n, i, E)
      PROVE  Noticed
  <2> DEFINE k == Len(log) + 1
  <2>1. Grown /\ log'[k].to = nickname[n] /\ log'[k].to \in User /\ log'[k].user = r.user
    BY <1>3, DirectRow, Zenon
  <2>2. Len(log') = k /\ k \in Ids'
    BY <2>1 DEF Grown, Ids
  <2>3. r.user \in User /\ r.user # nickname[n]
    BY <1>3, Zenon DEF Typed, Auth, send_direct_message, may_resolve
  <2>4. UNCHANGED <<user_id, revoked>>
    BY <1>3, Zenon DEF send_direct_message, accountvars
  <2>5. \A d \in Active(nickname[n]) : \E e \in log'[k].envelopes : e.device = d
    BY <1>3, CompleteRow, Zenon
  <2>6. \A u \in User, p \in User \cup Chat : k > cursor'[u][p]
    BY <1>2, <1>3, <2>1, <2>2, Zenon
  <2> HIDE DEF k
  <2> SUFFICES ASSUME NEW u \in User, NEW d \in Device, NewestIsFor(u, d)'
               PROVE  k \in DirectUnread(u, d)'
    BY <2>2, Zenon DEF Unread
  <2>7. log'[k].to = u /\ d \in Active(u)
    BY <2>1, <2>2, <2>4, MessagesAssumption, Zenon DEF NewestIsFor, Active
  <2>8. k \in Inbox([device |-> d, user |-> u])'
    BY <2>1, <2>2, <2>5, <2>7, Zenon DEF Inbox, IsDirect
  <2>9. QED
    BY <2>1, <2>3, <2>6, <2>7, <2>8, Zenon DEF DirectUnread
<1>4. ASSUME Typed, Framed, NEW r \in auths, NEW g \in Chat, NEW i \in ClientId,
             send_group_message(r, g, i)
      PROVE  Noticed
  <2> DEFINE k == Len(log) + 1
  <2>1. Grown /\ log'[k].to = g /\ log'[k].user = r.user
    BY <1>4, GroupRow, Zenon
  <2>2. Len(log') = k /\ k \in Ids'
    BY <2>1 DEF Grown, Ids
  <2>3. \A u \in User, p \in User \cup Chat : k > cursor'[u][p]
    BY <1>2, <1>4, <2>1, <2>2, Zenon
  <2>4. g \notin User
    BY MessagesAssumption, Zenon
  <2> HIDE DEF k
  <2> SUFFICES ASSUME NEW u \in User, NEW d \in Device, NewestIsFor(u, d)'
               PROVE  k \in GroupUnread(u)'
    BY <2>2, Zenon DEF Unread
  <2>5. u \in member'[g] /\ u # r.user
    BY <2>1, <2>2, <2>4, Zenon DEF NewestIsFor
  <2>6. QED
    BY <2>1, <2>2, <2>3, <2>4, <2>5, Zenon DEF GroupUnread, IsDirect
<1>5. ASSUME Typed, [Next]_vars, log' # log PROVE Noticed
  <2>1. Framed
    BY <1>5, Frames, Zenon
  <2>2. QED
    BY <1>3, <1>4, <1>5, <2>1, Zenon DEF Framed, LogFrame, Sent
<1>6. MessagesInv /\ [Next]_vars => [Forward /\ (log' # log => Noticed)]_vars
  BY <1>1, <1>5, Zenon DEF MessagesInv
<1>7. QED
  BY <1>6, MessagesInvariant, PTL DEF Spec, NewIsUnread
=============================================================================
