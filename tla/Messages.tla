------------------------------ MODULE Messages ------------------------------
(***************************************************************************)
(* Direct messages and group chats of services/call-api: idempotent        *)
(* sending with one envelope per recipient device, the paged inbox, read   *)
(* cursors per account, and the alerts of group messages, which are sent   *)
(* after the commit and not through the outbox (the alerts of direct       *)
(* messages are in ApnsOutbox).                                            *)
(*                                                                         *)
(* Row ids are positions in one log: both tables number their rows in      *)
(* commit order and only that order is used.  "auths" is as in Accounts.   *)
(* Every registration of a device brings a new text key and alert token.   *)
(* An envelope is a recipient device with the fingerprint of the key it    *)
(* was sealed for, here the number of that key; bodies, signatures, titles *)
(* and display names are left out.                                         *)
(***************************************************************************)
EXTENDS Integers, Sequences, FiniteSets

CONSTANTS Device, User, Chat, Nickname, ClientId, None,
          Owner,        \* the account each device first registered with
          Named,        \* the nicknames claimed at first: [Nickname -> User or None]
          Page,         \* message_page_size of the client's request
          Attempts,     \* APNS_MAX_DELIVERY_ATTEMPTS
          MaxLog,       \* bound on the messages sent
          MaxChanges    \* bound on the changes of devices and nicknames, and retries

ASSUME MessagesAssumption ==
    /\ None \notin User \cup Device /\ User \cap Chat = {}
    /\ Owner \in [Device -> User] /\ Named \in [Nickname -> User \cup {None}]
    /\ Page \in Nat \ {0} /\ Attempts \in Nat \ {0}
    /\ MaxLog \in Nat /\ MaxChanges \in Nat

VARIABLES user_id, revoked, auths,  \* devices, as in Accounts
          key,          \* which registration the device's text key and alert token are of
          tokenless,    \* the devices whose alert_push_token was cleared
          environment,  \* devices.push_environment
          nickname,     \* nicknames.user_id
          member,       \* group_chat_members
          log,          \* direct_messages with envelopes, group_chat_messages
          cursor,       \* the read_state tables: [account, peer account or chat]
          jobs,         \* group alerts between commit and the end of their task
          alerted,      \* group alerts the provider has taken, and if the task knows
          seen,         \* per device and account: what the client got of its inbox
          joined,       \* per device: the log's length when it joined its account
          changes       \* those so far

accountvars == <<user_id, revoked, auths, joined, changes>>
tables == <<key, tokenless, environment, nickname, member, log, cursor>>
vars == <<accountvars, tables, jobs, alerted, seen>>

Auth == [device : Device, user : User]
Envelope == [device : Device, key : 0 .. MaxChanges]
Registered == {e \in Envelope : e.key <= key[e.device]}
Direct == [to : User, nick : Nickname, user : User, device : Device,
           client : ClientId, envelopes : SUBSET Envelope]
Group == [to : Chat, user : User, device : Device, client : ClientId]
Ids == 1 .. Len(log)

\* ApnsEnvironment and its alternate
Environment == {"sandbox", "production"}
alternate(v) == IF v = "sandbox" THEN "production" ELSE "sandbox"

\* A spawned task: the endpoint it asks, whether that is the second one, and
\* the attempts it has completed there.
Job == [id : Nat, device : Device, key : Nat, environment : Environment,
        fallback : BOOLEAN, attempts : 0 .. Attempts]
\* Whether the provider took the alert in an attempt that the task heard the
\* answer of, or in one that it did not.
Alert == [id : Nat, device : Device, heard : BOOLEAN]

Active(u) == {d \in Device : user_id[d] = u /\ d \notin revoked}
HasName(u) == \E n \in Nickname : nickname[n] = u
IsDirect(i) == log[i].to \in User

Init ==
    /\ user_id = Owner /\ revoked = {}
    /\ auths = {[device |-> d, user |-> Owner[d]] : d \in Device}
    /\ key = [d \in Device |-> 0] /\ tokenless = {}
    /\ environment = [d \in Device |-> "production"]
    /\ nickname = Named
    /\ member = [g \in Chat |-> {}]
    /\ log = <<>>
    /\ cursor = [u \in User |-> [p \in User \cup Chat |-> 0]]
    /\ jobs = {} /\ alerted = {}
    /\ seen = [d \in Device |-> [u \in User |-> {}]]
    /\ joined = [d \in Device |-> 0] /\ changes = 0

Change == changes < MaxChanges /\ changes' = changes + 1
-----------------------------------------------------------------------------
(* Direct messages.  r is the snapshot of authenticate().                  *)

\* load_existing_direct_message
Existing(r, i) == {m \in Ids : IsDirect(m) /\ log[m].device = r.device
                               /\ log[m].client = i}

\* load_direct_message_recipient, for the account nickname n stands for.
may_resolve(r, n) == /\ nickname[n] # None
                     /\ nickname[n] # r.user
                     /\ HasName(r.user)
                     /\ Active(nickname[n]) # {}

\* Bug: the envelopes are matched with the devices the sender knew of.
BugComplete(n, E) == E # {} /\ \A e \in E : user_id[e.device] = nickname[n]

\* envelope_set_is_complete, and every envelope for the current key.
complete(n, E) == E = {[device |-> d, key |-> key[d]] : d \in Active(nickname[n])}

\* send_direct_message with a new client_message_id.
send_direct_message(r, n, i, E) ==
    /\ Len(log) < MaxLog
    /\ Existing(r, i) = {}
    /\ may_resolve(r, n)
    /\ complete(n, E)
    /\ log' = Append(log, [to |-> nickname[n], nick |-> n, user |-> r.user,
                           device |-> r.device, client |-> i, envelopes |-> E])
    /\ UNCHANGED <<accountvars, key, tokenless, environment, nickname, member, cursor,
                   jobs, alerted, seen>>

\* Bug: a repetition is checked like a new message.
BugRetry(r, n, i, E) ==
    {m \in Existing(r, i) : log[m].user = r.user /\ log[m].nick = n /\ complete(n, E)}

\* The repeated request, and the message it is answered with.
retry_answer(r, n, i, E) ==
    {m \in Existing(r, i) : log[m].user = r.user /\ log[m].nick = n
                            /\ log[m].envelopes = E}

\* The rows of list_direct_messages for r, before ORDER BY and LIMIT.
Inbox(r) == {m \in Ids : IsDirect(m) /\ log[m].to = r.user
                         /\ \E e \in log[m].envelopes : e.device = r.device}

\* Bug: ORDER BY message_id DESC.
BugPageOf(S) == {m \in S : Cardinality({x \in S : x > m}) < Page}

\* ORDER BY message_id ASC LIMIT Page.
PageOf(S) == {m \in S : Cardinality({x \in S : x < m}) < Page}

Largest(S, x) == CHOOSE y \in S \cup {x} : \A z \in S \cup {x} : z <= y

\* The client's position in its inbox: after_message_id of its next request.
After(r) == Largest(seen[r.device][r.user], 0)

\* list_direct_messages, and the client that continues after what it got.
list_direct_messages(r) ==
    LET got == PageOf({m \in Inbox(r) : m > After(r)}) IN
    /\ got # {}
    /\ seen' = [seen EXCEPT ![r.device][r.user] = @ \cup got]
    /\ UNCHANGED <<accountvars, tables, jobs, alerted>>

\* Bug: the cursor is set to what the client asked for.
BugAdvance(u, p, observed, through) == [cursor EXCEPT ![u][p] = Largest({through}, @)]

\* advance_read_cursor
Advance(u, p, observed, through) == [cursor EXCEPT ![u][p] = Largest(observed, @)]

\* mark_direct_messages_read up to the id the client names.
mark_direct_messages_read(r, p, through) ==
    LET observed == {m \in Inbox(r) : log[m].user = p /\ m <= through} IN
    /\ p # r.user
    /\ observed # {}
    /\ cursor' = Advance(r.user, p, observed, through)
    /\ UNCHANGED <<accountvars, key, tokenless, environment, nickname, member, log,
                   jobs, alerted, seen>>
-----------------------------------------------------------------------------
(* Group chats *)

active_group_member(r, g) == r.user \in member[g]

\* create_group_chat: the other members are named by nicknames of distinct
\* accounts; the read state of every member starts at 0.
create_group_chat(r, g, N) ==
    LET others == {nickname[n] : n \in N} IN
    /\ member[g] = {}
    /\ HasName(r.user)
    /\ N # {} /\ None \notin others /\ r.user \notin others
    /\ Cardinality(others) = Cardinality(N)
    /\ member' = [member EXCEPT ![g] = others \cup {r.user}]
    /\ UNCHANGED <<accountvars, key, tokenless, environment, nickname, log, cursor,
                   jobs, alerted, seen>>

\* Devices that are told of a message of account u in chat g.
Audience(g, u) == UNION {Active(v) : v \in member[g] \ {u}}

\* Bug: a repeated request computes its alerts again.
BugTaken(r, g, i) == FALSE

\* INSERT OR IGNORE finds (chat_id, sender_device_id, client_message_id).
Taken(r, g, i) == \E m \in Ids : log[m].to = g /\ log[m].device = r.device
                                 /\ log[m].client = i

\* send_group_message: the row and, in the same transaction, the alerts.  A
\* repetition changes nothing.  (A device the provider cannot reach is one
\* whose delivery fails.)
send_group_message(r, g, i) ==
    /\ Len(log) < MaxLog
    /\ active_group_member(r, g)
    /\ ~Taken(r, g, i)
    /\ log' = Append(log, [to |-> g, user |-> r.user, device |-> r.device, client |-> i])
    /\ jobs' = jobs \cup {[id |-> Len(log) + 1, device |-> d, key |-> key[d],
                            environment |-> environment[d], fallback |-> FALSE,
                            attempts |-> 0] : d \in Audience(g, r.user) \ tokenless}
    /\ UNCHANGED <<accountvars, key, tokenless, environment, nickname, member, cursor,
                   alerted, seen>>

\* Bug: the update of the device is not restricted to the token it is about.
BugHolds(j) == TRUE

\* WHERE alert_push_token = ?: the device has the token the task was given.
Holds(j) == key[j.device] = j.key /\ j.device \notin tokenless

\* apns_should_retry, apns_should_try_alternate_environment and
\* apns_token_should_be_invalidated after answer "res" to attempt n of task j.
Again(res, n) == res = "transient" /\ n < Attempts
Fallback(j, res) == res = "bad" /\ ~j.fallback
Invalid(j, res) == res = "invalid" \/ (res = "bad" /\ j.fallback)

\* What is left of task j after answer "res": another attempt, after a pause;
\* the first attempt at the alternate endpoint; or nothing.
Rest(j, res) ==
    IF Again(res, j.attempts + 1) THEN {[j EXCEPT !.attempts = @ + 1]}
    ELSE IF Fallback(j, res)
    THEN {[j EXCEPT !.environment = alternate(@), !.fallback = TRUE, !.attempts = 0]}
    ELSE {}

\* One attempt of the spawned task (send_once in send_with_retry in
\* send_with_environment_fallback) and what the task does with the answer.
\* The provider takes the alert if it answers "ok", and may have taken it if
\* the answer got lost, which is transient like its errors of the server.
\* The update of the device waits for the database, but what happens
\* meanwhile could as well have happened before the answer.  An invalid token
\* that was registered after it became invalid is kept, as if "refused".
deliver(j, res, taken) ==
    /\ res = "ok" => taken
    /\ taken => res \in {"ok", "transient"}
    /\ IF Rest(j, res) = {} THEN UNCHANGED changes ELSE Change
    /\ jobs' = (jobs \ {j}) \cup Rest(j, res)
    /\ alerted' = IF taken
                  THEN alerted \cup {[id |-> j.id, device |-> j.device, heard |-> res = "ok"]}
                  ELSE alerted
    /\ environment' = IF res = "ok" /\ j.fallback /\ Holds(j)
                      THEN [environment EXCEPT ![j.device] = j.environment]
                      ELSE environment
    /\ tokenless' = IF Invalid(j, res) /\ Holds(j) THEN tokenless \cup {j.device}
                    ELSE tokenless
    /\ UNCHANGED <<user_id, revoked, auths, joined, key, nickname, member, log, cursor,
                   seen>>

\* The process stops: alerts that were not sent yet are lost.
Crash ==
    /\ jobs # {} /\ jobs' = {}
    /\ UNCHANGED <<accountvars, tables, alerted, seen>>

\* mark_group_chat_read
mark_group_chat_read(r, g, through) ==
    LET observed == {m \in Ids : log[m].to = g /\ m <= through} IN
    /\ active_group_member(r, g)
    /\ cursor' = Advance(r.user, g, observed, through)
    /\ UNCHANGED <<accountvars, key, tokenless, environment, nickname, member, log,
                   jobs, alerted, seen>>

\* unread_count_for_chat, over the chats of the account
GroupUnread(u) ==
    {m \in Ids : /\ ~IsDirect(m) /\ log[m].user # u
                 /\ u \in member[log[m].to] /\ m > cursor[u][log[m].to]}

\* direct_unread_count_for_device
DirectUnread(u, d) ==
    {m \in Inbox([device |-> d, user |-> u]) : log[m].user # u /\ m > cursor[u][log[m].user]}

\* total_badge_count_for_device
Unread(u, d) == GroupUnread(u) \cup DirectUnread(u, d)
-----------------------------------------------------------------------------
(* What happens to devices and names meanwhile (see Accounts)              *)

\* register_device again, with a new text encryption key, alert token and
\* environment.
register_device(d, v) ==
    /\ Change
    /\ d \notin revoked
    /\ key' = [key EXCEPT ![d] = @ + 1]
    /\ tokenless' = tokenless \ {d}
    /\ environment' = [environment EXCEPT ![d] = v]
    /\ UNCHANGED <<user_id, revoked, auths, joined, nickname, member, log, cursor,
                   jobs, alerted, seen>>

link_device(d, u) ==
    /\ Change
    /\ d \notin revoked /\ user_id[d] # u
    /\ Active(user_id[d]) = {d}
    /\ user_id' = [user_id EXCEPT ![d] = u]
    /\ auths' = auths \cup {[device |-> d, user |-> u]}
    /\ joined' = [joined EXCEPT ![d] = Len(log)]
    /\ nickname' = [n \in Nickname |-> IF nickname[n] = user_id[d] THEN None ELSE nickname[n]]
    /\ UNCHANGED <<revoked, key, tokenless, environment, member, log, cursor, jobs,
                   alerted, seen>>

revoke_device(d) ==
    /\ Change
    /\ d \notin revoked /\ Active(user_id[d]) # {d}
    /\ revoked' = revoked \cup {d}
    /\ UNCHANGED <<user_id, auths, joined, tables, jobs, alerted, seen>>

claim_nickname(r, n) ==
    /\ Change
    /\ nickname[n] = None
    /\ nickname' = [m \in Nickname |-> IF m = n THEN r.user
                                       ELSE IF nickname[m] = r.user THEN None ELSE nickname[m]]
    /\ UNCHANGED <<user_id, revoked, auths, joined, key, tokenless, environment,
                   member, log,
                   cursor, jobs, alerted, seen>>

Next ==
    \/ /\ Len(log) < MaxLog
       /\ \E r \in auths, n \in Nickname, i \in ClientId, E \in SUBSET Registered :
             send_direct_message(r, n, i, E)
    \/ \E r \in auths, n \in Nickname : claim_nickname(r, n)
    \/ \E r \in auths :
          \/ list_direct_messages(r)
          \/ \E p \in User, m \in 0 .. MaxLog : mark_direct_messages_read(r, p, m)
    \/ \E r \in auths, g \in Chat :
          \/ \E N \in SUBSET Nickname : create_group_chat(r, g, N)
          \/ \E i \in ClientId : send_group_message(r, g, i)
          \/ \E m \in 0 .. MaxLog : mark_group_chat_read(r, g, m)
    \/ \E j \in jobs, res \in {"ok", "transient", "bad", "invalid", "refused"},
          taken \in BOOLEAN : deliver(j, res, taken)
    \/ Crash
    \/ \E d \in Device : \/ \E v \in Environment : register_device(d, v)
                         \/ revoke_device(d)
                         \/ \E u \in User : link_device(d, u)

Spec == Init /\ [][Next]_vars
-----------------------------------------------------------------------------
TypeOK ==
    /\ user_id \in [Device -> User] /\ revoked \subseteq Device /\ auths \subseteq Auth
    /\ joined \in [Device -> 0 .. MaxLog]
    /\ key \in [Device -> 0 .. MaxChanges] /\ tokenless \subseteq Device
    /\ environment \in [Device -> Environment]
    /\ nickname \in [Nickname -> User \cup {None}]
    /\ member \in [Chat -> SUBSET User]
    /\ log \in Seq(Direct \cup Group) /\ Len(log) <= MaxLog
    /\ cursor \in [User -> [User \cup Chat -> 0 .. MaxLog]]
    /\ jobs \subseteq Job /\ alerted \subseteq Alert
    /\ changes \in 0 .. MaxChanges
    /\ seen \in [Device -> [User -> SUBSET Ids]]

\* A device that has belonged to an account since before a message was sent
\* to that account can read it: whatever joined or left between the sender's
\* look at the recipient's devices and the commit, send_direct_message leaves
\* no current device without an envelope.
NoDeviceLeftOut ==
    \A m \in Ids : IsDirect(m) =>
        \A d \in Active(log[m].to) : joined[d] < m =>
            \E e \in log[m].envelopes : e.device = d

\* A client that pages through list_direct_messages, always asking for what
\* comes after the last id it got, misses nothing: every message of its inbox
\* up to its position has been delivered to it, under whichever account the
\* device is.
InboxHasNoGaps ==
    \A r \in auths : {m \in Inbox(r) : m <= After(r)} \subseteq seen[r.device][r.user]

\* A sender whose answer was lost and who repeats the request gets the stored
\* message, and no second one, although meanwhile the recipient's nickname,
\* devices and keys may have changed so that it could not be sent any more.
RetryIsAnswered ==
    \A r \in auths : \A m \in Ids :
        IsDirect(m) /\ log[m].device = r.device /\ log[m].user = r.user =>
            retry_answer(r, log[m].nick, log[m].client, log[m].envelopes) = {m}

\* Whether the newest message is for device d of account u.
NewestIsFor(u, d) ==
    LET m == log[Len(log)] IN
    /\ d \in Active(u)
    /\ m.to = u \/ (m.to \in Chat /\ u \in member[m.to] \ {m.user})

\* Read cursors only move forward, and a message is unread when it arrives:
\* no cursor of mark_direct_messages_read or mark_group_chat_read, which take
\* an id from the client, runs ahead of the messages that exist.
NewIsUnread ==
    [][/\ \A u \in User : \A p \in User \cup Chat : cursor[u][p] <= cursor'[u][p]
       /\ log' # log => \A u \in User, d \in Device :
                           (NewestIsFor(u, d) => Len(log) \in Unread(u, d))']_vars

\* What the sender asked for, of the task or the alert a.
Request(a) == <<log[a.id].to, log[a.id].device, log[a.id].client, a.device>>

\* A device is alerted once for what the sender sent once, unless an answer
\* of the provider got lost: however often the request is repeated there is
\* one task for the device, it makes no more than Attempts attempts at one
\* endpoint, and once it has heard that an alert was taken it makes no other.
\* (The attempts carry no apns-id, so the provider cannot tell a second one
\* from a new alert.)
HeardOnce ==
    /\ \A i, j \in jobs : Request(i) = Request(j) => i = j
    /\ \A j \in jobs : j.attempts < Attempts
    /\ \A a \in alerted, j \in jobs : Request(a) = Request(j) => ~a.heard
    /\ \A a, b \in alerted : Request(a) = Request(b) /\ a.heard = b.heard => a = b

\* A task that outlives a registration leaves the new one alone: unless the
\* device registers, its environment changes only to the endpoint that took
\* the alert of a task with the device's own token, and its token is cleared
\* only by such a task.
AnswersAreForTheToken ==
    [][\A d \in Device :
          key'[d] = key[d] /\ (environment'[d] # environment[d] \/ d \in tokenless' \ tokenless)
          => \E j \in jobs \ jobs' :
                /\ j.device = d /\ j.key = key[d] /\ d \notin tokenless
                /\ environment'[d] # environment[d] =>
                      /\ environment'[d] = j.environment
                      /\ [id |-> j.id, device |-> d, heard |-> TRUE] \in alerted']_vars
=============================================================================
