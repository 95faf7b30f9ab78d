------------------------------ MODULE Accounts ------------------------------
(***************************************************************************)
(* Accounts, devices, link codes and nicknames of services/call-api:       *)
(* registration, linking a device to another account by a one-time code,   *)
(* revocation, and claims in the nickname directory.                       *)
(*                                                                         *)
(* As in Calls, "auths" holds every (device, account) that authenticate()  *)
(* could have answered so far, and a handler works with any of them.  The  *)
(* handlers of link codes also read the clock before the database lock.    *)
(* Tokens, keys, presence and display names are left out, and so is the    *)
(* accounts table, which records what the devices' rows already say.       *)
(***************************************************************************)
EXTENDS Integers, Sequences, FiniteSets

CONSTANTS Device, User,
          Nickname,     \* well-formed nicknames: sequences of letters, as numbers
          None,         \* SQL NULL, or no such row
          CodeTTL,      \* LINK_CODE_TTL_SECONDS (600 in the code)
          Prefix,       \* MIN_CONFUSING_PREFIX (4 in the code)
          MaxTime,      \* bound on the clock
          MaxCodes      \* bound on the rows of device_link_codes

ASSUME AccountsAssumption ==
    /\ None \notin User \cup Device \cup [device : Device, user : User]
    /\ Nickname \subseteq Seq(Nat)
    /\ CodeTTL \in Nat /\ Prefix \in Nat /\ MaxTime \in Nat

VARIABLES now,          \* unix_time()
          user_id,      \* devices.user_id (None: no row)
          revoked,      \* devices with revoked_at set
          code,         \* device_link_codes, by the device that created the row
          nickname,     \* nicknames: the claiming [user, device] (None: no row)
          auths         \* what authenticate() could have answered so far

vars == <<now, user_id, revoked, code, nickname, auths>>

Time == 0 .. MaxTime
Auth == [device : Device, user : User]
Code == [user : User, created : Time, consumed : BOOLEAN]

Active(u) == {d \in Device : user_id[d] = u /\ d \notin revoked}

Init ==
    /\ now = 0
    /\ user_id = [d \in Device |-> None]
    /\ revoked = {}
    /\ code = [d \in Device |-> None]
    /\ nickname = [n \in Nickname |-> None]
    /\ auths = {}
-----------------------------------------------------------------------------
(* Similarity of nicknames *)

Least(S) == CHOOSE x \in S : \A y \in S : x <= y

\* The row of the distance table after previous, for letter i of left.
next_row(left, right, i, previous) ==
    LET current[j \in 0 .. Len(right)] ==
          IF j = 0 THEN i
          ELSE Least({current[j - 1] + 1, previous[j] + 1,
                      previous[j - 1] + (IF left[i] = right[j] THEN 0 ELSE 1)})
    IN  current

\* The rows of the table, one letter of left at a time.
distance_rows(left, right) ==
    LET row[i \in 0 .. Len(left)] ==
          IF i = 0 THEN [j \in 0 .. Len(right) |-> j]
          ELSE next_row(left, right, i, row[i - 1])
    IN  row

edit_distance(left, right) == distance_rows(left, right)[Len(left)][Len(right)]

shared_prefix(a, b) ==
    Cardinality({i \in 1 .. Len(a) : i <= Len(b) /\ \A j \in 1 .. i : a[j] = b[j]})

\* Bug: only names of equal length are compared letter by letter.
BugConfusing(a, b) == a = b \/ (Len(a) = Len(b) /\ edit_distance(a, b) <= 1)

nicknames_are_confusing(a, b) ==
    LET distance == edit_distance(a, b)
    IN  a = b \/ distance <= 1 \/ (shared_prefix(a, b) >= Prefix /\ distance = 2)

Confusable == {p \in Nickname \X Nickname : nicknames_are_confusing(p[1], p[2])}
-----------------------------------------------------------------------------
(* Handlers.  r is the snapshot of authenticate(), t the clock it read.    *)

\* register_device: the bootstrap signature admits any device without a row.
\* On a row that exists it replaces only columns that are left out here.
register_device(r) ==
    /\ user_id[r.device] = None
    /\ Active(r.user) = {}
    /\ user_id' = [user_id EXCEPT ![r.device] = r.user]
    /\ auths' = auths \cup {r}
    /\ UNCHANGED <<now, revoked, code, nickname>>

\* The rows create_link_code deletes: expired ones, and its device's own.
create_link_code(r, t) ==
    /\ code' = [d \in Device |->
          IF d = r.device THEN [user |-> r.user, created |-> t, consumed |-> FALSE]
          ELSE IF code[d] # None /\ code[d].created + CodeTTL < t THEN None
          ELSE code[d]]
    /\ Cardinality({d \in Device : code'[d] # None}) <= MaxCodes
    /\ UNCHANGED <<now, user_id, revoked, nickname, auths>>

link_code_is_fresh(c, t) == c.created <= t /\ t - c.created <= CodeTTL

\* Bug: the devices of the account to be left are not counted.
BugMayAdopt(c, r, t) == ~c.consumed /\ link_code_is_fresh(c, t)

may_adopt_account(c, r, t) ==
    /\ ~c.consumed
    /\ link_code_is_fresh(c, t)
    /\ Cardinality(Active(r.user)) = 1

\* DELETE FROM nicknames WHERE user_id = u.
Forget(u) == [n \in Nickname |->
    IF nickname[n] # None /\ nickname[n].user = u THEN None ELSE nickname[n]]

\* Bug: the code is not used up.
BugConsume(o) == code

Consume(o) == [code EXCEPT ![o].consumed = TRUE]

\* link_device with the code that device o created.
link_device(r, o, t) ==
    /\ code[o] # None
    /\ code[o].user # r.user
    /\ may_adopt_account(code[o], r, t)
    /\ r.device \in Active(r.user)
    /\ user_id' = [user_id EXCEPT ![r.device] = code[o].user]
    /\ code' = Consume(o)
    /\ nickname' = Forget(r.user)
    /\ auths' = auths \cup {[r EXCEPT !.user = code[o].user]}
    /\ UNCHANGED <<now, revoked>>

\* Bug: the last device is counted as one of several.
BugMayRevoke(r, d) == user_id[d] = r.user /\ d \notin revoked

may_revoke_device(r, d) ==
    /\ user_id[d] = r.user
    /\ d \notin revoked
    /\ Cardinality(Active(r.user)) > 1

revoke_device(r, d) ==
    /\ may_revoke_device(r, d)
    /\ revoked' = revoked \cup {d}
    /\ UNCHANGED <<now, user_id, code, nickname, auths>>

\* claim_nickname when the name is not confusing; the UNIQUE device column
\* refuses a device that still holds a name of another account.
claim_nickname(r, n) ==
    /\ \A m \in Nickname :
          nickname[m] # None /\ nickname[m].user # r.user =>
              <<n, m>> \notin Confusable /\ nickname[m].device # r.device
    /\ nickname' = [Forget(r.user) EXCEPT ![n] = r]
    /\ UNCHANGED <<now, user_id, revoked, code, auths>>

\* The account an exact lookup answers: one with an active device.
search_nicknames(n) ==
    IF nickname[n] # None /\ Active(nickname[n].user) # {} THEN nickname[n].user
    ELSE None

Tick == now < MaxTime /\ now' = now + 1
        /\ UNCHANGED <<user_id, revoked, code, nickname, auths>>

Next ==
    \/ \E r \in Auth : register_device(r)
    \/ \E r \in auths, t \in 0 .. now :
          \/ create_link_code(r, t)
          \/ \E o \in Device : link_device(r, o, t)
    \/ \E r \in auths :
          \/ \E d \in Device : revoke_device(r, d)
          \/ \E n \in Nickname : claim_nickname(r, n)
    \/ Tick

Spec == Init /\ [][Next]_vars
-----------------------------------------------------------------------------
TypeOK ==
    /\ now \in Time
    /\ user_id \in [Device -> User \cup {None}]
    /\ revoked \subseteq Device
    /\ code \in [Device -> Code \cup {None}]
    /\ nickname \in [Nickname -> Auth \cup {None}]
    /\ auths \subseteq Auth

(* An account is left without an active device only when its single active *)
(* device links elsewhere: mutual revocations keep one, and an account     *)
(* with several devices is never merged away.                              *)
LastDeviceStays ==
    [][\A u \in User : Active(u) # {} /\ Active(u)' = {} =>
          \E d \in Device : Active(u) = {d} /\ user_id'[d] # u]_vars

(* A device changes its account only by a code of the new account that was *)
(* unused before the step and is used up by it, and a used code is never   *)
(* usable again.                                                           *)
CodeMovesOneDevice ==
    [][\A d \in Device : user_id[d] # None /\ user_id'[d] # user_id[d] =>
          /\ \A e \in Device \ {d} : user_id'[e] = user_id[e]
          /\ \E o \in Device : /\ code[o] # None /\ ~code[o].consumed
                               /\ code'[o] = [code[o] EXCEPT !.consumed = TRUE]
                               /\ user_id'[d] = code[o].user]_vars

\* One letter of a left out, and one letter changed.
Without(a, i) == [j \in 1 .. Len(a) - 1 |-> IF j < i THEN a[j] ELSE a[j + 1]]
NearCopy(a, b) ==
    \/ a = b
    \/ \E i \in 1 .. Len(a) : Without(a, i) = b
    \/ \E i \in 1 .. Len(b) : Without(b, i) = a
    \/ Len(a) = Len(b) /\ \E i \in 1 .. Len(a) : Without(a, i) = Without(b, i)

(* Names of different accounts are never near-copies of each other, by a   *)
(* definition that does not compute distances, and an account has one      *)
(* name, in whatever order names are claimed, dropped and claimed again.   *)
NicknamesApart ==
    \A m, n \in Nickname : m # n /\ nickname[m] # None /\ nickname[n] # None =>
        nickname[m].user # nickname[n].user /\ ~NearCopy(m, n)

(* A name that answers lookups goes when its account loses its last active *)
(* device and not before: until then the account has that name or one it   *)
(* claimed instead.  (Only a claim made with the account the device had    *)
(* when it authenticated can leave a name without a live account.)         *)
NamesFollowAccounts ==
    [][\A n \in Nickname : search_nicknames(n) # None =>
          IF {d \in Device : user_id'[d] = search_nicknames(n) /\ d \notin revoked'} = {} THEN nickname'[n] = None
          ELSE \E m \in Nickname : nickname'[m] # None
                                  /\ nickname'[m].user = search_nicknames(n)]_vars
=============================================================================
