# tri-net: TLA+ models and proofs

This directory holds TLA+ specifications of the stateful parts of tri-net, the TLC
configurations that check small instances, and TLAPS proofs. Paths below are
relative to the repository root; `main.rs` is `services/call-api/src/main.rs`.

## 1. The system

* **The mesh node** (crate `trios-mesh`, `src/`). Peers share pairwise sessions
  (`crypto.rs`: AEAD with per-direction counters, an epoch ratchet and a 64-entry
  replay window). A link metric (`routing.rs`) and HELLO beacons feed a router
  (`router.rs`) that forwards sealed frames hop by hop. The daemon
  `src/bin/trios_meshd.rs` runs a receive thread, a tun thread and a HELLO ticker
  around it.
* **The call service** (`services/call-api`). One process with one SQLite connection
  behind a mutex. It keeps accounts, devices and nicknames, runs the call lifecycle,
  stores direct and group messages, and sends push alerts, most of them through a
  durable outbox. Phones (`phone/`) poll and call it.
* **The compute market** (`gen/rust/tri_*.rs`, `src/bin/trinet_*.rs`). Requesters
  assign multiplications; executors post bonds, answer with signed results, and are
  paid into an escrow that can be disputed for a window of epochs before a quorum of
  three verifiers. Variants of the exchange run over sealed frames.
* **Generated policies** (`gen/rust`). Pure functions over packed words for trust,
  quarantine, keys, faults, congestion, flow, retries, health and routes. A node
  keeps the words and calls the functions.

`PROJECT.json` lists every part with its status, the source lines behind every
definition, the hazards, the runs and the theorems.

## 2. Modules

| Module | Models | Source |
|---|---|---|
| `ReplayWindow`, `Session`, `OnceChannel` | window, both ends of a session, and the abstract promise | `crypto.rs` |
| `SessionRestart` | a link whose daemons restart | `trios_meshd.rs`, `crypto.rs` |
| `Handshake` | how the two ends get their key: static keys, NoiseXX, allow lists | `crypto.rs`, `trios_meshd.rs` |
| `MeshLink` | HELLO beacons and tickers, link estimate, fast failure | `trios_meshd.rs`, `discovery.rs`, `routing.rs`, `router.rs` |
| `MeshRouter` | routes, ranked hops, forwarding with TTL, the gateway | `router.rs`, `routing.rs`, `trios_meshd.rs`, `wire.rs` |
| `Calls`, `MCCalls` | call tables and handlers, linking and revocation | `main.rs` 2676-2815, 3019-3841 |
| `ApnsOutbox`, `MCOutbox` | outbox table, workers, registration, restarts | `main.rs` 1793-2496 |
| `RequestAuth`, `MCRequestAuth` | `authenticate()` and the nonce table | `main.rs` 5190-5330 |
| `Accounts`, `MCAccounts` | devices, accounts, link codes, nicknames | `main.rs` 2500-3018, `nickname_directory.rs`, `account_identity.rs` |
| `Messages`, `MCMessages` | direct and group messages, read cursors, alerts | `main.rs` 3842-5044, `direct_message.rs`, `group_chat.rs` |
| `ComputeRules`, `DisputeRules` | the market's pure rules | `tri_compute_*.rs`, `tri_challenge.rs`, `tri_a2a.rs` |
| `Compute` | bonds, results, escrow, disputes, finalization | `trinet_compute_lifecycle.rs`, `trinet_a2a_node.rs` |
| `MeshExchange` | the market's messages over an unreliable relay | `trinet_*_over_mesh.rs`, `crypto_frame.rs` |
| `NodePolicy`, `Transport`, `NodeHealth`, `RoutePolicy`, `PackedArrays` | the generated policies | `gen/rust/*.rs` |
| `*Proofs` (eight modules) | theorems and proofs | - |

**Session.** `epoch`, `tx_counter` and `rx` are the fields of `Session` per end;
`sent` is every frame ever on the air, as (direction, epoch, counter). Loss,
duplication and reordering need no action of their own: `open` may take the body of
any frame of `sent` at any time, or never. The prefix with epoch and counter travels
in the clear, is not covered by the tag, and may arrive damaged: `open(p, x, s)`
reads prefix `x` before the body of `s`. `make_nonce` keeps the low seven of the
eight counter bytes, so the body opens under every counter that agrees with its own
in those (`NonceRange` stands for 2^56, `CtrRange` for 2^64), and the window is then
asked about, and moved by, the counter that was read. What the code promises is
therefore stated per number read: each is accepted at most once (`AcceptedOnce`,
`OnceChannel`). It is at most once per sealed frame as long as prefixes arrive
intact. `InWindowAccepted` is about frames that arrive intact, whatever was damaged
before them. `opened` and `oks` are history variables.

**SessionRestart.** The daemon derives its sessions from static keys, so a restart
begins the same key chain with counter 0 and an empty window. The receiver's history
is reset with its window: at-most-once is a promise about one life of the receiver.
`smoke/CSMA_MESH_RESULTS.md` (lines 96-98) describes the silence after a restart
that `HeardAgain` bounds. `HeardAgain` is about a medium that damages no prefix
(`RestartSpec`): a damaged one can move the peer's window further than any counter
the restarted end comes to. That nothing is accepted twice is proved with damage
(`WireSpec`). A restarted end does repeat (key, nonce) pairs of its former life, so
`NonceFresh` is stated for `Session` only, within one life.

**Handshake.** A key pair is known by its public key, and the X25519 agreement of
two pairs is the set of both. `session_with` is what the daemon does with static
keys. The actions follow the way the tests of `crypto.rs` use `NoiseXX` and
`AllowList`: ask the list about the static key, then complete. Nodes may be handed
any keys in any name, and lists change at any time. The code mixes the ephemeral
agreement with the agreement of the two static keys, the latter twice (`complete`,
`combine_dh_shares`), and so does the model. The struct `Handshake`, the variant
without static keys, is left out.

**MeshLink.** The estimate is kept in twentieths, `floor(20 * ratio)`, which is
enough to compare with `DEAD_EPS`. A frame that is not lost arrives before the next
tick of any node (`Due`): a delay is taken to be short against the distance of two
ticks. Of a HELLO the daemon reads the list of neighbours, which `to_bytes` cuts at
255 (`carried`); it sends a number, a timestamp and a MAC but calls neither
`is_fresh` nor `verify_mac`. The tickers of the nodes interleave freely: every node
ticks once in a round, in an order that may change from round to round. `they_heard`
is never cleared, as in the code. When the order alternates, the forward ratio of a
link that loses nothing may fall below `DEAD_EPS` for a moment; `Settles` is
therefore about calm phases, in which links and the order of the ticks change no
more. `NoFalseAlarm`, about silence, needs no such restriction.

**MeshRouter.** One record of tables per node and a set of frames in flight, which
are lost or relayed. Facts of the code that shape the properties: explicit routes
are used without a test whether their link lives; a learned route through a dead hop
blocks worse live ones (but `next_hop` falls back to the best neighbour); frames may
go back where they came from, and `is_feasible` does not prevent loops (the comment
at `routing.rs` 155 says it does), so only the TTL bounds them. The test of the
source of a Hello never matters, as the router seals only Data frames.

**Calls.** One action per handler, each the whole transaction with its lazy expiry.
`authenticate()` runs under an earlier lock than the handler, so a handler uses any
(device, account) pair that was ever true (`auths`). `decline_call` and
`call_status` also read the clock before the lock (`Earlier`). The callee is an
account rather than a nickname; media, presence and push reachability are abstracted
to the choice of a non-empty set of idle targets. A participant whose device is
linked to another account during an active call can no longer end it (`main.rs`
2676; `docs/INTERNET_CALLING.md` 188 has participants end calls), and an active call
has no timeout.

**ApnsOutbox.** One device and one event kind per instance. `row` is the table,
`worker` the locals of each task: `claim_due`, `load`, `respond` and the settlement
are separate steps because the code releases the lock between them. `gen` is the
per-start owner; `Restart` changes it and drops the workers; `abandon` is a worker
step that returns an error. The provider may answer anything (`Results`). `close`
stands for the end of a call or for a read cursor. `refused` is a history variable.
Two things the code does and no property forbids: an event that was found without a
token is deleted under a second lock although a token was registered in between
(`main.rs` 2338; compare `services/call-api/README.md` 77), and blocked rows count
against the VoIP capacity (`main.rs` 3215; compare 3239 and `README.md` 85).

**RequestAuth.** `Receive` is `authenticate()` up to the lock, with its clock;
`authenticate` the rest, with that clock. A stamp is never taken away: it stands for
any number of threads that hold copies of the request.

**Accounts.** The four handlers on the snapshot `authenticate()` returned. Names are
short sequences of letters, so that the likeness test (edit distance, common prefix)
is computed and not assumed.

**Messages.** Both message tables are one log, as only the order of ids matters. An
envelope is a device and the number of the key it was sealed for. A client continues
after the last id it got, per account: with one cursor for all accounts a device
that returns to a former account would skip what it got there meanwhile. Group
alerts are sent after the commit without an outbox; a crash loses them. `deliver` is
one attempt of an alert task with the provider's answer, `taken` says whether the
provider took the alert, and an answer that got lost counts as a transient failure:
up to `Attempts` attempts at an endpoint, then perhaps the other endpoint. The
attempts carry no `apns-id`, so an alert that was taken and whose answer was lost
may be sent again; `HeardOnce` says that nothing else repeats one. A task may
outlive the token it was made with (`AnswersAreForTheToken`). A repeated group
message returns the stored row whatever its text.

**Compute.** Every task is one multiplication. A receipt leaves escrow once (the
contract of the caller of the pure rules). Facts of the rules: a dispute opened in
the window may be overtaken by finalization, and then stays open with its stake; a
missed clawback leaves the reward in `pending`; a resolver judges one dispute per
epoch; the task watermark makes honest results that arrive out of order stale; a
bond may be released at any time, and after that or after a slash the remaining
escrow is unbonded, so coverage is stated for steps that leave the bond
(`CoveredWhileBonded`); `required_bond` truncates to 32 bits, which matters for
rates above 100 % only (the run has 100 %). Results may be sent in the name of
another executor (`reply`); `executor_authentic` is what stops them. A verdict also
moves the stakes and the reputation of the three verifiers (`StakesAfter`,
`CreditAfter`).

**MeshExchange.** Cryptography is symbolic: a signature is its content, hashes are
injective. `executor_id` has 32 bits and is any function of the key, so two keys may
share an identity; the properties are about identities all of whose keys are honest
(`HonestId`). The requester recomputes the digest from its own operands, so a
signature binds task, operands and output. It does not compare the output with the
product before it pays: an executor, honest or not, may sign a wrong one and is paid
for what it signed, and only a challenge finds out. So `PaidWasDone` says who signed
what was paid, and `SlashIsEarned` that a slashed claim was signed and wrong. The
nonce drops the counter's top byte, which is safe below the hard cap. The watermark
`accept_beacon` returns advances even if it refuses; callers keep it only when it
accepts. Some layouts exist only in `gen/zig`.

**Policies.** Words are records with the widths of their fields; the state machine
is what a node makes of the functions. Facts the theorems state or the properties
avoid: `release_quarantine` and `quarantine_node` act on banned nodes too, but a
recommendation never leads there; a packed start time of 8 bits ends quarantines
begun at time 256 or later early; a fault count returns to 0 at 128; `add_key` does
not ask whether an identifier is in use, and of two valid keys with one identifier
the second is out of reach until the first is gone (`KeysChangeInOrder`); only
recoveries that fail count against the limit, and the sixteen bits of a start time
space nothing from 65536 on (`RecoveriesSpaced`); a credit update above the window
would underflow (the receiver's contract); rises are never reported (`TYPE_SPIKE` is
the code of no anomaly); a zero metric hides later ones; a steep rise of the metric
looks like an improvement (signed byte); `update_ewma` drifts down; the last valid
path is not taken by `perform_failover`; "no path" stored in two bits selects path
3.

## 3. Runs

| Run | Result | What it shows |
|---|---|---|
| `session` | holds | each number at most once although prefixes are damaged, in-window acceptance, fresh nonces, refinement of `OnceChannel` |
| `session_restart` | holds | a restarted end is heard again |
| `session_lockstep` | violated | uneven traffic moves the ends to different epochs |
| `calls` | holds | one answer wins, no overlapping fan-out, idempotent creation, expiry only when stale, lifecycle |
| `calls_live` | holds | a ringing call is resolved while its caller polls |
| `outbox_calls` | holds | exclusive claims, parked blocks, rotation keeps the event, tokens and endpoints change for cause |
| `outbox_messages` | holds | coalescing keeps the newest alert; every event is settled or blocked |
| `request_auth` | holds | one answer per request while it is fresh, and the first delivery gets it |
| `accounts` | holds | names stay apart and follow their accounts, a code moves one device, revocation spares the last device |
| `messages` | holds | no device left out, no gap in the inbox, answered retries, no alert after one known to be taken, late answers spare a new token, new is unread |
| `mesh_link` | holds | silent neighbours are dead, sound links are not, and links settle on the truth |
| `compute` | holds | value is conserved, escrow and exposure agree, no settlement uncovers a bonded executor, the honest are safe, verdicts count once |

The violated run compares a sentence of the repository with the code; it is quoted
in `PROJECT.json` under `findings`. `Handshake`, `MeshRouter`, `MeshExchange` and
the policies have no run: their properties are proved for every value of the
constants.

**Bounds.** Constants of the code are scaled down together, keeping their order:
window width, rekey period, hard cap, counters of the nonce and counters of the
prefix (at least two of which share a nonce); invitation TTL, lease, signature TTL,
message age and clock bound so that each passes while requests are in flight. Two
calls suffice for overlap and idempotency, three devices of two accounts for a race
of answers and for an outside caller. Two workers suffice for a lease takeover, two
tokens for a rotation, two messages for coalescing and for a page that could skip
one (a page holds one), two faults for a link that fails and returns. Three attempts
of an alert at two endpoints, as in the code, with two changes of devices, keys or
names. Two tasks of two executors, one of them honest, with two disputes and one
missed clawback meet every order of settlement. Every bound is a named constant
(`MaxEpoch`, `MaxTime`, `MaxLog`, `MaxChanges`, `MaxDisputes`, ...). Deadlock
checking is off where bounded clocks and counters let the system come to rest.
Symmetry is used only in runs without liveness (in `messages`, of the two accounts
that have a name). The largest runs are `compute` (866,849 states) and `messages`
(658,748).

**Fairness.** `session_restart`: the ticker loops for ever and the air does not lose
every fresh frame. `calls_live`: the clock runs, and the app polls the status of its
outgoing call each second (`phone/shared/InternetCall.swift` 1904-1932).
`outbox_messages`: the clock runs and the runtime polls every worker task, with
requests that time out. `mesh_link`: every ticker loops for ever, and frames in
flight arrive or are lost. Handlers, registrations, worker errors, faults and
restarts are never assumed to happen.

## 4. Proofs

TLAPS checks all proofs, for every value of the constants that satisfies the
`ASSUME` of the module. Each theorem below is about all reachable states; what
follows each module is the strengthening that makes it inductive.

* **`SessionProofs`.** `AcceptedOnce` needs to know that the window records exactly
  the counters that were read (`WindowTracksOpened`) and that what was opened agrees
  in its nonce with a sent frame and is from no later epoch (`OpenedWasSent`):
  together with the types, `WInv`. `IInv` adds `NonceFresh`. From them follow
  `NoncesFresh`, `NoReplay`, `ReorderingIsFree` and `Refinement` (each step is a
  step of `OnceChannel` or stutters). A restart loses `NonceFresh` but keeps `WInv`,
  so `NoReplayAcrossRestarts` rests on `WInv` alone. `StaticEndsMatch` is about the
  daemon's two ends. `NoiseKeysArePairwise` needs `NoiseInv`: an ephemeral key
  belongs to one handshake (`DrawnOnce`), and the chain of a session is made of its
  own and the handed-in keys (`MadeOf`). For `MeshLink`, `SilenceKills` is a
  consequence of the order of the tests in the ticker. `SoundLinksAreKept` needs
  `HelloInv`: a neighbour's HELLO waits at `i` whenever the neighbour ticked last,
  `i` misses one only between its own tick and the neighbour's, and a round that
  ends has had every tick once (by counting the nodes). For `MeshExchange`,
  `ExchangeInv` relates the messages on the relay to what their signers did; each
  check of a receiver then yields one conjunct (`PaidWorkWasDone`,
  `CountersSettleOnce`, `SlashesAreEarned` and the others).
* **`CallsProofs`.** `CInv` collects the state invariants with `RowsTyped`. They
  need each other: an answer keeps the table exclusive because a ringing call is
  open, and expiry is quiet because targets of a ringing call are ringing or
  declined. `Move` describes what most handlers do, so each is proved once. All
  seven safety properties of the run follow.
* **`OutboxProofs`.** `TokensAreClearedForCause` needs `Refuted`: an endpoint
  override, in the row, in a claim or in a request, stands for a refusal of that
  token at the other endpoint. `OInv` adds `Dated` (rows and claims belong to
  created events, to this or earlier processes and to no later moment) and
  `ClaimOrder` (a worker holds its claim or lost it to one made after its lease).
  Without `ClaimOrder` the row says nothing about a late worker, and the next claim
  could overlap its lease. `NewestAlertsSurvive` and `RotationsRetain` need
  `DropsAreDue`: a worker that decided to drop an event found it pointless (over,
  too old, or with a newer event created), and that stays true until it drops it.
  The weaker "not wanted" would not do for messages: the newer alert may be
  delivered between the decision and the drop, and the older one counts as wanted
  again when it goes. With two workers `RotationRetains` is therefore false of
  messages (and harmless: the newer alert was delivered), and it is checked and
  proved for call invitations, where being unwanted is final; for messages the
  promise is `NewestAlertSurvives`. `EndpointsAreProven` needs no invariant.
* **`TrustProofs`.** `AuthInv`: every accepted request has a nonce row until its
  signature has expired for every clock still held by a thread, and every row is of
  an accepted request. The theorems on `NodePolicy` use `PolicyInv`, a conjunction
  of one invariant per packed word, and those on `Transport` use `TransportInv`:
  bounds of the windows and credits, the ring buffer as a queue, and the timeouts
  behind each retry. Further theorems are about `NodeHealth`.
* **`ComputeProofs`.** `HonestInv`: an honest executor signs only the right result,
  so only that one is settled for its tasks, and a verifier that votes for it is
  never a dissenter. `BondInv`: the exposure is a `u32`, so the product in
  `required_bond` does not wrap. `EscrowIsBacked` assumes `MinBps <= BPS_UNIT`:
  beyond 100 % the truncated product is not monotone, and a smaller exposure could
  require a larger bond. `VerdictInv`: a task is disputed once in an epoch, and a
  closed dispute is behind the resolver's watermark or names another receipt.
  `ValueIsConserved` counts a sum of amounts as a set of units, one element for each
  unit an executor holds, so that a step changes the part of one executor. It
  assumes that the whole supply fits in a `u32`, because `bal_add_sat` saturates;
  that each payment then has room follows from conservation itself. `ValueInv` adds
  that no amount is negative. Further theorems are about the pure rules.
* **`MeshRouterProofs`.** `RouterInv` types the tables, ties costs to links, and
  counts for each frame the hops against the TTL. `RouteInv` is the same for
  `RoutePolicy`; the remaining theorems are about its functions on packed words.
* **`MessagesProofs`.** `MessagesInv`: `Unique` (a device's client id names one
  message), `NoDeviceLeftOut`, `Gapless` (a client got all of its inbox up to its
  position) and `Alerts` (tasks and alerts are of stored messages, there is one task
  for each message and device, and none once its alert is known to be taken). All
  six properties of the run follow (`AlertsEndWhenHeard` and
  `LateAnswersAreHarmless` for the alerts).
* **`AccountsProofs`.** `AccountsInv` is the types, `NicknamesApart` and that the
  registered devices are finitely many (counts of devices mean something). A claim
  keeps `NicknamesApart` because the service refuses what is confusing, and
  `NearCopiesAreConfusing` shows that every near-copy is. The distance is a table
  defined by recursion. That the recursive functions exist and have the values their
  equations say is shown with a least counterexample, row by row and cell by cell. A
  walk along equal letters does not raise the distance, and the one letter that
  differs raises it by at most one.

The assumptions are weak: constants are numbers of the right kind, `None` is no
value of the type it marks the absence of, the executors are a finite set, accounts
and group chats have different identifiers, and nicknames are sequences of numbers.

Only model-checked: `HeardAgain`, `RingingResolves`, `Drained` and `Settles`, as
liveness and `ENABLED` are outside the prover's reach.

## 5. Not modelled

Cryptography is ideal in `Session` and symbolic in `Handshake` and `MeshExchange`.
Media, user interface, FPGA, number formats, generated C and Zig, reports and
planners among the generated functions, and the demonstration programs that print
one computation are out of scope (see `PROJECT.json`). The LiveKit room service is
external, and its cleanup best effort. Active calls have no timeout in the code, so
nothing is promised about their end.
