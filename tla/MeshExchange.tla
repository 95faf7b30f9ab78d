---------------------------- MODULE MeshExchange ----------------------------
(***************************************************************************)
(* Compute work bought over the mesh: the trinet_*_over_mesh programs.  A  *)
(* requester discovers a host by its signed capability card, keeps it in   *)
(* routing while its signed beacons are recent, seals it assignments, and  *)
(* settles the signed results that come back, one at a time or in batches  *)
(* under a Merkle root; it audits the host's ledger, and a challenger      *)
(* adjudicates a bonded claim by computing it again.                       *)
(*                                                                         *)
(* Cryptography is symbolic.  A SHA-256 digest is the record of what was   *)
(* hashed; a signature is the pair of a key and a message, and verifies    *)
(* only once that key has signed that message; a frame that was altered    *)
(* does not open, so the frames are those somebody sealed.  The relay is   *)
(* blind: any frame may reach its reader at any time, any number of times, *)
(* or never.  An honest key signs only what the programs sign; every other *)
(* key signs anything, and any holder of the session may seal anything.    *)
(* executor_id is 32 bits of a hash, so two keys may share an identity.    *)
(***************************************************************************)
EXTENDS Integers

CONSTANTS
    Key,                      \* Ed25519 keys
    Honest,                   \* the keys whose holders run these programs
    executor_id(_),           \* the first word of the SHA-256 of a key
    Task, Operands, Output, Skill, CardWord,
    product(_),               \* gft_mul_result: what the operands multiply to
    recomputes(_),            \* verify_gft_mul_full_p: the work checks against the operands
    can_serve_skill_op(_, _), \* the families, widths and operations a card advertises
    Trusted,                  \* the executor id the requester routes to
    AnyMessage, AnyDatagram   \* what a misbehaving holder may sign and seal
-----------------------------------------------------------------------------
(* crypto_frame: the header, the nonce and the replay window of a frame. *)

REKEY_EVERY_FRAMES == 1048576
REKEY_HARD_CAP == 16777216
WINDOW_WIDTH == 64

should_ratchet(tx_counter) == tx_counter >= REKEY_EVERY_FRAMES
must_reject(tx_counter) == tx_counter >= REKEY_HARD_CAP
rx_dir(tx_dir) == 1 - tx_dir

(* The nonce has room for seven of the counter's eight bytes. *)
Low56(ctr) == ctr % (268435456 * 268435456)     \* 2^56
build_nonce(dir, epoch, ctr) == <<dir, epoch, Low56(ctr)>>

(* The two words of the bitmap are one set of distances below the top. *)
NoneSeen == [seen_any |-> FALSE, top |-> 0, bits |-> {}]

replay_accept(w, ctr) ==
    \/ ~w.seen_any
    \/ ctr > w.top
    \/ w.top - ctr < WINDOW_WIDTH /\ (w.top - ctr) \notin w.bits

replay_next_top(w, ctr) == IF ~w.seen_any \/ ctr > w.top THEN ctr ELSE w.top

Shifted(bits, s) == {d \in 0 .. WINDOW_WIDTH - 1 : d = 0 \/ (d - s) \in bits}

replay_next_bits(w, ctr) ==
    IF ~w.seen_any THEN {0}
    ELSE IF ctr > w.top THEN Shifted(w.bits, ctr - w.top)
    ELSE w.bits \cup {w.top - ctr}

replay_next(w, ctr) ==
    [seen_any |-> TRUE, top |-> replay_next_top(w, ctr), bits |-> replay_next_bits(w, ctr)]

(* One step of the key chain: HKDF of the key in use and the next epoch. *)
HandshakeKey(secret) == [secret |-> secret, epoch |-> 0]
ratchet_key(key, next_epoch) == [secret |-> key, epoch |-> next_epoch]

(* A frame of the key chain opens under the key that sealed it. *)
opens_under(key, frame_key) == key = frame_key
-----------------------------------------------------------------------------
(* What is hashed and signed. *)

MSG_HEARTBEAT == 3

input_digest(task, operands, out) ==
    [kind |-> "receipt", task |-> task, operands |-> operands, out |-> out]

pair256(l, r) == [kind |-> "pair", left |-> l, right |-> r]

ledger_head256(prev, dg, balance, epoch) ==
    [kind |-> "head", prev |-> prev, dg |-> dg, balance |-> balance, epoch |-> epoch]

(* Beacons and cards sign the words themselves, padded with zeros. *)
beacon_msg(class, seq, id) == [kind |-> "words", w0 |-> class, w1 |-> seq, w2 |-> id]
card_msg(word) == [kind |-> "words", w0 |-> word, w1 |-> 0, w2 |-> 0]

signature(key, msg) == [key |-> key, msg |-> msg]

(* The tree over four receipts, and the fold of a two-step inclusion proof. *)
merkle_root(l1, l2, l3, l4) == pair256(pair256(l1, l2), pair256(l3, l4))

fold_step(cur, step) ==
    IF step.right THEN pair256(cur, step.sib) ELSE pair256(step.sib, cur)

verify_inclusion(leaf, proof) == fold_step(fold_step(leaf, proof.first), proof.second)

(* The head over three rounds, from the genesis head. *)
LEDGER_GENESIS == [kind |-> "genesis"]

advance_head(head, r) == ledger_head256(head, r.root, r.balance, r.epoch)

recompute_chain(rounds) ==
    advance_head(advance_head(advance_head(LEDGER_GENESIS, rounds[1]), rounds[2]), rounds[3])
-----------------------------------------------------------------------------
(* The fate of a bonded claim. *)

resolve(claimed, recomputed) == IF claimed = recomputed THEN "honest" ELSE "slash"

window_open(at, settled_at, window) == at < settled_at + window

settle_state(is_open, slashed) ==
    IF slashed THEN "reversed" ELSE IF is_open THEN "pending" ELSE "finalized"

bond_after(bond, outcome) == IF outcome = "slash" THEN 0 ELSE bond
bounty(bond, outcome) == IF outcome = "slash" THEN bond ELSE 0
-----------------------------------------------------------------------------
(* The exchange. *)

VARIABLES
    signed,     \* the signatures ever made
    air,        \* the frames ever sealed
    offered,    \* the cards honest hosts advertised
    done,       \* the receipts honest hosts signed, for results and for claims
    published,  \* the histories honest hosts published
    clock,      \* the time beacons are numbered by
    beat,       \* when a host of the trusted identity last sent a beacon
    known,      \* the requester's authenticated cards
    heard,      \* its watermark of the trusted host's beacons
    assigned,   \* its assignments
    window,     \* its replay window for results
    paid,       \* the results it settled
    batched,    \* the receipts it settled through a batch
    audited,    \* the histories it audited
    verdicts    \* the claims adjudicated

hostVars == <<offered, done, published>>
requesterVars == <<known, heard, assigned, window, paid, batched, audited, verdicts>>
exchangeVars == <<signed, air, hostVars, clock, beat, requesterVars>>

LIVE_WINDOW == 5

ExchangeInit ==
    /\ signed = {} /\ air = {}
    /\ offered = {} /\ done = {} /\ published = {}
    /\ clock = 1 /\ beat = 0
    /\ known = {} /\ heard = 0 /\ assigned = {}
    /\ window = NoneSeen
    /\ paid = {} /\ batched = {} /\ audited = {} /\ verdicts = {}

SealFrame(dir, pt) ==
    \E ctr \in Nat : air' = air \cup {[dir |-> dir, ctr |-> ctr, pt |-> pt]}

SignAndSeal(key, msg, pt) ==
    /\ signed' = signed \cup {signature(key, msg)}
    /\ SealFrame(1, pt)

(* WHO: the presented key signed the message, and the claimed identity is its. *)
who_ok(pt, msg) ==
    /\ pt.key \in Key
    /\ pt.sig = signature(pt.key, msg) /\ pt.sig \in signed
    /\ pt.exec = executor_id(pt.key)

Received(kind) == {f \in air : f.dir = 1 /\ f.pt.kind = kind}
-----------------------------------------------------------------------------
(* A host. *)

seal_card(key, word) ==
    /\ SignAndSeal(key, card_msg(word),
                   [kind |-> "card", key |-> key, exec |-> executor_id(key), word |-> word,
                    sig |-> signature(key, card_msg(word))])
    /\ offered' = offered \cup {[key |-> key, word |-> word]}
    /\ UNCHANGED <<done, published, clock, beat, requesterVars>>

seal_beacon(key) ==
    LET msg == beacon_msg(MSG_HEARTBEAT, clock, executor_id(key))
    IN  /\ SignAndSeal(key, msg,
                       [kind |-> "beacon", key |-> key, exec |-> executor_id(key),
                        class |-> MSG_HEARTBEAT, seq |-> clock, sig |-> signature(key, msg)])
        /\ beat' = IF executor_id(key) = Trusted THEN clock ELSE beat
        /\ UNCHANGED <<hostVars, clock, requesterVars>>

(* Open an assignment, check the work on the operands received, sign, answer. *)
(* The output word that is signed is the program's own: the check of the work *)
(* neither computes it nor reads it.                                          *)
perform(key, f, out) ==
    LET d == input_digest(f.pt.task, f.pt.operands, out)
    IN  /\ f.dir = rx_dir(1) /\ f.pt.kind = "assign"
        /\ recomputes(f.pt.operands)
        /\ SignAndSeal(key, d,
                       [kind |-> "result", key |-> key, exec |-> executor_id(key),
                        out |-> out, sig |-> signature(key, d)])
        /\ done' = done \cup {[key |-> key, leaf |-> d]}
        /\ UNCHANGED <<offered, published, clock, beat, requesterVars>>

(* Four receipts under one signature; each record carries its own path. *)
step(sib, right) == [sib |-> sib, right |-> right]
path(first, second) == [first |-> first, second |-> second]

seal_batch(key, l) ==
    LET left == pair256(l[1], l[2])
        right == pair256(l[3], l[4])
        root == merkle_root(l[1], l[2], l[3], l[4])
        recs == {[leaf |-> l[1], proof |-> path(step(l[2], TRUE), step(right, TRUE))],
                 [leaf |-> l[2], proof |-> path(step(l[1], FALSE), step(right, TRUE))],
                 [leaf |-> l[3], proof |-> path(step(l[4], TRUE), step(left, FALSE))],
                 [leaf |-> l[4], proof |-> path(step(l[3], FALSE), step(left, FALSE))]}
    IN  /\ \A i \in 1 .. 4 : [key |-> key, leaf |-> l[i]] \in done
        /\ SignAndSeal(key, root,
                       [kind |-> "batch", key |-> key, exec |-> executor_id(key), root |-> root,
                        recs |-> recs, sig |-> signature(key, root)])
        /\ UNCHANGED <<hostVars, clock, beat, requesterVars>>

Round == [root : {d.leaf : d \in done}, balance : Nat, epoch : Nat]

seal_ledger(key, rounds) ==
    LET head == recompute_chain(rounds)
    IN  /\ SignAndSeal(key, head,
                       [kind |-> "ledger", key |-> key, exec |-> executor_id(key), head |-> head,
                        rounds |-> rounds, sig |-> signature(key, head)])
        /\ published' = published \cup {[key |-> key, rounds |-> rounds]}
        /\ UNCHANGED <<offered, done, clock, beat, requesterVars>>

(* An honest claim is of the product; its digest is laid out as a receipt. *)
seal_claim(key, task, operands, bond) ==
    LET d == input_digest(task, operands, product(operands))
    IN  /\ SignAndSeal(key, d,
                       [kind |-> "claim", key |-> key, exec |-> executor_id(key),
                        operands |-> operands, claimed |-> product(operands), bond |-> bond,
                        sig |-> signature(key, d)])
        /\ done' = done \cup {[key |-> key, leaf |-> d]}
        /\ UNCHANGED <<offered, published, clock, beat, requesterVars>>
-----------------------------------------------------------------------------
(* The requester and the challenger. *)

open_card(f) ==
    /\ who_ok(f.pt, card_msg(f.pt.word))
    /\ known' = known \cup {[exec |-> f.pt.exec, word |-> f.pt.word]}
    /\ UNCHANGED <<signed, air, hostVars, clock, beat>>
    /\ UNCHANGED <<heard, assigned, window, paid, batched, audited, verdicts>>

accept_beacon(f) ==
    /\ who_ok(f.pt, beacon_msg(f.pt.class, f.pt.seq, f.pt.exec))
    /\ f.pt.class = MSG_HEARTBEAT /\ f.pt.exec = Trusted
    /\ f.pt.seq \in Nat /\ f.pt.seq > heard
    /\ heard' = f.pt.seq
    /\ UNCHANGED <<signed, air, hostVars, clock, beat>>
    /\ UNCHANGED <<known, assigned, window, paid, batched, audited, verdicts>>

alive(now, last_seq, live_window) == now < last_seq + live_window

(* Work goes to a host that advertised the skill and was heard recently. *)
assign(task, operands, skill) ==
    /\ \E c \in known : c.exec = Trusted /\ can_serve_skill_op(c.word, skill)
    /\ alive(clock, heard, LIVE_WINDOW)
    /\ SealFrame(0, [kind |-> "assign", task |-> task, operands |-> operands])
    /\ assigned' = assigned \cup {[task |-> task, operands |-> operands, skill |-> skill]}
    /\ UNCHANGED <<signed, hostVars, clock, beat>>
    /\ UNCHANGED <<known, heard, window, paid, batched, audited, verdicts>>

(* The digest is computed again from the requester's own task and operands. *)
settle(f, a) ==
    /\ who_ok(f.pt, input_digest(a.task, a.operands, f.pt.out))
    /\ recomputes(a.operands)
    /\ f.ctr \in Nat /\ replay_accept(window, f.ctr)
    /\ window' = replay_next(window, f.ctr)
    /\ paid' = paid \cup {[ctr |-> f.ctr, exec |-> f.pt.exec, task |-> a.task,
                           operands |-> a.operands, out |-> f.pt.out]}
    /\ UNCHANGED <<signed, air, hostVars, clock, beat>>
    /\ UNCHANGED <<known, heard, assigned, batched, audited, verdicts>>

(* One signature over the root; a receipt outside it is left unpaid. *)
settle_batch(f) ==
    /\ who_ok(f.pt, f.pt.root)
    /\ batched' = batched \cup
           {[exec |-> f.pt.exec, leaf |-> r.leaf] :
              r \in {s \in f.pt.recs : verify_inclusion(s.leaf, s.proof) = f.pt.root}}
    /\ UNCHANGED <<signed, air, hostVars, clock, beat>>
    /\ UNCHANGED <<known, heard, assigned, window, paid, audited, verdicts>>

audit_ledger(f) ==
    /\ recompute_chain(f.pt.rounds) = f.pt.head
    /\ who_ok(f.pt, recompute_chain(f.pt.rounds))
    /\ audited' = audited \cup {[exec |-> f.pt.exec, rounds |-> f.pt.rounds]}
    /\ UNCHANGED <<signed, air, hostVars, clock, beat>>
    /\ UNCHANGED <<known, heard, assigned, window, paid, batched, verdicts>>

(* The challenger trusts nothing: it multiplies the operands itself. *)
adjudicate(f, task, settled_at, challenge_window) ==
    LET outcome == resolve(f.pt.claimed, product(f.pt.operands))
    IN  /\ who_ok(f.pt, input_digest(task, f.pt.operands, f.pt.claimed))
        /\ verdicts' = verdicts \cup
               {[exec |-> f.pt.exec, task |-> task, operands |-> f.pt.operands,
                 claimed |-> f.pt.claimed, bond |-> f.pt.bond, outcome |-> outcome,
                 state |-> settle_state(window_open(clock, settled_at, challenge_window),
                                        outcome = "slash"),
                 kept |-> bond_after(f.pt.bond, outcome), won |-> bounty(f.pt.bond, outcome)]}
        /\ UNCHANGED <<signed, air, hostVars, clock, beat>>
        /\ UNCHANGED <<known, heard, assigned, window, paid, batched, audited>>
-----------------------------------------------------------------------------
(* The others. *)

Pass ==
    /\ clock' = clock + 1
    /\ UNCHANGED <<signed, air, hostVars, beat, requesterVars>>

Misbehave(key, msg) ==
    /\ key \notin Honest
    /\ signed' = signed \cup {signature(key, msg)}
    /\ UNCHANGED <<air, hostVars, clock, beat, requesterVars>>

Inject(dir, pt) ==
    /\ SealFrame(dir, pt)
    /\ UNCHANGED <<signed, hostVars, clock, beat, requesterVars>>

Host ==
    \E key \in Honest :
        \/ \E word \in CardWord : seal_card(key, word)
        \/ seal_beacon(key)
        \/ \E f \in air, out \in Output : perform(key, f, out)
        \/ \E l \in [1 .. 4 -> {d.leaf : d \in done}] : seal_batch(key, l)
        \/ \E rounds \in [1 .. 3 -> Round] : seal_ledger(key, rounds)
        \/ \E task \in Task, operands \in Operands, bond \in Nat :
               seal_claim(key, task, operands, bond)

Requester ==
    \/ \E f \in Received("card") : open_card(f)
    \/ \E f \in Received("beacon") : accept_beacon(f)
    \/ \E task \in Task, operands \in Operands, skill \in Skill : assign(task, operands, skill)
    \/ \E f \in Received("result"), a \in assigned : settle(f, a)
    \/ \E f \in Received("batch") : settle_batch(f)
    \/ \E f \in Received("ledger") : audit_ledger(f)
    \/ \E f \in Received("claim"), task \in Task, settled_at \in Nat, challenge_window \in Nat :
           adjudicate(f, task, settled_at, challenge_window)

Others ==
    \/ Pass
    \/ \E key \in Key, msg \in AnyMessage : Misbehave(key, msg)
    \/ \E dir \in {0, 1}, pt \in AnyDatagram : Inject(dir, pt)

ExchangeNext == Host \/ Requester \/ Others

ExchangeSpec == ExchangeInit /\ [][ExchangeNext]_exchangeVars
-----------------------------------------------------------------------------
(* Properties. *)

(* Every key behind the identity is held by a host that runs these programs. *)
HonestId(id) == \A key \in Key : executor_id(key) = id => key \in Honest

(* An executor of the identity signed a receipt for exactly this task,      *)
(* these operands and this output.                                          *)
Signed(id, task, operands, out) ==
    \E d \in done : executor_id(d.key) = id /\ d.leaf = input_digest(task, operands, out)

(* A settled result is for a task and operands the requester itself         *)
(* assigned, and an executor of an honest identity signed exactly them and  *)
(* the output that was settled: neither the operands, the output nor the    *)
(* identity can be exchanged on the way (trinet_compute_over_mesh, leg 3    *)
(* and negatives 4 and 5).  It does not say that the output is the product: *)
(* the gate checks the work against literals and never reads the output.    *)
PaidWasDone ==
    \A p \in paid :
        /\ \E a \in assigned : a.task = p.task /\ a.operands = p.operands
        /\ HonestId(p.exec) => Signed(p.exec, p.task, p.operands, p.out)

(* No result counter settles twice, however often the relay delivers the    *)
(* frame (trinet_compute_over_mesh, negative 3).                            *)
CountersPayOnce == \A p, q \in paid : p.ctr = q.ctr => p = q

(* A receipt settled through a batch of an honest executor is one that an   *)
(* executor of that identity computed (trinet_batch_over_mesh).             *)
BatchedWasDone ==
    \A b \in batched :
        HonestId(b.exec) =>
            \E d \in done : executor_id(d.key) = b.exec /\ d.leaf = b.leaf

SameHistory(q, r) ==
    \A i \in 1 .. 3 :
        q[i].root = r[i].root /\ q[i].balance = r[i].balance /\ q[i].epoch = r[i].epoch

(* An audited history of an honest executor is, round by round, one that it *)
(* published (trinet_ledger_over_mesh).                                     *)
AuditedWasPublished ==
    \A h \in audited :
        HonestId(h.exec) =>
            \E p \in published :
                executor_id(p.key) = h.exec /\ SameHistory(p.rounds, h.rounds)

(* An honest executor loses a bond, or has its credit reversed, only for a  *)
(* task, operands and value that it signed itself and that are wrong,       *)
(* whatever frames claim to be its (trinet_challenge_over_mesh).            *)
SlashIsEarned ==
    \A v \in verdicts :
        /\ HonestId(v.exec)
        /\ v.state = "reversed" \/ v.kept # v.bond \/ v.won # 0
        => /\ v.claimed # product(v.operands)
           /\ Signed(v.exec, v.task, v.operands, v.claimed)

(* A host kept in routing by its beacons really sent one within the window: *)
(* replays and other holders' beacons do not keep it alive                  *)
(* (trinet_heartbeat_over_mesh).                                            *)
AliveIsRecent ==
    HonestId(Trusted) /\ alive(clock, heard, LIVE_WINDOW) => clock < beat + LIVE_WINDOW

(* Work is assigned only for skills the trusted host itself advertised      *)
(* (trinet_discovery_over_mesh).                                            *)
RoutedWasOffered ==
    HonestId(Trusted) =>
        \A a \in assigned : \E o \in offered :
            executor_id(o.key) = Trusted /\ can_serve_skill_op(o.word, a.skill)
=============================================================================
