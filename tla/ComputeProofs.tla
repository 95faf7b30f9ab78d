--------------------------- MODULE ComputeProofs ---------------------------
(***************************************************************************)
(* Proofs about the compute market: lemmas on the rules it is built from,  *)
(* then the invariants of module Compute, for any number of executors,     *)
(* tasks and epochs and any amounts: escrow and exposure agree, the honest *)
(* are safe, the escrow is backed, verdicts count once and value is        *)
(* conserved.                                                              *)
(***************************************************************************)
EXTENDS Compute, FiniteSetTheorems, TLAPS

(* The checked addition of the ledger is addition cut off at MaxU32: it    *)
(* never wraps (bal_add_sat, pending_after_settle, risk_after_open).       *)
LEMMA SaturatingAdd ==
    ASSUME NEW x \in U32, NEW y \in U32
    PROVE  bal_add_sat(x, y) = smaller(x + y, MaxU32)
<1>1. MaxU32 \in Nat \ {0}
  BY MaxU32Assumption, Zenon
<1>2. CASE x + y <= MaxU32
  BY <1>1, <1>2 DEF bal_add_sat, wrapping_add, smaller, U32
<1>3. CASE x + y > MaxU32
  <2>1. x + y - (MaxU32 + 1) \in 0 .. MaxU32
    BY <1>1, <1>3 DEF U32
  <2>2. wrapping_add(x, y) = x + y - (MaxU32 + 1)
    BY <1>1, <1>3, <2>1 DEF wrapping_add, U32
  <2>3. QED
    BY <1>1, <1>3, <2>2 DEF bal_add_sat, smaller, U32
<1>4. QED
  BY <1>1, <1>2, <1>3 DEF U32

(* At every epoch from its settlement on a receipt is either open to       *)
(* dispute or final, never both and never neither: challenge_admissible of *)
(* tri_challenge.rs is the exact complement of is_final of                 *)
(* tri_compute_account.rs.                                                 *)
THEOREM DisputableOrFinal ==
    ASSUME NEW now_epoch \in Nat, NEW epoch \in Nat, NEW window \in Nat, now_epoch >= epoch
    PROVE  challenge_admissible(now_epoch, epoch, window)
               <=> ~is_final(epoch, now_epoch, window)
BY DEF challenge_admissible, is_final

(* Two equal votes of three are a quorum and its value, wherever the third *)
(* verifier stands (verifier_quorum3, quorum_result3).                     *)
LEMMA TwoOfThree ==
    ASSUME NEW v, NEW g, NEW i \in 1 .. 3, NEW j \in 1 .. 3, i # j, v[i] = g, v[j] = g
    PROVE  verifier_quorum3(v) /\ quorum_result3(v) = g
BY DEF verifier_quorum3, quorum_result3

(* Three equal votes of five are a quorum and its value: no two liars can  *)
(* turn a verdict (max_agree5, quorum_value5 with quorum_threshold(5)).    *)
THEOREM ThreeOfFive ==
    ASSUME NEW v, NEW g, count5(g, v) >= 3
    PROVE  quorum5(v) /\ quorum_value5(v, quorum_threshold(5)) = g
<1>1. quorum_threshold(5) = 3
  BY DEF quorum_threshold
<1> DEFINE c(x) == count5(x, v)
<1>2. \A x : x # g => c(x) <= 2
  BY DEF count5, eq1
<1>3. \A x : c(x) \in 0 .. 5
  BY DEF count5, eq1
<1>4. v[1] = g \/ v[2] = g \/ v[3] = g \/ v[4] = g \/ v[5] = g
  BY DEF count5, eq1
<1>5. c(g) >= 3
  BY Zenon
<1> HIDE DEF c
<1>6. quorum_value5(v, 3) = g
  <2>1. \A x : c(x) >= 3 <=> x = g
    BY <1>2, <1>3, <1>5
  <2>2. QED
    BY <2>1, <1>4, Zenon DEF quorum_value5, c
<1>7. max_agree5(v) >= 3
  <2>1. c(v[1]) >= 3 \/ c(v[2]) >= 3 \/ c(v[3]) >= 3 \/ c(v[4]) >= 3 \/ c(v[5]) >= 3
    BY <1>4, <1>5, Zenon
  <2>2. /\ c(v[1]) \in Int /\ c(v[2]) \in Int /\ c(v[3]) \in Int
        /\ c(v[4]) \in Int /\ c(v[5]) \in Int
    BY <1>3
  <2>3. max_agree5(v) = max2(max2(max2(c(v[1]), c(v[2])), max2(c(v[3]), c(v[4]))), c(v[5]))
    BY Zenon DEF max_agree5, c
  <2>4. QED
    BY <2>1, <2>2, <2>3 DEF max2
<1>8. QED
  BY <1>1, <1>6, <1>7, Zenon DEF quorum5, has_quorum_k

(* The pool pays out what it holds and no more (payout_capped,             *)
(* pool_after_payout).                                                     *)
LEMMA PoolIsSolvent ==
    ASSUME NEW pool \in Nat, NEW requested \in Nat
    PROVE  /\ payout_capped(pool, requested) + pool_after_payout(pool, requested) = pool
           /\ pool_after_payout(pool, requested) >= 0
BY DEF payout_capped, pool_after_payout

(* The witnesses of a dispute are paid from their own stakes: the three    *)
(* payouts never exceed the three stakes, for any votes (witness_payout).  *)
THEOREM WitnessesPayThemselves ==
    ASSUME NEW v \in [1 .. 3 -> Nat], NEW stake \in Nat
    PROVE  witness_payout(v[1], v, stake) + witness_payout(v[2], v, stake)
               + witness_payout(v[3], v, stake) <= 3 * stake
<1> DEFINE m == witness_majority(v)
           k == majority_count_3(v, m)
<1>1. CASE m = 0
  BY <1>1 DEF witness_payout
<1>2. CASE m # 0 /\ v[1] = v[2] /\ v[2] = v[3]
  <2>1. k = 3 /\ m = v[1]
    BY <1>2 DEF witness_majority, majority_count_3, eq1
  <2>2. minority_pot_3(v, m, stake) = 0
    BY <2>1 DEF minority_pot_3
  <2>3. \A i \in 1 .. 3 : witness_payout(v[i], v, stake) = stake
    BY <1>2, <2>1, <2>2 DEF witness_payout
  <2>4. QED
    BY <2>3
<1>3. CASE m # 0 /\ ~(v[1] = v[2] /\ v[2] = v[3])
  <2>1. k = 2
    BY <1>3 DEF witness_majority, majority_count_3, eq1
  <2>2. minority_pot_3(v, m, stake) = stake
    BY <2>1 DEF minority_pot_3
  <2>3. \A i \in 1 .. 3 : witness_payout(v[i], v, stake) =
                              IF v[i] = m THEN stake + (stake \div 2) ELSE 0
    BY <1>3, <2>1, <2>2, Zenon DEF witness_payout
  <2>4. \E i \in 1 .. 3 : v[i] # m
    BY <1>3
  <2>5. stake + (stake \div 2) + stake + (stake \div 2) <= 3 * stake
    OBVIOUS
  <2>6. QED
    BY <2>3, <2>4, <2>5
<1>4. QED
  BY <1>1, <1>2, <1>3, Zenon
-----------------------------------------------------------------------------
Account == [balance : Int, locked : Int, pending : Int, outstanding : Int, rep : Int]

Receipt == [state : {"none", "escrow", "final", "reversed"}, result : Nat,
            epoch : Int, slashed : BOOLEAN]
Dispute == [task : Task, epoch : Int, family : {"binary"}, leaf : Int, open : BOOLEAN]

(* The part of the state's type the proofs below need. *)
Shape ==
    /\ account \in [Executor -> Account]
    /\ asked \in [Task -> Executor \cup {None}]
    /\ \A t \in Task : receipt[t].state # "none" => asked[t] \in Executor
    /\ disputes \subseteq Dispute
    /\ \A r \in results : r.task \in Task /\ r.executor \in Executor
    /\ receipt \in [Task -> Receipt]
    /\ now \in Int

(* Whether the signature of a result is its executor's own. *)
Own(r) == r.sig_ok /\ r.key = r.executor

(* What makes HonestAreSafe inductive: an honest executor only signs the   *)
(* golden result, so only that result is settled for a task it was given,  *)
(* whatever arrives in its name.                                           *)
HonestInv ==
    /\ Shape
    /\ stakes \in [Verifier -> Int] /\ \A i \in Verifier : stakes[i] >= 0
    /\ credit \in [Verifier -> Int]
    /\ \A t \in Task : receipt[t].slashed => receipt[t].state # "none"
    /\ \A r \in results : r.result \in Nat
    /\ \A r \in results : Own(r) /\ r.executor \in Honest => r.result = Golden
    /\ \A t \in Task : asked[t] \in Honest /\ receipt[t].state # "none"
                           => receipt[t].result = Golden
    /\ HonestAreSafe

SafeInv == HonestInv /\ EscrowConsistent

(* The constants are naturals, and one task earns sixteen. *)
LEMMA ConstantTypes ==
    /\ Golden \in Nat /\ Wrong \subseteq Nat /\ Result \subseteq Nat
    /\ Start \in Nat /\ Bond \in Nat /\ Gain \in Nat /\ VerifierStake \in Nat
    /\ MaxU32 \in Nat \ {0}
    /\ Reward = 16
<1>1. Reward = 16
  BY DEF Reward, compute_reward, REWARD_PER_GF_OP, skill_width, is_gft_skill, Skill
<1>2. QED
  BY <1>1, ComputeAssumption, MaxU32Assumption, Zenon DEF Result

(* The saturating sums of the accounts are integers. *)
LEMMA SatInt ==
    ASSUME NEW x \in Int, NEW y \in Int
    PROVE  /\ bal_add_sat(x, y) \in Int
           /\ pending_after_settle(x, y) \in Int
           /\ outstanding_after_escrow(x, y) \in Int
           /\ pending_after_settle(x, y) = outstanding_after_escrow(x, y)
           /\ pending_after_release(x, y) \in Int
           /\ outstanding_after_release(x, y) \in Int
           /\ pending_after_release(x, y) = outstanding_after_release(x, y)
<1>1. wrapping_add(x, y) \in Int
  BY MaxU32Assumption DEF wrapping_add
<1>2. QED
  BY <1>1, MaxU32Assumption DEF bal_add_sat, pending_after_settle, outstanding_after_escrow,
      pending_after_release, outstanding_after_release

(* A settlement pays an integer. *)
LEMMA RewardInt ==
    ASSUME NEW sig_ok, NEW fresh, NEW settled, NEW payable
    PROVE  settle_canonical(0, skill_width(Skill), sig_ok, fresh, settled, payable) \in Int
<1>1. skill_width(Skill) = 16
  BY Zenon DEF skill_width, is_gft_skill, Skill
<1>2. compute_reward(16, sig_ok /\ ~settled /\ fresh /\ payable) \in Int
  BY DEF compute_reward, REWARD_PER_GF_OP
<1>3. QED
  BY <1>1, <1>2, SatInt DEF settle_canonical

(* A resolution leaves an integer reputation. *)
LEMMA RepInt ==
    ASSUME NEW rep \in Int, NEW outcome
    PROVE  rep_after_resolution(rep, outcome, Gain) \in Int
BY ConstantTypes DEF rep_after_resolution, rep_after_slash, rep_after_honest, smaller, REP_MAX

(* SafeInv holds initially. *)
LEMMA InitSafe == Init => SafeInv
<1> SUFFICES ASSUME Init PROVE SafeInv
  BY Zenon
<1>1. Shape
  <2>1. account \in [Executor -> Account]
    BY ConstantTypes DEF Init, Account, REP_INIT
  <2>2. receipt \in [Task -> Receipt]
    BY DEF Init, Unsettled, Receipt
  <2>3. \A t \in Task : receipt[t].state = "none"
    BY Zenon DEF Init, Unsettled
  <2>4. QED
    BY <2>1, <2>2, <2>3 DEF Init, Shape
<1>2. \A t \in Task : receipt[t].state = "none" /\ receipt[t].slashed = FALSE
  BY Zenon DEF Init, Unsettled
<1>3. stakes \in [Verifier -> Int] /\ \A i \in Verifier : stakes[i] >= 0
  BY ConstantTypes DEF Init
<1>4. \A i \in HonestVerifier : stakes[i] >= VerifierStake
  <2>1. \A i \in HonestVerifier : stakes[i] = VerifierStake
    BY ComputeAssumption, Zenon DEF Init, Verifier
  <2>2. QED
    BY <2>1, ConstantTypes
<1>8. /\ credit \in [Verifier -> Int]
      /\ \A i \in HonestVerifier : credit[i] >= REP_INIT
  BY ComputeAssumption DEF Init, Verifier, REP_INIT
<1>5. HonestAreSafe
  BY <1>2, <1>4, <1>8, Zenon DEF HonestAreSafe
<1>6. EscrowConsistent
  BY Zenon DEF Init, EscrowConsistent
<1>7. QED
  BY <1>1, <1>2, <1>3, <1>5, <1>6, <1>8, Zenon DEF SafeInv, HonestInv, Init

(* Only the assigned executor's own result is settled. *)
LEMMA SettleIsAuthentic ==
    ASSUME NEW r \in results, settle(r)
    PROVE  asked[r.task] = r.executor /\ Own(r)
BY Zenon DEF Own, settle, admit_result_signed_sized, admit_result_signed, executor_authentic

(* A verdict of a quorum with two faithful verifiers slashes no golden result. *)
LEMMA GoldenIsNotSlashed ==
    ASSUME NEW v \in Votes, NEW s, NEW d, s.result = Golden
    PROVE  resolve_quorum3(last_epoch, s, d, v) # "slash"
<1>1. PICK i \in HonestVerifier, j \in HonestVerifier : i # j
  BY ComputeAssumption, Zenon
<1>2. v[i] = Golden /\ v[j] = Golden /\ i \in 1 .. 3 /\ j \in 1 .. 3
  BY ComputeAssumption, Zenon DEF Votes
<1>3. verifier_quorum3(v) /\ quorum_result3(v) = Golden
  BY <1>1, <1>2, TwoOfThree, Zenon
<1>4. QED
  BY <1>3, Zenon DEF resolve_quorum3, resolve_full, resolve_bound

(* A vote costs no honest verifier any stake, and takes no stake below zero.
   *)
LEMMA StakesOfFaithful ==
    ASSUME NEW v \in Votes, stakes \in [Verifier -> Int], \A i \in Verifier : stakes[i] >= 0
    PROVE  /\ StakesAfter(v) \in [Verifier -> Int]
           /\ \A i \in Verifier : StakesAfter(v)[i] >= 0
           /\ \A i \in HonestVerifier : StakesAfter(v)[i] >= stakes[i]
<1>1. PICK i \in HonestVerifier, j \in HonestVerifier : i # j
  BY ComputeAssumption, Zenon
<1>2. v[i] = Golden /\ v[j] = Golden /\ i \in 1 .. 3 /\ j \in 1 .. 3
  BY ComputeAssumption, Zenon DEF Votes
<1>3. quorum_result3(v) = Golden
  BY <1>1, <1>2, TwoOfThree, Zenon
<1> DEFINE dissented(n) == Dissented(v, n)
           burned == IF \E n \in Verifier : dissented(n)
                     THEN stakes[CHOOSE n \in Verifier : dissented(n)] ELSE 0
           share == verifier_reward(burned, max_agree3(v))
<1>4. burned \in Int /\ burned >= 0
  <2>1. CASE \E n \in Verifier : dissented(n)
    <3>1. (CHOOSE n \in Verifier : dissented(n)) \in Verifier
      BY <2>1, Zenon
    <3> HIDE DEF dissented
    <3>2. QED
      BY <2>1, <3>1, Zenon
  <2>2. CASE ~\E n \in Verifier : dissented(n)
    BY <2>2
  <2>3. QED
    BY <2>1, <2>2, Zenon
<1> HIDE DEF burned
<1>5. share \in Int /\ share >= 0
  BY <1>4 DEF verifier_reward, max_agree3
<1>6. \A n \in HonestVerifier : n \in Verifier /\ ~dissented(n)
  BY <1>3, ComputeAssumption, Zenon DEF Votes, Verifier, Dissented, verifier_dissented
<1>7. StakesAfter(v) = [n \in Verifier |-> verifier_stake_after(stakes[n], dissented(n))
                                           + (IF dissented(n) THEN 0 ELSE share)]
  BY Zenon DEF StakesAfter, burned
<1> HIDE DEF dissented, share
<1>8. QED
  BY <1>5, <1>6, <1>7 DEF verifier_stake_after

(* Nor does it take an honest verifier's reputation below the initial one. *)
LEMMA CreditOfFaithful ==
    ASSUME NEW v \in Votes, credit \in [Verifier -> Int],
           \A i \in HonestVerifier : credit[i] >= REP_INIT
    PROVE  /\ CreditAfter(v) \in [Verifier -> Int]
           /\ \A i \in HonestVerifier : CreditAfter(v)[i] >= REP_INIT
<1>1. PICK i \in HonestVerifier, j \in HonestVerifier : i # j
  BY ComputeAssumption, Zenon
<1>2. v[i] = Golden /\ v[j] = Golden /\ i \in 1 .. 3 /\ j \in 1 .. 3
  BY ComputeAssumption, Zenon DEF Votes
<1>3. quorum_result3(v) = Golden
  BY <1>1, <1>2, TwoOfThree, Zenon
<1>4. \A n \in HonestVerifier : n \in Verifier /\ ~Dissented(v, n)
  BY <1>3, ComputeAssumption, Zenon DEF Votes, Verifier, Dissented, verifier_dissented
<1>5. ASSUME NEW c \in Int, NEW q, NEW o
      PROVE  /\ rep_after_verifier(c, q, o, Gain) \in Int
             /\ c >= REP_INIT /\ ~o => rep_after_verifier(c, q, o, Gain) >= REP_INIT
  BY ConstantTypes DEF rep_after_verifier, rep_after_slash, rep_after_honest, smaller,
     REP_MAX, REP_INIT
<1>6. QED
  BY <1>4, <1>5, Zenon DEF CreditAfter

(* The steps that only make assignments, send messages or pass time. *)
Talk ==
    \/ \E t \in Task, e \in Executor : assign(t, e)
    \/ \E t \in Task, e, x, k \in Executor, op \in {GF_MUL, GF_ADD}, result \in Result :
           reply(t, e, x, k, op, result)
    \/ Tick
    \/ UNCHANGED vars

LEMMA TalkIsFree ==
    ASSUME Talk
    PROVE  UNCHANGED <<account, receipt, disputes, last_epoch, purse, burnt>>
<1>1. ASSUME NEW t \in Task, NEW e \in Executor, NEW x \in Executor, NEW k \in Executor,
             NEW op \in {GF_MUL, GF_ADD}, NEW result \in Result,
             reply(t, e, x, k, op, result)
      PROVE  UNCHANGED <<account, receipt, disputes, last_epoch, purse, burnt>>
  BY <1>1, Zenon DEF reply
<1>2. ASSUME NEW t \in Task, NEW e \in Executor, assign(t, e)
      PROVE  UNCHANGED <<account, receipt, disputes, last_epoch, purse, burnt>>
  BY <1>2, Zenon DEF assign
<1>3. CASE Tick \/ UNCHANGED vars
  BY <1>3, Zenon DEF Tick, vars
<1>4. QED
  BY <1>1, <1>2, <1>3, Zenon DEF Talk

(* Every action keeps the shape of the state. *)
LEMMA ShapeStep == HonestInv /\ [Next]_vars => Shape'
<1> SUFFICES ASSUME HonestInv, [Next]_vars PROVE Shape'
  BY Zenon
<1>0. Shape
  BY Zenon DEF HonestInv
<1>a. ASSUME NEW e \in Executor
      PROVE  /\ account[e] \in Account /\ account[e].balance \in Int
             /\ account[e].locked \in Int /\ account[e].pending \in Int
             /\ account[e].outstanding \in Int /\ account[e].rep \in Int
  BY <1>0, Zenon DEF Shape, Account
<1>1. ASSUME NEW e \in Executor, post_bond(e) \/ release_bond(e) PROVE Shape'
  <2>1. account' \in [Executor -> Account]
    <3>1. CASE post_bond(e)
      <4>1. /\ bal_after_lock(account[e].balance, Bond) \in Int
            /\ locked_after_lock(account[e].balance, account[e].locked, Bond) \in Int
        BY <1>a, ConstantTypes DEF bal_after_lock, locked_after_lock
      <4>2. QED
        BY <1>0, <3>1, <4>1, Zenon DEF post_bond, Shape, Account
    <3>2. CASE release_bond(e)
      <4>1. bal_after_release(account[e].balance, account[e].locked) \in Int /\ 0 \in Int
        BY <1>a DEF bal_after_release
      <4>2. QED
        BY <1>0, <3>2, <4>1, Zenon DEF release_bond, Shape, Account
    <3>3. QED
      BY <1>1, <3>1, <3>2, Zenon
  <2>2. QED
    BY <1>0, <1>1, <2>1, Zenon DEF post_bond, release_bond, Shape
<1>2. ASSUME NEW t \in Task, NEW e \in Executor, assign(t, e) PROVE Shape'
  BY <1>0, <1>2, Zenon DEF assign, Shape
<1>3. ASSUME NEW t \in Task, NEW e \in Executor, NEW x \in Executor, NEW k \in Executor,
             NEW op \in {GF_MUL, GF_ADD}, NEW result \in Result,
             reply(t, e, x, k, op, result)
      PROVE  Shape'
  BY <1>0, <1>3 DEF reply, Shape
<1>4. ASSUME NEW r \in results, settle(r) PROVE Shape'
  <2>1. r.task \in Task /\ r.result \in Nat /\ now \in Int
    BY <1>0, Zenon DEF HonestInv, Shape
  <2>2. asked[r.task] = r.executor
    BY <1>4, SettleIsAuthentic, Zenon
  <2>3. PICK reward \in Int :
            account' = [account EXCEPT ![asked[r.task]] = [account[asked[r.task]] EXCEPT
                !.pending = pending_after_settle(account[asked[r.task]].pending, reward),
                !.outstanding =
                    outstanding_after_escrow(account[asked[r.task]].outstanding, reward)]]
    BY <1>4, RewardInt, Zenon DEF settle
  <2>4. asked[r.task] \in Executor
    BY <1>0, <2>2, Zenon DEF Shape
  <2>5. account' \in [Executor -> Account]
    <3>1. /\ pending_after_settle(account[asked[r.task]].pending, reward) \in Int
          /\ outstanding_after_escrow(account[asked[r.task]].outstanding, reward) \in Int
      BY <1>a, <2>4, SatInt, Zenon
    <3>2. QED
      BY <1>0, <2>3, <2>4, <3>1, Zenon DEF Shape, Account
  <2>6. receipt' \in [Task -> Receipt]
    BY <1>0, <1>4, <2>1, Zenon DEF settle, Shape, Receipt
  <2>7. \A t \in Task : receipt'[t].state # "none" => asked'[t] \in Executor
    BY <1>0, <1>4, <2>1, <2>4, Zenon DEF settle, Shape
  <2>8. UNCHANGED <<asked, disputes, results, now>>
    BY <1>4, Zenon DEF settle
  <2>9. QED
    BY <1>0, <2>5, <2>6, <2>7, <2>8, Zenon DEF Shape
<1>5. ASSUME NEW t \in Task, NEW leaf \in Task \cup {0}, open_dispute(t, leaf) PROVE Shape'
  <2>0. leaf \in Int /\ now \in Int
    BY <1>0 DEF Task, Shape
  <2>1. disputes' \subseteq Dispute
    <3>1. [task |-> t, epoch |-> now, family |-> "binary", leaf |-> leaf, open |-> TRUE]
              \in Dispute
      BY <2>0, Zenon DEF Dispute
    <3>2. QED
      BY <1>0, <1>5, <3>1, Zenon DEF open_dispute, Shape
  <2>2. QED
    BY <1>0, <1>5, <2>1, Zenon DEF open_dispute, Shape
<1>6. ASSUME NEW d \in disputes, NEW v \in Votes, NEW missed \in BOOLEAN,
             resolve(d, v, missed)
      PROVE  Shape'
  <2> DEFINE outcome == resolve_quorum3(last_epoch, Claim(d.task), d, v)
             clawback == outcome = "slash" /\ ~missed
             x == account[asked[d.task]]
  <2>1. d \in Dispute /\ d.task \in Task /\ receipt[d.task].state = "escrow"
    BY <1>0, <1>6, Zenon DEF resolve, Shape, Dispute
  <2>2. asked[d.task] \in Executor /\ receipt[d.task] \in Receipt
    BY <1>0, <2>1, Zenon DEF Shape
  <2>3. /\ account' = [account EXCEPT ![asked[d.task]] = Judged(x, outcome, clawback)]
        /\ receipt' = [receipt EXCEPT ![d.task] = Ruled(receipt[d.task], outcome, clawback)]
    BY <1>6, Zenon DEF resolve
  <2>4. clawback \in BOOLEAN
    BY Zenon
  <2> HIDE DEF outcome, clawback
  <2>5. account' \in [Executor -> Account]
    <3>1. x \in Account /\ x.locked \in Int /\ x.rep \in Int /\ x.pending \in Int
              /\ x.outstanding \in Int
      BY <1>a, <2>2, Zenon
    <3>2. executor_bond_after(x.locked, outcome) \in Int
      BY <3>1 DEF executor_bond_after
    <3>3. rep_after_resolution(x.rep, outcome, Gain) \in Int
      BY <3>1, RepInt, Zenon
    <3>4. /\ pending_after_release(x.pending, Reward) \in Int
          /\ outstanding_after_release(x.outstanding, Reward) \in Int
      <4>1. Reward \in Int
        BY ConstantTypes
      <4>2. QED
        BY <3>1, <4>1, SatInt, Zenon
    <3> HIDE DEF x
    <3>5. Judged(x, outcome, clawback) \in Account
      BY <3>1, <3>2, <3>3, <3>4, Zenon DEF Judged, Account
    <3>6. QED
      BY <1>0, <2>2, <2>3, <3>5, Zenon DEF Shape, x
  <2>6. receipt' \in [Task -> Receipt]
    <3>1. Ruled(receipt[d.task], outcome, clawback) \in Receipt
      BY <2>2, <2>4, Zenon DEF Receipt, Ruled
    <3>2. QED
      BY <1>0, <2>1, <2>3, <3>1, Zenon DEF Shape
  <2>7. \A t \in Task : receipt'[t].state # "none" => receipt[t].state # "none"
    BY <1>0, <2>1, <2>3, Zenon DEF Shape
  <2>8. disputes' \subseteq Dispute
    <3>1. disputes' = (disputes \ {d}) \cup {[d EXCEPT !.open = FALSE]}
      BY <1>6, Zenon DEF resolve
    <3>2. QED
      BY <1>0, <2>1, <3>1, Zenon DEF Shape, Dispute
  <2>9. UNCHANGED <<asked, results, now>>
    BY <1>6, Zenon DEF resolve
  <2>10. QED
    BY <1>0, <2>5, <2>6, <2>7, <2>8, <2>9, Zenon DEF Shape
<1>7. ASSUME NEW t \in Task, finalize(t) PROVE Shape'
  <2>1. receipt[t].state = "escrow" /\ asked[t] \in Executor
    BY <1>0, <1>7, Zenon DEF finalize, Shape
  <2>2. PICK balance \in Int :
          account' = [account EXCEPT ![asked[t]] = [account[asked[t]] EXCEPT
               !.balance = balance,
               !.pending = pending_after_release(account[asked[t]].pending, Reward),
               !.outstanding =
                   outstanding_after_release(account[asked[t]].outstanding, Reward)]]
    <3>1. \A x \in Int : \A epoch, w, s :
              bal_after_finalize_checked(x, Reward, epoch, now, w, s) \in Int
      BY SatInt, ConstantTypes DEF bal_after_finalize_checked, bal_after_finalize_gated
    <3>2. QED
      BY <1>7, <1>a, <2>1, <3>1, Zenon DEF finalize
  <2>3. account' \in [Executor -> Account]
    <3>0. account[asked[t]].pending \in Int /\ account[asked[t]].outstanding \in Int
      BY <1>a, <2>1, Zenon
    <3>1. /\ pending_after_release(account[asked[t]].pending, Reward) \in Int
          /\ outstanding_after_release(account[asked[t]].outstanding, Reward) \in Int
      <4>1. Reward \in Int
        BY ConstantTypes
      <4>2. QED
        BY <3>0, <4>1, SatInt, Zenon
    <3>2. QED
      BY <1>0, <2>1, <2>2, <3>1, Zenon DEF Shape, Account
  <2>4. receipt' \in [Task -> Receipt]
    BY <1>0, <1>7, Zenon DEF finalize, Shape, Receipt
  <2>5. \A u \in Task : receipt'[u].state # "none" => receipt[u].state # "none"
    BY <1>0, <1>7, <2>1, Zenon DEF finalize, Shape
  <2>6. UNCHANGED <<asked, results, disputes, now>>
    BY <1>7, Zenon DEF finalize
  <2>7. QED
    BY <1>0, <2>3, <2>4, <2>5, <2>6, Zenon DEF Shape
<1>8. CASE Tick
  BY <1>0, <1>8 DEF Tick, Shape
<1>9. CASE UNCHANGED vars
  BY <1>0, <1>9, Zenon DEF vars, Shape
<1>10. QED
  BY <1>1, <1>2, <1>3, <1>4, <1>5, <1>6, <1>7, <1>8, <1>9, Zenon DEF Next, Task

(* Verdicts, late results and foreign results leave the honest untouched. *)
LEMMA HonestStep == HonestInv /\ [Next]_vars => HonestInv'
<1> SUFFICES ASSUME HonestInv, [Next]_vars PROVE HonestInv'
  BY Zenon
<1>0. Shape /\ Shape'
  BY ShapeStep, Zenon DEF HonestInv
<1>a. Honest \subseteq Executor /\ None \notin Executor /\ HonestVerifier \subseteq Verifier
  BY ComputeAssumption, Zenon DEF Verifier
<1>1. CASE UNCHANGED <<asked, results, receipt, stakes, credit>>
  BY <1>0, <1>1, Zenon DEF HonestInv, HonestAreSafe
<1>2. ASSUME NEW t \in Task, NEW e \in Executor, assign(t, e) PROVE HonestInv'
  <2>1. asked[t] = None /\ asked \in [Task -> Executor \cup {None}]
    BY <1>0, <1>2, Zenon DEF assign, Shape
  <2>2. receipt[t].state = "none" /\ ~receipt[t].slashed
    <3>1. receipt[t].state = "none"
      BY <1>0, <1>a, <2>1, Zenon DEF Shape
    <3>2. QED
      BY <3>1, Zenon DEF HonestInv
  <2>3. /\ UNCHANGED <<results, receipt, stakes, credit>>
        /\ \A u \in Task : u # t => asked'[u] = asked[u]
    BY <1>2, <2>1, Zenon DEF assign
  <2>4. \A u \in Task : asked'[u] \in Honest => ~receipt'[u].slashed
    BY <2>2, <2>3, Zenon DEF HonestInv, HonestAreSafe
  <2>5. \A u \in Task : asked'[u] \in Honest /\ receipt'[u].state # "none"
                             => receipt'[u].result = Golden
    BY <2>2, <2>3, Zenon DEF HonestInv
  <2>6. QED
    BY <1>0, <2>3, <2>4, <2>5, Zenon DEF HonestInv, HonestAreSafe
<1>3. ASSUME NEW t \in Task, NEW e \in Executor, NEW x \in Executor, NEW k \in Executor,
             NEW op \in {GF_MUL, GF_ADD}, NEW result \in Result,
             reply(t, e, x, k, op, result)
      PROVE  HonestInv'
  <2>1. UNCHANGED <<asked, receipt, stakes, credit>>
    BY <1>3, Zenon DEF reply
  <2>2. result \in Nat
    BY ConstantTypes, Zenon
  <2>3. \A r \in results' : /\ r.result \in Nat
                            /\ Own(r) /\ r.executor \in Honest => r.result = Golden
    <3> DEFINE new == [task |-> t, receipt_task |-> t, family |-> "binary", op |-> op,
                       width |-> 16, executor |-> x, key |-> k, sig_ok |-> (k = e),
                       result |-> result]
    <3>1. results' = results \cup {new} /\ (e \in Honest => result = Golden)
      BY <1>3, Zenon DEF reply
    <3>2. new.executor = x /\ new.result = result /\ new.key = k /\ new.sig_ok = (k = e)
      BY Zenon
    <3> HIDE DEF new
    <3>3. Own(new) /\ new.executor \in Honest => new.result = Golden
      BY <3>1, <3>2, Zenon DEF Own
    <3>4. QED
      BY <2>2, <3>1, <3>2, <3>3, Zenon DEF HonestInv
  <2>4. HonestAreSafe'
    BY <2>1, Zenon DEF HonestInv, HonestAreSafe
  <2>5. /\ stakes' \in [Verifier -> Int] /\ \A i \in Verifier : stakes'[i] >= 0
        /\ credit' \in [Verifier -> Int]
        /\ \A u \in Task : receipt'[u].slashed => receipt'[u].state # "none"
        /\ \A u \in Task : asked'[u] \in Honest /\ receipt'[u].state # "none"
                               => receipt'[u].result = Golden
    BY <2>1, Zenon DEF HonestInv
  <2>6. QED
    BY <1>0, <2>3, <2>4, <2>5, Zenon DEF HonestInv
<1>4. ASSUME NEW r \in results, settle(r) PROVE HonestInv'
  <2>1. /\ r.task \in Task
        /\ asked[r.task] = r.executor
        /\ receipt' = [receipt EXCEPT ![r.task] =
               [state |-> "escrow", result |-> r.result, epoch |-> now, slashed |-> FALSE]]
        /\ UNCHANGED <<asked, results, stakes, credit>>
    BY <1>0, <1>4, SettleIsAuthentic, Zenon DEF settle, Shape
  <2>2. \A u \in Task : u # r.task => receipt'[u] = receipt[u]
    BY <1>0, <2>1, Zenon DEF Shape
  <2>3. /\ receipt'[r.task].result = r.result /\ ~receipt'[r.task].slashed
        /\ receipt'[r.task].state = "escrow"
    BY <1>0, <2>1, Zenon DEF Shape
  <2>4. r.executor \in Honest => r.result = Golden
    BY <1>4, SettleIsAuthentic, Zenon DEF HonestInv
  <2>5. QED
    BY <1>0, <2>1, <2>2, <2>3, <2>4 DEF HonestInv, HonestAreSafe
<1>6. ASSUME NEW d \in disputes, NEW v \in Votes, NEW missed \in BOOLEAN,
             resolve(d, v, missed)
      PROVE  HonestInv'
  <2> DEFINE t == d.task
             outcome == resolve_quorum3(last_epoch, Claim(t), d, v)
             clawback == outcome = "slash" /\ ~missed
  <2>1. t \in Task /\ receipt[t].state = "escrow" /\ receipt[t] \in Receipt
    BY <1>0, <1>6, Zenon DEF resolve, Shape, Dispute
  <2>2. /\ receipt' = [receipt EXCEPT ![t] = Ruled(receipt[t], outcome, clawback)]
        /\ UNCHANGED <<asked, results>>
        /\ stakes' = StakesAfter(v) \/ stakes' = stakes
        /\ credit' = CreditAfter(v) \/ credit' = credit
    BY <1>6, Zenon DEF resolve
  <2>3. asked[t] \in Honest => outcome # "slash"
    <3>1. asked[t] \in Honest => Claim(t).result = Golden
      BY <2>1, Zenon DEF Claim, HonestInv
    <3>2. QED
      BY <3>1, GoldenIsNotSlashed, Zenon
  <2>4. clawback \in BOOLEAN
    BY Zenon
  <2> HIDE DEF outcome, clawback
  <2>5. /\ receipt'[t].result = receipt[t].result
        /\ receipt'[t].slashed = (outcome = "slash")
        /\ receipt'[t].state # "none"
        /\ \A u \in Task : u # t => receipt'[u] = receipt[u]
    <3>1. /\ Ruled(receipt[t], outcome, clawback).result = receipt[t].result
          /\ Ruled(receipt[t], outcome, clawback).slashed = (outcome = "slash")
          /\ Ruled(receipt[t], outcome, clawback).state # "none"
      BY <2>1, <2>4, Zenon DEF Ruled, Receipt
    <3>2. QED
      BY <1>0, <2>1, <2>2, <3>1, Zenon DEF Shape
  <2>6. \A u \in Task : asked'[u] \in Honest => ~receipt'[u].slashed
    BY <2>2, <2>3, <2>5, Zenon DEF HonestInv, HonestAreSafe
  <2>7. \A u \in Task : asked'[u] \in Honest /\ receipt'[u].state # "none"
                             => receipt'[u].result = Golden
    BY <2>1, <2>2, <2>5, Zenon DEF HonestInv
  <2>11. \A u \in Task : receipt'[u].slashed => receipt'[u].state # "none"
    BY <2>1, <2>5, Zenon DEF HonestInv
  <2>8. /\ stakes' \in [Verifier -> Int] /\ \A i \in Verifier : stakes'[i] >= 0
        /\ \A i \in HonestVerifier : stakes'[i] >= stakes[i]
    <3>1. /\ stakes \in [Verifier -> Int] /\ \A i \in Verifier : stakes[i] >= 0
          /\ \A i \in HonestVerifier : i \in Verifier /\ stakes[i] \in Int
      BY <1>a, Zenon DEF HonestInv
    <3>2. QED
      BY <2>2, <3>1, StakesOfFaithful
  <2>9. \A i \in HonestVerifier : stakes'[i] >= VerifierStake
    <3>1. \A i \in HonestVerifier : stakes[i] >= VerifierStake /\ stakes[i] \in Int
                                     /\ stakes'[i] \in Int
      BY <1>a, <2>8, Zenon DEF HonestInv, HonestAreSafe
    <3>2. QED
      BY <2>8, <3>1, ConstantTypes
  <2>12. /\ credit' \in [Verifier -> Int]
         /\ \A i \in HonestVerifier : credit'[i] >= REP_INIT
    BY <2>2, CreditOfFaithful, Zenon DEF HonestInv, HonestAreSafe
  <2>10. QED
    BY <1>0, <2>2, <2>6, <2>7, <2>8, <2>9, <2>11, <2>12, Zenon DEF HonestInv, HonestAreSafe
<1>7. ASSUME NEW t \in Task, finalize(t) PROVE HonestInv'
  <2>1. /\ receipt' = [receipt EXCEPT ![t] = [receipt[t] EXCEPT !.state = "final"]]
        /\ receipt[t].state = "escrow"
        /\ UNCHANGED <<asked, results, stakes, credit>>
    BY <1>7, Zenon DEF finalize
  <2>2. \A u \in Task : /\ receipt'[u].result = receipt[u].result
                         /\ receipt'[u].slashed = receipt[u].slashed
                         /\ receipt'[u].state # "none" <=> receipt[u].state # "none"
    BY <1>0, <2>1 DEF Shape, Receipt
  <2>3. QED
    BY <1>0, <2>1, <2>2 DEF HonestInv, HonestAreSafe
<1>8. ASSUME \/ \E e \in Executor : post_bond(e) \/ release_bond(e)
             \/ \E t \in Task, leaf \in Task \cup {0} : open_dispute(t, leaf)
             \/ Tick \/ UNCHANGED vars
      PROVE  HonestInv'
  BY <1>1, <1>8, Zenon DEF post_bond, release_bond, open_dispute, Tick, vars
<1>9. QED
  BY <1>2, <1>3, <1>4, <1>6, <1>7, <1>8, Zenon DEF Next

(* Every action moves pending and outstanding together. *)
LEMMA EscrowStep ==
    Shape /\ EscrowConsistent /\ [Next]_vars => EscrowConsistent'
<1> SUFFICES ASSUME Shape, EscrowConsistent, [Next]_vars PROVE EscrowConsistent'
  BY Zenon
<1>a. \A e \in Executor : /\ account[e].pending = account[e].outstanding
                          /\ account[e].pending \in Int /\ account[e] \in Account
  BY Zenon DEF Shape, Account, EscrowConsistent
<1>b. account \in [Executor -> Account]
  BY Zenon DEF Shape
<1>1. ASSUME NEW e \in Executor, post_bond(e) \/ release_bond(e) PROVE EscrowConsistent'
  <2>1. CASE post_bond(e)
    BY <1>a, <1>b, <2>1, Zenon DEF post_bond, EscrowConsistent, Account
  <2>2. CASE release_bond(e)
    BY <1>a, <1>b, <2>2, Zenon DEF release_bond, EscrowConsistent, Account
  <2>3. QED
    BY <1>1, <2>1, <2>2, Zenon
<1>2. ASSUME NEW r \in results, settle(r) PROVE EscrowConsistent'
  <2>1. asked[r.task] \in Executor
    BY <1>2, SettleIsAuthentic, Zenon DEF Shape
  <2> DEFINE x == account[asked[r.task]]
  <2>2. PICK reward \in Int :
            account' = [account EXCEPT ![asked[r.task]] = [x EXCEPT
                !.pending = pending_after_settle(x.pending, reward),
                !.outstanding = outstanding_after_escrow(x.outstanding, reward)]]
    BY <1>2, RewardInt, Zenon DEF settle
  <2>3. pending_after_settle(x.pending, reward) = outstanding_after_escrow(x.outstanding, reward)
    BY <1>a, <2>1, SatInt, Zenon
  <2>4. QED
    BY <1>a, <1>b, <2>1, <2>2, <2>3, Zenon DEF EscrowConsistent, Account
<1>3. ASSUME NEW d \in disputes, NEW v \in Votes, NEW missed \in BOOLEAN,
             resolve(d, v, missed)
      PROVE  EscrowConsistent'
  <2> DEFINE x == account[asked[d.task]]
             outcome == resolve_quorum3(last_epoch, Claim(d.task), d, v)
             clawback == outcome = "slash" /\ ~missed
  <2>1. asked[d.task] \in Executor
    BY <1>3, Zenon DEF resolve, Shape, Dispute
  <2>2. account' = [account EXCEPT ![asked[d.task]] = Judged(x, outcome, clawback)]
    BY <1>3, Zenon DEF resolve
  <2>3. clawback \in BOOLEAN /\ Reward \in Int
    BY ConstantTypes
  <2> HIDE DEF outcome, clawback
  <2>4. x \in Account /\ x.pending = x.outstanding /\ x.pending \in Int
    BY <1>a, <2>1, Zenon
  <2>5. pending_after_release(x.pending, Reward) = outstanding_after_release(x.outstanding, Reward)
    BY <2>3, <2>4, SatInt, Zenon
  <2> HIDE DEF x
  <2>6. Judged(x, outcome, clawback).pending = Judged(x, outcome, clawback).outstanding
    BY <2>3, <2>4, <2>5, Zenon DEF Judged, Account
  <2>7. QED
    BY <1>a, <1>b, <2>1, <2>2, <2>6, Zenon DEF EscrowConsistent
<1>4. ASSUME NEW t \in Task, finalize(t) PROVE EscrowConsistent'
  <2> DEFINE x == account[asked[t]]
  <2>1. asked[t] \in Executor /\ Reward \in Int
    BY <1>4, ConstantTypes DEF finalize, Shape
  <2>2. PICK balance :
            account' = [account EXCEPT ![asked[t]] = [x EXCEPT
                !.balance = balance,
                !.pending = pending_after_release(x.pending, Reward),
                !.outstanding = outstanding_after_release(x.outstanding, Reward)]]
    BY <1>4, Zenon DEF finalize
  <2>3. pending_after_release(x.pending, Reward) = outstanding_after_release(x.outstanding, Reward)
    BY <1>a, <2>1, SatInt, Zenon
  <2>4. QED
    BY <1>a, <1>b, <2>1, <2>2, <2>3, Zenon DEF EscrowConsistent, Account
<1>5. CASE UNCHANGED account
  BY <1>5, Zenon DEF EscrowConsistent
<1>6. ASSUME NEW t \in Task, NEW leaf \in Task \cup {0}, open_dispute(t, leaf)
      PROVE  EscrowConsistent'
  BY <1>5, <1>6, Zenon DEF open_dispute
<1>7. ASSUME Talk PROVE EscrowConsistent'
  BY <1>5, <1>7, TalkIsFree, Zenon
<1>8. QED
  BY <1>1, <1>2, <1>3, <1>4, <1>6, <1>7, Zenon DEF Next, Talk

(* SafeInv is an invariant. *)
LEMMA SafeInvariant == Spec => []SafeInv
<1>1. SafeInv /\ [Next]_vars => SafeInv'
  BY HonestStep, EscrowStep, Zenon DEF SafeInv, HonestInv
<1>2. QED
  BY <1>1, InitSafe, PTL DEF Spec

(* For any ledger width MaxU32, saturated or not, and any interleaving,    *)
(* pending and outstanding stay equal (pending_after_settle and            *)
(* pending_after_release against outstanding_after_escrow and _release).   *)
THEOREM EscrowAlwaysConsistent == Spec => []EscrowConsistent
<1>1. SafeInv => EscrowConsistent
  BY Zenon DEF SafeInv
<1>2. QED
  BY <1>1, SafeInvariant, PTL

(* With two faithful verifiers out of three no honest executor is slashed  *)
(* and no faithful verifier burned, for any number of faulty executors,    *)
(* disputes and replays.                                                   *)
THEOREM HonestAreAlwaysSafe == Spec => []HonestAreSafe
<1>1. SafeInv => HonestAreSafe
  BY Zenon DEF SafeInv, HonestInv
<1>2. QED
  BY <1>1, SafeInvariant, PTL
-----------------------------------------------------------------------------
(* An executor whose bond covers its escrow, and one that a step leaves    *)
(* covered unless it takes the bond.                                       *)
Covered(e) == bond_covers(account[e].locked, account[e].outstanding, MinBps)
Kept(e) == Covered(e) => account'[e].locked = 0 \/ Covered(e)'

(* What the proof of CoveredWhileBonded needs: the escrow is a u32, so the *)
(* product in required_bond does not wrap.                                 *)
BondInv == \A e \in Executor : account[e].outstanding \in U32

(* A product with a natural factor is monotone. *)
LEMMA ProductMonotone ==
    ASSUME NEW a \in Int, NEW b \in Int, NEW m \in Int, a <= b, m >= 0
    PROVE  a * m <= b * m
<1>1. (b - a) * m >= 0
  BY SMT
<1>2. QED
  BY <1>1, SMT

(* Up to a rate of 100% the required bond grows with the escrow. *)
LEMMA BondMonotone ==
    ASSUME NEW a \in U32, NEW b \in U32, NEW m \in Nat, a <= b, m <= BPS_UNIT
    PROVE  /\ required_bond(a, m) \in Int /\ required_bond(b, m) \in Int
           /\ required_bond(a, m) <= required_bond(b, m)
<1>0. a \in Int /\ b \in Int /\ a >= 0 /\ b <= MaxU32 /\ MaxU32 \in Nat /\ m <= 10000
  BY MaxU32Assumption DEF U32, BPS_UNIT
<1>1. ASSUME NEW x \in Int, x >= 0, x <= MaxU32
      PROVE  required_bond(x, m) = (x * m) \div 10000 /\ x * m \in Int
  <2>1. x * m <= 10000 * x /\ x * m >= 0 /\ x * m \in Int
    <3>1. m * x <= 10000 * x
      BY <1>0, <1>1, ProductMonotone
    <3>2. 0 * m <= x * m
      BY <1>0, <1>1, ProductMonotone
    <3>3. m * x = x * m /\ 0 * m = 0
      BY <1>1
    <3>4. QED
      BY <3>1, <3>2, <3>3
  <2> DEFINE p == x * m
  <2>2. p \in Int /\ 0 <= p /\ p <= 10000 * x
    BY <2>1
  <2> HIDE DEF p
  <2>3. p \div 10000 >= 0 /\ p \div 10000 <= x /\ p \div 10000 \in Int
    BY <2>2, <1>1
  <2>4. (p \div 10000) % (MaxU32 + 1) = p \div 10000
    BY <2>3, <1>0, <1>1
  <2>5. QED
    BY <2>1, <2>4 DEF required_bond, as_u32, BPS_UNIT, p
<1>2. a * m <= b * m
  BY <1>0, ProductMonotone
<1>3. /\ required_bond(a, m) = (a * m) \div 10000 /\ a * m \in Int
      /\ required_bond(b, m) = (b * m) \div 10000 /\ b * m \in Int
  BY <1>0, <1>1
<1>4. \A p, q \in Int : p <= q => p \div 10000 <= q \div 10000
  BY SMT
<1>5. QED
  BY <1>2, <1>3, <1>4

(* A larger bond covers a smaller escrow as well. *)
LEMMA StillCovered ==
    ASSUME NEW l \in Int, NEW k \in Int, NEW a \in U32, NEW b \in U32,
           l >= k, a <= b, MinBps <= BPS_UNIT, bond_covers(k, b, MinBps)
    PROVE  bond_covers(l, a, MinBps)
<1>1. MinBps \in Nat
  BY ComputeAssumption, Zenon
<1>2. /\ required_bond(a, MinBps) \in Int /\ required_bond(b, MinBps) \in Int
      /\ required_bond(a, MinBps) <= required_bond(b, MinBps)
  BY <1>1, BondMonotone, Zenon
<1>3. QED
  BY <1>2 DEF bond_covers

(* Escrowing a reward and releasing it keep a u32. *)
LEMMA EscrowInU32 ==
    ASSUME NEW a \in U32, NEW r \in Int
    PROVE  /\ outstanding_after_escrow(a, r) \in U32
           /\ r >= 0 => outstanding_after_release(a, r) \in U32
                        /\ outstanding_after_release(a, r) <= a
<1>1. a \in Int /\ 0 <= a /\ a <= MaxU32 /\ MaxU32 \in Nat
  BY MaxU32Assumption DEF U32
<1>2. wrapping_add(a, r) \in 0 .. MaxU32
  BY <1>1 DEF wrapping_add
<1>3. QED
  BY <1>1, <1>2 DEF outstanding_after_escrow, outstanding_after_release, U32

(* BondInv holds initially: nothing is in escrow. *)
LEMMA InitBond == Init => BondInv
<1>1. 0 \in U32
  BY MaxU32Assumption DEF U32
<1>2. ASSUME Init PROVE \A e \in Executor : account[e].outstanding = 0
  BY <1>2, Zenon DEF Init
<1>3. QED
  BY <1>1, <1>2, Zenon DEF BondInv

(* An executor's cover survives a step that adds to its bond or takes from *)
(* its escrow.                                                             *)
LEMMA CoverStep ==
    ASSUME Shape, BondInv, MinBps <= BPS_UNIT, NEW e \in Executor,
           account'[e].locked \in Int, account'[e].locked >= account[e].locked,
           account'[e].outstanding \in U32,
           account'[e].outstanding <= account[e].outstanding
    PROVE  Kept(e)
<1>1. CASE Covered(e)
  <2>1. account[e].locked \in Int /\ account[e].outstanding \in U32
    BY Zenon DEF Shape, Account, BondInv
  <2>2. QED
    BY <1>1, <2>1, StillCovered, Zenon DEF Covered, Kept
<1>2. QED
  BY <1>1, Zenon DEF Kept

(* Every action keeps escrow covered that was, or takes the bond. *)
LEMMA BondStep ==
    ASSUME MinBps <= BPS_UNIT, HonestInv, Shape', BondInv, [Next]_vars
    PROVE  BondInv' /\ \A e \in Executor : Kept(e)
<1> DEFINE Goal == BondInv' /\ \A e \in Executor : Kept(e)
<1> SUFFICES Goal
  BY Zenon
<1>0. Shape
  BY Zenon DEF HonestInv
<1>a. ASSUME NEW e \in Executor
      PROVE  /\ account[e] \in Account /\ account[e].locked \in Int
             /\ account[e].outstanding \in U32 /\ account[e].outstanding \in Int
  BY <1>0, Zenon DEF Shape, Account, BondInv
<1>b. account \in [Executor -> Account]
  BY <1>0, Zenon DEF Shape
<1>c. \A e \in Executor : account'[e].locked \in Int
  BY Zenon DEF Shape, Account
<1>d. Bond \in Nat /\ Reward \in Int /\ Reward >= 0
  BY ConstantTypes
<1>1. ASSUME \A e \in Executor : /\ account'[e].locked >= account[e].locked
                                 /\ account'[e].outstanding \in U32
                                 /\ account'[e].outstanding <= account[e].outstanding
      PROVE  Goal
  BY <1>0, <1>1, <1>c, CoverStep, Zenon DEF BondInv
<1>2. CASE UNCHANGED account
  BY <1>1, <1>2, <1>a
<1>3. ASSUME NEW e \in Executor, post_bond(e) PROVE Goal
  <2>1. account' = [account EXCEPT ![e] = [account[e] EXCEPT
             !.balance = bal_after_lock(account[e].balance, Bond),
             !.locked = locked_after_lock(account[e].balance, account[e].locked, Bond)]]
    BY <1>3, Zenon DEF post_bond
  <2>2. locked_after_lock(account[e].balance, account[e].locked, Bond) >= account[e].locked
    BY <1>a, <1>d DEF locked_after_lock
  <2>3. \A x \in Executor : /\ account'[x].outstanding = account[x].outstanding
                            /\ account'[x].locked >= account[x].locked
    <3>1. \A x \in Executor : x # e => account'[x] = account[x]
      BY <1>b, <2>1, Zenon
    <3>2. /\ account'[e].outstanding = account[e].outstanding
          /\ account'[e].locked = locked_after_lock(account[e].balance, account[e].locked, Bond)
      BY <1>a, <1>b, <2>1, Zenon DEF Account
    <3>3. QED
      BY <1>a, <2>2, <3>1, <3>2
  <2>4. QED
    BY <1>1, <1>a, <2>3
<1>4. ASSUME NEW e \in Executor,
             \A y \in Executor : y # e => account'[y] = account[y],
             account'[e].outstanding \in U32, Kept(e)
      PROVE  Goal
  BY <1>4, <1>a, Zenon DEF BondInv, Kept, Covered
<1>5. ASSUME NEW e \in Executor, release_bond(e) PROVE Goal
  <2>1. account' = [account EXCEPT ![e] = [account[e] EXCEPT
               !.balance = bal_after_release(account[e].balance, account[e].locked),
               !.locked = 0]]
    BY <1>5, Zenon DEF release_bond
  <2>2. \A y \in Executor : y # e => account'[y] = account[y]
    BY <1>b, <2>1, Zenon
  <2>3. account'[e].outstanding = account[e].outstanding /\ account'[e].locked = 0
    BY <1>a, <1>b, <2>1, Zenon DEF Account
  <2>4. QED
    BY <1>4, <1>a, <2>2, <2>3, Zenon DEF Kept
<1>6. ASSUME NEW r \in results, settle(r) PROVE Goal
  <2>1. asked[r.task] \in Executor
    BY <1>0, <1>6, SettleIsAuthentic, Zenon DEF Shape
  <2>e. PICK e \in Executor : e = asked[r.task]
    BY <2>1, Zenon
  <2>x. PICK x : x = account[e]
    BY Zenon
  <2>2. PICK reward \in Int :
          /\ account' = [account EXCEPT ![e] = [x EXCEPT
                !.pending = pending_after_settle(x.pending, reward),
                !.outstanding = outstanding_after_escrow(x.outstanding, reward)]]
          /\ Covers(x, reward)
    BY <1>6, <2>e, <2>x, RewardInt, Zenon DEF settle
  <2>3. /\ account'[e].outstanding = outstanding_after_escrow(x.outstanding, reward)
        /\ account'[e].locked = x.locked
    BY <1>a, <1>b, <2>x, <2>2, Zenon DEF Account
  <2>4. \A y \in Executor : y # e => account'[y] = account[y]
    BY <1>b, <2>2, Zenon
  <2>5. Kept(e)
    BY <2>2, <2>3, Zenon DEF Covers, Covered, Kept
  <2>6. account'[e].outstanding \in U32
    BY <1>a, <2>x, <2>3, EscrowInU32, Zenon
  <2>7. QED
    BY <1>4, <2>4, <2>5, <2>6, Zenon
<1>7. ASSUME NEW d \in disputes, NEW v \in Votes, NEW missed \in BOOLEAN,
             resolve(d, v, missed)
      PROVE  Goal
  <2>1. asked[d.task] \in Executor
    BY <1>0, <1>7, Zenon DEF resolve, Shape, Dispute
  <2>e. PICK e \in Executor : e = asked[d.task]
    BY <2>1, Zenon
  <2>x. PICK x : x = account[e]
    BY Zenon
  <2>o. PICK outcome : outcome = resolve_quorum3(last_epoch, Claim(d.task), d, v)
    BY Zenon
  <2>c. PICK clawback \in BOOLEAN : clawback = (outcome = "slash" /\ ~missed)
    BY Zenon
  <2>2. account' = [account EXCEPT ![e] = Judged(x, outcome, clawback)]
    BY <1>7, <2>e, <2>x, <2>o, <2>c, Zenon DEF resolve
  <2>3. \A y \in Executor : y # e => account'[y] = account[y]
    BY <1>b, <2>2, Zenon
  <2>4. /\ account'[e].locked = executor_bond_after(x.locked, outcome)
        /\ account'[e].outstanding = IF clawback
              THEN outstanding_after_release(x.outstanding, Reward) ELSE x.outstanding
    BY <1>a, <1>b, <2>x, <2>2, Zenon DEF Judged, Account
  <2>5. /\ account'[e].outstanding \in U32
        /\ account'[e].outstanding <= account[e].outstanding
    BY <1>a, <1>d, <2>x, <2>4, EscrowInU32
  <2>6. CASE outcome = "slash"
    BY <1>4, <2>3, <2>4, <2>5, <2>6, Zenon DEF executor_bond_after, Kept
  <2>7. CASE outcome # "slash"
    <3>1. account'[e].locked = account[e].locked
      BY <2>x, <2>4, <2>7, Zenon DEF executor_bond_after
    <3>2. QED
      BY <1>1, <1>a, <2>3, <2>5, <3>1
  <2>8. QED
    BY <2>6, <2>7, Zenon
<1>8. ASSUME NEW t \in Task, finalize(t) PROVE Goal
  <2>1. asked[t] \in Executor
    BY <1>0, <1>8, Zenon DEF finalize, Shape
  <2>e. PICK e \in Executor : e = asked[t]
    BY <2>1, Zenon
  <2>x. PICK x : x = account[e]
    BY Zenon
  <2>2. PICK balance : account' = [account EXCEPT ![e] = [x EXCEPT
               !.balance = balance,
               !.pending = pending_after_release(x.pending, Reward),
               !.outstanding = outstanding_after_release(x.outstanding, Reward)]]
    BY <1>8, <2>e, <2>x, Zenon DEF finalize
  <2>3. \A y \in Executor : y # e => account'[y] = account[y]
    BY <1>b, <2>2, Zenon
  <2>4. /\ account'[e].locked = x.locked
        /\ account'[e].outstanding = outstanding_after_release(x.outstanding, Reward)
    BY <1>a, <1>b, <2>x, <2>2, Zenon DEF Account
  <2>5. /\ account'[e].outstanding \in U32
        /\ account'[e].outstanding <= account[e].outstanding
    BY <1>a, <1>d, <2>x, <2>4, EscrowInU32, Zenon
  <2>6. QED
    BY <1>1, <1>a, <2>x, <2>3, <2>4, <2>5
<1>9. QED
  <2>1. ASSUME NEW t \in Task, NEW leaf \in Task \cup {0}, open_dispute(t, leaf) PROVE Goal
    BY <1>2, <2>1, Zenon DEF open_dispute
  <2>2. ASSUME Talk PROVE Goal
    BY <1>2, <2>2, TalkIsFree, Zenon
  <2> HIDE DEF Goal
  <2>3. QED
    BY <1>3, <1>5, <1>6, <1>7, <1>8, <2>1, <2>2, Zenon DEF Next, Talk

(* Up to a rate of 100%, escrowed rewards outgrow the bond behind them      *)
(* only when the bond is slashed or released, for every u32 width, number   *)
(* of tasks and interleaving (bond_covers on the prospective outstanding).  *)
(* Above 100% the u32 of required_bond could wrap.                          *)
THEOREM EscrowIsBacked ==
    ASSUME MinBps <= BPS_UNIT
    PROVE  Spec => CoveredWhileBonded
<1> DEFINE Safe == \A e \in Executor :
          bond_covers(account[e].locked, account[e].outstanding, MinBps)
          => \/ account'[e].locked = 0
             \/ bond_covers(account'[e].locked, account'[e].outstanding, MinBps)
<1>1. SafeInv /\ BondInv /\ [Next]_vars => SafeInv' /\ BondInv' /\ Safe
  <2> SUFFICES ASSUME SafeInv, BondInv, [Next]_vars PROVE SafeInv' /\ BondInv' /\ Safe
    BY Zenon
  <2>1. SafeInv'
    BY HonestStep, EscrowStep, Zenon DEF SafeInv, HonestInv
  <2>2. BondInv' /\ \A e \in Executor : Kept(e)
    BY <2>1, BondStep, Zenon DEF SafeInv, HonestInv
  <2>3. QED
    BY <2>1, <2>2, Zenon DEF Kept, Covered
<1> HIDE DEF Safe
<1>2. Spec => [][Safe]_vars
  BY <1>1, InitSafe, InitBond, PTL DEF Spec
<1>3. QED
  BY <1>2 DEF CoveredWhileBonded, Safe
-----------------------------------------------------------------------------
(* The resolved disputes of an executor's tasks. *)
Closed(e) == {d \in disputes : ~d.open /\ asked[d.task] = e}

(* What makes VerdictAppliedOnce inductive: a task is disputed once in an  *)
(* epoch, and a resolved dispute is behind the resolver's watermark or     *)
(* names another receipt, so no verdict of it can count again.             *)
VerdictInv ==
    /\ last_epoch \in Int
    /\ IsFiniteSet(disputes)
    /\ \A d \in disputes : asked[d.task] \in Executor
    /\ \A c, d \in disputes : c.task = d.task /\ c.epoch = d.epoch => c = d
    /\ \A d \in disputes : d.open \/ d.epoch <= last_epoch \/ d.leaf # d.task
    /\ \A e \in Executor : account[e].rep >= 0
    /\ \A e \in Executor : account[e].rep <= REP_INIT + Gain * Cardinality(Closed(e))

(* VerdictInv holds initially: nothing is disputed. *)
LEMMA InitVerdict == Init => VerdictInv
<1> SUFFICES ASSUME Init PROVE VerdictInv
  BY Zenon
<1>1. disputes = {} /\ last_epoch = 0 /\ \A e \in Executor : account[e].rep = 100
  BY Zenon DEF Init, REP_INIT
<1>2. IsFiniteSet(disputes)
  BY <1>1, FS_EmptySet, Zenon
<1>3. \A e \in Executor : Closed(e) = {}
  BY <1>1, Zenon DEF Closed
<1>4. \A e \in Executor : Cardinality(Closed(e)) = 0
  BY <1>3, FS_EmptySet, Zenon
<1>5. Gain * 0 = 0
  BY ConstantTypes
<1>6. QED
  BY <1>1, <1>2, <1>4, <1>5 DEF VerdictInv, REP_INIT

(* A reputation that does not grow keeps its bound, as the closed disputes *)
(* only grow; with one more of them it may grow by the gain.               *)
LEMMA BoundGrows ==
    ASSUME NEW m \in Nat, NEW n \in Nat, NEW rep \in Int, NEW new \in Int,
           rep <= REP_INIT + Gain * m,
           \/ new <= rep /\ m <= n
           \/ new <= rep + Gain /\ n = m + 1
    PROVE  new <= REP_INIT + Gain * n
<1>1. Gain \in Nat /\ REP_INIT = 100
  BY ConstantTypes, Zenon DEF REP_INIT
<1>2. Gain * m \in Int /\ Gain * n \in Int
  BY <1>1
<1>3. CASE new <= rep /\ m <= n
  <2>1. m * Gain <= n * Gain
    BY <1>1, <1>3, ProductMonotone
  <2>2. m * Gain = Gain * m /\ n * Gain = Gain * n
    BY <1>1
  <2>3. QED
    BY <1>1, <1>2, <1>3, <2>1, <2>2
<1>4. CASE new <= rep + Gain /\ n = m + 1
  <2>1. Gain * (m + 1) = Gain * m + Gain
    BY <1>1
  <2>2. QED
    BY <1>1, <1>2, <1>4, <2>1
<1>5. QED
  BY <1>3, <1>4, Zenon

(* A verdict that counts is of a fresh dispute of the receipt it names;    *)
(* any other is of a dispute that is stale or names another receipt.       *)
LEMMA VerdictIsFresh ==
    ASSUME Shape, last_epoch \in Int, NEW d \in disputes, NEW v,
           resolve_quorum3(last_epoch, Claim(d.task), d, v) # "indeterminate"
    PROVE  IF resolve_quorum3(last_epoch, Claim(d.task), d, v) \in {"honest", "slash"}
           THEN d.epoch > last_epoch /\ d.leaf = d.task
           ELSE d.epoch <= last_epoch \/ d.leaf # d.task
<1>1. d.epoch \in Int /\ d.family = "binary"
  BY Zenon DEF Shape, Dispute
<1>2. Claim(d.task).family = "binary" /\ Claim(d.task).leaf = d.task
  BY Zenon DEF Claim
<1>3. QED
  BY <1>1, <1>2 DEF resolve_quorum3, resolve_full, resolve_bound, dispute_is_fresh

(* The reputation after a verdict. *)
LEMMA RepAfter ==
    ASSUME NEW rep \in Int, rep >= 0, NEW outcome
    PROVE  /\ rep_after_resolution(rep, outcome, Gain) \in Int
           /\ rep_after_resolution(rep, outcome, Gain) >= 0
           /\ rep_after_resolution(rep, outcome, Gain) <= rep + Gain
           /\ outcome # "honest" => rep_after_resolution(rep, outcome, Gain) <= rep
<1>1. Gain \in Nat
  BY ConstantTypes, Zenon
<1>2. QED
  BY <1>1 DEF rep_after_resolution, rep_after_slash, rep_after_honest, smaller, REP_MAX

(* Every action keeps VerdictInv. *)
LEMMA VerdictStep ==
    ASSUME Shape, VerdictInv, [Next]_vars
    PROVE  VerdictInv'
<1>b. account \in [Executor -> Account]
  BY Zenon DEF Shape
<1>a. \A e \in Executor : /\ account[e] \in Account
                          /\ account[e].rep \in Int
  BY <1>b, Zenon DEF Account
<1>c. IsFiniteSet(disputes) /\ \A e \in Executor : Cardinality(Closed(e)) \in Nat
  <2>1. IsFiniteSet(disputes)
    BY Zenon DEF VerdictInv
  <2>2. \A e \in Executor : IsFiniteSet(Closed(e))
    BY <2>1, FS_Subset, Zenon DEF Closed
  <2>3. QED
    BY <2>1, <2>2, FS_CardinalityType, Zenon
<1>1. ASSUME UNCHANGED <<disputes, asked, last_epoch>>,
             \A e \in Executor : account'[e].rep = account[e].rep
      PROVE  VerdictInv'
  <2>1. \A e \in Executor : Closed(e)' = Closed(e)
    BY <1>1, Zenon DEF Closed
  <2>2. QED
    BY <1>1, <2>1, Zenon DEF VerdictInv
<1>2. ASSUME NEW e \in Executor, post_bond(e) \/ release_bond(e) PROVE VerdictInv'
  <2>1. UNCHANGED <<disputes, asked, last_epoch>>
    BY <1>2, Zenon DEF post_bond, release_bond
  <2>2. PICK balance, locked : account' = [account EXCEPT ![e] =
            [account[e] EXCEPT !.balance = balance, !.locked = locked]]
    BY <1>2, Zenon DEF post_bond, release_bond
  <2>3. \A x \in Executor : account'[x].rep = account[x].rep
    BY <1>a, <1>b, <2>2, Zenon DEF Account
  <2>4. QED
    BY <1>1, <2>1, <2>3, Zenon
<1>3. ASSUME NEW r \in results, settle(r) PROVE VerdictInv'
  <2>1. UNCHANGED <<disputes, asked, last_epoch>>
    BY <1>3, Zenon DEF settle
  <2>2. asked[r.task] \in Executor
    BY <1>3, SettleIsAuthentic, Zenon DEF Shape
  <2>e. PICK e \in Executor : e = asked[r.task]
    BY <2>2, Zenon
  <2>3. PICK pending, outstanding : account' = [account EXCEPT ![e] =
            [account[e] EXCEPT !.pending = pending, !.outstanding = outstanding]]
    BY <1>3, <2>e, Zenon DEF settle
  <2>4. \A x \in Executor : account'[x].rep = account[x].rep
    BY <1>a, <1>b, <2>3, Zenon DEF Account
  <2>5. QED
    BY <1>1, <2>1, <2>4, Zenon
<1>4. ASSUME NEW t \in Task, finalize(t) PROVE VerdictInv'
  <2>1. UNCHANGED <<disputes, asked, last_epoch>>
    BY <1>4, Zenon DEF finalize
  <2>2. asked[t] \in Executor
    BY <1>4, Zenon DEF finalize, Shape
  <2>e. PICK e \in Executor : e = asked[t]
    BY <2>2, Zenon
  <2>3. PICK balance, pending, outstanding : account' = [account EXCEPT ![e] =
            [account[e] EXCEPT !.balance = balance, !.pending = pending,
                               !.outstanding = outstanding]]
    BY <1>4, <2>e, Zenon DEF finalize
  <2>4. \A x \in Executor : account'[x].rep = account[x].rep
    BY <1>a, <1>b, <2>3, Zenon DEF Account
  <2>5. QED
    BY <1>1, <2>1, <2>4, Zenon
<1>5. ASSUME NEW t \in Task, NEW e \in Executor, assign(t, e) PROVE VerdictInv'
  <2>1. UNCHANGED <<disputes, account, last_epoch>> /\ asked[t] = None
    BY <1>5, Zenon DEF assign
  <2>2. \A u \in Task : u # t => asked'[u] = asked[u]
    BY <1>5, Zenon DEF assign, Shape
  <2>3. \A d \in disputes : asked'[d.task] = asked[d.task]
    <3>1. \A d \in disputes : d.task \in Task /\ asked[d.task] # None
      BY ComputeAssumption, Zenon DEF Shape, Dispute, VerdictInv
    <3>2. QED
      BY <2>1, <2>2, <3>1, Zenon
  <2>4. \A x \in Executor : Closed(x)' = Closed(x)
    BY <2>1, <2>3, Zenon DEF Closed
  <2>5. QED
    BY <2>1, <2>3, <2>4, Zenon DEF VerdictInv
<1>6. ASSUME NEW t \in Task, NEW leaf \in Task \cup {0}, open_dispute(t, leaf)
      PROVE  VerdictInv'
  <2> DEFINE new == [task |-> t, epoch |-> now, family |-> "binary", leaf |-> leaf,
                     open |-> TRUE]
  <2>1. /\ disputes' = disputes \cup {new}
        /\ receipt[t].state = "escrow"
        /\ \A d \in disputes : d.task = t => d.epoch < now
        /\ UNCHANGED <<account, asked, last_epoch>>
    BY <1>6, Zenon DEF open_dispute
  <2>2. new.task = t /\ new.epoch = now /\ new.open = TRUE
    BY Zenon
  <2> HIDE DEF new
  <2>3. asked[t] \in Executor /\ now \in Int
    BY <2>1, Zenon DEF Shape
  <2>4. \A d \in disputes : d.epoch \in Int
    BY Zenon DEF Shape, Dispute
  <2>5. \A d \in disputes : d.task = t => d.epoch # now
    BY <2>1, <2>3, <2>4
  <2>6. IsFiniteSet(disputes')
    BY <1>c, <2>1, FS_AddElement, Zenon
  <2>7. \A x \in Executor : Closed(x)' = Closed(x)
    BY <2>1, <2>2, Zenon DEF Closed
  <2>8. \A c, d \in disputes' : c.task = d.task /\ c.epoch = d.epoch => c = d
    BY <2>1, <2>2, <2>5 DEF VerdictInv
  <2>9. /\ \A d \in disputes' : asked[d.task] \in Executor
        /\ \A d \in disputes' : d.open \/ d.epoch <= last_epoch \/ d.leaf # d.task
    BY <2>1, <2>2, <2>3, Zenon DEF VerdictInv
  <2>10. QED
    BY <2>1, <2>6, <2>7, <2>8, <2>9, Zenon DEF VerdictInv
<1>7. ASSUME NEW d \in disputes, NEW v \in Votes, NEW missed \in BOOLEAN,
             resolve(d, v, missed)
      PROVE  VerdictInv'
  <2>1. asked[d.task] \in Executor /\ d \in Dispute
    BY Zenon DEF Shape, VerdictInv
  <2>e. PICK e \in Executor : e = asked[d.task]
    BY <2>1, Zenon
  <2>o. PICK outcome : outcome = resolve_quorum3(last_epoch, Claim(d.task), d, v)
    BY Zenon
  <2>k. PICK k : k = [d EXCEPT !.open = FALSE]
    BY Zenon
  <2>f. /\ k.task = d.task /\ k.epoch = d.epoch /\ k.leaf = d.leaf /\ k.open = FALSE
        /\ d.open = FALSE => k = d
    BY <2>1, <2>k, Zenon DEF Dispute
  <2>2. /\ disputes' = (disputes \ {d}) \cup {k}
        /\ last_epoch' = resolver_epoch_after(last_epoch, d.epoch, outcome)
        /\ outcome # "indeterminate"
        /\ UNCHANGED asked
    BY <1>7, <2>o, <2>k, Zenon DEF resolve
  <2>3. PICK clawback : account' = [account EXCEPT ![e] = Judged(account[e], outcome, clawback)]
    BY <1>7, <2>e, <2>o, Zenon DEF resolve
  <2>4. /\ account'[e].rep = rep_after_resolution(account[e].rep, outcome, Gain)
        /\ \A x \in Executor : x # e => account'[x] = account[x]
    BY <1>a, <1>b, <2>3, Zenon DEF Judged, Account
  <2>5. last_epoch \in Int /\ d.epoch \in Int
    BY <2>1, Zenon DEF VerdictInv, Dispute
  <2>6. IF outcome \in {"honest", "slash"} THEN d.epoch > last_epoch /\ d.leaf = d.task
        ELSE d.epoch <= last_epoch \/ d.leaf # d.task
    BY <2>o, <2>2, <2>5, VerdictIsFresh, Zenon
  <2>7. /\ last_epoch' \in Int /\ last_epoch' >= last_epoch
        /\ d.epoch <= last_epoch' \/ d.leaf # d.task
    BY <2>2, <2>5, <2>6 DEF resolver_epoch_after
  <2>8. IsFiniteSet(disputes')
    BY <1>c, <2>2, FS_RemoveElement, FS_AddElement, Zenon
  <2>9. /\ \A c \in disputes' : asked[c.task] \in Executor
        /\ \A b, c \in disputes' : b.task = c.task /\ b.epoch = c.epoch => b = c
    BY <2>2, <2>f DEF VerdictInv
  <2>10. \A c \in disputes' : c.open \/ c.epoch <= last_epoch' \/ c.leaf # c.task
    <3>1. \A c \in disputes : c.epoch \in Int
      BY Zenon DEF Shape, Dispute
    <3>2. \A c \in disputes : c.open \/ c.epoch <= last_epoch' \/ c.leaf # c.task
      BY <2>5, <2>7, <3>1 DEF VerdictInv
    <3>3. QED
      BY <2>2, <2>f, <2>7, <3>2, Zenon
  <2>11. account'[e].rep \in Int /\ account'[e].rep >= 0
    BY <1>a, <2>4, RepAfter, Zenon DEF VerdictInv
  <2>12. \A x \in Executor : account'[x].rep <= REP_INIT + Gain * Cardinality(Closed(x)')
    <3>1. Closed(e)' = Closed(e) \cup {k}
      BY <2>e, <2>f, <2>2 DEF Closed
    <3>2. \A x \in Executor : x # e => Closed(x)' = Closed(x)
      BY <2>e, <2>f, <2>2, Zenon DEF Closed
    <3>3. k \notin Closed(e) \/ d.open = FALSE
      BY <2>f, Zenon DEF Closed, VerdictInv
    <3>4. IsFiniteSet(Closed(e))
      BY <1>c, FS_Subset, Zenon DEF Closed
    <3>5. /\ Cardinality(Closed(e)') \in Nat
          /\ k \notin Closed(e) => Cardinality(Closed(e)') = Cardinality(Closed(e)) + 1
          /\ k \in Closed(e) => Cardinality(Closed(e)') = Cardinality(Closed(e))
      BY <1>c, <3>1, <3>4, FS_AddElement, FS_CardinalityType, Zenon
    <3>6. outcome = "honest" => k \notin Closed(e)
      <4>1. outcome = "honest" => d.epoch > last_epoch /\ d.leaf = d.task
        BY <2>6, Zenon
      <4>2. outcome = "honest" => d.open
        BY <2>5, <4>1 DEF VerdictInv
      <4>3. d.open => k # d
        BY <2>f, Zenon
      <4>4. k \in disputes => k = d
        BY <2>f, Zenon DEF VerdictInv
      <4>5. QED
        BY <4>2, <4>3, <4>4, Zenon DEF Closed
    <3>7. account'[e].rep <= REP_INIT + Gain * Cardinality(Closed(e)')
      <4> DEFINE m == Cardinality(Closed(e))
                 n == Cardinality(Closed(e)')
      <4>1. m \in Nat /\ n \in Nat /\ m <= n /\ (outcome = "honest" => n = m + 1)
        BY <1>c, <3>5, <3>6
      <4>2. account[e].rep <= REP_INIT + Gain * m /\ account[e].rep >= 0 /\ account[e].rep \in Int
        BY <1>a, Zenon DEF VerdictInv
      <4>3. /\ account'[e].rep <= account[e].rep + Gain
            /\ outcome # "honest" => account'[e].rep <= account[e].rep
        BY <2>4, <4>2, RepAfter, Zenon
      <4> HIDE DEF m, n
      <4>4. \/ account'[e].rep <= account[e].rep /\ m <= n
            \/ account'[e].rep <= account[e].rep + Gain /\ n = m + 1
        BY <4>1, <4>3, Zenon
      <4>5. account'[e].rep <= REP_INIT + Gain * n
        BY <2>11, <4>1, <4>2, <4>4, BoundGrows, Zenon
      <4>6. QED
        BY <4>5, Zenon DEF n
    <3>8. QED
      BY <2>4, <3>2, <3>7, Zenon DEF VerdictInv
  <2>13. QED
    BY <2>2, <2>4, <2>7, <2>8, <2>9, <2>10, <2>11, <2>12, Zenon DEF VerdictInv
<1>8. QED
  <2>1. ASSUME \/ \E t \in Task, e, x, k \in Executor, op \in {GF_MUL, GF_ADD}, result \in Result :
                      reply(t, e, x, k, op, result)
               \/ Tick \/ UNCHANGED vars
        PROVE  VerdictInv'
    BY <1>1, <2>1 DEF reply, Tick, vars
  <2>2. QED
    BY <1>2, <1>3, <1>4, <1>5, <1>6, <1>7, <2>1, Zenon DEF Next

(* However often resolved disputes arrive again, an executor's reputation  *)
(* is earned from distinct disputes only (resolver_epoch_after and the     *)
(* RESOLVE_STALE no-op).                                                   *)
THEOREM ReputationIsEarnedOnce == Spec => []VerdictAppliedOnce
<1>1. SafeInv /\ VerdictInv /\ [Next]_vars => SafeInv' /\ VerdictInv'
  BY HonestStep, EscrowStep, VerdictStep, Zenon DEF SafeInv, HonestInv
<1>2. VerdictInv => VerdictAppliedOnce
  BY Zenon DEF VerdictInv, VerdictAppliedOnce, Closed
<1>3. QED
  BY <1>1, <1>2, InitSafe, InitVerdict, PTL DEF Spec
-----------------------------------------------------------------------------
(* Conservation of value.  Amounts are counted unit by unit: clearing one  *)
(* executor's amount removes as many units as it had.                      *)

(* The units of one amount. *)
Pile(e, n) == {e} \X (1 .. n)

LEMMA UnitsOfOne ==
    ASSUME NEW e, NEW n \in Nat
    PROVE  IsFiniteSet(Pile(e, n)) /\ Cardinality(Pile(e, n)) = n
<1> DEFINE A == {e}
           B == 1 .. n
<1>1. IsFiniteSet({e}) /\ Cardinality({e}) = 1
  BY FS_Singleton, Zenon
<1>2. IsFiniteSet(1 .. n) /\ Cardinality(1 .. n) = n
  <2>1. 1 \in Int /\ n \in Int /\ (IF 1 > n THEN 0 ELSE n - 1 + 1) = n
    OBVIOUS
  <2>2. QED
    BY <2>1, FS_Interval, Zenon
<1>3. 1 * n = n
  OBVIOUS
<1> HIDE DEF A, B
<1>4. IsFiniteSet(A \X B) /\ Cardinality(A \X B) = Cardinality(A) * Cardinality(B)
  <2>1. IsFiniteSet(A) /\ IsFiniteSet(B)
    BY <1>1, <1>2, Zenon DEF A, B
  <2>2. QED
    BY <2>1, FS_Product, Zenon
<1>5. Cardinality(A) = 1 /\ Cardinality(B) = n
  BY <1>1, <1>2, Zenon DEF A, B
<1>6. IsFiniteSet(A \X B) /\ Cardinality(A \X B) = n
  BY <1>3, <1>4, <1>5, Zenon
<1>7. QED
  BY <1>6, Zenon DEF Pile, A, B

(* A unit is somebody's, and of one executor only. *)
LEMMA UnitsArePiled ==
    /\ \A w, u : u \in Units(w) <=> \E x \in Executor : u \in Pile(x, w[x])
    /\ \A x, y, m, n, u : u \in Pile(x, m) /\ u \in Pile(y, n) => x = y
    /\ \A x, u : u \notin Pile(x, 0)
<1>1. \A w, u : u \in Units(w) <=> \E x \in Executor : u \in Pile(x, w[x])
  BY Zenon DEF Units, Pile
<1>2. \A x, y, S, T, u : u \in {x} \X S /\ u \in {y} \X T => x = y
  BY Zenon
<1>3. 1 .. 0 = {}
  OBVIOUS
<1>4. \A x, u : u \notin {x} \X {}
  BY Zenon
<1>5. QED
  BY <1>1, <1>2, <1>3, <1>4, Zenon DEF Pile

(* Finitely many executors hold finitely many units. *)
LEMMA UnitsAreFinite ==
    ASSUME NEW w \in [Executor -> Nat]
    PROVE  IsFiniteSet(Units(w)) /\ Cardinality(Units(w)) \in Nat
<1> DEFINE T == {Pile(e, w[e]) : e \in Executor}
           f == [e \in Executor |-> Pile(e, w[e])]
<1>1. f \in Surjection(Executor, T)
  BY Zenon DEF Surjection
<1>2. IsFiniteSet(T)
  <2> HIDE DEF f, T
  <2>1. IsFiniteSet(Executor)
    BY ComputeAssumption, Zenon
  <2>2. QED
    BY <1>1, <2>1, FS_Surjection, Zenon
<1>3. \A U \in T : IsFiniteSet(U)
  <2> SUFFICES ASSUME NEW U \in T PROVE IsFiniteSet(U)
    BY Zenon
  <2>1. PICK e \in Executor : U = Pile(e, w[e])
    BY Zenon
  <2>2. w[e] \in Nat
    BY Zenon
  <2>3. QED
    BY <2>1, <2>2, UnitsOfOne, Zenon
<1>4. IsFiniteSet(UNION T)
  <2> HIDE DEF T
  <2>1. QED
    BY <1>2, <1>3, FS_UNION, Zenon
<1>5. QED
  <2>1. Units(w) = UNION T
    BY Zenon DEF Units, Pile
  <2>2. QED
    BY <1>4, <2>1, FS_CardinalityType, Zenon

Cleared(w, e) == [w EXCEPT ![e] = 0]

(* The units of all are those of one executor and those of the others. *)
LEMMA UnitsSplit ==
    ASSUME NEW w \in [Executor -> Nat], NEW e \in Executor
    PROVE  /\ Cardinality(Units(w)) = Cardinality(Units(Cleared(w, e))) + w[e]
           /\ Cardinality(Units(Cleared(w, e))) \in Nat
<1> DEFINE c == Cleared(w, e)
           U == Units(c)
           V == Pile(e, w[e])
<1>0. w[e] \in Nat
  BY Zenon
<1>1. c \in [Executor -> Nat] /\ c[e] = 0 /\ \A x \in Executor : x # e => c[x] = w[x]
  BY DEF Cleared
<1> HIDE DEF c
<1>2. ASSUME NEW u, u \in U PROVE u \in Units(w) /\ u \notin V
  <2>1. PICK x \in Executor : u \in Pile(x, c[x])
    BY <1>2, UnitsArePiled, Zenon
  <2>2. x # e
    BY <1>1, <2>1, UnitsArePiled, Zenon
  <2>3. u \in Pile(x, w[x])
    BY <1>1, <2>1, <2>2, Zenon
  <2>4. QED
    BY <2>2, <2>3, UnitsArePiled, Zenon
<1>3. Units(w) = U \cup V
  <2>1. ASSUME NEW u \in Units(w) PROVE u \in U \cup V
    <3>1. PICK x \in Executor : u \in Pile(x, w[x])
      BY UnitsArePiled, Zenon
    <3>2. CASE x = e
      BY <3>1, <3>2, Zenon
    <3>3. CASE x # e
      <4>1. u \in Pile(x, c[x])
        BY <1>1, <3>1, <3>3, Zenon
      <4>2. QED
        BY <4>1, UnitsArePiled, Zenon
    <3>4. QED
      BY <3>2, <3>3, Zenon
  <2>2. \A u \in V : u \in Units(w)
    BY UnitsArePiled, Zenon
  <2>3. QED
    BY <1>2, <2>1, <2>2, Zenon
<1>4. U \cap V = {}
  BY <1>2, Zenon
<1>5. IsFiniteSet(U) /\ Cardinality(U) \in Nat
  BY <1>1, UnitsAreFinite, Zenon
<1>6. IsFiniteSet(V) /\ Cardinality(V) = w[e]
  BY <1>0, UnitsOfOne, Zenon
<1>7. Cardinality(U \cup V) = Cardinality(U) + w[e] - 0
  <2> HIDE DEF U, V
  <2>1. Cardinality(U \cap V) = 0
    BY <1>4, FS_EmptySet, Zenon
  <2>2. QED
    BY <1>5, <1>6, <2>1, FS_Union, Zenon
<1>8. \A m, n \in Nat : m + n - 0 = m + n
  OBVIOUS
<1>9. QED
  BY <1>0, <1>3, <1>5, <1>7, <1>8, Zenon DEF c

(* Changing one amount changes the number of units by as much. *)
LEMMA UnitsChange ==
    ASSUME NEW w \in [Executor -> Nat], NEW v \in [Executor -> Nat], NEW e \in Executor,
           \A x \in Executor : x # e => v[x] = w[x]
    PROVE  /\ Cardinality(Units(w)) \in Nat /\ Cardinality(Units(v)) \in Nat
           /\ Cardinality(Units(v)) = Cardinality(Units(w)) - w[e] + v[e]
<1>1. Cleared(v, e) = Cleared(w, e)
  BY DEF Cleared
<1> DEFINE r == Cardinality(Units(Cleared(w, e)))
           m == Cardinality(Units(w))
           n == Cardinality(Units(v))
<1>2. r \in Nat /\ m = r + w[e] /\ n = r + v[e]
  BY <1>1, UnitsSplit, Zenon
<1>3. w[e] \in Nat /\ v[e] \in Nat
  BY Zenon
<1> HIDE DEF r, m, n
<1>4. m \in Nat /\ n \in Nat /\ n = m - w[e] + v[e]
  BY <1>2, <1>3
<1>5. QED
  BY <1>4, Zenon DEF m, n

(* Equal amounts of everybody. *)
LEMMA UnitsOfAll ==
    ASSUME NEW n \in Nat
    PROVE  Cardinality(Units([e \in Executor |-> n])) = n * Cardinality(Executor)
<1>1. Units([e \in Executor |-> n]) = Executor \X (1 .. n)
  <2> DEFINE w == [e \in Executor |-> n]
  <2>1. \A x \in Executor : w[x] = n
    BY Zenon
  <2> HIDE DEF w
  <2>2. \A u : u \in Units(w) <=> \E x \in Executor : u \in Pile(x, n)
    BY <2>1, UnitsArePiled, Zenon
  <2>3. \A S, T, u : u \in S \X T <=> \E x \in S : u \in {x} \X T
    OBVIOUS
  <2>4. \A u : u \in Units(w) <=> u \in Executor \X (1 .. n)
    BY <2>2, <2>3, Zenon DEF Pile
  <2>5. QED
    BY <2>4, Zenon DEF w
<1>2. IsFiniteSet(1 .. n) /\ Cardinality(1 .. n) = n
  <2>1. 1 \in Int /\ n \in Int /\ (IF 1 > n THEN 0 ELSE n - 1 + 1) = n
    OBVIOUS
  <2>2. QED
    BY <2>1, FS_Interval, Zenon
<1>3. IsFiniteSet(Executor) /\ Cardinality(Executor) \in Nat
  BY ComputeAssumption, FS_CardinalityType, Zenon
<1>4. Cardinality(Executor \X (1 .. n)) = Cardinality(Executor) * n
  BY <1>2, <1>3, FS_Product, Zenon
<1>5. \A m \in Nat : m * n = n * m
  OBVIOUS
<1>6. QED
  BY <1>1, <1>3, <1>4, <1>5, Zenon
OpenDisputes == {d \in disputes : d.open}
Paid == {t \in Task : receipt[t].state = "final" /\ ~receipt[t].slashed}
Wealth == Cardinality(Units(Held))
Rest == purse + burnt

(* What makes ValueConserved inductive: no amount is negative, so that no  *)
(* account can exceed what all of them hold.                               *)
Funded ==
    /\ \A e \in Executor : account[e].balance \in Nat /\ account[e].locked \in Nat
    /\ purse \in Nat /\ burnt \in Nat

(* All the value there can ever be. *)
Supply == Start * Cardinality(Executor) + MaxDisputes * Stake + Reward * MaxTask

(* The books of h units held, r in other hands, o open disputes, p paid tasks. *)
Balanced(h, r, o, p) ==
    h + r + Stake * o = Start * Cardinality(Executor) + MaxDisputes * Stake + 16 * p

ValueInv == Funded /\ Balanced(Wealth, Rest, Cardinality(OpenDisputes), Cardinality(Paid))

(* The counts are naturals. *)
Counted ==
    /\ Held \in [Executor -> Nat] /\ Wealth \in Nat /\ Rest \in Nat
    /\ IsFiniteSet(OpenDisputes) /\ Cardinality(OpenDisputes) \in Nat
    /\ IsFiniteSet(Paid) /\ Cardinality(Paid) \in Nat /\ Cardinality(Paid) <= MaxTask

LEMMA Counts == Funded /\ IsFiniteSet(disputes) => Counted
<1> SUFFICES ASSUME Funded, IsFiniteSet(disputes) PROVE Counted
  BY Zenon
<1>1. Held \in [Executor -> Nat]
  <2>1. \A e \in Executor : account[e].balance + account[e].locked \in Nat
    BY DEF Funded
  <2>2. QED
    BY <2>1, Zenon DEF Held
<1>2. Wealth \in Nat
  BY <1>1, UnitsAreFinite, Zenon DEF Wealth
<1>3. Rest \in Nat
  BY DEF Rest, Funded
<1>4. OpenDisputes \in SUBSET disputes
  BY Zenon DEF OpenDisputes
<1>5. IsFiniteSet(OpenDisputes) /\ Cardinality(OpenDisputes) \in Nat
  BY <1>4, FS_Subset, FS_CardinalityType, Zenon
<1>6. IsFiniteSet(Task) /\ Cardinality(Task) = MaxTask
  <2>1. MaxTask \in Nat
    BY ComputeAssumption, Zenon
  <2>2. 1 \in Int /\ MaxTask \in Int
        /\ (IF 1 > MaxTask THEN 0 ELSE MaxTask - 1 + 1) = MaxTask
    BY <2>1
  <2>3. QED
    BY <2>2, FS_Interval, Zenon DEF Task
<1>7. Paid \in SUBSET Task
  BY Zenon DEF Paid
<1>8. IsFiniteSet(Paid) /\ Cardinality(Paid) <= MaxTask
  BY <1>6, <1>7, FS_Subset, Zenon
<1>9. Cardinality(Paid) \in Nat
  BY <1>8, FS_CardinalityType, Zenon
<1>10. QED
  BY <1>1, <1>2, <1>3, <1>5, <1>8, <1>9, Zenon DEF Counted

(* What a step may do to the books. *)
Booked(h, r, o, p, i, s, q, n) ==
    \/ i + s = h + r /\ q = o /\ n = p
    \/ i + s = h + r - Stake /\ q = o + 1 /\ n = p
    \/ i + s = h + r + Stake /\ o = q + 1 /\ n = p
    \/ i + s = h + r + 16 /\ q = o /\ n = p + 1

Naturals4(a, b, c, d) == a \in Nat /\ b \in Nat /\ c \in Nat /\ d \in Nat

LEMMA BooksStayBalanced ==
    ASSUME NEW h, NEW r, NEW o, NEW p, NEW i, NEW s, NEW q, NEW n,
           Naturals4(h, r, o, p), Naturals4(i, s, q, n),
           Balanced(h, r, o, p), Booked(h, r, o, p, i, s, q, n)
    PROVE  Balanced(i, s, q, n)
<1>0. /\ h \in Nat /\ r \in Nat /\ o \in Nat /\ p \in Nat
      /\ i \in Nat /\ s \in Nat /\ q \in Nat /\ n \in Nat
  BY Zenon DEF Naturals4
<1> USE <1>0
<1>1. Stake \in Nat /\ Start \in Nat /\ MaxDisputes \in Nat
  BY ComputeAssumption, Zenon
<1>2. Cardinality(Executor) \in Nat
  BY ComputeAssumption, FS_CardinalityType, Zenon
<1> DEFINE all == Start * Cardinality(Executor) + MaxDisputes * Stake
<1>3. all \in Int
  BY <1>1, <1>2
<1>4. \A x \in Nat : Stake * x \in Int /\ Stake * (x + 1) = Stake * x + Stake
  BY <1>1
<1>5. h + r + Stake * o = all + 16 * p
  BY Zenon DEF Balanced
<1> HIDE DEF all
<1>6. i + s + Stake * q = all + 16 * n
  <2>1. CASE q = o
    BY <2>1, <1>1, <1>3, <1>4, <1>5 DEF Booked
  <2>2. CASE q = o + 1
    <3>1. Stake * q = Stake * o + Stake /\ Stake * o \in Int
      BY <2>2, <1>4, Zenon
    <3>2. i + s = h + r - Stake /\ n = p
      BY <2>2 DEF Booked
    <3>3. QED
      BY <3>1, <3>2, <1>1, <1>3, <1>5
  <2>3. CASE o = q + 1
    <3>1. Stake * o = Stake * q + Stake /\ Stake * q \in Int
      BY <2>3, <1>4, Zenon
    <3>2. i + s = h + r + Stake /\ n = p
      BY <2>3 DEF Booked
    <3>3. QED
      BY <3>1, <3>2, <1>1, <1>3, <1>5
  <2>4. QED
    BY <2>1, <2>2, <2>3, Zenon DEF Booked
<1>7. QED
  BY <1>6, Zenon DEF Balanced, all

(* The same of an account that changed alone. *)
LEMMA WealthStep ==
    ASSUME Counted, Counted', NEW e \in Executor,
           \A x \in Executor : x # e => account'[x] = account[x]
    PROVE  Wealth' = Wealth - Held[e] + Held'[e]
<1>1. Held \in [Executor -> Nat] /\ Held' \in [Executor -> Nat]
  BY Zenon DEF Counted
<1>2. \A x \in Executor : x # e => Held'[x] = Held[x]
  BY Zenon DEF Held
<1>3. Wealth' = Cardinality(Units(Held'))
  BY Zenon DEF Wealth, Units
<1>4. QED
  BY <1>1, <1>2, <1>3, UnitsChange, Zenon DEF Wealth

(* A step that books what it does keeps ValueInv. *)
LEMMA BookedStep ==
    ASSUME ValueInv, Funded', IsFiniteSet(disputes), IsFiniteSet(disputes'),
           Booked(Wealth, Rest, Cardinality(OpenDisputes), Cardinality(Paid),
                  Wealth', Rest', Cardinality(OpenDisputes)', Cardinality(Paid)')
    PROVE  ValueInv'
<1>1. Counted
  BY Counts, Zenon DEF ValueInv
<1>2. Counted'
  <2>1. (Funded /\ IsFiniteSet(disputes) => Counted)'
    BY Counts, PTL
  <2>2. QED
    BY <2>1, Zenon
<1>3. Balanced(Wealth', Rest', Cardinality(OpenDisputes)', Cardinality(Paid)')
  <2>1. /\ Naturals4(Wealth, Rest, Cardinality(OpenDisputes), Cardinality(Paid))
        /\ Naturals4(Wealth', Rest', Cardinality(OpenDisputes)', Cardinality(Paid)')
    BY <1>1, <1>2, Zenon DEF Counted, Naturals4
  <2>2. Balanced(Wealth, Rest, Cardinality(OpenDisputes), Cardinality(Paid))
    BY Zenon DEF ValueInv
  <2>3. QED
    BY <2>1, <2>2, BooksStayBalanced, Zenon
<1>4. QED
  BY <1>3, Zenon DEF ValueInv, Balanced

(* ValueInv implies ValueConserved. *)
LEMMA ValueInvConserves == ValueInv /\ IsFiniteSet(disputes) => ValueConserved
<1> SUFFICES ASSUME ValueInv, IsFiniteSet(disputes) PROVE ValueConserved
  BY Zenon
<1>1. Wealth \in Nat /\ purse \in Nat /\ burnt \in Nat
  BY Counts, Zenon DEF ValueInv, Counted, Funded
<1>2. Wealth + Rest = Wealth + purse + burnt
  BY <1>1 DEF Rest
<1>3. Reward = 16
  BY ConstantTypes, Zenon
<1>4. QED
  BY <1>2, <1>3, Zenon DEF ValueInv, Balanced, Wealth, OpenDisputes, Paid, ValueConserved

(* It holds initially. *)
LEMMA InitValue == Init => ValueInv
<1> SUFFICES ASSUME Init PROVE ValueInv
  BY Zenon
<1>0. Start \in Nat /\ Stake \in Nat /\ MaxDisputes \in Nat
  BY ComputeAssumption, Zenon
<1>1. \A e \in Executor : account[e].balance = Start /\ account[e].locked = 0
  BY Zenon DEF Init
<1>2. purse = MaxDisputes * Stake /\ burnt = 0
  BY Zenon DEF Init
<1>3. Funded
  BY <1>0, <1>1, <1>2 DEF Funded
<1>4. Wealth = Start * Cardinality(Executor)
  <2>1. Start + 0 = Start
    BY <1>0
  <2>2. Held = [e \in Executor |-> Start]
    BY <1>1, <2>1, Zenon DEF Held
  <2>3. QED
    BY <1>0, <2>2, UnitsOfAll, Zenon DEF Wealth
<1>5. OpenDisputes = {} /\ Paid = {}
  <2>1. \A t \in Task : receipt[t].state = "none"
    BY Zenon DEF Init, Unsettled
  <2>2. QED
    BY <2>1, Zenon DEF Init, OpenDisputes, Paid
<1>6. Cardinality(OpenDisputes) = 0 /\ Cardinality(Paid) = 0
  BY <1>5, FS_EmptySet, Zenon
<1>7. Start * Cardinality(Executor) + Rest + Stake * 0
          = Start * Cardinality(Executor) + MaxDisputes * Stake + 16 * 0
  <2>1. Cardinality(Executor) \in Nat
    BY ComputeAssumption, FS_CardinalityType, Zenon
  <2>2. QED
    BY <1>0, <1>2, <2>1 DEF Rest
<1>8. QED
  BY <1>3, <1>4, <1>6, <1>7, Zenon DEF ValueInv, Balanced
(* Steps that leave the books alone. *)
SameBooks ==
    /\ \A e \in Executor : Held'[e] = Held[e]
    /\ Rest' = Rest
    /\ OpenDisputes' = OpenDisputes
    /\ Paid' = Paid

LEMMA SameBooksStep ==
    ASSUME ValueInv, Funded', IsFiniteSet(disputes), IsFiniteSet(disputes'), SameBooks
    PROVE  ValueInv'
<1>1. Held' = Held
  BY Zenon DEF SameBooks, Held
<1>2. Wealth' = Wealth
  <2>1. Wealth' = Cardinality(Units(Held'))
    BY Zenon DEF Wealth, Units
  <2>2. QED
    BY <1>1, <2>1, Zenon DEF Wealth
<1>3. /\ Rest' = Rest
      /\ Cardinality(OpenDisputes)' = Cardinality(OpenDisputes)
      /\ Cardinality(Paid)' = Cardinality(Paid)
  BY Zenon DEF SameBooks
<1>4. Booked(Wealth, Rest, Cardinality(OpenDisputes), Cardinality(Paid),
             Wealth', Rest', Cardinality(OpenDisputes)', Cardinality(Paid)')
  BY <1>2, <1>3, Zenon DEF Booked
<1>5. QED
  BY <1>4, BookedStep, Zenon

(* Bonds are locked and released within an account. *)
LEMMA BondKeepsBooks ==
    ASSUME Shape, ValueInv, NEW e \in Executor, post_bond(e) \/ release_bond(e)
    PROVE  Funded' /\ SameBooks
<1>1. account[e].balance \in Nat /\ account[e].locked \in Nat /\ account[e] \in Account
  BY Zenon DEF ValueInv, Funded, Shape
<1>2. PICK b \in Nat, l \in Nat :
          /\ b + l = account[e].balance + account[e].locked
          /\ account' = [account EXCEPT ![e] = [account[e] EXCEPT !.balance = b, !.locked = l]]
  <2>1. CASE post_bond(e)
    <3>1. Bond \in Nat /\ Bond <= account[e].balance
      BY <2>1, ConstantTypes, Zenon DEF post_bond
    <3> DEFINE b == bal_after_lock(account[e].balance, Bond)
               l == locked_after_lock(account[e].balance, account[e].locked, Bond)
    <3>2. b \in Nat /\ l \in Nat /\ b + l = account[e].balance + account[e].locked
      BY <1>1, <3>1 DEF bal_after_lock, locked_after_lock
    <3>3. account' = [account EXCEPT ![e] = [account[e] EXCEPT !.balance = b, !.locked = l]]
      BY <2>1, Zenon DEF post_bond
    <3> HIDE DEF b, l
    <3>4. QED
      BY <3>2, <3>3, Zenon
  <2>2. CASE release_bond(e)
    <3> DEFINE b == bal_after_release(account[e].balance, account[e].locked)
    <3>1. b \in Nat /\ 0 \in Nat /\ b + 0 = account[e].balance + account[e].locked
      BY <1>1 DEF bal_after_release
    <3>2. account' = [account EXCEPT ![e] = [account[e] EXCEPT !.balance = b, !.locked = 0]]
      BY <2>2, Zenon DEF release_bond
    <3> HIDE DEF b
    <3>3. QED
      BY <3>1, <3>2, Zenon
  <2>3. QED
    BY <2>1, <2>2, Zenon
<1>3. account'[e].balance = b /\ account'[e].locked = l
  BY <1>1, <1>2, Zenon DEF Shape, Account
<1>4. \A x \in Executor : x # e => account'[x] = account[x]
  BY <1>2, Zenon DEF Shape
<1>5. UNCHANGED <<purse, burnt, disputes, receipt>>
  BY Zenon DEF post_bond, release_bond
<1>6. Funded'
  BY <1>3, <1>4, <1>5, Zenon DEF ValueInv, Funded
<1>7. \A x \in Executor : Held'[x] = Held[x]
  <2>1. Held'[e] = Held[e]
    BY <1>2, <1>3, Zenon DEF Held
  <2>2. \A x \in Executor : x # e => Held'[x] = Held[x]
    BY <1>4, Zenon DEF Held
  <2>3. QED
    BY <2>1, <2>2, Zenon
<1>8. QED
  BY <1>5, <1>6, <1>7, Zenon DEF SameBooks, Rest, OpenDisputes, Paid

(* A settlement only moves the escrow, of a receipt that was not paid. *)
LEMMA SettleKeepsBooks ==
    ASSUME Shape, ValueInv, NEW r \in results, settle(r)
    PROVE  Funded' /\ SameBooks
<1> DEFINE e == asked[r.task]
<1>1. e \in Executor /\ r.task \in Task
  BY SettleIsAuthentic, Zenon DEF Shape
<1>2. PICK p, o : account' = [account EXCEPT ![e] = [account[e] EXCEPT !.pending = p,
                                                                     !.outstanding = o]]
  BY Zenon DEF settle
<1>3. UNCHANGED <<purse, burnt, disputes>>
  BY Zenon DEF settle
<1>4. receipt[r.task].state = "none"
  <2>1. \A sig_ok, fresh, payable :
            ~(settle_canonical(0, skill_width(Skill), sig_ok, fresh, TRUE, payable) > 0)
    <3>1. \A sig_ok, fresh, payable :
              compute_reward(skill_width(Skill), sig_ok /\ ~TRUE /\ fresh /\ payable) = 0
      BY Zenon DEF compute_reward
    <3>2. bal_add_sat(0, 0) = 0
      BY ConstantTypes DEF bal_add_sat, wrapping_add
    <3>3. QED
      BY <3>1, <3>2 DEF settle_canonical
  <2>2. QED
    BY <2>1, Zenon DEF settle
<1>5. /\ receipt'[r.task].state = "escrow"
      /\ \A t \in Task : t # r.task => receipt'[t] = receipt[t]
  BY <1>1, Zenon DEF settle, Shape
<1>6. Paid' = Paid
  BY <1>4, <1>5, Zenon DEF Paid
<1> HIDE DEF e
<1>7. /\ \A x \in Executor : x # e => account'[x] = account[x]
      /\ account'[e].balance = account[e].balance /\ account'[e].locked = account[e].locked
  BY <1>1, <1>2, Zenon DEF Shape, Account
<1>8. \A x \in Executor : /\ account'[x].balance = account[x].balance
                          /\ account'[x].locked = account[x].locked
  BY <1>7, Zenon
<1>9. QED
  BY <1>3, <1>6, <1>8, Zenon DEF ValueInv, Funded, SameBooks, Held, Rest, OpenDisputes

(* Opening a dispute moves a stake from the purse to the open disputes. *)
LEMMA OpenIsBooked ==
    ASSUME Shape, ValueInv, IsFiniteSet(disputes), IsFiniteSet(disputes'),
           NEW t \in Task, NEW leaf, open_dispute(t, leaf)
    PROVE  ValueInv'
<1> DEFINE new == [task |-> t, epoch |-> now, family |-> "binary", leaf |-> leaf, open |-> TRUE]
<1>1. /\ disputes' = disputes \cup {new} /\ purse' = purse - Stake /\ purse >= Stake
      /\ \A d \in disputes : d.task = t => d.epoch < now
      /\ UNCHANGED <<account, receipt, burnt>>
  BY Zenon DEF open_dispute
<1>2. new.task = t /\ new.epoch = now /\ new.open
  BY Zenon
<1> HIDE DEF new
<1>3. new \notin disputes
  <2>1. ~(now < now)
    BY DEF Shape
  <2>2. QED
    BY <1>1, <1>2, <2>1, Zenon
<1>4. Stake \in Nat /\ purse \in Nat /\ burnt \in Nat
  BY ComputeAssumption, Zenon DEF ValueInv, Funded
<1>5. purse' \in Nat /\ Rest' = Rest - Stake
  BY <1>1, <1>4 DEF Rest
<1>6. Funded'
  BY <1>1, <1>5, Zenon DEF ValueInv, Funded
<1>7. Wealth' = Wealth /\ Paid' = Paid
  BY <1>1, Zenon DEF Wealth, Units, Held, Paid
<1>8. Cardinality(OpenDisputes)' = Cardinality(OpenDisputes) + 1
  <2>1. OpenDisputes' = OpenDisputes \cup {new} /\ new \notin OpenDisputes
    BY <1>1, <1>2, <1>3, Zenon DEF OpenDisputes
  <2>2. IsFiniteSet(OpenDisputes)
    BY Counts, Zenon DEF ValueInv, Counted
  <2>3. Cardinality(OpenDisputes \cup {new}) = Cardinality(OpenDisputes) + 1
    BY <2>1, <2>2, FS_AddElement, Zenon
  <2>4. QED
    BY <2>1, <2>3, Zenon
<1>9. Wealth \in Nat /\ Rest \in Nat
  BY Counts, Zenon DEF ValueInv, Counted
<1>10. Wealth' + Rest' = Wealth + Rest - Stake
  BY <1>4, <1>5, <1>7, <1>9
<1>11. Cardinality(Paid)' = Cardinality(Paid)
  BY <1>7, Zenon
<1>12. Booked(Wealth, Rest, Cardinality(OpenDisputes), Cardinality(Paid),
              Wealth', Rest', Cardinality(OpenDisputes)', Cardinality(Paid)')
  BY <1>8, <1>10, <1>11, Zenon DEF Booked
<1>13. QED
  BY <1>6, <1>12, BookedStep, Zenon

(* A verdict gives a lost bond to the challenger, and a stake back or away. *)
LEMMA ResolveIsBooked ==
    ASSUME Shape, ValueInv, IsFiniteSet(disputes), IsFiniteSet(disputes'),
           NEW d \in disputes, NEW v, NEW missed, resolve(d, v, missed)
    PROVE  ValueInv'
<1> DEFINE t == d.task
           e == asked[t]
           x == account[e]
           outcome == resolve_quorum3(last_epoch, Claim(t), d, v)
           stake == IF d.open THEN Stake ELSE 0
           kept == challenger_stake_after_bound(stake, outcome)
           clawback == outcome = "slash" /\ ~missed
           won == challenger_reward(x.locked, outcome)
<1>1. t \in Task /\ receipt[t].state = "escrow" /\ e \in Executor /\ d \in Dispute
  BY Zenon DEF resolve, Shape, Dispute
<1>2. x \in Account /\ x.balance \in Nat /\ x.locked \in Nat /\ purse \in Nat /\ burnt \in Nat
  BY <1>1, Zenon DEF Shape, ValueInv, Funded
<1>3. /\ account' = [account EXCEPT ![e] = Judged(x, outcome, clawback)]
      /\ receipt' = [receipt EXCEPT ![t] = Ruled(receipt[t], outcome, clawback)]
      /\ purse' = purse + kept + won
      /\ burnt' = burnt + stake - kept
      /\ disputes' = (disputes \ {d}) \cup {[d EXCEPT !.open = FALSE]}
  BY Zenon DEF resolve
<1>4. Stake \in Nat /\ stake \in Nat /\ kept \in {0, stake}
  <2>1. Stake \in Nat /\ 0 \in Nat
    BY ComputeAssumption, Zenon
  <2>2. QED
    BY <2>1, Zenon DEF challenger_stake_after_bound
<1>5. won \in Nat /\ executor_bond_after(x.locked, outcome) \in Nat
      /\ executor_bond_after(x.locked, outcome) = x.locked - won
  BY <1>2 DEF challenger_reward, executor_bond_after
<1>6. Paid' = Paid
  <2>1. Ruled(receipt[t], outcome, clawback).state # "final"
    BY <1>1, Zenon DEF Ruled, Shape, Receipt
  <2>2. /\ receipt'[t].state # "final"
        /\ \A u \in Task : u # t => receipt'[u] = receipt[u]
    BY <1>1, <1>3, <2>1, Zenon DEF Shape
  <2>3. QED
    BY <1>1, <2>2, Zenon DEF Paid
<1>7. /\ Judged(x, outcome, clawback).balance = x.balance
      /\ Judged(x, outcome, clawback).locked = executor_bond_after(x.locked, outcome)
  <2> HIDE DEF x, outcome, clawback
  <2>1. QED
    BY <1>2, Zenon DEF Judged, Account
<1>8. /\ account'[e].balance = x.balance /\ account'[e].locked = x.locked - won
      /\ \A y \in Executor : y # e => account'[y] = account[y]
  BY <1>1, <1>3, <1>5, <1>7, Zenon DEF Shape
<1>9. OpenDisputes' = OpenDisputes \ {d}
  <2>1. ~[d EXCEPT !.open = FALSE].open
    BY <1>1, Zenon DEF Dispute
  <2>2. QED
    BY <1>3, <2>1, Zenon DEF OpenDisputes
<1> HIDE DEF stake, kept, won, x, e, t
<1>10. purse' \in Nat /\ burnt' \in Nat /\ Rest' = Rest + won + stake
  BY <1>2, <1>3, <1>4, <1>5 DEF Rest
<1>11. Funded'
  <2>1. account'[e].locked \in Nat /\ account'[e].balance \in Nat
    BY <1>2, <1>5, <1>8, Zenon
  <2>2. QED
    BY <1>8, <1>10, <2>1, Zenon DEF ValueInv, Funded
<1>12. Counted /\ Counted'
  <2>1. (Funded /\ IsFiniteSet(disputes) => Counted)'
    BY Counts, PTL
  <2>2. QED
    BY <1>11, <2>1, Counts, Zenon DEF ValueInv
<1>13. Wealth' = Wealth - won
  <2>1. Wealth' = Wealth - Held[e] + Held'[e]
    BY <1>1, <1>8, <1>12, WealthStep, Zenon
  <2>2. Held[e] = x.balance + x.locked /\ Held'[e] = x.balance + (x.locked - won)
    BY <1>1, <1>8, Zenon DEF Held, x
  <2>3. Wealth \in Nat
    BY <1>12, Zenon DEF Counted
  <2>4. QED
    BY <1>2, <1>5, <2>1, <2>2, <2>3
<1>14. Wealth' + Rest' = Wealth + Rest + stake
  <2>1. Wealth \in Nat /\ Rest \in Nat
    BY <1>12, Zenon DEF Counted
  <2>2. QED
    BY <1>4, <1>5, <1>10, <1>13, <2>1
<1>15. Cardinality(Paid)' = Cardinality(Paid)
  BY <1>6, Zenon
<1>16. Booked(Wealth, Rest, Cardinality(OpenDisputes), Cardinality(Paid),
              Wealth', Rest', Cardinality(OpenDisputes)', Cardinality(Paid)')
  <2>0. IsFiniteSet(OpenDisputes) /\ Cardinality(OpenDisputes) \in Nat
        /\ Wealth \in Nat /\ Rest \in Nat
    BY <1>12, Zenon DEF Counted
  <2>1. CASE d.open
    <3>1. stake = Stake /\ d \in OpenDisputes
      BY <2>1, Zenon DEF stake, OpenDisputes
    <3>2. Cardinality(OpenDisputes \ {d}) = Cardinality(OpenDisputes) - 1
      BY <2>0, <3>1, FS_RemoveElement, Zenon
    <3>3. Cardinality(OpenDisputes) = Cardinality(OpenDisputes \ {d}) + 1
      BY <2>0, <3>2
    <3>4. QED
      BY <1>9, <1>14, <1>15, <3>1, <3>3, Zenon DEF Booked
  <2>2. CASE ~d.open
    <3>1. stake = 0 /\ OpenDisputes \ {d} = OpenDisputes
      BY <2>2, Zenon DEF stake, OpenDisputes
    <3>2. Wealth + Rest + 0 = Wealth + Rest
      BY <2>0
    <3>3. QED
      BY <1>9, <1>14, <1>15, <3>1, <3>2, Zenon DEF Booked
  <2>3. QED
    BY <2>1, <2>2, Zenon
<1>17. QED
  BY <1>11, <1>16, BookedStep, Zenon

(* What an account holds never exceeds the supply less the rewards still   *)
(* to be paid, so paying one does not saturate.                            *)
LEMMA RoomForReward ==
    ASSUME ValueInv, IsFiniteSet(disputes), Supply <= MaxU32, NEW e \in Executor,
           NEW t \in Task, t \notin Paid
    PROVE  account[e].balance + 16 <= MaxU32
<1>1. Counted
  BY Counts, Zenon DEF ValueInv
<1>2. /\ Start \in Nat /\ Stake \in Nat /\ MaxDisputes \in Nat /\ MaxTask \in Nat
      /\ MaxU32 \in Nat /\ Reward = 16 /\ Cardinality(Executor) \in Nat
  BY ComputeAssumption, ConstantTypes, FS_CardinalityType, Zenon
<1> DEFINE all == Start * Cardinality(Executor) + MaxDisputes * Stake
           locked_up == Stake * Cardinality(OpenDisputes)
           p == Cardinality(Paid)
<1>3. all \in Nat /\ Supply = all + 16 * MaxTask
  BY <1>2 DEF Supply
<1>4. locked_up \in Nat
  <2>1. Cardinality(OpenDisputes) \in Nat
    BY <1>1, Zenon DEF Counted
  <2>2. \A a, b \in Nat : a * b \in Nat
    OBVIOUS
  <2>3. QED
    BY <1>2, <2>1, <2>2, Zenon
<1>5. Wealth + Rest + locked_up = all + 16 * p
  BY Zenon DEF ValueInv, Balanced
<1>6. p + 1 <= MaxTask /\ p \in Nat
  <2>1. Paid \cup {t} \in SUBSET Task /\ IsFiniteSet(Paid)
    BY <1>1, Zenon DEF Paid, Counted
  <2>2. Cardinality(Paid \cup {t}) = p + 1
    BY <2>1, FS_AddElement, Zenon
  <2>3. IsFiniteSet(Task) /\ Cardinality(Task) = MaxTask
    <3>1. 1 \in Int /\ MaxTask \in Int
          /\ (IF 1 > MaxTask THEN 0 ELSE MaxTask - 1 + 1) = MaxTask
      BY <1>2
    <3>2. QED
      BY <3>1, FS_Interval, Zenon DEF Task
  <2>4. Cardinality(Paid \cup {t}) <= Cardinality(Task)
    BY <2>1, <2>3, FS_Subset, Zenon
  <2>5. QED
    BY <1>1, <2>2, <2>3, <2>4, Zenon DEF Counted
<1>7. account[e].balance \in Nat /\ account[e].balance <= Wealth
  <2>1. Held \in [Executor -> Nat] /\ Held[e] = account[e].balance + account[e].locked
    BY <1>1, Zenon DEF Counted, Held
  <2> DEFINE others == Cardinality(Units(Cleared(Held, e)))
  <2>2. Wealth = others + Held[e] /\ others \in Nat
    BY <2>1, UnitsSplit, Zenon DEF Wealth
  <2>3. account[e].balance \in Nat /\ account[e].locked \in Nat
    BY Zenon DEF ValueInv, Funded
  <2> HIDE DEF others
  <2>4. QED
    BY <2>1, <2>2, <2>3
<1>8. Wealth \in Nat /\ Rest \in Nat
  BY <1>1, Zenon DEF Counted
<1> HIDE DEF all, locked_up, p
<1>9. QED
  BY <1>2, <1>3, <1>4, <1>5, <1>6, <1>7, <1>8

(* A finalization pays one reward, in full. *)
LEMMA FinalizeIsBooked ==
    ASSUME Shape, ValueInv, IsFiniteSet(disputes), IsFiniteSet(disputes'),
           Supply <= MaxU32, NEW t \in Task, finalize(t)
    PROVE  ValueInv'
<1> DEFINE e == asked[t]
           x == account[e]
           balance == bal_after_finalize_checked(x.balance, Reward, receipt[t].epoch, now,
                                                 Window, receipt[t].slashed)
<1>1. e \in Executor /\ receipt[t].state = "escrow" /\ balance # x.balance
  BY Zenon DEF finalize, Shape
<1>2. x \in Account /\ x.balance \in Nat /\ x.locked \in Nat
  BY <1>1, Zenon DEF Shape, ValueInv, Funded
<1>3. t \notin Paid
  BY <1>1, Zenon DEF Paid
<1>4. balance = bal_add_sat(x.balance, 16) /\ ~receipt[t].slashed
  <2>1. Reward = 16
    BY ConstantTypes, Zenon
  <2>2. QED
    BY <1>1, <2>1, Zenon DEF bal_after_finalize_checked, bal_after_finalize_gated
<1>5. balance = x.balance + 16
  <2>1. x.balance + 16 <= MaxU32
    BY <1>1, <1>3, RoomForReward, Zenon
  <2>2. MaxU32 \in Nat
    BY ConstantTypes, Zenon
  <2>3. x.balance \in U32 /\ 16 \in U32
    BY <1>2, <2>1, <2>2 DEF U32
  <2>4. bal_add_sat(x.balance, 16) = smaller(x.balance + 16, MaxU32)
    BY <2>3, SaturatingAdd, Zenon
  <2>5. QED
    BY <1>4, <2>1, <2>4, Zenon DEF smaller
<1>6. PICK p, o : account' = [account EXCEPT ![e] = [x EXCEPT !.balance = balance,
                                                         !.pending = p, !.outstanding = o]]
  BY Zenon DEF finalize
<1>7. /\ receipt' = [receipt EXCEPT ![t] = [receipt[t] EXCEPT !.state = "final"]]
      /\ UNCHANGED <<purse, burnt, disputes>>
  BY Zenon DEF finalize
<1> HIDE DEF balance
<1>8. /\ account'[e].balance = x.balance + 16 /\ account'[e].locked = x.locked
      /\ \A y \in Executor : y # e => account'[y] = account[y]
  BY <1>1, <1>2, <1>5, <1>6, Zenon DEF Shape, Account
<1>9. Paid' = Paid \cup {t}
  <2>1. receipt'[t].state = "final" /\ ~receipt'[t].slashed
    BY <1>4, <1>7, Zenon DEF Shape, Receipt
  <2>2. \A u \in Task : u # t => receipt'[u] = receipt[u]
    BY <1>7, Zenon DEF Shape
  <2>3. QED
    BY <2>1, <2>2, Zenon DEF Paid
<1> HIDE DEF x, e
<1>10. Funded'
  <2>1. x.balance + 16 \in Nat
    BY <1>2
  <2>2. QED
    BY <1>2, <1>7, <1>8, <2>1, Zenon DEF ValueInv, Funded
<1>11. Counted /\ Counted'
  <2>1. (Funded /\ IsFiniteSet(disputes) => Counted)'
    BY Counts, PTL
  <2>2. QED
    BY <1>10, <2>1, Counts, Zenon DEF ValueInv
<1>12. Wealth' = Wealth + 16
  <2>1. Wealth' = Wealth - Held[e] + Held'[e]
    BY <1>1, <1>8, <1>11, WealthStep, Zenon
  <2>2. Held[e] = x.balance + x.locked /\ Held'[e] = (x.balance + 16) + x.locked
    BY <1>1, <1>8, Zenon DEF Held, x
  <2>3. Wealth \in Nat
    BY <1>11, Zenon DEF Counted
  <2>4. QED
    BY <1>2, <2>1, <2>2, <2>3
<1>13. Cardinality(Paid)' = Cardinality(Paid) + 1
  <2>1. Cardinality(Paid \cup {t}) = Cardinality(Paid) + 1
    BY <1>3, <1>11, FS_AddElement, Zenon DEF Counted
  <2>2. QED
    BY <1>9, <2>1, Zenon
<1>14. /\ Wealth' + Rest' = Wealth + Rest + 16
       /\ Cardinality(OpenDisputes)' = Cardinality(OpenDisputes)
  <2>1. Rest' = Rest /\ OpenDisputes' = OpenDisputes
    BY <1>7, Zenon DEF Rest, OpenDisputes
  <2>2. Wealth \in Nat /\ Rest \in Nat
    BY <1>11, Zenon DEF Counted
  <2>3. Wealth' + Rest' = Wealth + Rest + 16
    BY <1>12, <2>1, <2>2
  <2>4. QED
    BY <2>1, <2>3, Zenon
<1>15. Booked(Wealth, Rest, Cardinality(OpenDisputes), Cardinality(Paid),
              Wealth', Rest', Cardinality(OpenDisputes)', Cardinality(Paid)')
  BY <1>13, <1>14, Zenon DEF Booked
<1>16. QED
  BY <1>10, <1>15, BookedStep, Zenon

(* Every action keeps the books. *)
LEMMA ValueStep ==
    ASSUME Shape, ValueInv, IsFiniteSet(disputes), IsFiniteSet(disputes'),
           Supply <= MaxU32, [Next]_vars
    PROVE  ValueInv'
<1>1. ASSUME NEW e \in Executor, post_bond(e) \/ release_bond(e) PROVE ValueInv'
  BY <1>1, BondKeepsBooks, SameBooksStep, Zenon
<1>2. ASSUME NEW r \in results, settle(r) PROVE ValueInv'
  BY <1>2, SettleKeepsBooks, SameBooksStep, Zenon
<1>3. ASSUME NEW t \in Task, NEW leaf \in Task \cup {0}, open_dispute(t, leaf)
      PROVE  ValueInv'
  BY <1>3, OpenIsBooked, Zenon
<1>4. ASSUME NEW d \in disputes, NEW v \in Votes, NEW missed \in BOOLEAN,
             resolve(d, v, missed)
      PROVE  ValueInv'
  BY <1>4, ResolveIsBooked, Zenon
<1>5. ASSUME NEW t \in Task, finalize(t) PROVE ValueInv'
  BY <1>5, FinalizeIsBooked, Zenon
<1>6. CASE UNCHANGED <<account, receipt, disputes, purse, burnt>>
  <2>1. Funded'
    BY <1>6, Zenon DEF ValueInv, Funded
  <2>2. SameBooks
    BY <1>6, Zenon DEF SameBooks, Held, Rest, OpenDisputes, Paid
  <2>3. QED
    BY <2>1, <2>2, SameBooksStep, Zenon
<1>7. ASSUME Talk PROVE ValueInv'
  BY <1>6, <1>7, TalkIsFree, Zenon
<1>8. QED
  BY <1>1, <1>2, <1>3, <1>4, <1>5, <1>7, Zenon DEF Next, Talk

(* As long as the whole supply fits a u32, value is neither made nor lost  *)
(* but by rewards that outlived their window unslashed, for any number of  *)
(* executors, tasks, disputes, replays and missed clawbacks                *)
(* (bal_after_finalize_checked, executor_bond_after, challenger_reward,    *)
(* challenger_stake_after_bound).                                          *)
THEOREM ValueIsConserved ==
    ASSUME Supply <= MaxU32
    PROVE  Spec => []ValueConserved
<1> DEFINE Inv == SafeInv /\ VerdictInv /\ ValueInv
<1>1. Init => Inv
  BY InitSafe, InitVerdict, InitValue, Zenon
<1>2. Inv /\ [Next]_vars => Inv'
  <2> SUFFICES ASSUME Inv, [Next]_vars PROVE Inv'
    BY Zenon
  <2>1. SafeInv' /\ VerdictInv'
    BY HonestStep, EscrowStep, VerdictStep, Zenon DEF SafeInv, HonestInv
  <2>2. Shape /\ IsFiniteSet(disputes) /\ IsFiniteSet(disputes')
    BY <2>1, Zenon DEF SafeInv, HonestInv, VerdictInv
  <2>3. ValueInv'
    BY <2>2, ValueStep, Zenon
  <2>4. QED
    BY <2>1, <2>3, Zenon
<1>3. Inv => ValueConserved
  BY ValueInvConserves, Zenon DEF VerdictInv
<1> HIDE DEF Inv
<1>4. QED
  BY <1>1, <1>2, <1>3, PTL DEF Spec
=============================================================================
