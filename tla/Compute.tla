------------------------------ MODULE Compute ------------------------------
(***************************************************************************)
(* The compute market: executors post a bond and answer tasks, an admitted *)
(* result escrows its reward, anyone may dispute it inside the challenge   *)
(* window before a quorum of three verifiers, and what survives the window *)
(* is paid.  The steps and their order are those of                        *)
(* src/bin/trinet_compute_lifecycle.rs and trinet_challenge_over_mesh.rs,  *)
(* the rules those of ComputeRules and DisputeRules.                       *)
(*                                                                         *)
(* Results and disputes are messages: one that was sent may arrive late,   *)
(* never, or again, so neither set ever shrinks.  Some executors and some  *)
(* verifiers are faulty and say anything.  A receipt leaves escrow once,   *)
(* finalized or clawed back, as the contract of outstanding_after_release  *)
(* has it; the ledger keeps which, and a verdict applies to a receipt      *)
(* still in escrow.  All tasks are of the skill GF16 multiply.             *)
(***************************************************************************)
EXTENDS DisputeRules, FiniteSets

CONSTANTS Executor, None,
          Honest,       \* the executors that return the golden result only
          HonestVerifier, \* the verifiers, of 1 .. 3, that recompute faithfully
          Golden, Wrong,  \* the result of the operation; the other results
          Start, Bond, Stake, VerifierStake,
          Window, MinRep, Gain, MinBps, DisputeBps,
          MaxTask, MaxEpoch, MaxResults, MaxDisputes, MaxFaults  \* bounds

ASSUME ComputeAssumption ==
    /\ Honest \subseteq Executor /\ None \notin Executor /\ IsFiniteSet(Executor)
    /\ HonestVerifier \subseteq 1 .. 3
    /\ \E i, j \in HonestVerifier : i # j
    /\ Golden \in Nat /\ Wrong \subseteq Nat /\ Golden \notin Wrong
    /\ {Start, Bond, Stake, VerifierStake, Window, MinRep, Gain, MinBps, DisputeBps} \subseteq Nat
    /\ {MaxTask, MaxEpoch, MaxResults, MaxDisputes, MaxFaults} \subseteq Nat

VARIABLES now,          \* the epoch
          asked,        \* the assignments made: task -> executor or None
          results,      \* the task results sent
          account,      \* per executor: balance, locked, pending, outstanding, rep
          watermark,    \* the last task settled
          receipt,      \* per task: the settled receipt
          disputes,     \* the disputes sent
          last_epoch,   \* the resolver's watermark
          purse,        \* the challengers' funds
          burnt,        \* the stakes of challengers that lost
          stakes,       \* the verifiers' stakes
          credit,       \* the verifiers' reputations
          faults        \* clawbacks missed

vars == <<now, asked, results, account, watermark, receipt, disputes, last_epoch,
          purse, burnt, stakes, credit, faults>>

Task == 1 .. MaxTask
Verifier == 1 .. 3
Result == {Golden} \cup Wrong
Skill == [family |-> "binary", width |-> 16, op |-> GF_MUL]
Reward == compute_reward(skill_width(Skill), TRUE)
Unsettled == [state |-> "none", result |-> 0, epoch |-> 0, slashed |-> FALSE]

Init ==
    /\ now = 1 /\ watermark = 0 /\ last_epoch = 0 /\ faults = 0
    /\ asked = [t \in Task |-> None] /\ results = {} /\ disputes = {}
    /\ account = [e \in Executor |-> [balance |-> Start, locked |-> 0, pending |-> 0,
                                      outstanding |-> 0, rep |-> REP_INIT]]
    /\ receipt = [t \in Task |-> Unsettled]
    /\ purse = MaxDisputes * Stake /\ burnt = 0
    /\ stakes = [i \in Verifier |-> VerifierStake]
    /\ credit = [i \in Verifier |-> REP_INIT]
-----------------------------------------------------------------------------
(* An executor locks a bond, or adds to the one it has. *)
post_bond(e) ==
    LET x == account[e]
    IN  /\ Bond <= x.balance
        /\ account' = [account EXCEPT ![e] =
               [x EXCEPT !.balance = bal_after_lock(x.balance, Bond),
                         !.locked = locked_after_lock(x.balance, x.locked, Bond)]]
        /\ UNCHANGED <<now, asked, results, watermark, receipt, disputes, last_epoch,
                       purse, burnt, stakes, credit, faults>>

(* The whole bond returns.  The lifecycle program does so after it          *)
(* finalizes; bal_after_release asks nothing, so here it happens any time. *)
release_bond(e) ==
    LET x == account[e]
    IN  /\ x.locked > 0
        /\ account' = [account EXCEPT ![e] =
               [x EXCEPT !.balance = bal_after_release(x.balance, x.locked), !.locked = 0]]
        /\ UNCHANGED <<now, asked, results, watermark, receipt, disputes, last_epoch,
                       purse, burnt, stakes, credit, faults>>

(* Task ids are given in order. *)
assign(t, e) ==
    /\ asked[t] = None /\ \A u \in Task : u < t => asked[u] # None
    /\ asked' = [asked EXCEPT ![t] = e]
    /\ UNCHANGED <<now, results, account, watermark, receipt, disputes, last_epoch,
                   purse, burnt, stakes, credit, faults>>

(* Executor e signs and sends a result in the name of executor x, to be    *)
(* checked under the key of k, its own or x's; the signature verifies      *)
(* under its own only.  A faulty executor sends wrong results, results of  *)
(* another operation, for another's task or in another's name.             *)
reply(t, e, x, k, op, result) ==
    /\ asked[t] # None /\ k \in {e, x}
    /\ e \in Honest => asked[t] = e /\ x = e /\ k = e /\ op = GF_MUL /\ result = Golden
    /\ op = GF_MUL \/ (result = Golden /\ x = e /\ k = e)    \* such faults come alone
    /\ Cardinality(results) < MaxResults
    /\ results' = results \cup
           {[task |-> t, receipt_task |-> t, family |-> "binary", op |-> op, width |-> 16,
             executor |-> x, key |-> k, sig_ok |-> (k = e), result |-> result]}
    /\ UNCHANGED <<now, asked, account, watermark, receipt, disputes, last_epoch,
                   purse, burnt, stakes, credit, faults>>

(* The bond must cover the escrow with the new reward in it. *)
BugCovers(x, reward) == bond_covers(x.locked, x.outstanding, MinBps)
Covers(x, reward) ==
    bond_covers(x.locked, outstanding_after_escrow(x.outstanding, reward), MinBps)

(* A result that passes the ingress gate and is payable is escrowed. *)
settle(r) ==
    LET e == asked[r.task]
        x == account[e]
        a == [task |-> r.task, skill |-> Skill, executor |-> e]
        reward == settle_canonical(0, skill_width(Skill), r.sig_ok,
                                   is_fresh(r.task, watermark),
                                   receipt[r.task].state # "none",
                                   payable_flag("binary", r.result, 6, 9, TRUE, 0))
    IN  /\ admit_result_signed_sized(a, r, watermark, x.rep, MinRep, x.locked,
                                     x.outstanding, MinBps)
        /\ reward > 0
        /\ Covers(x, reward)
        /\ account' = [account EXCEPT ![e] =
               [x EXCEPT !.pending = pending_after_settle(x.pending, reward),
                         !.outstanding = outstanding_after_escrow(x.outstanding, reward)]]
        /\ receipt' = [receipt EXCEPT ![r.task] =
               [state |-> "escrow", result |-> r.result, epoch |-> now, slashed |-> FALSE]]
        /\ watermark' = next_watermark_settled(r.task, watermark, TRUE)
        /\ UNCHANGED <<now, asked, results, disputes, last_epoch, purse, burnt, stakes,
                       credit, faults>>
-----------------------------------------------------------------------------
OpenAgainst(e) == {d \in disputes : d.open /\ asked[d.task] = e}

(* Anyone stakes a dispute of an escrowed receipt inside its window; leaf  *)
(* is the receipt its operands reproduce, 0 when they reproduce none.      *)
open_dispute(t, leaf) ==
    LET e == asked[t]
        open == Cardinality(OpenAgainst(e))
    IN  /\ receipt[t].state = "escrow" /\ ~receipt[t].slashed
        /\ challenge_admissible(now, receipt[t].epoch, Window)
        /\ may_open_dispute(open, open * Reward, Reward, account[e].locked, DisputeBps)
        /\ Cardinality(disputes) < MaxDisputes /\ purse >= Stake
        /\ \A d \in disputes : d.task = t => d.epoch < now
        /\ disputes' = disputes \cup {[task |-> t, epoch |-> now, family |-> "binary",
                                       leaf |-> leaf, open |-> TRUE]}
        /\ purse' = purse - Stake
        /\ UNCHANGED <<now, asked, results, account, watermark, receipt, last_epoch,
                       burnt, stakes, credit, faults>>

(* Faithful verifiers vote for the golden result, the others for any. *)
Votes == {v \in [Verifier -> Result] : \A i \in HonestVerifier : v[i] = Golden}

Claim(t) == [family |-> "binary", leaf |-> t, result |-> receipt[t].result]

Dissented(v, i) == verifier_dissented(v[i], quorum_result3(v), verifier_quorum3(v))

(* Dissenters lose their stake to the verifiers that formed the quorum, and *)
(* half their reputation; the others gain some.                             *)
StakesAfter(v) ==
    LET burned == IF \E i \in Verifier : Dissented(v, i)
                  THEN stakes[CHOOSE i \in Verifier : Dissented(v, i)] ELSE 0
    IN  [i \in Verifier |->
            verifier_stake_after(stakes[i], Dissented(v, i))
            + (IF Dissented(v, i) THEN 0 ELSE verifier_reward(burned, max_agree3(v)))]

CreditAfter(v) ==
    [i \in Verifier |->
        rep_after_verifier(credit[i], verifier_quorum3(v), Dissented(v, i), Gain)]

(* The receipt and its executor's account after a verdict. *)
Ruled(s, outcome, clawback) ==
    [s EXCEPT !.slashed = (outcome = "slash"),
              !.state = IF clawback THEN "reversed" ELSE @]

Judged(x, outcome, clawback) ==
    [x EXCEPT !.locked = executor_bond_after(x.locked, outcome),
              !.rep = rep_after_resolution(x.rep, outcome, Gain),
              !.pending = IF clawback THEN pending_after_release(x.pending, Reward) ELSE @,
              !.outstanding = IF clawback THEN outstanding_after_release(x.outstanding, Reward)
                              ELSE @]

(* The quorum resolves a dispute: a slash takes the bond, the reward and    *)
(* half the reputation; a frivolous or malformed dispute costs its stake.   *)
(* A dispute already resolved may arrive again.  "missed": the node fails   *)
(* between the verdict and the clawback of the escrowed reward.             *)
resolve(d, v, missed) ==
    LET t == d.task
        e == asked[t]
        x == account[e]
        outcome == resolve_quorum3(last_epoch, Claim(t), d, v)
        stake == IF d.open THEN Stake ELSE 0
        kept == challenger_stake_after_bound(stake, outcome)
        clawback == outcome = "slash" /\ ~missed
    IN  /\ receipt[t].state = "escrow" /\ ~receipt[t].slashed
        /\ outcome # "indeterminate"
        /\ missed => outcome = "slash" /\ faults < MaxFaults
        /\ account' = [account EXCEPT ![e] = Judged(x, outcome, clawback)]
        /\ receipt' = [receipt EXCEPT ![t] = Ruled(receipt[t], outcome, clawback)]
        /\ last_epoch' = resolver_epoch_after(last_epoch, d.epoch, outcome)
        /\ purse' = purse + kept + challenger_reward(x.locked, outcome)
        /\ burnt' = burnt + stake - kept
        /\ disputes' = (disputes \ {d}) \cup {[d EXCEPT !.open = FALSE]}
        /\ IF outcome \in {"honest", "slash"}
           THEN stakes' = StakesAfter(v) /\ credit' = CreditAfter(v)
           ELSE UNCHANGED <<stakes, credit>>
        /\ faults' = IF missed THEN faults + 1 ELSE faults
        /\ UNCHANGED <<now, asked, results, watermark>>

(* A reward whose window elapsed without a slash becomes spendable. *)
finalize(t) ==
    LET e == asked[t]
        x == account[e]
        balance == bal_after_finalize_checked(x.balance, Reward, receipt[t].epoch, now,
                                              Window, receipt[t].slashed)
    IN  /\ receipt[t].state = "escrow"
        /\ balance # x.balance
        /\ account' = [account EXCEPT ![e] =
               [x EXCEPT !.balance = balance,
                         !.pending = pending_after_release(x.pending, Reward),
                         !.outstanding = outstanding_after_release(x.outstanding, Reward)]]
        /\ receipt' = [receipt EXCEPT ![t] = [@ EXCEPT !.state = "final"]]
        /\ UNCHANGED <<now, asked, results, watermark, disputes, last_epoch, purse,
                       burnt, stakes, credit, faults>>

Tick ==
    /\ now < MaxEpoch
    /\ now' = now + 1
    /\ UNCHANGED <<asked, results, account, watermark, receipt, disputes, last_epoch,
                   purse, burnt, stakes, credit, faults>>

Next ==
    \/ \E e \in Executor : post_bond(e) \/ release_bond(e)
    \/ \E t \in Task, e \in Executor : assign(t, e)
    \/ \E t \in Task, e, x, k \in Executor, op \in {GF_MUL, GF_ADD}, result \in Result :
           reply(t, e, x, k, op, result)
    \/ \E r \in results : settle(r)
    \/ \E t \in Task, leaf \in Task \cup {0} : leaf \in {t, 0} /\ open_dispute(t, leaf)
    \/ \E d \in disputes, v \in Votes, missed \in BOOLEAN : resolve(d, v, missed)
    \/ \E t \in Task : finalize(t)
    \/ Tick

Spec == Init /\ [][Next]_vars
-----------------------------------------------------------------------------
(* What the executors can spend or have locked, and amounts as the set of  *)
(* their units, which can be counted.                                      *)
Held == [e \in Executor |-> account[e].balance + account[e].locked]
Units(amount) == UNION {{e} \X (1 .. amount[e]) : e \in Executor}

(* Value is neither made nor lost but by a reward that outlived its window *)
(* unslashed: what executors can spend or have locked, the challengers'    *)
(* funds and stakes, and what losing challengers forfeited add up to the   *)
(* initial funds and those rewards.  A reward that was proven fraudulent   *)
(* is never spendable, even when its clawback was missed, and none is paid *)
(* twice (bal_after_finalize_checked, executor_bond_after,                 *)
(* challenger_reward, challenger_stake_after_bound).                       *)
ValueConserved ==
    Cardinality(Units(Held)) + purse + burnt
      + Stake * Cardinality({d \in disputes : d.open})
    = Start * Cardinality(Executor) + MaxDisputes * Stake
      + Reward * Cardinality({t \in Task : receipt[t].state = "final" /\ ~receipt[t].slashed})

(* What an executor has in escrow, settled and not yet finalized or clawed *)
(* back, is counted once: pending, which conservation is about, never      *)
(* drifts from outstanding, which the collateral gate reads, through       *)
(* settlements, verdicts, missed clawbacks and finalizations in any order  *)
(* (escrow_consistent of tri_compute_account.rs).                          *)
EscrowConsistent == \A e \in Executor : account[e].pending = account[e].outstanding

(* Whoever follows the rules loses nothing to those who do not: with two   *)
(* faithful verifiers out of three no honest executor is ever slashed for  *)
(* a task it was assigned, whatever results others send for the task and   *)
(* in its name, whatever is disputed and replayed, and no faithful         *)
(* verifier ends with less stake or reputation than it began with          *)
(* (executor_authentic, quorum_result3, verifier_dissented,                *)
(* rep_after_verifier).                                                    *)
HonestAreSafe ==
    /\ \A t \in Task : asked[t] \in Honest => ~receipt[t].slashed
    /\ \A i \in HonestVerifier : stakes[i] >= VerifierStake /\ credit[i] >= REP_INIT

(* Rewards in escrow outgrow the bond behind them only when the bond itself *)
(* goes, slashed or released: no settlement of concurrent tasks, verdict,   *)
(* clawback or finalization uncovers an executor that keeps its bond        *)
(* (bond_covers on the prospective outstanding).                            *)
CoveredWhileBonded ==
    [][\A e \in Executor :
          bond_covers(account[e].locked, account[e].outstanding, MinBps)
          => \/ account'[e].locked = 0
             \/ bond_covers(account'[e].locked, account'[e].outstanding, MinBps)]_vars

(* A verdict is applied once: reputation is only ever earned from distinct *)
(* disputes, however often a resolved dispute arrives again                *)
(* (resolver_epoch_after, the RESOLVE_STALE no-op).                        *)
VerdictAppliedOnce ==
    \A e \in Executor :
        account[e].rep <= REP_INIT
            + Gain * Cardinality({d \in disputes : ~d.open /\ asked[d.task] = e})
=============================================================================
