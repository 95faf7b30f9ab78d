---------------------------- MODULE DisputeRules ----------------------------
(***************************************************************************)
(* Who may be paid and who is right: the ingress gate of task results      *)
(* (tri_a2a), the resolution of disputes about settled receipts            *)
(* (tri_compute_challenge) and the witnesses, windows and concurrency      *)
(* limits of the challenge game (tri_challenge).  Records and flags are as *)
(* in ComputeRules; the votes of n verifiers are a sequence v of length n. *)
(***************************************************************************)
EXTENDS ComputeRules

GF_MUL == 17    \* 0x11, the low byte of a SKILL_*_MUL
GF_ADD == 16    \* 0x10
Ladder == {4, 8, 16, 32, 64, 128}   \* the widths of the balanced ternary formats

HostedSkill == [family : {"binary"}, width : {16}, op : {GF_MUL, GF_ADD}]
               \cup [family : {"gft"}, width : Ladder, op : {GF_MUL, GF_ADD}]

is_gft_skill(skill) == skill \in HostedSkill /\ skill.family = "gft"
is_hosted_skill(skill) == skill \in HostedSkill
skill_family(skill) == IF is_gft_skill(skill) THEN "gft" ELSE "binary"
skill_width(skill) == IF is_gft_skill(skill) THEN skill.width ELSE 16
skill_op(skill) == skill.op

skill_et(skill) ==
    IF ~is_gft_skill(skill) THEN 0
    ELSE CASE skill.width = 4 -> 2 [] skill.width = 8 -> 3 [] skill.width = 16 -> 4
           [] skill.width = 32 -> 6 [] skill.width = 64 -> 9 [] OTHER -> 14

is_fresh(task, last_settled) == task > last_settled

next_watermark(task, last_settled) == IF task > last_settled THEN task ELSE last_settled

next_watermark_settled(task, last_settled, settled) ==
    IF settled THEN next_watermark(task, last_settled) ELSE last_settled

result_matches_assign(a, r) == a.task = r.task /\ r.task = r.receipt_task

result_binds_assign(a, r) ==
    /\ is_hosted_skill(a.skill)
    /\ result_matches_assign(a, r)
    /\ skill_family(a.skill) = r.family
    /\ skill_op(a.skill) = r.op

result_binds_assign_sized(a, r) ==
    skill_width(a.skill) = r.width /\ result_binds_assign(a, r)

result_binds_assign_rung(a, r) ==
    skill_et(a.skill) = r.et /\ result_binds_assign_sized(a, r)

admit_result(a, r, last_settled, rep, min_rep) ==
    is_fresh(r.task, last_settled) /\ rep >= min_rep /\ result_binds_assign(a, r)

admit_result_bonded(a, r, last_settled, rep, min_rep, bond, outstanding, min_bps) ==
    /\ bond >= as_u32((outstanding * min_bps) \div BPS_UNIT)
    /\ admit_result(a, r, last_settled, rep, min_rep)

(* A gate that takes any valid signature, whoever's key it is under. *)
BugAuthentic(a, r) == a.executor = r.executor /\ r.sig_ok

executor_authentic(a, r) == a.executor = r.executor /\ r.sig_ok /\ r.executor = r.key

admit_result_signed(a, r, last_settled, rep, min_rep, bond, outstanding, min_bps) ==
    /\ executor_authentic(a, r)
    /\ admit_result_bonded(a, r, last_settled, rep, min_rep, bond, outstanding, min_bps)

admit_result_signed_sized(a, r, last_settled, rep, min_rep, bond, outstanding, min_bps) ==
    /\ skill_width(a.skill) = r.width
    /\ admit_result_signed(a, r, last_settled, rep, min_rep, bond, outstanding, min_bps)
-----------------------------------------------------------------------------
(* tri_compute_challenge: resolution by recomputing the settled receipt. *)

Outcome == {"honest", "slash", "malformed", "stale", "family", "indeterminate", "rung"}

executor_bond_after(bond, outcome) == IF outcome = "slash" THEN 0 ELSE bond
challenger_reward(bond, outcome) == IF outcome = "slash" THEN bond ELSE 0
challenger_stake_after(stake, outcome) == IF outcome = "honest" THEN 0 ELSE stake

challenger_stake_after_bound(stake, outcome) ==
    IF outcome \in {"slash", "stale", "indeterminate"} THEN stake ELSE 0

dispute_is_fresh(last_epoch, dispute_epoch) == dispute_epoch > last_epoch

(* A resolver that forgets to advance on a frivolous dispute. *)
BugEpochAfter(last_epoch, dispute_epoch, outcome) ==
    IF outcome = "slash" THEN dispute_epoch ELSE last_epoch

resolver_epoch_after(last_epoch, dispute_epoch, outcome) ==
    IF outcome \in {"honest", "slash"} THEN dispute_epoch ELSE last_epoch

resolve_bound(leaf_match, claimed, recomputed) ==
    IF ~leaf_match THEN "malformed"
    ELSE IF claimed = recomputed THEN "honest" ELSE "slash"

resolve_full(last_epoch, s, d, recomputed) ==
    IF ~dispute_is_fresh(last_epoch, d.epoch) THEN "stale"
    ELSE IF s.family # d.family THEN "family"
    ELSE resolve_bound(s.leaf = d.leaf, s.result, recomputed)

resolve_full_rung(last_epoch, s, d, recomputed) ==
    IF ~dispute_is_fresh(last_epoch, d.epoch) THEN "stale"
    ELSE IF s.family # d.family THEN "family"
    ELSE IF s.et # d.et THEN "rung"
    ELSE resolve_bound(s.leaf = d.leaf, s.result, recomputed)

(* On the 256 bit digest the caller compares and passes only the match. *)
resolve_full_d256(last_epoch, s, d, leaf_match, recomputed) ==
    IF ~dispute_is_fresh(last_epoch, d.epoch) THEN "stale"
    ELSE IF s.family # d.family THEN "family"
    ELSE resolve_bound(leaf_match, s.result, recomputed)

resolve_bitnet(leaf_match, claimed, recomputed, ternary_ok) ==
    IF leaf_match /\ ~ternary_ok THEN "slash"
    ELSE resolve_bound(leaf_match, claimed, recomputed)

resolve_bitnet_full(last_epoch, s, d, recomputed, ternary_ok) ==
    IF ~dispute_is_fresh(last_epoch, d.epoch) THEN "stale"
    ELSE IF s.family # d.family THEN "family"
    ELSE resolve_bitnet(s.leaf = d.leaf, s.result, recomputed, ternary_ok)

resolve_bitnet_d256_full(last_epoch, s, d, leaf_match, recomputed, ternary_ok) ==
    IF ~dispute_is_fresh(last_epoch, d.epoch) THEN "stale"
    ELSE IF s.family # d.family THEN "family"
    ELSE resolve_bitnet(leaf_match, s.result, recomputed, ternary_ok)

verifier_quorum3(v) == v[1] = v[2] \/ v[1] = v[3] \/ v[2] = v[3]

(* A quorum value that follows the first verifier, not the majority. *)
BugResult3(v) == v[1]

quorum_result3(v) ==
    IF v[1] = v[2] \/ v[1] = v[3] THEN v[1] ELSE IF v[2] = v[3] THEN v[2] ELSE v[1]

max_agree3(v) ==
    IF v[1] = v[2] /\ v[2] = v[3] THEN 3 ELSE IF verifier_quorum3(v) THEN 2 ELSE 1

eq1(a, b) == IF a = b THEN 1 ELSE 0
max2(a, b) == IF a >= b THEN a ELSE b
quorum_threshold(n) == (n \div 2) + 1
has_quorum_k(agree_count, k) == agree_count >= k

count5(x, v) == eq1(x, v[1]) + eq1(x, v[2]) + eq1(x, v[3]) + eq1(x, v[4]) + eq1(x, v[5])

max_agree5(v) ==
    max2(max2(max2(count5(v[1], v), count5(v[2], v)), max2(count5(v[3], v), count5(v[4], v))),
         count5(v[5], v))

quorum_value5(v, k) ==
    LET wins(i) == count5(v[i], v) >= k
    IN  IF wins(1) THEN v[1] ELSE IF wins(2) THEN v[2] ELSE IF wins(3) THEN v[3]
        ELSE IF wins(4) THEN v[4] ELSE IF wins(5) THEN v[5] ELSE v[1]

quorum5(v) == has_quorum_k(max_agree5(v), quorum_threshold(5))

resolve_quorum3(last_epoch, s, d, v) ==
    IF verifier_quorum3(v) THEN resolve_full(last_epoch, s, d, quorum_result3(v))
    ELSE "indeterminate"

resolve_quorum5(last_epoch, s, d, v) ==
    IF quorum5(v) THEN resolve_full(last_epoch, s, d, quorum_value5(v, quorum_threshold(5)))
    ELSE "indeterminate"

majority_flag3(t) == eq1(TRUE, t[1]) + eq1(TRUE, t[2]) + eq1(TRUE, t[3]) >= 2
majority_flag5(t) == count5(TRUE, t) >= 3

resolve_bitnet_quorum(leaf_match, claimed, v, t) ==
    IF verifier_quorum3(v)
    THEN resolve_bitnet(leaf_match, claimed, quorum_result3(v), majority_flag3(t))
    ELSE "indeterminate"

resolve_bitnet_quorum5(leaf_match, claimed, v, t) ==
    IF quorum5(v)
    THEN resolve_bitnet(leaf_match, claimed, quorum_value5(v, quorum_threshold(5)),
                        majority_flag5(t))
    ELSE "indeterminate"

resolve_bitnet_quorum_full(last_epoch, s, d, v, t) ==
    IF verifier_quorum3(v)
    THEN resolve_bitnet_full(last_epoch, s, d, quorum_result3(v), majority_flag3(t))
    ELSE "indeterminate"

resolve_bitnet_quorum5_full(last_epoch, s, d, v, t) ==
    IF quorum5(v)
    THEN resolve_bitnet_full(last_epoch, s, d, quorum_value5(v, quorum_threshold(5)),
                             majority_flag5(t))
    ELSE "indeterminate"

verifier_dissented(vote, quorum_value, has_quorum) == has_quorum /\ vote # quorum_value
verifier_stake_after(stake, dissented) == IF dissented THEN 0 ELSE stake

verifier_reward(burned_total, honest_count) ==
    IF honest_count = 0 THEN 0 ELSE burned_total \div honest_count

dissenter_count5(v) == 5 - max_agree5(v)
burned_total5(v, stake) == smaller(dissenter_count5(v) * stake, MaxU32)
honest_share5(v, stake) == verifier_reward(burned_total5(v, stake), max_agree5(v))
-----------------------------------------------------------------------------
(* tri_challenge: windows, witnesses and concurrent disputes. *)

RESOLVE_TIMEOUT == 27
CH_BASE_WINDOW == 64
CH_WINDOW_PER_TRIT == 16
MAX_OPEN_DISPUTES == 3

challenge_admissible(now, receipt_epoch, window) ==
    now >= receipt_epoch /\ now - receipt_epoch < window

dispute_expired(opened_epoch, now) ==
    now >= opened_epoch /\ now - opened_epoch > RESOLVE_TIMEOUT

challenge_window_for_rung(et) ==
    IF et <= GFT16_ET THEN CH_BASE_WINDOW
    ELSE CH_BASE_WINDOW + (et - GFT16_ET) * CH_WINDOW_PER_TRIT

(* The seal 0 stands for "no majority". *)
witness_majority(v) ==
    IF v[1] = v[2] \/ v[1] = v[3] THEN v[1] ELSE IF v[2] = v[3] THEN v[2] ELSE 0

witness_verdict(defender_seal, v) ==
    IF witness_majority(v) = 0 THEN "none"
    ELSE IF defender_seal = witness_majority(v) THEN "defender honest" ELSE "defender lied"

defender_bond_after(verdict, defender_bond, challenger_bond) ==
    IF verdict = "defender honest" THEN defender_bond + challenger_bond ELSE 0

challenger_bond_after(verdict, defender_bond, challenger_bond) ==
    IF verdict = "defender honest" THEN 0 ELSE challenger_bond + defender_bond

majority_count_3(v, majority) ==
    IF majority = 0 THEN 0
    ELSE eq1(v[1], majority) + eq1(v[2], majority) + eq1(v[3], majority)

minority_pot_3(v, majority, stake) == (3 - majority_count_3(v, majority)) * stake

witness_payout(voted, v, stake) ==
    LET majority == witness_majority(v)
    IN  IF majority = 0 THEN stake
        ELSE IF voted = majority
        THEN stake + minority_pot_3(v, majority, stake) \div majority_count_3(v, majority)
        ELSE 0

dispute_slots_ok(open_count) == open_count < MAX_OPEN_DISPUTES
risk_after_open(risk, reward) == bal_add_sat(risk, reward)
risk_after_close(risk, reward) == IF reward >= risk THEN 0 ELSE risk - reward

may_open_dispute(open_count, risk, reward, bond, min_bps) ==
    /\ dispute_slots_ok(open_count)
    /\ bond >= required_bond(risk_after_open(risk, reward), min_bps)

may_open_dispute_rung(open_count, risk, reward, bond, min_bps, et) ==
    may_open_dispute(open_count, risk, reward, bond, rung_min_bps(min_bps, et))
=============================================================================
