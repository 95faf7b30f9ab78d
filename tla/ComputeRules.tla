---------------------------- MODULE ComputeRules ----------------------------
(***************************************************************************)
(* The rules of the compute market: the pure functions of the generated    *)
(* tri_a2a, tri_compute_account, tri_compute_bond, tri_compute_reputation, *)
(* tri_compute_pool, tri_compute_settle, tri_compute_challenge,            *)
(* tri_challenge and tri_settle modules, from which module Compute builds  *)
(* the market itself.                                                      *)
(*                                                                         *)
(* A u32 is a number in 0 .. MaxU32.  Arguments that travel together are   *)
(* records: an assignment a, a task result r, a settled receipt s and a    *)
(* dispute d.  The flags 0 and 1 are booleans.  A skill id is the family,  *)
(* width and operation it stands for.  Hashes are not modelled: the leaf   *)
(* or digest of a receipt is any value that identifies it.                 *)
(***************************************************************************)
EXTENDS Integers, Sequences

CONSTANT MaxU32     \* the largest u32, 2^32 - 1 in the code

ASSUME MaxU32Assumption == MaxU32 \in Nat \ {0}

U32 == 0 .. MaxU32
wrapping_add(x, y) == (x + y) % (MaxU32 + 1)
as_u32(x) == x % (MaxU32 + 1)
smaller(x, y) == IF x <= y THEN x ELSE y
-----------------------------------------------------------------------------
(* tri_compute_account: one node's spendable, locked and escrowed value. *)

bal_after_lock(balance, amt) == IF amt <= balance THEN balance - amt ELSE balance

locked_after_lock(balance, locked, amt) ==
    IF amt <= balance THEN locked + amt ELSE locked

bal_after_release(balance, locked) == balance + locked

bal_add_sat(balance, amount) ==
    LET sum == wrapping_add(balance, amount)
    IN  IF sum < balance THEN MaxU32 ELSE sum

total3(balance, locked, pending) == balance + locked + pending

pending_after_settle(pending, reward) ==
    LET sum == wrapping_add(pending, reward)
    IN  IF sum < pending THEN MaxU32 ELSE sum

outstanding_after_escrow(outstanding, reward) ==
    LET sum == wrapping_add(outstanding, reward)
    IN  IF sum < outstanding THEN MaxU32 ELSE sum

outstanding_after_release(outstanding, reward) ==
    IF reward <= outstanding THEN outstanding - reward ELSE 0

(* The release as it was before pending followed outstanding. *)
BugPendingRelease(pending, reward) == pending

pending_after_release(pending, reward) ==
    IF reward <= pending THEN pending - reward ELSE 0

is_final(settle_epoch, now, window) == now >= settle_epoch /\ now - settle_epoch >= window

bal_after_finalize_gated(balance, pending, settle_epoch, now, window) ==
    IF is_final(settle_epoch, now, window) THEN bal_add_sat(balance, pending) ELSE balance

(* A finalization gated on time alone, blind to the verdict. *)
BugFinalize(balance, pending, settle_epoch, now, window, slashed) ==
    bal_after_finalize_gated(balance, pending, settle_epoch, now, window)

bal_after_finalize_checked(balance, pending, settle_epoch, now, window, slashed) ==
    IF slashed THEN balance
    ELSE bal_after_finalize_gated(balance, pending, settle_epoch, now, window)
-----------------------------------------------------------------------------
(* tri_compute_bond: the collateral that backs the escrowed rewards. *)

BPS_UNIT == 10000
GFT16_ET == 4
BOND_BPS_PER_TRIT == 500

required_bond(outstanding, min_bps) == as_u32((outstanding * min_bps) \div BPS_UNIT)

bond_covers(bond, outstanding, min_bps) == bond >= required_bond(outstanding, min_bps)

rung_min_bps(min_bps, et) ==
    IF et <= GFT16_ET THEN min_bps ELSE min_bps + (et - GFT16_ET) * BOND_BPS_PER_TRIT

bond_covers_rung(bond, outstanding, min_bps, et) ==
    bond >= required_bond(outstanding, rung_min_bps(min_bps, et))

balance_after_resolve(balance, bond, outcome) ==
    IF outcome = "honest" THEN bal_add_sat(balance, bond) ELSE balance
-----------------------------------------------------------------------------
(* tri_compute_reputation: slow to earn, halved by a proven fraud. *)

REP_INIT == 100
REP_MAX == 1000
REP_GAIN_PER_TRIT == 3

rep_after_honest(rep, gain) == smaller(rep + gain, REP_MAX)
rep_after_slash(rep) == rep \div 2

rep_after_resolution(rep, outcome, gain) ==
    IF outcome = "slash" THEN rep_after_slash(rep)
    ELSE IF outcome = "honest" THEN rep_after_honest(rep, gain) ELSE rep

rung_honest_gain(gain, et) ==
    IF et <= GFT16_ET THEN gain ELSE gain + (et - GFT16_ET) * REP_GAIN_PER_TRIT

rep_after_verifier(rep, has_quorum, dissented, gain) ==
    IF ~has_quorum THEN rep
    ELSE IF dissented THEN rep_after_slash(rep) ELSE rep_after_honest(rep, gain)

weighted_work(raw_work, rep) == smaller(raw_work * rep, MaxU32)
-----------------------------------------------------------------------------
(* tri_compute_pool: rewards paid from a funded pool, never minted. *)

total_work3(w) == smaller(w[1] + w[2] + w[3], MaxU32)

pool_share(pool, work, total) ==
    IF total = 0 THEN 0 ELSE as_u32((pool * work) \div total)

payout_capped(pool, requested) == IF requested <= pool THEN requested ELSE pool
pool_after_payout(pool, requested) == IF requested <= pool THEN pool - requested ELSE 0

balance_after_pool_settle(balance, pool, reward) ==
    bal_add_sat(balance, payout_capped(pool, reward))
-----------------------------------------------------------------------------
(* tri_compute_settle: whether, and how much, a receipt is paid. *)

REWARD_PER_GF_OP == 1
compute_reward(width, payable) == IF payable THEN width * REWARD_PER_GF_OP ELSE 0

compute_reward_fmt(width, payable, work_bps) ==
    IF payable THEN as_u32((width * work_bps) \div BPS_UNIT) ELSE 0

gft_offset_max_w(width) ==
    CASE width = 4 -> 8 [] width = 8 -> 26 [] width = 16 -> 80 [] width = 32 -> 728
      [] width = 64 -> 19682 [] width = 128 -> 4782968 [] OTHER -> 0

payable_flag(family, result, exp_bits, mant_bits, has_inf, offset_max) ==
    LET exp == (result \div 2^mant_bits) % 2^exp_bits
    IN  IF family = "gft" THEN result < offset_max
        ELSE has_inf => exp # 2^exp_bits - 1

settle_canonical(balance, width, sig_ok, fresh, already_settled, payable) ==
    bal_add_sat(balance,
                compute_reward(width, sig_ok /\ ~already_settled /\ fresh /\ payable))

settle_canonical_fmt(balance, width, sig_ok, fresh, already_settled, payable, work_bps) ==
    bal_add_sat(balance,
                compute_reward_fmt(width, sig_ok /\ ~already_settled /\ fresh /\ payable,
                                   work_bps))

(* The entry points, each settle_canonical with some of its gates fixed. *)
settle_checked(balance, width, fresh, result) ==
    settle_canonical(balance, width, TRUE, fresh, FALSE,
                     payable_flag("binary", result, 6, 9, TRUE, 0))
settle_checked_gf(balance, width, fresh, result, exp_bits, mant_bits) ==
    settle_canonical(balance, width, TRUE, fresh, FALSE,
                     payable_flag("binary", result, exp_bits, mant_bits, TRUE, 0))
settle_checked_gft_w(balance, width, fresh, offset) ==
    settle_canonical(balance, width, TRUE, fresh, FALSE,
                     payable_flag("gft", offset, 0, 0, FALSE, gft_offset_max_w(width)))
settle_full_h(balance, width, fresh, result, exp_bits, mant_bits, has_inf, settled) ==
    settle_canonical(balance, width, TRUE, fresh, settled,
                     payable_flag("binary", result, exp_bits, mant_bits, has_inf, 0))
settle_signed(balance, width, fresh, result, exp_bits, mant_bits, settled, sig_ok) ==
    settle_canonical(balance, width, sig_ok, fresh, settled,
                     payable_flag("binary", result, exp_bits, mant_bits, TRUE, 0))
=============================================================================
