--------------------------- MODULE ReferralRules ---------------------------
(***************************************************************************)
(* The referral programme of app/services/referrals.py, as operators on    *)
(* one `referral_stats` row and on the `users` row of its referrer.        *)
(***************************************************************************)
EXTENDS AccessRules

CONSTANTS
    ValidAfter,     \* REFUND_WINDOW_DAYS + 1
    RewardEvery,    \* REFERRAL_REWARD_EVERY
    RewardDays      \* REFERRAL_REWARD_DAYS

ASSUME RewardAssumption ==
    /\ ValidAfter \in Nat
    /\ RewardEvery \in Nat \ {0}
    /\ RewardDays \in Nat

Stats == [total : Nat, active : Nat, level : Nat, balance : Nat]

\* _ensure_stats: a missing row counts as this one.
NoStats == [total |-> 0, active |-> 0, level |-> 0, balance |-> 0]

\* _qualifies_for_validation: the referred user pays now and first paid long ago.
Qualifies(row, firstPaid, today) ==
    /\ IsPaidActive(row, today)
    /\ firstPaid # NoDay
    /\ today - firstPaid >= ValidAfter

EarnedMonths(total) == total \div RewardEvery

\* Months earned and not yet processed that the referrer may receive today.
NewMonths(stats, total, row, today) ==
    IF EarnedMonths(total) > stats.level /\ IsPaidActive(row, today)
    THEN EarnedMonths(total) - stats.level
    ELSE 0

\* _apply_reward_months, on the referrer's row.
RewardRow(row, months, today) ==
    IF months = 0 THEN row
    ELSE [row EXCEPT !.planEnd =
             (IF @ = NoDay \/ @ < today THEN today ELSE @) + RewardDays * months]

\* Mutant: the processed months are not remembered.
SyncForgetsLevel(stats, total, active, months) ==
    [total |-> total, active |-> active, level |-> stats.level,
     balance |-> stats.balance + months]

\* _sync_referrer_stats, on the statistics row.
SyncStats(stats, total, active, months) ==
    [total   |-> total,
     active  |-> active,
     level   |-> IF months > 0 THEN EarnedMonths(total) ELSE stats.level,
     balance |-> stats.balance + months]
=============================================================================
