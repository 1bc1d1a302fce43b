--------------------------- MODULE MCTimingWheel ---------------------------
(* Instances of TimingWheel for TLC; Entries is a symmetry set. *)
EXTENDS TimingWheel, TLC

CONSTANTS e1, e2, e3

TwoEntries   == {e1, e2}
ThreeEntries == {e1, e2, e3}
Symmetry     == Permutations(Entries)

\* Immediate, less than one revolution, exactly one revolution of two slots,
\* more than one revolution, and one that wraps past tick 0.
MCDurations == {0, 1, 2, 3, 7}
============================================================================
