--------------------------- MODULE ReplayWindow ---------------------------
(***************************************************************************)
(* The 64-frame sliding window of src/crypto.rs that rejects replayed or   *)
(* too-old counters.  The u64 bitmap is the set of its set bits, so a left *)
(* shift drops the bits that leave 0..Width-1.  No state: the session      *)
(* module keeps one window per peer in a variable.                         *)
(***************************************************************************)
EXTENDS Integers

CONSTANT Width          \* ReplayWindow::WIDTH (64 in the code)

ASSUME WidthAssumption == Width \in Nat \ {0}

Bits == 0 .. (Width - 1)

Window == [highest : Nat, bitmap : SUBSET Bits, seen_any : BOOLEAN]

new_window == [highest |-> 0, bitmap |-> {}, seen_any |-> FALSE]

\* (bitmap << shift) | 1 ; a shift of Width or more leaves only bit 0.
ShiftIn(bitmap, shift) == {b \in Bits : b = 0 \/ (b - shift) \in bitmap}

\* Bug: off by one at the old end of the window.
BugCheck(w, ctr) ==
    \/ ~w.seen_any
    \/ ctr > w.highest
    \/ /\ w.highest - ctr < Width - 1
       /\ (w.highest - ctr) \notin w.bitmap

\* The verdict of check_and_set: is ctr fresh for window w ?
check(w, ctr) ==
    \/ ~w.seen_any
    \/ ctr > w.highest
    \/ /\ w.highest - ctr < Width
       /\ (w.highest - ctr) \notin w.bitmap

\* Bug: the bit of a late counter is never set.
BugSet(w, ctr) ==
    IF ~w.seen_any \/ ctr > w.highest
    THEN [highest |-> ctr, seen_any |-> TRUE,
          bitmap |-> ShiftIn(w.bitmap, ctr - w.highest)]
    ELSE w

\* The window check_and_set leaves behind when it answers true.
set(w, ctr) ==
    LET newer == ~w.seen_any \/ ctr > w.highest
        bits  == IF ~w.seen_any THEN {0}
                 ELSE IF newer THEN ShiftIn(w.bitmap, ctr - w.highest)
                 ELSE w.bitmap \cup {w.highest - ctr}
    IN  [highest  |-> IF newer THEN ctr ELSE w.highest,
         bitmap   |-> bits,
         seen_any |-> TRUE]
=============================================================================
