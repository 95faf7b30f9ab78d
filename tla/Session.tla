------------------------------ MODULE Session ------------------------------
(***************************************************************************)
(* Two Session values of src/crypto.rs, one at each end of a link, over a  *)
(* medium that loses, duplicates, reorders and damages frames.  A peer is  *)
(* named by its transmit direction (tx_dir, 0 for the initiator).  The     *)
(* AEAD and the HKDF chain are abstract: a sealed body decrypts exactly    *)
(* under the key of its epoch and the nonce it was sealed with.  The plain *)
(* prefix (epoch and counter) that travels before the body is not covered  *)
(* by the tag, and the nonce holds only the low 7 bytes of the counter: a  *)
(* body whose prefix differs in the top counter byte still authenticates,  *)
(* and the window is then asked about the counter that was read.           *)
(***************************************************************************)
EXTENDS ReplayWindow

CONSTANTS RekeyEvery,   \* REKEY_EVERY_FRAMES (2^20 in the code)
          HardCap,      \* REKEY_HARD_CAP (2^24 in the code)
          NonceRange,   \* counters the nonce tells apart (2^56 in the code)
          CtrRange,     \* counters the prefix can hold (2^64 in the code)
          MaxEpoch      \* bound on the number of ratchets of one session

ASSUME SessionAssumption ==
    /\ RekeyEvery \in Nat \ {0}
    /\ HardCap \in Nat
    /\ RekeyEvery < HardCap
    /\ NonceRange \in Nat /\ HardCap <= NonceRange
    /\ CtrRange \in Nat /\ NonceRange <= CtrRange
    /\ MaxEpoch \in Nat

VARIABLES epoch,        \* Session::epoch, the position in the key chain
          tx_counter,   \* Session::tx_counter
          rx,           \* Session::rx, the replay window
          sent,         \* every frame ever put on the air, as sealed
          opened,       \* per peer, the frames open() returned Ok for, with
                        \* the prefix it read
          oks           \* per peer, how often open() returned Ok

vars == <<epoch, tx_counter, rx, sent, opened, oks>>

Peer == {0, 1}

Frame == [dir : Peer, epoch : Nat, ctr : 0 .. CtrRange - 1]

\* What seal() puts on the air: the counter never reaches RekeyEvery.
Sealed == [dir : Peer, epoch : Nat, ctr : 0 .. RekeyEvery - 1]

\* What a receiver may read before a body: as sealed, or damaged on the way.
Prefix == [epoch : 0 .. MaxEpoch, ctr : 0 .. CtrRange - 1]

Init ==
    /\ epoch = [p \in Peer |-> 0]
    /\ tx_counter = [p \in Peer |-> 0]
    /\ rx = [p \in Peer |-> new_window]
    /\ sent = {}
    /\ opened = [p \in Peer |-> {}]
    /\ oks = [p \in Peer |-> 0]

\* The next chain key and AEAD key; the counter and the window start over.
ratchet(p) ==
    /\ epoch[p] < MaxEpoch
    /\ epoch' = [epoch EXCEPT ![p] = @ + 1]
    /\ rx' = [rx EXCEPT ![p] = new_window]

\* A caller of the public ratchet().
Ratchet(p) ==
    /\ ratchet(p)
    /\ tx_counter' = [tx_counter EXCEPT ![p] = 0]
    /\ UNCHANGED <<sent, opened, oks>>

\* Bug: the routine ratchet is skipped and the counter just starts over.
BugSeal(p) ==
    /\ tx_counter[p] < HardCap
    /\ tx_counter' =
          [tx_counter EXCEPT ![p] = IF @ < RekeyEvery THEN @ + 1 ELSE 1]
    /\ sent' = sent \cup
           {[dir |-> p, epoch |-> epoch[p], ctr |-> tx_counter'[p] - 1]}
    /\ UNCHANGED <<epoch, rx, opened, oks>>

\* seal(): the hard cap is checked first, then the routine ratchet.
seal(p) ==
    /\ tx_counter[p] < HardCap
    /\ \/ /\ tx_counter[p] < RekeyEvery
          /\ UNCHANGED <<epoch, rx>>
          /\ tx_counter' = [tx_counter EXCEPT ![p] = @ + 1]
       \/ /\ tx_counter[p] >= RekeyEvery
          /\ ratchet(p)
          /\ tx_counter' = [tx_counter EXCEPT ![p] = 1]
    /\ sent' = sent \cup
           {[dir |-> p, epoch |-> epoch'[p], ctr |-> tx_counter'[p] - 1]}
    /\ UNCHANGED <<opened, oks>>

\* Bug: the direction byte of the nonce is left at zero.
BugMakeNonce(dir, ep, ctr) == <<0, ep, ctr % NonceRange>>

\* make_nonce(): direction, epoch and the low 7 bytes of the counter.
make_nonce(dir, ep, ctr) == <<dir, ep, ctr % NonceRange>>

\* Does the AEAD of peer p accept the body of frame s under the nonce it makes
\* from prefix x ?  (MeshError::Auth otherwise.)
authentic(p, x, s) ==
    /\ s.epoch = epoch[p]
    /\ make_nonce(1 - p, x.epoch, x.ctr) = make_nonce(s.dir, s.epoch, s.ctr)

\* open() answers Ok: the tag verifies and then the window takes the counter
\* of the prefix.
CanOpen(p, x, s) == authentic(p, x, s) /\ check(rx[p], x.ctr)

\* The frame peer p takes prefix x to announce.
Read(p, x) == [dir |-> 1 - p, epoch |-> x.epoch, ctr |-> x.ctr]

open(p, x, s) ==
    /\ CanOpen(p, x, s)
    /\ rx' = [rx EXCEPT ![p] = set(@, x.ctr)]
    /\ opened' = [opened EXCEPT ![p] = @ \cup {Read(p, x)}]
    /\ oks' = [oks EXCEPT ![p] = @ + 1]
    /\ UNCHANGED <<epoch, tx_counter, sent>>

\* Traffic alone, over a medium that damages nothing: nobody calls ratchet(),
\* as in the daemons of this crate.
Traffic == \E p \in Peer : seal(p) \/ \E s \in sent : open(p, s, s)

TrafficSpec == Init /\ [][Traffic]_vars

Next == \E p \in Peer :
          \/ seal(p)
          \/ Ratchet(p)
          \/ \E s \in sent, x \in Prefix : open(p, x, s)

Spec == Init /\ [][Next]_vars
-----------------------------------------------------------------------------
(* Properties *)

TypeOK ==
    /\ epoch \in [Peer -> 0 .. MaxEpoch]
    /\ tx_counter \in [Peer -> 0 .. RekeyEvery]
    /\ rx \in [Peer -> Window]
    /\ sent \in SUBSET Sealed
    /\ opened \in [Peer -> SUBSET Frame]
    /\ oks \in [Peer -> Nat]

\* A frame that open() has returned Ok for is never accepted again, with any
\* body, whatever was opened, sealed or ratcheted in between ("rejects replayed
\* or too-old counters").  The same body under another counter with the same
\* low 7 bytes is another frame to the window.
AcceptedOnce ==
    \A p \in Peer : \A f \in opened[p] : \A s \in sent : ~CanOpen(p, f, s)

\* Reordering costs nothing inside the window: a frame of the current epoch
\* that arrives as it was sealed, was never opened and lies less than Width
\* behind the newest counter read is still accepted, whatever was damaged
\* before it.
InWindowAccepted ==
    \A p \in Peer : \A s \in sent :
        /\ authentic(p, s, s)
        /\ s \notin opened[p]
        /\ s.ctr + Width > rx[p].highest
        => CanOpen(p, s, s)

\* What seal() emits next was never emitted before: every frame of p on the
\* air belongs to an earlier epoch or to a smaller counter of this one.
NonceFresh ==
    \A f \in sent :
        \/ f.epoch < epoch[f.dir]
        \/ f.epoch = epoch[f.dir] /\ f.ctr < tx_counter[f.dir]

\* The strengthening that makes AcceptedOnce inductive: the window of p records
\* exactly what p opened in its current epoch.  Nothing newer than highest was
\* opened, and within Width of highest the bitmap and opened agree.
WindowTracksOpened ==
    \A p \in Peer :
        /\ ~rx[p].seen_any => \A f \in opened[p] : f.epoch # epoch[p]
        /\ \A f \in opened[p] : f.epoch = epoch[p] => f.ctr <= rx[p].highest
        /\ rx[p].seen_any =>
              \A b \in Bits : b \in rx[p].bitmap <=>
                  [dir |-> 1 - p, epoch |-> epoch[p], ctr |-> rx[p].highest - b]
                      \in opened[p]

\* What is accepted carries a nonce the other end sealed with, and never one
\* of an epoch the receiver has not reached itself.
OpenedWasSent ==
    \A p \in Peer : \A f \in opened[p] :
        /\ f.dir = 1 - p /\ f.epoch <= epoch[p]
        /\ [f EXCEPT !.ctr = @ % NonceRange] \in sent

\* The promise of the session to the router: see OnceChannel.
Abstract == INSTANCE OnceChannel WITH
                delivered <- opened, count <- oks, Range <- NonceRange

\* The session implements the once-per-number channel: what open() hands up is
\* a body the other end sealed, under a number that agrees with the sealed one
\* in what the nonce holds, and no number is handed up twice, while the medium
\* loses, duplicates, reorders and damages prefixes at will.
ImplementsOnceChannel == Abstract!Spec

\* "Both peers derive the identical chain ..., so their epochs stay in
\* lock-step": the newest frame a peer sealed authenticates at the other end.
NewestFrameAuthentic ==
    \A f \in sent :
        f.epoch = epoch[f.dir] /\ f.ctr = tx_counter[f.dir] - 1
        => authentic(1 - f.dir, f, f)
=============================================================================
