--------------------------- MODULE SessionProofs ---------------------------
(***************************************************************************)
(* Proofs about a mesh link, from the bottom up: the secure session and    *)
(* its replay window (Session), also when ends restart (SessionRestart),   *)
(* how its ends come to share a key that no one else has (Handshake), the  *)
(* HELLO protocol that finds out whether the link is usable (MeshLink),    *)
(* and the compute exchange that travels in its sealed frames              *)
(* (MeshExchange): what its hashes, keys and nonces tell apart, and what   *)
(* holds of payments, batches, ledgers, bonds and beacons however the      *)
(* relay delivers their messages.                                          *)
(***************************************************************************)
EXTENDS SessionRestart, Handshake, MeshLink, MeshExchange, FiniteSetTheorems, TLAPS

USE DEF Peer

\* The window after check_and_set is again a window.
LEMMA SetType ==
    ASSUME NEW w \in Window, NEW c \in Nat, check(w, c)
    PROVE  set(w, c) \in Window
<1>1. 0 \in Bits
  BY WidthAssumption DEF Bits
<1>2. CASE ~w.seen_any
  BY <1>1, <1>2, Zenon DEF set, Window
<1>3. CASE w.seen_any /\ c > w.highest
  <2>1. ShiftIn(w.bitmap, c - w.highest) \in SUBSET Bits
    BY Zenon DEF ShiftIn
  <2> QED
    BY <1>3, <2>1, Zenon DEF set, Window
<1>4. CASE w.seen_any /\ ~(c > w.highest)
  <2>1. w.highest - c \in Bits
    BY <1>4, WidthAssumption DEF check, Window, Bits
  <2> QED
    BY <1>4, <2>1, Zenon DEF set, Window
<1> QED
  BY <1>2, <1>3, <1>4, Zenon

\* Counters are numbers.
LEMMA FrameCtr == \A f \in Frame : f.ctr \in Nat
<1>1. 0 .. CtrRange - 1 \subseteq Nat
  BY SessionAssumption
<1> QED
  BY <1>1, Zenon DEF Frame

\* A sealed counter is small enough for the nonce to hold it whole.
LEMMA NonceHoldsSealed ==
    ASSUME NEW s \in Sealed
    PROVE  s.ctr \in Nat /\ s.ctr % NonceRange = s.ctr
<1>1. s.ctr \in 0 .. RekeyEvery - 1
  BY Zenon DEF Sealed
<1>2. s.ctr \in Nat /\ s.ctr < NonceRange /\ NonceRange \in Nat
  BY <1>1, SessionAssumption
<1> HIDE DEF Sealed
<1>3. \A c, n \in Nat : c < n => c % n = c
  OBVIOUS
<1> QED
  BY <1>2, <1>3, Zenon

(* The frame peer p reads has the prefix that came with the body, and the  *)
(* body is the one sealed under its low counter.                           *)
ReadsAs(p, x, s) ==
    /\ Read(p, x) \in Frame
    /\ Read(p, x).dir = 1 - p /\ Read(p, x).epoch = epoch[p]
    /\ Read(p, x).ctr = x.ctr /\ x.ctr \in Nat
    /\ s = [dir |-> 1 - p, epoch |-> epoch[p], ctr |-> x.ctr % NonceRange]

\* What it means that a body authenticates under a prefix: it is the other
\* end's, of this epoch, and the prefix agrees with it in the low bytes.
LEMMA AuthenticReads ==
    ASSUME TypeOK, NEW p \in Peer, NEW s \in sent, NEW x,
           x.ctr \in 0 .. CtrRange - 1, authentic(p, x, s)
    PROVE  ReadsAs(p, x, s)
<1>1. s \in Sealed /\ s.epoch \in Nat
  BY Zenon DEF TypeOK, Sealed
<1>2. s.ctr % NonceRange = s.ctr
  BY <1>1, NonceHoldsSealed, Zenon
<1>3. s.epoch = epoch[p] /\ x.epoch = s.epoch /\ s.dir = 1 - p
      /\ x.ctr % NonceRange = s.ctr % NonceRange
  BY DEF authentic, make_nonce
<1>4. s = [dir |-> s.dir, epoch |-> s.epoch, ctr |-> s.ctr]
  BY <1>1, Zenon DEF Sealed
<1>5. 1 - p \in Peer
  OBVIOUS
<1>6. x.ctr \in Nat
  BY SessionAssumption
<1>7. Read(p, x) \in Frame
  BY <1>1, <1>3, <1>5, Zenon DEF Read, Frame
<1> QED
  BY <1>2, <1>3, <1>4, <1>6, <1>7, Zenon DEF Read, ReadsAs

\* Every operation keeps the state well typed.
LEMMA TypeStep == TypeOK /\ [Next]_vars => TypeOK'
<1> SUFFICES ASSUME TypeOK, [Next]_vars PROVE TypeOK'
  BY Zenon
<1> USE SessionAssumption, WidthAssumption
<1>w. new_window \in Window
  BY Zenon DEF new_window, Window
<1>1. ASSUME NEW p \in Peer, seal(p) PROVE TypeOK'
  <2>1. epoch' \in [Peer -> 0 .. MaxEpoch] /\ rx' \in [Peer -> Window]
    BY <1>1, <1>w DEF TypeOK, seal, ratchet
  <2>2. tx_counter' \in [Peer -> 0 .. RekeyEvery] /\ tx_counter'[p] >= 1
    BY <1>1 DEF TypeOK, seal
  <2>3. [dir |-> p, epoch |-> epoch'[p], ctr |-> tx_counter'[p] - 1] \in Sealed
    BY <2>1, <2>2 DEF Sealed
  <2> QED
    BY <1>1, <2>1, <2>2, <2>3, Zenon DEF TypeOK, seal
<1>2. ASSUME NEW p \in Peer, Ratchet(p) PROVE TypeOK'
  BY <1>2, <1>w DEF TypeOK, Ratchet, ratchet
<1>3. ASSUME NEW p \in Peer, NEW s \in sent, NEW x \in Prefix, open(p, x, s)
      PROVE  TypeOK'
  <2>1. rx[p] \in Window /\ x.ctr \in 0 .. CtrRange - 1 /\ authentic(p, x, s)
    BY <1>3, Zenon DEF TypeOK, Prefix, open, CanOpen
  <2>2. Read(p, x) \in Frame /\ x.ctr \in Nat
    BY <2>1, AuthenticReads, Zenon DEF ReadsAs
  <2>3. set(rx[p], x.ctr) \in Window
    BY <1>3, <2>1, <2>2, SetType, Zenon DEF open, CanOpen
  <2>4. oks' \in [Peer -> Nat]
    BY <1>3 DEF TypeOK, open
  <2> QED
    BY <1>3, <2>2, <2>3, <2>4, Zenon DEF TypeOK, open
<1>4. CASE UNCHANGED vars
  BY <1>4, Zenon DEF TypeOK, vars
<1> QED
  BY <1>1, <1>2, <1>3, <1>4, Zenon DEF Next

\* The state stays well typed; in particular the counter never
\* passes RekeyEvery, so the hard cap of seal() is never met.
THEOREM TypeCorrect == Spec => []TypeOK
<1>1. Init => TypeOK
  BY SessionAssumption, WidthAssumption
     DEF Init, TypeOK, new_window, Window, Sealed, Frame, Bits
<1>2. TypeOK /\ [Next]_vars => TypeOK'
  BY TypeStep, Zenon
<1> QED
  BY <1>1, <1>2, PTL DEF Spec
-----------------------------------------------------------------------------
(* The inductive invariant behind AcceptedOnce. *)

\* The window, the opened frames and the sent frames agree.
WInv == TypeOK /\ WindowTracksOpened /\ OpenedWasSent

IInv == WInv /\ NonceFresh

\* Window w records exactly the counters S.
Records(w, S) ==
    /\ ~w.seen_any => S = {}
    /\ \A d \in S : d <= w.highest
    /\ w.seen_any => \A b \in Bits : b \in w.bitmap <=> w.highest - b \in S

\* check_and_set at the level of the set of accepted counters: if the window
\* records exactly the counters S of this epoch, the new one records S and c.
LEMMA SetTracks ==
    ASSUME NEW w \in Window, NEW c \in Nat, check(w, c), NEW S \in SUBSET Nat,
           Records(w, S)
    PROVE  c \notin S /\ Records(set(w, c), S \cup {c}) /\ set(w, c).seen_any
<1> SUFFICES /\ c \notin S
             /\ \A d \in S \cup {c} : d <= set(w, c).highest
             /\ \A b \in Bits : b \in set(w, c).bitmap
                                 <=> set(w, c).highest - b \in S \cup {c}
  <2>1. set(w, c).seen_any
    BY Zenon DEF set, Window
  <2> QED
    BY <2>1, Zenon DEF Records
<1> USE WidthAssumption DEF Records
<1>1. CASE ~w.seen_any
  BY <1>1 DEF set, Window, Bits
<1>2. CASE w.seen_any /\ c > w.highest
  <2>1. set(w, c).highest = c
        /\ set(w, c).bitmap = ShiftIn(w.bitmap, c - w.highest)
    BY <1>2, Zenon DEF set
  <2>2. ASSUME NEW b \in Bits
        PROVE  b \in ShiftIn(w.bitmap, c - w.highest) <=> c - b \in S \cup {c}
    <3>1. CASE b = 0
      BY <3>1 DEF ShiftIn, Bits
    <3>2. CASE b # 0 /\ b - (c - w.highest) \in Bits
      BY <3>2, <1>2 DEF ShiftIn, Bits, Window
    <3>3. CASE b # 0 /\ b - (c - w.highest) \notin Bits
      <4>1. c - b > w.highest
        BY <3>3, <1>2 DEF Bits, Window
      <4> QED
        BY <3>3, <4>1, <1>2 DEF ShiftIn, Bits, Window
    <3> QED
      BY <3>1, <3>2, <3>3, Zenon
  <2> QED
    BY <1>2, <2>1, <2>2 DEF Window
<1>3. CASE w.seen_any /\ ~(c > w.highest)
  <2>1. set(w, c).highest = w.highest
        /\ set(w, c).bitmap = w.bitmap \cup {w.highest - c}
    BY <1>3, Zenon DEF set
  <2>2. w.highest - c \in Bits /\ w.highest - c \notin w.bitmap
    BY <1>3 DEF check, Window, Bits
  <2>3. c \notin S
    BY <1>3, <2>2 DEF Window, Bits
  <2>4. ASSUME NEW b \in Bits
        PROVE  b \in set(w, c).bitmap <=> w.highest - b \in S \cup {c}
    BY <1>3, <2>1, <2>4 DEF Window, Bits
  <2> QED
    BY <1>3, <2>1, <2>3, <2>4 DEF Window
<1> QED
  BY <1>1, <1>2, <1>3, Zenon
\* The counters peer p has opened in its current epoch.
Ctrs(p) == {c \in Nat : [dir |-> 1 - p, epoch |-> epoch[p], ctr |-> c] \in opened[p]}

\* Under the invariant an opened frame of the current epoch is its counter.
LEMMA OpenedIsCtrs ==
    ASSUME WInv, NEW p \in Peer, NEW f \in opened[p], f.epoch = epoch[p]
    PROVE  f.ctr \in Ctrs(p)
<1>1. f \in Frame /\ f.dir = 1 - p
  BY Zenon DEF WInv, TypeOK, OpenedWasSent
<1>2. f = [dir |-> 1 - p, epoch |-> epoch[p], ctr |-> f.ctr]
  BY <1>1, Zenon DEF Frame
<1>3. f.ctr \in Nat
  BY <1>1, FrameCtr, Zenon
<1> QED
  BY <1>2, <1>3, Zenon DEF Ctrs

\* What the invariant says of one window, in terms of Ctrs.
LEMMA WindowOfCtrs ==
    ASSUME WInv, NEW p \in Peer
    PROVE  Records(rx[p], Ctrs(p))
<1>1. \A d \in Ctrs(p) : d <= rx[p].highest
  BY Zenon DEF WInv, WindowTracksOpened, Ctrs
<1>2. ~rx[p].seen_any => Ctrs(p) = {}
  BY Zenon DEF WInv, WindowTracksOpened, Ctrs
<1>3. ASSUME rx[p].seen_any, NEW b \in Bits
      PROVE  b \in rx[p].bitmap <=> rx[p].highest - b \in Ctrs(p)
  <2> DEFINE f == [dir |-> 1 - p, epoch |-> epoch[p], ctr |-> rx[p].highest - b]
  <2>1. b \in rx[p].bitmap <=> f \in opened[p]
    BY <1>3, Zenon DEF WInv, WindowTracksOpened
  <2>2. f \in opened[p] => rx[p].highest - b \in Nat
    <3>1. f \in opened[p] => f \in Frame
      BY Zenon DEF WInv, TypeOK
    <3> QED
      BY <3>1, FrameCtr, Zenon
  <2> QED
    BY <2>1, <2>2, Zenon DEF Ctrs
<1> QED
  BY <1>1, <1>2, <1>3, Zenon DEF Records

\* The invariant holds of two fresh sessions.
LEMMA InitIInv == Init => IInv
<1> SUFFICES ASSUME Init PROVE IInv
  BY Zenon
<1>1. TypeOK
  BY SessionAssumption, WidthAssumption
     DEF Init, TypeOK, new_window, Window, Sealed, Frame, Bits
<1>2. WindowTracksOpened
  BY Zenon DEF Init, WindowTracksOpened, new_window
<1>3. OpenedWasSent /\ NonceFresh
  BY Zenon DEF Init, OpenedWasSent, NonceFresh
<1> QED
  BY <1>1, <1>2, <1>3, Zenon DEF IInv, WInv
\* Nothing of the next epoch was opened yet.
LEMMA OlderThanNext ==
    ASSUME WInv, NEW p \in Peer, NEW f \in opened[p]
    PROVE  f.epoch # epoch[p] + 1
<1>1. f.epoch <= epoch[p]
  BY Zenon DEF WInv, OpenedWasSent
<1>2. f.epoch \in Nat
  <2>1. f \in Frame
    BY Zenon DEF WInv, TypeOK
  <2> QED
    BY <2>1, Zenon DEF Frame
<1>3. epoch[p] \in 0 .. MaxEpoch
  BY Zenon DEF WInv, TypeOK
<1> QED
  BY <1>1, <1>2, <1>3, SessionAssumption

\* Sealing, with or without the routine ratchet.
LEMMA SealStep ==
    ASSUME WInv, TypeOK', NEW p \in Peer, seal(p)
    PROVE  WInv' /\ (NonceFresh => NonceFresh')
<1> USE SessionAssumption, WidthAssumption
<1> DEFINE g == [dir |-> p, epoch |-> epoch'[p], ctr |-> tx_counter'[p] - 1]
<1>1. sent' = sent \cup {g} /\ opened' = opened
  BY Zenon DEF seal
<1>2. \A q \in Peer : q # p => epoch'[q] = epoch[q] /\ rx'[q] = rx[q]
                             /\ tx_counter'[q] = tx_counter[q]
  BY Zenon DEF seal, ratchet, WInv, TypeOK
<1>3. \/ epoch'[p] = epoch[p] /\ rx'[p] = rx[p]
         /\ tx_counter'[p] = tx_counter[p] + 1
      \/ epoch'[p] = epoch[p] + 1 /\ rx'[p] = new_window
         /\ tx_counter'[p] = 1
  BY Zenon DEF seal, ratchet, WInv, TypeOK
<1>4. NonceFresh => NonceFresh'
  BY <1>1, <1>2, <1>3 DEF WInv, TypeOK, NonceFresh, Sealed
<1>5. OpenedWasSent'
  BY <1>1, <1>2, <1>3 DEF WInv, TypeOK, OpenedWasSent, Frame
<1>6. WindowTracksOpened'
  <2>1. CASE epoch'[p] = epoch[p] /\ rx'[p] = rx[p]
    BY <2>1, <1>1, <1>2 DEF WInv, WindowTracksOpened
  <2>2. CASE epoch'[p] = epoch[p] + 1 /\ rx'[p] = new_window
    <3>1. \A f \in opened[p] : f.epoch # epoch'[p]
      BY <2>2, OlderThanNext, Zenon
    <3> QED
      BY <2>2, <3>1, <1>1, <1>2 DEF WInv, WindowTracksOpened, new_window
  <2> QED
    BY <2>1, <2>2, <1>3, Zenon
<1> QED
  BY <1>4, <1>5, <1>6, Zenon DEF WInv

\* The public ratchet(): the old epoch's frames can never be opened again.
LEMMA RatchetStep ==
    ASSUME WInv, TypeOK', NEW p \in Peer, Ratchet(p)
    PROVE  WInv' /\ (NonceFresh => NonceFresh')
<1> USE SessionAssumption, WidthAssumption
<1>1. sent' = sent /\ opened' = opened
  BY Zenon DEF Ratchet
<1>2. \A q \in Peer : q # p => epoch'[q] = epoch[q] /\ rx'[q] = rx[q]
                             /\ tx_counter'[q] = tx_counter[q]
  BY Zenon DEF Ratchet, ratchet, WInv, TypeOK
<1>3. epoch'[p] = epoch[p] + 1 /\ rx'[p] = new_window
  BY Zenon DEF Ratchet, ratchet, WInv, TypeOK
<1>4. NonceFresh => NonceFresh'
  BY <1>1, <1>2, <1>3 DEF WInv, TypeOK, NonceFresh, Sealed
<1>5. OpenedWasSent'
  BY <1>1, <1>2, <1>3 DEF WInv, TypeOK, OpenedWasSent, Frame
<1>6. WindowTracksOpened'
  <2>1. \A f \in opened[p] : f.epoch # epoch'[p]
    BY <1>3, OlderThanNext, Zenon
  <2> QED
    BY <2>1, <1>1, <1>2, <1>3 DEF WInv, WindowTracksOpened, new_window
<1> QED
  BY <1>4, <1>5, <1>6, Zenon DEF WInv

\* Opening: the accepted frame was new, and the window records it.
LEMMA OpenStep ==
    ASSUME WInv, TypeOK', NEW p \in Peer, NEW s \in sent, NEW x \in Prefix,
           open(p, x, s)
    PROVE  /\ WInv' /\ (NonceFresh => NonceFresh')
           /\ Read(p, x) \notin opened[p]
           /\ s = [dir |-> 1 - p, epoch |-> epoch[p], ctr |-> x.ctr % NonceRange]
<1> USE WidthAssumption
<1> DEFINE S == Ctrs(p)
           w == rx[p]
           f == Read(p, x)
           h == set(w, f.ctr).highest
<1>0. x.ctr \in 0 .. CtrRange - 1 /\ authentic(p, x, s) /\ check(w, x.ctr)
  BY Zenon DEF Prefix, open, CanOpen
<1>r. /\ f \in Frame /\ f.dir = 1 - p /\ f.epoch = epoch[p]
      /\ f.ctr = x.ctr /\ x.ctr \in Nat
      /\ s = [dir |-> 1 - p, epoch |-> epoch[p], ctr |-> x.ctr % NonceRange]
  <2>1. TypeOK
    BY Zenon DEF WInv
  <2>2. ReadsAs(p, x, s)
    BY <1>0, <2>1, AuthenticReads, Zenon
  <2>3. QED  BY <2>2, Zenon DEF ReadsAs
<1>7. /\ sent' = sent /\ epoch' = epoch /\ tx_counter' = tx_counter
      /\ rx'[p] = set(w, f.ctr) /\ opened'[p] = opened[p] \cup {f}
      /\ \A q \in Peer : q # p => rx'[q] = rx[q] /\ opened'[q] = opened[q]
  BY <1>r, Zenon DEF open, WInv, TypeOK
<1> HIDE DEF f
<1>1. w \in Window /\ f.ctr \in Nat
  BY <1>r, Zenon DEF WInv, TypeOK
<1>2. check(w, f.ctr)
  BY <1>0, <1>r, Zenon
<1>3. f = [dir |-> 1 - p, epoch |-> epoch[p], ctr |-> f.ctr]
  BY <1>r, Zenon DEF Frame
<1>4. S \in SUBSET Nat
  BY Zenon DEF Ctrs
<1>5. /\ f.ctr \notin S
      /\ set(w, f.ctr).seen_any
      /\ \A d \in S \cup {f.ctr} : d <= h
      /\ \A b \in Bits : b \in set(w, f.ctr).bitmap <=> h - b \in S \cup {f.ctr}
  <2>1. Records(w, S)
    BY WindowOfCtrs, Zenon
  <2>2. /\ f.ctr \notin S /\ set(w, f.ctr).seen_any
        /\ Records(set(w, f.ctr), S \cup {f.ctr})
    <3> HIDE DEF S, w
    <3> QED
      BY <1>1, <1>2, <1>4, <2>1, SetTracks, Zenon
  <2> QED
    BY <2>2, Zenon DEF Records
<1>6. f \notin opened[p]
  BY <1>r, <1>5, OpenedIsCtrs, Zenon
<1>8. NonceFresh => NonceFresh'
  BY <1>7, Zenon DEF WInv, NonceFresh
<1>9. OpenedWasSent'
  <2>1. [f EXCEPT !.ctr = @ % NonceRange] = s
    BY <1>3, <1>r
  <2>2. f.epoch <= epoch[p]
    BY <1>r DEF WInv, TypeOK
  <2>3. ASSUME NEW q \in Peer, NEW g \in opened'[q]
        PROVE  /\ g.dir = 1 - q /\ g.epoch <= epoch'[q]
               /\ [g EXCEPT !.ctr = @ % NonceRange] \in sent'
    <3>1. CASE g \in opened[q]
      BY <1>7, <2>3, <3>1, Zenon DEF WInv, OpenedWasSent
    <3>2. CASE q = p /\ g = f
      BY <1>7, <1>r, <2>1, <2>2, <3>2, Zenon
    <3> QED
      BY <1>7, <2>3, <3>1, <3>2, Zenon
  <2> QED
    BY <2>3, Zenon DEF OpenedWasSent
<1>10. WindowTracksOpened'
  <2>1. rx'[p].seen_any
    BY <1>5, <1>7, Zenon
  <2>2. \A g \in opened'[p] : g.epoch = epoch[p] => g.ctr <= rx'[p].highest
    BY <1>5, <1>7, OpenedIsCtrs, Zenon
  <2>3. ASSUME NEW b \in Bits
        PROVE  b \in rx'[p].bitmap <=>
               [dir |-> 1 - p, epoch |-> epoch[p], ctr |-> h - b] \in opened'[p]
    <3> DEFINE g == [dir |-> 1 - p, epoch |-> epoch[p], ctr |-> h - b]
    <3>1. h - b \in S <=> g \in opened[p]
      <4>1. g \in opened[p] => g.ctr \in S
        BY OpenedIsCtrs, Zenon
      <4>2. h - b \in S => g \in opened[p]
        BY Zenon DEF Ctrs
      <4> QED
        BY <4>1, <4>2, Zenon
    <3>2. h - b = f.ctr <=> g = f
      BY <1>3
    <3> QED
      BY <1>5, <1>7, <3>1, <3>2, Zenon
  <2>4. ASSUME NEW q \in Peer, q # p
        PROVE  /\ ~rx'[q].seen_any => \A g \in opened'[q] : g.epoch # epoch'[q]
               /\ \A g \in opened'[q] : g.epoch = epoch'[q] => g.ctr <= rx'[q].highest
               /\ rx'[q].seen_any =>
                    \A b \in Bits : b \in rx'[q].bitmap <=>
                        [dir |-> 1 - q, epoch |-> epoch'[q], ctr |-> rx'[q].highest - b]
                            \in opened'[q]
    BY <2>4, <1>7, Zenon DEF WInv, WindowTracksOpened
  <2> QED
    BY <2>1, <2>2, <2>3, <2>4, <1>7, Zenon DEF WindowTracksOpened
<1> QED
  BY <1>6, <1>8, <1>9, <1>10, <1>r, Zenon DEF WInv, f
\* Every step of a session preserves the invariant.
LEMMA IInvStep == IInv /\ [Next]_vars => IInv'
<1> SUFFICES ASSUME IInv, [Next]_vars PROVE IInv'
  BY Zenon
<1>t. TypeOK'
  BY TypeStep, Zenon DEF IInv, WInv
<1>1. ASSUME NEW p \in Peer, seal(p) PROVE IInv'
  BY <1>1, <1>t, SealStep, Zenon DEF IInv
<1>2. ASSUME NEW p \in Peer, Ratchet(p) PROVE IInv'
  BY <1>2, <1>t, RatchetStep, Zenon DEF IInv
<1>3. ASSUME NEW p \in Peer, NEW s \in sent, NEW x \in Prefix, open(p, x, s)
      PROVE  IInv'
  BY <1>3, <1>t, OpenStep, Zenon DEF IInv
<1>4. CASE UNCHANGED vars
  BY <1>4, <1>t, Zenon DEF vars, IInv, WInv, WindowTracksOpened, OpenedWasSent, NonceFresh
<1> QED
  BY <1>1, <1>2, <1>3, <1>4, Zenon DEF Next

\* The window, the opened frames and the sent frames agree in every state.
THEOREM Inductive == Spec => []IInv
<1> QED
  BY InitIInv, IInvStep, PTL DEF Spec

\* seal() never emits the same (direction, epoch, counter) twice.
THEOREM NoncesFresh == Spec => []NonceFresh
<1>1. IInv => NonceFresh
  BY Zenon DEF IInv
<1> QED
  BY <1>1, Inductive, PTL

\* A frame that was opened is refused by check_and_set or by the AEAD for ever.
LEMMA AcceptsOnce == WInv => AcceptedOnce
<1> SUFFICES ASSUME WInv, NEW p \in Peer, NEW f \in opened[p], NEW s \in sent,
                    CanOpen(p, f, s)
             PROVE  FALSE
  BY Zenon DEF AcceptedOnce
<1>1. f.epoch = epoch[p] /\ check(rx[p], f.ctr)
  BY DEF CanOpen, authentic, make_nonce
<1>2. f \in Frame /\ f.ctr \in Nat /\ rx[p] \in Window
  BY FrameCtr, Zenon DEF WInv, TypeOK
<1>3. rx[p].seen_any /\ f.ctr <= rx[p].highest
  BY <1>1, Zenon DEF WInv, WindowTracksOpened
<1>4. rx[p].highest - f.ctr < Width /\ (rx[p].highest - f.ctr) \notin rx[p].bitmap
  BY <1>1, <1>2, <1>3 DEF check, Window
<1>5. rx[p].highest - f.ctr \in Bits
  BY <1>2, <1>3, <1>4, WidthAssumption DEF Bits, Window
<1>6. f.ctr \in Ctrs(p)
  BY <1>1, OpenedIsCtrs, Zenon
<1>7. rx[p].highest - (rx[p].highest - f.ctr) = f.ctr
  BY <1>2 DEF Window
<1> QED
  BY <1>3, <1>4, <1>5, <1>6, <1>7, WindowOfCtrs, Zenon DEF Records

\* No frame is accepted twice under one counter, for every width, rekey period
\* and nonce size, although prefixes are damaged on the way.
THEOREM NoReplay == Spec => []AcceptedOnce
<1> QED
  BY AcceptsOnce, Inductive, PTL DEF IInv

\* A frame that arrives as sealed and lies less than Width behind the newest
\* counter read is never lost to the window, for every width and rekey period.
THEOREM ReorderingIsFree == Spec => []InWindowAccepted
<1>1. IInv => InWindowAccepted
  <2> SUFFICES ASSUME IInv, NEW p \in Peer, NEW f \in sent, authentic(p, f, f),
                      f \notin opened[p], f.ctr + Width > rx[p].highest
               PROVE  CanOpen(p, f, f)
    BY Zenon DEF InWindowAccepted
  <2>0. f \in Sealed /\ rx[p] \in Window
    BY Zenon DEF IInv, WInv, TypeOK
  <2>1. f.ctr \in Nat /\ rx[p] \in Window
    BY <2>0, NonceHoldsSealed, Zenon
  <2>a. f.dir = 1 - p /\ f.epoch = epoch[p]
    BY DEF authentic, make_nonce
  <2>2. f = [dir |-> 1 - p, epoch |-> epoch[p], ctr |-> f.ctr]
    BY <2>0, <2>a, Zenon DEF Sealed
  <2>3. f.ctr \notin Ctrs(p)
    BY <2>2, Zenon DEF Ctrs
  <2>4. CASE rx[p].seen_any /\ ~(f.ctr > rx[p].highest)
    <3>1. rx[p].highest - f.ctr \in Bits
          /\ rx[p].highest - (rx[p].highest - f.ctr) = f.ctr
      BY <2>1, <2>4, WidthAssumption DEF Bits, Window
    <3>2. (rx[p].highest - f.ctr) \notin rx[p].bitmap
      BY <2>3, <2>4, <3>1, WindowOfCtrs, Zenon DEF IInv, Records
    <3> QED
      BY <2>1, <3>1, <3>2, WidthAssumption DEF CanOpen, check, Window, Bits
  <2> QED
    BY <2>4, Zenon DEF CanOpen, check
<1> QED
  BY <1>1, Inductive, PTL

\* The session implements the accept-once channel.
THEOREM Refinement == Spec => ImplementsOnceChannel
<1>1. Init => Abstract!Init
  BY Zenon DEF Init, Abstract!Init, Abstract!Peer
<1>2. IInv /\ [Next]_vars => [Abstract!Next]_<<sent, opened, oks>>
  <2> SUFFICES ASSUME IInv, [Next]_vars
               PROVE  [Abstract!Next]_<<sent, opened, oks>>
    BY Zenon
  <2>1. ASSUME NEW p \in Peer, seal(p) PROVE [Abstract!Next]_<<sent, opened, oks>>
    <3> DEFINE g == [dir |-> p, epoch |-> epoch'[p], ctr |-> tx_counter'[p] - 1]
    <3>1. sent' = sent \cup {g} /\ opened' = opened /\ oks' = oks
      BY <2>1, Zenon DEF seal
    <3>2. g \in sent' /\ g.dir \in Abstract!Peer
      BY <3>1, Zenon DEF Abstract!Peer
    <3>3. g \notin sent
      BY <2>1, SessionAssumption
         DEF seal, ratchet, IInv, WInv, TypeOK, NonceFresh, Sealed
    <3> QED
      BY <3>1, <3>2, <3>3, Zenon DEF Abstract!Next, Abstract!Send
  <2>2. ASSUME NEW p \in Peer, Ratchet(p)
        PROVE  [Abstract!Next]_<<sent, opened, oks>>
    BY <2>2, Zenon DEF Ratchet
  <2>3. ASSUME NEW p \in Peer, NEW s \in sent, NEW x \in Prefix, open(p, x, s)
        PROVE  [Abstract!Next]_<<sent, opened, oks>>
    <3>1. TypeOK'
      BY TypeStep, Zenon DEF IInv, WInv
    <3>2. /\ Read(p, x) \notin opened[p]
          /\ s = [dir |-> 1 - p, epoch |-> epoch[p], ctr |-> x.ctr % NonceRange]
      BY <2>3, <3>1, OpenStep, Zenon DEF IInv
    <3>3. p # s.dir /\ p \in Abstract!Peer /\ s.ctr = x.ctr % NonceRange
      BY <3>2 DEF Abstract!Peer
    <3>4. x.epoch = epoch[p]
      BY <2>3 DEF open, CanOpen, authentic, make_nonce
    <3>5. [s EXCEPT !.ctr = x.ctr] = Read(p, x) /\ Read(p, x).ctr = x.ctr
      BY <3>2, <3>4 DEF Read
    <3>6. /\ opened' = [opened EXCEPT ![p] = @ \cup {Read(p, x)}]
          /\ oks' = [oks EXCEPT ![p] = @ + 1] /\ sent' = sent
      BY <2>3, Zenon DEF open
    <3>7. Abstract!Deliver(p, s, x.ctr)
      BY <3>2, <3>3, <3>5, <3>6, Zenon DEF Abstract!Deliver
    <3>8. Read(p, x) \in opened'[p]
      BY <3>6, Zenon DEF IInv, WInv, TypeOK
    <3> QED
      BY <3>3, <3>5, <3>7, <3>8, Zenon DEF Abstract!Next
  <2>4. CASE UNCHANGED vars
    BY <2>4, Zenon DEF vars
  <2> QED
    BY <2>1, <2>2, <2>3, <2>4, Zenon DEF Next
<1> QED
  BY <1>1, <1>2, Inductive, PTL DEF Spec, ImplementsOnceChannel, Abstract!Spec

-----------------------------------------------------------------------------
(* Restarts.  A restarted end counts from 0 again, so NonceFresh is lost;   *)
(* what AcceptedOnce rests on does not need it.                             *)

(* A restart empties the window together with what it had recorded. *)
LEMMA RestartStep ==
    ASSUME WInv, NEW p \in Peer, Restart(p)
    PROVE  WInv'
<1>0. rx'[p] = new_window /\ opened'[p] = {} /\ sent' = sent
  BY Zenon DEF Restart, WInv, TypeOK
<1>1. ASSUME NEW q \in Peer, q # p
      PROVE  epoch'[q] = epoch[q] /\ rx'[q] = rx[q] /\ opened'[q] = opened[q]
  BY <1>1, Zenon DEF Restart, WInv, TypeOK
<1>2. 0 \in 0 .. MaxEpoch /\ 0 \in 0 .. RekeyEvery /\ 0 \in Nat
  BY SessionAssumption
<1>3. new_window \in Window
  BY Zenon DEF new_window, Window
<1>4. TypeOK'
  BY <1>2, <1>3, Zenon DEF Restart, WInv, TypeOK
<1>5. WindowTracksOpened'
  <2>0. new_window.seen_any = FALSE
    BY Zenon DEF new_window
  <2>1. ~rx'[p].seen_any /\ opened'[p] = {}
    BY <1>0, <2>0, Zenon
  <2>2. ASSUME NEW q \in Peer, q # p
        PROVE  /\ ~rx'[q].seen_any => \A g \in opened'[q] : g.epoch # epoch'[q]
               /\ \A g \in opened'[q] : g.epoch = epoch'[q] => g.ctr <= rx'[q].highest
               /\ rx'[q].seen_any =>
                    \A b \in Bits : b \in rx'[q].bitmap <=>
                        [dir |-> 1 - q, epoch |-> epoch'[q], ctr |-> rx'[q].highest - b]
                            \in opened'[q]
    BY <2>2, <1>1, Zenon DEF WInv, WindowTracksOpened
  <2> QED
    BY <2>1, <2>2, Zenon DEF WindowTracksOpened
<1>6. OpenedWasSent'
  BY <1>0, <1>1, Zenon DEF WInv, OpenedWasSent
<1> QED
  BY <1>4, <1>5, <1>6, Zenon DEF WInv

(* Within one life of an end no counter is accepted twice, although the peer *)
(* restarts and seals the same counters under the same key again, and       *)
(* frames of former lives are still in the air (main() of trios_meshd).     *)
THEOREM NoReplayAcrossRestarts == WireSpec => []AcceptedOnce
<1>1. RestartInit => WInv
  BY InitIInv, Zenon DEF RestartInit, IInv
<1>2. WInv /\ [WireNext]_rvars => WInv'
  <2> SUFFICES ASSUME WInv, [WireNext]_rvars PROVE WInv'
    BY Zenon
  <2>1. ASSUME NEW p \in Peer, Restart(p) PROVE WInv'
    BY <2>1, RestartStep, Zenon
  <2>2. ASSUME NEW p \in Peer, Beacon(p) PROVE WInv'
    <3>1. seal(p) /\ [Next]_vars
      BY <2>2, Zenon DEF Beacon, Next
    <3>2. TypeOK'
      BY <3>1, TypeStep, Zenon DEF WInv
    <3> QED
      BY <3>1, <3>2, SealStep, Zenon
  <2>3. ASSUME NEW p \in Peer, NEW s \in sent, NEW x \in Prefix, Receive(p, x, s)
        PROVE  WInv'
    <3>1. open(p, x, s) /\ [Next]_vars
      BY <2>3, Zenon DEF Receive, Next
    <3>2. TypeOK'
      BY <3>1, TypeStep, Zenon DEF WInv
    <3> QED
      BY <3>1, <3>2, OpenStep, Zenon
  <2>4. CASE UNCHANGED rvars
    <3>1. UNCHANGED vars
      BY <2>4, Zenon DEF rvars
    <3> QED
      BY <3>1, Zenon
         DEF vars, WInv, TypeOK, WindowTracksOpened, OpenedWasSent, CanOpen
  <2> QED
    BY <2>1, <2>2, <2>3, <2>4, Zenon DEF WireNext
<1> QED
  BY <1>1, <1>2, AcceptsOnce, PTL DEF WireSpec

-----------------------------------------------------------------------------
(* The HELLO protocol. *)

(* A table with an entry for every node. *)
OnNodes(f) == f = [i \in Node |-> f[i]]

MetricsKept == OnNodes(forward) /\ OnNodes(reverse) /\ OnNodes(misses)

(* Every step that is not a tick leaves the estimates and the misses alone. *)
LEMMA OnlyTicksMeasure ==
    ASSUME [LinkNext]_linkVars
    PROVE  UNCHANGED metric \/ \E i \in Node : tick(i)
BY Zenon DEF LinkNext, linkVars, metric, receive, Lose, SetDrop, SetCut, Calm

(* A neighbour that missed FAST_FAIL_MISSES HELLOs is unusable, whatever    *)
(* its last report said of the forward direction (force_dead).              *)
THEOREM SilenceKills == LinkSpec => []SilentIsDead
<1> DEFINE Inv == MetricsKept /\ SilentIsDead
<1>1. LinkInit => Inv
  <2> SUFFICES ASSUME LinkInit PROVE Inv
    BY Zenon
  <2>1. MetricsKept
    BY Zenon DEF LinkInit, MetricsKept, OnNodes
  <2>2. \A i \in Node : \A p \in Peers(i) : misses[i][p] = 0
    BY Zenon DEF LinkInit
  <2>3. QED  BY <2>1, <2>2 DEF SilentIsDead, FAST_FAIL_MISSES
<1>2. Inv /\ [LinkNext]_linkVars => Inv'
  <2> SUFFICES ASSUME Inv, [LinkNext]_linkVars PROVE Inv'
    BY Zenon
  <2>1. CASE UNCHANGED metric
    BY <2>1, Zenon DEF metric, MetricsKept, OnNodes, SilentIsDead, Alive
  <2>2. ASSUME NEW j \in Node, tick(j)
        PROVE  Inv'
    <3>0. PICK missed, mj, rj, fj :
            /\ \A p \in Peers(j) : mj[p] = IF fails(missed[p]) THEN FAST_FAIL_MISSES ELSE missed[p]
            /\ \A p \in Peers(j) : rj[p] = IF fails(missed[p]) THEN 0 ELSE rj[p]
            /\ misses' = [misses EXCEPT ![j] = mj]
            /\ reverse' = [reverse EXCEPT ![j] = rj]
            /\ forward' = [forward EXCEPT ![j] = fj]
      <4> DEFINE hears(p) == p \in seen[j] /\ p \notin file[j]
                 they(p)  == p \in they_heard[j] /\ p \notin file[j]
                 missed(p) == IF hears(p) THEN 0 ELSE misses[j][p] + 1
                 ms == [p \in Peers(j) |-> missed(p)]
                 mj == [p \in Peers(j) |-> IF fails(missed(p)) THEN FAST_FAIL_MISSES ELSE missed(p)]
                 rj == [p \in Peers(j) |-> killed(record(reverse[j][p], hears(p)), missed(p))]
                 fj == [p \in Peers(j) |-> killed(record(forward[j][p], they(p)), missed(p))]
      <4>1. /\ misses' = [misses EXCEPT ![j] = mj]
            /\ reverse' = [reverse EXCEPT ![j] = rj]
            /\ forward' = [forward EXCEPT ![j] = fj]
        BY <2>2, Zenon DEF tick
      <4> HIDE DEF missed, hears, they
      <4>2. \A p \in Peers(j) : mj[p] = IF fails(ms[p]) THEN FAST_FAIL_MISSES ELSE ms[p]
        BY Zenon
      <4>3. \A p \in Peers(j) : rj[p] = IF fails(ms[p]) THEN 0 ELSE rj[p]
        BY Zenon DEF killed
      <4> HIDE DEF ms, mj, rj, fj
      <4> WITNESS ms, mj, rj, fj
      <4>4. QED  BY <4>1, <4>2, <4>3, Zenon
    <3>1. /\ MetricsKept' /\ misses'[j] = mj /\ reverse'[j] = rj
          /\ \A i \in Node : i # j => /\ misses'[i] = misses[i] /\ reverse'[i] = reverse[i]
                                      /\ forward'[i] = forward[i]
      <4> USE <3>0
      <4>1. OnNodes(misses') /\ misses'[j] = mj /\ \A i \in Node : i # j => misses'[i] = misses[i]
        BY Zenon DEF MetricsKept, OnNodes
      <4>2. OnNodes(reverse') /\ reverse'[j] = rj /\ \A i \in Node : i # j => reverse'[i] = reverse[i]
        BY Zenon DEF MetricsKept, OnNodes
      <4>3. OnNodes(forward') /\ \A i \in Node : i # j => forward'[i] = forward[i]
        BY Zenon DEF MetricsKept, OnNodes
      <4>4. QED  BY <4>1, <4>2, <4>3, Zenon DEF MetricsKept, OnNodes
    <3>2. ASSUME NEW p \in Peers(j), misses'[j][p] >= FAST_FAIL_MISSES
          PROVE  ~Alive(j, p)'
      BY <3>0, <3>1, <3>2 DEF Alive, usable, fails, FAST_FAIL_MISSES, DEAD_EPS
    <3>3. ASSUME NEW i \in Node, i # j, NEW p \in Peers(i), misses'[i][p] >= FAST_FAIL_MISSES
          PROVE  ~Alive(i, p)'
      BY <3>1, <3>3, Zenon DEF Alive, SilentIsDead
    <3>4. QED  BY <3>1, <3>2, <3>3, Zenon DEF SilentIsDead
  <2>3. QED  BY <2>1, <2>2, OnlyTicksMeasure, Zenon
<1>3. Inv => SilentIsDead
  BY Zenon
<1> HIDE DEF Inv
<1>4. QED  BY <1>1, <1>2, <1>3, PTL DEF LinkSpec

(* The HELLO protocol while nothing fails. *)
Ticked(i) == \E k \in DOMAIN ticked : ticked[k] = i

Pending(i, p) == p \in seen[i] \/ \E m \in net : m.from = p /\ m.to = i

RoundOk == /\ ticked \in Seq(Node)
           /\ \A k, l \in DOMAIN ticked : ticked[k] = ticked[l] => k = l

TablesOk == /\ OnNodes(misses) /\ OnNodes(seen) /\ OnNodes(file) /\ OnNodes(dropped)
            /\ \A m \in net : m.to \in Node

Faultless == /\ faults \in Nat
             /\ faults = 0 => cut = {} /\ \A i \in Node : file[i] = {} /\ dropped[i] = {}

(* p's HELLO waits at i whenever p ticked last, and i misses one only      *)
(* between its own tick and p's.                                           *)
Hears(i, p) ==
    /\ misses[i][p] \in {0, 1}
    /\ Ticked(p) /\ ~Ticked(i) => Pending(i, p)
    /\ ~(Ticked(i) /\ ~Ticked(p)) => misses[i][p] = 0 \/ Pending(i, p)

HelloOk == faults = 0 => \A i \in Node : \A p \in Peers(i) : Hears(i, p)

HelloInv == RoundOk /\ TablesOk /\ Faultless /\ HelloOk

(* When the last node ticks, every other one has. *)
LEMMA LastTickEndsTheRound ==
    ASSUME RoundOk, NEW j \in Node, ~Ticked(j), Len(ticked) + 1 = Cardinality(Node)
    PROVE  \A i \in Node : i = j \/ Ticked(i)
<1> DEFINE n == Len(ticked) + 1
           f == [k \in 1 .. n |-> IF k = n THEN j ELSE ticked[k]]
<1>1. n \in Nat /\ DOMAIN ticked = 1 .. n - 1 /\ \A k \in 1 .. n - 1 : ticked[k] \in Node
  BY DEF RoundOk
<1>2. f \in Injection(1 .. n, Node)
  <2>1. f \in [1 .. n -> Node]
    BY <1>1
  <2>2. \A a, b \in 1 .. n : f[a] = f[b] => a = b
    BY <1>1 DEF RoundOk, Ticked
  <2> HIDE DEF f
  <2>3. QED  BY <2>1, <2>2, Zenon DEF Injection, IsInjective
<1>3. Cardinality(1 .. n) = n
  <2> HIDE DEF n
  <2>1. n \in Int /\ 1 \in Int /\ n - 1 + 1 = n /\ ~(1 > n)
    BY <1>1 DEF n
  <2>2. QED  BY <2>1, FS_Interval, Zenon
<1> HIDE DEF f
<1>4. f \in Surjection(1 .. n, Node)
  BY <1>2, <1>3, FS_Injection, LinkAssumption, Zenon
<1>5. \A i \in Node : \E k \in 1 .. n : f[k] = i
  BY <1>4, Zenon DEF Surjection
<1>6. \A k \in 1 .. n : k # n => k \in DOMAIN ticked /\ f[k] = ticked[k]
  BY <1>1 DEF f
<1>7. f[n] = j
  BY <1>1 DEF f
<1>8. QED  BY <1>5, <1>6, <1>7, Zenon DEF Ticked

(* A tick with nothing on the way, pair by pair. *)
LEMMA TickHears ==
    ASSUME HelloInv, faults = 0, NEW j \in Node, tick(j), NEW i \in Node, NEW p \in Peers(i)
    PROVE  /\ misses'[i][p] \in {0, 1}
           /\ (Ticked(p) \/ p = j) /\ ~(Ticked(i) \/ i = j) => Pending(i, p)'
           /\ ~((Ticked(i) \/ i = j) /\ ~(Ticked(p) \/ p = j)) =>
                  misses'[i][p] = 0 \/ Pending(i, p)'
<1>1. net = {} /\ ~Ticked(j) /\ file[j] = {} /\ seen' = [seen EXCEPT ![j] = {}]
  BY Zenon DEF tick, Due, HelloInv, Faultless, Ticked
<1>2. Hears(i, p) /\ i # p /\ p \in Node
  BY Zenon DEF HelloInv, HelloOk, Peers
<1>3. Pending(i, p) => p \in seen[i]
  BY <1>1, Zenon DEF Pending
<1>4. CASE i = j
  <2> PICK missed : /\ misses' = [misses EXCEPT ![j] = [q \in Peers(j) |->
                           IF fails(missed[q]) THEN FAST_FAIL_MISSES ELSE missed[q]]]
                    /\ \A q \in Peers(j) : missed[q] = IF q \in seen[j] THEN 0 ELSE misses[j][q] + 1
    <3> DEFINE miss(q) == IF q \in seen[j] /\ q \notin file[j] THEN 0 ELSE misses[j][q] + 1
               ms == [q \in Peers(j) |-> miss(q)]
    <3>1. misses' = [misses EXCEPT ![j] = [q \in Peers(j) |->
                           IF fails(miss(q)) THEN FAST_FAIL_MISSES ELSE miss(q)]]
      BY Zenon DEF tick
    <3>2. \A q \in Peers(j) : miss(q) = ms[q]
      BY Zenon
    <3>3. \A q \in Peers(j) : ms[q] = IF q \in seen[j] THEN 0 ELSE misses[j][q] + 1
      BY <1>1, Zenon
    <3> HIDE DEF miss, ms
    <3>4. [q \in Peers(j) |-> IF fails(miss(q)) THEN FAST_FAIL_MISSES ELSE miss(q)]
          = [q \in Peers(j) |-> IF fails(ms[q]) THEN FAST_FAIL_MISSES ELSE ms[q]]
      BY <3>2, Zenon
    <3> WITNESS ms
    <3>5. QED  BY <3>1, <3>3, <3>4, Zenon
  <2>1. misses'[i][p] = IF fails(missed[p]) THEN 2 ELSE missed[p]
    BY <1>4, Zenon DEF HelloInv, TablesOk, OnNodes, FAST_FAIL_MISSES
  <2>2. missed[p] = IF p \in seen[i] THEN 0 ELSE misses[i][p] + 1
    BY <1>4, Zenon
  <2>3. Ticked(p) => p \in seen[i]
    BY <1>1, <1>2, <1>3, <1>4, Zenon DEF Hears
  <2>4. ~Ticked(p) => p \in seen[i] \/ misses[i][p] = 0
    BY <1>1, <1>2, <1>3, <1>4, Zenon DEF Hears
  <2>5. misses'[i][p] \in {0, 1} /\ (Ticked(p) => misses'[i][p] = 0)
    BY <2>1, <2>2, <2>3, <2>4 DEF fails, FAST_FAIL_MISSES
  <2>6. QED  BY <1>2, <1>4, <2>5, Zenon
<1>5. CASE i # j
  <2>1. misses'[i] = misses[i] /\ seen'[i] = seen[i]
    BY <1>1, <1>5, Zenon DEF tick, HelloInv, TablesOk, OnNodes
  <2>2. Pending(i, p) => Pending(i, p)'
    BY <1>3, <2>1, Zenon DEF Pending
  <2>3. p = j => Pending(i, p)'
    <3> SUFFICES ASSUME p = j PROVE Pending(i, p)'
      BY Zenon
    <3> DEFINE m == authenticated(j, i, seen[j])
    <3>1. m \in net'
      <4>1. i \in beaconed(j)
        BY <1>1, <1>5, Zenon DEF beaconed, Peers
      <4>2. net' = net \cup {authenticated(j, q, seen[j]) : q \in beaconed(j)}
        BY Zenon DEF tick
      <4>3. QED  BY <4>1, <4>2, Zenon
    <3>2. m.from = p /\ m.to = i
      BY Zenon DEF authenticated
    <3> HIDE DEF m
    <3>3. QED  BY <3>1, <3>2, Zenon DEF Pending
  <2>4. QED  BY <1>2, <1>5, <2>1, <2>2, <2>3, Zenon DEF Hears
<1>6. QED  BY <1>4, <1>5, Zenon

(* A turn of the ticker keeps the invariant of the protocol. *)
LEMMA TickStep ==
    ASSUME HelloInv, NEW j \in Node, tick(j)
    PROVE  HelloInv'
<1>1. net = {} /\ ~Ticked(j)
  BY Zenon DEF tick, Due, Ticked
<1>2. \/ Len(ticked) + 1 = Cardinality(Node) /\ ticked' = <<>>
      \/ ticked' = Append(ticked, j)
  BY Zenon DEF tick
<1>3. RoundOk'
  <2>1. CASE ticked' = <<>>
    BY <2>1 DEF RoundOk
  <2>2. CASE ticked' = Append(ticked, j)
    <3>1. RoundOk
      BY Zenon DEF HelloInv
    <3>2. /\ DOMAIN ticked = 1 .. Len(ticked) /\ Len(ticked) \in Nat
          /\ ticked' \in Seq(Node) /\ DOMAIN ticked' = 1 .. Len(ticked) + 1
          /\ ticked'[Len(ticked) + 1] = j
          /\ \A k \in 1 .. Len(ticked) : ticked'[k] = ticked[k]
      BY <2>2, <3>1 DEF RoundOk
    <3>3. QED  BY <1>1, <3>1, <3>2 DEF RoundOk, Ticked
  <2>3. QED  BY <1>2, <2>1, <2>2, Zenon
<1>4. TablesOk'
  <2>1. OnNodes(misses) /\ OnNodes(seen) /\ OnNodes(file) /\ OnNodes(dropped)
    BY Zenon DEF HelloInv, TablesOk
  <2> PICK v : misses' = [misses EXCEPT ![j] = v]
    BY Zenon DEF tick
  <2>2. OnNodes(misses)'
    BY <2>1, Zenon DEF OnNodes
  <2>3. OnNodes(seen)' /\ OnNodes(file)' /\ OnNodes(dropped)'
    BY <2>1, Zenon DEF tick, OnNodes
  <2>4. \A m \in net' : m.to \in Node
    BY <1>1 DEF tick, beaconed, Peers, authenticated
  <2>5. QED  BY <2>2, <2>3, <2>4, Zenon DEF TablesOk
<1>5. Faultless'
  <2>1. faults' = faults /\ cut' = cut /\ file' = file /\ dropped' = [dropped EXCEPT ![j] = file[j]]
    BY Zenon DEF tick
  <2>2. QED  BY <2>1, Zenon DEF HelloInv, TablesOk, Faultless, OnNodes
<1>6. ASSUME faults' = 0, NEW i \in Node, NEW p \in Peers(i)
      PROVE  Hears(i, p)'
  <2>1. faults = 0 /\ p \in Node
    BY <1>6, Zenon DEF tick, Peers
  <2>2. /\ misses'[i][p] \in {0, 1}
        /\ (Ticked(p) \/ p = j) /\ ~(Ticked(i) \/ i = j) => Pending(i, p)'
        /\ ~((Ticked(i) \/ i = j) /\ ~(Ticked(p) \/ p = j)) =>
               misses'[i][p] = 0 \/ Pending(i, p)'
    BY <2>1, TickHears, Zenon
  <2>3. CASE Len(ticked) + 1 = Cardinality(Node) /\ ticked' = <<>>
    <3>1. (Ticked(i) \/ i = j) /\ (Ticked(p) \/ p = j)
      BY <1>1, <2>1, <2>3, LastTickEndsTheRound, Zenon DEF HelloInv
    <3>2. ~Ticked(i)' /\ ~Ticked(p)'
      BY <2>3 DEF Ticked
    <3>3. QED  BY <2>2, <3>1, <3>2, Zenon DEF Hears
  <2>4. CASE ticked' = Append(ticked, j)
    <3>1. \A q \in Node : Ticked(q)' <=> Ticked(q) \/ q = j
      <4>1. /\ ticked \in Seq(Node) /\ DOMAIN ticked = 1 .. Len(ticked) /\ Len(ticked) \in Nat
            /\ DOMAIN ticked' = 1 .. Len(ticked) + 1
            /\ ticked'[Len(ticked) + 1] = j
            /\ \A k \in 1 .. Len(ticked) : ticked'[k] = ticked[k]
        BY <2>4 DEF HelloInv, RoundOk
      <4>2. QED  BY <4>1 DEF Ticked
    <3>2. (Ticked(i)' <=> Ticked(i) \/ i = j) /\ (Ticked(p)' <=> Ticked(p) \/ p = j)
      BY <2>1, <3>1, Zenon
    <3>3. QED  BY <2>2, <3>2, Zenon DEF Hears
  <2>5. QED  BY <1>2, <2>3, <2>4, Zenon
<1>7. QED  BY <1>3, <1>4, <1>5, <1>6, Zenon DEF HelloInv, HelloOk

(* A HELLO that arrives or is lost keeps the invariant. *)
LEMMA ReceiveStep ==
    ASSUME HelloInv, NEW m \in net, receive(m) \/ Lose(m)
    PROVE  HelloInv'
<1>1. /\ net' = net \ {m} /\ misses' = misses /\ ticked' = ticked /\ file' = file
      /\ dropped' = dropped /\ cut' = cut /\ faults' = faults
  BY Zenon DEF receive, Lose, metric, environment
<1>2. m.to \in Node
  BY Zenon DEF HelloInv, TablesOk
<1>3. /\ OnNodes(seen)' 
      /\ \A i \in Node : seen[i] \subseteq seen'[i]
      /\ faults = 0 => m.from \in seen'[m.to]
  <2>1. CASE receive(m)
    <3>1. \/ m.from \in dropped[m.to] /\ seen' = seen
          \/ seen' = [seen EXCEPT ![m.to] = @ \cup {m.from}]
      BY <2>1, Zenon DEF receive
    <3>2. QED  BY <1>2, <3>1 DEF HelloInv, TablesOk, Faultless, OnNodes
  <2>2. CASE Lose(m)
    BY <2>2, Zenon DEF Lose, HelloInv, TablesOk, Faultless, OnNodes
  <2>3. QED  BY <2>1, <2>2, Zenon
<1>4. RoundOk'
  BY <1>1, Zenon DEF HelloInv, RoundOk
<1>5. TablesOk' /\ Faultless'
  BY <1>1, <1>3, Zenon DEF HelloInv, TablesOk, Faultless, OnNodes
<1>6. ASSUME faults' = 0, NEW i \in Node, NEW p \in Peers(i)
      PROVE  Hears(i, p)'
  <2>1. Hears(i, p)
    BY <1>1, <1>6, Zenon DEF HelloInv, HelloOk
  <2>2. Pending(i, p) => Pending(i, p)'
    BY <1>1, <1>3, <1>6, Zenon DEF Pending
  <2>3. (Ticked(i)' <=> Ticked(i)) /\ (Ticked(p)' <=> Ticked(p))
    BY <1>1, Zenon DEF Ticked
  <2>4. QED  BY <1>1, <2>1, <2>2, <2>3, Zenon DEF Hears
<1>7. QED  BY <1>4, <1>5, <1>6, Zenon DEF HelloInv, HelloOk

(* Two tickers of one period and no common phase: on a link that never     *)
(* failed, two intervals in a row without a HELLO do not happen.            *)
THEOREM SoundLinksAreKept == LinkSpec => []NoFalseAlarm
<1>1. LinkInit => HelloInv
  <2> SUFFICES ASSUME LinkInit PROVE HelloInv
    BY Zenon
  <2>1. RoundOk
    BY DEF LinkInit, RoundOk
  <2>2. TablesOk /\ Faultless
    BY Zenon DEF LinkInit, TablesOk, Faultless, OnNodes
  <2>3. \A i \in Node : \A p \in Peers(i) : misses[i][p] = 0
    BY Zenon DEF LinkInit
  <2>4. \A i : ~Ticked(i)
    BY DEF LinkInit, Ticked
  <2>5. HelloOk
    BY <2>3, <2>4, Zenon DEF HelloOk, Hears, Peers
  <2>6. QED  BY <2>1, <2>2, <2>5, Zenon DEF HelloInv
<1>2. HelloInv /\ [LinkNext]_linkVars => HelloInv'
  <2> SUFFICES ASSUME HelloInv, [LinkNext]_linkVars PROVE HelloInv'
    BY Zenon
  <2>1. ASSUME UNCHANGED <<misses, seen, dropped, file, net, cut, ticked, faults>>
        PROVE  HelloInv'
    <3>1. RoundOk' /\ TablesOk' /\ Faultless'
      BY <2>1, Zenon DEF HelloInv, RoundOk, TablesOk, Faultless, OnNodes
    <3>2. HelloOk'
      <4>1. ASSUME NEW i, NEW p
            PROVE  Hears(i, p) => Hears(i, p)'
        <5>1. Pending(i, p)' <=> Pending(i, p)
          BY <2>1, Zenon DEF Pending
        <5>2. (Ticked(i)' <=> Ticked(i)) /\ (Ticked(p)' <=> Ticked(p))
          BY <2>1, Zenon DEF Ticked
        <5>3. QED  BY <2>1, <5>1, <5>2, Zenon DEF Hears
      <4>2. QED  BY <2>1, <4>1, Zenon DEF HelloInv, HelloOk
    <3>3. QED  BY <3>1, <3>2, Zenon DEF HelloInv
  <2>2. ASSUME faults' = faults + 1,
               UNCHANGED <<misses, seen, dropped, net, ticked>>, OnNodes(file')
        PROVE  HelloInv'
    <3>1. faults' \in Nat /\ faults' # 0
      BY <2>2 DEF HelloInv, Faultless
    <3>2. RoundOk' /\ TablesOk'
      BY <2>2, Zenon DEF HelloInv, RoundOk, TablesOk, OnNodes
    <3>3. QED  BY <3>1, <3>2, Zenon DEF HelloInv, Faultless, HelloOk
  <2>3. ASSUME NEW i \in Node, NEW S, SetDrop(i, S)
        PROVE  HelloInv'
    <3>1. OnNodes(file')
      BY <2>3, Zenon DEF SetDrop, HelloInv, TablesOk, OnNodes
    <3>2. QED  BY <2>2, <2>3, <3>1, Zenon DEF SetDrop, metric
  <2>4. ASSUME NEW C, SetCut(C)
        PROVE  HelloInv'
    <3>1. OnNodes(file')
      BY <2>4, Zenon DEF SetCut, HelloInv, TablesOk, OnNodes
    <3>2. QED  BY <2>2, <2>4, <3>1, Zenon DEF SetCut, metric
  <2>5. CASE Calm
    BY <2>1, <2>5, Zenon DEF Calm, metric
  <2>6. CASE UNCHANGED linkVars
    BY <2>1, <2>6, Zenon DEF linkVars
  <2>7. QED  BY <2>3, <2>4, <2>5, <2>6, TickStep, ReceiveStep, Zenon DEF LinkNext
<1>3. HelloInv => NoFalseAlarm
  BY DEF HelloInv, HelloOk, Hears, NoFalseAlarm, FAST_FAIL_MISSES
<1>4. QED  BY <1>1, <1>2, <1>3, PTL DEF LinkSpec

-----------------------------------------------------------------------------
(* Handshake: where the two ends of a session come from. *)

\* The two ends trios_meshd makes of a link start the same key chain in
\* opposite directions (what Session's Init says of them), and no other pair
\* of nodes starts that chain.
THEOREM StaticEndsMatch ==
    ASSUME NEW a \in Nat, NEW b \in Nat, a # b
    PROVE  /\ session_with(a, b).chain = session_with(b, a).chain
           /\ {session_with(a, b).tx_dir, session_with(b, a).tx_dir} = Peer
           /\ \A c, d \in Nat : session_with(c, d).chain = session_with(a, b).chain
                  => {c, d} = {a, b}
<1>1. \A c, d : /\ session_with(c, d).chain = <<{static_public(c), static_public(d)}>>
                /\ session_with(c, d).tx_dir = IF c < d THEN 0 ELSE 1
  BY Zenon DEF session_with, from_shared, diffie_hellman
<1>2. {static_public(a), static_public(b)} = {static_public(b), static_public(a)}
  BY Zenon
<1>3. (a < b /\ ~(b < a)) \/ (b < a /\ ~(a < b))
  OBVIOUS
<1>4. ASSUME NEW c \in Nat, NEW d \in Nat,
             session_with(c, d).chain = session_with(a, b).chain
      PROVE  {c, d} = {a, b}
  <2>1. {static_public(c), static_public(d)} = {static_public(a), static_public(b)}
    <3> DEFINE x == {static_public(c), static_public(d)}
               y == {static_public(a), static_public(b)}
    <3>1. <<x>> = <<y>>
      BY <1>1, <1>4, Zenon
    <3> HIDE DEF x, y
    <3>2. x = y
      BY <3>1
    <3>3. QED  BY <3>2, Zenon DEF x, y
  <2>2. \A x, y \in Nat : static_public(x) = static_public(y) => x = y
    BY DEF static_public
  <2> HIDE DEF static_public
  <2>3. QED  BY <2>1, <2>2, Zenon
<1>5. {session_with(a, b).tx_dir, session_with(b, a).tx_dir} = {0, 1}
  BY <1>1, <1>3, Zenon
<1>6. session_with(a, b).chain = session_with(b, a).chain
  BY <1>1, <1>2, Zenon
<1>7. \A c, d \in Nat : session_with(c, d).chain = session_with(a, b).chain => {c, d} = {a, b}
  BY <1>4, Zenon
<1>8. QED  BY <1>5, <1>6, <1>7, Zenon

(* An ephemeral key is drawn once and used once. *)
DrawnOnce == /\ \A g, h \in noise \cup joined : g.ephemeral = h.ephemeral => g = h
             /\ \A h \in noise : h \notin joined

(* What a completed session's key was made of. *)
MadeOf(s) == s.session.chain =
    <<{s.ephemeral, s.peer_ephemeral}, {static_public(s.node), s.peer_static},
      {static_public(s.node), s.peer_static}>>

NoiseInv == DrawnOnce /\ \A s \in joined : MadeOf(s)

\* A NoiseXX key belongs to two sessions at most, which were handed each
\* other's keys, whatever the medium does to the keys on the way.
THEOREM NoiseKeysArePairwise == HandshakeSpec => []KeysArePairwise
<1>1. HandshakeInit => NoiseInv
  BY Zenon DEF HandshakeInit, NoiseInv, DrawnOnce
<1>2. NoiseInv /\ [HandshakeNext]_handshakeVars => NoiseInv'
  <2> SUFFICES ASSUME NoiseInv, [HandshakeNext]_handshakeVars PROVE NoiseInv'
    BY Zenon
  <2>1. CASE UNCHANGED <<noise, joined>>
    BY <2>1, Zenon DEF NoiseInv, DrawnOnce, MadeOf
  <2>2. ASSUME NEW n \in Member, NEW e \in Ephemeral, start(n, e)
        PROVE  NoiseInv'
    <3> DEFINE h == [node |-> n, ephemeral |-> <<"ephemeral", e>>]
    <3>1. noise' = noise \cup {h} /\ joined' = joined
      BY <2>2, Zenon DEF start
    <3>2. \A g \in noise \cup joined : g.ephemeral # h.ephemeral
      BY <2>2, Zenon DEF start
    <3> HIDE DEF h
    <3>3. QED  BY <3>1, <3>2, Zenon DEF NoiseInv, DrawnOnce, MadeOf
  <2>3. ASSUME NEW h \in noise, NEW id, NEW pe, NEW ps, NEW i, connect(h, id, pe, ps, i)
        PROVE  NoiseInv'
    <3> DEFINE s == [node |-> h.node, ephemeral |-> h.ephemeral, id |-> id,
                     peer_ephemeral |-> pe, peer_static |-> ps,
                     session |-> complete(h, pe, ps, i)]
    <3>1. noise' = noise \ {h} /\ joined' = joined \cup {s}
      BY <2>3, Zenon DEF connect
    <3>2. s.ephemeral = h.ephemeral /\ MadeOf(s)
      BY Zenon DEF MadeOf, complete, from_shared, combine_dh_shares, diffie_hellman
    <3> HIDE DEF s
    <3>3. DrawnOnce'
      <4>1. \A g \in (noise \cup joined) \ {h} : g.ephemeral # s.ephemeral
        BY <3>2, Zenon DEF NoiseInv, DrawnOnce
      <4>2. h \notin joined
        BY Zenon DEF NoiseInv, DrawnOnce
      <4>3. \A g \in noise' \cup joined' : g # s => g \in (noise \cup joined) \ {h}
        BY <3>1, <4>2, Zenon
      <4>4. \A f, g \in (noise \cup joined) \ {h} : f.ephemeral = g.ephemeral => f = g
        BY Zenon DEF NoiseInv, DrawnOnce
      <4>5. \A f, g \in noise' \cup joined' : f.ephemeral = g.ephemeral => f = g
        BY <4>1, <4>3, <4>4, Zenon
      <4>6. \A g \in noise' : g \notin joined'
        BY <3>1, <4>1, Zenon DEF NoiseInv, DrawnOnce
      <4>7. QED  BY <4>5, <4>6, Zenon DEF DrawnOnce
    <3>4. QED  BY <3>1, <3>2, <3>3, Zenon DEF NoiseInv, MadeOf
  <2>4. CASE \E n, id \in Member : remove(n, id) \/ \E k \in PublicKey : add(n, id, k)
    BY <2>1, <2>4, Zenon DEF remove, add
  <2>5. CASE UNCHANGED handshakeVars
    BY <2>1, <2>5, Zenon DEF handshakeVars
  <2>6. QED  BY <2>2, <2>3, <2>4, <2>5, Zenon DEF HandshakeNext
<1>3. NoiseInv => KeysArePairwise
  <2> SUFFICES ASSUME NoiseInv PROVE KeysArePairwise
    BY Zenon
  <2>1. \A x, y : static_public(x) = static_public(y) => x = y
    BY DEF static_public
  <2>2. \A x, y, v, w : {x, y} = {v, w} /\ x # v => y = v
    BY Zenon
  <2>4. ASSUME NEW s \in joined, NEW t \in joined, s # t, SameKey(s, t)
        PROVE  /\ s.peer_ephemeral = t.ephemeral
               /\ s.node # t.node => s.peer_static = static_public(t.node)
    <3>1. /\ {s.ephemeral, s.peer_ephemeral} = {t.ephemeral, t.peer_ephemeral}
          /\ {static_public(s.node), s.peer_static} = {static_public(t.node), t.peer_static}
      <4> DEFINE x == {s.ephemeral, s.peer_ephemeral}
                 y == {static_public(s.node), s.peer_static}
                 v == {t.ephemeral, t.peer_ephemeral}
                 w == {static_public(t.node), t.peer_static}
      <4>1. <<x, y, y>> = <<v, w, w>>
        BY <2>4, Zenon DEF NoiseInv, MadeOf, SameKey
      <4> HIDE DEF x, y, v, w
      <4>2. x = v /\ y = w
        BY <4>1
      <4>3. QED  BY <4>2, Zenon DEF x, y, v, w
    <3>2. s.ephemeral # t.ephemeral
      BY <2>4, Zenon DEF NoiseInv, DrawnOnce
    <3>3. QED  BY <2>1, <2>2, <3>1, <3>2, Zenon
  <2>5. ASSUME NEW s \in joined, NEW t \in joined, s # t, SameKey(s, t),
               NEW u \in joined, SameKey(u, s), u # s
        PROVE  u = t
    <3>1. SameKey(s, u)
      BY <2>5, Zenon DEF SameKey
    <3>2. u.ephemeral = t.ephemeral
      BY <2>4, <2>5, <3>1, Zenon
    <3>3. QED  BY <3>2, Zenon DEF NoiseInv, DrawnOnce
  <2>6. QED  BY <2>4, <2>5, Zenon DEF KeysArePairwise
<1>4. QED  BY <1>1, <1>2, <1>3, PTL DEF HandshakeSpec

-----------------------------------------------------------------------------
(* MeshExchange: what travels over the sealed frames. *)

(* A 256-bit parent determines its two children. *)
LEMMA PairsAreInjective ==
    ASSUME NEW a, NEW b, NEW c, NEW d, pair256(a, b) = pair256(c, d)
    PROVE  a = c /\ b = d
<1>1. pair256(a, b).left = pair256(c, d).left /\ pair256(a, b).right = pair256(c, d).right
  BY Zenon
<1>2. QED  BY <1>1, Zenon DEF pair256

(* Whatever siblings a two-step proof names and on whatever sides, a leaf   *)
(* that folds to the root of four receipts is one of the four: the batch    *)
(* signature covers no receipt beyond those under its root                  *)
(* (verify_inclusion of trinet_batch_over_mesh).                            *)
THEOREM InclusionIsMembership ==
    ASSUME NEW leaf, NEW proof, NEW l1, NEW l2, NEW l3, NEW l4,
           verify_inclusion(leaf, proof) = merkle_root(l1, l2, l3, l4)
    PROVE  leaf \in {l1, l2, l3, l4}
<1> DEFINE node == fold_step(leaf, proof.first)
<1>1. fold_step(node, proof.second) = pair256(pair256(l1, l2), pair256(l3, l4))
  BY Zenon DEF verify_inclusion, merkle_root
<1>2. node = pair256(l1, l2) \/ node = pair256(l3, l4)
  <2>1. CASE proof.second.right
    BY <1>1, <2>1, PairsAreInjective DEF fold_step
  <2>2. CASE ~proof.second.right
    BY <1>1, <2>2, PairsAreInjective DEF fold_step
  <2>3. QED  BY <2>1, <2>2, Zenon
<1>3. \A x, y : node = pair256(x, y) => leaf = x \/ leaf = y
  <2> TAKE x, y
  <2> HAVE node = pair256(x, y)
  <2>1. CASE proof.first.right
    BY <2>1, PairsAreInjective DEF fold_step
  <2>2. CASE ~proof.first.right
    BY <2>2, PairsAreInjective DEF fold_step
  <2>3. QED  BY <2>1, <2>2, Zenon
<1> HIDE DEF node
<1>4. QED  BY <1>2, <1>3, Zenon

(* One link of the chain determines the head it follows and its round. *)
LEMMA HeadsAreInjective ==
    ASSUME NEW g, NEW h, NEW q, NEW r, advance_head(g, q) = advance_head(h, r)
    PROVE  g = h /\ q.root = r.root /\ q.balance = r.balance /\ q.epoch = r.epoch
<1>1. /\ advance_head(g, q).prev = advance_head(h, r).prev
      /\ advance_head(g, q).dg = advance_head(h, r).dg
      /\ advance_head(g, q).balance = advance_head(h, r).balance
      /\ advance_head(g, q).epoch = advance_head(h, r).epoch
  BY Zenon
<1>2. QED  BY <1>1, Zenon DEF advance_head, ledger_head256

(* Two histories with the same head agree in every round: rewriting a past  *)
(* root, balance or epoch changes the head (recompute_chain of              *)
(* trinet_ledger_over_mesh).                                                *)
THEOREM HeadFixesHistory ==
    ASSUME NEW q, NEW r, recompute_chain(q) = recompute_chain(r)
    PROVE  SameHistory(q, r)
<1> DEFINE q1 == advance_head(LEDGER_GENESIS, q[1])
           r1 == advance_head(LEDGER_GENESIS, r[1])
           q2 == advance_head(q1, q[2])
           r2 == advance_head(r1, r[2])
<1>1. advance_head(q2, q[3]) = advance_head(r2, r[3])
  BY Zenon DEF recompute_chain
<1>2. q2 = r2 /\ q[3].root = r[3].root /\ q[3].balance = r[3].balance /\ q[3].epoch = r[3].epoch
  <2> HIDE DEF q2, r2
  <2>1. QED  BY <1>1, HeadsAreInjective
<1>3. q1 = r1 /\ q[2].root = r[2].root /\ q[2].balance = r[2].balance /\ q[2].epoch = r[2].epoch
  <2>1. advance_head(q1, q[2]) = advance_head(r1, r[2])  BY <1>2, Zenon
  <2> HIDE DEF q1, r1
  <2>2. QED  BY <2>1, HeadsAreInjective
<1>4. q[1].root = r[1].root /\ q[1].balance = r[1].balance /\ q[1].epoch = r[1].epoch
  BY <1>3, HeadsAreInjective
<1>5. \A i \in 1 .. 3 : i = 1 \/ i = 2 \/ i = 3
  OBVIOUS
<1> HIDE DEF q1, r1, q2, r2
<1>6. QED  BY <1>2, <1>3, <1>4, <1>5, Zenon DEF SameHistory

(* Below the hard cap a nonce is used by one direction, epoch and counter   *)
(* only, although it drops the counter's top byte (nonce_byte and           *)
(* must_reject of crypto_frame).                                            *)
THEOREM NoncesAreApart ==
    ASSUME NEW dir1, NEW dir2, NEW ep1, NEW ep2, NEW c1 \in Nat, NEW c2 \in Nat,
           ~must_reject(c1), ~must_reject(c2),
           build_nonce(dir1, ep1, c1) = build_nonce(dir2, ep2, c2)
    PROVE  dir1 = dir2 /\ ep1 = ep2 /\ c1 = c2
<1>1. c1 < 16777216 /\ c2 < 16777216
  BY DEF must_reject, REKEY_HARD_CAP
<1>2. Low56(c1) = c1 /\ Low56(c2) = c2
  BY <1>1 DEF Low56
<1>3. dir1 = dir2 /\ ep1 = ep2 /\ Low56(c1) = Low56(c2)
  BY DEF build_nonce
<1>4. QED  BY <1>2, <1>3, Zenon

(* A key of the chain opens the frames of its own epoch only, later keys    *)
(* and the handshake key included (ratchet of trinet_ratchet_over_mesh).    *)
THEOREM KeysOpenTheirEpoch ==
    ASSUME NEW k, NEW l, NEW e \in Nat \ {0}, NEW n \in Nat \ {0}, e # n
    PROVE  /\ ~opens_under(ratchet_key(k, e), ratchet_key(l, n))
           /\ ~opens_under(ratchet_key(k, e), HandshakeKey(l))
           /\ ~opens_under(HandshakeKey(l), ratchet_key(k, e))
<1>1. ratchet_key(k, e).epoch = e /\ ratchet_key(l, n).epoch = n /\ HandshakeKey(l).epoch = 0
  BY Zenon DEF ratchet_key, HandshakeKey
<1>2. QED  BY <1>1, Zenon DEF opens_under

-----------------------------------------------------------------------------
(* What an honest key has signed: receipts on record as its own, beacons up *)
(* to the last, cards it offers, roots over its receipts, heads it          *)
(* published.                                                               *)
ReceiptOk(s) == s.msg.kind = "receipt" => [key |-> s.key, leaf |-> s.msg] \in done

Beaten(key, seq) == seq \in Nat \ {0} /\ (executor_id(key) = Trusted => seq <= beat)

WordsOk(s) ==
    s.msg.kind = "words" =>
        \/ s.msg.w1 = 0 /\ [key |-> s.key, word |-> s.msg.w0] \in offered
        \/ Beaten(s.key, s.msg.w1)

PairOk(s) ==
    s.msg.kind = "pair" =>
        \E l1, l2, l3, l4 :
            /\ s.msg = merkle_root(l1, l2, l3, l4)
            /\ \A x \in {l1, l2, l3, l4} : [key |-> s.key, leaf |-> x] \in done

HeadOk(s) ==
    s.msg.kind = "head" =>
        \E p \in published : p.key = s.key /\ s.msg = recompute_chain(p.rounds)

HonestlySigned(s) == ReceiptOk(s) /\ WordsOk(s) /\ PairOk(s) /\ HeadOk(s)

HonestSigns == \A s \in signed : s.key \in Honest => HonestlySigned(s)

ClockOk == clock \in Nat \ {0} /\ beat \in Nat /\ beat <= clock

(* The key and the message of a signature. *)
LEMMA SignatureFields ==
    \A k, m : signature(k, m).key = k /\ signature(k, m).msg = m
BY Zenon DEF signature

(* The leaves of a batch. *)
LEMMA FourLeaves == 1 \in 1 .. 4 /\ 2 \in 1 .. 4 /\ 3 \in 1 .. 4 /\ 4 \in 1 .. 4
OBVIOUS

(* Everything recorded stays recorded, and the clocks do not run back. *)
LEMMA RecordsGrow ==
    ASSUME ClockOk, [ExchangeNext]_exchangeVars
    PROVE  /\ signed \subseteq signed' /\ offered \subseteq offered' /\ done \subseteq done'
           /\ published \subseteq published' /\ assigned \subseteq assigned'
           /\ beat' \in Nat /\ beat <= beat' /\ ClockOk'
<1>1. CASE Host
  <2> PICK key \in Honest : 
        \/ \E word \in CardWord : seal_card(key, word)
        \/ seal_beacon(key)
        \/ \E f \in air, out \in Output : perform(key, f, out)
        \/ \E l \in [1 .. 4 -> {d.leaf : d \in done}] : seal_batch(key, l)
        \/ \E rounds \in [1 .. 3 -> Round] : seal_ledger(key, rounds)
        \/ \E task \in Task, operands \in Operands, bond \in Nat :
               seal_claim(key, task, operands, bond)
    BY <1>1, Zenon DEF Host
  <2>1. /\ signed \subseteq signed' /\ offered \subseteq offered' /\ done \subseteq done'
        /\ published \subseteq published' /\ assigned' = assigned
        /\ clock' = clock /\ (beat' = beat \/ beat' = clock)
    <3>1. CASE \E word \in CardWord : seal_card(key, word)
      BY <3>1, Zenon DEF seal_card, SignAndSeal, requesterVars
    <3>2. CASE seal_beacon(key)
      BY <3>2, Zenon DEF seal_beacon, SignAndSeal, requesterVars, hostVars
    <3>3. CASE \E f \in air, out \in Output : perform(key, f, out)
      BY <3>3, Zenon DEF perform, SignAndSeal, requesterVars
    <3>4. CASE \E l \in [1 .. 4 -> {d.leaf : d \in done}] : seal_batch(key, l)
      BY <3>4, Zenon DEF seal_batch, SignAndSeal, requesterVars, hostVars
    <3>5. CASE \E rounds \in [1 .. 3 -> Round] : seal_ledger(key, rounds)
      BY <3>5, Zenon DEF seal_ledger, SignAndSeal, requesterVars
    <3>6. CASE \E task \in Task, operands \in Operands, bond \in Nat :
                 seal_claim(key, task, operands, bond)
      BY <3>6, Zenon DEF seal_claim, SignAndSeal, requesterVars
    <3>7. QED  BY <3>1, <3>2, <3>3, <3>4, <3>5, <3>6, Zenon
  <2>2. QED  BY <2>1 DEF ClockOk
<1>2. CASE Requester
  <2>1. /\ signed' = signed /\ offered' = offered /\ done' = done /\ published' = published
        /\ clock' = clock /\ beat' = beat /\ assigned \subseteq assigned'
    BY <1>2, Zenon DEF Requester, open_card, accept_beacon, assign, settle, settle_batch,
                       audit_ledger,
                adjudicate, hostVars
  <2>2. QED  BY <2>1 DEF ClockOk
<1>3. CASE Others
  BY <1>3 DEF Others, Pass, Misbehave, Inject, requesterVars, hostVars, ClockOk
<1>4. CASE UNCHANGED exchangeVars
  BY <1>4 DEF exchangeVars, requesterVars, hostVars, ClockOk
<1>5. QED  BY <1>1, <1>2, <1>3, <1>4, Zenon DEF ExchangeNext

(* A signature an honest key made stays in order as the records grow. *)
LEMMA SignedStaysInOrder ==
    ASSUME ClockOk, HonestSigns, NEW s \in signed, s.key \in Honest,
           offered \subseteq offered', done \subseteq done', published \subseteq published',
           beat' \in Nat, beat <= beat'
    PROVE  HonestlySigned(s)'
<1>1. HonestlySigned(s)
  BY Zenon DEF HonestSigns
<1>2. WordsOk(s)'
  BY <1>1 DEF HonestlySigned, WordsOk, Beaten, ClockOk
<1>3. PairOk(s)'
  <2> SUFFICES ASSUME s.msg.kind = "pair"
               PROVE  \E l1, l2, l3, l4 :
                          /\ s.msg = merkle_root(l1, l2, l3, l4)
                          /\ \A x \in {l1, l2, l3, l4} : [key |-> s.key, leaf |-> x] \in done'
    BY Zenon DEF PairOk
  <2> PICK l1, l2, l3, l4 :
          /\ s.msg = merkle_root(l1, l2, l3, l4)
          /\ \A x \in {l1, l2, l3, l4} : [key |-> s.key, leaf |-> x] \in done
    BY <1>1, Zenon DEF HonestlySigned, PairOk
  <2>1. \A x \in {l1, l2, l3, l4} : [key |-> s.key, leaf |-> x] \in done'
    BY Zenon
  <2> WITNESS l1, l2, l3, l4
  <2>2. QED  BY <2>1, Zenon
<1>4. HeadOk(s)'
  BY <1>1, Zenon DEF HonestlySigned, HeadOk
<1>5. ReceiptOk(s)'
  BY <1>1, Zenon DEF HonestlySigned, ReceiptOk
<1>6. QED  BY <1>2, <1>3, <1>4, <1>5, Zenon DEF HonestlySigned

(* A new signature of each kind is in order. *)
LEMMA NewSignatures ==
    ASSUME NEW key, NEW m
    PROVE  /\ m.kind = "receipt" /\ [key |-> key, leaf |-> m] \in done'
                  => HonestlySigned(signature(key, m))'
           /\ m.kind = "words" /\ m.w1 = 0 /\ [key |-> key, word |-> m.w0] \in offered'
                  => HonestlySigned(signature(key, m))'
           /\ m.kind = "words" /\ Beaten(key, m.w1)' => HonestlySigned(signature(key, m))'
           /\ m.kind = "pair" /\ PairOk(signature(key, m))' => HonestlySigned(signature(key, m))'
           /\ m.kind = "head" /\ HeadOk(signature(key, m))' => HonestlySigned(signature(key, m))'
<1> DEFINE s == signature(key, m)
<1>1. s.key = key /\ s.msg = m
  BY Zenon DEF signature
<1> HIDE DEF s
<1>2. m.kind # "receipt" => ReceiptOk(s)'
  BY <1>1, Zenon DEF ReceiptOk
<1>3. m.kind # "words" => WordsOk(s)'
  BY <1>1, Zenon DEF WordsOk
<1>4. m.kind # "pair" => PairOk(s)'
  BY <1>1, Zenon DEF PairOk
<1>5. m.kind # "head" => HeadOk(s)'
  BY <1>1, Zenon DEF HeadOk
<1>6. [key |-> key, leaf |-> m] \in done' => ReceiptOk(s)'
  BY <1>1, Zenon DEF ReceiptOk
<1>7. m.w1 = 0 /\ [key |-> key, word |-> m.w0] \in offered' => WordsOk(s)'
  BY <1>1, Zenon DEF WordsOk
<1>8. Beaten(key, m.w1)' => WordsOk(s)'
  BY <1>1, Zenon DEF WordsOk
<1>9. /\ "receipt" # "words" /\ "receipt" # "pair" /\ "receipt" # "head"
      /\ "words" # "pair" /\ "words" # "head" /\ "pair" # "head"
  BY Zenon
<1>10. /\ m.kind = "receipt" /\ [key |-> key, leaf |-> m] \in done' => HonestlySigned(s)'
       /\ m.kind = "words" /\ m.w1 = 0 /\ [key |-> key, word |-> m.w0] \in offered'
              => HonestlySigned(s)'
       /\ m.kind = "words" /\ Beaten(key, m.w1)' => HonestlySigned(s)'
       /\ m.kind = "pair" /\ PairOk(s)' => HonestlySigned(s)'
       /\ m.kind = "head" /\ HeadOk(s)' => HonestlySigned(s)'
  BY <1>2, <1>3, <1>4, <1>5, <1>6, <1>7, <1>8, <1>9, Zenon DEF HonestlySigned
<1>11. QED  BY <1>10, Zenon DEF s

(* What each program signs is in order. *)
LEMMA ReceiptSigned ==
    ASSUME NEW key, NEW task, NEW operands, NEW out,
           [key |-> key, leaf |-> input_digest(task, operands, out)] \in done'
    PROVE  HonestlySigned(signature(key, input_digest(task, operands, out)))'
<1> DEFINE m == input_digest(task, operands, out)
<1>1. m.kind = "receipt" /\ [key |-> key, leaf |-> m] \in done'
  BY Zenon DEF input_digest
<1> HIDE DEF m
<1>2. HonestlySigned(signature(key, m))'
  BY <1>1, NewSignatures, Zenon
<1>3. QED  BY <1>2, Zenon DEF m

(* A beacon numbered by the clock. *)
LEMMA BeaconSigned ==
    ASSUME NEW key, NEW seq \in Nat \ {0}, beat' \in Nat, executor_id(key) = Trusted => beat' = seq
    PROVE  HonestlySigned(signature(key, beacon_msg(MSG_HEARTBEAT, seq, executor_id(key))))'
<1> DEFINE m == beacon_msg(MSG_HEARTBEAT, seq, executor_id(key))
<1>1. m.kind = "words" /\ m.w1 = seq
  BY Zenon DEF beacon_msg
<1> HIDE DEF m
<1>2. Beaten(key, seq)'
  BY DEF Beaten
<1>3. HonestlySigned(signature(key, m))'
  BY <1>1, <1>2, NewSignatures, Zenon
<1>4. QED  BY <1>3, Zenon DEF m

(* An offered card. *)
LEMMA CardSigned ==
    ASSUME NEW key, NEW word, [key |-> key, word |-> word] \in offered'
    PROVE  HonestlySigned(signature(key, card_msg(word)))'
<1> DEFINE m == card_msg(word)
<1>1. m.kind = "words" /\ m.w1 = 0 /\ m.w0 = word
  BY Zenon DEF card_msg
<1> HIDE DEF m
<1>2. HonestlySigned(signature(key, m))'
  BY <1>1, NewSignatures, Zenon
<1>3. QED  BY <1>2, Zenon DEF m

(* The root over four computed receipts. *)
LEMMA RootSigned ==
    ASSUME NEW key, NEW a, NEW b, NEW c, NEW d,
           \A x \in {a, b, c, d} : [key |-> key, leaf |-> x] \in done'
    PROVE  HonestlySigned(signature(key, merkle_root(a, b, c, d)))'
<1> DEFINE m == merkle_root(a, b, c, d)
           s == signature(key, m)
<1>1. m.kind = "pair" /\ s.key = key /\ s.msg = m
  BY Zenon DEF merkle_root, pair256, signature
<1> HIDE DEF s
<1>2. PairOk(s)'
  <2> SUFFICES \E l1, l2, l3, l4 :
                   /\ s.msg = merkle_root(l1, l2, l3, l4)
                   /\ \A x \in {l1, l2, l3, l4} : [key |-> s.key, leaf |-> x] \in done'
    BY Zenon DEF PairOk
  <2> WITNESS a, b, c, d
  <2>1. QED  BY <1>1, Zenon
<1> HIDE DEF m
<1>3. QED  BY <1>1, <1>2, NewSignatures, Zenon DEF s, m

(* The head of a published history. *)
LEMMA HeadSigned ==
    ASSUME NEW key, NEW rounds, [key |-> key, rounds |-> rounds] \in published'
    PROVE  HonestlySigned(signature(key, recompute_chain(rounds)))'
<1> DEFINE m == recompute_chain(rounds)
           s == signature(key, m)
           p == [key |-> key, rounds |-> rounds]
<1>1. m.kind = "head" /\ s.key = key /\ s.msg = m
  BY Zenon DEF recompute_chain, advance_head, ledger_head256, signature
<1>2. p \in published' /\ p.key = key /\ p.rounds = rounds
  BY Zenon
<1> HIDE DEF s, p
<1>3. HeadOk(s)'
  BY <1>1, <1>2, Zenon DEF HeadOk
<1> HIDE DEF m
<1>4. QED  BY <1>1, <1>3, NewSignatures, Zenon DEF s, m

(* Honest keys sign only what the programs sign, through every step of every *)
(* party.                                                                    *)
LEMMA HonestSignsStep ==
    ASSUME ClockOk, HonestSigns, [ExchangeNext]_exchangeVars
    PROVE  HonestSigns'
<1>1. /\ offered \subseteq offered' /\ done \subseteq done' /\ published \subseteq published'
      /\ beat' \in Nat /\ beat <= beat'
  BY RecordsGrow, Zenon
<1>2. \A s \in signed : s.key \in Honest => HonestlySigned(s)'
  BY <1>1, SignedStaysInOrder, Zenon
<1>3. ASSUME NEW key, NEW msg, signed' = signed \cup {signature(key, msg)},
             key \in Honest => HonestlySigned(signature(key, msg))'
      PROVE  HonestSigns'
  BY <1>2, <1>3, SignatureFields, Zenon DEF HonestSigns
<1>4. CASE Host
  <2> PICK key \in Honest : 
        \/ \E word \in CardWord : seal_card(key, word)
        \/ seal_beacon(key)
        \/ \E f \in air, out \in Output : perform(key, f, out)
        \/ \E l \in [1 .. 4 -> {d.leaf : d \in done}] : seal_batch(key, l)
        \/ \E rounds \in [1 .. 3 -> Round] : seal_ledger(key, rounds)
        \/ \E task \in Task, operands \in Operands, bond \in Nat :
               seal_claim(key, task, operands, bond)
    BY <1>4, Zenon DEF Host
  <2>1. ASSUME NEW word, seal_card(key, word)
        PROVE  HonestSigns'
    <3>1. signed' = signed \cup {signature(key, card_msg(word))}
      BY <2>1, Zenon DEF seal_card, SignAndSeal
    <3>2. [key |-> key, word |-> word] \in offered'
      BY <2>1, Zenon DEF seal_card
    <3>3. QED  BY <1>3, <3>1, <3>2, CardSigned, Zenon
  <2>2. CASE seal_beacon(key)
    <3> PICK seq \in Nat \ {0} : seq = clock
      BY Zenon DEF ClockOk
    <3>1. signed' = signed \cup {signature(key, beacon_msg(MSG_HEARTBEAT, seq, executor_id(key)))}
      BY <2>2, Zenon DEF seal_beacon, SignAndSeal
    <3>2. executor_id(key) = Trusted => beat' = seq
      BY <2>2, Zenon DEF seal_beacon
    <3>3. QED  BY <1>1, <1>3, <3>1, <3>2, BeaconSigned, Zenon
  <2>3. ASSUME NEW f, NEW out, perform(key, f, out)
        PROVE  HonestSigns'
    <3> PICK task, operands : task = f.pt.task /\ operands = f.pt.operands
      BY Zenon
    <3>1. /\ signed' = signed \cup {signature(key, input_digest(task, operands, out))}
          /\ [key |-> key, leaf |-> input_digest(task, operands, out)] \in done'
      BY <2>3, Zenon DEF perform, SignAndSeal
    <3>2. QED  BY <1>3, <3>1, ReceiptSigned, Zenon
  <2>4. ASSUME NEW l, seal_batch(key, l)
        PROVE  HonestSigns'
    <3>1. signed' = signed \cup {signature(key, merkle_root(l[1], l[2], l[3], l[4]))}
      BY <2>4, Zenon DEF seal_batch, SignAndSeal
    <3>2. \A i \in 1 .. 4 : [key |-> key, leaf |-> l[i]] \in done
      BY <2>4, Zenon DEF seal_batch
    <3>3. \A x \in {l[1], l[2], l[3], l[4]} : [key |-> key, leaf |-> x] \in done'
      BY <1>1, <3>2, FourLeaves, Zenon
    <3>4. HonestlySigned(signature(key, merkle_root(l[1], l[2], l[3], l[4])))'
      BY <3>3, RootSigned, Zenon
    <3>5. QED  BY <1>3, <3>1, <3>4, Zenon
  <2>5. ASSUME NEW rounds, seal_ledger(key, rounds)
        PROVE  HonestSigns'
    <3>1. signed' = signed \cup {signature(key, recompute_chain(rounds))}
      BY <2>5, Zenon DEF seal_ledger, SignAndSeal
    <3>2. [key |-> key, rounds |-> rounds] \in published'
      BY <2>5, Zenon DEF seal_ledger
    <3>3. QED  BY <1>3, <3>1, <3>2, HeadSigned, Zenon
  <2>6. ASSUME NEW task, NEW operands, NEW bond, seal_claim(key, task, operands, bond)
        PROVE  HonestSigns'
    <3> PICK out : out = product(operands)
      BY Zenon
    <3>1. /\ signed' = signed \cup {signature(key, input_digest(task, operands, out))}
          /\ [key |-> key, leaf |-> input_digest(task, operands, out)] \in done'
      BY <2>6, Zenon DEF seal_claim, SignAndSeal
    <3>2. QED  BY <1>3, <3>1, ReceiptSigned, Zenon
  <2>7. QED  BY <2>1, <2>2, <2>3, <2>4, <2>5, <2>6, Zenon
<1>5. ASSUME NEW key \in Key, NEW msg \in AnyMessage, Misbehave(key, msg)
      PROVE  HonestSigns'
  BY <1>3, <1>5, Zenon DEF Misbehave
<1>6. ASSUME signed' = signed
      PROVE  HonestSigns'
  BY <1>2, <1>6, Zenon DEF HonestSigns
<1>7. Requester => signed' = signed
  BY Zenon DEF Requester, open_card, accept_beacon, assign, settle, settle_batch, audit_ledger,
         adjudicate
<1>8. CASE Others
  BY <1>5, <1>6, <1>8, Zenon DEF Others, Pass, Inject
<1>9. QED  BY <1>4, <1>6, <1>7, <1>8, Zenon DEF ExchangeNext, exchangeVars

(* Each piece of the requester's state is changed by its own handler only. *)
LEMMA HandlersApart ==
    ASSUME [ExchangeNext]_exchangeVars
    PROVE  /\ known' = known \/ \E f \in Received("card") : open_card(f)
           /\ heard' = heard \/ \E f \in Received("beacon") : accept_beacon(f)
           /\ \/ assigned' = assigned
              \/ \E task \in Task, operands \in Operands, skill \in Skill :
                     assign(task, operands, skill)
           /\ \/ window' = window /\ paid' = paid
              \/ \E f \in Received("result"), a \in assigned : settle(f, a)
           /\ batched' = batched \/ \E f \in Received("batch") : settle_batch(f)
           /\ audited' = audited \/ \E f \in Received("ledger") : audit_ledger(f)
           /\ \/ verdicts' = verdicts
              \/ \E f \in Received("claim"), task \in Task, settled_at \in Nat,
                    challenge_window \in Nat : adjudicate(f, task, settled_at, challenge_window)
<1>1. CASE Host
  <2>1. UNCHANGED requesterVars
    BY <1>1, Zenon DEF Host, seal_card, seal_beacon, perform, seal_batch, seal_ledger, seal_claim
  <2>2. QED  BY <2>1, Zenon DEF requesterVars
<1>2. CASE Others
  <2>1. UNCHANGED requesterVars
    BY <1>2, Zenon DEF Others, Pass, Misbehave, Inject
  <2>2. QED  BY <2>1, Zenon DEF requesterVars
<1>3. CASE UNCHANGED exchangeVars
  BY <1>3, Zenon DEF exchangeVars, requesterVars
<1>4. CASE \E f \in Received("card") : open_card(f)
  <2>1. UNCHANGED <<heard, assigned, window, paid, batched, audited, verdicts>>
    BY <1>4, Zenon DEF open_card
  <2>2. QED  BY <1>4, <2>1, Zenon
<1>5. CASE \E f \in Received("beacon") : accept_beacon(f)
  <2>1. UNCHANGED <<known, assigned, window, paid, batched, audited, verdicts>>
    BY <1>5, Zenon DEF accept_beacon
  <2>2. QED  BY <1>5, <2>1, Zenon
<1>6. CASE \E task \in Task, operands \in Operands, skill \in Skill :
               assign(task, operands, skill)
  <2>1. UNCHANGED <<known, heard, window, paid, batched, audited, verdicts>>
    BY <1>6, Zenon DEF assign
  <2>2. QED  BY <1>6, <2>1, Zenon
<1>7. CASE \E f \in Received("result"), a \in assigned : settle(f, a)
  <2>1. UNCHANGED <<known, heard, assigned, batched, audited, verdicts>>
    BY <1>7, Zenon DEF settle
  <2>2. QED  BY <1>7, <2>1, Zenon
<1>8. CASE \E f \in Received("batch") : settle_batch(f)
  <2>1. UNCHANGED <<known, heard, assigned, window, paid, audited, verdicts>>
    BY <1>8, Zenon DEF settle_batch
  <2>2. QED  BY <1>8, <2>1, Zenon
<1>9. CASE \E f \in Received("ledger") : audit_ledger(f)
  <2>1. UNCHANGED <<known, heard, assigned, window, paid, batched, verdicts>>
    BY <1>9, Zenon DEF audit_ledger
  <2>2. QED  BY <1>9, <2>1, Zenon
<1>10. CASE \E f \in Received("claim"), task \in Task, settled_at \in Nat,
               challenge_window \in Nat : adjudicate(f, task, settled_at, challenge_window)
  <2>1. UNCHANGED <<known, heard, assigned, window, paid, batched, audited>>
    BY <1>10, Zenon DEF adjudicate
  <2>2. QED  BY <1>10, <2>1, Zenon
<1>11. QED
  BY <1>1, <1>2, <1>3, <1>4, <1>5, <1>6, <1>7, <1>8, <1>9, <1>10, Zenon DEF ExchangeNext,
                                                            Requester

(* A message that passes WHO under an honest identity was honestly signed. *)
LEMMA WhoIsHonest ==
    ASSUME HonestSigns, NEW pt, NEW msg, who_ok(pt, msg), HonestId(pt.exec)
    PROVE  /\ pt.key \in Honest /\ executor_id(pt.key) = pt.exec
           /\ HonestlySigned(signature(pt.key, msg))
<1>1. pt.key \in Key /\ pt.exec = executor_id(pt.key) /\ signature(pt.key, msg) \in signed
  BY Zenon DEF who_ok
<1>2. pt.key \in Honest
  BY <1>1, Zenon DEF HonestId
<1>3. signature(pt.key, msg).key = pt.key
  BY SignatureFields, Zenon
<1>4. QED  BY <1>1, <1>2, <1>3, Zenon DEF HonestSigns

(* What an honest signature on each kind of message says. *)
LEMMA ReceiptRead ==
    ASSUME NEW key, NEW task, NEW operands, NEW out,
           HonestlySigned(signature(key, input_digest(task, operands, out)))
    PROVE  Signed(executor_id(key), task, operands, out)
<1> DEFINE m == input_digest(task, operands, out)
<1>1. m.kind = "receipt"
  BY Zenon DEF input_digest
<1> HIDE DEF m
<1>2. HonestlySigned(signature(key, m))
  BY Zenon DEF m
<1>3. signature(key, m).msg = m /\ signature(key, m).key = key
  BY SignatureFields, Zenon
<1>4. ReceiptOk(signature(key, m))
  BY <1>2, Zenon DEF HonestlySigned
<1> DEFINE d == [key |-> key, leaf |-> m]
<1>5. d \in done /\ d.key = key /\ d.leaf = m
  BY <1>1, <1>3, <1>4, Zenon DEF ReceiptOk
<1> HIDE DEF d
<1>6. QED  BY <1>5, Zenon DEF Signed, m

(* An honest beacon is numbered no later than the last one sent. *)
LEMMA BeaconRead ==
    ASSUME NEW key, NEW class, NEW seq, NEW id,
           HonestlySigned(signature(key, beacon_msg(class, seq, id)))
    PROVE  seq = 0 \/ Beaten(key, seq)
<1> DEFINE m == beacon_msg(class, seq, id)
<1>1. m.kind = "words" /\ m.w1 = seq
  BY Zenon DEF beacon_msg
<1> HIDE DEF m
<1>2. HonestlySigned(signature(key, m))
  BY Zenon DEF m
<1>3. signature(key, m).key = key /\ signature(key, m).msg = m
  BY SignatureFields, Zenon
<1>4. WordsOk(signature(key, m))
  BY <1>2, Zenon DEF HonestlySigned
<1>5. QED  BY <1>1, <1>3, <1>4, Zenon DEF WordsOk

(* An honest card was offered. *)
LEMMA CardRead ==
    ASSUME NEW key, NEW word, HonestlySigned(signature(key, card_msg(word)))
    PROVE  [key |-> key, word |-> word] \in offered
<1> DEFINE m == card_msg(word)
<1>1. m.kind = "words" /\ m.w1 = 0 /\ m.w0 = word
  BY Zenon DEF card_msg
<1> HIDE DEF m
<1>2. HonestlySigned(signature(key, m))
  BY Zenon DEF m
<1>3. ~Beaten(key, 0)
  BY Zenon DEF Beaten
<1>4. QED  BY <1>1, <1>2, <1>3, SignatureFields, Zenon DEF HonestlySigned, WordsOk

(* The requester's beliefs about the trusted host lag what it did. *)
HeardOk == heard \in Nat /\ (HonestId(Trusted) => heard <= beat)

KnownOk ==
    HonestId(Trusted) =>
        \A c \in known : c.exec = Trusted =>
            \E o \in offered : executor_id(o.key) = Trusted /\ o.word = c.word

(* The watermark never passes the last beacon the trusted host sent. *)
LEMMA HeardOkStep ==
    ASSUME ClockOk, HonestSigns, HeardOk, [ExchangeNext]_exchangeVars
    PROVE  HeardOk'
<1>1. beat \in Nat /\ beat' \in Nat /\ beat <= beat'
  BY RecordsGrow, Zenon DEF ClockOk
<1>2. CASE heard' = heard
  BY <1>1, <1>2 DEF HeardOk
<1>3. ASSUME NEW f, accept_beacon(f)
      PROVE  HeardOk'
  <2>1. /\ who_ok(f.pt, beacon_msg(f.pt.class, f.pt.seq, f.pt.exec))
        /\ f.pt.exec = Trusted /\ f.pt.seq \in Nat /\ heard' = f.pt.seq /\ beat' = beat
    BY <1>3, Zenon DEF accept_beacon
  <2>2. ASSUME HonestId(Trusted)
        PROVE  f.pt.seq <= beat
    <3>1. /\ executor_id(f.pt.key) = Trusted
          /\ HonestlySigned(signature(f.pt.key, beacon_msg(f.pt.class, f.pt.seq, f.pt.exec)))
      BY <2>1, <2>2, WhoIsHonest, Zenon
    <3>2. f.pt.seq = 0 \/ Beaten(f.pt.key, f.pt.seq)
      BY <3>1, BeaconRead, Zenon
    <3>3. QED  BY <1>1, <2>1, <3>1, <3>2 DEF Beaten
  <2>3. QED  BY <2>1, <2>2, Zenon DEF HeardOk
<1>4. QED  BY <1>2, <1>3, HandlersApart, Zenon

(* The requester knows no card of the trusted host that it did not offer. *)
LEMMA KnownOkStep ==
    ASSUME ClockOk, HonestSigns, KnownOk, [ExchangeNext]_exchangeVars
    PROVE  KnownOk'
<1>1. offered \subseteq offered'
  BY RecordsGrow, Zenon
<1>2. CASE known' = known
  BY <1>1, <1>2, Zenon DEF KnownOk
<1>3. ASSUME NEW f, open_card(f)
      PROVE  KnownOk'
  <2> DEFINE c == [exec |-> f.pt.exec, word |-> f.pt.word]
  <2>1. who_ok(f.pt, card_msg(f.pt.word)) /\ known' = known \cup {c}
    BY <1>3, Zenon DEF open_card
  <2>2. c.exec = f.pt.exec /\ c.word = f.pt.word
    BY Zenon
  <2> HIDE DEF c
  <2>3. ASSUME HonestId(Trusted), c.exec = Trusted
        PROVE  \E o \in offered : executor_id(o.key) = Trusted /\ o.word = c.word
    <3>1. /\ executor_id(f.pt.key) = Trusted
          /\ HonestlySigned(signature(f.pt.key, card_msg(f.pt.word)))
      BY <2>1, <2>2, <2>3, WhoIsHonest, Zenon
    <3>2. [key |-> f.pt.key, word |-> f.pt.word] \in offered
      BY <3>1, CardRead, Zenon
    <3>3. QED  BY <2>2, <3>1, <3>2, Zenon
  <2>4. QED  BY <1>1, <2>1, <2>3, Zenon DEF KnownOk
<1>4. QED  BY <1>2, <1>3, HandlersApart, Zenon

(* A leaf under an honestly signed root was computed by the signer. *)
LEMMA RootRead ==
    ASSUME NEW key, NEW leaf, NEW proof,
           HonestlySigned(signature(key, verify_inclusion(leaf, proof)))
    PROVE  [key |-> key, leaf |-> leaf] \in done
<1> DEFINE m == verify_inclusion(leaf, proof)
           s == signature(key, m)
<1>1. m.kind = "pair"
  BY Zenon DEF verify_inclusion, fold_step, pair256
<1>2. s.key = key /\ s.msg = m
  BY SignatureFields, Zenon
<1>3. PairOk(s)
  BY Zenon DEF HonestlySigned
<1> HIDE DEF m, s
<1> PICK l1, l2, l3, l4 :
        /\ s.msg = merkle_root(l1, l2, l3, l4)
        /\ \A x \in {l1, l2, l3, l4} : [key |-> s.key, leaf |-> x] \in done
  BY <1>1, <1>2, <1>3, Zenon DEF PairOk
<1>4. leaf \in {l1, l2, l3, l4}
  <2>1. verify_inclusion(leaf, proof) = merkle_root(l1, l2, l3, l4)
    BY <1>2, Zenon DEF m
  <2>2. QED  BY <2>1, InclusionIsMembership
<1>5. QED  BY <1>2, <1>4, Zenon

(* A history under an honestly signed head was published by the signer. *)
LEMMA HeadRead ==
    ASSUME NEW key, NEW rounds, HonestlySigned(signature(key, recompute_chain(rounds)))
    PROVE  \E p \in published : p.key = key /\ SameHistory(p.rounds, rounds)
<1> DEFINE m == recompute_chain(rounds)
           s == signature(key, m)
<1>1. m.kind = "head"
  BY Zenon DEF recompute_chain, advance_head, ledger_head256
<1>2. s.key = key /\ s.msg = m
  BY SignatureFields, Zenon
<1>3. HeadOk(s)
  BY Zenon DEF HonestlySigned
<1> HIDE DEF m, s
<1> PICK p \in published : p.key = s.key /\ s.msg = recompute_chain(p.rounds)
  BY <1>1, <1>2, <1>3, Zenon DEF HeadOk
<1>4. recompute_chain(p.rounds) = recompute_chain(rounds)
  BY <1>2, Zenon DEF m
<1>5. SameHistory(p.rounds, rounds)
  BY <1>4, HeadFixesHistory, Zenon
<1>6. QED  BY <1>2, <1>5, Zenon

(* What was signed stays signed. *)
LEMMA SignedStays ==
    ASSUME done \subseteq done', NEW id, NEW task, NEW operands, NEW out,
           Signed(id, task, operands, out)
    PROVE  Signed(id, task, operands, out)'
BY Zenon DEF Signed

(* A message that passes WHO under an honest identity is on its record. *)
LEMMA WhoSigned ==
    ASSUME HonestSigns, NEW pt, NEW task, NEW operands, NEW out, NEW id, pt.exec = id,
           who_ok(pt, input_digest(task, operands, out)), HonestId(id)
    PROVE  Signed(id, task, operands, out)
<1> PICK key : key = pt.key
  BY Zenon
<1>1. /\ executor_id(key) = id
      /\ HonestlySigned(signature(key, input_digest(task, operands, out)))
  BY WhoIsHonest, Zenon
<1>2. QED  BY <1>1, ReceiptRead, Zenon

(* Every step keeps: what is paid to an honest executor it signed. *)
LEMMA PaidStep ==
    ASSUME ClockOk, HonestSigns, PaidWasDone, [ExchangeNext]_exchangeVars
    PROVE  PaidWasDone'
<1>1. assigned \subseteq assigned' /\ done \subseteq done'
  BY RecordsGrow, Zenon
<1>2. ASSUME NEW p \in paid
      PROVE  /\ \E a \in assigned' : a.task = p.task /\ a.operands = p.operands
             /\ HonestId(p.exec) => Signed(p.exec, p.task, p.operands, p.out)'
  BY <1>1, SignedStays, Zenon DEF PaidWasDone
<1>3. CASE paid' = paid
  BY <1>2, <1>3, Zenon DEF PaidWasDone, HonestId
<1>4. ASSUME NEW f, NEW a \in assigned, settle(f, a)
      PROVE  PaidWasDone'
  <2> DEFINE p == [ctr |-> f.ctr, exec |-> f.pt.exec, task |-> a.task,
                   operands |-> a.operands, out |-> f.pt.out]
  <2>1. /\ who_ok(f.pt, input_digest(a.task, a.operands, f.pt.out))
        /\ paid' = paid \cup {p}
    BY <1>4, Zenon DEF settle
  <2>2. p.exec = f.pt.exec /\ p.task = a.task /\ p.operands = a.operands /\ p.out = f.pt.out
    BY Zenon
  <2> HIDE DEF p
  <2>3. ASSUME HonestId(p.exec)
        PROVE  Signed(p.exec, p.task, p.operands, p.out)'
    <3>1. who_ok(f.pt, input_digest(p.task, p.operands, p.out)) /\ f.pt.exec = p.exec
      BY <2>1, <2>2, Zenon
    <3> PICK pt, task, operands, out, id :
            /\ pt = f.pt /\ task = p.task /\ operands = p.operands /\ out = p.out
            /\ id = p.exec
      BY Zenon
    <3>2. Signed(id, task, operands, out)
      BY <2>3, <3>1, WhoSigned, Zenon
    <3>3. Signed(id, task, operands, out)'
      BY <1>1, <3>2, SignedStays, Zenon
    <3>4. QED  BY <3>3, Zenon
  <2>4. \E b \in assigned' : b.task = p.task /\ b.operands = p.operands
    BY <1>1, <2>2, Zenon
  <2>5. QED  BY <1>2, <2>1, <2>3, <2>4, Zenon DEF PaidWasDone, HonestId
<1>5. QED  BY <1>3, <1>4, HandlersApart, Zenon

(* Every step keeps: what is paid through a batch was computed. *)
LEMMA BatchedStep ==
    ASSUME ClockOk, HonestSigns, BatchedWasDone, [ExchangeNext]_exchangeVars
    PROVE  BatchedWasDone'
<1>1. done \subseteq done'
  BY RecordsGrow, Zenon
<1>2. CASE batched' = batched
  BY <1>1, <1>2, Zenon DEF BatchedWasDone, HonestId
<1>3. ASSUME NEW f, settle_batch(f)
      PROVE  BatchedWasDone'
  <2>1. who_ok(f.pt, f.pt.root)
    BY <1>3, Zenon DEF settle_batch
  <2>2. ASSUME NEW b \in batched', b \notin batched, HonestId(b.exec)
        PROVE  \E d \in done : executor_id(d.key) = b.exec /\ d.leaf = b.leaf
    <3> PICK r : /\ b = [exec |-> f.pt.exec, leaf |-> r.leaf]
                 /\ verify_inclusion(r.leaf, r.proof) = f.pt.root
      BY <1>3, <2>2, Zenon DEF settle_batch
    <3>1. b.exec = f.pt.exec /\ b.leaf = r.leaf
      BY Zenon
    <3>2. /\ executor_id(f.pt.key) = f.pt.exec
          /\ HonestlySigned(signature(f.pt.key, verify_inclusion(r.leaf, r.proof)))
      BY <2>1, <2>2, <3>1, WhoIsHonest, Zenon
    <3>3. [key |-> f.pt.key, leaf |-> r.leaf] \in done
      BY <3>2, RootRead, Zenon
    <3>4. QED  BY <3>1, <3>2, <3>3, Zenon
  <2>3. QED  BY <1>1, <2>2, Zenon DEF BatchedWasDone, HonestId
<1>4. QED  BY <1>2, <1>3, HandlersApart, Zenon

(* Every step keeps: what is audited was published. *)
LEMMA AuditedStep ==
    ASSUME ClockOk, HonestSigns, AuditedWasPublished, [ExchangeNext]_exchangeVars
    PROVE  AuditedWasPublished'
<1>1. published \subseteq published'
  BY RecordsGrow, Zenon
<1>2. CASE audited' = audited
  BY <1>1, <1>2, Zenon DEF AuditedWasPublished, HonestId
<1>3. ASSUME NEW f, audit_ledger(f)
      PROVE  AuditedWasPublished'
  <2> DEFINE h == [exec |-> f.pt.exec, rounds |-> f.pt.rounds]
  <2>1. who_ok(f.pt, recompute_chain(f.pt.rounds)) /\ audited' = audited \cup {h}
    BY <1>3, Zenon DEF audit_ledger
  <2>2. h.exec = f.pt.exec /\ h.rounds = f.pt.rounds
    BY Zenon
  <2> HIDE DEF h
  <2>3. ASSUME HonestId(h.exec)
        PROVE  \E p \in published :
                   executor_id(p.key) = h.exec /\ SameHistory(p.rounds, h.rounds)
    <3> PICK k, rs : k = f.pt.key /\ rs = f.pt.rounds
      BY Zenon
    <3>1. HonestId(f.pt.exec)
      BY <2>2, <2>3, Zenon
    <3>2. executor_id(k) = f.pt.exec /\ HonestlySigned(signature(k, recompute_chain(rs)))
      BY <2>1, <3>1, WhoIsHonest, Zenon
    <3> PICK p \in published : p.key = k /\ SameHistory(p.rounds, rs)
      BY <3>2, HeadRead, Zenon
    <3>3. executor_id(p.key) = h.exec /\ h.rounds = rs
      BY <2>2, <3>2, Zenon
    <3>4. QED  BY <3>3, Zenon
  <2>4. QED  BY <1>1, <2>1, <2>3, Zenon DEF AuditedWasPublished, HonestId
<1>4. QED  BY <1>2, <1>3, HandlersApart, Zenon

(* Every step keeps: a verdict against an honest executor is earned. *)
LEMMA VerdictsStep ==
    ASSUME ClockOk, HonestSigns, SlashIsEarned, [ExchangeNext]_exchangeVars
    PROVE  SlashIsEarned'
<1>0. done \subseteq done'
  BY RecordsGrow, Zenon
<1>v. ASSUME NEW v \in verdicts, HonestId(v.exec),
             v.state = "reversed" \/ v.kept # v.bond \/ v.won # 0
      PROVE  /\ v.claimed # product(v.operands)
             /\ Signed(v.exec, v.task, v.operands, v.claimed)'
  BY <1>0, <1>v, SignedStays, Zenon DEF SlashIsEarned
<1>1. CASE verdicts' = verdicts
  BY <1>1, <1>v, Zenon DEF SlashIsEarned, HonestId
<1>2. ASSUME NEW f, NEW task, NEW settled_at, NEW challenge_window,
             adjudicate(f, task, settled_at, challenge_window)
      PROVE  SlashIsEarned'
  <2> DEFINE outcome == resolve(f.pt.claimed, product(f.pt.operands))
             isopen == window_open(clock, settled_at, challenge_window)
             v == [exec |-> f.pt.exec, task |-> task, operands |-> f.pt.operands,
                   claimed |-> f.pt.claimed, bond |-> f.pt.bond, outcome |-> outcome,
                   state |-> settle_state(isopen, outcome = "slash"),
                   kept |-> bond_after(f.pt.bond, outcome), won |-> bounty(f.pt.bond, outcome)]
  <2>1. /\ who_ok(f.pt, input_digest(task, f.pt.operands, f.pt.claimed))
        /\ verdicts' = verdicts \cup {v}
    BY <1>2, Zenon DEF adjudicate
  <2>2. /\ v.exec = f.pt.exec /\ v.bond = f.pt.bond /\ v.task = task
        /\ v.operands = f.pt.operands /\ v.claimed = f.pt.claimed
        /\ v.state = settle_state(isopen, outcome = "slash")
        /\ v.kept = bond_after(f.pt.bond, outcome) /\ v.won = bounty(f.pt.bond, outcome)
    <3> HIDE DEF outcome, isopen
    <3>1. QED  BY Zenon
  <2>3. ASSUME v.claimed = product(v.operands)
        PROVE  v.state # "reversed" /\ v.kept = v.bond /\ v.won = 0
    <3>1. f.pt.claimed = product(f.pt.operands)
      <4> HIDE DEF v
      <4>1. QED  BY <2>2, <2>3, Zenon
    <3>2. outcome = "honest"
      BY <3>1, Zenon DEF resolve
    <3> HIDE DEF v, outcome, isopen
    <3>3. QED  BY <2>2, <3>2, Zenon DEF settle_state, bond_after, bounty
  <2> HIDE DEF v
  <2> PICK w : w = v
    BY Zenon
  <2>w. /\ verdicts' = verdicts \cup {w}
        /\ w.claimed = product(w.operands) => w.state # "reversed" /\ w.kept = w.bond /\ w.won = 0
        /\ w.exec = f.pt.exec /\ w.task = task
        /\ w.operands = f.pt.operands /\ w.claimed = f.pt.claimed
    BY <2>1, <2>2, <2>3, Zenon
  <2>4. ASSUME HonestId(w.exec)
        PROVE  Signed(w.exec, w.task, w.operands, w.claimed)'
    <3>1. who_ok(f.pt, input_digest(w.task, w.operands, w.claimed)) /\ f.pt.exec = w.exec
      BY <2>1, <2>w, Zenon
    <3> PICK pt, operands, out, id, t :
            /\ pt = f.pt /\ operands = w.operands /\ out = w.claimed /\ id = w.exec
            /\ t = w.task
      BY Zenon
    <3>2. Signed(id, t, operands, out)
      BY <2>4, <3>1, WhoSigned, Zenon
    <3>3. Signed(id, t, operands, out)'
      BY <1>0, <3>2, SignedStays, Zenon
    <3>4. QED  BY <3>3, Zenon
  <2>5. QED  BY <1>v, <2>w, <2>4, Zenon DEF SlashIsEarned, HonestId
<1>3. QED  BY <1>1, <1>2, HandlersApart, Zenon

(* A counter the window knows is one it refuses for good. *)
Refused(w, c) ==
    /\ w.seen_any /\ c <= w.top
    /\ w.top - c < WINDOW_WIDTH => (w.top - c) \in w.bits

WindowType == [seen_any : BOOLEAN, top : Nat, bits : SUBSET (0 .. WINDOW_WIDTH - 1)]

(* replay_accept refuses what the window knows. *)
LEMMA RefusedIsNotAccepted ==
    ASSUME NEW w \in WindowType, NEW c \in Nat, Refused(w, c)
    PROVE  ~replay_accept(w, c)
BY DEF Refused, WindowType, replay_accept, WINDOW_WIDTH

(* Accepting a counter makes the window know it and forget none. *)
LEMMA WindowMoves ==
    ASSUME NEW w \in WindowType, NEW ctr \in Nat, replay_accept(w, ctr)
    PROVE  /\ replay_next(w, ctr) \in WindowType
           /\ Refused(replay_next(w, ctr), ctr)
           /\ \A c \in Nat : Refused(w, c) => Refused(replay_next(w, ctr), c)
<1> DEFINE n == replay_next(w, ctr)
<1>1. n.seen_any = TRUE /\ n.top = replay_next_top(w, ctr) /\ n.bits = replay_next_bits(w, ctr)
  BY Zenon DEF replay_next
<1>2. w.seen_any \in BOOLEAN /\ w.top \in Nat /\ w.bits \subseteq 0 .. 63
  BY DEF WindowType, WINDOW_WIDTH
<1>3. CASE ~w.seen_any
  <2>1. n.top = ctr /\ n.bits = {0}
    BY <1>1, <1>3, Zenon DEF replay_next_top, replay_next_bits
  <2>2. n \in WindowType
    BY <1>3 DEF replay_next, replay_next_top, replay_next_bits, WindowType, WINDOW_WIDTH
  <2> HIDE DEF n
  <2>3. Refused(n, ctr)
    BY <1>1, <2>1 DEF Refused, WINDOW_WIDTH
  <2>4. QED  BY <1>3, <2>2, <2>3, Zenon DEF Refused, n
<1>4. CASE w.seen_any /\ ctr > w.top
  <2>1. n.top = ctr /\ n.bits = {d \in 0 .. 63 : d = 0 \/ (d - (ctr - w.top)) \in w.bits}
    BY <1>1, <1>4 DEF replay_next_top, replay_next_bits, Shifted, WINDOW_WIDTH
  <2>2. n \in WindowType
    BY <1>4, Zenon DEF replay_next, replay_next_top, replay_next_bits, Shifted, WindowType,
                       WINDOW_WIDTH
  <2> HIDE DEF n
  <2>3. Refused(n, ctr)
    BY <1>1, <2>1 DEF Refused, WINDOW_WIDTH
  <2>4. ASSUME NEW c \in Nat, Refused(w, c)
        PROVE  Refused(n, c)
    BY <1>1, <1>2, <1>4, <2>1, <2>4 DEF Refused, WINDOW_WIDTH
  <2>5. QED  BY <2>2, <2>3, <2>4, Zenon DEF n
<1>5. CASE w.seen_any /\ ctr <= w.top
  <2>1. n.top = w.top /\ n.bits = w.bits \cup {w.top - ctr} /\ w.top - ctr < 64
    BY <1>1, <1>2, <1>5 DEF replay_next_top, replay_next_bits, replay_accept, WINDOW_WIDTH
  <2>2. n \in WindowType
    <3>1. n = [seen_any |-> TRUE, top |-> w.top, bits |-> w.bits \cup {w.top - ctr}]
      BY <1>1, <2>1, Zenon DEF replay_next
    <3>2. (w.bits \cup {w.top - ctr}) \subseteq 0 .. 63
      BY <1>2, <1>5, <2>1
    <3> HIDE DEF n
    <3>3. QED  BY <1>2, <3>1, <3>2 DEF WindowType, WINDOW_WIDTH
  <2> HIDE DEF n
  <2>3. Refused(n, ctr)
    BY <1>1, <1>5, <2>1, Zenon DEF Refused, WINDOW_WIDTH
  <2>4. ASSUME NEW c \in Nat, Refused(w, c)
        PROVE  Refused(n, c)
    BY <1>1, <2>1, <2>4, Zenon DEF Refused
  <2>5. QED  BY <2>2, <2>3, <2>4, Zenon DEF n
<1>6. QED  BY <1>2, <1>3, <1>4, <1>5

(* The window refuses every counter that was paid. *)
PaidIsRefused == window \in WindowType /\ \A p \in paid : p.ctr \in Nat /\ Refused(window, p.ctr)

(* Every step keeps: a paid counter is known to the window. *)
LEMMA PaidOnceStep ==
    ASSUME PaidIsRefused, CountersPayOnce, [ExchangeNext]_exchangeVars
    PROVE  PaidIsRefused' /\ CountersPayOnce'
<1>1. CASE window' = window /\ paid' = paid
  BY <1>1, Zenon DEF PaidIsRefused, CountersPayOnce
<1>2. ASSUME NEW f, NEW a, settle(f, a)
      PROVE  PaidIsRefused' /\ CountersPayOnce'
  <2> DEFINE p == [ctr |-> f.ctr, exec |-> f.pt.exec, task |-> a.task,
                   operands |-> a.operands, out |-> f.pt.out]
  <2>1. /\ f.ctr \in Nat /\ replay_accept(window, f.ctr)
        /\ window' = replay_next(window, f.ctr) /\ paid' = paid \cup {p}
    BY <1>2, Zenon DEF settle
  <2>2. p.ctr = f.ctr
    BY Zenon
  <2> HIDE DEF p
  <2>3. /\ window' \in WindowType /\ Refused(window', f.ctr)
        /\ \A c \in Nat : Refused(window, c) => Refused(window', c)
    BY <2>1, WindowMoves, Zenon DEF PaidIsRefused
  <2>4. PaidIsRefused'
    BY <2>1, <2>2, <2>3, Zenon DEF PaidIsRefused
  <2>5. \A q \in paid : q.ctr # p.ctr
    BY <2>1, <2>2, RefusedIsNotAccepted, Zenon DEF PaidIsRefused
  <2>6. QED  BY <2>1, <2>4, <2>5, Zenon DEF CountersPayOnce
<1>3. QED  BY <1>1, <1>2, HandlersApart, Zenon

(* Every step keeps: work goes only to skills that were offered. *)
LEMMA RoutedStep ==
    ASSUME ClockOk, KnownOk, RoutedWasOffered, [ExchangeNext]_exchangeVars
    PROVE  RoutedWasOffered'
<1>1. offered \subseteq offered'
  BY RecordsGrow, Zenon
<1>2. CASE assigned' = assigned
  BY <1>1, <1>2, Zenon DEF RoutedWasOffered, HonestId
<1>3. ASSUME NEW task, NEW operands, NEW skill, assign(task, operands, skill)
      PROVE  RoutedWasOffered'
  <2> DEFINE a == [task |-> task, operands |-> operands, skill |-> skill]
  <2>1. /\ \E c \in known : c.exec = Trusted /\ can_serve_skill_op(c.word, skill)
        /\ assigned' = assigned \cup {a}
    BY <1>3, Zenon DEF assign
  <2>2. a.skill = skill
    BY Zenon
  <2> HIDE DEF a
  <2>3. HonestId(Trusted) => \E o \in offered :
            executor_id(o.key) = Trusted /\ can_serve_skill_op(o.word, a.skill)
    BY <2>1, <2>2, Zenon DEF KnownOk
  <2>4. QED  BY <1>1, <2>1, <2>3, Zenon DEF RoutedWasOffered, HonestId
<1>4. QED  BY <1>2, <1>3, HandlersApart, Zenon

(* The inductive invariant of the exchange. *)
ExchangeInv ==
    /\ ClockOk /\ HonestSigns /\ HeardOk /\ KnownOk /\ PaidIsRefused
    /\ PaidWasDone /\ CountersPayOnce /\ BatchedWasDone /\ AuditedWasPublished
    /\ SlashIsEarned /\ RoutedWasOffered

(* The exchange keeps its invariant for any set of keys, honest or not,    *)
(* any identities, tasks and skills, and any delivery of the frames.        *)
THEOREM ExchangeInvariant == ExchangeSpec => []ExchangeInv
<1>1. ExchangeInit => ExchangeInv
  <2> SUFFICES ASSUME ExchangeInit PROVE ExchangeInv
    BY Zenon
  <2>1. ClockOk /\ HeardOk
    BY DEF ExchangeInit, ClockOk, HeardOk
  <2>2. HonestSigns /\ KnownOk /\ PaidWasDone /\ CountersPayOnce /\ BatchedWasDone
    BY Zenon DEF ExchangeInit, HonestSigns, KnownOk, PaidWasDone, CountersPayOnce,
                 BatchedWasDone
  <2>3. AuditedWasPublished /\ SlashIsEarned /\ RoutedWasOffered
    BY Zenon DEF ExchangeInit, AuditedWasPublished, SlashIsEarned, RoutedWasOffered
  <2>4. PaidIsRefused
    BY Zenon DEF ExchangeInit, PaidIsRefused, NoneSeen, WindowType, WINDOW_WIDTH
  <2>5. QED  BY <2>1, <2>2, <2>3, <2>4, Zenon DEF ExchangeInv
<1>2. ExchangeInv /\ [ExchangeNext]_exchangeVars => ExchangeInv'
  <2> SUFFICES ASSUME ExchangeInv, [ExchangeNext]_exchangeVars PROVE ExchangeInv'
    BY Zenon
  <2>1. ClockOk /\ HonestSigns /\ HeardOk /\ KnownOk /\ PaidIsRefused
    BY Zenon DEF ExchangeInv
  <2>2. PaidWasDone /\ CountersPayOnce /\ BatchedWasDone /\ AuditedWasPublished
        /\ SlashIsEarned /\ RoutedWasOffered
    BY Zenon DEF ExchangeInv
  <2>3. ClockOk'
    BY <2>1, RecordsGrow, Zenon
  <2>4. HonestSigns'
    BY <2>1, HonestSignsStep, Zenon
  <2>5. HeardOk' /\ KnownOk'
    BY <2>1, HeardOkStep, KnownOkStep, Zenon
  <2>6. PaidIsRefused' /\ CountersPayOnce'
    BY <2>1, <2>2, PaidOnceStep, Zenon
  <2>7. PaidWasDone' /\ BatchedWasDone'
    BY <2>1, <2>2, PaidStep, BatchedStep, Zenon
  <2>8. AuditedWasPublished' /\ SlashIsEarned' /\ RoutedWasOffered'
    BY <2>1, <2>2, AuditedStep, VerdictsStep, RoutedStep, Zenon
  <2>9. QED  BY <2>3, <2>4, <2>5, <2>6, <2>7, <2>8, Zenon DEF ExchangeInv
<1>3. QED  BY <1>1, <1>2, PTL DEF ExchangeSpec

(* The requester pays an honest identity only for a task and operands it    *)
(* assigned itself and for the output that identity signed for them: settle *)
(* of trinet_compute_over_mesh, with frames replayed, reordered, lost or    *)
(* made by others.                                                          *)
THEOREM PaidWorkWasDone == ExchangeSpec => []PaidWasDone
<1>1. ExchangeInv => PaidWasDone
  BY Zenon DEF ExchangeInv
<1>2. QED  BY <1>1, ExchangeInvariant, PTL

(* A trusted host counts as alive only if it sent a beacon less than        *)
(* LIVE_WINDOW ago (accept_beacon and alive of trinet_heartbeat_over_mesh). *)
THEOREM BeaconsAreRecent == ExchangeSpec => []AliveIsRecent
<1>1. ExchangeInv => AliveIsRecent
  BY DEF ExchangeInv, ClockOk, HeardOk, AliveIsRecent, alive, LIVE_WINDOW
<1>2. QED  BY <1>1, ExchangeInvariant, PTL

(* However often the relay delivers a result, its counter is settled once:  *)
(* the replay window of crypto_frame knows every counter that was paid.     *)
THEOREM CountersSettleOnce == ExchangeSpec => []CountersPayOnce
<1>1. ExchangeInv => CountersPayOnce
  BY Zenon DEF ExchangeInv
<1>2. QED  BY <1>1, ExchangeInvariant, PTL

(* A batch root signed by an honest identity pays only receipts computed    *)
(* under that identity (settle_batch of trinet_batch_over_mesh).            *)
THEOREM BatchesPayDoneWork == ExchangeSpec => []BatchedWasDone
<1>1. ExchangeInv => BatchedWasDone
  BY Zenon DEF ExchangeInv
<1>2. QED  BY <1>1, ExchangeInvariant, PTL

(* A history that passes the audit under an honest identity is, round by    *)
(* round, one it published (audit_ledger of trinet_ledger_over_mesh).       *)
THEOREM AuditsFindWhatWasPublished == ExchangeSpec => []AuditedWasPublished
<1>1. ExchangeInv => AuditedWasPublished
  BY Zenon DEF ExchangeInv
<1>2. QED  BY <1>1, ExchangeInvariant, PTL

(* Whatever claims reach the challenger, an honest identity loses its bond  *)
(* or its payment only for a wrong value it signed itself for that task and *)
(* these operands (adjudicate of trinet_challenge_over_mesh).               *)
THEOREM SlashesAreEarned == ExchangeSpec => []SlashIsEarned
<1>1. ExchangeInv => SlashIsEarned
  BY Zenon DEF ExchangeInv
<1>2. QED  BY <1>1, ExchangeInvariant, PTL

(* Work is routed only to skills the trusted identity offered itself        *)
(* (open_card of trinet_discovery_over_mesh).                               *)
THEOREM WorkFollowsOffers == ExchangeSpec => []RoutedWasOffered
<1>1. ExchangeInv => RoutedWasOffered
  BY Zenon DEF ExchangeInv
<1>2. QED  BY <1>1, ExchangeInvariant, PTL

=============================================================================
