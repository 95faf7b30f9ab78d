---------------------------- MODULE OnceChannel ----------------------------
(***************************************************************************)
(* What a link session promises to the router above it.  Frames are        *)
(* numbered within an epoch.  One is handed to the receiver only under a   *)
(* number that equals, modulo Range, that of a frame the other end sent,   *)
(* and under each number at most once: a frame whose number arrives as it  *)
(* was sent is handed up at most once.  Loss and reordering are allowed;   *)
(* nothing is promised about delivery.                                     *)
(***************************************************************************)
EXTENDS Naturals

CONSTANT Range          \* how many numbers the seal of a frame tells apart

VARIABLES sent,         \* the frames put on the air
          delivered,    \* per receiver, the frames handed up as numbered there
          count         \* per receiver, how many hand-ups there were

Peer == {0, 1}

Init == /\ sent = {}
        /\ delivered = [p \in Peer |-> {}]
        /\ count = [p \in Peer |-> 0]

\* A frame never sent before goes on the air.
Send(f) ==
    /\ f.dir \in Peer
    /\ f \notin sent
    /\ sent' = sent \cup {f}
    /\ UNCHANGED <<delivered, count>>

\* A frame s of the other end is handed up under number c, for the first time.
Deliver(p, s, c) ==
    LET f == [s EXCEPT !.ctr = c]
    IN  /\ p # s.dir
        /\ s.ctr = c % Range
        /\ f \notin delivered[p]
        /\ delivered' = [delivered EXCEPT ![p] = @ \cup {f}]
        /\ count' = [count EXCEPT ![p] = @ + 1]
        /\ UNCHANGED sent

Next == \/ \E f \in sent' : Send(f)
        \/ \E p \in Peer : \E s \in sent, f \in delivered'[p] : Deliver(p, s, f.ctr)

Spec == Init /\ [][Next]_<<sent, delivered, count>>
=============================================================================
