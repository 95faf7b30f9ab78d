--------------------------- MODULE SessionRestart ---------------------------
(***************************************************************************)
(* A link of trios_meshd whose ends restart.  The daemon derives its       *)
(* sessions from static keys (StaticKey::session_with), so a restarted end *)
(* starts the same key chain again with counter 0 and an empty window      *)
(* while the other end keeps its own counter and window.  Every HELLO tick *)
(* seals a frame.  Nobody calls ratchet() and the run stays below the      *)
(* rekey period.                                                           *)
(***************************************************************************)
EXTENDS Session

CONSTANTS Uptime,       \* bound on the frames an end seals before a restart
          MaxRestarts   \* bound on the restarts of both ends together

ASSUME RestartAssumption ==
    /\ Uptime \in Nat /\ MaxRestarts \in Nat
    /\ Uptime + MaxRestarts < RekeyEvery

VARIABLES restarts,     \* restarts so far
          fresh,        \* per end, the frames it sealed since it last started
          heard_again   \* per end, did it open one of the other end's fresh
                        \* frames since the last restart of either ?

rvars == <<vars, restarts, fresh, heard_again>>

RestartInit ==
    /\ Init
    /\ restarts = 0
    /\ fresh = [p \in Peer |-> {}]
    /\ heard_again = [p \in Peer |-> FALSE]

\* Bug: a restarted end starts one epoch ahead of the peer it left behind.
BugRestart(p) ==
    /\ restarts < MaxRestarts
    /\ restarts' = restarts + 1
    /\ epoch' = [epoch EXCEPT ![p] = 1]
    /\ tx_counter' = [tx_counter EXCEPT ![p] = 0]
    /\ rx' = [rx EXCEPT ![p] = new_window]
    /\ opened' = [opened EXCEPT ![p] = {}]
    /\ oks' = [oks EXCEPT ![p] = 0]
    /\ fresh' = [fresh EXCEPT ![p] = {}]
    /\ heard_again' = [q \in Peer |-> FALSE]
    /\ UNCHANGED sent

\* The process of end p dies and main() builds its session anew.
Restart(p) ==
    /\ restarts < MaxRestarts
    /\ restarts' = restarts + 1
    /\ epoch' = [epoch EXCEPT ![p] = 0]
    /\ tx_counter' = [tx_counter EXCEPT ![p] = 0]
    /\ rx' = [rx EXCEPT ![p] = new_window]
    /\ opened' = [opened EXCEPT ![p] = {}]
    /\ oks' = [oks EXCEPT ![p] = 0]
    /\ fresh' = [fresh EXCEPT ![p] = {}]
    /\ heard_again' = [q \in Peer |-> FALSE]
    /\ UNCHANGED sent

\* The ticker beacons: send_direct seals one frame for the peer.
Beacon(p) ==
    /\ tx_counter[p] < Uptime + restarts
    /\ seal(p)
    /\ fresh' = [fresh EXCEPT ![p] = @ \cup
           {[dir |-> p, epoch |-> epoch'[p], ctr |-> tx_counter'[p] - 1]}]
    /\ UNCHANGED <<restarts, heard_again>>

\* The receive thread opens a datagram, old or new, with prefix x and the
\* body of s.
Receive(p, x, s) ==
    /\ open(p, x, s)
    /\ heard_again' = [heard_again EXCEPT ![p] = @ \/ s \in fresh[1 - p]]
    /\ UNCHANGED <<restarts, fresh>>

\* Restarts over a medium that also damages prefixes.
WireNext == \E p \in Peer :
              \/ Restart(p)
              \/ Beacon(p)
              \/ \E s \in sent, x \in Prefix : Receive(p, x, s)

WireSpec == RestartInit /\ [][WireNext]_rvars

\* Restarts over a medium that delivers what it delivers undamaged.
RestartNext == \E p \in Peer :
                 \/ Restart(p)
                 \/ Beacon(p)
                 \/ \E s \in sent : Receive(p, s, s)

\* The ticker never stops, and the air does not lose every fresh frame.
RestartSpec ==
    /\ RestartInit
    /\ [][RestartNext]_rvars
    /\ \A p \in Peer : /\ WF_rvars(Beacon(p))
                       /\ WF_rvars(\E s \in fresh[1 - p] : Receive(p, s, s))
-----------------------------------------------------------------------------
\* An end that restarts, or whose peer does, is heard again: the window
\* refuses the restarted counters only until they pass the old ones, without
\* any rekey.  Undamaged prefixes are needed: a counter read too high is the
\* newest of the window from then on.
HeardAgain == \A p \in Peer : ~heard_again[p] ~> heard_again[p]
=============================================================================
