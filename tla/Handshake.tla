----------------------------- MODULE Handshake -----------------------------
(***************************************************************************)
(* How two nodes come to hold the two ends of a Session (src/crypto.rs):   *)
(* from static keys alone, as trios_meshd does (StaticKey::session_with),  *)
(* or by the NoiseXX handshake with the AllowList that says which static   *)
(* key belongs to which node.  The NoiseXX actions follow the way the      *)
(* tests of crypto.rs use it: the list is asked before the handshake is    *)
(* completed.                                                              *)
(*                                                                         *)
(* A key pair is known by its public key.  The X25519 agreement of two     *)
(* pairs is the set of both, whichever secret was used; HKDF keeps         *)
(* different inputs apart.                                                 *)
(***************************************************************************)
EXTENDS Integers

CONSTANTS Member,       \* node ids
          Ephemeral     \* names of the ephemeral keys OsRng can draw

VARIABLES trusted,      \* per node, its AllowList: ids to static keys
          noise,        \* NoiseXX values not yet completed
          joined        \* the sessions completed, with the keys handed in

handshakeVars == <<trusted, noise, joined>>

\* StaticKey::from_seed and public: one key pair per node.
static_public(n) == <<"static", n>>

PublicKey == {static_public(n) : n \in Member} \cup {<<"ephemeral", e>> : e \in Ephemeral}

diffie_hellman(k, l) == {k, l}

\* Session::from_shared: where the key chain starts and the direction byte.
from_shared(shared, initiator) ==
    [chain |-> shared, tx_dir |-> IF initiator THEN 0 ELSE 1]

\* The session of trios_meshd with a peer: the lower id initiates.
session_with(me, peer) ==
    from_shared(<<diffie_hellman(static_public(me), static_public(peer))>>, me < peer)

combine_dh_shares(ee, es, se) == <<ee, es, se>>

\* complete_initiator and complete_responder: ee and ss, the latter twice.
complete(h, peer_ephemeral, peer_static, initiator) ==
    LET ee == diffie_hellman(h.ephemeral, peer_ephemeral)
        ss == diffie_hellman(static_public(h.node), peer_static)
    IN  from_shared(combine_dh_shares(ee, ss, ss), initiator)

\* AllowList::verify: None, Some(false) or Some(true).
verify(list, id, key) ==
    IF id \notin DOMAIN list THEN "None" ELSE IF list[id] = key THEN "true" ELSE "false"
-----------------------------------------------------------------------------
HandshakeInit ==
    /\ trusted = [n \in Member |-> [id \in {} |-> static_public(n)]]
    /\ noise = {} /\ joined = {}

\* AllowList::add: an earlier key of that id is replaced.
add(n, id, key) ==
    /\ trusted' = [trusted EXCEPT ![n] =
           [i \in DOMAIN @ \cup {id} |-> IF i = id THEN key ELSE @[i]]]
    /\ UNCHANGED <<noise, joined>>

\* AllowList::remove: sessions already completed stay.
remove(n, id) ==
    /\ id \in DOMAIN trusted[n]
    /\ trusted' = [trusted EXCEPT ![n] = [i \in DOMAIN @ \ {id} |-> @[i]]]
    /\ UNCHANGED <<noise, joined>>

\* NoiseXX::new: the ephemeral key was never drawn before.
start(n, e) ==
    /\ \A h \in noise \cup joined : h.ephemeral # <<"ephemeral", e>>
    /\ noise' = noise \cup {[node |-> n, ephemeral |-> <<"ephemeral", e>>]}
    /\ UNCHANGED <<trusted, joined>>

\* The node is handed two public keys in the name of id, whoever sent them,
\* asks its list about the static one, and completes; the handshake is used up.
connect(h, id, pe, ps, initiator) ==
    /\ verify(trusted[h.node], id, ps) = "true"
    /\ noise' = noise \ {h}
    /\ joined' = joined \cup
           {[node |-> h.node, ephemeral |-> h.ephemeral, id |-> id,
             peer_ephemeral |-> pe, peer_static |-> ps,
             session |-> complete(h, pe, ps, initiator)]}
    /\ UNCHANGED trusted

HandshakeNext ==
    \/ \E n, id \in Member : remove(n, id) \/ \E k \in PublicKey : add(n, id, k)
    \/ \E n \in Member, e \in Ephemeral : start(n, e)
    \/ \E h \in noise, id \in Member, pe, ps \in PublicKey, i \in BOOLEAN :
           connect(h, id, pe, ps, i)

HandshakeSpec == HandshakeInit /\ [][HandshakeNext]_handshakeVars
-----------------------------------------------------------------------------
\* Two sessions that can talk to each other.
SameKey(s, t) == s.session.chain = t.session.chain

\* Whatever keys the nodes are handed, a NoiseXX key is held by at most two
\* sessions, so no later handshake starts an old key chain again; the two were
\* handed each other's ephemeral keys, and if they are of different nodes,
\* each accepted the static key of the other in the name of the id its list
\* had for it.
KeysArePairwise ==
    \A s, t \in joined : s # t /\ SameKey(s, t) =>
        /\ s.peer_ephemeral = t.ephemeral
        /\ s.node # t.node => s.peer_static = static_public(t.node)
        /\ \A u \in joined : SameKey(u, s) => u \in {s, t}
=============================================================================
