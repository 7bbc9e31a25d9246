--------------------------- MODULE PeerGuardProofs ---------------------------
(***************************************************************************)
(* The invariants of PeerGuard for any peers, addresses, connections and   *)
(* limits.                                                                 *)
(***************************************************************************)
EXTENDS PeerGuard, FiniteSetTheorems, TLAPS

\* Subsets of the connections are finite, so their cardinalities are numbers.
LEMMA ConnsFinite ==
    ASSUME NEW S, S \subseteq Conns
    PROVE  IsFiniteSet(S) /\ Cardinality(S) \in Nat
  BY FS_Subset, FS_CardinalityType, PeerGuardAssumption

\* Admitting a connection adds one to the size of each group it belongs to.
LEMMA CardAdd ==
    ASSUME NEW A, A \subseteq Conns, NEW G, NEW c \in Conns, c \notin A
    PROVE  Cardinality((A \cup {c}) \cap G)
             = Cardinality(A \cap G) + (IF c \in G THEN 1 ELSE 0)
<1>1. IsFiniteSet(A \cap G) /\ Cardinality(A \cap G) \in Nat
  <2>1. A \cap G \subseteq Conns
    OBVIOUS
  <2> QED
    BY <2>1, ConnsFinite
<1>2. CASE c \in G
  <2>1. (A \cup {c}) \cap G = (A \cap G) \cup {c}
    BY <1>2
  <2> QED
    BY <1>1, <1>2, <2>1, FS_AddElement
<1>3. CASE c \notin G
  <2>1. (A \cup {c}) \cap G = A \cap G
    BY <1>3
  <2> QED
    BY <1>1, <1>3, <2>1
<1> QED
  BY <1>2, <1>3

\* Closing a connection takes at most one from the size of a group, and
\* nothing from a group it does not belong to.
LEMMA CardRemove ==
    ASSUME NEW A, A \subseteq Conns, NEW G, NEW c
    PROVE  /\ Cardinality((A \ {c}) \cap G) \in Nat
           /\ Cardinality((A \ {c}) \cap G) >= Cardinality(A \cap G) - 1
           /\ c \notin G => (A \ {c}) \cap G = A \cap G
<1>1. IsFiniteSet(A \cap G) /\ Cardinality(A \cap G) \in Nat
  <2>1. A \cap G \subseteq Conns
    OBVIOUS
  <2> QED
    BY <2>1, ConnsFinite
<1>2. (A \ {c}) \cap G = (A \cap G) \ {c}
  OBVIOUS
<1>3. Cardinality((A \cap G) \ {c})
        = IF c \in A \cap G THEN Cardinality(A \cap G) - 1 ELSE Cardinality(A \cap G)
  BY <1>1, FS_RemoveElement
<1>4. Cardinality((A \ {c}) \cap G) \in Nat
  <2>1. (A \ {c}) \cap G \subseteq Conns
    OBVIOUS
  <2> QED
    BY <2>1, ConnsFinite
<1> QED
  BY <1>1, <1>2, <1>3, <1>4

-----------------------------------------------------------------------------
(* Type correctness. *)

\* Every event preserves the types: in particular no counter underflows.
LEMMA TypeStep == TypeOK /\ [Next]_vars => TypeOK'
<1> SUFFICES ASSUME TypeOK, [Next]_vars PROVE TypeOK'
  OBVIOUS
<1> USE PeerGuardAssumption DEF TypeOK, counters, bans, conns, live
<1>1. ASSUME NEW c \in Conns, Admit(c) PROVE TypeOK'
  <2>1. connections_per_peer' \in [Peers -> Nat] /\ connections_per_ip' \in [IPs -> Nat]
    BY <1>1 DEF Admit
  <2>2. violations' \in [Peers -> Nat] /\ banned_until' \in [Peers -> Nat]
    BY <1>1 DEF Admit, is_banned
  <2> QED
    BY <1>1, <2>1, <2>2 DEF Admit
<1>2. ASSUME NEW c \in Conns, Reject(c) PROVE TypeOK'
  <2>1. violations' \in [Peers -> Nat] /\ banned_until' \in [Peers -> Nat]
    BY <1>2 DEF Reject, is_banned
  <2>2. open' \subseteq Conns /\ closing' \subseteq Conns /\ open' \cap closing' = {}
        /\ admitted' \subseteq open' \cup closing'
    BY <1>2 DEF Reject, DisconnectPeer, Of
  <2> QED
    BY <1>2, <2>1, <2>2 DEF Reject
<1>3. ASSUME NEW c \in Conns, on_connection_closed(c) PROVE TypeOK'
  BY <1>3 DEF on_connection_closed, saturating_sub
<1>4. ASSUME NEW p \in Peers, record_violation(p)
      PROVE  /\ violations' \in [Peers -> Nat] /\ banned_until' \in [Peers -> Nat]
             /\ open' \subseteq Conns /\ closing' \subseteq Conns
             /\ open' \cap closing' = {} /\ open' \cup closing' = open \cup closing
  BY <1>4 DEF record_violation, DisconnectPeer, Of
<1>5. ASSUME NEW p \in Peers, InvalidBlock(p) PROVE TypeOK'
  BY <1>4, <1>5 DEF InvalidBlock
<1>6. ASSUME NEW p \in Peers, BufferOrphan(p) PROVE TypeOK'
  BY <1>6 DEF BufferOrphan
<1>7. ASSUME NEW p \in Peers, ReplayInvalidOrphan(p) PROVE TypeOK'
  BY <1>4, <1>7 DEF ReplayInvalidOrphan
<1>8. ASSUME NEW p \in Peers, GenesisMismatch(p) PROVE TypeOK'
  BY <1>8 DEF GenesisMismatch, DisconnectPeer, Of
<1>9. ASSUME NEW p \in Peers, unban(p) PROVE TypeOK'
  BY <1>9 DEF unban
<1>10. CASE Tick
  BY <1>10 DEF Tick
<1>11. CASE UNCHANGED vars
  BY <1>11 DEF vars
<1> QED
  BY <1>1, <1>2, <1>3, <1>5, <1>6, <1>7, <1>8, <1>9, <1>10, <1>11 DEF Next

\* Every part of the state keeps its type; the saturating counters stay
\* natural numbers.
THEOREM TypeCorrect == Spec => []TypeOK
<1>1. Init => TypeOK
  BY DEF Init, TypeOK
<1> QED
  BY <1>1, TypeStep, PTL DEF Spec
-----------------------------------------------------------------------------
(* Counters. *)

\* Every event keeps the counters at or below the sizes of their groups.
LEMMA LeakStep == TypeOK /\ NoCounterLeak /\ [Next]_vars => NoCounterLeak'
<1> SUFFICES ASSUME TypeOK, NoCounterLeak, [Next]_vars PROVE NoCounterLeak'
  OBVIOUS
<1> USE DEF counters, bans, conns
<1>a. admitted \subseteq Conns /\ admitted \cap Conns = admitted
  BY DEF TypeOK
<1>1. ASSUME NEW c \in Conns, Admit(c) PROVE NoCounterLeak'
  <2>1. c \notin admitted /\ admitted' = admitted \cup {c}
    BY <1>1 DEF Admit, live, TypeOK
  <2>2. ASSUME NEW p \in Peers
        PROVE  connections_per_peer'[p] <= Cardinality(admitted' \cap Of(p))
    <3>1. Cardinality(admitted' \cap Of(p))
            = Cardinality(admitted \cap Of(p)) + (IF PeerOf[c] = p THEN 1 ELSE 0)
      BY <1>a, <2>1, CardAdd DEF Of
    <3>2. connections_per_peer'[p]
            = connections_per_peer[p] + (IF PeerOf[c] = p THEN 1 ELSE 0)
      BY <1>1, PeerGuardAssumption DEF Admit, TypeOK
    <3>3. Cardinality(admitted \cap Of(p)) \in Nat
      BY <1>a, ConnsFinite
    <3> QED
      BY <3>1, <3>2, <3>3 DEF NoCounterLeak, TypeOK
  <2>3. ASSUME NEW i \in IPs
        PROVE  connections_per_ip'[i] <= Cardinality(admitted' \cap From(i))
    <3>1. Cardinality(admitted' \cap From(i))
            = Cardinality(admitted \cap From(i)) + (IF i = IpOf[c] THEN 1 ELSE 0)
      BY <1>a, <2>1, CardAdd DEF From
    <3>2. connections_per_ip'[i]
            = connections_per_ip[i] + (IF i = IpOf[c] THEN 1 ELSE 0)
      BY <1>1 DEF Admit, TypeOK
    <3>3. Cardinality(admitted \cap From(i)) \in Nat
      BY <1>a, ConnsFinite
    <3> QED
      BY <3>1, <3>2, <3>3 DEF NoCounterLeak, TypeOK
  <2>4. total_connections' <= Cardinality(admitted')
    <3>1. Cardinality(admitted') = Cardinality(admitted) + 1
      BY <1>a, <2>1, ConnsFinite, FS_AddElement
    <3>2. Cardinality(admitted) \in Nat
      BY <1>a, ConnsFinite
    <3> QED
      BY <1>1, <3>1, <3>2 DEF Admit, NoCounterLeak, TypeOK
  <2> QED
    BY <2>2, <2>3, <2>4 DEF NoCounterLeak, Of, From
<1>2. ASSUME NEW c \in Conns, on_connection_closed(c) PROVE NoCounterLeak'
  <2>1. admitted' = admitted \ {c}
    BY <1>2 DEF on_connection_closed
  <2>2. ASSUME NEW p \in Peers
        PROVE  connections_per_peer'[p] <= Cardinality(admitted' \cap Of(p))
    <3>1. /\ Cardinality(admitted' \cap Of(p)) \in Nat
          /\ Cardinality(admitted' \cap Of(p)) >= Cardinality(admitted \cap Of(p)) - 1
          /\ PeerOf[c] # p => admitted' \cap Of(p) = admitted \cap Of(p)
      <4>1. c \in Of(p) <=> PeerOf[c] = p
        BY DEF Of
      <4> QED
        BY <1>a, <2>1, <4>1, CardRemove
    <3>2. connections_per_peer'[p] = IF PeerOf[c] = p
                                     THEN saturating_sub(connections_per_peer[p])
                                     ELSE connections_per_peer[p]
      BY <1>2, PeerGuardAssumption DEF on_connection_closed, TypeOK
    <3>3. Cardinality(admitted \cap Of(p)) \in Nat
      BY <1>a, ConnsFinite
    <3> QED
      BY <3>1, <3>2, <3>3 DEF NoCounterLeak, TypeOK, saturating_sub
  <2>3. ASSUME NEW i \in IPs
        PROVE  connections_per_ip'[i] <= Cardinality(admitted' \cap From(i))
    <3>1. /\ Cardinality(admitted' \cap From(i)) \in Nat
          /\ Cardinality(admitted' \cap From(i)) >= Cardinality(admitted \cap From(i)) - 1
          /\ IpOf[c] # i => admitted' \cap From(i) = admitted \cap From(i)
      <4>1. c \in From(i) <=> IpOf[c] = i
        BY DEF From
      <4> QED
        BY <1>a, <2>1, <4>1, CardRemove
    <3>2. connections_per_ip'[i] = IF i = IpOf[c]
                                   THEN saturating_sub(connections_per_ip[i])
                                   ELSE connections_per_ip[i]
      BY <1>2 DEF on_connection_closed, TypeOK
    <3>3. Cardinality(admitted \cap From(i)) \in Nat
      BY <1>a, ConnsFinite
    <3> QED
      BY <3>1, <3>2, <3>3 DEF NoCounterLeak, TypeOK, saturating_sub
  <2>4. total_connections' <= Cardinality(admitted')
    <3>1. /\ Cardinality(admitted') \in Nat
          /\ Cardinality(admitted') >= Cardinality(admitted) - 1
      <4>1. admitted' \subseteq Conns
        BY <1>a, <2>1
      <4>2. IsFiniteSet(admitted) /\ Cardinality(admitted) \in Nat
            /\ Cardinality(admitted') \in Nat
        BY <1>a, <4>1, ConnsFinite
      <4> QED
        BY <2>1, <4>2, FS_RemoveElement
    <3>2. Cardinality(admitted) \in Nat
      BY <1>a, ConnsFinite
    <3> QED
      BY <1>2, <3>1, <3>2 DEF on_connection_closed, NoCounterLeak, TypeOK, saturating_sub
  <2> QED
    BY <2>2, <2>3, <2>4 DEF NoCounterLeak, Of, From
<1>3. CASE UNCHANGED <<counters, admitted>>
  BY <1>3 DEF NoCounterLeak, Of, From
<1>4. ASSUME NEW c \in Conns, Reject(c) PROVE UNCHANGED <<counters, admitted>>
  BY <1>4 DEF Reject
<1>5. ASSUME NEW p \in Peers,
             InvalidBlock(p) \/ BufferOrphan(p) \/ ReplayInvalidOrphan(p)
               \/ GenesisMismatch(p) \/ unban(p)
      PROVE  UNCHANGED <<counters, admitted>>
  BY <1>5 DEF InvalidBlock, BufferOrphan, ReplayInvalidOrphan, GenesisMismatch, unban
<1>6. CASE Tick \/ UNCHANGED vars
  BY <1>3, <1>6 DEF Tick, vars
<1> QED
  BY <1>1, <1>2, <1>3, <1>4, <1>5, <1>6 DEF Next

\* No connection counter ever exceeds the number of counted connections that
\* are still there, for a peer, for an address and in total.
THEOREM CountersDoNotLeak == Spec => []NoCounterLeak
<1>1. Init => NoCounterLeak
  <2>1. \A S : {} \cap S = {}
    OBVIOUS
  <2> QED
    BY <2>1, FS_EmptySet DEF Init, NoCounterLeak
<1> QED
  BY <1>1, LeakStep, TypeCorrect, PTL DEF Spec

-----------------------------------------------------------------------------
(* Bans. *)

\* The two ban invariants together.
BanInv == BannedPeerIsOut /\ ViolatorIsBanned

\* Every event preserves them: a ban comes with a disconnection, and a banned
\* peer's connection is not admitted.
LEMMA BanStep == TypeOK /\ BanInv /\ [Next]_vars => BanInv'
<1> SUFFICES ASSUME TypeOK, BanInv, [Next]_vars PROVE BanInv'
  OBVIOUS
<1> USE PeerGuardAssumption DEF BanInv, BannedPeerIsOut, ViolatorIsBanned, BanInForce,
                                TypeOK, counters, bans, conns
<1>1. ASSUME NEW c \in Conns, Admit(c) PROVE BanInv'
  BY <1>1 DEF Admit, is_banned, Of
<1>2. ASSUME NEW c \in Conns, Reject(c) PROVE BanInv'
  BY <1>2 DEF Reject, is_banned, DisconnectPeer, Of
<1>3. ASSUME NEW c \in Conns, on_connection_closed(c) PROVE BanInv'
  BY <1>3 DEF on_connection_closed, Of
<1>4. ASSUME NEW p \in Peers, record_violation(p), now' = now PROVE BanInv'
  BY <1>4 DEF record_violation, DisconnectPeer, Of
<1>5. ASSUME NEW p \in Peers, InvalidBlock(p) \/ ReplayInvalidOrphan(p) PROVE BanInv'
  BY <1>4, <1>5 DEF InvalidBlock, ReplayInvalidOrphan
<1>6. ASSUME NEW p \in Peers, BufferOrphan(p) \/ GenesisMismatch(p) PROVE BanInv'
  BY <1>6 DEF BufferOrphan, GenesisMismatch, DisconnectPeer, Of
<1>7. ASSUME NEW p \in Peers, unban(p) PROVE BanInv'
  BY <1>7 DEF unban, Of
<1>8. CASE Tick
  BY <1>8 DEF Tick, Of
<1>9. CASE UNCHANGED vars
  BY <1>9 DEF vars, Of
<1> QED
  BY <1>1, <1>2, <1>3, <1>5, <1>6, <1>7, <1>8, <1>9 DEF Next

\* The ban invariants hold throughout.
LEMMA BanInvariant == Spec => []BanInv
<1>1. Init => BanInv
  BY PeerGuardAssumption DEF Init, BanInv, BannedPeerIsOut, ViolatorIsBanned, BanInForce
<1> QED
  BY <1>1, BanStep, TypeCorrect, PTL DEF Spec

\* While its ban is in force a peer has no open connection, for any number of
\* connections and any schedule of violations, reconnections and expiries.
THEOREM BansHold == Spec => []BannedPeerIsOut
  BY BanInvariant, PTL DEF BanInv

\* A peer whose violation count has reached the threshold has a ban on record.
THEOREM ThresholdBans == Spec => []ViolatorIsBanned
  BY BanInvariant, PTL DEF BanInv

=============================================================================
