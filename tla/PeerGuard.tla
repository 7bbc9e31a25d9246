----------------------------- MODULE PeerGuard -----------------------------
(***************************************************************************)
(* Connection limits, violations and bans (peer_guard.rs), with the event  *)
(* handlers of network.rs that use them and the libp2p swarm as they see   *)
(* it: a connection is announced by ConnectionEstablished, ended by        *)
(* ConnectionClosed, and disconnect_peer_id asks the swarm to close every  *)
(* connection of a peer, each of which is announced later, in any order.   *)
(***************************************************************************)
EXTENDS Integers, FiniteSets

CONSTANTS
    Peers, IPs,
    NoIp,                       \* no address in the multiaddr
    Conns,                      \* connections, one at a time per element
    PeerOf, IpOf,               \* whose they are and where they come from
    MAX_CONNECTIONS_PER_PEER,
    MAX_CONNECTIONS_PER_IP,
    MAX_TOTAL_CONNECTIONS,
    MAX_VIOLATIONS_BEFORE_BAN,
    BAN_DURATION,
    MaxTime,                    \* bound on the clock
    MaxViolations               \* bound on a violation count

ASSUME PeerGuardAssumption ==
    /\ IsFiniteSet(Conns)
    /\ NoIp \notin IPs
    /\ PeerOf \in [Conns -> Peers]
    /\ IpOf \in [Conns -> IPs \cup {NoIp}]
    /\ {MAX_CONNECTIONS_PER_PEER, MAX_CONNECTIONS_PER_IP, MAX_TOTAL_CONNECTIONS,
        MAX_VIOLATIONS_BEFORE_BAN, BAN_DURATION, MaxTime, MaxViolations} \subseteq Nat
    /\ MAX_VIOLATIONS_BEFORE_BAN > 0 /\ BAN_DURATION > 0

VARIABLES
    connections_per_peer,
    connections_per_ip,
    total_connections,
    violations,
    banned_until,   \* 0: no entry
    now,            \* Instant::now()
    open,           \* connections the swarm holds and is not asked to close
    closing,        \* connections it closes: ConnectionClosed is still to come
    admitted,       \* history: those of them that were counted
    orphaned        \* peers with a block in the orphan pool

counters == <<connections_per_peer, connections_per_ip, total_connections>>
bans == <<violations, banned_until>>
conns == <<open, closing, admitted>>
vars == <<counters, bans, conns, now, orphaned>>

TypeOK ==
    /\ connections_per_peer \in [Peers -> Nat]
    /\ connections_per_ip \in [IPs -> Nat]
    /\ total_connections \in Nat
    /\ violations \in [Peers -> Nat]
    /\ banned_until \in [Peers -> Nat]
    /\ now \in Nat
    /\ open \subseteq Conns /\ closing \subseteq Conns /\ open \cap closing = {}
    /\ admitted \subseteq open \cup closing
    /\ orphaned \subseteq Peers

Init ==
    /\ connections_per_peer = [p \in Peers |-> 0]
    /\ connections_per_ip = [i \in IPs |-> 0]
    /\ total_connections = 0
    /\ violations = [p \in Peers |-> 0]
    /\ banned_until = [p \in Peers |-> 0]
    /\ now = 1
    /\ open = {} /\ closing = {} /\ admitted = {}
    /\ orphaned = {}

live == open \cup closing
Of(p) == {c \in Conns : PeerOf[c] = p}
From(i) == {c \in Conns : IpOf[c] = i}

-----------------------------------------------------------------------------
(* The swarm (external), and PeerGuard's operations. *)

\* swarm.disconnect_peer_id(p), with c a connection just announced.
DisconnectPeer(p, c) ==
    /\ open' = open \ Of(p)
    /\ closing' = closing \cup ((open \cup c) \cap Of(p))

BanInForce(p) == now < banned_until[p]

\* Mutant: the violations outlive the ban.
is_banned_keepViolations(p) ==
    /\ banned_until' = IF BanInForce(p) THEN banned_until
                       ELSE [banned_until EXCEPT ![p] = 0]
    /\ UNCHANGED violations

\* is_banned forgets a ban that has expired, and the violations behind it.
is_banned(p) ==
    /\ banned_until' = IF BanInForce(p) THEN banned_until
                       ELSE [banned_until EXCEPT ![p] = 0]
    /\ violations' = IF BanInForce(p) \/ banned_until[p] = 0 THEN violations
                     ELSE [violations EXCEPT ![p] = 0]

\* Lifts a ban, and forgets the violations of a peer that has none.  (The
\* node does not call it; an operator of the library may.)
unban(p) ==
    /\ banned_until' = [banned_until EXCEPT ![p] = 0]
    /\ violations' = [violations EXCEPT ![p] = 0]
    /\ UNCHANGED <<counters, conns, now, orphaned>>

\* The checks of on_connection_established, in the code's order but for
\* which of them names the rejection.
WithinLimits(c) ==
    /\ connections_per_peer[PeerOf[c]] < MAX_CONNECTIONS_PER_PEER
    /\ IpOf[c] # NoIp => connections_per_ip[IpOf[c]] < MAX_CONNECTIONS_PER_IP
    /\ total_connections < MAX_TOTAL_CONNECTIONS

\* ConnectionEstablished with decision Allow: the connection is counted.
Admit(c) ==
    /\ c \notin live
    /\ ~BanInForce(PeerOf[c])
    /\ WithinLimits(c)
    /\ is_banned(PeerOf[c])
    /\ connections_per_peer' = [connections_per_peer EXCEPT ![PeerOf[c]] = @ + 1]
    /\ connections_per_ip' = [i \in IPs |->
           connections_per_ip[i] + (IF i = IpOf[c] THEN 1 ELSE 0)]
    /\ total_connections' = total_connections + 1
    /\ open' = open \cup {c}
    /\ admitted' = admitted \cup {c}
    /\ UNCHANGED <<closing, now, orphaned>>

\* Any other decision: nothing is counted and the whole peer is disconnected.
Reject(c) ==
    /\ c \notin live
    /\ BanInForce(PeerOf[c]) \/ ~WithinLimits(c)
    /\ is_banned(PeerOf[c])
    /\ DisconnectPeer(PeerOf[c], {c})
    /\ UNCHANGED <<counters, admitted, now, orphaned>>

saturating_sub_wrapping(n) == n - 1
saturating_sub(n) == IF n = 0 THEN 0 ELSE n - 1

\* Mutant: the address is not released.
on_connection_closed_keepIp(c) ==
    /\ c \in live
    /\ connections_per_peer' =
           [connections_per_peer EXCEPT ![PeerOf[c]] = saturating_sub(@)]
    /\ total_connections' = saturating_sub(total_connections)
    /\ open' = open \ {c}
    /\ closing' = closing \ {c}
    /\ admitted' = admitted \ {c}
    /\ UNCHANGED <<connections_per_ip, bans, now, orphaned>>

\* ConnectionClosed, whether or not the connection was ever counted.
on_connection_closed(c) ==
    /\ c \in live
    /\ connections_per_peer' =
           [connections_per_peer EXCEPT ![PeerOf[c]] = saturating_sub(@)]
    /\ connections_per_ip' = [i \in IPs |->
           IF i = IpOf[c] THEN saturating_sub(connections_per_ip[i])
                          ELSE connections_per_ip[i]]
    /\ total_connections' = saturating_sub(total_connections)
    /\ open' = open \ {c}
    /\ closing' = closing \ {c}
    /\ admitted' = admitted \ {c}
    /\ UNCHANGED <<bans, now, orphaned>>

\* Mutant: the banned peer stays connected.
record_violation_noDisconnect(p) ==
    /\ violations[p] < MaxViolations
    /\ violations' = [violations EXCEPT ![p] = @ + 1]
    /\ banned_until' = IF violations[p] + 1 >= MAX_VIOLATIONS_BEFORE_BAN
                       THEN [banned_until EXCEPT ![p] = now + BAN_DURATION]
                       ELSE banned_until
    /\ UNCHANGED <<open, closing>>

\* record_violation_and_maybe_ban: at the threshold and at every violation
\* beyond it the peer is banned from now on and disconnected.
record_violation(p) ==
    /\ violations[p] < MaxViolations
    /\ violations' = [violations EXCEPT ![p] = @ + 1]
    /\ IF violations[p] + 1 >= MAX_VIOLATIONS_BEFORE_BAN
       THEN /\ banned_until' = [banned_until EXCEPT ![p] = now + BAN_DURATION]
            /\ DisconnectPeer(p, {})
       ELSE UNCHANGED <<banned_until, open, closing>>

\* A gossiped or synced block or message of a connected peer is invalid.
InvalidBlock(p) ==
    /\ live \cap Of(p) # {}
    /\ record_violation(p)
    /\ UNCHANGED <<counters, admitted, now, orphaned>>

\* A block with a missing parent is kept, with its sender's name.
BufferOrphan(p) ==
    /\ live \cap Of(p) # {}
    /\ orphaned' = orphaned \cup {p}
    /\ UNCHANGED <<counters, bans, conns, now>>

\* Later, connected or not, its sender answers for it.
ReplayInvalidOrphan(p) ==
    /\ p \in orphaned
    /\ orphaned' = orphaned \ {p}
    /\ record_violation(p)
    /\ UNCHANGED <<counters, admitted, now>>

\* A sync response says that the peer has another genesis.
GenesisMismatch(p) ==
    /\ live \cap Of(p) # {}
    /\ DisconnectPeer(p, {})
    /\ UNCHANGED <<counters, bans, admitted, now, orphaned>>

\* Time passes whatever is still open or being closed: a ban may expire while
\* the connections it closes are still there.
Tick ==
    /\ now < MaxTime
    /\ now' = now + 1
    /\ UNCHANGED <<counters, bans, conns, orphaned>>

Next ==
    \/ \E c \in Conns : Admit(c) \/ Reject(c) \/ on_connection_closed(c)
    \/ \E p \in Peers :
          \/ InvalidBlock(p)
          \/ BufferOrphan(p)
          \/ ReplayInvalidOrphan(p)
          \/ GenesisMismatch(p)
          \/ unban(p)
    \/ Tick

Spec == Init /\ [][Next]_vars

-----------------------------------------------------------------------------
(* Properties. *)

\* No counter is ever above the number of counted connections that are still
\* there.  So nothing leaks: a peer or an address without connections is never
\* refused for a limit, whatever was opened, refused and closed before.
NoCounterLeak ==
    /\ \A p \in Peers : connections_per_peer[p] <= Cardinality(admitted \cap Of(p))
    /\ \A i \in IPs : connections_per_ip[i] <= Cardinality(admitted \cap From(i))
    /\ total_connections <= Cardinality(admitted)

\* While a ban is in force the node keeps no connection of the peer open: the
\* one the violation came over, the others, and any the peer opens meanwhile.
BannedPeerIsOut ==
    \A p \in Peers : BanInForce(p) => open \cap Of(p) = {}

\* A peer at the threshold has a ban on record, so that its violations are
\* forgotten only together with that ban.
ViolatorIsBanned ==
    \A p \in Peers :
        violations[p] >= MAX_VIOLATIONS_BEFORE_BAN => banned_until[p] # 0
-----------------------------------------------------------------------------
(* What comments in peer_guard.rs say, and the code does not do. *)

\* on_connection_closed is "safe to call even for a connection that was never
\* counted": then the limits bound the connections the node keeps open.  In
\* the code each refused connection, when it closes, takes away the count of
\* another one that stays open.
OpenWithinLimits ==
    /\ \A p \in Peers : Cardinality(open \cap Of(p)) <= MAX_CONNECTIONS_PER_PEER
    /\ \A i \in IPs : Cardinality(open \cap From(i)) <= MAX_CONNECTIONS_PER_IP
    /\ Cardinality(open) <= MAX_TOTAL_CONNECTIONS

=============================================================================
