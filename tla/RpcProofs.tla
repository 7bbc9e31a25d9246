------------------------------ MODULE RpcProofs ------------------------------
(***************************************************************************)
(* The invariants of Rpc for any connections, addresses, limits and lines. *)
(***************************************************************************)
EXTENDS Rpc, FiniteSetTheorems, TLAPS

\* The types, the permits without their upper limit: that one rests on the
\* account of who holds one.
Types ==
    /\ phase \in [Conns -> {"closed", "accepted", "open", "ended", "uncounted"}]
    /\ serving \in BOOLEAN
    /\ permits \in Nat
    /\ per_ip \in [Ips -> 0..MAX_CONNECTIONS_PER_IP]
    /\ limiter \in [Conns -> [window_start : Nat, count : Nat]]
    /\ line \in [Conns -> Lines \cup {NoLine, Done}]
    /\ step \in [Conns -> {"dispatch", "pool", "reply"}]
    /\ reply \in [Conns -> {"none", "error", "result", "confirmed", "pending", "unknown"}]
    /\ pool \subseteq Txs /\ batch \subseteq Txs /\ confirmed \subseteq Txs
    /\ now \in Nat
    /\ allowed \in [Conns -> Seq(Nat)]

\* A line is in hand only while its connection is open, what is still to be
\* dispatched is a call, only a status request goes on to the mempool, and an
\* answer is there only once the request has one.
InHandAt(c) ==
    /\ line[c] # NoLine => phase[c] = "open"
    /\ line[c] = NoLine => step[c] = "reply"
    /\ step[c] # "reply" => line[c] \in Calls \cup TxCalls
    /\ step[c] = "pool" => line[c].method = "status"
    /\ step[c] # "reply" \/ line[c] = NoLine => reply[c] = "none"
InHand == \A c \in Conns : InHandAt(c)

-----------------------------------------------------------------------------
(* Types. *)

\* A line that is a call is one of the two kinds of calls.
LEMMA LineIsCall ==
    ASSUME NEW l \in Lines, l.kind = "call"
    PROVE  l \in Calls \cup TxCalls
  BY RpcAssumption DEF Calls, TxCalls

\* A call for a transaction names one.
LEMMA CallNamesTx ==
    ASSUME NEW l \in Calls \cup TxCalls, l.method \in {"submit", "status"}
    PROVE  l \in TxCalls /\ l.tx \in Txs
  BY DEF Calls, TxCalls

\* The markers are not calls.
LEMMA MarkersAreNoCalls ==
    /\ NoLine \notin Calls \cup TxCalls /\ Done \notin Calls \cup TxCalls
    /\ NoLine # Done
    /\ ~IsStatus(NoLine) /\ ~IsStatus(Done)
  BY DEF NoLine, Done, Calls, TxCalls, IsStatus

\* What the limiter becomes is a limiter.
LEMMA CountedType ==
    ASSUME NEW lim \in [window_start : Nat, count : Nat], now \in Nat
    PROVE  Counted(lim) \in [window_start : Nat, count : Nat]
  BY RpcAssumption DEF Counted

\* Every step preserves the types.
LEMMA TypesStep == Types /\ InHand /\ [Next]_vars => Types'
<1> SUFFICES ASSUME Types, InHand, [Next]_vars PROVE Types'
  OBVIOUS
<1> USE RpcAssumption DEF Types, conns, requests, chain
<1>1. ASSUME NEW c \in Conns, Accept(c) PROVE Types'
  BY <1>1 DEF Accept
<1>2. ASSUME NEW c \in Conns, CountIp(c) PROVE Types'
  <2>1. CASE per_ip[IpOf[c]] >= MAX_CONNECTIONS_PER_IP
    <3>1. /\ phase' = [phase EXCEPT ![c] = "closed"] /\ permits' = permits + 1
          /\ UNCHANGED <<per_ip, serving, requests, chain, now>>
      BY <1>2, <2>1 DEF CountIp
    <3> QED
      BY <3>1
  <2>2. CASE ~(per_ip[IpOf[c]] >= MAX_CONNECTIONS_PER_IP)
    <3>1. IpOf[c] \in Ips /\ per_ip[IpOf[c]] + 1 \in 0..MAX_CONNECTIONS_PER_IP
      BY <2>2
    <3>2. per_ip' = [per_ip EXCEPT ![IpOf[c]] = per_ip[IpOf[c]] + 1]
          /\ limiter' = [limiter EXCEPT ![c] = NewLimiter(now)]
      BY <1>2, <2>2 DEF CountIp
    <3>3. NewLimiter(now) \in [window_start : Nat, count : Nat]
      BY DEF NewLimiter
    <3> QED
      BY <1>2, <2>2, <3>1, <3>2, <3>3 DEF CountIp
  <2> QED
    BY <2>1, <2>2
<1>3. ASSUME NEW c \in Conns, Uncount(c) PROVE Types'
  BY <1>3 DEF Uncount
<1>4. ASSUME NEW c \in Conns, Release(c) PROVE Types'
  BY <1>4 DEF Release
<1>5. ASSUME NEW c \in Conns, NEW l \in Lines, ReadLine(c, l) PROVE Types'
  <2>1. limiter' \in [Conns -> [window_start : Nat, count : Nat]]
    <3>1. Counted(limiter[c]) \in [window_start : Nat, count : Nat]
      BY CountedType
    <3>2. limiter' = limiter \/ limiter' = [limiter EXCEPT ![c] = Counted(limiter[c])]
      BY <1>5 DEF ReadLine
    <3> QED
      BY <3>1, <3>2
  <2>2. allowed' \in [Conns -> Seq(Nat)]
    <3> DEFINE a == Append(allowed[c], now)
    <3>1. a \in Seq(Nat) /\ allowed \in [Conns -> Seq(Nat)]
      OBVIOUS
    <3>2. allowed' = allowed \/ allowed' = [allowed EXCEPT ![c] = a]
      BY <1>5 DEF ReadLine
    <3> HIDE DEF a
    <3>3. CASE allowed' = allowed
      BY <3>1, <3>3
    <3>4. CASE allowed' = [allowed EXCEPT ![c] = a]
      BY <3>1, <3>4
    <3> QED
      BY <3>2, <3>3, <3>4
  <2>3. line' \in [Conns -> Lines \cup {NoLine, Done}]
    <3>1. line' = [line EXCEPT ![c] = l] \/ line' = [line EXCEPT ![c] = Done]
      BY <1>5 DEF ReadLine
    <3>2. line \in [Conns -> Lines \cup {NoLine, Done}]
          /\ l \in Lines \cup {NoLine, Done} /\ Done \in Lines \cup {NoLine, Done}
      OBVIOUS
    <3> HIDE DEF Done, NoLine
    <3> QED
      BY <3>1, <3>2
  <2>4. step' \in [Conns -> {"dispatch", "pool", "reply"}]
        /\ reply' \in [Conns -> {"none", "error", "result", "confirmed", "pending", "unknown"}]
    BY <1>5 DEF ReadLine, Answer
  <2> QED
    BY <1>5, <2>1, <2>2, <2>3, <2>4 DEF ReadLine
<1>6. ASSUME NEW c \in Conns, Dispatch(c) PROVE Types'
  <2>1. line[c] \in Calls \cup TxCalls
    BY <1>6 DEF Dispatch, InHand, InHandAt
  <2>2. CASE DispatchSubmit(c)
    BY <1>6, <2>1, <2>2, CallNamesTx DEF Dispatch, DispatchSubmit, Answer
  <2>3. CASE DispatchStatus(c)
    BY <1>6, <2>3 DEF Dispatch, DispatchStatus, Answer
  <2>4. CASE DispatchOther(c)
    BY <1>6, <2>4 DEF Dispatch, DispatchOther, Answer
  <2> QED
    BY <1>6, <2>2, <2>3, <2>4 DEF Dispatch
<1>7. ASSUME NEW c \in Conns, StatusInPool(c) PROVE Types'
  BY <1>7 DEF StatusInPool, Answer
<1>8. ASSUME NEW c \in Conns, WriteReply(c) PROVE Types'
  <2>1. NewLimiter(0) \in [window_start : Nat, count : Nat] /\ <<>> \in Seq(Nat)
    BY DEF NewLimiter
  <2>2. CASE Return(c)
    BY <1>8, <2>1, <2>2 DEF WriteReply, Return
  <2>3. CASE UNCHANGED <<phase, limiter, allowed>>
    BY <1>8, <2>3 DEF WriteReply
  <2> QED
    BY <1>8, <2>2, <2>3 DEF WriteReply
<1>9. ASSUME NEW c \in Conns, StreamEnds(c) PROVE Types'
  BY <1>9 DEF StreamEnds, Return, NewLimiter
<1>10. CASE AcceptFails \/ Drain
  BY <1>10 DEF AcceptFails, Drain
<1>11. CASE ConfirmBatch
  BY <1>11 DEF ConfirmBatch
<1>12. CASE PeerBlock
  BY <1>12 DEF PeerBlock
<1>13. CASE Tick
  BY <1>13 DEF Tick
<1>14. CASE UNCHANGED vars
  BY <1>14 DEF vars
<1> QED
  BY <1>1, <1>2, <1>3, <1>4, <1>5, <1>6, <1>7, <1>8, <1>9, <1>10, <1>11, <1>12,
     <1>13, <1>14 DEF Next, Serve, Task, Client

\* Every step leaves each connection's line, step and answer in agreement.
LEMMA InHandStep == Types /\ InHand /\ [Next]_vars => InHand'
<1> SUFFICES ASSUME Types, InHand, [Next]_vars, NEW d \in Conns PROVE InHandAt(d)'
  BY DEF InHand
<1>a. InHandAt(d)
  BY DEF InHand
<1> USE <1>a DEF InHandAt, Types, conns, requests, chain
<1>1. ASSUME NEW c \in Conns, Accept(c) PROVE InHandAt(d)'
  BY <1>1 DEF Accept
<1>2. ASSUME NEW c \in Conns, CountIp(c) PROVE InHandAt(d)'
  <2>1. /\ phase' \in {[phase EXCEPT ![c] = "closed"], [phase EXCEPT ![c] = "open"]}
        /\ UNCHANGED <<line, step, reply>> /\ phase[c] = "accepted"
    BY <1>2 DEF CountIp
  <2> QED
    BY <2>1
<1>3. ASSUME NEW c \in Conns, Uncount(c) PROVE InHandAt(d)'
  BY <1>3 DEF Uncount
<1>4. ASSUME NEW c \in Conns, Release(c) PROVE InHandAt(d)'
  BY <1>4 DEF Release
<1>5. ASSUME NEW c \in Conns, NEW l \in Lines, ReadLine(c, l) PROVE InHandAt(d)'
  <2>1. /\ phase[c] = "open" /\ line[c] = NoLine /\ UNCHANGED phase
    BY <1>5 DEF ReadLine
  <2>2. CASE l.kind = "call" /\ Passes(limiter[c]) /\ Authorized(l)
    <3>1. /\ line' = [line EXCEPT ![c] = l]
          /\ step' = [step EXCEPT ![c] = "dispatch"]
          /\ UNCHANGED reply
      BY <1>5, <2>2 DEF ReadLine
    <3>2. l \in Calls \cup TxCalls /\ l # NoLine
      BY <2>2, LineIsCall, MarkersAreNoCalls
    <3> QED
      BY <2>1, <3>1, <3>2
  <2>3. CASE ~(l.kind = "call" /\ Passes(limiter[c]) /\ Authorized(l))
    <3>1. /\ line' = [line EXCEPT ![c] = Done]
          /\ Answer(c, "error")
      BY <1>5, <2>3 DEF ReadLine
    <3> QED
      BY <2>1, <3>1, MarkersAreNoCalls DEF Answer
  <2> QED
    BY <2>2, <2>3
<1>6. ASSUME NEW c \in Conns, Dispatch(c) PROVE InHandAt(d)'
  <2>1. /\ line[c] # NoLine /\ step[c] = "dispatch" /\ UNCHANGED phase
    BY <1>6 DEF Dispatch
  <2>2. phase[c] = "open" /\ line[c] \in Calls \cup TxCalls /\ reply[c] = "none"
    BY <2>1 DEF InHand
  <2>3. CASE DispatchSubmit(c)
    BY <2>1, <2>2, <2>3, MarkersAreNoCalls DEF DispatchSubmit, Answer
  <2>4. CASE DispatchStatus(c)
    BY <2>1, <2>2, <2>4 DEF DispatchStatus, Answer
  <2>5. CASE DispatchOther(c)
    BY <2>1, <2>2, <2>5, MarkersAreNoCalls DEF DispatchOther, Answer
  <2> QED
    BY <1>6, <2>3, <2>4, <2>5 DEF Dispatch
<1>7. ASSUME NEW c \in Conns, StatusInPool(c) PROVE InHandAt(d)'
  BY <1>7 DEF StatusInPool, Answer
<1>8. ASSUME NEW c \in Conns, WriteReply(c) PROVE InHandAt(d)'
  <2>1. phase' = [phase EXCEPT ![c] = "ended"] \/ phase' = phase
    BY <1>8 DEF WriteReply, Return
  <2> QED
    BY <1>8, <2>1 DEF WriteReply
<1>9. ASSUME NEW c \in Conns, StreamEnds(c) PROVE InHandAt(d)'
  BY <1>9 DEF StreamEnds, Return
<1>10. CASE AcceptFails \/ Drain \/ ConfirmBatch \/ PeerBlock \/ Tick
  BY <1>10 DEF AcceptFails, Drain, ConfirmBatch, PeerBlock, Tick
<1>11. CASE UNCHANGED vars
  BY <1>11 DEF vars
<1> QED
  BY <1>1, <1>2, <1>3, <1>4, <1>5, <1>6, <1>7, <1>8, <1>9, <1>10, <1>11
  DEF Next, Serve, Task, Client

-----------------------------------------------------------------------------
(* Slots. *)

\* The subsets of the connections are finite.
LEMMA ConnsFinite ==
    ASSUME NEW S, S \subseteq Conns
    PROVE  IsFiniteSet(S) /\ Cardinality(S) \in Nat
  BY FS_Subset, FS_CardinalityType, RpcAssumption

\* A connection that joins a group adds one to its size, one that leaves it
\* takes one away.
LEMMA JoinLeave ==
    ASSUME NEW A, A \subseteq Conns, NEW c \in Conns
    PROVE  /\ Cardinality(A) \in Nat
           /\ c \notin A => Cardinality(A \cup {c}) = Cardinality(A) + 1
           /\ c \in A => Cardinality(A) > 0 /\ Cardinality(A \ {c}) = Cardinality(A) - 1
<1>1. IsFiniteSet(A) /\ Cardinality(A) \in Nat
  BY ConnsFinite
<1>2. c \notin A => Cardinality(A \cup {c}) = Cardinality(A) + 1
  BY <1>1, FS_AddElement
<1>3. c \in A => Cardinality(A \ {c}) = Cardinality(A) - 1
  BY <1>1, FS_RemoveElement
<1>4. c \in A => Cardinality(A) # 0
  BY <1>1, FS_EmptySet
<1> QED
  BY <1>1, <1>2, <1>3, <1>4

Holders == {c \in Conns : Holding(c)}
Counters(i) == {c \in Conns : Counting(c) /\ IpOf[c] = i}

Accounts ==
    /\ permits + Cardinality(Holders) = MAX_CONCURRENT_RPC_CONNECTIONS
    /\ \A i \in Ips : per_ip[i] = Cardinality(Counters(i))

\* Every step keeps the account of permits and of addresses.
LEMMA SlotsStep == Types /\ InHand /\ SlotsAccounted /\ [Next]_vars => SlotsAccounted'
<1> SUFFICES ASSUME Types, InHand, Accounts, [Next]_vars PROVE Accounts'
  BY DEF SlotsAccounted, Accounts, Holders, Counters
<1>c. Holders \subseteq Conns /\ \A i \in Ips : Counters(i) \subseteq Conns
  BY DEF Holders, Counters
<1>d. ASSUME UNCHANGED <<permits, per_ip, phase>> PROVE Accounts'
  <2>1. Holders' = Holders /\ \A i \in Ips : Counters(i)' = Counters(i)
    BY <1>d DEF Holders, Counters, Holding, Counting
  <2> QED
    BY <1>d, <2>1 DEF Accounts
<1>e. ASSUME NEW c \in Conns, line[c] # NoLine \/ phase[c] = "open",
             phase' = [phase EXCEPT ![c] = "ended"], UNCHANGED <<permits, per_ip>>
      PROVE  Accounts'
  <2>0. phase[c] = "open"
    BY <1>e DEF InHand, InHandAt
  <2>1. Holders' = Holders /\ \A i \in Ips : Counters(i)' = Counters(i)
    BY <1>e, <2>0 DEF Holders, Counters, Holding, Counting, Types
  <2> QED
    BY <1>e, <2>1 DEF Accounts
<1> USE RpcAssumption DEF Types, conns, requests, chain, Holding, Counting
<1>1. ASSUME NEW c \in Conns, Accept(c) PROVE Accounts'
  <2>1. Holders' = Holders \cup {c} /\ c \notin Holders
        /\ \A i \in Ips : Counters(i)' = Counters(i)
    BY <1>1 DEF Accept, Holders, Counters
  <2>2. permits' = permits - 1 /\ per_ip' = per_ip
    BY <1>1 DEF Accept
  <2>3. Cardinality(Holders \cup {c}) = Cardinality(Holders) + 1 /\ Cardinality(Holders) \in Nat
    BY <1>c, <2>1, JoinLeave
  <2> QED
    BY <2>1, <2>2, <2>3 DEF Accounts
<1>2. ASSUME NEW c \in Conns, CountIp(c) PROVE Accounts'
  <2>1. CASE per_ip[IpOf[c]] >= MAX_CONNECTIONS_PER_IP
    <3>1. phase' = [phase EXCEPT ![c] = "closed"] /\ phase[c] = "accepted"
          /\ permits' = permits + 1 /\ per_ip' = per_ip
      BY <1>2, <2>1 DEF CountIp
    <3>2. Holders' = Holders \ {c} /\ c \in Holders
          /\ \A i \in Ips : Counters(i)' = Counters(i)
      BY <3>1 DEF Holders, Counters
    <3>3. Cardinality(Holders \ {c}) = Cardinality(Holders) - 1 /\ Cardinality(Holders) \in Nat
      BY <1>c, <3>2, JoinLeave
    <3> QED
      BY <3>1, <3>2, <3>3 DEF Accounts
  <2>2. CASE ~(per_ip[IpOf[c]] >= MAX_CONNECTIONS_PER_IP)
    <3>1. phase' = [phase EXCEPT ![c] = "open"] /\ phase[c] = "accepted"
          /\ permits' = permits /\ per_ip' = [per_ip EXCEPT ![IpOf[c]] = per_ip[IpOf[c]] + 1]
      BY <1>2, <2>2 DEF CountIp
    <3>2. Holders' = Holders /\ c \notin Counters(IpOf[c])
          /\ Counters(IpOf[c])' = Counters(IpOf[c]) \cup {c}
          /\ \A i \in Ips : i # IpOf[c] => Counters(i)' = Counters(i)
      BY <3>1 DEF Holders, Counters
    <3>3. Cardinality(Counters(IpOf[c]) \cup {c}) = Cardinality(Counters(IpOf[c])) + 1
      BY <1>c, <3>2, JoinLeave
    <3>4. \A i \in Ips : per_ip'[i] = Cardinality(Counters(i)')
      BY <3>1, <3>2, <3>3 DEF Accounts
    <3> QED
      BY <3>1, <3>2, <3>4 DEF Accounts
  <2> QED
    BY <2>1, <2>2
<1>3. ASSUME NEW c \in Conns, Uncount(c) PROVE Accounts'
  <2>1. phase' = [phase EXCEPT ![c] = "uncounted"] /\ phase[c] = "ended"
        /\ permits' = permits
        /\ per_ip' = [per_ip EXCEPT ![IpOf[c]] =
                          IF per_ip[IpOf[c]] = 0 THEN 0 ELSE per_ip[IpOf[c]] - 1]
    BY <1>3 DEF Uncount
  <2>2. Holders' = Holders /\ c \in Counters(IpOf[c])
        /\ Counters(IpOf[c])' = Counters(IpOf[c]) \ {c}
        /\ \A i \in Ips : i # IpOf[c] => Counters(i)' = Counters(i)
    BY <2>1 DEF Holders, Counters
  <2>3. /\ Cardinality(Counters(IpOf[c])) > 0
        /\ Cardinality(Counters(IpOf[c]) \ {c}) = Cardinality(Counters(IpOf[c])) - 1
    BY <1>c, <2>2, JoinLeave
  <2>4. per_ip[IpOf[c]] = Cardinality(Counters(IpOf[c]))
    BY DEF Accounts
  <2>a. IpOf[c] \in Ips /\ per_ip[IpOf[c]] \in Nat /\ per_ip[IpOf[c]] # 0
    BY <2>3, <2>4
  <2>5. per_ip' = [per_ip EXCEPT ![IpOf[c]] = per_ip[IpOf[c]] - 1]
    BY <2>1, <2>a
  <2>6. \A i \in Ips : per_ip'[i] = Cardinality(Counters(i)')
    BY <2>2, <2>3, <2>4, <2>a, <2>5 DEF Accounts
  <2> QED
    BY <2>1, <2>2, <2>6 DEF Accounts
<1>4. ASSUME NEW c \in Conns, Release(c) PROVE Accounts'
  <2>1. phase' = [phase EXCEPT ![c] = "closed"] /\ phase[c] = "uncounted"
        /\ permits' = permits + 1 /\ per_ip' = per_ip
    BY <1>4 DEF Release
  <2>2. Holders' = Holders \ {c} /\ c \in Holders
        /\ \A i \in Ips : Counters(i)' = Counters(i)
    BY <2>1 DEF Holders, Counters
  <2>3. Cardinality(Holders \ {c}) = Cardinality(Holders) - 1 /\ Cardinality(Holders) \in Nat
    BY <1>c, <2>2, JoinLeave
  <2> QED
    BY <2>1, <2>2, <2>3 DEF Accounts
<1>5. ASSUME NEW c \in Conns, WriteReply(c) PROVE Accounts'
  BY <1>5, <1>d, <1>e DEF WriteReply, Return
<1>6. ASSUME NEW c \in Conns, StreamEnds(c) PROVE Accounts'
  BY <1>6, <1>e DEF StreamEnds, Return
<1>7. ASSUME NEW c \in Conns,
             Dispatch(c) \/ StatusInPool(c) \/ \E l \in Lines : ReadLine(c, l)
      PROVE  Accounts'
  BY <1>7, <1>d DEF ReadLine, Dispatch, StatusInPool
<1>8. CASE AcceptFails \/ Drain \/ ConfirmBatch \/ PeerBlock \/ Tick \/ UNCHANGED vars
  BY <1>8, <1>d DEF AcceptFails, Drain, ConfirmBatch, PeerBlock, Tick, vars
<1> QED
  BY <1>1, <1>2, <1>3, <1>4, <1>5, <1>6, <1>7, <1>8 DEF Next, Serve, Task, Client

\* The limits bound what is given out.
LEMMA SlotsBound == Types /\ SlotsAccounted => TypeOK
<1> SUFFICES ASSUME Types, SlotsAccounted PROVE TypeOK
  OBVIOUS
<1>1. Cardinality(Holders) \in Nat
  BY ConnsFinite DEF Holders
<1>2. permits + Cardinality(Holders) = MAX_CONCURRENT_RPC_CONNECTIONS
  BY DEF SlotsAccounted, Holders
<1>3. permits \in 0..MAX_CONCURRENT_RPC_CONNECTIONS
  BY <1>1, <1>2, RpcAssumption DEF Types
<1> QED
  BY <1>3 DEF Types, TypeOK

\* At the start no connection holds a slot, and none is in hand.
LEMMA InitSlots == Init => Types /\ InHand /\ SlotsAccounted
<1> SUFFICES ASSUME Init PROVE Types /\ InHand /\ SlotsAccounted
  OBVIOUS
<1>1. Types
  BY RpcAssumption DEF Init, Types, NewLimiter
<1>2. InHand
  BY DEF Init, InHand, InHandAt
<1>3. Holders = {} /\ \A i \in Ips : Counters(i) = {}
  BY DEF Init, Holders, Counters, Holding, Counting
<1>4. Accounts
  <2>1. Cardinality({}) = 0
    BY FS_EmptySet
  <2>2. permits = MAX_CONCURRENT_RPC_CONNECTIONS /\ \A i \in Ips : per_ip[i] = 0
    BY DEF Init
  <2>3. permits + Cardinality(Holders) = MAX_CONCURRENT_RPC_CONNECTIONS
    BY <1>3, <2>1, <2>2, RpcAssumption
  <2>4. \A i \in Ips : per_ip[i] = Cardinality(Counters(i))
    BY <1>3, <2>1, <2>2
  <2> QED
    BY <2>3, <2>4 DEF Accounts
<1>5. SlotsAccounted
  BY <1>4 DEF SlotsAccounted, Accounts, Holders, Counters
<1> QED
  BY <1>1, <1>2, <1>5

\* The types, what the loop has in hand and the accounts hold together.
LEMMA Accounted == Spec => [](Types /\ InHand /\ SlotsAccounted)
<1>1. Init => Types /\ InHand /\ SlotsAccounted
  BY InitSlots
<1>2. Types /\ InHand /\ SlotsAccounted /\ [Next]_vars => (Types /\ InHand /\ SlotsAccounted)'
  BY TypesStep, InHandStep, SlotsStep
<1> QED
  BY <1>1, <1>2, PTL DEF Spec

\* No slot leaks and none is given twice: whatever the accept loop and the
\* ending tasks do between each other's steps, the permits left and the
\* connections holding one add up to the limit, and every address is counted
\* for exactly the tasks that will count it down.
THEOREM SlotsAreAccounted == Spec => []SlotsAccounted
  BY Accounted, PTL

\* So the permits and the counters of addresses stay within their limits, and
\* the rest of the server's state is well formed.
THEOREM TypeCorrect == Spec => []TypeOK
<1>1. Types /\ SlotsAccounted => TypeOK
  BY SlotsBound
<1> QED
  BY <1>1, Accounted, PTL

-----------------------------------------------------------------------------
(* Status answers. *)

\* Each half of an answer was true at a moment of the request; and a request
\* that has left the ledger's lock has seen its transaction not confirmed.
TruthfulAt(c) ==
    IsStatus(line[c]) =>
        /\ reply[c] \in {"none", "confirmed", "pending", "unknown"}
        /\ reply[c] = "confirmed" => \E v \in seen[c] : v.confirmed
        /\ reply[c] \in {"pending", "unknown"} => \E v \in seen[c] : ~v.confirmed
        /\ reply[c] = "pending" => \E v \in seen[c] : v.pending
        /\ reply[c] = "unknown" => \E v \in seen[c] : ~v.pending
LookedInLedger(c) ==
    IsStatus(line[c]) /\ step[c] = "pool" => \E v \in seen[c] : ~v.confirmed
StatusInv == \A c \in Conns : TruthfulAt(c) /\ LookedInLedger(c)

\* A request that stays in hand keeps what it has seen and sees the new state.
LEMMA SeenGrows ==
    ASSUME NEW c \in Conns, Watch, line'[c] = line[c], IsStatus(line[c])
    PROVE  seen'[c] = seen[c] \cup {View(line[c].tx)}
  BY DEF Watch

\* What the view says is what is so.
LEMMA ViewSays ==
    ASSUME NEW tx
    PROVE  /\ View(tx).confirmed <=> tx \in confirmed'
           /\ View(tx).pending <=> tx \in pool'
  BY DEF View

\* Every step keeps what the answers claim covered by what was seen.
LEMMA StatusStep == Types /\ InHand /\ StatusInv /\ [Next]_vars => StatusInv'
<1> SUFFICES ASSUME Types, InHand, StatusInv, [Next]_vars, NEW d \in Conns
             PROVE  TruthfulAt(d)' /\ LookedInLedger(d)'
  BY DEF StatusInv
<1>a. TruthfulAt(d) /\ LookedInLedger(d)
  BY DEF StatusInv
<1>b. ASSUME Watch, line'[d] = line[d], reply'[d] = reply[d], step'[d] = step[d]
      PROVE  TruthfulAt(d)' /\ LookedInLedger(d)'
  <2>1. IsStatus(line[d]) => seen[d] \subseteq seen'[d]
    BY <1>b, SeenGrows
  <2> QED
    BY <1>a, <1>b, <2>1 DEF TruthfulAt, LookedInLedger
<1>c. ASSUME ~IsStatus(line'[d]) PROVE TruthfulAt(d)' /\ LookedInLedger(d)'
  BY <1>c DEF TruthfulAt, LookedInLedger
<1> USE DEF Types, conns, requests, chain
<1>1. ASSUME NEW c \in Conns, Accept(c) \/ CountIp(c) \/ Uncount(c) \/ Release(c) \/ StreamEnds(c)
      PROVE  TruthfulAt(d)' /\ LookedInLedger(d)'
  <2>1. Watch /\ UNCHANGED <<line, reply, step>>
    BY <1>1 DEF Accept, CountIp, Uncount, Release, StreamEnds
  <2> QED
    BY <1>b, <2>1
<1>2. CASE AcceptFails \/ Drain \/ ConfirmBatch \/ PeerBlock \/ Tick
  <2>1. Watch /\ UNCHANGED <<line, reply, step>>
    BY <1>2 DEF AcceptFails, Drain, ConfirmBatch, PeerBlock, Tick
  <2> QED
    BY <1>b, <2>1
<1>3. ASSUME NEW c \in Conns, c # d,
             Dispatch(c) \/ StatusInPool(c) \/ WriteReply(c) \/ \E l \in Lines : ReadLine(c, l)
      PROVE  TruthfulAt(d)' /\ LookedInLedger(d)'
  <2>1. Watch
    BY <1>3 DEF Dispatch, StatusInPool, WriteReply, ReadLine
  <2>2. line'[d] = line[d] /\ reply'[d] = reply[d] /\ step'[d] = step[d]
    <3>1. CASE Dispatch(c)
      BY <1>3, <3>1 DEF Dispatch, DispatchSubmit, DispatchStatus, DispatchOther, Answer
    <3>2. CASE StatusInPool(c)
      BY <1>3, <3>2 DEF StatusInPool, Answer
    <3>3. CASE WriteReply(c)
      BY <1>3, <3>3 DEF WriteReply
    <3>4. ASSUME NEW l \in Lines, ReadLine(c, l)
          PROVE line'[d] = line[d] /\ reply'[d] = reply[d] /\ step'[d] = step[d]
      BY <1>3, <3>4 DEF ReadLine, Answer
    <3> QED
      BY <1>3, <3>1, <3>2, <3>3, <3>4
  <2> QED
    BY <1>b, <2>1, <2>2
<1>4. ASSUME NEW l \in Lines, ReadLine(d, l) PROVE TruthfulAt(d)' /\ LookedInLedger(d)'
  <2>1. line[d] = NoLine /\ reply[d] = "none"
    BY <1>4 DEF ReadLine, InHand, InHandAt
  <2>2. line'[d] = Done \/ (reply'[d] = reply[d] /\ step'[d] = "dispatch")
    BY <1>4 DEF ReadLine
  <2> QED
    BY <1>c, <2>1, <2>2, MarkersAreNoCalls DEF TruthfulAt, LookedInLedger
<1>5. CASE Dispatch(d)
  <2>0. Watch /\ confirmed' = confirmed
    BY <1>5 DEF Dispatch
  <2>1. reply[d] = "none" /\ line[d] \in Calls \cup TxCalls
    BY <1>5 DEF Dispatch, InHand, InHandAt
  <2>2. CASE DispatchSubmit(d) \/ DispatchOther(d)
    <3>1. line'[d] = Done
      BY <2>2 DEF DispatchSubmit, DispatchOther
    <3> QED
      BY <1>c, <3>1, MarkersAreNoCalls
  <2>3. CASE DispatchStatus(d)
    <3>0. line'[d] = line[d] /\ IsStatus(line[d])
      BY <2>1, <2>3 DEF DispatchStatus, IsStatus, Calls, TxCalls
    <3>1. View(line[d].tx) \in seen'[d]
      BY <2>0, <3>0, SeenGrows
    <3>2. CASE line[d].tx \in confirmed
      <4>1. reply'[d] = "confirmed" /\ step'[d] = "reply"
        BY <2>3, <3>2 DEF DispatchStatus, Answer
      <4>2. \E v \in seen'[d] : v.confirmed
        BY <2>0, <3>1, <3>2, ViewSays
      <4> QED
        BY <4>1, <4>2 DEF TruthfulAt, LookedInLedger
    <3>3. CASE line[d].tx \notin confirmed
      <4>1. reply'[d] = "none" /\ step'[d] = "pool"
        BY <2>1, <2>3, <3>3 DEF DispatchStatus, Answer
      <4>2. \E v \in seen'[d] : ~v.confirmed
        BY <2>0, <3>1, <3>3, ViewSays
      <4> QED
        BY <4>1, <4>2 DEF TruthfulAt, LookedInLedger
    <3> QED
      BY <3>2, <3>3
  <2> QED
    BY <1>5, <2>2, <2>3 DEF Dispatch
<1>6. CASE StatusInPool(d)
  <2>1. /\ Watch /\ pool' = pool /\ line'[d] = line[d] /\ step'[d] = "reply"
        /\ reply'[d] = IF line[d].tx \in pool THEN "pending" ELSE "unknown"
        /\ step[d] = "pool"
    BY <1>6 DEF StatusInPool, Answer
  <2>2. IsStatus(line[d])
    BY <2>1 DEF InHand, InHandAt, IsStatus, Calls, TxCalls
  <2>3. seen[d] \subseteq seen'[d] /\ View(line[d].tx) \in seen'[d]
    BY <2>1, <2>2, SeenGrows
  <2>4. \E v \in seen'[d] : ~v.confirmed
    BY <1>a, <2>1, <2>2, <2>3 DEF LookedInLedger
  <2>5. CASE line[d].tx \in pool
    <3>1. \E v \in seen'[d] : v.pending
      BY <2>1, <2>3, <2>5, ViewSays
    <3> QED
      BY <2>1, <2>4, <2>5, <3>1 DEF TruthfulAt, LookedInLedger
  <2>6. CASE line[d].tx \notin pool
    <3>1. \E v \in seen'[d] : ~v.pending
      BY <2>1, <2>3, <2>6, ViewSays
    <3> QED
      BY <2>1, <2>4, <2>6, <3>1 DEF TruthfulAt, LookedInLedger
  <2> QED
    BY <2>5, <2>6
<1>7. CASE WriteReply(d)
  <2>1. line'[d] = NoLine
    BY <1>7 DEF WriteReply
  <2> QED
    BY <1>c, <2>1, MarkersAreNoCalls
<1>8. CASE UNCHANGED vars
  BY <1>8, <1>a DEF vars, TruthfulAt, LookedInLedger, IsStatus
<1> QED
  BY <1>1, <1>2, <1>3, <1>4, <1>5, <1>6, <1>7, <1>8 DEF Next, Serve, Task, Client

\* Answers whose halves were each true in a time in which the transaction was
\* neither confirmed nor lost its confirmation were true as a whole.
LEMMA HalvesMeet == StatusInv => StatusTruthful
<1> SUFFICES ASSUME StatusInv, NEW c \in Conns, IsStatus(line[c]), reply[c] # "none"
             PROVE  \/ \E v \in seen[c] : reply[c] = Status(v)
                    \/ /\ \E v, w \in seen[c] : v.confirmed # w.confirmed
                       /\ reply[c] \in {"pending", "unknown"}
                       /\ \E v \in seen[c] : v.pending <=> reply[c] = "pending"
  BY DEF StatusTruthful
<1>1. TruthfulAt(c)
  BY DEF StatusInv
<1>2. CASE reply[c] = "confirmed"
  BY <1>1, <1>2 DEF TruthfulAt, Status
<1>3. CASE reply[c] \in {"pending", "unknown"}
  <2>1. PICK v \in seen[c] : ~v.confirmed
    BY <1>1, <1>3 DEF TruthfulAt
  <2>2. PICK w \in seen[c] : w.pending <=> reply[c] = "pending"
    BY <1>1, <1>3 DEF TruthfulAt
  <2>3. CASE w.confirmed
    BY <1>3, <2>1, <2>2, <2>3
  <2>4. CASE ~w.confirmed
    BY <1>3, <2>2, <2>4 DEF Status
  <2> QED
    BY <2>3, <2>4
<1> QED
  BY <1>1, <1>2, <1>3 DEF TruthfulAt

\* An answer of transaction_status was true at some moment of its request,
\* unless the transaction was confirmed or lost its confirmation meanwhile: the
\* ledger and the mempool are locked in turn, and the event loop moves
\* transactions between them.  Even then each of its halves was true.
THEOREM StatusIsTruthful == Spec => []StatusTruthful
<1>1. Init => Types /\ InHand /\ SlotsAccounted /\ StatusInv
  <2>1. Init => StatusInv
    BY MarkersAreNoCalls DEF Init, StatusInv, TruthfulAt, LookedInLedger
  <2> QED
    BY <2>1, InitSlots
<1>2. Types /\ InHand /\ StatusInv /\ [Next]_vars => (Types /\ InHand /\ StatusInv)'
  BY TypesStep, InHandStep, StatusStep
<1>3. StatusInv => StatusTruthful
  BY HalvesMeet
<1> QED
  BY <1>1, <1>2, <1>3, PTL DEF Spec

-----------------------------------------------------------------------------
(* The rate limiter. *)

Limit == MAX_REQUESTS_PER_SECOND_PER_CONNECTION
Limiters == [window_start : Nat, count : Nat]

\* The requests, of those that passed at the times in a, that a window which
\* starts at w has let pass; those of the second before it; and those within
\* a second of the i-th.
Inside(a, w) == {j \in 1..Len(a) : a[j] >= w}
Before(a, w) == {j \in 1..Len(a) : a[j] < w /\ w < a[j] + SECOND}
Within(a, i) == {j \in i..Len(a) : a[j] - a[i] < SECOND}

\* The limiter counts what its window let pass, and neither the window nor
\* the second before it let more than the limit pass.
Limited(a, lim, t) ==
    /\ lim.window_start <= t
    /\ \A i, j \in 1..Len(a) : i <= j => a[i] <= a[j]
    /\ \A j \in 1..Len(a) : a[j] <= t /\ a[j] < lim.window_start + SECOND
    /\ Cardinality(Inside(a, lim.window_start)) <= lim.count
    /\ Cardinality(Inside(a, lim.window_start)) <= Limit
    /\ Cardinality(Before(a, lim.window_start)) <= Limit
    /\ \A i \in 1..Len(a) : Cardinality(Within(a, i)) <= 2 * Limit

\* Sets of positions are finite; a part is no larger than the whole, and the
\* union no larger than its parts together.
LEMMA Positions ==
    ASSUME NEW n \in Nat, NEW S, S \subseteq 1..n
    PROVE  /\ IsFiniteSet(S) /\ Cardinality(S) \in Nat
           /\ n + 1 \notin S /\ Cardinality(S \cup {n + 1}) = Cardinality(S) + 1
           /\ \A T : T \subseteq S => Cardinality(T) <= Cardinality(S)
           /\ \A T \in SUBSET (1..n) : Cardinality(S \cup T) <= Cardinality(S) + Cardinality(T)
<1>1. ASSUME NEW T \in SUBSET (1..n) PROVE IsFiniteSet(T) /\ Cardinality(T) \in Nat
  <2>1. IsFiniteSet(1..n)
    BY FS_Interval
  <2>2. IsFiniteSet(T)
    BY <2>1, FS_Subset
  <2> QED
    BY <2>2, FS_CardinalityType
<1>2. IsFiniteSet(S) /\ Cardinality(S) \in Nat
  BY <1>1
<1>3. n + 1 \notin S /\ Cardinality(S \cup {n + 1}) = Cardinality(S) + 1
  BY <1>2, FS_AddElement
<1>4. \A T : T \subseteq S => Cardinality(T) <= Cardinality(S)
  BY <1>2, FS_Subset
<1>5. ASSUME NEW T \in SUBSET (1..n)
      PROVE  Cardinality(S \cup T) <= Cardinality(S) + Cardinality(T)
  <2>1. IsFiniteSet(T) /\ Cardinality(T) \in Nat /\ Cardinality(S \cap T) \in Nat
    BY <1>1
  <2>2. Cardinality(S \cup T) = Cardinality(S) + Cardinality(T) - Cardinality(S \cap T)
    BY <1>2, <2>1, FS_Union
  <2> QED
    BY <1>2, <2>1, <2>2
<1> QED
  BY <1>2, <1>3, <1>4, <1>5

\* A request that passes keeps at most twice the limit within any second, if
\* its window and the second before it hold at most the limit each.
LEMMA PassingRequest ==
    ASSUME NEW a \in Seq(Nat), NEW t \in Nat, NEW w \in Nat, w <= t,
           \A i, j \in 1..Len(a) : i <= j => a[i] <= a[j],
           \A j \in 1..Len(a) : a[j] <= t,
           Cardinality(Inside(Append(a, t), w)) <= Limit,
           Cardinality(Before(Append(a, t), w)) <= Limit,
           \A i \in 1..Len(a) : Cardinality(Within(a, i)) <= 2 * Limit
    PROVE  /\ \A i, j \in 1..Len(Append(a, t)) : i <= j => Append(a, t)[i] <= Append(a, t)[j]
           /\ \A i \in 1..Len(Append(a, t)) : Cardinality(Within(Append(a, t), i)) <= 2 * Limit
<1> DEFINE b == Append(a, t)
<1>1. /\ b \in Seq(Nat) /\ Len(b) = Len(a) + 1 /\ b[Len(b)] = t
      /\ \A j \in 1..Len(a) : b[j] = a[j]
      /\ Cardinality(Inside(b, w)) <= Limit /\ Cardinality(Before(b, w)) <= Limit
  OBVIOUS
<1>2. Len(a) \in Nat /\ \A j \in 1..Len(a) : a[j] \in Nat
  OBVIOUS
<1> HIDE DEF b
<1>3. \A j \in 1..Len(b) : b[j] \in Nat /\ b[j] <= t
  <2> SUFFICES ASSUME NEW j \in 1..Len(b) PROVE b[j] \in Nat /\ b[j] <= t
    OBVIOUS
  <2>1. CASE j = Len(b)
    BY <1>1, <2>1
  <2>2. CASE j # Len(b)
    <3>1. j \in 1..Len(a)
      BY <1>1, <1>2, <2>2
    <3> QED
      BY <1>1, <1>2, <3>1
  <2> QED
    BY <2>1, <2>2
<1>4. ASSUME NEW i \in 1..Len(b), NEW j \in 1..Len(b), i <= j PROVE b[i] <= b[j]
  <2>1. CASE j = Len(b)
    BY <1>1, <1>3, <2>1
  <2>2. CASE j # Len(b)
    <3>1. i \in 1..Len(a) /\ j \in 1..Len(a)
      BY <1>1, <1>2, <1>4, <2>2, SMTT(30)
    <3> QED
      BY <1>1, <1>4, <3>1
  <2> QED
    BY <2>1, <2>2
<1>5. ASSUME NEW i \in 1..Len(b) PROVE Cardinality(Within(b, i)) <= 2 * Limit
  <2>1. CASE t - b[i] < SECOND
    <3>1. Within(b, i) \subseteq Inside(b, w) \cup Before(b, w)
      <4> SUFFICES ASSUME NEW j \in Within(b, i), ~(b[j] >= w)
                   PROVE  b[j] < w /\ w < b[j] + SECOND /\ j \in 1..Len(b)
        BY <1>1, <1>2, <1>3 DEF Within, Inside, Before
      <4>1. j \in 1..Len(b) /\ i <= j
        BY <1>1, <1>2 DEF Within
      <4>2. b[i] <= b[j] /\ b[j] \in Nat /\ b[i] \in Nat
        BY <1>3, <1>4, <4>1
      <4> QED
        BY <2>1, <4>1, <4>2, RpcAssumption
    <3>2. Inside(b, w) \subseteq 1..Len(b) /\ Before(b, w) \subseteq 1..Len(b) /\ Len(b) \in Nat
      BY <1>1 DEF Inside, Before
    <3>3. Cardinality(Within(b, i)) <= Cardinality(Inside(b, w) \cup Before(b, w))
          /\ Cardinality(Within(b, i)) \in Nat
          /\ Cardinality(Inside(b, w) \cup Before(b, w)) \in Nat
      <4>1. Inside(b, w) \cup Before(b, w) \subseteq 1..Len(b) /\ Within(b, i) \subseteq 1..Len(b)
        BY <3>1, <3>2
      <4>2. Cardinality(Within(b, i)) \in Nat
        BY <3>2, <4>1, Positions
      <4>3. ASSUME NEW U, U \subseteq 1..Len(b), Within(b, i) \subseteq U
            PROVE  Cardinality(U) \in Nat /\ Cardinality(Within(b, i)) <= Cardinality(U)
        BY <3>2, <4>3, Positions
      <4> QED
        BY <3>1, <4>1, <4>2, <4>3
    <3>4. Cardinality(Inside(b, w) \cup Before(b, w))
            <= Cardinality(Inside(b, w)) + Cardinality(Before(b, w))
          /\ Cardinality(Inside(b, w)) \in Nat /\ Cardinality(Before(b, w)) \in Nat
      BY <3>2, Positions
    <3>5. Limit \in Nat
      BY RpcAssumption DEF Limit
    <3> QED
      BY <1>1, <3>3, <3>4, <3>5
  <2>2. CASE ~(t - b[i] < SECOND)
    <3>1. i # Len(b) /\ i \in 1..Len(a)
      BY <1>1, <1>2, <2>2, RpcAssumption, SMTT(30)
    <3>2. Within(b, i) = Within(a, i)
      <4>0. i..Len(b) = (i..Len(a)) \cup {Len(b)}
        <5>1. ASSUME NEW n \in Nat, i \in 1..n PROVE i..(n + 1) = (i..n) \cup {n + 1}
          BY <5>1, SMTT(30)
        <5> QED
          BY <1>1, <1>2, <3>1, <5>1
      <4>1. b[i] = a[i]
        BY <1>1, <3>1
      <4>2. \A j \in i..Len(a) : b[j] = a[j]
        BY <1>1, <1>2, <3>1
      <4>3. Len(b) \notin i..Len(a) /\ ~(b[Len(b)] - b[i] < SECOND)
        BY <1>1, <1>2, <2>2
      <4> QED
        BY <4>0, <4>1, <4>2, <4>3, Zenon DEF Within
    <3> QED
      BY <3>1, <3>2
  <2> QED
    BY <2>1, <2>2
<1> QED
  BY <1>4, <1>5 DEF b

\* A request is counted, in the open window or in a new one, and passes or not.
LEMMA RequestLimited ==
    ASSUME NEW a \in Seq(Nat), NEW lim \in Limiters, now \in Nat, Limited(a, lim, now)
    PROVE  Limited(IF Passes(lim) THEN Append(a, now) ELSE a, Counted(lim), now)
<1> DEFINE w == lim.window_start
           b == Append(a, now)
<1>a. lim.window_start \in Nat /\ lim.count \in Nat /\ Limit \in Nat /\ Limit >= 1
      /\ SECOND \in Nat /\ SECOND >= 1
  BY RpcAssumption DEF Limiters, Limit
<1>b. Len(a) \in Nat /\ \A j \in 1..Len(a) : a[j] \in Nat
  OBVIOUS
<1>c. b \in Seq(Nat) /\ Len(b) = Len(a) + 1 /\ b[Len(a) + 1] = now
      /\ \A j \in 1..Len(a) : b[j] = a[j]
  OBVIOUS
<1>d. 1..Len(b) = (1..Len(a)) \cup {Len(a) + 1} /\ Len(a) + 1 \notin 1..Len(a)
  BY <1>b, <1>c
<1>e. Inside(a, w) \subseteq 1..Len(a) /\ Before(a, w) \subseteq 1..Len(a)
  BY DEF Inside, Before
<1>f. Cardinality(Inside(a, w)) \in Nat
  BY <1>b, <1>e, Positions
<1>g. w \in Nat /\ w <= now /\ \A j \in 1..Len(a) : a[j] <= now /\ a[j] < w + SECOND
  BY <1>a DEF Limited
<1>h. \A j \in 1..Len(a) : a[j] \in Nat /\ b[j] = a[j]
  BY <1>b, <1>c
<1> HIDE DEF b
<1>1. CASE now - w < SECOND
  <2>1. Counted(lim) = [window_start |-> w, count |-> lim.count + 1]
    BY <1>1, <1>a DEF Counted, Limiters
  <2>2. CASE Passes(lim)
    <3>1. lim.count + 1 <= Limit
      BY <2>1, <2>2 DEF Passes, Limit
    <3>2. Inside(b, w) = Inside(a, w) \cup {Len(a) + 1}
      BY <1>c, <1>d DEF Limited, Inside
    <3>3. Before(b, w) = Before(a, w)
      <4>1. ~(now < w)
        BY <1>g
      <4> QED
        BY <1>c, <1>d, <1>h, <4>1 DEF Before
    <3>4. Cardinality(Inside(b, w)) = Cardinality(Inside(a, w)) + 1
      BY <1>b, <1>e, <3>2, Positions
    <3>5. Cardinality(Inside(b, w)) <= lim.count + 1 /\ Cardinality(Inside(b, w)) <= Limit
          /\ Cardinality(Before(b, w)) <= Limit
      BY <1>a, <1>f, <3>1, <3>3, <3>4 DEF Limited
    <3>6. /\ \A i, j \in 1..Len(b) : i <= j => b[i] <= b[j]
          /\ \A i \in 1..Len(b) : Cardinality(Within(b, i)) <= 2 * Limit
      BY <1>a, <3>5, PassingRequest DEF Limited, b
    <3>7. \A j \in 1..Len(b) : b[j] <= now /\ b[j] < w + SECOND
      <4>1. now <= now /\ now < w + SECOND
        BY <1>1, <1>a, <1>g
      <4> QED
        BY <1>c, <1>d, <1>g, <1>h, <4>1
    <3>8. Limited(b, [window_start |-> w, count |-> lim.count + 1], now)
      BY <1>a, <3>5, <3>6, <3>7 DEF Limited
    <3> QED
      BY <2>1, <2>2, <3>8 DEF b
  <2>3. CASE ~Passes(lim)
    <3>1. Limited(a, [window_start |-> w, count |-> lim.count + 1], now)
      BY <1>a, <1>f DEF Limited
    <3> QED
      BY <2>1, <2>3, <3>1
  <2> QED
    BY <2>2, <2>3
<1>2. CASE ~(now - w < SECOND)
  <2>1. Counted(lim) = [window_start |-> now, count |-> 1] /\ Passes(lim)
    BY <1>2, <1>a DEF Counted, Passes, Limit
  <2>2. Inside(b, now) = {Len(a) + 1}
    <3>1. ASSUME NEW j \in 1..Len(a) PROVE ~(b[j] >= now)
      <4>1. a[j] < w + SECOND /\ a[j] \in Nat /\ b[j] = a[j]
        BY <1>g, <1>h
      <4> QED
        BY <1>2, <1>a, <1>g, <4>1
    <3>2. now >= now
      OBVIOUS
    <3> QED
      BY <1>c, <1>d, <3>1, <3>2 DEF Inside
  <2>3. Before(b, now) \subseteq Inside(a, w)
    <3>1. ASSUME NEW j \in 1..Len(a), now < b[j] + SECOND PROVE a[j] >= w
      <4>1. a[j] \in Nat /\ b[j] = a[j]
        BY <1>h
      <4> QED
        BY <1>2, <1>a, <1>g, <3>1, <4>1
    <3>2. ~(now < now)
      OBVIOUS
    <3> QED
      BY <1>c, <1>d, <3>1, <3>2 DEF Inside, Before
  <2>4. Cardinality(Inside(b, now)) = 1
    BY <2>2, FS_Singleton
  <2>5. Cardinality(Before(b, now)) <= Limit
    <3>1. Cardinality(Before(b, now)) <= Cardinality(Inside(a, w))
      BY <1>b, <1>e, <2>3, Positions
    <3>2. Cardinality(Before(b, now)) \in Nat
      <4>1. Before(b, now) \subseteq 1..Len(a)
        BY <1>e, <2>3
      <4> QED
        BY <1>b, <4>1, Positions
    <3> QED
      BY <1>a, <1>f, <3>1, <3>2 DEF Limited
  <2>6. /\ \A i, j \in 1..Len(b) : i <= j => b[i] <= b[j]
        /\ \A i \in 1..Len(b) : Cardinality(Within(b, i)) <= 2 * Limit
    <3>1. /\ Cardinality(Inside(b, now)) <= Limit /\ now <= now
          /\ \A i, j \in 1..Len(a) : i <= j => a[i] <= a[j]
          /\ \A i \in 1..Len(a) : Cardinality(Within(a, i)) <= 2 * Limit
      BY <1>a, <2>4 DEF Limited
    <3> QED
      BY <1>g, <2>5, <3>1, PassingRequest DEF b
  <2>7. \A j \in 1..Len(b) : b[j] <= now /\ b[j] < now + SECOND
    <3>1. now <= now /\ now < now + SECOND
      BY <1>a
    <3>2. ASSUME NEW j \in 1..Len(a) PROVE b[j] <= now /\ b[j] < now + SECOND
      <4>1. a[j] <= now /\ a[j] \in Nat /\ b[j] = a[j]
        BY <1>g, <1>h
      <4> QED
        BY <1>a, <4>1
    <3> QED
      BY <1>c, <1>d, <3>1, <3>2
  <2>8. Limited(b, [window_start |-> now, count |-> 1], now)
    BY <1>a, <2>4, <2>5, <2>6, <2>7 DEF Limited
  <2> QED
    BY <2>1, <2>8 DEF b
<1> QED
  BY <1>1, <1>2

\* A new limiter has let nothing pass.
LEMMA NewLimited ==
    ASSUME NEW t \in Nat, NEW w \in Nat, w <= t
    PROVE  Limited(<<>>, [window_start |-> w, count |-> 0], t)
<1>1. Inside(<<>>, w) = {} /\ Before(<<>>, w) = {} /\ Len(<<>>) = 0
  BY DEF Inside, Before
<1>2. Cardinality({}) = 0
  BY FS_EmptySet
<1>3. Limit \in Nat /\ 0 <= 0 /\ 0 <= Limit
  BY RpcAssumption DEF Limit
<1>4. 1..Len(<<>>) = {}
  BY <1>1
<1> QED
  BY <1>1, <1>2, <1>3, <1>4 DEF Limited

\* The clock moves on.
LEMMA LaterLimited ==
    ASSUME NEW a \in Seq(Nat), NEW lim \in Limiters, NEW t \in Nat, Limited(a, lim, t)
    PROVE  Limited(a, lim, t + 1)
<1>1. \A j \in 1..Len(a) : a[j] \in Nat
  OBVIOUS
<1> QED
  BY <1>1 DEF Limited, Limiters

\* Every limiter is right about its connection, and a connection that is not
\* open has let nothing pass.
RateAt(c) ==
    /\ Limited(allowed[c], limiter[c], now)
    /\ phase[c] # "open" => allowed[c] = <<>>
RateInv == \A c \in Conns : RateAt(c)

\* Every step keeps every limiter right.
LEMMA RateStep == Types /\ InHand /\ RateInv /\ [Next]_vars => RateInv'
<1> SUFFICES ASSUME Types, InHand, RateInv, [Next]_vars, NEW d \in Conns PROVE RateAt(d)'
  BY DEF RateInv
<1>a. /\ Limited(allowed[d], limiter[d], now) /\ (phase[d] # "open" => allowed[d] = <<>>)
      /\ allowed[d] \in Seq(Nat) /\ limiter[d] \in Limiters /\ now \in Nat
  BY DEF RateInv, RateAt, Types, Limiters
<1>b. ASSUME limiter'[d] = limiter[d], allowed'[d] = allowed[d], now' = now,
             phase'[d] # "open" => phase[d] # "open"
      PROVE  RateAt(d)'
  BY <1>a, <1>b DEF RateAt
<1>c. ASSUME NEW c \in Conns, Return(c), now' = now PROVE RateAt(d)'
  <2>1. CASE c = d
    <3>1. limiter'[d] = NewLimiter(0) /\ allowed'[d] = <<>>
      BY <1>c, <2>1 DEF Return, Types
    <3>2. Limited(<<>>, NewLimiter(0), now)
      BY <1>a, NewLimited DEF NewLimiter
    <3> QED
      BY <1>c, <3>1, <3>2 DEF RateAt
  <2>2. CASE c # d
    BY <1>b, <1>c, <2>2 DEF Return, Types
  <2> QED
    BY <2>1, <2>2
<1> USE DEF conns, requests, chain
<1>1. ASSUME NEW c \in Conns, Accept(c) PROVE RateAt(d)'
  BY <1>1, <1>b DEF Accept, Types
<1>2. ASSUME NEW c \in Conns, CountIp(c) PROVE RateAt(d)'
  <2>1. CASE limiter' = limiter
    <3>1. UNCHANGED <<allowed, now>> /\ (phase'[d] # "open" => phase[d] # "open")
      BY <1>2 DEF CountIp, Types
    <3> QED
      BY <1>b, <2>1, <3>1
  <2>2. CASE limiter' # limiter
    <3>1. /\ phase' = [phase EXCEPT ![c] = "open"] /\ phase[c] = "accepted"
          /\ limiter' = [limiter EXCEPT ![c] = NewLimiter(now)]
          /\ UNCHANGED <<allowed, now>>
      BY <1>2, <2>2 DEF CountIp
    <3>2. CASE c = d
      <4>1. limiter'[d] = NewLimiter(now) /\ allowed'[d] = <<>> /\ phase'[d] = "open"
        BY <1>a, <3>1, <3>2 DEF Types
      <4>2. Limited(<<>>, NewLimiter(now), now)
        BY <1>a, NewLimited DEF NewLimiter
      <4> QED
        BY <3>1, <4>1, <4>2 DEF RateAt
    <3>3. CASE c # d
      BY <1>b, <3>1, <3>3 DEF Types
    <3> QED
      BY <3>2, <3>3
  <2> QED
    BY <2>1, <2>2
<1>3. ASSUME NEW c \in Conns, Uncount(c) \/ Release(c) PROVE RateAt(d)'
  BY <1>3, <1>b DEF Uncount, Release, Types
<1>4. ASSUME NEW c \in Conns, NEW l \in Lines, ReadLine(c, l) PROVE RateAt(d)'
  <2>1. UNCHANGED <<phase, now>>
    BY <1>4 DEF ReadLine
  <2>2. CASE c # d \/ l.kind = "oversized"
    <3>1. limiter'[d] = limiter[d] /\ allowed'[d] = allowed[d]
      BY <1>4, <2>2 DEF ReadLine, Types
    <3> QED
      BY <1>b, <2>1, <3>1
  <2>3. CASE c = d /\ l.kind # "oversized"
    <3>1. /\ limiter'[d] = Counted(limiter[d])
          /\ allowed'[d] = IF Passes(limiter[d]) THEN Append(allowed[d], now) ELSE allowed[d]
      BY <1>4, <2>3 DEF ReadLine, Types
    <3>2. phase[d] = "open"
      BY <1>4, <2>3 DEF ReadLine
    <3> QED
      BY <1>a, <2>1, <3>1, <3>2, RequestLimited DEF RateAt
  <2> QED
    BY <2>2, <2>3
<1>5. ASSUME NEW c \in Conns, Dispatch(c) \/ StatusInPool(c) PROVE RateAt(d)'
  BY <1>5, <1>b DEF Dispatch, StatusInPool
<1>6. ASSUME NEW c \in Conns, WriteReply(c) PROVE RateAt(d)'
  BY <1>6, <1>b, <1>c DEF WriteReply
<1>7. ASSUME NEW c \in Conns, StreamEnds(c) PROVE RateAt(d)'
  BY <1>7, <1>c DEF StreamEnds
<1>8. CASE AcceptFails \/ Drain \/ ConfirmBatch \/ PeerBlock \/ UNCHANGED vars
  BY <1>8, <1>b DEF AcceptFails, Drain, ConfirmBatch, PeerBlock, vars
<1>9. CASE Tick
  BY <1>9, <1>a, LaterLimited DEF Tick, RateAt
<1> QED
  BY <1>1, <1>2, <1>3, <1>4, <1>5, <1>6, <1>7, <1>8, <1>9 DEF Next, Serve, Task, Client

\* No connection gets more than twice the limit of requests through within any
\* second, wherever that second lies across the limiter's windows.
THEOREM RateIsBounded == Spec => []RateBounded
<1>1. Init => Types /\ InHand /\ RateInv
  <2> SUFFICES ASSUME Init PROVE RateInv
    BY InitSlots
  <2>1. Limited(<<>>, NewLimiter(0), 0)
    BY NewLimited DEF NewLimiter
  <2> QED
    BY <2>1 DEF Init, RateInv, RateAt
<1>2. Types /\ InHand /\ RateInv /\ [Next]_vars => (Types /\ InHand /\ RateInv)'
  BY TypesStep, InHandStep, RateStep
<1>3. Types /\ RateInv => RateBounded
  <2> SUFFICES ASSUME Types, RateInv, NEW c \in Conns, NEW i \in DOMAIN allowed[c]
               PROVE  Cardinality(Within(allowed[c], i)) <= 2 * Limit
    BY DEF RateBounded, Within, Limit
  <2>1. i \in 1..Len(allowed[c])
    BY DEF Types
  <2> QED
    BY <2>1 DEF RateInv, RateAt, Limited
<1> QED
  BY <1>1, <1>2, <1>3, PTL DEF Spec
=============================================================================
