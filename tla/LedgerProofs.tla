---------------------------- MODULE LedgerProofs ----------------------------
(***************************************************************************)
(* The invariants of Ledger and its refinement of AtomicLedger, for any    *)
(* set of accounts, transactions and blocks and any economic parameters.   *)
(***************************************************************************)
EXTENDS Ledger, ConsensusTheorems

-----------------------------------------------------------------------------
(* Operators of LedgerState. *)

\* The nonce that a payable transaction uses is the next one: its sender's
\* confirmed nonces grow by exactly that one.
LEMMA AppliedNonces ==
    ASSUME NEW s \in Ledgers, NEW tx \in Txs, NEW m \in Addr,
           Payable(s, tx), LedgerNonces(s)
    PROVE  LedgerNonces(TxApplied(s, tx, m))
<1> DEFINE t == TxApplied(s, tx, m)
           Nonces(c, a) == {v.nonce : v \in {u \in c : u.sender = a}}
<1>1. /\ t.confirmed = s.confirmed \cup {tx}
      /\ t.next_nonces = [s.next_nonces EXCEPT ![tx.sender] = @ + 1]
  BY DEF TxApplied
<1>2. s.next_nonces \in [Addr -> Nat]
  BY DEF Ledgers
<1>3. tx.nonce = s.next_nonces[tx.sender]
  BY DEF Payable
<1>4. SUFFICES ASSUME NEW a \in Addr
               PROVE  Nonces(t.confirmed, a) = 0 .. t.next_nonces[a] - 1
  BY DEF LedgerNonces
<1>5. Nonces(s.confirmed, a) = 0 .. s.next_nonces[a] - 1
  BY DEF LedgerNonces
<1>6. CASE a = tx.sender
  <2>1. Nonces(t.confirmed, a) = Nonces(s.confirmed, a) \cup {tx.nonce}
    BY <1>1, <1>6
  <2>2. t.next_nonces[a] = s.next_nonces[a] + 1
    BY <1>1, <1>2, <1>6
  <2> HIDE DEF Nonces, t
  <2>3. 0 .. (s.next_nonces[a] + 1) - 1
          = (0 .. s.next_nonces[a] - 1) \cup {s.next_nonces[a]}
    BY <1>2
  <2> QED
    BY <1>3, <1>5, <1>6, <2>1, <2>2, <2>3
<1>7. CASE a # tx.sender
  <2>1. Nonces(t.confirmed, a) = Nonces(s.confirmed, a)
    BY <1>1, <1>7
  <2>2. t.next_nonces[a] = s.next_nonces[a]
    BY <1>1, <1>2, <1>7
  <2> QED
    BY <1>5, <2>1, <2>2
<1> QED
  BY <1>6, <1>7

\* A payable transaction is the first with its sender and nonce: all the
\* nonces confirmed before are below the expected one.
LEMMA AppliedSpentOnce ==
    ASSUME NEW s \in Ledgers, NEW tx \in Txs, NEW m \in Addr,
           Payable(s, tx), LedgerNonces(s), SpentOnce(s)
    PROVE  SpentOnce(TxApplied(s, tx, m))
<1>1. TxApplied(s, tx, m).confirmed = s.confirmed \cup {tx}
  BY DEF TxApplied
<1>2. ASSUME NEW u \in s.confirmed, u.sender = tx.sender
      PROVE  u.nonce # tx.nonce
  <2>1. u.nonce \in 0 .. s.next_nonces[tx.sender] - 1
    BY <1>2, TxType DEF LedgerNonces
  <2>2. tx.nonce = s.next_nonces[tx.sender] /\ tx.nonce \in Nat
    BY TxType DEF Payable
  <2> QED
    BY <2>1, <2>2
<1> QED
  BY <1>1, <1>2 DEF SpentOnce

-----------------------------------------------------------------------------
(* Type correctness. *)

\* Every step of the event loop and of the RPC tasks preserves the types.
LEMMA TypeStep == TypeOK /\ [Next]_vars => TypeOK'
<1> SUFFICES ASSUME TypeOK, [Next]_vars PROVE TypeOK'
  OBVIOUS
<1> USE DEF TypeOK, loop
<1>0. <<>> \in Seq(Txs) /\ <<>> \in Seq(Nat)
  OBVIOUS
<1>1. ASSUME NEW tx \in Submitted, add_transaction(tx) PROVE TypeOK'
  BY <1>1, LedgerAssumption DEF add_transaction
<1>2. CASE drain_to_batch
  <2>1. PICK txs \in BoundedSeq(mempool, BATCH) :
            batch' = txs /\ todo' = txs /\ mempool' = mempool \ ToSet(txs)
    BY <1>2 DEF drain_to_batch
  <2>2. txs \in Seq(Txs)
    <3>1. PICK k \in 0..BATCH : txs \in [1..k -> mempool]
      BY DEF BoundedSeq, SeqOf
    <3>2. txs \in [1..k -> Txs] /\ k \in Nat
      BY <3>1, LedgerAssumption
    <3> QED
      BY <3>2
  <2> QED
    BY <1>2, <2>1, <2>2 DEF drain_to_batch
<1>3. CASE SelectStep
  <2>1. Head(todo) \in Txs /\ Tail(todo) \in Seq(Txs) /\ Miner \in Addr
    BY <1>3, LedgerAssumption DEF SelectStep
  <2>2. scratch' \in Ledgers
    BY <1>3, <2>1, AppliedType, FailedType DEF SelectStep
  <2>3. chosen' \in Seq(Txs)
    <3>1. chosen' = chosen \/ chosen' = Append(chosen, Head(todo))
      BY <1>3 DEF SelectStep
    <3>2. Append(chosen, Head(todo)) \in Seq(Txs)
      BY <2>1, AppendType
    <3> QED
      BY <3>1, <3>2
  <2> QED
    BY <1>3, <2>1, <2>2, <2>3 DEF SelectStep
<1>4. ASSUME NEW h \in Heights, BeginOwnBlock(h) PROVE TypeOK'
  <2>1. block' \in Blocks
    <3>1. h \in Nat \ {0} /\ calculate_subsidy_split(h) \in [miner : Nat, dev : Nat]
      BY LedgerAssumption, SubsidyType
    <3> QED
      BY <1>4, <3>1, LedgerAssumption, AddrAssumption DEF BeginOwnBlock, Blocks
  <2> QED
    BY <1>4, <2>1 DEF BeginOwnBlock
<1>5. ASSUME NEW b \in PeerBlocks, BeginBlock(b) PROVE TypeOK'
  <2>1. b \in Blocks /\ b.txs \in Seq(Txs)
    BY PeerBlocksAssumption DEF Blocks
  <2> QED
    BY <1>5, <2>1 DEF BeginBlock, target
<1>6. CASE ApplyStep
  <2>1. Head(todo) \in Txs /\ Tail(todo) \in Seq(Txs) /\ block.miner \in Addr
    BY <1>6 DEF ApplyStep, Blocks
  <2>2. scratch' \in Ledgers
    BY <1>6, <2>1, AppliedType DEF ApplyStep
  <2> QED
    BY <1>6, <2>1, <2>2 DEF ApplyStep
<1>7. CASE ApplyError
  BY <1>0, <1>7, DefaultType DEF ApplyError, Idle
<1>8. CASE Commit
  <2>1. CoinbaseApplied(scratch, block) \in Ledgers /\ block.height \in Nat
    BY <1>8, CoinbaseType DEF Commit, Blocks
  <2>2. applied' \in [{"live", "fresh"} -> Seq(Nat)]
    BY <1>8, <2>1 DEF Commit, target
  <2> QED
    BY <1>8, <2>1, <2>2, DefaultType DEF Commit, Idle, target
<1>9. CASE BeginReplay
  BY <1>9 DEF BeginReplay
<1>10. CASE EndReplay
  BY <1>0, <1>10, DefaultType DEF EndReplay
<1>11. CASE UNCHANGED vars
  BY <1>11 DEF vars
<1> QED
  BY <1>1, <1>2, <1>3, <1>4, <1>5, <1>6, <1>7, <1>8, <1>9, <1>10, <1>11 DEF Next

\* Balances stay within a u64 and every part of the state keeps its type in
\* every behaviour of the ledger and the mempool.
THEOREM TypeCorrect == Spec => []TypeOK
<1>1. ASSUME Init PROVE TypeOK
  <2>1. <<>> \in Seq(Txs) /\ <<>> \in Seq(Nat)
    OBVIOUS
  <2>2. applied \in [{"live", "fresh"} -> Seq(Nat)]
    BY <1>1, <2>1 DEF Init
  <2> QED
    BY <1>1, <2>1, <2>2, DefaultType DEF Init, TypeOK
<1> QED
  BY <1>1, TypeStep, PTL DEF Spec

-----------------------------------------------------------------------------
(* Each nonce is spent once. *)

Sound(s) == LedgerNonces(s) /\ SpentOnce(s)

\* The committed ledgers are sound, and so is the clone apply_block works on.
\* (The clone of select_affordable is not: a failed candidate's id stays in
\* its confirmed set.  It is never committed.)
NonceInv ==
    /\ \A l \in {"live", "fresh"} : Sound(ledger[l])
    /\ pc = "apply" => Sound(scratch)

\* The default ledger is sound.
LEMMA DefaultSound == Sound(DefaultLedger)
  BY DEF Sound, LedgerNonces, SpentOnce, DefaultLedger

\* The coinbase touches balances only.
LEMMA CoinbaseSound ==
    ASSUME NEW s \in Ledgers, NEW b, Sound(s)
    PROVE  Sound(CoinbaseApplied(s, b))
<1>1. /\ CoinbaseApplied(s, b).confirmed = s.confirmed
      /\ CoinbaseApplied(s, b).next_nonces = s.next_nonces
  BY DEF CoinbaseApplied, Ledgers
<1> QED
  BY <1>1 DEF Sound, LedgerNonces, SpentOnce

\* Every step preserves the soundness of what is, or may be, committed.
LEMMA NonceStep == TypeOK /\ NonceInv /\ [Next]_vars => NonceInv'
<1> SUFFICES ASSUME TypeOK, NonceInv, [Next]_vars PROVE NonceInv'
  OBVIOUS
<1> USE DEF NonceInv
<1>1. ASSUME NEW tx \in Submitted, add_transaction(tx) PROVE NonceInv'
  BY <1>1 DEF add_transaction, loop
<1>2. CASE drain_to_batch
  BY <1>2 DEF drain_to_batch
<1>3. CASE SelectStep
  BY <1>3 DEF SelectStep
<1>4. ASSUME NEW h \in Heights, BeginOwnBlock(h) PROVE NonceInv'
  BY <1>4 DEF BeginOwnBlock
<1>5. ASSUME NEW b \in PeerBlocks, BeginBlock(b) PROVE NonceInv'
  BY <1>5 DEF BeginBlock, target
<1>6. CASE ApplyStep
  <2>1. Head(todo) \in Txs /\ block.miner \in Addr /\ scratch \in Ledgers
    BY <1>6 DEF ApplyStep, TypeOK, Blocks
  <2>2. Payable(scratch, Head(todo)) /\ Sound(scratch)
    BY <1>6 DEF ApplyStep, TxApplies
  <2>3. Sound(scratch')
    BY <1>6, <2>1, <2>2, AppliedNonces, AppliedSpentOnce DEF ApplyStep, Sound
  <2> QED
    BY <1>6, <2>3 DEF ApplyStep
<1>7. CASE ApplyError
  BY <1>7, DefaultSound DEF ApplyError, Idle, TypeOK
<1>8. CASE Commit
  <2>1. Sound(CoinbaseApplied(scratch, block))
    BY <1>8, CoinbaseSound DEF Commit, TypeOK
  <2> QED
    BY <1>8, <2>1 DEF Commit, Idle, target, TypeOK
<1>9. CASE BeginReplay
  BY <1>9 DEF BeginReplay, loop
<1>10. CASE EndReplay
  BY <1>10, DefaultSound DEF EndReplay, loop, TypeOK
<1>11. CASE UNCHANGED vars
  BY <1>11 DEF vars
<1> QED
  BY <1>1, <1>2, <1>3, <1>4, <1>5, <1>6, <1>7, <1>8, <1>9, <1>10, <1>11 DEF Next

\* NonceInv holds throughout.
LEMMA NonceInvariant == Spec => []NonceInv
<1>1. Init => NonceInv
  BY DefaultSound DEF Init, NonceInv
<1> QED
  BY <1>1, NonceStep, TypeCorrect, PTL DEF Spec

\* No sender's nonce is ever confirmed twice, in the live ledger or in one
\* being rebuilt, whatever signatures, batches, blocks and replays occur.
THEOREM SpendsOnce == Spec => []NoDoubleSpend
<1>1. NonceInv => NoDoubleSpend
  BY DEF NonceInv, Sound, NoDoubleSpend
<1> QED
  BY <1>1, NonceInvariant, PTL

\* A sender's confirmed nonces are always an initial segment of the naturals
\* that ends just below its next_nonces entry.
THEOREM NoncesHaveNoGap == Spec => []NoncesContiguous
<1>1. NonceInv => NoncesContiguous
  BY DEF NonceInv, Sound, NoncesContiguous
<1> QED
  BY <1>1, NonceInvariant, PTL

-----------------------------------------------------------------------------
(* The loops of the event loop and the calls as values. *)

\* The block that create_block makes of the chosen transactions.
Mined(h, txs) == [height   |-> h,
                  miner    |-> Miner,
                  dev      |-> DEV_TREASURY_ADDRESS,
                  coinbase |-> calculate_subsidy_split(h),
                  txs      |-> txs]

\* The rest of a loop, from its scratch ledger, yields what the whole call
\* yields; and what is being applied is an own block or one of a peer's.
LoopInv ==
    /\ pc = "idle" => chosen = <<>> /\ ~own
    /\ pc = "select" =>
          /\ ~replaying /\ ~own
          /\ batch \in Seq(Txs)
          /\ Len(chosen) + Len(todo) <= BATCH
          /\ select_affordable(ledger["live"], batch, Miner)
               = chosen \o select_affordable(scratch, todo, Miner)
    /\ pc = "apply" =>
          /\ chosen = <<>>
          /\ verify_coinbase_rewards(block)
          /\ block.dev = DEV_TREASURY_ADDRESS
          /\ ApplyTxs(ledger[target], block.txs, block.miner)
               = ApplyTxs(scratch, todo, block.miner)
          /\ IF own THEN /\ ~replaying
                         /\ \E h \in Heights, txs \in BoundedSeq(Txs, BATCH) :
                                block = Mined(h, txs)
                    ELSE block \in PeerBlocks

\* The sequences over S of at most n elements.
LEMMA Bounded ==
    ASSUME NEW S, NEW n \in Nat
    PROVE  BoundedSeq(S, n) = {q \in Seq(S) : Len(q) <= n}
<1>1. ASSUME NEW q \in BoundedSeq(S, n) PROVE q \in Seq(S) /\ Len(q) <= n
  <2>1. PICK k \in 0..n : q \in [1..k -> S]
    BY DEF BoundedSeq, SeqOf
  <2>2. q \in Seq(S) /\ Len(q) = k
    BY <2>1
  <2> QED
    BY <2>2
<1>2. ASSUME NEW q \in Seq(S), Len(q) <= n PROVE q \in BoundedSeq(S, n)
  <2>1. Len(q) \in 0..n /\ q \in [1..Len(q) -> S]
    BY <1>2, LenProperties
  <2> QED
    BY <2>1 DEF BoundedSeq, SeqOf
<1> QED
  BY <1>1, <1>2

\* Every step preserves the agreement of loops and calls.
LEMMA LoopStep == TypeOK /\ LoopInv /\ [Next]_vars => LoopInv'
<1> SUFFICES ASSUME TypeOK, LoopInv, [Next]_vars PROVE LoopInv'
  OBVIOUS
<1>1. ASSUME NEW tx \in Submitted, add_transaction(tx) PROVE LoopInv'
  BY <1>1 DEF add_transaction, loop, LoopInv, target
<1>2. CASE drain_to_batch
  <2>1. PICK txs \in BoundedSeq(mempool, BATCH) : batch' = txs /\ todo' = txs
    BY <1>2 DEF drain_to_batch
  <2>2. txs \in Seq(mempool) /\ Len(txs) <= BATCH
    BY <2>1, Bounded, LedgerAssumption
  <2>3. txs \in Seq(Txs) /\ Len(txs) \in Nat
    BY <2>2, SeqMonotonic DEF TypeOK
  <2>4. pc' = "select" /\ ~replaying' /\ ~own' /\ chosen' = <<>>
    BY <1>2 DEF drain_to_batch, LoopInv
  <2>5. scratch' = ledger["live"] /\ ledger' = ledger
    BY <1>2 DEF drain_to_batch
  <2>6. <<>> \o select_affordable(ledger["live"], txs, Miner)
          = select_affordable(ledger["live"], txs, Miner)
    <3> DEFINE acc == [accepted |-> <<>>, ledger |-> ledger["live"]]
    <3>1. acc \in Selections /\ Miner \in Addr
      BY LedgerAssumption DEF Selections, TypeOK
    <3>2. SelectFrom(acc, txs, Miner).accepted
            = acc.accepted \o select_affordable(acc.ledger, txs, Miner)
      BY <2>3, <3>1, SelectShift
    <3>3. SelectFrom(acc, txs, Miner).accepted
            = select_affordable(ledger["live"], txs, Miner)
      BY DEF SelectFrom, select_affordable
    <3>4. acc.accepted = <<>> /\ acc.ledger = ledger["live"]
      OBVIOUS
    <3> HIDE DEF acc
    <3> QED
      BY <3>2, <3>3, <3>4
  <2>7. Len(chosen') + Len(todo') <= BATCH
    BY <2>1, <2>2, <2>3, <2>4
  <2> QED
    BY <2>1, <2>3, <2>4, <2>5, <2>6, <2>7 DEF LoopInv
<1>3. CASE SelectStep
  <2> DEFINE tx == Head(todo)
  <2>1. /\ pc = "select" /\ pc' = "select" /\ todo \in Seq(Txs) /\ todo # <<>>
        /\ chosen \in Seq(Txs) /\ scratch \in Ledgers /\ Miner \in Addr
        /\ todo' = Tail(todo) /\ ledger' = ledger /\ batch' = batch
        /\ replaying' = replaying /\ own' = own
    BY <1>3, LedgerAssumption DEF SelectStep, TypeOK
  <2>2. chosen \o select_affordable(scratch, todo, Miner)
          = chosen' \o select_affordable(scratch', todo', Miner)
    <3>1. chosen \o select_affordable(scratch, todo, Miner)
            = IF TxApplies(scratch, tx, Miner)
              THEN Append(chosen, tx)
                     \o select_affordable(TxApplied(scratch, tx, Miner), Tail(todo), Miner)
              ELSE chosen \o select_affordable(TxFailed(scratch, tx, Miner), Tail(todo), Miner)
      BY <2>1, SelectNext
    <3>2. CASE TxApplies(scratch, tx, Miner)
      <4>1. scratch' = TxApplied(scratch, tx, Miner) /\ chosen' = Append(chosen, tx)
        BY <1>3, <3>2 DEF SelectStep
      <4> QED
        BY <2>1, <3>1, <3>2, <4>1
    <3>3. CASE ~TxApplies(scratch, tx, Miner)
      <4>1. scratch' = TxFailed(scratch, tx, Miner) /\ chosen' = chosen
        BY <1>3, <3>3 DEF SelectStep
      <4> QED
        BY <2>1, <3>1, <3>3, <4>1
    <3> QED
      BY <3>2, <3>3
  <2>3. Len(chosen') + Len(todo') <= BATCH
    <3>1. Len(todo') = Len(todo) - 1 /\ Len(todo) \in Nat /\ Len(chosen) \in Nat
      BY <2>1
    <3>2. Len(chosen') <= Len(chosen) + 1 /\ Len(chosen') \in Nat
      <4>1. chosen' = chosen \/ chosen' = Append(chosen, tx)
        BY <1>3 DEF SelectStep
      <4> QED
        BY <2>1, <4>1
    <3>3. Len(chosen) + Len(todo) <= BATCH
      BY <2>1 DEF LoopInv
    <3> QED
      BY <3>1, <3>2, <3>3, LedgerAssumption
  <2> QED
    BY <2>1, <2>2, <2>3 DEF LoopInv
<1>4. ASSUME NEW h \in Heights, BeginOwnBlock(h) PROVE LoopInv'
  <2>1. /\ block' = Mined(h, chosen) /\ pc' = "apply" /\ own' /\ ~replaying'
        /\ ledger' = ledger /\ scratch' = ledger["live"] /\ todo' = chosen
        /\ chosen' = <<>>
    BY <1>4 DEF BeginOwnBlock, LoopInv, Mined, TypeOK
  <2>2. chosen \in BoundedSeq(Txs, BATCH)
    <3>1. chosen \in Seq(Txs) /\ Len(chosen) <= BATCH
      <4>1. chosen \in Seq(Txs) /\ Len(chosen) \in Nat /\ Len(todo) = 0
        BY <1>4 DEF BeginOwnBlock, TypeOK
      <4>2. Len(chosen) + Len(todo) <= BATCH
        BY <1>4 DEF BeginOwnBlock, LoopInv
      <4> QED
        BY <4>1, <4>2, LedgerAssumption
    <3> QED
      BY <3>1, Bounded, LedgerAssumption
  <2>3. /\ Mined(h, chosen).txs = chosen /\ Mined(h, chosen).miner = Miner
        /\ Mined(h, chosen).dev = DEV_TREASURY_ADDRESS
        /\ verify_coinbase_rewards(Mined(h, chosen))
    BY DEF Mined, verify_coinbase_rewards
  <2>4. target' = "live"
    BY <2>1 DEF target
  <2> QED
    BY <2>1, <2>2, <2>3, <2>4 DEF LoopInv
<1>5. ASSUME NEW b \in PeerBlocks, BeginBlock(b) PROVE LoopInv'
  BY <1>5 DEF BeginBlock, LoopInv, target
<1>6. CASE ApplyStep
  <2>1. /\ pc = "apply" /\ todo \in Seq(Txs) /\ todo # <<>>
        /\ scratch \in Ledgers /\ block.miner \in Addr
        /\ TxApplies(scratch, Head(todo), block.miner)
    BY <1>6 DEF ApplyStep, TypeOK, Blocks
  <2>2. ApplyTxs(scratch, todo, block.miner) = ApplyTxs(scratch', todo', block.miner)
    BY <1>6, <2>1, ApplyTxsNext DEF ApplyStep
  <2> QED
    BY <1>6, <2>1, <2>2 DEF ApplyStep, LoopInv, target
<1>7. CASE ApplyError
  BY <1>7 DEF ApplyError, Idle, LoopInv
<1>8. CASE Commit
  BY <1>8 DEF Commit, Idle, LoopInv
<1>9. CASE BeginReplay
  BY <1>9 DEF BeginReplay, loop, LoopInv
<1>10. CASE EndReplay
  BY <1>10 DEF EndReplay, loop, LoopInv
<1>11. CASE UNCHANGED vars
  BY <1>11 DEF vars, LoopInv, target
<1> QED
  BY <1>1, <1>2, <1>3, <1>4, <1>5, <1>6, <1>7, <1>8, <1>9, <1>10, <1>11 DEF Next

\* LoopInv holds throughout.
LEMMA LoopInvariant == Spec => []LoopInv
<1>1. Init => LoopInv
  BY DEF Init, LoopInv
<1> QED
  BY <1>1, LoopStep, TypeCorrect, PTL DEF Spec

\* A loop that is through: apply_block in one go commits the same ledger.
LEMMA CallCommits ==
    ASSUME TypeOK, LoopInv, pc = "apply", todo = <<>>, CoinbaseFits(scratch, block)
    PROVE  apply_block(ledger[target], block)
             = [ok |-> TRUE, ledger |-> CoinbaseApplied(scratch, block)]
<1>1. block \in Blocks /\ scratch \in Ledgers /\ block.miner \in Addr /\ block.height # 0
  BY DEF TypeOK, Blocks
<1>2. ApplyTxs(ledger[target], block.txs, block.miner) = [ok |-> TRUE, ledger |-> scratch]
  BY <1>1, ApplyTxsNone DEF LoopInv
<1>3. verify_coinbase_rewards(block) /\ block.dev = DEV_TREASURY_ADDRESS
  BY DEF LoopInv
<1> QED
  BY <1>1, <1>2, <1>3 DEF apply_block

\* A loop that fails: so does apply_block in one go.
LEMMA CallFails ==
    ASSUME TypeOK, LoopInv, Fails
    PROVE  ~apply_block(ledger[target], block).ok
<1>1. /\ pc = "apply" /\ block \in Blocks /\ scratch \in Ledgers
      /\ block.miner \in Addr /\ block.height # 0 /\ todo \in Seq(Txs)
  BY DEF TypeOK, Blocks, Fails
<1>2. ApplyTxs(ledger[target], block.txs, block.miner)
        = ApplyTxs(scratch, todo, block.miner)
  BY <1>1 DEF LoopInv
<1>3. CASE todo # <<>>
  <2>1. ~ApplyTxs(scratch, todo, block.miner).ok
    BY <1>1, <1>3, ApplyTxsFails DEF Fails
  <2> QED
    BY <1>1, <1>2, <2>1 DEF apply_block
<1>4. CASE todo = <<>>
  <2>1. ApplyTxs(scratch, todo, block.miner) = [ok |-> TRUE, ledger |-> scratch]
    BY <1>1, <1>4, ApplyTxsNone
  <2>2. ~CoinbaseFits(scratch, block)
    BY <1>4 DEF Fails
  <2> QED
    BY <1>1, <1>2, <2>1, <2>2 DEF apply_block
<1> QED
  BY <1>3, <1>4

\* The loops of the event loop compute what the operators apply_block and
\* select_affordable compute in one go, whatever is submitted in between.
THEOREM LoopsComputeCalls == Spec => []LoopsMatchCalls
<1>1. TypeOK /\ LoopInv => LoopsMatchCalls
  <2> SUFFICES ASSUME TypeOK, LoopInv PROVE LoopsMatchCalls
    OBVIOUS
  <2>1. Fails => ~apply_block(ledger[target], block).ok
    BY CallFails
  <2>2. pc = "apply" /\ todo = <<>> /\ ~Fails =>
          apply_block(ledger[target], block)
              = [ok |-> TRUE, ledger |-> CoinbaseApplied(scratch, block)]
    BY CallCommits DEF Fails
  <2>3. pc = "select" => select_affordable(ledger["live"], batch, Miner)
                            = chosen \o select_affordable(scratch, todo, Miner)
    BY DEF LoopInv
  <2> QED
    BY <2>1, <2>2, <2>3 DEF LoopsMatchCalls
<1> QED
  BY <1>1, LoopInvariant, TypeCorrect, PTL

-----------------------------------------------------------------------------
(* The ledger is atomic. *)

\* AtomicLedger has the operators of LedgerState under names of its own.
LEMMA SameOperators ==
    ASSUME NEW s, NEW b
    PROVE  Atomic!apply_block(s, b) = apply_block(s, b)
<1>1. \A txs, m : Atomic!ApplyTxs(s, txs, m) = ApplyTxs(s, txs, m)
  BY DEF
          apply_dev_tax_split, Atomic!apply_dev_tax_split, burn_share,
          Atomic!burn_share, fee_distribution, Atomic!fee_distribution,
          Credit, Atomic!Credit, CanCredit, Atomic!CanCredit, AfterDebit,
          Atomic!AfterDebit, AfterRecipient, Atomic!AfterRecipient,
          AfterMinerFee, Atomic!AfterMinerFee, AfterDevFee,
          Atomic!AfterDevFee, Payable, Atomic!Payable, RecipientFits,
          Atomic!RecipientFits, MinerFeeFits, Atomic!MinerFeeFits, DevFeeFits,
          Atomic!DevFeeFits, TxApplies, Atomic!TxApplies, TxApplied,
          Atomic!TxApplied, ApplyOne, Atomic!ApplyOne, ApplyTxs,
          Atomic!ApplyTxs, FoldLeft, Atomic!FoldLeft, MapThenFoldSet,
          Atomic!MapThenFoldSet, Max, Atomic!Max
<1>2. Atomic!verify_coinbase_rewards(b) = verify_coinbase_rewards(b)
  BY DEF
          apply_dev_tax_split, Atomic!apply_dev_tax_split,
          calculate_subsidy_split, Atomic!calculate_subsidy_split,
          verify_coinbase_rewards, Atomic!verify_coinbase_rewards
<1>3. \A t : /\ Atomic!CoinbaseFits(t, b) = CoinbaseFits(t, b)
            /\ Atomic!CoinbaseApplied(t, b) = CoinbaseApplied(t, b)
  BY DEF
          Credit, Atomic!Credit, CanCredit, Atomic!CanCredit,
          AfterMinerReward, Atomic!AfterMinerReward, CoinbaseFits,
          Atomic!CoinbaseFits, CoinbaseApplied, Atomic!CoinbaseApplied
<1> QED
  BY <1>1, <1>2, <1>3 DEF apply_block, Atomic!apply_block

\* A block mined here is an own block of AtomicLedger.
LEMMA SameOwnBlock ==
    ASSUME NEW h, NEW txs
    PROVE  Atomic!OwnBlock(h, txs) = Mined(h, txs)
  BY DEF Mined, Atomic!OwnBlock,
          apply_dev_tax_split, Atomic!apply_dev_tax_split,
          calculate_subsidy_split, Atomic!calculate_subsidy_split

\* Every step leaves both ledgers alone, or is a step of AtomicLedger.
LEMMA AtomicStep ==
    TypeOK /\ LoopInv /\ [Next]_vars => [Atomic!Next]_<<ledger["live"], ledger["fresh"]>>
<1> SUFFICES ASSUME TypeOK, LoopInv, [Next]_vars
             PROVE  Atomic!Next \/ (ledger["live"]' = ledger["live"]
                                      /\ ledger["fresh"]' = ledger["fresh"])
  OBVIOUS
<1>0. Atomic!DefaultLedger = DefaultLedger
  BY DEF Atomic!DefaultLedger, DefaultLedger
<1>1. CASE ledger' = ledger
  BY <1>1
<1>2. CASE ApplyError
  <2>1. ledger'["live"] = ledger["live"] /\ ledger'["fresh"] = DefaultLedger
    BY <1>2 DEF ApplyError, TypeOK
  <2> QED
    BY <1>0, <2>1 DEF Atomic!Next, Atomic!Abandon
<1>3. CASE EndReplay
  <2>1. ledger'["live"] = ledger["fresh"] /\ ledger'["fresh"] = DefaultLedger
    BY <1>3 DEF EndReplay, TypeOK
  <2> QED
    BY <1>0, <2>1 DEF Atomic!Next, Atomic!Adopt
<1>4. CASE Commit
  <2>1. pc = "apply" /\ apply_block(ledger[target], block).ledger = CoinbaseApplied(scratch, block)
    BY <1>4, CallCommits DEF Commit
  <2>2. /\ ledger'[target] = apply_block(ledger[target], block).ledger
        /\ \A l \in {"live", "fresh"} : l # target => ledger'[l] = ledger[l]
    BY <1>4, <2>1 DEF Commit, TypeOK, target
  <2>3. CASE own
    <3>1. PICK h \in Heights, txs \in BoundedSeq(Txs, BATCH) : block = Mined(h, txs)
      BY <2>1, <2>3 DEF LoopInv
    <3>2. target = "live"
      BY <2>1, <2>3 DEF LoopInv, target
    <3>3. Atomic!ApplyOwn(h, txs)
      BY <2>2, <3>1, <3>2, SameOperators, SameOwnBlock DEF Atomic!ApplyOwn
    <3>4. txs \in Atomic!BoundedSeq(Txs, BATCH)
      BY <3>1 DEF BoundedSeq, SeqOf, Atomic!BoundedSeq, Atomic!SeqOf
    <3> QED
      BY <3>3, <3>4 DEF Atomic!Next
  <2>4. CASE ~own
    <3>1. block \in PeerBlocks
      BY <2>1, <2>4 DEF LoopInv
    <3>2. CASE replaying
      <4>1. Atomic!Replay(block)
        BY <2>2, <3>2, SameOperators DEF Atomic!Replay, target
      <4> QED
        BY <3>1, <4>1 DEF Atomic!Next
    <3>3. CASE ~replaying
      <4>1. Atomic!ApplyPeer(block)
        BY <2>2, <3>3, SameOperators DEF Atomic!ApplyPeer, target
      <4> QED
        BY <3>1, <4>1 DEF Atomic!Next
    <3> QED
      BY <3>2, <3>3
  <2> QED
    BY <2>3, <2>4
<1>5. ledger' = ledger \/ ApplyError \/ EndReplay \/ Commit
  BY DEF Next, vars, add_transaction, drain_to_batch, SelectStep, BeginOwnBlock,
         BeginBlock, ApplyStep, BeginReplay
<1> QED
  BY <1>1, <1>2, <1>3, <1>4, <1>5

\* Blocks take effect whole or not at all: the transaction by transaction loops,
\* with submissions in between and replays given up half way, implement the
\* ledger that moves from block to block.
THEOREM LedgerImplementsAtomic == Spec => LedgerIsAtomic
<1>1. Init => Atomic!Init
  BY DEF Init, Atomic!Init, Atomic!DefaultLedger, DefaultLedger
<1> QED
  BY <1>1, AtomicStep, TypeCorrect, LoopInvariant, PTL
  DEF Spec, LedgerIsAtomic, Atomic!Spec

-----------------------------------------------------------------------------
(* Money. *)

\* What a block of height h issues.
Reward(h) == calculate_subsidy_split(h).miner + calculate_subsidy_split(h).dev

\* What the blocks of a list of heights issue.
IssuedBy(q) == SumFunction([i \in DOMAIN q |-> Reward(q[i])])

\* The balances of s add up to what was issued less what was burned.
Conserved(s, issued) ==
    /\ IsFiniteSet(s.confirmed)
    /\ SumFunction(s.balances) = issued - burn_share * Cardinality(s.confirmed)

\* Issued in terms of the list of heights.
LEMMA IssuedIs == \A l : Issued(l) = IssuedBy(applied[l])
  BY DEF Issued, IssuedBy, Reward

\* A transaction that applies burns its share and confirms one id.
LEMMA AppliedConserved ==
    ASSUME NEW s \in Ledgers, NEW tx \in Txs, NEW m \in Addr, Payable(s, tx),
           NEW issued \in Int, Conserved(s, issued)
    PROVE  Conserved(TxApplied(s, tx, m), issued)
<1> DEFINE t == TxApplied(s, tx, m)
           n == Cardinality(s.confirmed)
<1>1. t.confirmed = s.confirmed \cup {tx} /\ t.balances = AfterDevFee(s.balances, tx, m)
  BY DEF TxApplied
<1>2. tx \notin s.confirmed /\ IsFiniteSet(s.confirmed)
  BY DEF Payable, Conserved
<1>3. IsFiniteSet(t.confirmed) /\ Cardinality(t.confirmed) = n + 1 /\ n \in Nat
  <2>1. IsFiniteSet(s.confirmed \cup {tx}) /\ Cardinality(s.confirmed \cup {tx}) = n + 1
    BY <1>2, FS_AddElement
  <2>2. n \in Nat
    BY <1>2, FS_CardinalityType
  <2> QED
    BY <1>1, <2>1, <2>2
<1>4. s.balances \in [Addr -> Int]
  BY EconomyAssumption DEF Ledgers
<1>5. SumFunction(t.balances) = SumFunction(s.balances) - burn_share
  BY <1>1, <1>4, TxSums
<1>6. SumFunction(s.balances) = issued - burn_share * n
  BY DEF Conserved
<1> HIDE DEF n, t
<1>7. (issued - burn_share * n) - burn_share = issued - burn_share * (n + 1)
  BY <1>3, FeeSum
<1> QED
  BY <1>3, <1>5, <1>6, <1>7 DEF Conserved, t

\* The coinbase issues its two parts and confirms nothing.
LEMMA CoinbaseConserved ==
    ASSUME NEW s \in Ledgers, NEW b \in Blocks, NEW issued \in Int, Conserved(s, issued)
    PROVE  Conserved(CoinbaseApplied(s, b), issued + (b.coinbase.miner + b.coinbase.dev))
<1> DEFINE t == CoinbaseApplied(s, b)
           n == Cardinality(s.confirmed)
           mid == AfterMinerReward(s.balances, b)
<1>1. b.miner \in Addr /\ b.coinbase.miner \in Int /\ b.coinbase.dev \in Int
  BY DEF Blocks
<1>2. s.balances \in [Addr -> Int]
  BY EconomyAssumption DEF Ledgers
<1>3. /\ t.confirmed = s.confirmed
      /\ t.balances = Credit(mid, DEV_TREASURY_ADDRESS, b.coinbase.dev)
  BY DEF CoinbaseApplied, Ledgers
<1>4. /\ mid \in [Addr -> Int] /\ SumFunction(s.balances) \in Int
      /\ SumFunction(mid) = SumFunction(s.balances) + b.coinbase.miner
  BY <1>1, <1>2, CreditSum DEF AfterMinerReward
<1> HIDE DEF mid
<1>5. SumFunction(t.balances) = SumFunction(mid) + b.coinbase.dev
  <2>1. \A x \in Int : SumFunction(Credit(mid, DEV_TREASURY_ADDRESS, x)) = SumFunction(mid) + x
    BY <1>4, CreditSum, AddrAssumption
  <2> QED
    BY <1>1, <1>3, <2>1
<1>6. SumFunction(s.balances) = issued - burn_share * n /\ n \in Nat
  BY FS_CardinalityType DEF Conserved
<1> HIDE DEF n, t
<1>7. burn_share * n \in Int
  BY <1>6, FeeSum
<1>8. SumFunction(t.balances)
        = (issued + (b.coinbase.miner + b.coinbase.dev)) - burn_share * n
  BY <1>1, <1>4, <1>5, <1>6, <1>7
<1> QED
  BY <1>3, <1>8 DEF Conserved, t, n

\* One more block issues its reward more.
LEMMA IssuedAppend ==
    ASSUME NEW q \in Seq(Nat), NEW h \in Nat
    PROVE  IssuedBy(q) \in Int /\ IssuedBy(Append(q, h)) = IssuedBy(q) + Reward(h)
<1> DEFINE R(x) == [i \in DOMAIN x |-> Reward(x[i])]
           n == Len(q)
<1>1. \A x \in Nat : Reward(x) \in Int
  BY SubsidyType DEF Reward
<1>2. /\ n \in Nat /\ DOMAIN q = 1..n /\ DOMAIN Append(q, h) = 1..(n + 1)
      /\ Append(q, h)[n + 1] = h /\ \A i \in 1..n : Append(q, h)[i] = q[i] /\ q[i] \in Nat
  OBVIOUS
<1>3. R(q) \in [1..n -> Int] /\ Reward(h) \in Int
  BY <1>1, <1>2
<1>4. R(q) \in Seq(Int) /\ Len(R(q)) = n
  BY <1>2, <1>3
<1>5. R(Append(q, h)) = Append(R(q), Reward(h))
  <2> DEFINE x == R(Append(q, h))
             y == Append(R(q), Reward(h))
  <2>1. /\ y \in Seq(Int) /\ Len(y) = n + 1 /\ y[n + 1] = Reward(h)
        /\ \A i \in 1..n : y[i] = R(q)[i]
    <3> HIDE DEF R
    <3> QED
      BY <1>3, <1>4
  <2>2. y \in [1..(n + 1) -> Int]
    <3> HIDE DEF y, n
    <3> QED
      BY <2>1, LenProperties
  <2>3. /\ DOMAIN x = 1..(n + 1) /\ x = [i \in 1..(n + 1) |-> x[i]]
        /\ x[n + 1] = Reward(h) /\ \A i \in 1..n : x[i] = R(q)[i]
    BY <1>2
  <2>4. \A i \in 1..(n + 1) : i \in 1..n \/ i = n + 1
    BY <1>2
  <2> HIDE DEF x, y, R
  <2>5. \A i \in 1..(n + 1) : x[i] = y[i]
    BY <2>1, <2>3, <2>4
  <2>6. x = y
    BY <2>2, <2>3, <2>5
  <2> QED
    BY <2>6 DEF x, y
<1> HIDE DEF R
<1>6. SumFunction(Append(R(q), Reward(h))) = SumFunction(R(q)) + Reward(h)
  BY <1>3, <1>4, SumAppend
<1>7. SumFunction(R(q)) \in Int
  <2>1. IsFiniteSet(1..n)
    BY <1>2, FS_Interval
  <2> HIDE DEF n
  <2> QED
    BY <1>3, <2>1, SumType
<1> QED
  BY <1>5, <1>6, <1>7 DEF IssuedBy, R

\* s holds what blocks at the heights of q have issued.
Backed(s, q) == Conserved(s, IssuedBy(q))

\* Both ledgers are backed by the blocks applied to them, and the clone
\* apply_block works on by the blocks applied before.
SupplyInv ==
    /\ \A l \in {"live", "fresh"} : Backed(ledger[l], applied[l])
    /\ pc = "apply" => Backed(scratch, applied[target])

\* The default ledger is backed by no block.
LEMMA DefaultBacked == Backed(DefaultLedger, <<>>)
<1>1. SumFunction(DefaultLedger.balances) = 0
  BY SumZero, AddrAssumption DEF DefaultLedger
<1>2. IssuedBy(<<>>) = 0
  <2>1. [i \in DOMAIN <<>> |-> Reward(<<>>[i])] = <<>>
    OBVIOUS
  <2> QED
    BY <2>1, SumEmpty DEF IssuedBy
<1>3. IsFiniteSet(DefaultLedger.confirmed) /\ Cardinality(DefaultLedger.confirmed) = 0
  BY FS_EmptySet DEF DefaultLedger
<1>4. 0 = 0 - burn_share * 0
  BY FeeSum
<1> QED
  BY <1>1, <1>2, <1>3, <1>4 DEF Backed, Conserved

\* What was issued is an integer.
LEMMA IssuedType ==
    ASSUME NEW q \in Seq(Nat)
    PROVE  IssuedBy(q) \in Int
<1> DEFINE n == Len(q)
           f == [i \in DOMAIN q |-> Reward(q[i])]
<1>1. n \in Nat /\ DOMAIN q = 1..n /\ \A i \in 1..n : Reward(q[i]) \in Int
  <2>1. \A x \in Nat : Reward(x) \in Int
    BY SubsidyType DEF Reward
  <2> QED
    BY <2>1
<1>2. f \in [1..n -> Int] /\ IsFiniteSet(1..n)
  BY <1>1, FS_Interval
<1> HIDE DEF f, n
<1>3. SumFunction(f) \in Int
  BY <1>2, SumType
<1> QED
  BY <1>3 DEF IssuedBy, f

\* A transaction that applies keeps a ledger backed.
LEMMA AppliedBacked ==
    ASSUME NEW s \in Ledgers, NEW tx \in Txs, NEW m \in Addr, Payable(s, tx),
           NEW q \in Seq(Nat), Backed(s, q)
    PROVE  Backed(TxApplied(s, tx, m), q)
<1>1. IssuedBy(q) \in Int
  BY IssuedType DEF Backed
<1> QED
  BY <1>1, AppliedConserved DEF Backed

\* The scheduled coinbase and the block's height go together.
LEMMA CoinbaseBacked ==
    ASSUME NEW s \in Ledgers, NEW b \in Blocks, verify_coinbase_rewards(b),
           NEW q \in Seq(Nat), Backed(s, q)
    PROVE  Backed(CoinbaseApplied(s, b), Append(q, b.height))
<1> DEFINE h == b.height
           t == CoinbaseApplied(s, b)
<1>1. h \in Nat /\ Reward(h) = b.coinbase.miner + b.coinbase.dev
  BY DEF Blocks, verify_coinbase_rewards, Reward
<1> HIDE DEF h
<1>2. IssuedBy(q) \in Int /\ IssuedBy(Append(q, h)) = IssuedBy(q) + Reward(h)
  BY <1>1, IssuedAppend
<1>3. Conserved(t, IssuedBy(q) + (b.coinbase.miner + b.coinbase.dev))
  BY <1>2, CoinbaseConserved DEF Backed
<1> HIDE DEF t
<1>4. Conserved(t, IssuedBy(Append(q, h)))
  BY <1>1, <1>2, <1>3
<1> QED
  BY <1>4 DEF Backed, t, h

\* Every step keeps the ledgers backed.
LEMMA SupplyStep == TypeOK /\ LoopInv /\ SupplyInv /\ [Next]_vars => SupplyInv'
<1> SUFFICES ASSUME TypeOK, LoopInv, SupplyInv, [Next]_vars PROVE SupplyInv'
  OBVIOUS
<1> USE DEF SupplyInv
<1>0. target \in {"live", "fresh"} /\ \A l \in {"live", "fresh"} : applied[l] \in Seq(Nat)
  BY DEF target, TypeOK
<1>1. ASSUME NEW tx \in Submitted, add_transaction(tx) PROVE SupplyInv'
  BY <1>1 DEF add_transaction, loop, target
<1>2. CASE drain_to_batch
  BY <1>2 DEF drain_to_batch
<1>3. CASE SelectStep
  BY <1>3 DEF SelectStep
<1>4. ASSUME NEW h \in Heights, BeginOwnBlock(h) PROVE SupplyInv'
  <2>1. ~replaying
    BY <1>4 DEF BeginOwnBlock, LoopInv
  <2> QED
    BY <1>4, <2>1 DEF BeginOwnBlock, target
<1>5. ASSUME NEW b \in PeerBlocks, BeginBlock(b) PROVE SupplyInv'
  BY <1>0, <1>5 DEF BeginBlock, target
<1>6. CASE ApplyStep
  <2>1. Head(todo) \in Txs /\ block.miner \in Addr /\ scratch \in Ledgers
    BY <1>6 DEF ApplyStep, TypeOK, Blocks
  <2>2. Payable(scratch, Head(todo)) /\ Backed(scratch, applied[target])
    BY <1>6 DEF ApplyStep, TxApplies
  <2>3. Backed(TxApplied(scratch, Head(todo), block.miner), applied[target])
    BY <1>0, <2>1, <2>2, AppliedBacked
  <2> QED
    BY <1>6, <2>3 DEF ApplyStep, target
<1>7. CASE ApplyError
  <2>1. /\ ledger'["live"] = ledger["live"] /\ ledger'["fresh"] = DefaultLedger
        /\ applied'["live"] = applied["live"] /\ applied'["fresh"] = <<>>
        /\ pc' = "idle"
    BY <1>7 DEF ApplyError, Idle, TypeOK
  <2> QED
    BY <2>1, DefaultBacked
<1>8. CASE Commit
  <2>1. Backed(CoinbaseApplied(scratch, block), Append(applied[target], block.height))
    BY <1>0, <1>8, CoinbaseBacked DEF Commit, TypeOK, LoopInv
  <2>2. /\ ledger'[target] = CoinbaseApplied(scratch, block)
        /\ applied'[target] = Append(applied[target], block.height)
        /\ \A l \in {"live", "fresh"} :
              l # target => ledger'[l] = ledger[l] /\ applied'[l] = applied[l]
        /\ pc' = "idle"
    BY <1>0, <1>8 DEF Commit, Idle, TypeOK
  <2> QED
    BY <1>0, <2>1, <2>2
<1>9. CASE BeginReplay
  BY <1>9 DEF BeginReplay, loop
<1>10. CASE EndReplay
  <2>1. /\ ledger'["live"] = ledger["fresh"] /\ ledger'["fresh"] = DefaultLedger
        /\ applied'["live"] = applied["fresh"] /\ applied'["fresh"] = <<>>
        /\ pc' = "idle"
    BY <1>10 DEF EndReplay, loop, TypeOK
  <2> QED
    BY <2>1, DefaultBacked
<1>11. CASE UNCHANGED vars
  BY <1>11 DEF vars, target
<1> QED
  BY <1>1, <1>2, <1>3, <1>4, <1>5, <1>6, <1>7, <1>8, <1>9, <1>10, <1>11 DEF Next

\* SupplyInv holds throughout.
LEMMA SupplyInvariant == Spec => []SupplyInv
<1>1. Init => SupplyInv
  BY DefaultBacked DEF Init, SupplyInv
<1> QED
  BY <1>1, SupplyStep, TypeCorrect, LoopInvariant, PTL DEF Spec

\* No transaction, block, abandoned block or replay creates or destroys money:
\* the balances of every ledger add up to the scheduled rewards of its blocks
\* less the burned halves of the fees of its transactions.
THEOREM SupplyIsConserved == Spec => []SupplyConserved
<1>1. SupplyInv => SupplyConserved
  BY IssuedIs DEF SupplyInv, Backed, Conserved, SupplyConserved
<1> QED
  BY <1>1, SupplyInvariant, PTL

-----------------------------------------------------------------------------
(* Selection and application agree. *)

\* A scratch ledger t of select_affordable differs from the ledger c of the
\* accepted candidates alone by the ids of failed ones at most.
Covers(t, c) ==
    /\ t.balances = c.balances
    /\ t.next_nonces = c.next_nonces
    /\ c.confirmed \subseteq t.confirmed

\* While what was issued fits a u64: the accepted candidates apply, one after
\* the other, to the clean ledger, and so does the rest of an own block.
SelectInv ==
    IssuedBy(applied["live"]) <= MAX_U64 =>
        /\ pc = "select" =>
              /\ SumFunction(scratch.balances) <= IssuedBy(applied["live"])
              /\ ApplyTxs(ledger["live"], chosen, Miner).ok
              /\ Covers(scratch, ApplyTxs(ledger["live"], chosen, Miner).ledger)
        /\ own => ApplyTxs(scratch, todo, block.miner).ok

\* A ledger is worth no more than what was issued.
LEMMA BackedBound ==
    ASSUME NEW s \in Ledgers, NEW q \in Seq(Nat), Backed(s, q)
    PROVE  SumFunction(s.balances) <= IssuedBy(q) /\ IssuedBy(q) \in Int
           /\ SumFunction(s.balances) \in Int
<1> DEFINE n == Cardinality(s.confirmed)
<1>1. IssuedBy(q) \in Int
  BY IssuedType DEF Backed
<1>2. n \in Nat /\ SumFunction(s.balances) = IssuedBy(q) - burn_share * n
  BY FS_CardinalityType DEF Backed, Conserved
<1> HIDE DEF n
<1>3. burn_share * n \in Nat
  BY <1>2, FeeSum
<1> QED
  BY <1>1, <1>2, <1>3

\* A balance is at most the sum of the balances.
LEMMA BalanceBound ==
    ASSUME NEW b \in [Addr -> 0..MAX_U64], NEW a \in Addr
    PROVE  b[a] <= SumFunction(b) /\ SumFunction(b) \in Int /\ b[a] \in Nat
<1>1. b \in [Addr -> Nat] /\ b \in [Addr -> Int]
  BY EconomyAssumption
<1> QED
  BY <1>1, SumBounds, SumType, AddrAssumption

\* No credit of a payable transaction overflows a u64 that holds the sum of
\* all balances.
LEMMA NoOverflow ==
    ASSUME NEW s \in Ledgers, NEW tx \in Txs, NEW m \in Addr, Payable(s, tx),
           SumFunction(s.balances) <= MAX_U64
    PROVE  TxApplies(s, tx, m)
<1> DEFINE b == s.balances
           total == SumFunction(b)
           Bal == [Addr -> 0..MAX_U64]
<1>1. b \in Bal /\ b \in [Addr -> Int]
  BY EconomyAssumption DEF Ledgers
<1>2. /\ tx.recipient \in Addr /\ tx.amount \in Nat /\ DEV_TREASURY_ADDRESS \in Addr
      /\ TRANSACTION_FEE \in Nat /\ MAX_U64 \in Nat
  BY TxType, EconomyAssumption, AddrAssumption
<1>3. /\ fee_distribution.miner \in Nat /\ fee_distribution.dev \in Nat /\ burn_share \in Nat
      /\ fee_distribution.miner + fee_distribution.dev = TRANSACTION_FEE - burn_share
  BY FeeType, FeeSum
<1>4. /\ total \in Int
      /\ SumFunction(AfterDebit(b, tx)) = total - (tx.amount + TRANSACTION_FEE)
      /\ SumFunction(AfterRecipient(b, tx)) = total - TRANSACTION_FEE
      /\ SumFunction(AfterMinerFee(b, tx, m)) = total - TRANSACTION_FEE + fee_distribution.miner
  BY <1>1, TxSums
<1>5. AfterDebit(b, tx) \in Bal
  BY DebitType
<1> HIDE DEF total
<1>6. RecipientFits(s, tx)
  <2>1. /\ AfterDebit(b, tx)[tx.recipient] <= SumFunction(AfterDebit(b, tx))
        /\ AfterDebit(b, tx)[tx.recipient] \in Nat
    BY <1>2, <1>5, BalanceBound
  <2>2. AfterDebit(b, tx)[tx.recipient] + tx.amount <= MAX_U64
    BY <1>2, <1>4, <2>1 DEF total
  <2> QED
    BY <2>2 DEF RecipientFits, CanCredit
<1>7. AfterRecipient(b, tx) \in Bal
  BY <1>2, <1>5, <1>6, CreditType DEF RecipientFits, AfterRecipient
<1>8. MinerFeeFits(s, tx, m)
  <2>1. /\ AfterRecipient(b, tx)[m] <= SumFunction(AfterRecipient(b, tx))
        /\ AfterRecipient(b, tx)[m] \in Nat
    BY <1>7, BalanceBound
  <2>2. AfterRecipient(b, tx)[m] + fee_distribution.miner <= MAX_U64
    BY <1>2, <1>3, <1>4, <2>1 DEF total
  <2> QED
    BY <2>2 DEF MinerFeeFits, CanCredit
<1>9. AfterMinerFee(b, tx, m) \in Bal
  BY <1>3, <1>7, <1>8, CreditType DEF MinerFeeFits, AfterMinerFee
<1>10. DevFeeFits(s, tx, m)
  <2> DEFINE x == AfterMinerFee(b, tx, m)[DEV_TREASURY_ADDRESS]
  <2>1. x <= SumFunction(AfterMinerFee(b, tx, m)) /\ x \in Nat
    BY <1>2, <1>9, BalanceBound
  <2>2. x + fee_distribution.dev <= MAX_U64
    BY <1>2, <1>3, <1>4, <2>1 DEF total
  <2> QED
    BY <2>2 DEF DevFeeFits, CanCredit
<1> QED
  BY <1>6, <1>8, <1>10 DEF TxApplies

\* Nor does the coinbase.
LEMMA CoinbaseRoom ==
    ASSUME NEW s \in Ledgers, NEW b \in Blocks,
           SumFunction(s.balances) + b.coinbase.miner + b.coinbase.dev <= MAX_U64
    PROVE  CoinbaseFits(s, b)
<1> DEFINE total == SumFunction(s.balances)
           mid == AfterMinerReward(s.balances, b)
<1>1. /\ b.miner \in Addr /\ b.coinbase.miner \in Nat /\ b.coinbase.dev \in Nat
      /\ DEV_TREASURY_ADDRESS \in Addr /\ MAX_U64 \in Nat
  BY EconomyAssumption, AddrAssumption DEF Blocks
<1>2. s.balances \in [Addr -> 0..MAX_U64] /\ s.balances \in [Addr -> Int]
  BY EconomyAssumption DEF Ledgers
<1>3. s.balances[b.miner] <= total /\ s.balances[b.miner] \in Nat /\ total \in Int
  BY <1>1, <1>2, BalanceBound
<1>4. CanCredit(s.balances, b.miner, b.coinbase.miner)
  BY <1>1, <1>3 DEF CanCredit
<1>5. mid \in [Addr -> 0..MAX_U64]
  BY <1>1, <1>2, <1>4, CreditType DEF AfterMinerReward
<1>6. SumFunction(mid) = total + b.coinbase.miner
  <2>1. \A x \in Int : SumFunction(Credit(s.balances, b.miner, x)) = total + x
    BY <1>1, <1>2, CreditSum
  <2> QED
    BY <1>1, <2>1 DEF AfterMinerReward
<1> HIDE DEF mid
<1>7. mid[DEV_TREASURY_ADDRESS] <= SumFunction(mid) /\ mid[DEV_TREASURY_ADDRESS] \in Nat
  BY <1>1, <1>5, BalanceBound
<1> HIDE DEF total
<1>8. CanCredit(mid, DEV_TREASURY_ADDRESS, b.coinbase.dev)
  BY <1>1, <1>3, <1>6, <1>7 DEF CanCredit, total
<1> QED
  BY <1>4, <1>8 DEF CoinbaseFits, mid

\* What applies to a scratch ledger applies to the ledger it covers.
LEMMA CoveredApplies ==
    ASSUME NEW t, NEW c, NEW tx, NEW m, Covers(t, c), TxApplies(t, tx, m)
    PROVE  TxApplies(c, tx, m) /\ Covers(TxApplied(t, tx, m), TxApplied(c, tx, m))
<1>1. Payable(c, tx)
  BY DEF Covers, TxApplies, Payable
<1>2. RecipientFits(c, tx) /\ MinerFeeFits(c, tx, m) /\ DevFeeFits(c, tx, m)
  BY DEF Covers, TxApplies, RecipientFits, MinerFeeFits, DevFeeFits
<1>3. Covers(TxApplied(t, tx, m), TxApplied(c, tx, m))
  BY DEF Covers, TxApplied
<1> QED
  BY <1>1, <1>2, <1>3 DEF TxApplies

\* One more transaction that applies.
LEMMA ApplyTxsLast ==
    ASSUME NEW s \in Ledgers, NEW txs \in Seq(Txs), NEW tx \in Txs, NEW m \in Addr,
           ApplyTxs(s, txs, m).ok, TxApplies(ApplyTxs(s, txs, m).ledger, tx, m)
    PROVE  /\ ApplyTxs(s, Append(txs, tx), m).ok
           /\ ApplyTxs(s, Append(txs, tx), m).ledger
                = TxApplied(ApplyTxs(s, txs, m).ledger, tx, m)
<1> DEFINE acc == [ok |-> TRUE, ledger |-> s]
           r == ApplyFrom(acc, txs, m)
<1>1. acc \in Results
  BY DEF Results
<1>2. ApplyFrom(acc, Append(txs, tx), m) = ApplyOne(ApplyFrom(acc, txs, m), tx, m)
  BY <1>1, ApplyLast
<1>3. /\ ApplyTxs(s, Append(txs, tx), m) = ApplyFrom(acc, Append(txs, tx), m)
      /\ ApplyTxs(s, txs, m) = ApplyFrom(acc, txs, m)
  BY DEF ApplyTxs, ApplyFrom
<1>4. r \in Results
  <2>1. PICK x : IsApplyRun(x, acc, txs, m)
    BY <1>1, ApplyRun
  <2> QED
    BY <2>1 DEF IsApplyRun
<1> HIDE DEF r
<1>5. r.ok /\ TxApplies(r.ledger, tx, m)
  BY <1>3 DEF r
<1>6. ApplyOne(r, tx, m).ok /\ ApplyOne(r, tx, m).ledger = TxApplied(r.ledger, tx, m)
  BY <1>4, <1>5 DEF ApplyOne, Results
<1> QED
  BY <1>2, <1>3, <1>6 DEF r

\* Every step preserves the agreement of selection and application.
LEMMA SelectionStep ==
    TypeOK /\ LoopInv /\ SupplyInv /\ SelectInv /\ [Next]_vars => SelectInv'
<1> SUFFICES ASSUME TypeOK, LoopInv, SupplyInv, SelectInv, [Next]_vars PROVE SelectInv'
  OBVIOUS
<1>0. /\ applied["live"] \in Seq(Nat) /\ ledger["live"] \in Ledgers
      /\ Miner \in Addr /\ MAX_U64 \in Nat
  BY LedgerAssumption, EconomyAssumption DEF TypeOK
<1>1. ASSUME NEW tx \in Submitted, add_transaction(tx) PROVE SelectInv'
  BY <1>1 DEF add_transaction, loop, SelectInv
<1>2. CASE drain_to_batch
  <2>1. /\ scratch' = ledger["live"] /\ ledger' = ledger /\ applied' = applied
        /\ chosen' = <<>> /\ ~own'
    BY <1>2 DEF drain_to_batch, LoopInv
  <2>2. SumFunction(ledger["live"].balances) <= IssuedBy(applied["live"])
    BY <1>0, BackedBound DEF SupplyInv
  <2>3. ApplyTxs(ledger["live"], <<>>, Miner) = [ok |-> TRUE, ledger |-> ledger["live"]]
    BY <1>0, ApplyTxsNone
  <2>4. Covers(ledger["live"], ledger["live"])
    BY DEF Covers
  <2> QED
    BY <2>1, <2>2, <2>3, <2>4 DEF SelectInv
<1>3. CASE SelectStep
  <2> DEFINE tx == Head(todo)
             r == ApplyTxs(ledger["live"], chosen, Miner)
  <2>1. /\ pc = "select" /\ tx \in Txs /\ chosen \in Seq(Txs) /\ scratch \in Ledgers
        /\ ledger' = ledger /\ applied' = applied /\ own' = own /\ ~own
    BY <1>3 DEF SelectStep, TypeOK, LoopInv
  <2> SUFFICES ASSUME IssuedBy(applied["live"]) <= MAX_U64
               PROVE  /\ SumFunction(scratch'.balances) <= IssuedBy(applied["live"])
                      /\ ApplyTxs(ledger["live"], chosen', Miner).ok
                      /\ Covers(scratch', ApplyTxs(ledger["live"], chosen', Miner).ledger)
    BY <2>1 DEF SelectInv
  <2>2. /\ SumFunction(scratch.balances) <= IssuedBy(applied["live"])
        /\ r.ok /\ Covers(scratch, r.ledger)
    BY <2>1 DEF SelectInv
  <2>3. IssuedBy(applied["live"]) \in Int
    BY <1>0, BackedBound DEF SupplyInv
  <2>4. /\ SumFunction(scratch.balances) \in Int
        /\ SumFunction(AfterDevFee(scratch.balances, tx, Miner))
             = SumFunction(scratch.balances) - burn_share
    <3>1. scratch.balances \in [Addr -> Int]
      BY <2>1, EconomyAssumption DEF Ledgers
    <3> QED
      BY <1>0, <2>1, <3>1, TxSums
  <2>5. SumFunction(scratch.balances) <= MAX_U64
    BY <1>0, <2>2, <2>3, <2>4
  <2>6. CASE TxApplies(scratch, tx, Miner)
    <3>1. scratch' = TxApplied(scratch, tx, Miner) /\ chosen' = Append(chosen, tx)
      BY <1>3, <2>6 DEF SelectStep
    <3>2. TxApplies(r.ledger, tx, Miner) /\ Covers(scratch', TxApplied(r.ledger, tx, Miner))
      BY <2>2, <2>6, <3>1, CoveredApplies
    <3>3. /\ ApplyTxs(ledger["live"], chosen', Miner).ok
          /\ ApplyTxs(ledger["live"], chosen', Miner).ledger = TxApplied(r.ledger, tx, Miner)
      BY <1>0, <2>1, <2>2, <3>1, <3>2, ApplyTxsLast
    <3>4. scratch'.balances = AfterDevFee(scratch.balances, tx, Miner)
      BY <3>1 DEF TxApplied
    <3>5. SumFunction(scratch'.balances) <= IssuedBy(applied["live"])
      BY <2>2, <2>3, <2>4, <3>4, FeeSum
    <3> QED
      BY <3>2, <3>3, <3>5
  <2>7. CASE ~TxApplies(scratch, tx, Miner)
    <3>1. scratch' = TxFailed(scratch, tx, Miner) /\ chosen' = chosen
      BY <1>3, <2>7 DEF SelectStep
    <3>2. ~Payable(scratch, tx)
      BY <1>0, <2>1, <2>5, <2>7, NoOverflow
    <3>3. /\ scratch'.balances = scratch.balances
          /\ scratch'.next_nonces = scratch.next_nonces
          /\ scratch.confirmed \subseteq scratch'.confirmed
      BY <2>1, <3>1, <3>2 DEF TxFailed, Ledgers
    <3>4. Covers(scratch', r.ledger)
      BY <2>2, <3>3 DEF Covers
    <3> QED
      BY <2>2, <3>1, <3>3, <3>4
  <2> QED
    BY <2>6, <2>7
<1>4. ASSUME NEW h \in Heights, BeginOwnBlock(h) PROVE SelectInv'
  <2>1. /\ pc = "select" /\ pc' = "apply" /\ todo' = chosen /\ scratch' = ledger["live"]
        /\ applied' = applied /\ block'.miner = Miner
    BY <1>4 DEF BeginOwnBlock
  <2> QED
    BY <2>1 DEF SelectInv
<1>5. ASSUME NEW b \in PeerBlocks, BeginBlock(b) PROVE SelectInv'
  BY <1>5 DEF BeginBlock, SelectInv, LoopInv
<1>6. CASE ApplyStep
  <2>1. /\ pc = "apply" /\ pc' = "apply" /\ todo \in Seq(Txs) /\ todo # <<>>
        /\ scratch \in Ledgers /\ block.miner \in Addr /\ block' = block
        /\ TxApplies(scratch, Head(todo), block.miner) /\ own' = own /\ applied' = applied
    BY <1>6 DEF ApplyStep, TypeOK, Blocks
  <2>2. ApplyTxs(scratch, todo, block.miner) = ApplyTxs(scratch', todo', block.miner)
    BY <1>6, <2>1, ApplyTxsNext DEF ApplyStep
  <2> QED
    BY <2>1, <2>2 DEF SelectInv
<1>7. CASE ApplyError
  BY <1>7 DEF ApplyError, Idle, SelectInv
<1>8. CASE Commit
  BY <1>8 DEF Commit, Idle, SelectInv
<1>9. CASE BeginReplay
  BY <1>9 DEF BeginReplay, loop, SelectInv
<1>10. CASE EndReplay
  BY <1>10 DEF EndReplay, loop, SelectInv, LoopInv
<1>11. CASE UNCHANGED vars
  BY <1>11 DEF vars, SelectInv
<1> QED
  BY <1>1, <1>2, <1>3, <1>4, <1>5, <1>6, <1>7, <1>8, <1>9, <1>10, <1>11 DEF Next

\* SelectInv holds throughout.
LEMMA SelectionInvariant == Spec => []SelectInv
<1>1. Init => SelectInv
  BY DEF Init, SelectInv
<1> QED
  BY <1>1, SelectionStep, TypeCorrect, LoopInvariant, SupplyInvariant, PTL DEF Spec

\* While the coins ever issued fit a u64, apply_block refuses no block of
\* transactions that select_affordable accepted, whatever failed in between.
THEOREM SelectionIsSound == Spec => []SelectionSound
<1>1. TypeOK /\ LoopInv /\ SupplyInv /\ SelectInv => SelectionSound
  <2> SUFFICES ASSUME TypeOK, LoopInv, SupplyInv, SelectInv, own,
                      Issued("live") + block.coinbase.miner + block.coinbase.dev <= MAX_U64,
                      Fails
               PROVE  FALSE
    BY DEF SelectionSound
  <2>1. /\ pc = "apply" /\ block \in Blocks /\ scratch \in Ledgers /\ todo \in Seq(Txs)
        /\ block.miner \in Addr /\ block.coinbase.miner \in Nat /\ block.coinbase.dev \in Nat
        /\ applied["live"] \in Seq(Nat) /\ MAX_U64 \in Nat
    BY EconomyAssumption DEF Fails, TypeOK, Blocks
  <2>2. Backed(scratch, applied["live"])
    BY <2>1 DEF LoopInv, SupplyInv, target
  <2>3. /\ SumFunction(scratch.balances) <= IssuedBy(applied["live"])
        /\ IssuedBy(applied["live"]) \in Int /\ SumFunction(scratch.balances) \in Int
    BY <2>1, <2>2, BackedBound
  <2>4. IssuedBy(applied["live"]) + block.coinbase.miner + block.coinbase.dev <= MAX_U64
    BY IssuedIs
  <2>5. CASE todo # <<>>
    <3>1. IssuedBy(applied["live"]) <= MAX_U64
      BY <2>1, <2>3, <2>4
    <3>2. ApplyTxs(scratch, todo, block.miner).ok
      BY <3>1 DEF SelectInv
    <3> QED
      BY <2>1, <2>5, <3>2, ApplyTxsFails DEF Fails
  <2>6. CASE todo = <<>>
    <3>1. SumFunction(scratch.balances) + block.coinbase.miner + block.coinbase.dev <= MAX_U64
      BY <2>1, <2>3, <2>4
    <3>2. CoinbaseFits(scratch, block)
      BY <2>1, <3>1, CoinbaseRoom
    <3> QED
      BY <2>6, <3>2 DEF Fails
  <2> QED
    BY <2>5, <2>6
<1> QED
  BY <1>1, TypeCorrect, LoopInvariant, SupplyInvariant, SelectionInvariant, PTL
=============================================================================
