-------------------------------- MODULE Rpc --------------------------------
(***************************************************************************)
(* The JSON-RPC server of a node (rpc.rs): the accept loop with its two    *)
(* connection limits, a task per connection with its rate limiter, and the *)
(* requests, which share mempool and ledger with the event loop of main.rs.*)
(*                                                                         *)
(* One action is what runs between two awaits.  The accept loop may be     *)
(* suspended between taking a permit and counting the address; a task      *)
(* between counting down and giving its permit back, between reading a     *)
(* line and locking, and between the two locks of transaction_status.      *)
(* A connection that was closed may be opened again under the same name.   *)
(***************************************************************************)
EXTENDS Integers, Sequences, FiniteSets, SequencesExt

CONSTANTS
    Conns,          \* connections
    Ips, IpOf,      \* the address each one comes from
    MAX_CONCURRENT_RPC_CONNECTIONS,
    MAX_CONNECTIONS_PER_IP,
    MAX_REQUESTS_PER_SECOND_PER_CONNECTION,
    SECOND,         \* ticks of the clock in the limiter's window
    Txs,            \* well-formed, correctly signed transactions
    Lines,          \* what clients send
    HasToken,       \* VDAG_RPC_TOKEN is set
    MaxTime,        \* bound on the clock
    MaxLines        \* bound on the requests of each connection that pass

NoLine == [kind |-> "none"]
Done == [kind |-> "done"]   \* a line that is only to be answered yet

\* A line is too long, not JSON, or a call; a call has a token that is right
\* or not, and names a method: of these, "submit" is submit_transaction with
\* parameters that build_transaction accepts, "status" transaction_status and
\* "refused" any call that fails on its parameters or its method's name.
Calls == [kind : {"call"}, method : {"version", "mempool_size", "get_balance", "refused"},
          token : BOOLEAN]
TxCalls == [kind : {"call"}, method : {"submit", "status"}, tx : Txs, token : BOOLEAN]

ASSUME RpcAssumption ==
    /\ IsFiniteSet(Conns) /\ IpOf \in [Conns -> Ips]
    /\ MAX_CONCURRENT_RPC_CONNECTIONS \in Nat
    /\ MAX_CONNECTIONS_PER_IP \in Nat \ {0}
    /\ MAX_REQUESTS_PER_SECOND_PER_CONNECTION \in Nat \ {0}
    /\ SECOND \in Nat \ {0}
    /\ Lines \subseteq Calls \cup TxCalls \cup [kind : {"oversized", "garbled"}]
    /\ HasToken \in BOOLEAN
    /\ MaxTime \in Nat /\ MaxLines \in [Conns -> Nat]

VARIABLES
    phase,      \* per connection: "closed", "accepted" (it has a permit),
                \* "open", "ended" (handle_connection has returned) or
                \* "uncounted" (its address is counted down)
    permits,    \* connection_limiter: permits left
    per_ip,     \* per_ip_connections; an absent address counts 0
    serving,    \* serve's accept loop is running
    limiter,    \* per connection: its RateLimiter
    line,       \* per connection: the line in hand
    step,       \* ... and what is done with it: "dispatch", "pool" or "reply"
    reply,      \* ... and the answer to be written
    pool,       \* ids in the mempool
    batch,      \* ids the mining tick has drained
    confirmed,  \* ids the ledger has confirmed
    now,        \* the clock
    allowed,    \* history: when the limiter let requests of a connection pass
    seen        \* history: what was true of the transaction asked about, at
                \* some moment of the request

conns == <<phase, permits, per_ip, serving>>
requests == <<limiter, line, step, reply, allowed>>
chain == <<pool, batch, confirmed>>
vars == <<conns, requests, chain, now, seen>>

NewLimiter(t) == [window_start |-> t, count |-> 0]

Init ==
    /\ now = 0
    /\ phase = [c \in Conns |-> "closed"]
    /\ permits = MAX_CONCURRENT_RPC_CONNECTIONS
    /\ per_ip = [i \in Ips |-> 0]
    /\ serving = TRUE
    /\ limiter = [c \in Conns |-> NewLimiter(0)]
    /\ line = [c \in Conns |-> NoLine]
    /\ step = [c \in Conns |-> "reply"]
    /\ reply = [c \in Conns |-> "none"]
    /\ pool = {} /\ batch = {} /\ confirmed = {}
    /\ allowed = [c \in Conns |-> <<>>]
    /\ seen = [c \in Conns |-> {}]

\* Whether a transaction is pending and whether it is confirmed, after a step.
View(tx) == [pending |-> tx \in pool', confirmed |-> tx \in confirmed']
IsStatus(l) == l.kind = "call" /\ l.method = "status"

\* Conjoined to every action: a status request sees what each step leaves.
Watch == seen' = [c \in Conns |->
                     IF ~IsStatus(line'[c]) THEN {}
                     ELSE (IF line[c] = line'[c] THEN seen[c] ELSE {})
                          \cup {View(line'[c].tx)}]

-----------------------------------------------------------------------------
(* serve: one connection after the other. *)

Accepting == \E c \in Conns : phase[c] = "accepted"

\* try_acquire_owned; without a permit the connection is dropped.
Accept(c) ==
    /\ serving /\ phase[c] = "closed" /\ ~Accepting
    /\ permits > 0
    /\ permits' = permits - 1
    /\ phase' = [phase EXCEPT ![c] = "accepted"]
    /\ UNCHANGED <<per_ip, serving, requests, chain, now>> /\ Watch

\* accept() fails: serve returns, and no connection is taken until the node is
\* started again.  The tasks that are there go on.
AcceptFails ==
    /\ serving /\ ~Accepting
    /\ serving' = FALSE
    /\ UNCHANGED <<phase, permits, per_ip, requests, chain, now>> /\ Watch

\* Mutant: one connection too many of an address.
CountIp_offByOne(c) ==
    /\ phase[c] = "accepted"
    /\ IF per_ip[IpOf[c]] > MAX_CONNECTIONS_PER_IP
       THEN /\ phase' = [phase EXCEPT ![c] = "closed"]
            /\ permits' = permits + 1
            /\ UNCHANGED <<per_ip, requests>>
       ELSE /\ phase' = [phase EXCEPT ![c] = "open"]
            /\ per_ip' = [per_ip EXCEPT ![IpOf[c]] = @ + 1]
            /\ limiter' = [limiter EXCEPT ![c] = NewLimiter(now)]
            /\ UNCHANGED <<permits, line, step, reply, allowed>>
    /\ UNCHANGED <<serving, chain, now>> /\ Watch

\* Mutant: the permit of a refused connection is not given back.
CountIp_permitKept(c) ==
    /\ phase[c] = "accepted"
    /\ IF per_ip[IpOf[c]] >= MAX_CONNECTIONS_PER_IP
       THEN /\ phase' = [phase EXCEPT ![c] = "closed"]
            /\ UNCHANGED <<permits, per_ip, requests>>
       ELSE /\ phase' = [phase EXCEPT ![c] = "open"]
            /\ per_ip' = [per_ip EXCEPT ![IpOf[c]] = @ + 1]
            /\ limiter' = [limiter EXCEPT ![c] = NewLimiter(now)]
            /\ UNCHANGED <<permits, line, step, reply, allowed>>
    /\ UNCHANGED <<serving, chain, now>> /\ Watch

\* The address is counted and the task spawned, or the permit dropped.
CountIp(c) ==
    /\ phase[c] = "accepted"
    /\ IF per_ip[IpOf[c]] >= MAX_CONNECTIONS_PER_IP
       THEN /\ phase' = [phase EXCEPT ![c] = "closed"]
            /\ permits' = permits + 1
            /\ UNCHANGED <<per_ip, requests>>
       ELSE /\ phase' = [phase EXCEPT ![c] = "open"]
            /\ per_ip' = [per_ip EXCEPT ![IpOf[c]] = @ + 1]
            /\ limiter' = [limiter EXCEPT ![c] = NewLimiter(now)]
            /\ UNCHANGED <<permits, line, step, reply, allowed>>
    /\ UNCHANGED <<serving, chain, now>> /\ Watch

\* handle_connection has returned, with or without an error: the address is
\* counted down, and then the permit goes with the task.
Uncount(c) ==
    /\ phase[c] = "ended"
    /\ phase' = [phase EXCEPT ![c] = "uncounted"]
    /\ per_ip' = [per_ip EXCEPT ![IpOf[c]] = IF @ = 0 THEN 0 ELSE @ - 1]
    /\ UNCHANGED <<permits, serving, requests, chain, now>> /\ Watch

Release(c) ==
    /\ phase[c] = "uncounted"
    /\ phase' = [phase EXCEPT ![c] = "closed"]
    /\ permits' = permits + 1
    /\ UNCHANGED <<per_ip, serving, requests, chain, now>> /\ Watch

-----------------------------------------------------------------------------
(* handle_connection: one line after the other. *)

\* RateLimiter::check: the limiter afterwards, and the verdict.  A refused
\* request counts as well.
Counted(lim) == IF now - lim.window_start >= SECOND
                THEN [window_start |-> now, count |-> 1]
                ELSE [lim EXCEPT !.count = @ + 1]

\* Mutant: compared before it is counted.
Passes_beforeCounting(lim) ==
    Counted(lim).count - 1 <= MAX_REQUESTS_PER_SECOND_PER_CONNECTION
Passes(lim) == Counted(lim).count <= MAX_REQUESTS_PER_SECOND_PER_CONNECTION

\* The token is asked for by every method but version.
Authorized(l) == l.method = "version" \/ ~HasToken \/ l.token

Answer(c, a) ==
    /\ step' = [step EXCEPT ![c] = "reply"]
    /\ reply' = [reply EXCEPT ![c] = a]

\* A line that is too long is not counted by the limiter; one that is not a
\* request, or not authorized, is answered without a lock.  Bounds: MaxLines
\* requests pass, and one line of each window is refused.
ReadLine(c, l) ==
    /\ phase[c] = "open" /\ line[c] = NoLine
    /\ Len(allowed[c]) < MaxLines[c]
    /\ Counted(limiter[c]).count <= MAX_REQUESTS_PER_SECOND_PER_CONNECTION + 1
    /\ IF l.kind = "oversized" THEN UNCHANGED <<limiter, allowed>>
       ELSE /\ limiter' = [limiter EXCEPT ![c] = Counted(@)]
            /\ allowed' = IF Passes(limiter[c]) THEN [allowed EXCEPT ![c] = Append(@, now)]
                                                ELSE allowed
    /\ IF l.kind = "call" /\ Passes(limiter[c]) /\ Authorized(l)
       THEN /\ line' = [line EXCEPT ![c] = l]
            /\ step' = [step EXCEPT ![c] = "dispatch"]
            /\ UNCHANGED reply
       ELSE /\ line' = [line EXCEPT ![c] = Done]
            /\ Answer(c, "error")
    /\ UNCHANGED <<conns, chain, now>> /\ Watch

\* dispatch, up to its first lock and with what it does under it.
DispatchSubmit(c) ==
    /\ line[c].method = "submit"
    /\ Answer(c, IF line[c].tx \in pool THEN "error" ELSE "result")
    /\ line' = [line EXCEPT ![c] = Done]
    /\ pool' = pool \cup {line[c].tx}

DispatchStatus(c) ==
    /\ line[c].method = "status"
    /\ IF line[c].tx \in confirmed THEN Answer(c, "confirmed")
       ELSE step' = [step EXCEPT ![c] = "pool"] /\ UNCHANGED reply
    /\ UNCHANGED <<line, pool>>

\* Mutant: a call that is refused is never answered.
DispatchOther_silent(c) ==
    /\ line[c].method \notin {"submit", "status", "refused"}
    /\ Answer(c, "result")
    /\ line' = [line EXCEPT ![c] = Done]
    /\ UNCHANGED pool

DispatchOther(c) ==
    /\ line[c].method \notin {"submit", "status"}
    /\ Answer(c, IF line[c].method = "refused" THEN "error" ELSE "result")
    /\ line' = [line EXCEPT ![c] = Done]
    /\ UNCHANGED pool

Dispatch(c) ==
    /\ line[c] # NoLine /\ step[c] = "dispatch"
    /\ DispatchSubmit(c) \/ DispatchStatus(c) \/ DispatchOther(c)
    /\ UNCHANGED <<conns, limiter, allowed, batch, confirmed, now>> /\ Watch

\* Mutant: the mempool is not asked.
StatusInPool_ledgerOnly(c) ==
    /\ line[c] # NoLine /\ step[c] = "pool"
    /\ Answer(c, "unknown")
    /\ UNCHANGED <<conns, limiter, line, allowed, chain, now>> /\ Watch

\* transaction_status looks in the mempool after it has released the ledger.
StatusInPool(c) ==
    /\ line[c] # NoLine /\ step[c] = "pool"
    /\ Answer(c, IF line[c].tx \in pool THEN "pending" ELSE "unknown")
    /\ UNCHANGED <<conns, limiter, line, allowed, chain, now>> /\ Watch

\* handle_connection returns and its limiter is gone.
Return(c) ==
    /\ phase' = [phase EXCEPT ![c] = "ended"]
    /\ limiter' = [limiter EXCEPT ![c] = NewLimiter(0)]
    /\ allowed' = [allowed EXCEPT ![c] = <<>>]

\* The answer is written, or the write fails and the connection ends.  Nothing
\* limits how long a client may keep it from being written by not reading.
WriteReply(c) ==
    /\ line[c] # NoLine /\ step[c] = "reply"
    /\ line' = [line EXCEPT ![c] = NoLine]
    /\ reply' = [reply EXCEPT ![c] = "none"]
    /\ Return(c) \/ UNCHANGED <<phase, limiter, allowed>>
    /\ UNCHANGED <<permits, per_ip, serving, step, chain, now>> /\ Watch

\* The stream ends: the client closes, or FramedRead stops after an error.
StreamEnds(c) ==
    /\ phase[c] = "open" /\ line[c] = NoLine
    /\ Return(c)
    /\ UNCHANGED <<permits, per_ip, serving, line, step, reply, chain, now>> /\ Watch

-----------------------------------------------------------------------------
(* The event loop, as far as requests can see it; Ledger has the details.  *)

\* The mining tick takes a batch out of the mempool, and later confirms what
\* it could of it and drops the rest.
Drain ==
    /\ batch = {} /\ pool # {}
    /\ batch' \in (SUBSET pool) \ {{}}
    /\ pool' = pool \ batch'
    /\ UNCHANGED <<conns, requests, confirmed, now>> /\ Watch

ConfirmBatch ==
    /\ batch # {}
    /\ \E taken \in SUBSET batch : confirmed' = confirmed \cup taken
    /\ batch' = {}
    /\ UNCHANGED <<conns, requests, pool, now>> /\ Watch

\* A block of a peer confirms transactions that stay in the mempool, or moves
\* the canonical chain so that confirmed ones are confirmed no longer.
PeerBlock ==
    /\ batch = {}
    /\ \E after \in SUBSET Txs : after # confirmed /\ confirmed' = after
    /\ UNCHANGED <<conns, requests, pool, batch, now>> /\ Watch

Tick ==
    /\ now < MaxTime
    /\ now' = now + 1
    /\ UNCHANGED <<conns, requests, chain>> /\ Watch

-----------------------------------------------------------------------------

Serve(c) == Accept(c) \/ CountIp(c)
Task(c) == Dispatch(c) \/ StatusInPool(c) \/ Uncount(c) \/ Release(c)
Client(c) == WriteReply(c) \/ StreamEnds(c) \/ \E l \in Lines : ReadLine(c, l)

Next ==
    \/ \E c \in Conns : Serve(c) \/ Task(c) \/ Client(c)
    \/ AcceptFails
    \/ Drain \/ ConfirmBatch \/ PeerBlock
    \/ Tick

\* tokio runs the accept loop past a connection it has taken, and every task
\* that can go on without its client; clients and the network promise nothing:
\* not that they send, nor that they read what is written to them.
Fairness == \A c \in Conns : WF_vars(CountIp(c) \/ Task(c))

Spec == Init /\ [][Next]_vars /\ Fairness

-----------------------------------------------------------------------------
(* Properties. *)

TypeOK ==
    /\ phase \in [Conns -> {"closed", "accepted", "open", "ended", "uncounted"}]
    /\ permits \in 0..MAX_CONCURRENT_RPC_CONNECTIONS
    /\ per_ip \in [Ips -> 0..MAX_CONNECTIONS_PER_IP]
    /\ serving \in BOOLEAN
    /\ limiter \in [Conns -> [window_start : Nat, count : Nat]]
    /\ line \in [Conns -> Lines \cup {NoLine, Done}]
    /\ step \in [Conns -> {"dispatch", "pool", "reply"}]
    /\ reply \in [Conns -> {"none", "error", "result", "confirmed", "pending", "unknown"}]
    /\ pool \subseteq Txs /\ batch \subseteq Txs /\ confirmed \subseteq Txs

Holding(c) == phase[c] # "closed"
Counting(c) == phase[c] \in {"open", "ended"}

\* No slot leaks and none is given twice: the permits left and the connections
\* that hold one add up to the limit, and each address is counted for exactly
\* the tasks that will count it down, whatever the accept loop and ending tasks
\* do between each other's steps.  (A leak would refuse clients for ever.)
SlotsAccounted ==
    /\ permits + Cardinality({c \in Conns : Holding(c)}) = MAX_CONCURRENT_RPC_CONNECTIONS
    /\ \A i \in Ips : per_ip[i] = Cardinality({c \in Conns : Counting(c) /\ IpOf[c] = i})

\* The fixed window lets no more than twice the limit pass within any second
\* (the limit itself holds only within the limiter's own windows).
RateBounded ==
    \A c \in Conns : \A i \in DOMAIN allowed[c] :
        LET within == {j \in i..Len(allowed[c]) : allowed[c][j] - allowed[c][i] < SECOND}
        IN  Cardinality(within) <= 2 * MAX_REQUESTS_PER_SECOND_PER_CONNECTION

\* The answer at a moment.
Status(v) == IF v.confirmed THEN "confirmed"
             ELSE IF v.pending THEN "pending" ELSE "unknown"

\* What transaction_status answers was true at some moment between reading the
\* request and answering it, unless the transaction was confirmed or lost its
\* confirmation meanwhile.  In that case each half of the answer was true, but
\* maybe not at one moment: ledger and mempool are looked at in turn, and
\* "unknown" may be said of a transaction that was always one or the other (a
\* peer's block confirms it after the first look, the tick drains it before
\* the second).
StatusTruthful ==
    \A c \in Conns : IsStatus(line[c]) /\ reply[c] # "none" =>
        \/ \E v \in seen[c] : reply[c] = Status(v)
        \/ /\ \E v, w \in seen[c] : v.confirmed # w.confirmed
           /\ reply[c] \in {"pending", "unknown"}
           /\ \E v \in seen[c] : v.pending <=> reply[c] = "pending"

\* Every request that is read gets as far as its answer being written, every
\* connection that is accepted is counted or refused, and every one that has
\* ended gives its slots back: no task waits for ever on a lock or a slot that
\* another one keeps.  (What a client can hold up is the writing: one that does
\* not read keeps its task, its permit and its address's slot as long as it
\* likes.)
Busy(c) ==
    \/ line[c] # NoLine /\ step[c] # "reply"
    \/ phase[c] \in {"accepted", "ended", "uncounted"}
RequestsAnswered == \A c \in Conns : Busy(c) ~> ~Busy(c)
=============================================================================
