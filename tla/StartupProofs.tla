---------------------------- MODULE StartupProofs ----------------------------
(***************************************************************************)
(* The invariants of Startup for any tools, wallets, passwords, commands   *)
(* and bootstrap files.                                                    *)
(***************************************************************************)
EXTENDS Startup, FiniteSetTheorems, TLAPS

Procs == Tools \cup {Node}
PCs == {"identity", "load", "check", "open", "fill", "reload", "dial", "mining",
        "done", "failed", "killed"}
Cmds == {"node", "create", "view", "backup", "restore"}
IdentityFiles(n) == {Absent, Torn} \cup {Plain(k) : k \in 1..n}
Started(n) == [pc : PCs, cmd : Cmds, src : Wallets, dst : Paths,
               password : Passwords \cup {Unset}, data : Files(n), saw : Files(n)]

Types ==
    /\ keys \in Nat /\ starts \in Nat
    /\ disk \in [Paths -> Files(keys)]
    /\ disk[IDENTITY_KEY_PATH] \in IdentityFiles(keys)
    /\ proc \in [Procs -> {NotStarted} \cup Started(keys)]
    /\ announced \subseteq 1..keys /\ earned \subseteq 1..keys

\* Who runs what: only the node writes the identity, and it writes the identity
\* before it dials and its wallet after that.
RoleAt(p) ==
    /\ p = Node <=> proc[p].cmd = "node"
    /\ p = Node => proc[p].src = MINER_WALLET_PATH
                   /\ proc[p].dst \in {IDENTITY_KEY_PATH, MINER_WALLET_PATH}
    /\ p # Node => proc[p].dst \in Wallets
    /\ proc[p].pc \in {"identity", "dial"} => p = Node /\ proc[p].dst = IDENTITY_KEY_PATH
    /\ proc[p].pc = "mining" => p = Node
    /\ p = Node /\ proc[p].pc \in {"load", "check", "mining"}
          => proc[p].dst = MINER_WALLET_PATH

\* A process that writes has found nothing there, or is the node replacing an
\* identity it could not read; unless it copies it holds the keys it writes.
WriterAt(p) ==
    proc[p].pc \in {"open", "fill"} =>
        /\ proc[p].dst # IDENTITY_KEY_PATH => proc[p].saw = Absent
        /\ proc[p].dst = IDENTITY_KEY_PATH =>
              proc[p].data.kind = "plain" /\ ~Complete(disk[IDENTITY_KEY_PATH])
        /\ proc[p].cmd \notin {"backup", "restore"} => Complete(proc[p].data)

\* The node dials with the identity in its file, and mines to the key in its
\* wallet unless that was written over.
InWallet(k) ==
    \/ MINER_WALLET_PATH \in overwritten
    \/ Complete(disk[MINER_WALLET_PATH]) /\ disk[MINER_WALLET_PATH].key = k
HolderAt(p) ==
    /\ proc[p].pc = "dial" => /\ proc[p].data.kind = "plain"
                              /\ disk[IDENTITY_KEY_PATH] = proc[p].data
    /\ proc[p].pc = "mining" => Complete(proc[p].data) /\ InWallet(proc[p].data.key)

\* A copying process holds what its source still holds, and so does its
\* destination once it is filled, as long as neither was written over.
Opens(f, pw) == f.kind = "plain" \/ (f.kind = "encrypted" /\ f.password = pw)
CopierAt(p) ==
    proc[p].cmd \in {"backup", "restore"} /\ proc[p].src \notin overwritten =>
        /\ proc[p].pc \in {"check", "open", "fill", "reload", "done"} =>
              Opens(proc[p].data, proc[p].password) /\ disk[proc[p].src] = proc[p].data
        /\ proc[p].pc \in {"open", "fill"} => proc[p].src # proc[p].dst
        /\ proc[p].pc \in {"reload", "done"} /\ proc[p].dst \notin overwritten =>
              disk[proc[p].dst] = proc[p].data

ProcAt(p) ==
    proc[p] # NotStarted => RoleAt(p) /\ WriterAt(p) /\ HolderAt(p) /\ CopierAt(p)
ProcInv == \A p \in Procs : ProcAt(p)

\* The identity the node has been seen with is the one in its file.
PeerIdKept == \A k \in announced : disk[IDENTITY_KEY_PATH] = Plain(k)

Inv == Types /\ ProcInv /\ PeerIdKept /\ RewardsDurable

-----------------------------------------------------------------------------
(* Files. *)

\* The kinds of files differ and hold what they were made from.
LEMMA FileKinds ==
    /\ Absent.kind = "absent" /\ Torn.kind = "torn" /\ Absent # Torn
    /\ \A k : Plain(k).kind = "plain" /\ Plain(k).key = k
    /\ \A k, pw : /\ Encrypted(k, pw).kind = "encrypted"
                  /\ Encrypted(k, pw).key = k /\ Encrypted(k, pw).password = pw
  BY DEF Absent, Torn, Plain, Encrypted

\* What a complete file holds is a key that was generated.
LEMMA FileHolds ==
    ASSUME NEW n \in Nat, NEW f \in Files(n)
    PROVE  /\ f.kind \in {"absent", "torn", "plain", "encrypted"}
           /\ f.kind = "absent" <=> f = Absent
           /\ f.kind = "plain" => f \in IdentityFiles(n) /\ f = Plain(f.key)
           /\ Complete(f) => f.key \in 1..n
           /\ ~Complete(Absent) /\ ~Complete(Torn)
  BY FileKinds DEF Files, IdentityFiles, Complete

\* Identities are files, and a file stays one when more keys are generated.
LEMMA FilesGrow ==
    ASSUME NEW n \in Nat
    PROVE  /\ IdentityFiles(n) \subseteq Files(n)
           /\ Files(n) \subseteq Files(n + 1)
           /\ IdentityFiles(n) \subseteq IdentityFiles(n + 1)
           /\ Plain(n + 1) \in IdentityFiles(n + 1)
           /\ \A pw \in Passwords : Encrypted(n + 1, pw) \in Files(n + 1)
           /\ Absent \in IdentityFiles(n) /\ Torn \in IdentityFiles(n)
  BY DEF Files, IdentityFiles

\* An identity is no encrypted wallet.
LEMMA IdentityKind ==
    ASSUME NEW n \in Nat, NEW f \in IdentityFiles(n)
    PROVE  f.kind # "encrypted" /\ (Complete(f) => f.kind = "plain")
  BY FileKinds DEF IdentityFiles, Complete

-----------------------------------------------------------------------------
(* Processes. *)

\* What a step of a process does to it: where it goes, the destination, the
\* keys it holds and what it saw; all else stays.
Became(p, pc, dst, data, saw) ==
    /\ \A q \in Procs : q # p => proc'[q] = proc[q]
    /\ proc' \in [Procs -> {NotStarted} \cup Started(keys')]
    /\ proc'[p] # NotStarted
    /\ proc'[p].pc = pc /\ proc'[p].dst = dst
    /\ proc'[p].data = data /\ proc'[p].saw = saw
    /\ proc'[p].cmd = proc[p].cmd /\ proc'[p].src = proc[p].src
    /\ proc'[p].password = proc[p].password

\* A process that was started is none that was not.
LEMMA StartedIsStarted ==
    ASSUME NEW n, NEW r \in Started(n)
    PROVE  r # NotStarted /\ r.pc \in PCs
  BY DEF Started, NotStarted, PCs

\* A process at any place but the first was started.
LEMMA AtStarted ==
    ASSUME Types, NEW p \in Procs, NEW x \in PCs, At(p, x)
    PROVE  proc[p] \in Started(keys) /\ proc[p] # NotStarted
<1>1. NotStarted.pc = "idle" /\ "idle" \notin PCs
  BY DEF NotStarted, PCs
<1> QED
  BY <1>1 DEF Types, At

\* Fields of a started process may be replaced.
LEMMA Replaced ==
    ASSUME NEW m \in Nat, NEW n \in Nat, m = n \/ n = m + 1, NEW r \in Started(m),
           NEW x \in PCs, NEW d \in Paths, NEW f \in Files(n), NEW s \in Files(n),
           NEW u, u = [pc |-> x, cmd |-> r.cmd, src |-> r.src, dst |-> d,
                       password |-> r.password, data |-> f, saw |-> s]
    PROVE  u \in Started(n)
  BY DEF Started

\* The steps of the program, each as a replacement of some fields.
LEMMA Moves ==
    ASSUME Types, keys' \in Nat, keys' = keys \/ keys' = keys + 1,
           NEW p \in Procs, proc[p] \in Started(keys),
           NEW x \in PCs, NEW d \in Paths, NEW f \in Files(keys'), NEW s \in Files(keys'),
           \/ /\ proc' = [proc EXCEPT ![p].pc = x]
              /\ d = proc[p].dst /\ f = proc[p].data /\ s = proc[p].saw
           \/ /\ proc' = [proc EXCEPT ![p].pc = x, ![p].saw = s]
              /\ d = proc[p].dst /\ f = proc[p].data
           \/ /\ proc' = [proc EXCEPT ![p].pc = x, ![p].data = f]
              /\ d = proc[p].dst /\ s = proc[p].saw
           \/ /\ proc' = [proc EXCEPT ![p].data = f, ![p].pc = x]
              /\ d = proc[p].dst /\ s = proc[p].saw
           \/ /\ proc' = [proc EXCEPT ![p].pc = x, ![p].dst = d]
              /\ f = proc[p].data /\ s = proc[p].saw
           \/ /\ proc' = [proc EXCEPT ![p].pc = x, ![p].data = f, ![p].saw = s]
              /\ d = proc[p].dst
    PROVE  Became(p, x, d, f, s)
<1> DEFINE u == [pc |-> x, cmd |-> proc[p].cmd, src |-> proc[p].src, dst |-> d,
                 password |-> proc[p].password, data |-> f, saw |-> s]
<1>1. u \in Started(keys')
  BY Replaced DEF Types
<1>2. proc' = [proc EXCEPT ![p] = u]
  BY DEF Types, Started
<1>3. Started(keys) \subseteq Started(keys')
  BY FilesGrow DEF Types, Started
<1>4. proc' \in [Procs -> {NotStarted} \cup Started(keys')]
  BY <1>1, <1>2, <1>3 DEF Types
<1>5. proc'[p] = u
  BY <1>2 DEF Types
<1> QED
  BY <1>1, <1>2, <1>4, <1>5, StartedIsStarted DEF Became, Types

-----------------------------------------------------------------------------
(* Writing and not writing. *)

\* A complete file that changes is marked as written over.
LEMMA WriteMarks ==
    ASSUME disk \in [Paths -> Files(keys)], NEW path \in Paths, NEW f,
           disk' = [disk EXCEPT ![path] = f], Overwrites(path)
    PROVE  /\ overwritten \subseteq overwritten'
           /\ \A a \in Paths : Complete(disk[a]) /\ a \notin overwritten' => disk'[a] = disk[a]
  BY DEF Overwrites

\* A process that does not move, while nothing is written, stays as it is.
LEMMA QuietOthers ==
    ASSUME ProcInv, NEW q \in Procs, proc'[q] = proc[q], UNCHANGED <<disk, overwritten>>
    PROVE  ProcAt(q)'
<1>1. ProcAt(q)
  BY DEF ProcInv
<1> QED
  BY <1>1 DEF ProcAt, RoleAt, WriterAt, HolderAt, CopierAt, InWallet

\* The keys in the node's wallet stay, or the wallet is marked.
LEMMA WalletKept ==
    ASSUME Types, NEW k, InWallet(k), NEW path \in Paths, NEW f,
           disk' = [disk EXCEPT ![path] = f], Overwrites(path)
    PROVE  InWallet(k)'
<1>1. MINER_WALLET_PATH \in Paths
  BY StartupAssumption DEF Paths
<1> QED
  BY <1>1, WriteMarks DEF InWallet, Types

\* A process that does not move is not disturbed by another one's writing.
LEMMA WrittenOthers ==
    ASSUME Types, ProcInv, NEW p \in Procs, NEW q \in Procs, p # q, proc'[q] = proc[q],
           proc[p] # NotStarted, proc[p].pc \in {"open", "fill"}, NEW f,
           disk' = [disk EXCEPT ![proc[p].dst] = f], Overwrites(proc[p].dst)
    PROVE  ProcAt(q)'
<1> SUFFICES ASSUME proc[q] # NotStarted
             PROVE  (RoleAt(q) /\ WriterAt(q) /\ HolderAt(q) /\ CopierAt(q))'
  BY DEF ProcAt
<1>1. RoleAt(q) /\ WriterAt(q) /\ HolderAt(q) /\ CopierAt(q) /\ RoleAt(p)
  BY DEF ProcInv, ProcAt
<1>2. proc[q] \in Started(keys) /\ proc[p] \in Started(keys) /\ proc[p].dst \in Paths
  BY DEF Types, Started
<1>3. RoleAt(q)'
  BY <1>1 DEF RoleAt
<1>4. q = Node => disk'[IDENTITY_KEY_PATH] = disk[IDENTITY_KEY_PATH]
  BY <1>1, <1>2, StartupAssumption DEF RoleAt, Types, Paths
<1>5. WriterAt(q)'
  <2>1. proc[q].dst = IDENTITY_KEY_PATH => q = Node
    BY <1>1, StartupAssumption DEF RoleAt
  <2> QED
    BY <1>1, <1>4, <2>1 DEF WriterAt
<1>6. HolderAt(q)'
  <2>1. proc[q].pc = "dial" => q = Node
    BY <1>1 DEF RoleAt
  <2>2. proc[q].pc = "mining" => InWallet(proc[q].data.key)'
    BY <1>1, <1>2, WalletKept DEF HolderAt
  <2> QED
    BY <1>1, <1>4, <2>1, <2>2 DEF HolderAt
<1>7. CopierAt(q)'
  <2> SUFFICES ASSUME proc[q].cmd \in {"backup", "restore"}, proc[q].src \notin overwritten',
                      proc[q].pc \in {"check", "open", "fill", "reload", "done"}
               PROVE  /\ Opens(proc[q].data, proc[q].password)
                      /\ disk'[proc[q].src] = proc[q].data
                      /\ proc[q].pc \in {"open", "fill"} => proc[q].src # proc[q].dst
                      /\ proc[q].pc \in {"reload", "done"} /\ proc[q].dst \notin overwritten' =>
                            disk'[proc[q].dst] = proc[q].data
    BY DEF CopierAt
  <2>1. proc[q].src \in Paths /\ proc[q].dst \in Paths
    BY <1>2 DEF Started, Paths
  <2>2. proc[q].src \notin overwritten /\ (proc[q].dst \notin overwritten' => proc[q].dst \notin overwritten)
    BY <1>2, WriteMarks DEF Types
  <2>3. Opens(proc[q].data, proc[q].password) /\ disk[proc[q].src] = proc[q].data
    BY <1>1, <2>2 DEF CopierAt
  <2>4. Complete(proc[q].data)
    BY <2>3 DEF Opens, Complete
  <2>5. disk'[proc[q].src] = proc[q].data
    BY <1>2, <2>1, <2>3, <2>4, WriteMarks DEF Types
  <2>6. proc[q].pc \in {"reload", "done"} /\ proc[q].dst \notin overwritten' =>
           disk'[proc[q].dst] = proc[q].data
    BY <1>1, <1>2, <2>1, <2>2, <2>4, WriteMarks DEF CopierAt, Types
  <2> QED
    BY <1>1, <2>2, <2>3, <2>5, <2>6 DEF CopierAt
<1> QED
  BY <1>3, <1>5, <1>6, <1>7

\* A step that writes nothing preserves the invariant when it leaves the
\* process that takes it in order.
LEMMA LocalStep ==
    ASSUME Inv, NEW p \in Procs, UNCHANGED <<disk, announced, earned, overwritten>>,
           keys' \in Nat, keys' = keys \/ keys' = keys + 1, starts' \in Nat,
           \A q \in Procs : q # p => proc'[q] = proc[q],
           proc' \in [Procs -> {NotStarted} \cup Started(keys')],
           ProcAt(p)'
    PROVE  Inv'
<1>1. Types'
  <2>1. Files(keys) \subseteq Files(keys') /\ IdentityFiles(keys) \subseteq IdentityFiles(keys')
    BY FilesGrow DEF Inv, Types
  <2>2. 1..keys \subseteq 1..keys'
    BY DEF Inv, Types
  <2> QED
    BY <2>1, <2>2 DEF Inv, Types
<1>2. ProcInv'
  BY QuietOthers DEF Inv, ProcInv
<1>3. PeerIdKept' /\ RewardsDurable'
  BY DEF Inv, PeerIdKept, RewardsDurable
<1> QED
  BY <1>1, <1>2, <1>3 DEF Inv

-----------------------------------------------------------------------------
(* The steps. *)

\* The fields of a started process.
LEMMA Fields ==
    ASSUME Types, NEW p \in Procs, proc[p] # NotStarted
    PROVE  /\ proc[p] \in Started(keys) /\ proc[p].pc \in PCs
           /\ proc[p].src \in Wallets /\ proc[p].src \in Paths /\ proc[p].dst \in Paths
           /\ proc[p].password \in Passwords \cup {Unset}
           /\ proc[p].data \in Files(keys) /\ proc[p].saw \in Files(keys)
  BY DEF Types, Started, Paths

\* A process that is killed, or gives up.
LEMMA StopStep ==
    ASSUME Inv, NEW p \in Procs, proc[p] # NotStarted, NEW x \in {"failed", "killed"},
           Goto(p, x), UNCHANGED <<disk, starts, announced, earned, overwritten>>,
           keys' \in Nat, keys' = keys \/ keys' = keys + 1
    PROVE  Inv'
<1>1. Types /\ RoleAt(p)
  BY DEF Inv, ProcInv, ProcAt
<1>2. Files(keys) \subseteq Files(keys') /\ x \in PCs
  BY <1>1, FilesGrow DEF Types, PCs
<1>3. Became(p, x, proc[p].dst, proc[p].data, proc[p].saw)
  BY <1>1, <1>2, Fields, Moves DEF Goto
<1>4. ProcAt(p)'
  BY <1>1, <1>3 DEF Became, ProcAt, RoleAt, WriterAt, HolderAt, CopierAt
<1> QED
  BY <1>1, <1>3, <1>4, LocalStep DEF Became, Types

\* A wallet command is started.
LEMMA CommandStep == ASSUME Inv, NEW c \in Commands, Command(c) PROVE Inv'
<1> DEFINE r == [pc |-> IF c.cmd = "create" THEN "check" ELSE "load", cmd |-> c.cmd,
                 src |-> c.src, dst |-> c.dst, password |-> c.password,
                 data |-> Absent, saw |-> Absent]
<1>1. /\ c.by \in Tools /\ c.cmd \in {"create", "view", "backup", "restore"}
      /\ c.src \in Wallets /\ c.dst \in Wallets /\ c.password \in Passwords \cup {Unset}
      /\ c.by # Node /\ c.by \in Procs
  BY StartupAssumption DEF Procs
<1>2. proc' = [proc EXCEPT ![c.by] = r] /\ UNCHANGED <<disk, keys, starts, history, overwritten>>
  BY DEF Command
<1>3. r \in Started(keys)
  <2>1. Absent \in Files(keys)
    BY DEF Files
  <2> QED
    BY <1>1, <2>1 DEF Started, PCs, Cmds, Paths
<1>4. proc'[c.by] = r
  BY <1>1, <1>2 DEF Inv, Types
<1>5. ProcAt(c.by)'
  BY <1>1, <1>4 DEF ProcAt, RoleAt, WriterAt, HolderAt, CopierAt
<1> HIDE DEF r
<1>6. proc' \in [Procs -> {NotStarted} \cup Started(keys')]
  BY <1>1, <1>2, <1>3 DEF Inv, Types
<1> QED
  BY <1>1, <1>2, <1>5, <1>6, LocalStep DEF Inv, Types, history

\* The node is started.
LEMMA StartStep == ASSUME Inv, NEW pw \in NodePasswords, StartNode(pw) PROVE Inv'
<1> DEFINE r == [pc |-> "identity", cmd |-> "node", src |-> MINER_WALLET_PATH,
                 dst |-> IDENTITY_KEY_PATH, password |-> pw,
                 data |-> Absent, saw |-> Absent]
<1>1. /\ MINER_WALLET_PATH \in Wallets /\ pw \in Passwords \cup {Unset} /\ Node \in Procs
      /\ IDENTITY_KEY_PATH \in Paths
  BY StartupAssumption DEF Procs, Paths
<1>2. proc' = [proc EXCEPT ![Node] = r] /\ UNCHANGED <<disk, keys, history, overwritten>>
      /\ starts' = starts + 1
  BY DEF StartNode
<1>3. r \in Started(keys)
  <2>1. Absent \in Files(keys)
    BY DEF Files
  <2> QED
    BY <1>1, <2>1 DEF Started, PCs, Cmds
<1>4. proc'[Node] = r
  BY <1>1, <1>2 DEF Inv, Types
<1>5. ProcAt(Node)'
  BY <1>1, <1>4 DEF ProcAt, RoleAt, WriterAt, HolderAt, CopierAt
<1> HIDE DEF r
<1>6. proc' \in [Procs -> {NotStarted} \cup Started(keys')]
  BY <1>1, <1>2, <1>3 DEF Inv, Types
<1> QED
  BY <1>1, <1>2, <1>5, <1>6, LocalStep DEF Inv, Types, history

\* A process loads its source, or fails to.
LEMMA LoadStep == ASSUME Inv, NEW p \in Procs, Load(p) PROVE Inv'
<1>1. Types /\ proc[p] # NotStarted /\ proc[p].pc = "load"
  BY AtStarted DEF Load, Inv, PCs, At
<1>2. RoleAt(p)
  BY <1>1 DEF Inv, ProcInv, ProcAt
<1>3. UNCHANGED <<disk, keys, starts, announced, earned, overwritten>>
  BY DEF Load, LoadFailed, Fail, history
<1>4. CASE ~SourceLoads(p)
  <2>1. Goto(p, "failed")
    BY <1>4 DEF Load, LoadFailed, Fail
  <2> QED
    BY <1>1, <1>3, <2>1, StopStep DEF Types
<1>5. CASE SourceLoads(p)
  <2> DEFINE x == CASE proc[p].cmd = "node" -> "mining"
                    [] proc[p].cmd = "view" -> "done"
                    [] OTHER -> "check"
  <2>1. proc' = [proc EXCEPT ![p].data = disk[proc[p].src], ![p].pc = x]
    BY <1>5 DEF Load
  <2>2. x \in PCs /\ (x = "mining" <=> p = Node) /\ x \in {"mining", "done", "check"}
        /\ (x = "done" => proc[p].cmd = "view")
    BY <1>2 DEF PCs, RoleAt
  <2>3. disk[proc[p].src] \in Files(keys)
    BY <1>1, Fields DEF Types
  <2> HIDE DEF x
  <2>4. Became(p, x, proc[p].dst, disk[proc[p].src], proc[p].saw)
    BY <1>1, <1>3, <2>1, <2>2, <2>3, Fields, Moves DEF Types
  <2>5. Opens(disk[proc[p].src], proc[p].password) /\ Complete(disk[proc[p].src])
    BY <1>5 DEF SourceLoads, Loads, Opens, Complete
  <2>6. RoleAt(p)' /\ WriterAt(p)'
    BY <1>1, <1>2, <2>2, <2>4 DEF Became, RoleAt, WriterAt
  <2>7. HolderAt(p)'
    BY <1>2, <1>3, <2>2, <2>4, <2>5 DEF Became, HolderAt, InWallet, RoleAt
  <2>8. CopierAt(p)'
    BY <1>3, <2>2, <2>4, <2>5 DEF Became, CopierAt
  <2>9. ProcAt(p)'
    BY <2>6, <2>7, <2>8 DEF ProcAt
  <2> QED
    BY <1>1, <1>3, <2>4, <2>9, LocalStep DEF Became, Types
<1> QED
  BY <1>4, <1>5

\* A process looks for its destination.
LEMMA CheckStep == ASSUME Inv, NEW p \in Procs, Check(p) PROVE Inv'
<1>1. Types /\ proc[p] # NotStarted /\ proc[p].pc = "check"
  BY AtStarted DEF Check, Inv, PCs, At
<1>2. RoleAt(p) /\ CopierAt(p)
  BY <1>1 DEF Inv, ProcInv, ProcAt
<1>3. UNCHANGED <<disk, starts, announced, earned, overwritten>>
  BY DEF Check, history
<1>4. disk[proc[p].dst] \in Files(keys) /\ keys \in Nat
  BY <1>1, Fields DEF Types
<1>5. CASE Refused(p) /\ p # Node
  <2>1. Goto(p, "failed") /\ keys' = keys
    BY <1>5 DEF Check
  <2> QED
    BY <1>1, <1>3, <2>1, StopStep DEF Types
<1>6. CASE Refused(p) /\ p = Node
  <2>1. Goto(p, "load") /\ keys' = keys
    BY <1>6 DEF Check
  <2>2. Became(p, "load", proc[p].dst, proc[p].data, proc[p].saw)
    BY <1>1, <2>1, Fields, Moves DEF Goto, PCs, Types
  <2>3. ProcAt(p)'
    BY <1>1, <1>2, <2>2 DEF Became, ProcAt, RoleAt, WriterAt, HolderAt, CopierAt
  <2> QED
    BY <1>1, <1>3, <2>1, <2>2, <2>3, LocalStep DEF Became, Types
<1>7. CASE ~Refused(p) /\ proc[p].cmd \in {"backup", "restore"}
  <2>1. proc' = [proc EXCEPT ![p].pc = "open", ![p].saw = Absent] /\ keys' = keys
        /\ disk[proc[p].dst] = Absent
    BY <1>7 DEF Check, Refused, Exists
  <2>2. Became(p, "open", proc[p].dst, proc[p].data, Absent)
    BY <1>1, <1>4, <2>1, Fields, Moves DEF PCs, Types
  <2>3. p # Node /\ proc[p].dst \in Wallets /\ proc[p].dst # IDENTITY_KEY_PATH
    BY <1>2, <1>7, StartupAssumption DEF RoleAt
  <2>4. proc[p].src \notin overwritten => proc[p].src # proc[p].dst
    BY <1>1, <1>2, <1>7, <2>1, FileKinds DEF CopierAt, Opens
  <2>5. ProcAt(p)'
    BY <1>1, <1>2, <1>3, <1>7, <2>2, <2>3, <2>4
    DEF Became, ProcAt, RoleAt, WriterAt, HolderAt, CopierAt
  <2> QED
    BY <1>1, <1>3, <2>1, <2>2, <2>5, LocalStep DEF Became, Types
<1>8. CASE ~Refused(p) /\ proc[p].cmd \in {"create", "node"}
  <2>0. keys' = keys + 1 /\ Generate(p)
    BY <1>8 DEF Check, Generate
  <2>1. CASE proc[p].password = Unset
    <3>1. Goto(p, "failed")
      BY <2>0, <2>1 DEF Generate, Fail
    <3> QED
      BY <1>1, <1>3, <2>0, <3>1, StopStep DEF Types
  <2>2. CASE proc[p].password # Unset
    <3> DEFINE f == Encrypted(keys + 1, proc[p].password)
    <3>1. proc' = [proc EXCEPT ![p].pc = "open", ![p].data = f, ![p].saw = Absent]
      BY <1>8, <2>0, <2>2 DEF Generate, Refused, Exists
    <3>2. f \in Files(keys') /\ Absent \in Files(keys')
      <4>1. proc[p].password \in Passwords
        BY <1>1, <2>2, Fields
      <4> QED
        BY <1>4, <2>0, <4>1, FilesGrow DEF Files
    <3>3. Complete(f)
      BY FileKinds DEF Complete
    <3> HIDE DEF f
    <3>4. Became(p, "open", proc[p].dst, f, Absent)
      <4>1. keys' \in Nat /\ proc[p] \in Started(keys) /\ proc[p].dst \in Paths /\ "open" \in PCs
        BY <1>1, <1>4, <2>0, Fields DEF PCs
      <4> QED
        BY <1>1, <2>0, <3>1, <3>2, <4>1, Moves
    <3>5. proc[p].dst \in Wallets /\ proc[p].dst # IDENTITY_KEY_PATH
      BY <1>1, <1>2, StartupAssumption DEF RoleAt
    <3>6. ProcAt(p)'
      BY <1>1, <1>2, <1>8, <3>3, <3>4, <3>5
      DEF Became, ProcAt, RoleAt, WriterAt, HolderAt, CopierAt
    <3> QED
      BY <1>1, <1>3, <1>4, <2>0, <3>4, <3>6, LocalStep DEF Became, Types
  <2> QED
    BY <2>1, <2>2
<1> QED
  BY <1>5, <1>6, <1>7, <1>8 DEF Check

\* restore loads what it wrote.
LEMMA ReloadStep == ASSUME Inv, NEW p \in Procs, Reload(p) PROVE Inv'
<1>1. Types /\ proc[p] # NotStarted /\ proc[p].pc = "reload"
  BY AtStarted DEF Reload, Inv, PCs, At
<1>2. RoleAt(p) /\ CopierAt(p)
  BY <1>1 DEF Inv, ProcInv, ProcAt
<1>3. UNCHANGED <<disk, keys, starts, announced, earned, overwritten>>
  BY DEF Reload, history
<1>4. CASE Goto(p, "failed")
  BY <1>1, <1>3, <1>4, StopStep DEF Types
<1>5. CASE Goto(p, "done")
  <2>1. Became(p, "done", proc[p].dst, proc[p].data, proc[p].saw)
    BY <1>1, <1>3, <1>5, Fields, Moves DEF Goto, PCs, Types
  <2>2. ProcAt(p)'
    BY <1>1, <1>2, <1>3, <2>1 DEF Became, ProcAt, RoleAt, WriterAt, HolderAt, CopierAt
  <2> QED
    BY <1>1, <1>3, <2>1, <2>2, LocalStep DEF Became, Types
<1> QED
  BY <1>4, <1>5 DEF Reload

\* The node reads its identity, or generates one.
LEMMA LoadIdentityStep == ASSUME Inv, LoadIdentity PROVE Inv'
<1>0. Node \in Procs /\ IDENTITY_KEY_PATH \in Paths
  BY DEF Procs, Paths
<1>1. Types /\ proc[Node] # NotStarted /\ proc[Node].pc = "identity"
  BY <1>0, AtStarted DEF LoadIdentity, Inv, PCs, At
<1>2. RoleAt(Node) /\ proc[Node].dst = IDENTITY_KEY_PATH
  BY <1>0, <1>1 DEF Inv, ProcInv, ProcAt, RoleAt
<1>3. UNCHANGED <<disk, starts, announced, earned, overwritten>> /\ keys \in Nat
  BY <1>1 DEF LoadIdentity, history, Types
<1>4. CASE IdentityReadable
  <2>1. proc' = [proc EXCEPT ![Node].pc = "dial", ![Node].data = disk[IDENTITY_KEY_PATH]]
        /\ keys' = keys
    BY <1>4 DEF LoadIdentity
  <2>2. Became(Node, "dial", proc[Node].dst, disk[IDENTITY_KEY_PATH], proc[Node].saw)
    <3>1. disk[IDENTITY_KEY_PATH] \in Files(keys)
      BY <1>0, <1>1 DEF Types
    <3> QED
      BY <1>0, <1>1, <1>3, <2>1, <3>1, Fields, Moves DEF PCs
  <2>3. ProcAt(Node)'
    BY <1>1, <1>2, <1>3, <1>4, <2>2
    DEF Became, ProcAt, RoleAt, WriterAt, HolderAt, CopierAt, IdentityReadable
  <2> QED
    BY <1>0, <1>1, <1>3, <2>1, <2>2, <2>3, LocalStep DEF Became, Types
<1>5. CASE ~IdentityReadable
  <2> DEFINE f == Plain(keys + 1)
             s == disk[IDENTITY_KEY_PATH]
  <2>1. proc' = [proc EXCEPT ![Node].pc = "open", ![Node].data = f, ![Node].saw = s]
        /\ keys' = keys + 1
    BY <1>5 DEF LoadIdentity
  <2>2. f \in Files(keys') /\ s \in Files(keys')
    <3>1. f \in IdentityFiles(keys + 1) /\ IdentityFiles(keys + 1) \subseteq Files(keys + 1)
      BY <1>3, FilesGrow
    <3>2. s \in Files(keys) /\ Files(keys) \subseteq Files(keys + 1)
      BY <1>0, <1>1, <1>3, FilesGrow DEF Types
    <3> QED
      BY <2>1, <3>1, <3>2
  <2>3. f.kind = "plain" /\ Complete(f)
    BY FileKinds DEF Complete
  <2>4. ~Complete(disk[IDENTITY_KEY_PATH])
    BY <1>1, <1>3, <1>5, IdentityKind DEF IdentityReadable, Types
  <2> HIDE DEF f, s
  <2>5. Became(Node, "open", proc[Node].dst, f, s)
    <3>1. keys' \in Nat /\ proc[Node] \in Started(keys) /\ proc[Node].dst \in Paths
          /\ "open" \in PCs
      BY <1>0, <1>1, <1>3, <2>1, Fields DEF PCs
    <3> QED
      BY <1>0, <1>1, <2>1, <2>2, <3>1, Moves
  <2>6. ProcAt(Node)'
    BY <1>1, <1>2, <1>3, <2>3, <2>4, <2>5
    DEF Became, ProcAt, RoleAt, WriterAt, HolderAt, CopierAt
  <2> QED
    BY <1>0, <1>1, <1>3, <2>1, <2>5, <2>6, LocalStep DEF Became, Types
<1> QED
  BY <1>4, <1>5

\* A step that writes preserves the invariant when it leaves the process that
\* takes it in order.
LEMMA WriteStep ==
    ASSUME Inv, NEW p \in Procs, proc[p] # NotStarted, proc[p].pc \in {"open", "fill"},
           NEW f \in Files(keys), proc[p].dst = IDENTITY_KEY_PATH => f \in IdentityFiles(keys),
           disk' = [disk EXCEPT ![proc[p].dst] = f], Overwrites(proc[p].dst),
           NEW x, Became(p, x, proc[p].dst, proc[p].data, proc[p].saw),
           UNCHANGED <<keys, starts, announced, earned>>, ProcAt(p)'
    PROVE  Inv'
<1>1. Types /\ ProcInv /\ RoleAt(p) /\ WriterAt(p) /\ proc[p].dst \in Paths
  BY Fields DEF Inv, ProcInv, ProcAt
<1>2. IDENTITY_KEY_PATH \in Paths
  BY DEF Paths
<1>3. Types'
  BY <1>1, <1>2 DEF Types, Became
<1>4. ProcInv'
  <2>1. ASSUME NEW q \in Procs, q # p PROVE ProcAt(q)'
    BY <1>1, <2>1, WrittenOthers DEF Became
  <2> QED
    BY <2>1 DEF ProcInv
<1>5. PeerIdKept'
  <2>1. ASSUME NEW k \in announced PROVE disk'[IDENTITY_KEY_PATH] = Plain(k)
    <3>1. disk[IDENTITY_KEY_PATH] = Plain(k) /\ Complete(disk[IDENTITY_KEY_PATH])
      BY FileKinds DEF Inv, PeerIdKept, Complete
    <3>2. proc[p].dst # IDENTITY_KEY_PATH
      BY <1>1, <3>1 DEF WriterAt
    <3> QED
      BY <1>1, <1>2, <3>1, <3>2 DEF Types
  <2> QED
    BY <2>1 DEF PeerIdKept
<1>6. RewardsDurable'
  <2>1. ASSUME NEW k \in earned PROVE InWallet(k)'
    <3>1. InWallet(k)
      BY DEF Inv, RewardsDurable, InWallet
    <3> QED
      BY <1>1, <3>1, WalletKept
  <2> QED
    BY <2>1 DEF RewardsDurable, InWallet
<1> QED
  BY <1>3, <1>4, <1>5, <1>6 DEF Inv

\* A process opens its destination and empties it.
LEMMA OpenStep == ASSUME Inv, NEW p \in Procs, Open(p) PROVE Inv'
<1>1. Types /\ proc[p] # NotStarted /\ proc[p].pc = "open"
  BY AtStarted DEF Open, Inv, PCs, At
<1>2. RoleAt(p) /\ WriterAt(p) /\ CopierAt(p)
  BY <1>1 DEF Inv, ProcInv, ProcAt
<1>3. /\ disk' = [disk EXCEPT ![proc[p].dst] = Torn] /\ Overwrites(proc[p].dst)
      /\ UNCHANGED <<keys, starts, announced, earned>> /\ keys \in Nat
  BY <1>1 DEF Open, history, Types
<1>4. Became(p, "fill", proc[p].dst, proc[p].data, proc[p].saw)
  <2>1. keys' \in Nat /\ proc' = [proc EXCEPT ![p].pc = "fill"] /\ "fill" \in PCs
    BY <1>3 DEF Open, Goto, PCs
  <2> QED
    BY <1>1, <1>3, <2>1, Fields, Moves
<1>5. Torn \in IdentityFiles(keys) /\ Torn \in Files(keys) /\ ~Complete(Torn)
  BY <1>3, FilesGrow, FileKinds DEF Complete
<1>6. proc[p].dst \in Paths /\ proc[p].src \in Paths
  BY <1>1, Fields
<1>7. RoleAt(p)' /\ WriterAt(p)' /\ HolderAt(p)'
  BY <1>1, <1>2, <1>3, <1>4, <1>5, <1>6 DEF Became, RoleAt, WriterAt, HolderAt, Types
<1>8. CopierAt(p)'
  <2>1. overwritten \subseteq overwritten'
    BY <1>1, <1>3, <1>6, WriteMarks DEF Types
  <2>2. proc[p].src # proc[p].dst => disk'[proc[p].src] = disk[proc[p].src]
    BY <1>1, <1>3, <1>6 DEF Types
  <2> QED
    BY <1>1, <1>2, <1>4, <2>1, <2>2 DEF Became, CopierAt
<1>9. ProcAt(p)'
  BY <1>7, <1>8 DEF ProcAt
<1> QED
  BY <1>1, <1>3, <1>4, <1>5, <1>9, WriteStep

\* What a process writes into a file that is not complete is what it has.
LEMMA WritesWhatItHas ==
    ASSUME NEW old, NEW new, ~Complete(old)
    PROVE  Written(old, new) = new
  BY DEF Written, Complete

\* A process fills the file it opened.
LEMMA FillStep == ASSUME Inv, NEW p \in Procs, Fill(p) PROVE Inv'
<1> DEFINE d == proc[p].dst
           data == IF proc[p].cmd \in {"backup", "restore"} THEN disk[proc[p].src]
                   ELSE proc[p].data
           f == Written(disk[d], data)
           x == IF d = IDENTITY_KEY_PATH THEN "dial"
                ELSE CASE proc[p].cmd = "node" -> "mining"
                       [] proc[p].cmd = "restore" -> "reload"
                       [] OTHER -> "done"
<1>1. Types /\ proc[p] # NotStarted /\ proc[p].pc = "fill"
  BY AtStarted DEF Fill, Inv, PCs, At
<1>2. RoleAt(p) /\ WriterAt(p) /\ CopierAt(p)
  BY <1>1 DEF Inv, ProcInv, ProcAt
<1>3. /\ disk' = [disk EXCEPT ![d] = f] /\ Overwrites(d)
      /\ UNCHANGED <<keys, starts, announced, earned>> /\ keys \in Nat
      /\ Goto(p, x)
  BY <1>1 DEF Fill, history, Types
<1>4. d \in Paths /\ proc[p].src \in Paths /\ disk[d] \in Files(keys)
      /\ disk[proc[p].src] \in Files(keys) /\ proc[p].data \in Files(keys)
  BY <1>1, Fields DEF Types
<1>5. f \in Files(keys) /\ (~Complete(disk[d]) => f = data)
  <2>1. f \in {Torn, data}
    BY DEF Written
  <2>2. Torn \in Files(keys) /\ data \in Files(keys)
    BY <1>4 DEF Files
  <2> QED
    BY <2>1, <2>2, WritesWhatItHas
<1>6. d = IDENTITY_KEY_PATH =>
         /\ p = Node /\ proc[p].cmd = "node" /\ ~Complete(disk[d])
         /\ data = proc[p].data /\ proc[p].data.kind = "plain"
         /\ data \in IdentityFiles(keys)
  <2> SUFFICES ASSUME d = IDENTITY_KEY_PATH
               PROVE  /\ p = Node /\ proc[p].cmd = "node" /\ ~Complete(disk[d])
                      /\ data = proc[p].data /\ proc[p].data.kind = "plain"
                      /\ data \in IdentityFiles(keys)
    OBVIOUS
  <2>1. p = Node /\ proc[p].cmd = "node"
    BY <1>2, StartupAssumption DEF RoleAt
  <2>2. ~Complete(disk[d]) /\ proc[p].data.kind = "plain"
    BY <1>1, <1>2 DEF WriterAt
  <2>3. data = proc[p].data
    BY <2>1
  <2>4. proc[p].data \in IdentityFiles(keys)
    BY <1>3, <1>4, <2>2, FileHolds
  <2> QED
    BY <2>1, <2>2, <2>3, <2>4
<1>7. x \in PCs /\ x \in {"dial", "mining", "reload", "done"}
      /\ (x = "dial" <=> d = IDENTITY_KEY_PATH)
      /\ (x = "mining" => proc[p].cmd = "node" /\ d # IDENTITY_KEY_PATH)
  BY DEF PCs
<1>8. ~Complete(disk[d]) \/ d \in overwritten'
  BY <1>3 DEF Overwrites
<1>9. proc[p].cmd \notin {"backup", "restore"} => data = proc[p].data
  OBVIOUS
<1>10. proc[p].cmd \in {"backup", "restore"} => data = disk[proc[p].src]
  OBVIOUS
<1> HIDE DEF d, data, f, x
<1>11. Became(p, x, proc[p].dst, proc[p].data, proc[p].saw)
  <2>1. proc' = [proc EXCEPT ![p].pc = x] /\ keys' \in Nat
    BY <1>3 DEF Goto
  <2> QED
    BY <1>1, <1>3, <1>7, <2>1, Fields, Moves
<1>12. disk'[d] = f /\ (proc[p].src # d => disk'[proc[p].src] = disk[proc[p].src])
  BY <1>1, <1>3, <1>4 DEF Types
<1>13. RoleAt(p)' /\ WriterAt(p)'
  BY <1>2, <1>6, <1>7, <1>11 DEF Became, RoleAt, WriterAt, d
<1>14. HolderAt(p)'
  <2>1. CASE x = "dial"
    <3>1. d = IDENTITY_KEY_PATH /\ disk'[d] = proc[p].data /\ proc[p].data.kind = "plain"
      BY <1>5, <1>6, <1>7, <1>12, <2>1
    <3> QED
      BY <1>11, <2>1, <3>1 DEF Became, HolderAt
  <2>2. CASE x = "mining"
    <3>1. d = MINER_WALLET_PATH /\ Complete(proc[p].data) /\ data = proc[p].data
      BY <1>1, <1>2, <1>7, <1>9, <2>2 DEF RoleAt, WriterAt, d
    <3>2. MINER_WALLET_PATH \in overwritten' \/ disk'[MINER_WALLET_PATH] = proc[p].data
      BY <1>5, <1>8, <1>12, <3>1
    <3> QED
      BY <1>11, <2>2, <3>1, <3>2 DEF Became, HolderAt, InWallet
  <2>3. CASE x \notin {"dial", "mining"}
    BY <1>11, <2>3 DEF Became, HolderAt
  <2> QED
    BY <2>1, <2>2, <2>3
<1>15. CopierAt(p)'
  <2>1. overwritten \subseteq overwritten'
    BY <1>1, <1>3, <1>4, WriteMarks DEF Types
  <2> SUFFICES ASSUME proc[p].cmd \in {"backup", "restore"}, proc[p].src \notin overwritten'
               PROVE  /\ Opens(proc[p].data, proc[p].password)
                      /\ disk'[proc[p].src] = proc[p].data
                      /\ d \notin overwritten' => disk'[d] = proc[p].data
    BY <1>7, <1>11 DEF Became, CopierAt, d
  <2>2. Opens(proc[p].data, proc[p].password) /\ disk[proc[p].src] = proc[p].data
        /\ proc[p].src # d
    BY <1>1, <1>2, <2>1 DEF CopierAt, d
  <2> QED
    BY <1>5, <1>8, <1>10, <1>12, <2>2
<1>16. ProcAt(p)'
  BY <1>13, <1>14, <1>15 DEF ProcAt
<1> QED
  BY <1>1, <1>3, <1>5, <1>6, <1>11, <1>16, WriteStep DEF d

\* The node goes on the network with its identity.
LEMMA DialStep == ASSUME Inv, NEW file \in ConfigFiles, Dial(file) PROVE Inv'
<1>0. Node \in Procs /\ IDENTITY_KEY_PATH \in Paths /\ MINER_WALLET_PATH \in Paths
  BY StartupAssumption DEF Procs, Paths
<1>1. Types /\ proc[Node] # NotStarted /\ proc[Node].pc = "dial"
  BY <1>0, AtStarted DEF Dial, Inv, PCs, At
<1>2. RoleAt(Node) /\ HolderAt(Node)
  BY <1>0, <1>1 DEF Inv, ProcInv, ProcAt
<1>3. UNCHANGED <<disk, keys, starts, earned, overwritten>> /\ keys \in Nat
      /\ announced' = announced \cup {proc[Node].data.key}
  BY <1>1 DEF Dial, Types
<1>4. Became(Node, "check", MINER_WALLET_PATH, proc[Node].data, proc[Node].saw)
  <2>1. proc' = [proc EXCEPT ![Node].pc = "check", ![Node].dst = MINER_WALLET_PATH]
        /\ keys' \in Nat /\ "check" \in PCs
    BY <1>3 DEF Dial, PCs
  <2> QED
    BY <1>0, <1>1, <1>3, <2>1, Fields, Moves
<1>5. ProcAt(Node)'
  BY <1>1, <1>2, <1>4 DEF Became, ProcAt, RoleAt, WriterAt, HolderAt, CopierAt
<1>6. ProcInv'
  BY <1>3, <1>4, <1>5, QuietOthers DEF Inv, ProcInv, Became
<1>7. proc[Node].data = Plain(proc[Node].data.key) /\ proc[Node].data.key \in 1..keys
  <2>1. proc[Node].data \in Files(keys) /\ proc[Node].data.kind = "plain"
    BY <1>0, <1>1, <1>2, Fields DEF HolderAt
  <2> QED
    BY <1>3, <2>1, FileHolds DEF Complete
<1>8. Types'
  BY <1>1, <1>3, <1>4, <1>7 DEF Types, Became
<1>9. PeerIdKept'
  BY <1>1, <1>2, <1>3, <1>7 DEF Inv, PeerIdKept, HolderAt
<1>10. RewardsDurable'
  BY <1>3 DEF Inv, RewardsDurable
<1> QED
  BY <1>6, <1>8, <1>9, <1>10 DEF Inv

\* The node mines to the key it holds.
LEMMA MineStep == ASSUME Inv, Mine PROVE Inv'
<1>0. Node \in Procs
  BY DEF Procs
<1>1. Types /\ proc[Node] # NotStarted /\ proc[Node].pc = "mining"
  BY <1>0, AtStarted DEF Mine, Inv, PCs, At
<1>2. HolderAt(Node)
  BY <1>0, <1>1 DEF Inv, ProcInv, ProcAt
<1>3. UNCHANGED <<disk, proc, keys, starts, announced, overwritten>>
      /\ earned' = earned \cup {proc[Node].data.key}
  BY DEF Mine
<1>4. proc[Node].data.key \in 1..keys
  <2>1. proc[Node].data \in Files(keys) /\ Complete(proc[Node].data) /\ keys \in Nat
    BY <1>0, <1>1, <1>2, Fields DEF HolderAt, Types
  <2> QED
    BY <2>1, FileHolds
<1>5. Types'
  BY <1>1, <1>3, <1>4 DEF Types
<1>6. ProcInv'
  BY <1>3, QuietOthers DEF Inv, ProcInv
<1>7. PeerIdKept'
  BY <1>3 DEF Inv, PeerIdKept
<1>8. RewardsDurable'
  BY <1>1, <1>2, <1>3 DEF Inv, RewardsDurable, HolderAt, InWallet
<1> QED
  BY <1>5, <1>6, <1>7, <1>8 DEF Inv

\* Every step preserves the invariant.
LEMMA InvStep == Inv /\ [Next]_vars => Inv'
<1> SUFFICES ASSUME Inv, [Next]_vars PROVE Inv'
  OBVIOUS
<1>1. ASSUME NEW p \in Procs, Step(p) PROVE Inv'
  BY <1>1, LoadStep, CheckStep, OpenStep, FillStep, ReloadStep DEF Step
<1>2. ASSUME NEW p \in Procs, Kill(p) PROVE Inv'
  <2>1. proc[p] # NotStarted
    BY <1>2 DEF Kill, NotStarted
  <2> QED
    BY <1>2, <2>1, StopStep DEF Kill, history, Inv, Types
<1>3. CASE UNCHANGED vars
  <2>1. UNCHANGED <<disk, proc, keys, starts, announced, earned, overwritten>>
    BY <1>3 DEF vars
  <2>2. ProcInv'
    BY <2>1, QuietOthers DEF Inv, ProcInv
  <2> QED
    BY <2>1, <2>2 DEF Inv, Types, PeerIdKept, RewardsDurable
<1>4. Tools \subseteq Procs /\ Node \in Procs /\ Procs = Tools \cup {Node}
  BY DEF Procs
<1> QED
  BY <1>1, <1>2, <1>3, <1>4, CommandStep, StartStep, LoadIdentityStep, DialStep, MineStep
  DEF Next, NodeStep

\* The program starts with the invariant.
LEMMA InvInit == Init => Inv
<1> SUFFICES ASSUME Init PROVE Inv
  OBVIOUS
<1>1. PICK w \in InitialWallets : disk = [p \in Paths |-> IF p \in Wallets THEN w[p] ELSE Absent]
  BY DEF Init
<1>2. w \in [Wallets -> Files(InitialKeys)] /\ InitialKeys \in Nat /\ keys = InitialKeys
  BY StartupAssumption DEF Init
<1>3. disk \in [Paths -> Files(keys)] /\ disk[IDENTITY_KEY_PATH] = Absent
  BY <1>1, <1>2, StartupAssumption DEF Paths, Files
<1>4. Types
  BY <1>2, <1>3, FilesGrow DEF Init, Types, Procs
<1>5. ProcInv /\ PeerIdKept /\ RewardsDurable
  BY DEF Init, ProcInv, ProcAt, PeerIdKept, RewardsDurable, Procs
<1> QED
  BY <1>4, <1>5 DEF Inv

-----------------------------------------------------------------------------
(* Theorems. *)

\* The invariant, which the theorems below read off.
THEOREM Invariance == Spec => []Inv
  BY InvInit, InvStep, PTL DEF Spec

\* Every file, process and history keeps its type; a key that is used was
\* generated.
THEOREM TypeCorrect == Spec => []TypeOK
<1>1. Inv => TypeOK
  <2> SUFFICES ASSUME Types PROVE TypeOK
    BY DEF Inv
  <2>1. \A p \in Wallets : disk[p] \in Files(keys)
    BY DEF Types, Paths
  <2>2. disk[IDENTITY_KEY_PATH] \in {Absent, Torn} \cup {Plain(k) : k \in 1..keys}
    BY DEF Types, IdentityFiles
  <2>3. ASSUME NEW p \in Tools \cup {Node}, proc[p] # NotStarted
        PROVE  /\ proc[p].cmd \in {"node", "create", "view", "backup", "restore"}
               /\ {proc[p].src, proc[p].dst} \subseteq Paths
               /\ proc[p].data \in Files(keys)
    <3>1. p \in Procs
      BY DEF Procs
    <3>2. proc[p] \in Started(keys)
      BY <2>3, <3>1, Fields
    <3> QED
      BY <3>2 DEF Started, Cmds, Paths
  <2>4. announced \cup earned \subseteq 1..keys
    BY DEF Types
  <2> QED
    BY <2>1, <2>2, <2>3, <2>4 DEF TypeOK
<1> QED
  BY <1>1, Invariance, PTL

\* The keys the node has ever mined to are those in its wallet file, whatever
\* was killed half way, unless a command that raced with it wrote over the file.
THEOREM RewardsAreDurable == Spec => []RewardsDurable
<1>1. Inv => RewardsDurable
  BY DEF Inv
<1> QED
  BY <1>1, Invariance, PTL

\* Restarts do not change the Peer ID: the node is only ever on the network
\* with one identity.
THEOREM PeerIdIsStable == Spec => []OnePeerId
<1>1. Inv => OnePeerId
  <2> SUFFICES ASSUME PeerIdKept PROVE Cardinality(announced) <= 1
    BY DEF Inv, OnePeerId
  <2> DEFINE k == disk[IDENTITY_KEY_PATH].key
  <2>1. announced \subseteq {k}
    BY FileKinds DEF PeerIdKept
  <2>2. IsFiniteSet({k}) /\ Cardinality({k}) = 1
    BY FS_Singleton
  <2> HIDE DEF k
  <2> QED
    BY <2>1, <2>2, FS_Subset
<1> QED
  BY <1>1, Invariance, PTL

\* A backup or restore that reports success has copied the keys it loaded, and
\* they open with the password they were loaded with.
THEOREM CopiesAreFaithful == Spec => []CopiesFaithful
<1>1. Inv => CopiesFaithful
  <2> SUFFICES ASSUME Inv, NEW p \in Tools, At(p, "done"),
                      proc[p].cmd \in {"backup", "restore"},
                      proc[p].src \notin overwritten, proc[p].dst \notin overwritten
               PROVE  disk[proc[p].dst] = proc[p].data /\ Loads(proc[p].dst, proc[p].password)
    BY DEF CopiesFaithful
  <2>1. p \in Procs /\ proc[p] # NotStarted
    BY AtStarted DEF Procs, Inv, PCs
  <2>2. CopierAt(p)
    BY <2>1 DEF Inv, ProcInv, ProcAt
  <2> QED
    BY <2>2 DEF CopierAt, At, Opens, Loads
<1> QED
  BY <1>1, Invariance, PTL

\* A complete file is written over only by a process that found nothing there
\* when it looked.
THEOREM KeysDoSurvive == Spec => KeysSurvive
<1> DEFINE Kept == \A path \in Paths :
                      Complete(disk[path]) /\ disk'[path] # disk[path] =>
                         \E p \in DOMAIN proc : /\ proc[p].pc \in {"open", "fill"}
                                                /\ proc[p].dst = path
                                                /\ proc'[p] # proc[p]
                                                /\ proc[p].saw = Absent
<1>1. Inv /\ [Next]_vars => [Kept]_vars
  <2> SUFFICES ASSUME Inv, Next, NEW path \in Paths,
                      Complete(disk[path]), disk'[path] # disk[path]
               PROVE  \E p \in DOMAIN proc : /\ proc[p].pc \in {"open", "fill"}
                                             /\ proc[p].dst = path
                                             /\ proc'[p] # proc[p]
                                             /\ proc[p].saw = Absent
    OBVIOUS
  <2>1. PICK p \in Procs : Open(p) \/ Fill(p)
    BY DEF Next, NodeStep, Step, Command, Load, Check, Reload, StartNode, LoadIdentity, Dial,
           Mine, Kill, Procs
  <2>2. proc[p] # NotStarted /\ proc[p].pc \in {"open", "fill"} /\ DOMAIN proc = Procs
    BY <2>1, AtStarted DEF Open, Fill, At, PCs, Inv, Types
  <2>3. WriterAt(p) /\ RoleAt(p) /\ proc[p].dst \in Paths
    BY <2>2, Fields DEF Inv, ProcInv, ProcAt
  <2>4. proc[p].dst = path
    BY <2>1, <2>3 DEF Open, Fill, Inv, Types
  <2>5. proc[p].saw = Absent
    BY <2>2, <2>3, <2>4 DEF WriterAt
  <2>6. proc'[p].pc # proc[p].pc
    <3>1. proc[p] \in Started(keys)
      BY <2>2, Fields DEF Inv
    <3>2. CASE Open(p)
      <4>1. proc'[p] = [proc[p] EXCEPT !.pc = "fill"] /\ proc[p].pc = "open"
        BY <3>2 DEF Open, Goto, At, Inv, Types
      <4> QED
        BY <3>1, <4>1 DEF Started
    <3>3. CASE Fill(p)
      <4>1. PICK x : Goto(p, x) /\ x \in {"dial", "mining", "reload", "done"}
        BY <3>3 DEF Fill
      <4>2. proc'[p] = [proc[p] EXCEPT !.pc = x] /\ proc[p].pc = "fill"
        BY <3>3, <4>1 DEF Fill, Goto, At, Inv, Types
      <4> QED
        BY <3>1, <4>1, <4>2 DEF Started
    <3> QED
      BY <2>1, <3>2, <3>3
  <2> QED
    BY <2>2, <2>4, <2>5, <2>6
<1> QED
  BY <1>1, Invariance, PTL DEF Spec, KeysSurvive

\* Every address that is dialed was compiled in, listed by the operator, or is
\* in a file that was signed as it stands.
THEOREM SeedsAreVouched == Spec => []SeedsVouched
<1> DEFINE Vouched == ListedPeers \cup DefaultSeeds
                \cup UNION {f.signature.of.seeds : f \in {g \in ConfigFiles :
                                g.kind = "config" /\ g.signature.by = g.signing_key}}
<1>1. Init => SeedsVouched
  BY DEF Init, SeedsVouched
<1>2. SeedsVouched /\ [Next]_vars => SeedsVouched'
  <2> SUFFICES ASSUME dialed \subseteq Vouched, [Next]_vars PROVE dialed' \subseteq Vouched
    BY DEF SeedsVouched
  <2>1. CASE dialed' = dialed
    BY <2>1
  <2>2. ASSUME NEW file \in ConfigFiles, Dial(file) PROVE dialed' \subseteq Vouched
    <3>1. load_bootstrap_config(file) \subseteq Vouched
      <4>1. CASE file.kind = "config" /\ verify_signature(file)
        <5>1. /\ file.signature = [by |-> file.signing_key,
                                   of |-> [network |-> file.network, seeds |-> file.seeds]]
              /\ load_bootstrap_config(file) = file.seeds
          BY <4>1 DEF verify_signature, canonical_payload, load_bootstrap_config
        <5>2. file.signature.by = file.signing_key /\ file.signature.of.seeds = file.seeds
          BY <5>1
        <5> QED
          BY <4>1, <5>1, <5>2
      <4>2. CASE ~(file.kind = "config" /\ verify_signature(file))
        BY <4>2 DEF load_bootstrap_config
      <4> QED
        BY <4>1, <4>2
    <3> QED
      BY <2>2, <3>1 DEF Dial
  <2> QED
    BY <2>1, <2>2 DEF Next, NodeStep, Step, Command, Load, Check, Open, Fill, Reload, StartNode,
                      LoadIdentity, Mine, Kill, history, vars
<1> QED
  BY <1>1, <1>2, PTL DEF Spec
=============================================================================
