------------------------------ MODULE Startup ------------------------------
(***************************************************************************)
(* The keys a node keeps in files and what it does with them at start-up   *)
(* (main.rs, wallet.rs), the wallet commands that share the files with it, *)
(* and the peers it dials (network_config.rs).                             *)
(*                                                                         *)
(* Every process runs by itself: between looking for a file and opening it *)
(* for writing, and between opening (which empties it) and filling it,     *)
(* others may act or the process may be killed.  The database lock lets    *)
(* one node run at a time; wallet commands do not open the database.       *)
(* Nothing removes a file, and reading one does not fail.                  *)
(***************************************************************************)
EXTENDS Naturals, FiniteSets

CONSTANTS
    Tools,              \* processes that run a wallet command
    Wallets,            \* paths of wallet files, with
    MINER_WALLET_PATH,  \* the node's
    Passwords,          \* values of VDAG_WALLET_PASSWORD
    Commands,           \* the commands that may be run, by which tool
    NodePasswords,      \* the passwords the node may be started with
    InitialKeys,        \* the keys there are at first, 1..InitialKeys, and
    InitialWallets,     \* the wallet files there may be at first
    ConfigFiles,        \* what the signed bootstrap file may hold
    ListedPeers,        \* --dial targets and lines of the plain peer list
    DefaultSeeds,       \* the seeds compiled in for the node's network
    MaxStarts           \* bound: starts of the node

Node == "node"
IDENTITY_KEY_PATH == "identity"
Paths == Wallets \cup {IDENTITY_KEY_PATH}

\* A file is absent, torn (opened for writing and not filled), or complete;
\* a wallet is encrypted, or plain in the older format.
Absent == [kind |-> "absent"]
Torn == [kind |-> "torn"]
Encrypted(k, pw) == [kind |-> "encrypted", key |-> k, password |-> pw]
Plain(k) == [kind |-> "plain", key |-> k]
Unset == "unset"        \* no VDAG_WALLET_PASSWORD
Files(n) == {Absent, Torn} \cup {Plain(k) : k \in 1..n}
            \cup {Encrypted(k, pw) : k \in 1..n, pw \in Passwords}

ASSUME StartupAssumption ==
    /\ Node \notin Tools
    /\ MINER_WALLET_PATH \in Wallets /\ IDENTITY_KEY_PATH \notin Wallets
    /\ Unset \notin Passwords
    /\ NodePasswords \subseteq Passwords \cup {Unset}
    /\ Commands \subseteq [by : Tools, cmd : {"create", "view", "backup", "restore"},
                           src : Wallets, dst : Wallets, password : Passwords \cup {Unset}]
    /\ InitialKeys \in Nat /\ InitialWallets \subseteq [Wallets -> Files(InitialKeys)]
    /\ MaxStarts \in Nat

VARIABLES
    disk,       \* the files
    proc,       \* the processes
    keys,       \* keys generated so far are 1..keys
    starts,     \* starts of the node
    dialed,     \* addresses the node has dialed
    announced,  \* history: identities the node has been on the network with
    earned,     \* history: keys the node has mined to
    overwritten \* history: paths where a complete file was written over

vars == <<disk, proc, keys, starts, dialed, announced, earned, overwritten>>
history == <<dialed, announced, earned>>

NotStarted == [pc |-> "idle"]

Init ==
    /\ disk \in {[p \in Paths |-> IF p \in Wallets THEN w[p] ELSE Absent] : w \in InitialWallets}
    /\ proc = [p \in Tools \cup {Node} |-> NotStarted]
    /\ keys = InitialKeys
    /\ starts = 0
    /\ dialed = {} /\ announced = {} /\ earned = {} /\ overwritten = {}

-----------------------------------------------------------------------------
(* Reading. *)

Exists(path) == disk[path] # Absent

\* load: a plain wallet needs no password.
Loads(path, pw) ==
    \/ disk[path].kind = "plain"
    \/ disk[path].kind = "encrypted" /\ disk[path].password = pw

At(p, pc) == proc[p].pc = pc
Goto(p, pc) == proc' = [proc EXCEPT ![p].pc = pc]
Fail(p) == Goto(p, "failed")

-----------------------------------------------------------------------------
(* The wallet commands.  "view" stands for address, verify, sign-transfer   *)
(* and submit, which only load.                                            *)

Command(c) ==
    /\ At(c.by, "idle")
    /\ proc' = [proc EXCEPT ![c.by] =
                  [pc |-> IF c.cmd = "create" THEN "check" ELSE "load", cmd |-> c.cmd,
                   src |-> c.src, dst |-> c.dst, password |-> c.password,
                   data |-> Absent,     \* the keys it holds
                   saw |-> Absent]]     \* history: the destination when it looked
    /\ UNCHANGED <<disk, keys, starts, history, overwritten>>

\* Mutant: a wallet that does not load is replaced.
LoadFailed_replace(p) ==
    IF p = Node THEN /\ keys' = keys + 1
                     /\ proc' = [proc EXCEPT ![p].pc = "open",
                                   ![p].data = Encrypted(keys', proc[p].password),
                                   ![p].saw = disk[proc[p].dst]]
    ELSE Fail(p) /\ UNCHANGED keys
LoadFailed(p) == Fail(p) /\ UNCHANGED keys

\* Mutant: a copy is not preceded by a load.
SourceLoads_copyUnchecked(p) ==
    proc[p].cmd \in {"backup", "restore"} \/ Loads(proc[p].src, proc[p].password)
SourceLoads(p) == Loads(proc[p].src, proc[p].password)

\* load(source): for the node, the miner's keys.
Load(p) ==
    /\ At(p, "load")
    /\ IF ~SourceLoads(p) THEN LoadFailed(p)
       ELSE /\ proc' = [proc EXCEPT ![p].data = disk[proc[p].src],
                          ![p].pc = CASE proc[p].cmd = "node" -> "mining"
                                      [] proc[p].cmd = "view" -> "done"
                                      [] OTHER -> "check"]
            /\ UNCHANGED keys
    /\ UNCHANGED <<disk, starts, history, overwritten>>

\* Mutant: create does not look whether there is a wallet.
Refused_createUnchecked(p) == Exists(proc[p].dst) /\ proc[p].cmd # "create"
Refused(p) == Exists(proc[p].dst)

\* Mutant: the node's keys are not saved.
Generate_unsaved(p) ==
    /\ keys' = keys + 1
    /\ IF proc[p].password = Unset THEN Fail(p)
       ELSE proc' = [proc EXCEPT ![p].pc = IF p = Node THEN "mining" ELSE "open",
                       ![p].data = Encrypted(keys', proc[p].password),
                       ![p].saw = disk[proc[p].dst]]

\* Mutant: keys are encrypted without a password.
Generate_anyPassword(p) ==
    /\ keys' = keys + 1
    /\ proc' = [proc EXCEPT ![p].pc = "open",
                  ![p].data = Encrypted(keys', proc[p].password),
                  ![p].saw = disk[proc[p].dst]]

\* Fresh keys, encrypted with the password, which must be set.
Generate(p) ==
    /\ keys' = keys + 1
    /\ IF proc[p].password = Unset THEN Fail(p)
       ELSE proc' = [proc EXCEPT ![p].pc = "open",
                       ![p].data = Encrypted(keys', proc[p].password),
                       ![p].saw = disk[proc[p].dst]]

\* Path::exists.  A command refuses to write to what is there, the node loads
\* it; otherwise the destination is written.
Check(p) ==
    /\ At(p, "check")
    /\ \/ /\ Refused(p)
          /\ Goto(p, IF p = Node THEN "load" ELSE "failed")
          /\ UNCHANGED keys
       \/ /\ ~Refused(p) /\ proc[p].cmd \in {"backup", "restore"}
          /\ proc' = [proc EXCEPT ![p].pc = "open", ![p].saw = disk[proc[p].dst]]
          /\ UNCHANGED keys
       \/ /\ ~Refused(p) /\ proc[p].cmd \in {"create", "node"}
          /\ Generate(p)
    /\ UNCHANGED <<disk, starts, history, overwritten>>

Complete(f) == f.kind \in {"plain", "encrypted"}
Overwrites(path) == overwritten' = IF Complete(disk[path]) THEN overwritten \cup {path}
                                   ELSE overwritten

\* fs::write and fs::copy empty the destination when they open it ...
Open(p) ==
    /\ At(p, "open")
    /\ disk' = [disk EXCEPT ![proc[p].dst] = Torn]
    /\ Overwrites(proc[p].dst)
    /\ Goto(p, "fill")
    /\ UNCHANGED <<keys, starts, history>>

\* ... and then write from its start.  A plain wallet is shorter than an
\* encrypted one, the end of which stays if both were written.
Written(old, new) == IF old.kind = "encrypted" /\ new.kind = "plain" THEN Torn ELSE new

\* A copy copies what the source holds now.  The node has written its identity
\* or its wallet.
Fill(p) ==
    LET q == proc[p]
        data == IF q.cmd \in {"backup", "restore"} THEN disk[q.src] ELSE q.data
    IN
    /\ At(p, "fill")
    /\ disk' = [disk EXCEPT ![q.dst] = Written(@, data)]
    /\ Goto(p, IF q.dst = IDENTITY_KEY_PATH THEN "dial"
               ELSE CASE q.cmd = "node" -> "mining"
                      [] q.cmd = "restore" -> "reload"
                      [] OTHER -> "done")
    /\ Overwrites(q.dst)
    /\ UNCHANGED <<keys, starts, history>>

\* restore loads what it has written.
Reload(p) ==
    /\ At(p, "reload")
    /\ Goto(p, IF Loads(proc[p].dst, proc[p].password) THEN "done" ELSE "failed")
    /\ UNCHANGED <<disk, keys, starts, history, overwritten>>

-----------------------------------------------------------------------------
(* The node. *)

StartNode(pw) ==
    /\ proc[Node].pc \in {"idle", "failed", "killed"}
    /\ starts < MaxStarts
    /\ starts' = starts + 1
    /\ proc' = [proc EXCEPT ![Node] =
                  [pc |-> "identity", cmd |-> "node", src |-> MINER_WALLET_PATH,
                   dst |-> IDENTITY_KEY_PATH, password |-> pw,
                   data |-> Absent, saw |-> Absent]]
    /\ UNCHANGED <<disk, keys, history, overwritten>>

\* Mutant: the identity is always a new one.
IdentityReadable_never == FALSE
IdentityReadable == disk[IDENTITY_KEY_PATH].kind = "plain"

\* load_or_create_identity: a file that cannot be parsed is replaced.
LoadIdentity ==
    /\ At(Node, "identity")
    /\ IF IdentityReadable
       THEN /\ proc' = [proc EXCEPT ![Node].pc = "dial", ![Node].data = disk[IDENTITY_KEY_PATH]]
            /\ UNCHANGED keys
       ELSE /\ proc' = [proc EXCEPT ![Node].pc = "open", ![Node].data = Plain(keys + 1),
                          ![Node].saw = disk[IDENTITY_KEY_PATH]]
            /\ keys' = keys + 1
    /\ UNCHANGED <<disk, starts, history, overwritten>>

NoSignature == [by |-> "nobody"]

\* Mutant: that there is a signature is enough.
verify_signature_present(c) == c.signing_key # "" /\ c.signature # NoSignature

\* The signature is one of the file's other fields, by the key it names.
canonical_payload(c) == [network |-> c.network, seeds |-> c.seeds]
verify_signature(c) ==
    /\ c.signing_key # "" /\ c.signature # NoSignature
    /\ c.signature = [by |-> c.signing_key, of |-> canonical_payload(c)]

\* load_bootstrap_config: no file means the defaults, and so does a file that
\* does not parse or verify.  Its network is not compared with the node's.
load_bootstrap_config(file) ==
    IF file.kind = "config" /\ verify_signature(file) THEN file.seeds ELSE DefaultSeeds

\* Mutant: without a valid file there is no start-up.
Dial_fileRequired(file) ==
    /\ At(Node, "dial")
    /\ announced' = announced \cup {proc[Node].data.key}
    /\ IF file.kind = "config" /\ verify_signature(file)
       THEN /\ dialed' = dialed \cup ListedPeers \cup file.seeds
            /\ proc' = [proc EXCEPT ![Node].pc = "check", ![Node].dst = MINER_WALLET_PATH]
       ELSE Fail(Node) /\ UNCHANGED dialed
    /\ UNCHANGED <<disk, keys, starts, earned, overwritten>>

\* The swarm is on the network with its identity, and dials.
Dial(file) ==
    /\ At(Node, "dial")
    /\ announced' = announced \cup {proc[Node].data.key}
    /\ dialed' = dialed \cup ListedPeers \cup load_bootstrap_config(file)
    /\ proc' = [proc EXCEPT ![Node].pc = "check", ![Node].dst = MINER_WALLET_PATH]
    /\ UNCHANGED <<disk, keys, starts, earned, overwritten>>

\* A block's reward goes to the miner's key.
Mine ==
    /\ At(Node, "mining")
    /\ earned' = earned \cup {proc[Node].data.key}
    /\ UNCHANGED <<disk, proc, keys, starts, dialed, announced, overwritten>>

\* A process is killed.
Kill(p) ==
    /\ proc[p].pc \notin {"idle", "done", "failed", "killed"}
    /\ Goto(p, "killed")
    /\ UNCHANGED <<disk, keys, starts, history, overwritten>>

-----------------------------------------------------------------------------

Step(p) == Load(p) \/ Check(p) \/ Open(p) \/ Fill(p) \/ Reload(p)
NodeStep == Step(Node) \/ LoadIdentity \/ (\E f \in ConfigFiles : Dial(f))

Next ==
    \/ \E c \in Commands : Command(c)
    \/ \E p \in Tools : Step(p)
    \/ \E pw \in NodePasswords : StartNode(pw)
    \/ NodeStep
    \/ Mine
    \/ \E p \in Tools \cup {Node} : Kill(p)

\* A process that was started goes on until it ends or is killed.
Fairness == WF_vars(NodeStep) /\ \A p \in Tools : WF_vars(Step(p))

Spec == Init /\ [][Next]_vars /\ Fairness

-----------------------------------------------------------------------------
(* Properties. *)

TypeOK ==
    /\ \A p \in Wallets : disk[p] \in Files(keys)
    /\ disk[IDENTITY_KEY_PATH] \in {Absent, Torn} \cup {Plain(k) : k \in 1..keys}
    /\ \A p \in Tools \cup {Node} : proc[p] # NotStarted =>
          /\ proc[p].cmd \in {"node", "create", "view", "backup", "restore"}
          /\ {proc[p].src, proc[p].dst} \subseteq Paths
          /\ proc[p].data \in Files(keys)
    /\ announced \cup earned \subseteq 1..keys

\* Keys are not destroyed: a complete wallet or identity is written over only by
\* a process that found nothing there when it looked, before another completed
\* the file (nothing holds a path between Path::exists and fs::write).  In
\* particular a wallet that the password does not open is never replaced.
KeysSurvive ==
    [][\A path \in Paths :
          Complete(disk[path]) /\ disk'[path] # disk[path] =>
             \E p \in DOMAIN proc : /\ proc[p].pc \in {"open", "fill"}
                                    /\ proc[p].dst = path
                                    /\ proc'[p] # proc[p]
                                    /\ proc[p].saw = Absent]_vars

\* "This is what makes mining rewards durable across restarts": the keys the node
\* has ever mined to are those in its wallet file, whatever was killed half way
\* and however often the node is started, unless a racing command wrote over it.
RewardsDurable ==
    \A k \in earned : MINER_WALLET_PATH \in overwritten
                         \/ (Complete(disk[MINER_WALLET_PATH]) /\ disk[MINER_WALLET_PATH].key = k)

\* "Keeps Peer ID stable across restarts": a file left torn by a kill is replaced,
\* but the identity it should have held was never used.
OnePeerId == Cardinality(announced) <= 1

\* When backup or restore reports success, the destination holds the keys that
\* were loaded from the source and loads with the same password, unless another
\* command wrote over one of the two files.
CopiesFaithful ==
    \A p \in Tools :
        At(p, "done") /\ proc[p].cmd \in {"backup", "restore"}
        /\ {proc[p].src, proc[p].dst} \cap overwritten = {}
           => disk[proc[p].dst] = proc[p].data /\ Loads(proc[p].dst, proc[p].password)

\* A seed that is dialed was compiled in, listed by the operator, or is in a file
\* that was signed as it stands; an edited file is not used in part.
SeedsVouched ==
    dialed \subseteq ListedPeers \cup DefaultSeeds
        \cup UNION {f.signature.of.seeds : f \in {g \in ConfigFiles :
                        g.kind = "config" /\ g.signature.by = g.signing_key}}

\* A node whose wallet loads gets to mining, whatever the bootstrap file holds and
\* in whatever state its identity was left: neither stops the start-up.
Settled == proc[Node].pc \in {"mining", "killed"} \/ MINER_WALLET_PATH \in overwritten
HealthyStarts ==
    (At(Node, "identity") /\ Loads(MINER_WALLET_PATH, proc[Node].password)) ~> Settled
=============================================================================
