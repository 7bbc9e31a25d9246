----------------------------- MODULE MCStartup -----------------------------
(* A node that starts twice and two wallet commands, on the miner's wallet *)
(* and one other path; t1 and t2 run any of these, with and without the    *)
(* right password.  The bootstrap file is any of six.                      *)
EXTENDS Startup

MCInitialWallets ==
    LET On(w, v) == [path \in Wallets |-> IF path = MINER_WALLET_PATH THEN w ELSE v]
    IN  { On(Absent, Absent), On(Encrypted(1, "pw"), Absent), On(Absent, Plain(1)) }

Run(p, c, s, d, pw) == [by |-> p, cmd |-> c, src |-> s, dst |-> d, password |-> pw]
MCCommands ==
    { Run("t1", "create", "miner", "miner", "pw2"), Run("t1", "create", "other", "other", "pw"),
      Run("t1", "restore", "other", "miner", "pw"), Run("t1", "view", "miner", "miner", "pw2"),
      Run("t2", "backup", "miner", "other", "pw"), Run("t2", "create", "miner", "miner", Unset) }

Signed(seeds) == [kind |-> "config", network |-> "testnet", seeds |-> seeds, signing_key |-> "k",
                  signature |-> [by |-> "k", of |-> [network |-> "testnet", seeds |-> seeds]]]

MCConfigFiles ==
    { [kind |-> "missing"], [kind |-> "garbled"],
      Signed({"s1"}),
      [Signed({"s1"}) EXCEPT !.seeds = {"s1", "edited"}],
      [Signed({"s1"}) EXCEPT !.signing_key = "other"],
      [Signed({"unsigned"}) EXCEPT !.signature = NoSignature] }
=============================================================================
