------------------------------- MODULE MCRpc -------------------------------
(* Three connections, two of them from one address that may have one, two  *)
(* permits, one request per window and one transaction.                    *)
EXTENDS Rpc

MCMaxLines == [c1 |-> 3, c2 |-> 0, c3 |-> 1]
MCIpOf == [c1 |-> "ip1", c2 |-> "ip1", c3 |-> "ip2"]

Call(m, t) == [kind |-> "call", method |-> m, token |-> t]
TxCall(m, t) == [kind |-> "call", method |-> m, tx |-> "t1", token |-> t]

MCLines ==
    { [kind |-> "oversized"], [kind |-> "garbled"],
      Call("version", FALSE), Call("refused", TRUE),
      TxCall("submit", TRUE), TxCall("submit", FALSE), TxCall("status", TRUE) }
=============================================================================
