--------------------------- MODULE MCPaidInference ---------------------------
(***************************************************************************)
(* Small instances of PaidInference for TLC.                               *)
(***************************************************************************)
EXTENDS PaidInference, TLC

CONSTANTS server, owner, q1

MCAccounts == Agents \cup {server, owner}
MCRequests == {q1}
MCCalls == Agents \X {"quote", "paid"}

AgentPayments ==
    {PaymentTx(a, server, p, addr) : a \in Agents, p \in {HitPrice, FullPrice},
                                     addr \in Address}

AgentSymmetry == Permutations(Agents) \cup Permutations(TxIds) \cup Permutations(Texts)
=============================================================================
