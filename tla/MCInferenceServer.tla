-------------------------- MODULE MCInferenceServer --------------------------
(***************************************************************************)
(* Small instances of InferenceServer for TLC.                             *)
(***************************************************************************)
EXTENDS InferenceServer, TLC

CONSTANTS agent, server, owner, q1

MCAccounts == {agent, server, owner}
MCRequests == {q1}

GoodPayments ==
    {PaymentTx(agent, server, p, a) : p \in {HitPrice, FullPrice}, a \in Address}

(* The full price for the first address of q1.                             *)
InFull == PaymentTx(agent, server, FullPrice, <<q1, 0>>)

(* One that failed, one that delivered part of what it names, and one each *)
(* in the wrong asset, to the wrong destination, with another memo first.  *)
OddPayments ==
    {[InFull EXCEPT !.result = "tecFAILED", !.delivered = 0],
     [InFull EXCEPT !.delivered = HitPrice],
     [InFull EXCEPT !.asset = IF XrpFallback THEN Rlusd ELSE Xrp],
     [InFull EXCEPT !.destination = owner],
     [InFull EXCEPT !.memos = <<NoAddress, <<q1, 1>>, <<q1, 0>>>>]}

ClientPayments == GoodPayments \cup OddPayments

FirstHourPayments == {p \in GoodPayments : p.memos = <<<<q1, 0>>>>}

CallSymmetry == Permutations(Calls) \cup Permutations(TxIds) \cup Permutations(Texts)
=============================================================================
