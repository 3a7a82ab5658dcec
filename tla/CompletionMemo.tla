---------------------------- MODULE CompletionMemo ----------------------------
(***************************************************************************)
(* What the inference service promises its clients, in one step each: a    *)
(* memo with at most one completion per request address, which is filled   *)
(* and answers only while the ledger has a successful payment bound to     *)
(* that address, of the full price or the price of a hit as named, and     *)
(* which may forget but never change its mind.                             *)
(***************************************************************************)
EXTENDS Payment

CONSTANTS Calls, Address, Texts, TxIds, None

VARIABLES memo,    \* the completion known for each address
          answer,  \* what each call was answered: an address and a text
          paid     \* the ledger

Bound(amount, a) == \E x \in TxIds : paid[x] # None /\ Verified(paid[x], amount, a)

MemoInit ==
    /\ memo = [a \in Address |-> None]
    /\ answer = [c \in Calls |-> None]
    /\ paid = [x \in TxIds |-> None]

Learn(a, t) ==
    /\ memo[a] = None
    /\ Bound(FullPrice, a)
    /\ memo' = [memo EXCEPT ![a] = t]
    /\ UNCHANGED <<answer, paid>>

Answer(c, a) ==
    /\ answer[c] = None
    /\ memo[a] # None
    /\ Bound(HitPrice, a)
    /\ answer' = [answer EXCEPT ![c] = <<a, memo[a]>>]
    /\ UNCHANGED <<memo, paid>>

(* A payment between any two accounts is validated.                        *)
Settle(x) ==
    /\ paid[x] = None
    /\ \A y \in TxIds \ {x} : paid'[y] = paid[y]
    /\ paid' = [y \in TxIds |-> paid'[y]]
    /\ UNCHANGED <<memo, answer>>

Forget ==
    /\ memo' = [a \in Address |-> None]
    /\ UNCHANGED <<answer, paid>>

MemoNext ==
    \/ \E a \in Address, t \in Texts : Learn(a, t)
    \/ \E a \in Address, c \in Calls : Answer(c, a)
    \/ \E x \in TxIds : Settle(x)
    \/ Forget

MemoSpec == MemoInit /\ [][MemoNext]_<<memo, answer, paid>>
=============================================================================
