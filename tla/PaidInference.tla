---------------------------- MODULE PaidInference ----------------------------
(***************************************************************************)
(* agentlevy/inference/agent.py against the server: InferenceAgent.complete *)
(* asks for a quote, pays it on the ledger and presents the transaction.   *)
(* Each agent makes one call to complete(), hence at most two HTTP calls.  *)
(* An agent that calls twice is two agents.                                *)
(***************************************************************************)
EXTENDS InferenceServer

CONSTANT Agents   \* the wallets of the agents

QuoteCall(a) == <<a, "quote">>
PaidCall(a) == <<a, "paid">>

(* What agents pay is among what the ledger may be sent.                   *)
ASSUME AgentAssumption ==
    /\ Agents \subseteq Accounts
    /\ Calls = Agents \X {"quote", "paid"}
    /\ \A a \in Agents, price \in {HitPrice, FullPrice}, addr \in Address :
         PaymentTx(a, ServerWallet, price, addr) \in Payments

VARIABLES
    agent,     \* how far each agent is in complete()
    payment    \* pay_result.txid

agentVars == <<agent, payment>>

AgentTypeOK ==
    /\ TypeOK
    /\ agent \in [Agents -> {"idle", "quoting", "quoted", "paid", "retrying",
                             "done", "raised"}]
    /\ payment \in [Agents -> TxIds \cup {None}]

AgentInit ==
    /\ Init
    /\ agent = [a \in Agents |-> "idle"]
    /\ payment = [a \in Agents |-> None]

Becomes(a, state) == agent' = [agent EXCEPT ![a] = state]

(* The first POST, without an X-Payment header.                            *)
AskQuote(a, r) ==
    /\ agent[a] = "idle"
    /\ Receive(QuoteCall(a), r, None)
    /\ Becomes(a, "quoting")
    /\ UNCHANGED payment

(* Anything but a 402 quote raises.                                        *)
ReadQuote(a) ==
    /\ agent[a] = "quoting"
    /\ call[QuoteCall(a)].pc \in Answered
    /\ Becomes(a, IF call[QuoteCall(a)].pc = "quoted" THEN "quoted" ELSE "raised")
    /\ UNCHANGED <<vars, payment>>

(* pay_rlusd of the quoted price for the quoted address.  submit_and_wait  *)
(* may raise although the payment was applied.                             *)
Pay(a, x) ==
    /\ agent[a] = "quoted"
    /\ LET q == call[QuoteCall(a)] IN
         Submit(x, PaymentTx(a, ServerWallet, PriceFor(q.hit), q.addr))
    /\ payment' = [payment EXCEPT ![a] = x]
    /\ \E state \in {"paid", "raised"} : Becomes(a, state)

(* The payment raises, or its result is not tesSUCCESS.                    *)
PayFails(a) ==
    /\ agent[a] = "quoted"
    /\ Becomes(a, "raised")
    /\ UNCHANGED <<vars, payment>>

(* The second POST: the same body, with the transaction hash.              *)
Retry(a) ==
    /\ agent[a] = "paid"
    /\ Receive(PaidCall(a), call[QuoteCall(a)].addr[1], payment[a])
    /\ Becomes(a, "retrying")
    /\ UNCHANGED payment

(* Anything but a 200 raises; the payment is not tried again.              *)
ReadAnswer(a) ==
    /\ agent[a] = "retrying"
    /\ call[PaidCall(a)].pc \in Answered
    /\ Becomes(a, IF call[PaidCall(a)].pc = "served" THEN "done" ELSE "raised")
    /\ UNCHANGED <<vars, payment>>

(* The 30 s of http_timeout pass; the handler in the server goes on.       *)
TimeOut(a) ==
    /\ agent[a] \in {"quoting", "retrying"}
    /\ Becomes(a, "raised")
    /\ UNCHANGED <<vars, payment>>

AgentStep(a) ==
    \/ ReadQuote(a) \/ PayFails(a) \/ Retry(a) \/ ReadAnswer(a) \/ TimeOut(a)
    \/ \E x \in TxIds : Pay(a, x)

SystemNext ==
    \/ \E a \in Agents : AgentStep(a) \/ \E r \in Requests : AskQuote(a, r)
    \/ (Server \/ Tick \/ Restart) /\ UNCHANGED agentVars

SystemSpec == AgentInit /\ [][SystemNext]_<<vars, agentVars>>

-----------------------------------------------------------------------------
(* A payment of exactly the quote is refused only if the hour changed or   *)
(* the server restarted between quote and retry.  Whatever other agents    *)
(* do in between, they can only make the request cheaper (server.py 261,   *)
(* 318-326).  The other 402 is left out: the ledger could not be asked     *)
(* ("unverified", server.py 327-333, payment.py 396-402).                  *)
QuoteHonoured ==
    \A a \in Agents :
        call[PaidCall(a)].pc = "rejected" =>
            \/ call[PaidCall(a)].addr # call[QuoteCall(a)].addr
            \/ call[PaidCall(a)].epoch # call[QuoteCall(a)].epoch

(* An agent that returns has the completion of what it asked and paid for, *)
(* and was charged the full price for another call's work only if that     *)
(* work was stored after its quote: a quoted hit is never a full charge    *)
(* (agent.py 136-189).                                                     *)
DoneIsSettled ==
    \A a \in Agents : agent[a] = "done" =>
        LET q == call[QuoteCall(a)]  p == call[PaidCall(a)] IN
        /\ p.addr = q.addr
        /\ ledger[payment[a]] = PaymentTx(a, ServerWallet, PriceFor(q.hit), q.addr)
        /\ p.hit \/ ~ q.hit
=============================================================================
