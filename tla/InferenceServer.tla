--------------------------- MODULE InferenceServer ---------------------------
(***************************************************************************)
(* agentlevy/inference/server.py: POST /complete, one thread per call.     *)
(* FastAPI runs the synchronous handler in a thread pool, so the handlers  *)
(* of several calls interleave between any two accesses to what they       *)
(* share: the cert store, the certificates in it, the event log and the    *)
(* ledger.  Royalties are paid by a daemon thread per served call.         *)
(*                                                                         *)
(* A request address is the hash of (model, prompt, temperature, hour);    *)
(* here it is the pair <<request, hour>>.  A certificate is an object, and *)
(* is named by the call that minted it.  The ledger holds validated        *)
(* transactions only: one that is not validated yet is refused like one    *)
(* that does not exist.                                                    *)
(***************************************************************************)
EXTENDS Payment, FiniteSets

CONSTANTS
    Calls,             \* HTTP calls to /complete
    Requests,          \* request bodies: model, prompt and temperature
    Texts,             \* what the model may answer
    TxIds,             \* transaction hashes
    Accounts,          \* classic addresses
    Payments,          \* the transactions that clients may submit
    NftOwner,          \* ModelNFTConfig: who receives royalties
    RoyaltyEnabled,    \* ServerConfig.royalty_enabled
    HcsAnchorEnabled,  \* ServerConfig.hcs_anchor_enabled
    MaxHour,           \* bound: the clock stops at this hour
    MaxRestarts,       \* bound: how often the server process restarts
    None               \* no value

VARIABLES
    hour,     \* the UTC hour bucket
    epoch,    \* how often the server process has restarted
    store,    \* CertStore._entries
    meta,     \* _settlement_metadata of each certificate object: its txid
    call,     \* the handler frame of each call; when it ends, its answer
    royalty,  \* the royalty thread of each call
    events,   \* EventLog: which call pushed which kind of event
    ledger,   \* XRPL: the validated transactions
    topic     \* Hedera topic: the certificates anchored there

vars == <<hour, epoch, store, meta, call, royalty, events, ledger, topic>>

Address == Requests \X (0..MaxHour)

ASSUME ConfigAssumption ==
    /\ RoyaltyEnabled \in BOOLEAN /\ HcsAnchorEnabled \in BOOLEAN
    /\ MaxHour \in Nat /\ MaxRestarts \in Nat
    /\ ServerWallet \in Accounts /\ NftOwner \in Accounts
    /\ NoAddress \notin Address

ASSUME NoneAssumption ==
    /\ None \notin Calls /\ None \notin TxIds /\ None \notin Address
    /\ None \notin Texts
    /\ None \notin [cert: Calls, text: Texts, hits: Nat]
    /\ None \notin Transactions(Accounts, Address)

(* Only the server signs for its own wallet.                               *)
ASSUME PaymentsAssumption ==
    /\ Payments \subseteq Transactions(Accounts, Address)
    /\ \A p \in Payments : p.account # ServerWallet

Store == INSTANCE CertStore WITH entries <- store, CertId <- Calls,
                                 Text <- Texts, Absent <- None

(* How a call ends: 200; 402 with a quote; 402 because the payment does    *)
(* not check or cannot be looked up; 500; no answer from a dead process.   *)
Answered == {"served", "quoted", "rejected", "unverified", "failed", "lost"}
Running == {"received", "quote", "verify", "get", "log_hit", "infer", "mint",
            "anchor", "put", "attach", "royalty", "respond"}

EventKinds == {"REQUEST_QUOTED", "UOR_MCPS_RECEIPT", "PAYMENT_VALIDATED",
               "CACHE_HIT", "CERT_MINTED", "HCS_ANCHORED", "ROYALTY_DISPATCHED"}

Frame == [pc: {"new"} \cup Running \cup Answered, addr: Address \cup {None},
          tx: TxIds \cup {None}, hit: BOOLEAN, text: Texts \cup {None},
          cert: Calls \cup {None}, epoch: 0..MaxRestarts]

TypeOK ==
    /\ hour \in 0..MaxHour
    /\ epoch \in 0..MaxRestarts
    /\ Store!StoreTypeOK
    /\ meta \in [Calls -> TxIds \cup {None}]
    /\ call \in [Calls -> Frame]
    /\ royalty \in [Calls -> {"none", "started", "submitted", "paid",
                              "skipped", "failed", "lost"}]
    /\ events \subseteq EventKinds \X Calls
    /\ ledger \in [TxIds -> Transactions(Accounts, Address) \cup {None}]
    /\ topic \subseteq Calls

Init ==
    /\ hour = 0
    /\ epoch = 0
    /\ Store!StoreInit
    /\ meta = [c \in Calls |-> None]
    /\ call = [c \in Calls |->
                 [pc |-> "new", addr |-> None, tx |-> None, hit |-> FALSE,
                  text |-> None, cert |-> None, epoch |-> 0]]
    /\ royalty = [c \in Calls |-> "none"]
    /\ events = {}
    /\ ledger = [x \in TxIds |-> None]
    /\ topic = {}

-----------------------------------------------------------------------------
Update(c, frame) == call' = [call EXCEPT ![c] = frame]
Goto(c, pc) == Update(c, [call[c] EXCEPT !.pc = pc])
Push(kind, c) == events' = events \cup {<<kind, c>>}

(* Faulty: the time is rounded up to the hour, not down.                   *)
NextHourAddress(r) == <<r, hour + 1>>

(* build_request_dict and compute_request_address: the bucket is taken     *)
(* from the clock when the handler starts, not from the quote.             *)
RequestAddress(r) == <<r, hour>>

Receive(c, r, x) ==
    /\ call[c].pc = "new"
    /\ Update(c, [call[c] EXCEPT !.pc = "received", !.addr = RequestAddress(r),
                                 !.tx = x, !.epoch = epoch])
    /\ UNCHANGED <<hour, epoch, store, meta, royalty, events, ledger, topic>>

(* Faulty: the cache is searched without the hour of the request.          *)
IsHitAnyHour(c) == \E h \in 0..MaxHour : Store!Has(<<call[c].addr[1], h>>)

IsHit(c) == Store!Has(call[c].addr)

(* The one look at the cache: is_hit prices, verifies and routes the call. *)
Peek(c) ==
    /\ call[c].pc = "received"
    /\ Update(c, [call[c] EXCEPT !.hit = IsHit(c),
                   !.pc = IF call[c].tx = None THEN "quote" ELSE "verify"])
    /\ UNCHANGED <<hour, epoch, store, meta, royalty, events, ledger, topic>>

(* 402 with PriceFor(is_hit), after a slow call to the UOR MCP server.     *)
Quote(c) ==
    /\ call[c].pc = "quote"
    /\ Goto(c, "quoted")
    /\ events' = events \cup ({"REQUEST_QUOTED", "UOR_MCPS_RECEIPT"} \X {c})
    /\ UNCHANGED <<hour, epoch, store, meta, royalty, ledger, topic>>

(* Faulty: every call is checked at the price of a hit.                    *)
AcceptedAsHit(c) ==
    ledger[call[c].tx] # None
    /\ Verified(ledger[call[c].tx], HitPrice, call[c].addr)

(* The payment that call c presents is on the ledger and passes.           *)
Accepted(c) ==
    /\ ledger[call[c].tx] # None
    /\ Verified(ledger[call[c].tx], PriceFor(call[c].hit), call[c].addr)

AcceptPayment(c) ==
    /\ call[c].pc = "verify"
    /\ Accepted(c)
    /\ Goto(c, IF call[c].hit THEN "get" ELSE "infer")
    /\ Push("PAYMENT_VALIDATED", c)
    /\ UNCHANGED <<hour, epoch, store, meta, royalty, ledger, topic>>

RejectPayment(c) ==
    /\ call[c].pc = "verify"
    /\ ~ Accepted(c)
    /\ Goto(c, "rejected")
    /\ UNCHANGED <<hour, epoch, store, meta, royalty, events, ledger, topic>>

(* fetch_tx finds no such transaction, or its RuntimeError says so: 402    *)
(* as above.  Any other error of the client ends the call: 500.            *)
LookupFails(c) ==
    /\ call[c].pc = "verify"
    /\ \E pc \in {"unverified", "failed"} : Goto(c, pc)
    /\ UNCHANGED <<hour, epoch, store, meta, royalty, events, ledger, topic>>

-----------------------------------------------------------------------------
(* The frame once the handler holds the stored entry of its address.       *)
WithEntry(c, pc) ==
    [call[c] EXCEPT !.pc = pc, !.text = store[call[c].addr].text,
                    !.cert = store[call[c].addr].cert]

(* Faulty: the entry is read with peek() and the hit not counted.          *)
ServeHitUncounted(c) ==
    /\ call[c].pc = "get"
    /\ Update(c, WithEntry(c, "log_hit"))
    /\ UNCHANGED <<hour, epoch, store, meta, royalty, events, ledger, topic>>

(* Hit: cert_store.get() counts the hit and hands out the stored object.   *)
ServeHit(c) ==
    /\ call[c].pc = "get"
    /\ Store!Get(call[c].addr)
    /\ Update(c, WithEntry(c, "log_hit"))
    /\ UNCHANGED <<hour, epoch, meta, royalty, events, ledger, topic>>

(* The event is pushed after the lock.  Then the mirror is written, which  *)
(* MirrorDump models: nothing here reads it.                               *)
LogHit(c) ==
    /\ call[c].pc = "log_hit"
    /\ Goto(c, "royalty")
    /\ Push("CACHE_HIT", c)
    /\ UNCHANGED <<hour, epoch, store, meta, royalty, ledger, topic>>

-----------------------------------------------------------------------------
(* Miss: the model answers anything, twice the same question included.     *)
RunInference(c) ==
    /\ call[c].pc = "infer"
    /\ \E t \in Texts :
         Update(c, [call[c] EXCEPT !.pc = "mint", !.text = t])
    /\ UNCHANGED <<hour, epoch, store, meta, royalty, events, ledger, topic>>

(* messages.create raises: 500, and the payment stays on the ledger.       *)
InferenceFails(c) ==
    /\ call[c].pc = "infer"
    /\ Goto(c, "failed")
    /\ UNCHANGED <<hour, epoch, store, meta, royalty, events, ledger, topic>>

(* Faulty: the event is left to the anchoring step.                        *)
MintCertSilently(c) ==
    /\ call[c].pc = "mint"
    /\ Update(c, [call[c] EXCEPT !.cert = c,
                   !.pc = IF HcsAnchorEnabled THEN "anchor" ELSE "put"])
    /\ UNCHANGED <<hour, epoch, store, meta, royalty, events, ledger, topic>>

(* build_inference_cert, sign and the event.                               *)
MintCert(c) ==
    /\ call[c].pc = "mint"
    /\ Update(c, [call[c] EXCEPT !.cert = c,
                   !.pc = IF HcsAnchorEnabled THEN "anchor" ELSE "put"])
    /\ Push("CERT_MINTED", c)
    /\ UNCHANGED <<hour, epoch, store, meta, royalty, ledger, topic>>

(* cert.anchor() within the handler, before the certificate is stored.     *)
AnchorCert(c) ==
    /\ call[c].pc = "anchor"
    /\ Goto(c, "put")
    /\ topic' = topic \cup {c}
    /\ Push("HCS_ANCHORED", c)
    /\ UNCHANGED <<hour, epoch, store, meta, royalty, ledger>>

(* anchor() raises, before or after the topic has taken the message.       *)
AnchorFails(c) ==
    /\ call[c].pc = "anchor"
    /\ Goto(c, "put")
    /\ topic' \in {topic, topic \cup {c}}
    /\ UNCHANGED <<hour, epoch, store, meta, royalty, events, ledger>>

(* put() of an address that is not there yet.                              *)
StoreCert(c) ==
    /\ call[c].pc = "put"
    /\ Store!Put(call[c].addr, call[c].cert, call[c].text)
    /\ Goto(c, "attach")
    /\ UNCHANGED <<hour, epoch, meta, royalty, events, ledger, topic>>

(* Faulty: the caller's own completion is kept; an entry is adopted only   *)
(* if it is the caller's own completion.                                   *)
AdoptNothing(c) ==
    /\ call[c].pc = "put"
    /\ Store!Has(call[c].addr)
    /\ Goto(c, "attach")
    /\ UNCHANGED <<hour, epoch, store, meta, royalty, events, ledger, topic>>
AdoptOwn(c) ==
    /\ call[c].pc = "put"
    /\ Store!Has(call[c].addr) /\ store[call[c].addr].text = call[c].text
    /\ Goto(c, "attach")
    /\ UNCHANGED <<hour, epoch, store, meta, royalty, events, ledger, topic>>

(* put() raised ValueError: another call stored first, its entry is used.  *)
AdoptExisting(c) ==
    /\ call[c].pc = "put"
    /\ Store!Has(call[c].addr)
    /\ Update(c, WithEntry(c, "attach"))
    /\ UNCHANGED <<hour, epoch, store, meta, royalty, events, ledger, topic>>

(* attach_settlement_metadata on the object at hand, shared or not.        *)
AttachMetadata(c) ==
    /\ call[c].pc = "attach"
    /\ meta' = [meta EXCEPT ![call[c].cert] = call[c].tx]
    /\ Goto(c, "royalty")
    /\ UNCHANGED <<hour, epoch, store, royalty, events, ledger, topic>>

-----------------------------------------------------------------------------
(* _dispatch_royalty_best_effort starts the thread and returns.            *)
DispatchRoyalty(c) ==
    /\ call[c].pc = "royalty"
    /\ royalty' = IF RoyaltyEnabled THEN [royalty EXCEPT ![c] = "started"]
                                    ELSE royalty
    /\ Goto(c, "respond")
    /\ UNCHANGED <<hour, epoch, store, meta, events, ledger, topic>>

(* _render_completion: 200.                                                *)
Respond(c) ==
    /\ call[c].pc = "respond"
    /\ Goto(c, "served")
    /\ UNCHANGED <<hour, epoch, store, meta, royalty, events, ledger, topic>>

-----------------------------------------------------------------------------
(* Faulty: the whole price is handed on.                                   *)
RoyaltyTxWhole(c) == PaymentTx(ServerWallet, NftOwner,
                               PriceFor(call[c].hit), call[c].addr)

(* _do_royalty: the share of the price charged, with the same memo.        *)
RoyaltyTx(c) == PaymentTx(ServerWallet, NftOwner,
                          RoyaltyShare(PriceFor(call[c].hit)), call[c].addr)

RoyaltySkip(c) ==
    /\ royalty[c] = "started"
    /\ ~ RoyaltyPayable(NftOwner, RoyaltyShare(PriceFor(call[c].hit)))
    /\ royalty' = [royalty EXCEPT ![c] = "skipped"]
    /\ UNCHANGED <<hour, epoch, store, meta, call, events, ledger, topic>>

RoyaltySubmit(c, x) ==
    /\ royalty[c] = "started"
    /\ RoyaltyPayable(NftOwner, RoyaltyShare(PriceFor(call[c].hit)))
    /\ ledger[x] = None
    /\ ledger' = [ledger EXCEPT ![x] = RoyaltyTx(c)]
    /\ royalty' = [royalty EXCEPT ![c] = "submitted"]
    /\ UNCHANGED <<hour, epoch, store, meta, call, events, topic>>

RoyaltyLog(c) ==
    /\ royalty[c] = "submitted"
    /\ royalty' = [royalty EXCEPT ![c] = "paid"]
    /\ Push("ROYALTY_DISPATCHED", c)
    /\ UNCHANGED <<hour, epoch, store, meta, call, ledger, topic>>

(* Faulty: a retry without an idempotency key.                             *)
RoyaltyRetries(c) ==
    /\ royalty[c] \in {"started", "submitted"}
    /\ royalty' = [royalty EXCEPT ![c] = "started"]
    /\ UNCHANGED <<hour, epoch, store, meta, call, events, ledger, topic>>

(* pay_rlusd raises or reports no success, perhaps after the transaction   *)
(* was applied.  There is no retry.                                        *)
RoyaltyFails(c) ==
    /\ royalty[c] \in {"started", "submitted"}
    /\ royalty' = [royalty EXCEPT ![c] = "failed"]
    /\ UNCHANGED <<hour, epoch, store, meta, call, events, ledger, topic>>

-----------------------------------------------------------------------------
(* A client's transaction is validated.                                    *)
Submit(x, tx) ==
    /\ ledger[x] = None
    /\ ledger' = [ledger EXCEPT ![x] = tx]
    /\ UNCHANGED <<hour, epoch, store, meta, call, royalty, events, topic>>

Tick ==
    /\ hour < MaxHour
    /\ hour' = hour + 1
    /\ UNCHANGED <<epoch, store, meta, call, royalty, events, ledger, topic>>

(* The process dies and a new one starts: memory is lost, with the         *)
(* handlers and the daemon threads; ledger and topic are not.              *)
Restart ==
    /\ epoch < MaxRestarts
    /\ epoch' = epoch + 1
    /\ Store!Reset
    /\ meta' = [c \in Calls |-> None]
    /\ call' = [c \in Calls |-> IF call[c].pc \in Running
                                THEN [call[c] EXCEPT !.pc = "lost"]
                                ELSE call[c]]
    /\ royalty' = [c \in Calls |-> IF royalty[c] \in {"started", "submitted"}
                                   THEN "lost" ELSE royalty[c]]
    /\ events' = {}
    /\ UNCHANGED <<hour, ledger, topic>>

-----------------------------------------------------------------------------
Handle(c) ==
    \/ Peek(c) \/ Quote(c)
    \/ AcceptPayment(c) \/ RejectPayment(c) \/ LookupFails(c)
    \/ ServeHit(c) \/ LogHit(c)
    \/ RunInference(c) \/ InferenceFails(c)
    \/ MintCert(c) \/ AnchorCert(c) \/ AnchorFails(c)
    \/ StoreCert(c) \/ AdoptExisting(c) \/ AttachMetadata(c)
    \/ DispatchRoyalty(c) \/ Respond(c)

PayRoyalty(c) ==
    \/ RoyaltySkip(c)
    \/ \E x \in TxIds : RoyaltySubmit(c, x)
    \/ RoyaltyLog(c)
    \/ RoyaltyFails(c)

Server == \E c \in Calls : Handle(c) \/ PayRoyalty(c)

Clients ==
    \/ \E c \in Calls, r \in Requests, x \in TxIds \cup {None} : Receive(c, r, x)
    \/ \E x \in TxIds, tx \in Payments : Submit(x, tx)

Next == Server \/ Clients \/ Tick \/ Restart

Spec == Init /\ [][Next]_vars

(* A handler or a royalty thread that has started goes on: each waits only *)
(* on calls with a timeout, and the store's lock is never held while one.  *)
HandlerFair(c) == WF_vars(Handle(c))
RoyaltyFair(c) == WF_vars(PayRoyalty(c))

Fairness == \A c \in Calls : HandlerFair(c) /\ RoyaltyFair(c)

FairSpec == Spec /\ Fairness

-----------------------------------------------------------------------------
(* The state that clients can see, as the abstract memo.                   *)
Memo == INSTANCE CompletionMemo WITH
          memo <- [a \in Address |-> IF Store!Has(a) THEN store[a].text ELSE None],
          answer <- [c \in Calls |-> IF call[c].pc = "served"
                                     THEN <<call[c].addr, call[c].text>> ELSE None],
          paid <- ledger

(* The server implements the memo: however handlers interleave, each call  *)
(* is answered with the one completion of its address, and paid for.       *)
ImplementsMemo == Memo!MemoSpec

Served(c) == call[c].pc = "served"

(* All answers that one server process gives for one address carry the     *)
(* same completion and the same certificate, also those of calls that ran  *)
(* the inference concurrently (server.py 403-410).                         *)
Agreement ==
    \A c, d \in Calls :
        /\ Served(c) /\ Served(d)
        /\ call[c].addr = call[d].addr
        /\ call[c].epoch = call[d].epoch
        => call[c].text = call[d].text /\ call[c].cert = call[d].cert

(* Transaction x succeeded and names at least that amount for the server,  *)
(* under a memo of address a.  What it delivered is another matter.        *)
Backs(x, amount, a) ==
    /\ x # None /\ ledger[x] # None
    /\ ledger[x].type = "Payment" /\ ledger[x].result = "tesSUCCESS"
    /\ ledger[x].destination = ServerWallet
    /\ ledger[x].asset = SettlementAsset
    /\ ledger[x].value >= amount
    /\ \E i \in DOMAIN ledger[x].memos : ledger[x].memos[i] = a

(* A completion is handed out only against a payment bound to its own      *)
(* address that names the price charged, the full one if the call was no   *)
(* hit, over hours and restarts (payment.py 7-8: a payment for request A   *)
(* cannot unlock a completion for request B).  What it delivered may be    *)
(* less: nothing is said about that, since nothing reads it.               *)
ServedIsBound ==
    \A c \in Calls : Served(c) => Backs(call[c].tx, PriceFor(call[c].hit),
                                        call[c].addr)

(* Each stored certificate was minted by a call for its own address whose  *)
(* payment backs the full price, and a stamp on it is the payment of a     *)
(* call that missed there too and answers with this certificate, never of  *)
(* a hit, although handlers share the object (server.py 370-419).  The     *)
(* loser of a race does replace the winner's stamp by its own.             *)
StoreIsBound ==
    \A a \in Address : Store!Has(a) =>
        LET m == store[a].cert IN
        /\ call[m].addr = a /\ call[m].epoch = epoch
        /\ Backs(call[m].tx, FullPrice, a)
        /\ meta[m] # None =>
             /\ Backs(meta[m], FullPrice, a)
             /\ \E d \in Calls : /\ call[d].tx = meta[m] /\ call[d].addr = a
                                 /\ ~ call[d].hit /\ call[d].cert = m

(* A call routed as a hit by its one early look at the cache still finds   *)
(* the entry when it comes to serve it (the assertion at server.py 348).   *)
HitIsServable ==
    \A c \in Calls : call[c].pc = "get" => Store!Has(call[c].addr)

(* hit_count is the number of calls served from the entry: no concurrent   *)
(* hit is lost or counted twice (cert_store.py 109-120).                   *)
HitCountExact ==
    \A a \in Address : Store!Has(a) =>
        store[a].hits =
          Cardinality({c \in Calls :
             /\ call[c].addr = a /\ call[c].epoch = epoch /\ call[c].hit
             /\ call[c].pc \in {"log_hit", "royalty", "respond", "served"}})

(* At every moment the event log explains each CACHE_HIT by a CERT_MINTED  *)
(* of the same address that was pushed before it (server.py 349-385).      *)
HitAfterMint ==
    \A c \in Calls : <<"CACHE_HIT", c>> \in events =>
        \E d \in Calls : /\ <<"CERT_MINTED", d>> \in events
                         /\ call[d].addr = call[c].addr /\ ~ call[d].hit

SentByServer(x) == ledger[x] # None /\ ledger[x].account = ServerWallet

(* Each royalty on the ledger is for a call whose thread ran: it carries   *)
(* the address of that call and is no more than half of the price that the *)
(* call was charged, which its payment backs (royalty.py 74-77), over      *)
(* restarts, lost threads and royalties that raised.  Calls that present   *)
(* the same payment are charged, and pay royalties, one by one.            *)
RoyaltyIsBacked ==
    \A x \in TxIds : SentByServer(x) =>
        \E c \in Calls :
            /\ royalty[c] \in {"submitted", "paid", "failed", "lost"}
            /\ ledger[x].memos = <<call[c].addr>>
            /\ 2 * ledger[x].value <= PriceFor(call[c].hit)
            /\ Backs(call[c].tx, PriceFor(call[c].hit), call[c].addr)

(* No call pays its royalty twice: the royalties on the ledger for an      *)
(* address are at most its calls whose royalty thread has run.             *)
RoyaltyAtMostOnce ==
    \A a \in Address :
        Cardinality({x \in TxIds : SentByServer(x) /\ ledger[x].memos = <<a>>})
          <= Cardinality({c \in Calls : call[c].addr = a /\
                            royalty[c] \in {"submitted", "paid", "failed", "lost"}})

(* No completion is unlocked by money that the server sent itself, also    *)
(* when the server's wallet owns the model NFT (royalty.py 143).           *)
NoSelfFunding ==
    \A c \in Calls : Served(c) => ledger[call[c].tx].account # ServerWallet

(* Every call that reaches the server ends with an answer.                 *)
EveryCallEnds ==
    \A c \in Calls : call[c].pc \in Running ~> call[c].pc \in Answered

(* Every royalty thread comes to an end.                                   *)
EveryRoyaltyEnds ==
    \A c \in Calls : royalty[c] = "started"
                       ~> royalty[c] \notin {"started", "submitted"}
=============================================================================
