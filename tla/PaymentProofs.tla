---------------------------- MODULE PaymentProofs ----------------------------
(***************************************************************************)
(* Proofs about money. First, about InferenceServer: what the server sends *)
(* to the owner of the model NFT, and where it comes from. Then, about     *)
(* PaidInference, for any number of agents: what an agent was quoted, what *)
(* it paid, and what the server does with that payment while other agents, *)
(* restarts and the clock get in between.                                  *)
(***************************************************************************)
EXTENDS InferenceServerProofs, PaidInference

(* The two shares of a price never exceed it, and they leave out less than *)
(* one quantum: both are rounded down, so the server's share does not       *)
(* absorb the remainder (royalty.py 86-94).                                *)
THEOREM SplitIsBounded ==
    ASSUME NEW total \in Nat, NEW num \in Nat, NEW den \in Nat \ {0},
           NEW q \in Nat \ {0}, num <= den
    PROVE  LET r == RoyaltyQuanta(total, num, den, q)
               s == ServerQuanta(total, num, den, q)
           IN  /\ r \in Nat /\ s \in Nat
               /\ (r + s) * q <= total
               /\ total < (r + s) * q + q
<1> DEFINE r == RoyaltyQuanta(total, num, den, q)
           s == ServerQuanta(total, num, den, q)
           d == den * q
<1>1. d \in Nat \ {0} /\ total * num \in Nat
  OBVIOUS
<1>2. r = (total * num) \div d
  BY DEF RoyaltyQuanta
<1>3. r \in Nat /\ r * d <= total * num
  <2> DEFINE n == total * num
  <2> HIDE DEF d, n, r
  <2>1. n \div d \in Nat /\ (n \div d) * d <= n
    BY <1>1 DEF n
  <2>2. QED
    BY <1>2, <2>1 DEF n
<1>4. r * q \in Nat /\ r * q <= total
  <2> DEFINE p == r * q
  <2>1. p \in Nat
    BY <1>3
  <2>2. p * den = r * d
    <3> HIDE DEF r
    <3>1. QED
      BY <1>3
  <2>3. total * num <= total * den
    OBVIOUS
  <2> HIDE DEF p, r, d
  <2>4. p * den <= total * den
    BY <1>1, <1>3, <2>1, <2>2, <2>3
  <2>5. ASSUME total < p PROVE FALSE
    <3>1. p = total + (p - total) /\ p - total \in Nat \ {0}
      BY <2>1, <2>5
    <3>2. p * den = total * den + (p - total) * den
      BY <2>1, <3>1
    <3>3. (p - total) * den > 0
      BY <3>1
    <3>4. QED
      BY <2>1, <2>4, <3>1, <3>2, <3>3
  <2>6. QED
    BY <2>1, <2>5 DEF p
<1>5. s \in Nat /\ s * q <= total - r * q /\ total - r * q < s * q + q
  <2> DEFINE k == total - r * q
  <2>1. k \in Nat /\ s = k \div q
    BY <1>4 DEF ServerQuanta
  <2> HIDE DEF k, r, s
  <2>2. k \div q \in Nat /\ (k \div q) * q <= k /\ k < (k \div q) * q + q
    BY <2>1
  <2>3. QED
    BY <2>1, <2>2 DEF k
<1> HIDE DEF r, s
<1>6. (r + s) * q = r * q + s * q /\ s * q \in Nat
  BY <1>3, <1>5
<1>7. (r + s) * q <= total /\ total < (r + s) * q + q
  BY <1>4, <1>5, <1>6
<1>8. QED
  BY <1>3, <1>5, <1>7 DEF r, s

-----------------------------------------------------------------------------
(* What can be added to the ledger: a client's payment, or the royalty of  *)
(* a call that has been served or is about to be.                          *)
NewTx(tx) ==
    \/ tx \in Payments
    \/ \E c \in Calls :
         /\ royalty[c] = "started" /\ tx = RoyaltyTx(c)
         /\ RoyaltyPayable(NftOwner, RoyaltyShare(PriceFor(call[c].hit)))

LEMMA LedgerGrows ==
    ASSUME TypeInv, [Next]_vars, NEW x \in TxIds, ledger'[x] # ledger[x]
    PROVE  ledger[x] = None /\ NewTx(ledger'[x])
<1>1. ASSUME NEW c \in Calls, Handle(c) PROVE FALSE
  BY <1>1, HandlerMoves
<1>2. ASSUME NEW c \in Calls, NEW y \in TxIds, RoyaltySubmit(c, y)
      PROVE  ledger[x] = None /\ NewTx(ledger'[x])
  BY <1>2 DEF RoyaltySubmit, NewTx, TypeInv, TypeOK
<1>3. ASSUME NEW y \in TxIds, NEW tx \in Payments, Submit(y, tx)
      PROVE  ledger[x] = None /\ NewTx(ledger'[x])
  BY <1>3 DEF Submit, NewTx, TypeInv, TypeOK
<1>4. QED
  BY <1>1, <1>2, <1>3 DEF Next, Server, Clients, PayRoyalty, RoyaltySkip,
    RoyaltyLog, RoyaltyFails, Receive, Tick, Restart, vars

(* Royalties are sent to somebody else, and their threads run only for     *)
(* calls that have passed the payment check.                               *)
StartedInv ==
    \A c \in Calls : royalty[c] = "started" => call[c].pc \in {"respond", "served"}

SentInv ==
    \A x \in TxIds : SentByServer(x) => ledger[x].destination # ServerWallet

LEMMA StartedStep ==
    ASSUME TypeInv, StartedInv, [Next]_vars
    PROVE  StartedInv'
<1>1. ASSUME NEW c \in Calls, Handle(c) PROVE StartedInv'
  <2>1. \A d \in Calls \ {c} : call'[d] = call[d]
    BY <1>1, HandlerMoves
  <2>2. CASE DispatchRoyalty(c)
    <3>1. call'[c].pc = "respond"
      BY <2>2, GotoEffect DEF DispatchRoyalty
    <3>2. QED
      BY <2>1, <2>2, <3>1 DEF DispatchRoyalty, StartedInv, TypeInv, TypeOK
  <2>3. CASE Respond(c)
    <3>1. call'[c].pc = "served"
      BY <2>3, GotoEffect DEF Respond
    <3>2. QED
      BY <2>1, <2>3, <3>1 DEF Respond, StartedInv
  <2>4. CASE ~ DispatchRoyalty(c) /\ ~ Respond(c)
    <3>1. royalty' = royalty /\ call[c].pc \notin {"respond", "served"}
      BY <1>1, <2>4 DEF Handle, Peek, Quote, AcceptPayment, RejectPayment,
        LookupFails, ServeHit, LogHit, RunInference, InferenceFails, MintCert,
        AnchorCert, AnchorFails, StoreCert, AdoptExisting, AttachMetadata
    <3>2. QED
      BY <2>1, <3>1 DEF StartedInv
  <2>5. QED
    BY <2>2, <2>3, <2>4
<1>2. ASSUME NEW c \in Calls, PayRoyalty(c) PROVE StartedInv'
  BY <1>2 DEF PayRoyalty, RoyaltySkip, RoyaltySubmit, RoyaltyLog, RoyaltyFails,
    StartedInv, TypeInv, TypeOK
<1>3. ASSUME NEW c \in Calls, NEW r \in Requests, NEW x \in TxIds \cup {None},
             Receive(c, r, x)
      PROVE  StartedInv'
  BY <1>3, ReceiveEffect DEF StartedInv
<1>4. CASE Restart
  BY <1>4 DEF Restart, StartedInv
<1>5. QED
  BY <1>1, <1>2, <1>3, <1>4
  DEF Next, Server, Clients, Submit, Tick, vars, StartedInv

LEMMA SentStep ==
    ASSUME TypeInv, SentInv, [Next]_vars
    PROVE  SentInv'
<1> SUFFICES ASSUME NEW x \in TxIds, SentByServer(x)'
             PROVE  ledger'[x].destination # ServerWallet
  BY DEF SentInv
<1>1. CASE ledger'[x] = ledger[x]
  BY <1>1 DEF SentInv, SentByServer
<1>2. CASE ledger'[x] # ledger[x]
  <2>1. NewTx(ledger'[x]) /\ ledger'[x].account = ServerWallet
    BY <1>2, LedgerGrows DEF SentByServer
  <2>2. PICK c \in Calls : /\ ledger'[x] = RoyaltyTx(c)
                           /\ RoyaltyPayable(NftOwner, RoyaltyShare(PriceFor(call[c].hit)))
    BY <2>1, PaymentsAssumption DEF NewTx
  <2>3. QED
    BY <2>2 DEF RoyaltyTx, PaymentTx, RoyaltyPayable
<1>3. QED
  BY <1>1, <1>2

(* No completion is unlocked by money that the server sent, whoever owns   *)
(* the model NFT.                                                          *)
THEOREM NoSelfFundingCorrect == Spec => []NoSelfFunding
<1>1. Init => SentInv
  BY DEF Init, SentInv, SentByServer
<1>2. TypeInv /\ SafeInv /\ SentInv => NoSelfFunding
  <2> SUFFICES ASSUME TypeInv, SafeInv, SentInv, NEW c \in Calls, Served(c)
               PROVE  ledger[call[c].tx].account # ServerWallet
    BY DEF NoSelfFunding
  <2>1. call[c].tx \in TxIds /\ Accepted(c)
    BY DEF Served, TypeInv, GoodFrame, SafeInv, PayInv, Paid
  <2>2. QED
    BY <2>1 DEF Accepted, Verified, SentInv, SentByServer
<1>3. TypeInv /\ SentInv /\ [Next]_vars => SentInv'
  BY SentStep
<1>4. QED
  BY <1>1, <1>2, <1>3, SafeCorrect, PTL DEF Spec

-----------------------------------------------------------------------------
(* No royalty twice: royalties on the ledger against threads that have run. *)
HasRun == {"submitted", "paid", "failed", "lost"}

Dispatched == {c \in Calls : royalty[c] # "none"}
RunFor(a) == {c \in Calls : call[c].addr = a /\ royalty[c] \in HasRun}
RoyaltiesFor(a) == {x \in TxIds : SentByServer(x) /\ ledger[x].memos = <<a>>}

(* A thread is started once, by a handler that is about to respond.        *)
DispatchedInv ==
    \A c \in Calls : royalty[c] # "none" => call[c].pc \in {"respond", "served", "lost"}

(* Calls may be infinitely many: only those that were dispatched count.    *)
OnceInv ==
    /\ IsFiniteSet(Dispatched)
    /\ \A a \in Address :
         /\ IsFiniteSet(RoyaltiesFor(a))
         /\ Cardinality(RoyaltiesFor(a)) <= Cardinality(RunFor(a))

LEMMA DispatchedStep ==
    ASSUME TypeInv, DispatchedInv, [Next]_vars
    PROVE  DispatchedInv'
<1>1. ASSUME NEW c \in Calls, Handle(c) PROVE DispatchedInv'
  <2>1. \A d \in Calls \ {c} : call'[d] = call[d]
    BY <1>1, HandlerMoves
  <2>2. CASE DispatchRoyalty(c)
    <3>1. call'[c].pc = "respond"
      BY <2>2, GotoEffect DEF DispatchRoyalty
    <3>2. QED
      BY <2>1, <2>2, <3>1 DEF DispatchRoyalty, DispatchedInv, TypeInv, TypeOK
  <2>3. CASE Respond(c)
    <3>1. call'[c].pc = "served"
      BY <2>3, GotoEffect DEF Respond
    <3>2. QED
      BY <2>1, <2>3, <3>1 DEF Respond, DispatchedInv
  <2>4. CASE ~ DispatchRoyalty(c) /\ ~ Respond(c)
    <3>1. royalty' = royalty /\ call[c].pc \notin {"respond", "served", "lost"}
      BY <1>1, <2>4 DEF Handle, Peek, Quote, AcceptPayment, RejectPayment,
        LookupFails, ServeHit, LogHit, RunInference, InferenceFails, MintCert,
        AnchorCert, AnchorFails, StoreCert, AdoptExisting, AttachMetadata
    <3>2. QED
      BY <2>1, <3>1 DEF DispatchedInv
  <2>5. QED
    BY <2>2, <2>3, <2>4
<1>2. ASSUME NEW c \in Calls, PayRoyalty(c) PROVE DispatchedInv'
  BY <1>2 DEF PayRoyalty, RoyaltySkip, RoyaltySubmit, RoyaltyLog, RoyaltyFails,
    DispatchedInv, TypeInv, TypeOK
<1>3. ASSUME NEW c \in Calls, NEW r \in Requests, NEW x \in TxIds \cup {None},
             Receive(c, r, x)
      PROVE  DispatchedInv'
  BY <1>3, ReceiveEffect DEF DispatchedInv
<1>4. CASE Restart
  <2>1. \A c \in Calls : royalty'[c] # "none" => royalty[c] # "none"
    BY <1>4 DEF Restart, TypeInv, TypeOK
  <2>2. \A c \in Calls : call'[c].pc \in {call[c].pc, "lost"}
    BY <1>4, RestartEffect
  <2>3. QED
    BY <2>1, <2>2 DEF DispatchedInv
<1>5. QED
  BY <1>1, <1>2, <1>3, <1>4
  DEF Next, Server, Clients, Submit, Tick, vars, DispatchedInv

LEMMA DispatchedCorrect == Spec => []DispatchedInv
<1>1. Init => DispatchedInv
  BY DEF Init, DispatchedInv
<1>2. TypeInv /\ DispatchedInv /\ [Next]_vars => DispatchedInv'
  BY DispatchedStep
<1>3. QED
  BY <1>1, <1>2, TypeCorrect, PTL DEF Spec

(* A call whose thread has run keeps its frame, and its thread has run.    *)
LEMMA RanKept ==
    ASSUME TypeInv, DispatchedInv, [Next]_vars, NEW c \in Calls,
           royalty[c] \in HasRun
    PROVE  /\ royalty'[c] \in HasRun
           /\ call'[c].addr = call[c].addr /\ call'[c].tx = call[c].tx
           /\ call'[c].hit = call[c].hit
<1> DEFINE Same == /\ call'[c].addr = call[c].addr /\ call'[c].tx = call[c].tx
                   /\ call'[c].hit = call[c].hit
<1>1. call[c].pc \in {"respond", "served", "lost"}
  BY DEF DispatchedInv, HasRun
<1>2. ASSUME NEW d \in Calls, Handle(d) PROVE Same /\ royalty'[c] \in HasRun
  <2>1. FrameMoves(d) /\ \A e \in Calls \ {d} : call'[e] = call[e]
    BY <1>2, HandlerMoves
  <2>2. Same
    BY <1>1, <2>1 DEF FrameMoves
  <2>3. royalty'[c] = royalty[c]
    BY <1>1, <1>2 DEF Handle, Peek, Quote, AcceptPayment, RejectPayment,
      LookupFails, ServeHit, LogHit, RunInference, InferenceFails, MintCert,
      AnchorCert, AnchorFails, StoreCert, AdoptExisting, AttachMetadata,
      DispatchRoyalty, Respond, TypeInv, TypeOK
  <2>4. QED
    BY <2>2, <2>3
<1>3. ASSUME NEW d \in Calls, PayRoyalty(d) PROVE Same /\ royalty'[c] \in HasRun
  BY <1>3 DEF PayRoyalty, RoyaltySkip, RoyaltySubmit, RoyaltyLog, RoyaltyFails,
    HasRun, TypeInv, TypeOK
<1>4. ASSUME NEW d \in Calls, NEW r \in Requests, NEW x \in TxIds \cup {None},
             Receive(d, r, x)
      PROVE  Same /\ royalty'[c] \in HasRun
  BY <1>1, <1>4, ReceiveEffect
<1>5. ASSUME Restart PROVE Same /\ royalty'[c] \in HasRun
  BY <1>5 DEF Restart, HasRun, TypeInv, TypeOK, Frame
<1>6. QED
  BY <1>2, <1>3, <1>4, <1>5 DEF Next, Server, Clients, Submit, Tick, vars

LEMMA RunKept ==
    ASSUME TypeInv, DispatchedInv, [Next]_vars, NEW a
    PROVE  RunFor(a) \subseteq RunFor(a)'
BY RanKept DEF RunFor

LEMMA BackedStep ==
    ASSUME TypeInv, SafeInv, StartedInv, DispatchedInv, RoyaltyIsBacked, [Next]_vars
    PROVE  RoyaltyIsBacked'
<1>1. LedgerKept
  BY LedgerStep
<1> DEFINE Of(x, c) ==
      /\ royalty[c] \in HasRun
      /\ ledger[x].memos = <<call[c].addr>>
      /\ 2 * ledger[x].value <= PriceFor(call[c].hit)
      /\ Backs(call[c].tx, PriceFor(call[c].hit), call[c].addr)
<1> SUFFICES ASSUME NEW x \in TxIds, SentByServer(x)'
             PROVE  \E c \in Calls : Of(x, c)'
  BY DEF RoyaltyIsBacked, HasRun
<1>2. ASSUME NEW c \in Calls, Backs(call[c].tx, PriceFor(call[c].hit), call[c].addr),
             call'[c].addr = call[c].addr, call'[c].tx = call[c].tx,
             call'[c].hit = call[c].hit
      PROVE  Backs(call[c].tx, PriceFor(call[c].hit), call[c].addr)'
  <2>1. call[c].tx \in TxIds /\ ledger[call[c].tx] # None
    BY <1>2 DEF Backs, TypeInv, TypeOK, Frame
  <2>2. ledger'[call[c].tx] = ledger[call[c].tx]
    BY <1>1, <2>1 DEF LedgerKept
  <2>3. QED
    BY <1>2, <2>2 DEF Backs, PriceFor
<1>3. CASE ledger'[x] = ledger[x]
  <2>1. PICK c \in Calls : Of(x, c)
    BY <1>3 DEF RoyaltyIsBacked, SentByServer, HasRun
  <2>2. /\ royalty'[c] \in HasRun
        /\ call'[c].addr = call[c].addr /\ call'[c].tx = call[c].tx
        /\ call'[c].hit = call[c].hit
    BY <2>1, RanKept
  <2>3. QED
    BY <1>2, <1>3, <2>1, <2>2 DEF PriceFor
<1>4. CASE ledger'[x] # ledger[x]
  <2>1. ledger[x] = None /\ ledger'[x].account = ServerWallet
    BY <1>4, LedgerGrows DEF SentByServer
  <2>2. PICK c \in Calls : RoyaltySubmit(c, x)
    <3>1. ASSUME NEW c \in Calls, NEW y \in TxIds, RoyaltySubmit(c, y)
          PROVE  x = y
      BY <1>4, <3>1 DEF RoyaltySubmit, TypeInv, TypeOK
    <3>2. ASSUME NEW y \in TxIds, NEW tx \in Payments, Submit(y, tx) PROVE FALSE
      BY <1>4, <2>1, <3>2, PaymentsAssumption DEF Submit, TypeInv, TypeOK
    <3>3. ASSUME NEW c \in Calls, Handle(c) PROVE FALSE
      BY <1>4, <3>3, HandlerMoves
    <3>4. QED
      BY <1>4, <3>1, <3>2, <3>3 DEF Next, Server, Clients, PayRoyalty, RoyaltySkip,
        RoyaltyLog, RoyaltyFails, Receive, Tick, Restart, vars
  <2>3. /\ royalty[c] = "started" /\ royalty'[c] = "submitted" /\ call' = call
        /\ ledger'[x] = RoyaltyTx(c)
    BY <2>2 DEF RoyaltySubmit, TypeInv, TypeOK
  <2>4. call[c].tx \in TxIds /\ Accepted(c)
    BY <2>3 DEF StartedInv, Paid, TypeInv, GoodFrame, SafeInv, PayInv
  <2>5. Backs(call[c].tx, PriceFor(call[c].hit), call[c].addr)'
    BY <1>2, <2>3, <2>4, AcceptedBacks
  <2>6. /\ ledger'[x].memos = <<call[c].addr>>
        /\ ledger'[x].value = RoyaltyShare(PriceFor(call[c].hit))
    BY <2>3 DEF RoyaltyTx, PaymentTx
  <2>7. 2 * RoyaltyShare(PriceFor(call[c].hit)) <= PriceFor(call[c].hit)
    BY DEF PriceFor, FullPrice, HitPrice, RoyaltyShare, RoyaltyQuanta
  <2>8. QED
    BY <2>3, <2>5, <2>6, <2>7 DEF HasRun, PriceFor
<1>5. QED
  BY <1>3, <1>4

(* Every royalty on the ledger is for a call whose thread ran, carries its *)
(* address, and is at most half of the price that it was charged and that  *)
(* its payment names.                                                      *)
THEOREM RoyaltyIsBackedCorrect == Spec => []RoyaltyIsBacked
<1>1. Init => StartedInv /\ RoyaltyIsBacked
  BY DEF Init, StartedInv, RoyaltyIsBacked, SentByServer
<1>2. TypeInv /\ SafeInv /\ StartedInv /\ DispatchedInv /\ RoyaltyIsBacked
        /\ [Next]_vars => StartedInv' /\ RoyaltyIsBacked'
  BY StartedStep, BackedStep
<1>3. QED
  BY <1>1, <1>2, SafeCorrect, DispatchedCorrect, PTL DEF Spec

(* Only a royalty thread adds a royalty, and only one.                     *)
LEMMA RoyaltiesMove ==
    ASSUME TypeInv, [Next]_vars, NEW a \in Address
    PROVE  \/ RoyaltiesFor(a)' \subseteq RoyaltiesFor(a)
           \/ \E c \in Calls, x \in TxIds :
                /\ RoyaltySubmit(c, x) /\ call[c].addr = a
                /\ RoyaltiesFor(a)' \subseteq RoyaltiesFor(a) \cup {x}
<1>1. ASSUME NEW c \in Calls, NEW x \in TxIds, RoyaltySubmit(c, x)
      PROVE  /\ RoyaltiesFor(a)' \subseteq RoyaltiesFor(a) \cup {x}
             /\ call[c].addr # a => RoyaltiesFor(a)' \subseteq RoyaltiesFor(a)
  <2>1. /\ ledger'[x] = RoyaltyTx(c)
        /\ \A y \in TxIds \ {x} : ledger'[y] = ledger[y]
    BY <1>1 DEF RoyaltySubmit, TypeInv, TypeOK
  <2>2. RoyaltyTx(c).memos = <<call[c].addr>>
    BY DEF RoyaltyTx, PaymentTx
  <2>3. call[c].addr # a => <<call[c].addr>> # <<a>>
    OBVIOUS
  <2>4. QED
    BY <2>1, <2>2, <2>3 DEF RoyaltiesFor, SentByServer
<1>2. ASSUME NEW x \in TxIds, NEW tx \in Payments, Submit(x, tx)
      PROVE  RoyaltiesFor(a)' \subseteq RoyaltiesFor(a)
  <2>1. ledger'[x] = tx /\ \A y \in TxIds \ {x} : ledger'[y] = ledger[y]
    BY <1>2 DEF Submit, TypeInv, TypeOK
  <2>2. QED
    BY <2>1, PaymentsAssumption DEF RoyaltiesFor, SentByServer
<1>3. CASE ledger' = ledger
  BY <1>3 DEF RoyaltiesFor, SentByServer
<1>4. ASSUME NEW c \in Calls, Handle(c) PROVE ledger' = ledger
  BY <1>4, HandlerMoves
<1>5. QED
  BY <1>1, <1>2, <1>3, <1>4 DEF Next, Server, Clients, PayRoyalty, RoyaltySkip,
    RoyaltyLog, RoyaltyFails, Receive, Tick, Restart, vars

LEMMA DispatchedGrows ==
    ASSUME TypeInv, [Next]_vars, IsFiniteSet(Dispatched)
    PROVE  IsFiniteSet(Dispatched')
<1>1. ASSUME NEW c \in Calls, Handle(c)
      PROVE  Dispatched' \subseteq Dispatched \cup {c}
  BY <1>1 DEF Handle, Peek, Quote, AcceptPayment, RejectPayment, LookupFails,
    ServeHit, LogHit, RunInference, InferenceFails, MintCert, AnchorCert,
    AnchorFails, StoreCert, AdoptExisting, AttachMetadata, DispatchRoyalty,
    Respond, Dispatched, TypeInv, TypeOK
<1>2. ASSUME NEW c \in Calls, PayRoyalty(c) PROVE Dispatched' \subseteq Dispatched
  BY <1>2 DEF PayRoyalty, RoyaltySkip, RoyaltySubmit, RoyaltyLog, RoyaltyFails,
    Dispatched, TypeInv, TypeOK
<1>3. ASSUME Restart PROVE Dispatched' \subseteq Dispatched
  BY <1>3 DEF Restart, Dispatched, TypeInv, TypeOK
<1>4. ASSUME royalty' = royalty PROVE Dispatched' \subseteq Dispatched
  BY <1>4 DEF Dispatched
<1>5. \/ Dispatched' \subseteq Dispatched
      \/ \E c \in Calls : Dispatched' \subseteq Dispatched \cup {c}
  <2>1. \/ \E c \in Calls : Handle(c) \/ PayRoyalty(c)
        \/ Restart
        \/ royalty' = royalty
    BY DEF Next, Server, Clients, Receive, Submit, Tick, vars
  <2>2. QED
    BY <1>1, <1>2, <1>3, <1>4, <2>1
<1>6. \A c \in Calls : IsFiniteSet(Dispatched \cup {c})
  BY FS_AddElement
<1>7. QED
  BY <1>5, <1>6, FS_Subset

LEMMA OnceStep ==
    ASSUME TypeInv, DispatchedInv, OnceInv, [Next]_vars
    PROVE  OnceInv'
<1>1. IsFiniteSet(Dispatched')
  BY DispatchedGrows DEF OnceInv
<1> SUFFICES ASSUME NEW a \in Address
             PROVE  /\ IsFiniteSet(RoyaltiesFor(a)')
                    /\ Cardinality(RoyaltiesFor(a)') <= Cardinality(RunFor(a)')
  BY <1>1 DEF OnceInv
<1> DEFINE old == RoyaltiesFor(a)  new == RoyaltiesFor(a)'
           ran == RunFor(a)        runs == RunFor(a)'
<1>2. /\ IsFiniteSet(old) /\ Cardinality(old) \in Nat
      /\ Cardinality(old) <= Cardinality(ran)
  BY FS_CardinalityType DEF OnceInv
<1>3. runs \subseteq Dispatched'
  BY DEF RunFor, Dispatched, HasRun
<1>4. IsFiniteSet(runs) /\ Cardinality(runs) \in Nat
  BY <1>1, <1>3, FS_Subset, FS_CardinalityType
<1>5. ran \subseteq runs
  BY RunKept
<1>6. IsFiniteSet(ran) /\ Cardinality(ran) \in Nat /\ Cardinality(ran) <= Cardinality(runs)
  BY <1>4, <1>5, FS_Subset, FS_CardinalityType
<1>7. CASE new \subseteq old
  <2>1. IsFiniteSet(new) /\ Cardinality(new) <= Cardinality(old) /\ Cardinality(new) \in Nat
    BY <1>2, <1>7, FS_Subset, FS_CardinalityType
  <2> HIDE DEF new, old, ran, runs
  <2>2. Cardinality(new) <= Cardinality(runs)
    BY <1>2, <1>4, <1>6, <2>1
  <2>3. QED
    BY <2>1, <2>2 DEF new, runs
<1>8. ASSUME NEW c \in Calls, NEW x \in TxIds, RoyaltySubmit(c, x),
             call[c].addr = a, new \subseteq old \cup {x}
      PROVE  IsFiniteSet(new) /\ Cardinality(new) <= Cardinality(runs)
  <2>1. c \in runs /\ c \notin ran
    BY <1>8 DEF RoyaltySubmit, RunFor, HasRun, TypeInv, TypeOK
  <2> HIDE DEF new, old, ran, runs
  <2>2. /\ IsFiniteSet(old \cup {x}) /\ Cardinality(old \cup {x}) \in Nat
        /\ Cardinality(old \cup {x}) <= Cardinality(old) + 1
    <3>1. /\ IsFiniteSet(old \cup {x})
          /\ Cardinality(old \cup {x}) \in {Cardinality(old), Cardinality(old) + 1}
      BY <1>2, FS_AddElement
    <3>2. QED
      BY <1>2, <3>1
  <2>3. /\ IsFiniteSet(new) /\ Cardinality(new) \in Nat
        /\ Cardinality(new) <= Cardinality(old \cup {x})
    BY <1>8, <2>2, FS_Subset, FS_CardinalityType
  <2>4. Cardinality(ran \cup {c}) = Cardinality(ran) + 1
    BY <1>6, <2>1, FS_AddElement
  <2>5. Cardinality(ran \cup {c}) <= Cardinality(runs)
    BY <1>4, <1>5, <2>1, FS_Subset
  <2>6. QED
    BY <1>2, <1>4, <1>6, <2>2, <2>3, <2>4, <2>5
<1>9. QED
  BY <1>7, <1>8, RoyaltiesMove

(* No call pays its royalty twice, over failures, lost threads and         *)
(* restarts, for any number of calls.                                      *)
THEOREM RoyaltyAtMostOnceCorrect == Spec => []RoyaltyAtMostOnce
<1>1. Init => DispatchedInv /\ OnceInv
  <2> SUFFICES ASSUME Init PROVE DispatchedInv /\ OnceInv
    OBVIOUS
  <2>1. DispatchedInv /\ Dispatched = {}
    BY DEF Init, DispatchedInv, Dispatched
  <2>2. \A a \in Address : RoyaltiesFor(a) = {} /\ RunFor(a) = {}
    BY DEF Init, RoyaltiesFor, RunFor, SentByServer, HasRun
  <2>3. QED
    BY <2>1, <2>2, FS_EmptySet DEF OnceInv
<1>2. OnceInv => RoyaltyAtMostOnce
  BY DEF OnceInv, RoyaltyAtMostOnce, RoyaltiesFor, RunFor, HasRun
<1>3. TypeInv /\ DispatchedInv /\ OnceInv /\ [Next]_vars
        => DispatchedInv' /\ OnceInv'
  BY DispatchedStep, OnceStep
<1>4. QED
  BY <1>1, <1>2, <1>3, SafeCorrect, PTL DEF Spec

(***************************************************************************)
(* The agents.                                                             *)
(***************************************************************************)

(* A hit that was seen in this process is still in its store.              *)
KnownInv ==
    \A c \in Calls : call[c].pc # "new" /\ call[c].hit /\ call[c].epoch = epoch
                       => store[call[c].addr] # None

QuotePaid(a) ==
    /\ payment[a] \in TxIds
    /\ ledger[payment[a]] = PaymentTx(a, ServerWallet, PriceFor(call[QuoteCall(a)].hit),
                                      call[QuoteCall(a)].addr)

(* Where the two calls of an agent are, and what it has paid.              *)
AgentInv(a) ==
    LET q == call[QuoteCall(a)]  p == call[PaidCall(a)] IN
    /\ agent[a] = "idle" => q.pc = "new"
    /\ agent[a] \in {"idle", "quoting", "quoted", "paid"} => p.pc = "new"
    /\ agent[a] \in {"quoted", "paid", "retrying", "done"} \/ p.pc # "new"
         => q.pc = "quoted"
    /\ agent[a] \in {"paid", "retrying", "done"} \/ p.pc # "new" => QuotePaid(a)
    /\ p.pc # "new" => p.tx = payment[a]
    /\ agent[a] = "done" => p.pc = "served"

(* An entry that made the quote cheap makes the paid call cheap too.       *)
PriceInv(a) ==
    LET q == call[QuoteCall(a)]  p == call[PaidCall(a)] IN
    /\ p.addr = q.addr /\ p.epoch = q.epoch
    /\ p.pc \notin {"new", "received", "lost"}
    /\ q.hit
    => p.hit

SystemInv ==
    /\ TypeInv /\ SafeInv /\ AgentTypeOK /\ KnownInv /\ QuoteHonoured
    /\ \A a \in Agents : AgentInv(a) /\ PriceInv(a)

LEMMA AgentCalls ==
    ASSUME NEW a \in Agents
    PROVE  /\ QuoteCall(a) \in Calls /\ PaidCall(a) \in Calls
           /\ QuoteCall(a) # PaidCall(a)
           /\ \A b \in Agents : /\ PaidCall(b) # QuoteCall(a)
                                /\ QuoteCall(b) = QuoteCall(a) => b = a
                                /\ PaidCall(b) = PaidCall(a) => b = a
BY AgentAssumption DEF QuoteCall, PaidCall

(* What happens to any call in a step of the server or its clients.        *)
LEMMA CallKept ==
    ASSUME TypeInv, SafeInv, [Next]_vars, NEW c \in Calls, call[c].pc # "new"
    PROVE  /\ call'[c].pc # "new"
           /\ call'[c].addr = call[c].addr /\ call'[c].tx = call[c].tx
           /\ call'[c].epoch = call[c].epoch
           /\ call[c].pc \in Answered => call'[c] = call[c]
           /\ call[c].pc # "received" => call'[c].hit = call[c].hit
           /\ call[c].pc = "received" /\ call'[c].pc \notin {"received", "lost"}
                => call'[c].hit = (store[call[c].addr] # None)
           /\ call[c].pc # "received" => call'[c].pc # "received"
           /\ call[c].pc = "lost" => call'[c].pc = "lost"
<1> USE DEF Running, Answered
<1>1. call[c] \in Frame
  BY DEF TypeInv, TypeOK
<1>2. CASE \E d \in Calls : Handle(d)
  <2>1. CASE Handle(c)
    <3>1. FrameMoves(c)
      BY <2>1, HandlerMoves
    <3>2. QED
      BY <1>1, <3>1 DEF FrameMoves
  <2>2. ASSUME NEW d \in Calls \ {c}, Handle(d) PROVE call'[c] = call[c]
    BY <2>2, HandlerMoves
  <2>3. QED
    BY <1>2, <2>1, <2>2
<1>3. CASE call'[c] = call[c]
  BY <1>3
<1>4. CASE Restart
  BY <1>1, <1>4 DEF Restart, TypeInv, TypeOK, Frame
<1>5. ASSUME NEW d \in Calls, NEW r \in Requests, NEW x \in TxIds \cup {None},
             Receive(d, r, x)
      PROVE  call'[c] = call[c]
  BY <1>5, ReceiveEffect
<1>6. QED
  BY <1>2, <1>3, <1>4, <1>5, StepCases DEF Quiet

LEMMA NewCalls ==
    ASSUME TypeInv, [Next]_vars, NEW c \in Calls, call[c].pc = "new"
    PROVE  call'[c] = call[c] \/ call'[c].pc = "received"
<1>1. ASSUME NEW d \in Calls, Handle(d) PROVE call'[c] = call[c]
  BY <1>1, HandlerMoves DEF FrameMoves, Running
<1>2. ASSUME NEW d \in Calls, NEW r \in Requests, NEW x \in TxIds \cup {None},
             Receive(d, r, x)
      PROVE  call'[c] = call[c] \/ call'[c].pc = "received"
  BY <1>2, ReceiveEffect
<1>3. CASE Restart
  BY <1>3, RestartEffect DEF Running
<1>4. QED
  BY <1>1, <1>2, <1>3, StepCases DEF Quiet

(* Only a failed check rejects a call.                                     *)
LEMMA RejectedHow ==
    ASSUME TypeInv, [Next]_vars, NEW c \in Calls,
           call'[c].pc = "rejected", call[c].pc # "rejected"
    PROVE  call[c].pc = "verify" /\ ~ Accepted(c)
<1>1. call \in [Calls -> Frame]
  BY DEF TypeInv, TypeOK
<1>2. CASE Handle(c)
  <2>1. ~ Peek(c)
    BY <1>1 DEF Peek, Update, Frame
  <2>2. ~ RunInference(c) /\ ~ MintCert(c)
    BY <1>1 DEF RunInference, MintCert, Update, Frame
  <2>3. ~ ServeHit(c) /\ ~ AdoptExisting(c)
    BY EntryEffect DEF ServeHit, AdoptExisting
  <2>4. RejectPayment(c)
    BY <1>2, <2>1, <2>2, <2>3, GotoEffect DEF Handle, Quote, AcceptPayment,
      LookupFails, LogHit, InferenceFails, AnchorCert, AnchorFails, StoreCert,
      AttachMetadata, DispatchRoyalty, Respond
  <2>5. QED
    BY <2>4 DEF RejectPayment
<1>3. ASSUME NEW d \in Calls \ {c}, Handle(d) PROVE FALSE
  BY <1>3, HandlerMoves
<1>4. ASSUME NEW d \in Calls, NEW r \in Requests, NEW x \in TxIds \cup {None},
             Receive(d, r, x)
      PROVE  FALSE
  BY <1>4, ReceiveEffect
<1>5. CASE Restart
  BY <1>5, RestartEffect
<1>6. QED
  BY <1>2, <1>3, <1>4, <1>5, StepCases DEF Quiet

LEMMA KnownStep ==
    ASSUME TypeInv, SafeInv, KnownInv, [Next]_vars
    PROVE  KnownInv'
<1>1. ASSUME NEW d \in Calls, Handle(d) PROVE KnownInv'
  <2>1. /\ FrameMoves(d) /\ DataMoves(d) /\ epoch' = epoch
        /\ \A c \in Calls \ {d} : call'[c] = call[c]
    BY <1>1, HandlerMoves
  <2>2. \A c \in Calls : call[c].pc # "new" => call[c].addr \in Address
    BY DEF TypeInv, GoodFrame
  <2>3. \A a \in Address : store[a] # None => store'[a] # None
    BY <2>1 DEF DataMoves, SameEntry
  <2>4. call'[d].hit => store[call[d].addr] # None
    BY <2>1 DEF FrameMoves, SafeInv, HitInv
  <2>5. call[d].pc # "new" /\ call'[d].addr = call[d].addr
    BY <2>1 DEF FrameMoves, Running
  <2>6. ASSUME NEW c \in Calls, call'[c].pc # "new", call'[c].hit, call'[c].epoch = epoch'
        PROVE  store'[call'[c].addr] # None
    <3>1. CASE c = d
      BY <2>2, <2>3, <2>4, <2>5, <2>6, <3>1
    <3>2. CASE c # d
      BY <2>1, <2>2, <2>3, <2>6, <3>2 DEF KnownInv
    <3>3. QED
      BY <3>1, <3>2
  <2>7. QED
    BY <2>6 DEF KnownInv
<1>2. ASSUME NEW d \in Calls, NEW r \in Requests, NEW x \in TxIds \cup {None},
             Receive(d, r, x)
      PROVE  KnownInv'
  <2>1. ~ call[d].hit
    BY <1>2, ReceiveEffect DEF SafeInv, PathInv
  <2>2. QED
    BY <1>2, <2>1, ReceiveEffect DEF KnownInv
<1>3. CASE Restart
  <2>1. epoch \in Nat /\ \A c \in Calls : call[c].epoch \in Nat
    BY ConfigAssumption DEF TypeInv, TypeOK, Frame
  <2>2. ASSUME NEW c \in Calls, call'[c].pc # "new" PROVE call'[c].epoch # epoch'
    <3>1. call[c].pc # "new" /\ call'[c].epoch = call[c].epoch
      BY <1>3, <2>2, RestartEffect DEF Running
    <3>2. call[c].epoch <= epoch
      BY <3>1 DEF SafeInv, EpochInv
    <3>3. QED
      BY <1>3, <2>1, <3>1, <3>2, RestartEffect
  <2>3. QED
    BY <2>2 DEF KnownInv
<1>4. CASE Quiet
  BY <1>4 DEF Quiet, KnownInv
<1>5. QED
  BY <1>1, <1>2, <1>3, <1>4, StepCases

(* What has been paid stays paid.                                          *)
LEMMA QuotePaidKept ==
    ASSUME TypeInv, [Next]_vars, NEW a \in Agents, QuotePaid(a),
           call'[QuoteCall(a)] = call[QuoteCall(a)], payment'[a] = payment[a],
           call[QuoteCall(a)].addr \in Address
    PROVE  QuotePaid(a)'
<1> DEFINE q == call[QuoteCall(a)]
<1>1. PriceFor(q.hit) \in Nat
  BY DEF PriceFor, FullPrice, HitPrice
<1>2. PaymentTx(a, ServerWallet, PriceFor(q.hit), q.addr) # None
  <2>1. PaymentTx(a, ServerWallet, PriceFor(q.hit), q.addr)
          \in Transactions(Accounts, Address)
    BY <1>1, AgentAssumption, ConfigAssumption, PaymentTxType
  <2>2. QED
    BY <2>1, NoneAssumption
<1>3. ledger'[payment[a]] = ledger[payment[a]]
  BY <1>2, LedgerStep DEF QuotePaid, LedgerKept
<1>4. QED
  BY <1>3 DEF QuotePaid

(* A payment of the quoted price for the quoted address passes, if the     *)
(* call has the address of the quote and costs no more.                    *)
LEMMA QuoteAccepted ==
    ASSUME TypeInv, NEW a \in Agents, QuotePaid(a), NEW c \in Calls,
           call[QuoteCall(a)].addr \in Address, call[QuoteCall(a)].pc = "quoted",
           call[c].tx = payment[a], call[c].addr = call[QuoteCall(a)].addr,
           call[QuoteCall(a)].hit => call[c].hit
    PROVE  Accepted(c)
<1> DEFINE q == call[QuoteCall(a)]
           tx == PaymentTx(a, ServerWallet, PriceFor(q.hit), q.addr)
<1>1. ledger[call[c].tx] = tx
  BY DEF QuotePaid
<1>2. tx # None
  <2>1. PriceFor(q.hit) \in Nat
    BY DEF PriceFor, FullPrice, HitPrice
  <2>2. tx \in Transactions(Accounts, Address)
    BY <2>1, AgentAssumption, ConfigAssumption, PaymentTxType
  <2>3. QED
    BY <2>2, NoneAssumption
<1>3. PriceFor(q.hit) >= PriceFor(call[c].hit)
  BY DEF PriceFor, FullPrice, HitPrice
<1>4. FirstUorMemoIs(tx, q.addr)
  <2>1. tx.memos = <<q.addr>> /\ q.addr # NoAddress
    BY ConfigAssumption DEF PaymentTx
  <2>2. 1 \in DOMAIN tx.memos /\ tx.memos[1] = q.addr
    BY <2>1
  <2>3. QED
    BY <2>1, <2>2 DEF FirstUorMemoIs
<1>5. Verified(tx, PriceFor(call[c].hit), q.addr)
  <2>1. /\ tx.result = "tesSUCCESS" /\ tx.type = "Payment"
        /\ tx.destination = ServerWallet /\ tx.asset = SettlementAsset
        /\ tx.value = PriceFor(q.hit)
    BY DEF PaymentTx
  <2> HIDE DEF tx, q
  <2>2. QED
    BY <1>3, <1>4, <2>1 DEF Verified
<1>6. QED
  BY <1>1, <1>2, <1>5 DEF Accepted

-----------------------------------------------------------------------------
(* Liveness of the royalty threads.                                        *)
RoyaltyEnded(c) == royalty[c] \notin {"started", "submitted"}

(* A thread is not started again, so that each of its steps ends it or     *)
(* leaves it with a payment to log.                                        *)
LEMMA RoyaltyMoves ==
    ASSUME TypeInv, DispatchedInv, [Next]_vars, NEW c \in Calls, CanPayRoyalty(c)
    PROVE  /\ RoyaltyEnded(c)' \/ royalty'[c] = royalty[c]
                \/ (royalty[c] = "started" /\ royalty'[c] = "submitted")
           /\ PayRoyalty(c) => RoyaltyEnded(c)'
                \/ (royalty[c] = "started" /\ royalty'[c] = "submitted")
<1> USE DEF RoyaltyEnded, CanPayRoyalty
<1>1. ASSUME NEW d \in Calls, PayRoyalty(d), d = c
      PROVE  \/ RoyaltyEnded(c)'
             \/ royalty[c] = "started" /\ royalty'[c] = "submitted"
  BY <1>1 DEF PayRoyalty, RoyaltySkip, RoyaltySubmit, RoyaltyLog, RoyaltyFails,
    TypeInv, TypeOK
<1>2. ASSUME NEW d \in Calls, PayRoyalty(d), d # c PROVE royalty'[c] = royalty[c]
  BY <1>2 DEF PayRoyalty, RoyaltySkip, RoyaltySubmit, RoyaltyLog, RoyaltyFails,
    TypeInv, TypeOK
<1>3. ASSUME NEW d \in Calls, Handle(d) PROVE royalty'[c] = royalty[c]
  <2>1. CASE DispatchRoyalty(d)
    BY <2>1 DEF DispatchRoyalty, DispatchedInv, TypeInv, TypeOK
  <2>2. CASE ~ DispatchRoyalty(d)
    BY <1>3, <2>2 DEF Handle, Peek, Quote, AcceptPayment, RejectPayment,
      LookupFails, ServeHit, LogHit, RunInference, InferenceFails, MintCert,
      AnchorCert, AnchorFails, StoreCert, AdoptExisting, AttachMetadata, Respond
  <2>3. QED
    BY <2>1, <2>2
<1>4. CASE Restart
  BY <1>4 DEF Restart, TypeInv, TypeOK
<1>5. QED
  BY <1>1, <1>2, <1>3, <1>4
  DEF Next, Server, Clients, Receive, Submit, Tick, vars

LEMMA RoyaltyThreadEnds ==
    ASSUME NEW c \in Calls
    PROVE  []TypeInv /\ []DispatchedInv /\ [][Next]_vars /\ RoyaltyKeeps(c)
             => (royalty[c] = "started" ~> RoyaltyEnded(c))
<1> USE DEF RoyaltyEnded, CanPayRoyalty
<1>1. TypeInv /\ DispatchedInv /\ royalty[c] = "started" /\ [Next]_vars
        => (royalty[c] = "started" \/ royalty[c] = "submitted" \/ RoyaltyEnded(c))'
  BY RoyaltyMoves
<1>2. TypeInv /\ DispatchedInv /\ royalty[c] = "submitted" /\ [Next]_vars
        => (royalty[c] = "submitted" \/ RoyaltyEnded(c))'
  BY RoyaltyMoves
<1>3. TypeInv /\ DispatchedInv /\ royalty[c] = "started" /\ [Next]_vars
        /\ <<PayRoyalty(c)>>_vars
        => (royalty[c] = "submitted" \/ RoyaltyEnded(c))'
  BY RoyaltyMoves
<1>4. TypeInv /\ DispatchedInv /\ royalty[c] = "submitted" /\ [Next]_vars
        /\ <<PayRoyalty(c)>>_vars => RoyaltyEnded(c)'
  BY RoyaltyMoves
<1>5. royalty[c] = "started" \/ royalty[c] = "submitted" => CanPayRoyalty(c)
  OBVIOUS
<1>6. QED
  BY <1>1, <1>2, <1>3, <1>4, <1>5, PTL DEF RoyaltyKeeps

(* Every royalty thread comes to an end, paid, skipped, failed or lost,    *)
(* whatever other threads and restarts do in between, if their guards are  *)
(* all that they wait for.                                                 *)
THEOREM EveryRoyaltyEndsCorrect == FairSpec /\ []GuardsOpen => EveryRoyaltyEnds
<1>1. ASSUME NEW c \in Calls
      PROVE  FairSpec /\ []GuardsOpen
               => (royalty[c] = "started"
                     ~> royalty[c] \notin {"started", "submitted"})
  <2>1. Fairness => HandlerFair(c) /\ RoyaltyFair(c)
    BY DEF Fairness
  <2>2. []GuardsOpen /\ HandlerFair(c) /\ RoyaltyFair(c) => RoyaltyKeeps(c)
    BY FairKeeps
  <2>3. []TypeInv /\ []DispatchedInv /\ [][Next]_vars /\ RoyaltyKeeps(c)
          => (royalty[c] = "started" ~> royalty[c] \notin {"started", "submitted"})
    BY RoyaltyThreadEnds DEF RoyaltyEnded
  <2>4. QED
    BY <2>1, <2>2, <2>3, TypeCorrect, DispatchedCorrect, PTL DEF FairSpec, Spec
<1>2. QED
  BY <1>1 DEF EveryRoyaltyEnds

-----------------------------------------------------------------------------
(* Every step of the system is a step of the server or of its clients.     *)
LEMMA SystemIsNext ==
    ASSUME SystemInv, [SystemNext]_<<vars, agentVars>>
    PROVE  [Next]_vars
<1>1. ASSUME NEW a \in Agents, NEW r \in Requests, AskQuote(a, r) PROVE Next
  BY <1>1, AgentCalls DEF AskQuote, Next, Clients
<1>2. \A a \in Agents : call[QuoteCall(a)].pc = "quoted" => call[QuoteCall(a)].addr \in Address
  BY AgentCalls DEF SystemInv, TypeInv, GoodFrame
<1>3. ASSUME NEW a \in Agents, Retry(a) PROVE Next
  <2>1. call[QuoteCall(a)].addr \in Address /\ payment[a] \in TxIds
    BY <1>2, <1>3 DEF Retry, SystemInv, AgentInv, QuotePaid
  <2>2. call[QuoteCall(a)].addr[1] \in Requests
    BY <2>1 DEF Address
  <2>3. QED
    BY <1>3, <2>1, <2>2, AgentCalls DEF Retry, Next, Clients
<1>4. ASSUME NEW a \in Agents, NEW x \in TxIds, Pay(a, x) PROVE Next
  <2> DEFINE q == call[QuoteCall(a)]
  <2>1. q.addr \in Address /\ PriceFor(q.hit) \in {HitPrice, FullPrice}
    BY <1>2, <1>4 DEF Pay, SystemInv, AgentInv, PriceFor
  <2>2. Submit(x, PaymentTx(a, ServerWallet, PriceFor(q.hit), q.addr))
    BY <1>4 DEF Pay
  <2> HIDE DEF q
  <2>3. PaymentTx(a, ServerWallet, PriceFor(q.hit), q.addr) \in Payments
    BY <2>1, AgentAssumption
  <2>4. QED
    BY <2>2, <2>3 DEF Next, Clients
<1>5. ASSUME NEW a \in Agents, ReadQuote(a) \/ PayFails(a) \/ ReadAnswer(a) \/ TimeOut(a)
      PROVE  UNCHANGED vars
  BY <1>5 DEF ReadQuote, PayFails, ReadAnswer, TimeOut
<1>6. QED
  BY <1>1, <1>3, <1>4, <1>5 DEF SystemNext, AgentStep, Next

LEMMA PriceStep ==
    ASSUME SystemInv, [Next]_vars, NEW a \in Agents
    PROVE  PriceInv(a)'
<1> DEFINE qc == QuoteCall(a)  pc == PaidCall(a)
<1>1. TypeInv /\ SafeInv /\ KnownInv /\ AgentInv(a) /\ PriceInv(a)
      /\ qc \in Calls /\ pc \in Calls
  BY AgentCalls DEF SystemInv
<1>2. CASE call[pc].pc = "new"
  <2>1. call'[pc].pc \in {"new", "received"}
    BY <1>1, <1>2, NewCalls
  <2>2. QED
    BY <2>1 DEF PriceInv
<1>3. CASE call[pc].pc # "new"
  <2>1. call[qc].pc = "quoted" /\ call'[qc] = call[qc]
    BY <1>1, <1>3, CallKept DEF AgentInv, Answered
  <2> SUFFICES ASSUME call'[pc].addr = call'[qc].addr, call'[pc].epoch = call'[qc].epoch,
                      call'[pc].pc \notin {"new", "received", "lost"}, call'[qc].hit
               PROVE  call'[pc].hit
    BY DEF PriceInv
  <2>2. /\ call'[pc].addr = call[pc].addr /\ call'[pc].epoch = call[pc].epoch
        /\ call[pc].pc # "lost"
    BY <1>1, <1>3, CallKept
  <2>3. CASE call[pc].pc = "received"
    <3>1. call[qc].epoch = epoch
      BY <1>1, <2>1, <2>2, <2>3 DEF SafeInv, EpochInv, Running
    <3>2. store[call[pc].addr] # None
      BY <1>1, <2>1, <2>2, <3>1 DEF KnownInv
    <3>3. QED
      BY <1>1, <1>3, <2>3, <3>2, CallKept
  <2>4. CASE call[pc].pc # "received"
    <3>1. call'[pc].hit = call[pc].hit
      BY <1>1, <1>3, <2>4, CallKept
    <3>2. QED
      BY <1>1, <1>3, <2>1, <2>2, <2>4, <3>1 DEF PriceInv
  <2>5. QED
    BY <2>3, <2>4
<1>4. QED
  BY <1>2, <1>3

LEMMA HonouredStep ==
    ASSUME SystemInv, [Next]_vars
    PROVE  QuoteHonoured'
<1> SUFFICES ASSUME NEW a \in Agents, call'[PaidCall(a)].pc = "rejected",
                    call'[PaidCall(a)].addr = call'[QuoteCall(a)].addr,
                    call'[PaidCall(a)].epoch = call'[QuoteCall(a)].epoch
             PROVE  FALSE
  BY DEF QuoteHonoured
<1> DEFINE qc == QuoteCall(a)  pc == PaidCall(a)
<1>1. TypeInv /\ SafeInv /\ AgentInv(a) /\ PriceInv(a) /\ QuoteHonoured
      /\ qc \in Calls /\ pc \in Calls
  BY AgentCalls DEF SystemInv
<1>2. call[pc].pc # "new"
  BY <1>1, NewCalls
<1>3. call[qc].pc = "quoted" /\ call'[qc] = call[qc] /\ call[qc].addr \in Address
  BY <1>1, <1>2, CallKept DEF AgentInv, Answered, TypeInv, GoodFrame
<1>4. call[pc].addr = call[qc].addr /\ call[pc].epoch = call[qc].epoch
  BY <1>1, <1>2, <1>3, CallKept
<1>5. call[pc].pc = "verify" /\ ~ Accepted(pc)
  BY <1>1, <1>3, <1>4, RejectedHow DEF QuoteHonoured
<1>6. call[qc].hit => call[pc].hit
  BY <1>4, <1>5, <1>1 DEF PriceInv
<1>7. QuotePaid(a) /\ call[pc].tx = payment[a]
  BY <1>1, <1>2 DEF AgentInv
<1>8. QED
  BY <1>1, <1>3, <1>4, <1>5, <1>6, <1>7, QuoteAccepted

(* An agent that takes no step, and whose calls are not sent.              *)
LEMMA AgentKept ==
    ASSUME SystemInv, [Next]_vars, NEW a \in Agents,
           agent'[a] = agent[a], payment'[a] = payment[a],
           \A c \in {QuoteCall(a), PaidCall(a)} : call[c].pc = "new" => call'[c] = call[c]
    PROVE  AgentInv(a)'
<1> DEFINE qc == QuoteCall(a)  pc == PaidCall(a)
<1>1. TypeInv /\ SafeInv /\ AgentInv(a) /\ qc \in Calls /\ pc \in Calls
  BY AgentCalls DEF SystemInv
<1>2. call'[pc].pc = "new" <=> call[pc].pc = "new"
  BY <1>1, CallKept
<1>3. call[qc].pc = "quoted" => call'[qc] = call[qc] /\ call[qc].addr \in Address
  BY <1>1, CallKept DEF Answered, TypeInv, GoodFrame
<1>4. call[pc].pc # "new" => call'[pc].tx = call[pc].tx
  BY <1>1, CallKept
<1>5. call[pc].pc = "served" => call'[pc].pc = "served"
  BY <1>1, CallKept DEF Answered
<1>6. QuotePaid(a) /\ call[qc].pc = "quoted" => QuotePaid(a)'
  BY <1>1, <1>3, QuotePaidKept
<1> HIDE DEF qc, pc
<1>7. QED
  BY <1>1, <1>2, <1>3, <1>4, <1>5, <1>6 DEF AgentInv, qc, pc

LEMMA AgentTypeStep ==
    ASSUME SystemInv, [SystemNext]_<<vars, agentVars>>
    PROVE  AgentTypeOK'
<1>1. TypeOK'
  BY SystemIsNext, TypeStep DEF SystemInv, TypeInv
<1>2. /\ agent' \in [Agents -> {"idle", "quoting", "quoted", "paid", "retrying",
                                "done", "raised"}]
      /\ payment' \in [Agents -> TxIds \cup {None}]
  BY DEF SystemInv, AgentTypeOK, SystemNext, AgentStep, AskQuote, ReadQuote, Pay,
    PayFails, Retry, ReadAnswer, TimeOut, Becomes, agentVars
<1>3. QED
  BY <1>1, <1>2 DEF AgentTypeOK

(* The server and the clock send no calls.                                 *)
LEMMA ServerSendsNothing ==
    ASSUME TypeInv, Server \/ Tick \/ Restart, NEW c \in Calls, call[c].pc = "new"
    PROVE  call'[c] = call[c]
<1>1. ASSUME NEW d \in Calls, Handle(d) PROVE call'[c] = call[c]
  BY <1>1, HandlerMoves DEF FrameMoves, Running
<1>2. ASSUME NEW d \in Calls, PayRoyalty(d) PROVE call'[c] = call[c]
  BY <1>2 DEF PayRoyalty, RoyaltySkip, RoyaltySubmit, RoyaltyLog, RoyaltyFails
<1>3. CASE Restart
  BY <1>3, RestartEffect DEF Running
<1>4. QED
  BY <1>1, <1>2, <1>3 DEF Server, Tick

LEMMA AgentInvStep ==
    ASSUME SystemInv, [SystemNext]_<<vars, agentVars>>, NEW b \in Agents
    PROVE  AgentInv(b)'
<1>1. TypeInv /\ SafeInv /\ AgentInv(b) /\ [Next]_vars
  BY SystemIsNext DEF SystemInv
<1>2. /\ agent \in [Agents -> {"idle", "quoting", "quoted", "paid", "retrying",
                               "done", "raised"}]
      /\ payment \in [Agents -> TxIds \cup {None}]
  BY DEF SystemInv, AgentTypeOK
<1>3. CASE (Server \/ Tick \/ Restart) /\ UNCHANGED agentVars
  <2>1. \A c \in Calls : call[c].pc = "new" => call'[c] = call[c]
    BY <1>1, <1>3, ServerSendsNothing
  <2>2. QED
    BY <1>1, <1>3, <2>1, AgentCalls, AgentKept DEF agentVars
<1>4. ASSUME NEW a \in Agents, a # b, UNCHANGED call,
             agent'[b] = agent[b], payment'[b] = payment[b]
      PROVE  AgentInv(b)'
  BY <1>1, <1>4, AgentKept
<1>5. ASSUME NEW a \in Agents, NEW r \in Requests, AskQuote(a, r) PROVE AgentInv(b)'
  <2>1. /\ call'[QuoteCall(a)].pc = "received" /\ call[QuoteCall(a)].pc = "new"
        /\ \A c \in Calls \ {QuoteCall(a)} : call'[c] = call[c]
    BY <1>1, <1>5, AgentCalls, ReceiveEffect DEF AskQuote
  <2>2. CASE a = b
    <3>1. agent'[b] = "quoting" /\ agent[b] = "idle"
      BY <1>2, <1>5, <2>2 DEF AskQuote, Becomes
    <3>2. call'[PaidCall(b)].pc = "new"
      BY <1>1, <2>1, <2>2, <3>1, AgentCalls DEF AgentInv
    <3>3. QED
      BY <3>1, <3>2 DEF AgentInv
  <2>3. CASE a # b
    <3>1. agent'[b] = agent[b] /\ payment'[b] = payment[b]
      BY <1>2, <1>5, <2>3 DEF AskQuote, Becomes
    <3>2. \A c \in {QuoteCall(b), PaidCall(b)} : call'[c] = call[c]
      BY <2>1, <2>3, AgentCalls
    <3>3. QED
      BY <1>1, <3>1, <3>2, AgentKept
  <2>4. QED
    BY <2>2, <2>3
<1>6. ASSUME NEW a \in Agents, Retry(a) PROVE AgentInv(b)'
  <2>1. PICK r \in Requests, x \in TxIds : /\ Receive(PaidCall(a), r, x) /\ x = payment[a]
    <3>1. call[QuoteCall(a)].addr \in Address /\ payment[a] \in TxIds
      BY <1>6, AgentCalls
      DEF Retry, SystemInv, AgentInv, QuotePaid, TypeInv, GoodFrame
    <3>2. call[QuoteCall(a)].addr[1] \in Requests
      BY <3>1 DEF Address
    <3>3. QED
      BY <1>6, <3>1, <3>2 DEF Retry
  <2>2. /\ call'[PaidCall(a)].pc = "received" /\ call'[PaidCall(a)].tx = payment[a]
        /\ \A c \in Calls \ {PaidCall(a)} : call'[c] = call[c]
    <3>1. call'[PaidCall(a)].tx = x
      BY <2>1, AgentCalls DEF Receive, Update, SystemInv, TypeInv, TypeOK, Frame
    <3>2. QED
      BY <1>1, <2>1, <3>1, AgentCalls, ReceiveEffect
  <2>3. CASE a = b
    <3>1. agent'[b] = "retrying" /\ agent[b] = "paid" /\ payment'[b] = payment[b]
      BY <1>2, <1>6, <2>3 DEF Retry, Becomes
    <3>2. /\ call[QuoteCall(b)].pc = "quoted" /\ QuotePaid(b)
          /\ call'[QuoteCall(b)] = call[QuoteCall(b)]
      BY <1>1, <2>2, <2>3, <3>1, AgentCalls DEF AgentInv
    <3>3. QuotePaid(b)'
      BY <1>1, <3>1, <3>2, AgentCalls, QuotePaidKept DEF TypeInv, GoodFrame
    <3>4. QED
      BY <2>2, <2>3, <3>1, <3>2, <3>3 DEF AgentInv
  <2>4. CASE a # b
    <3>1. agent'[b] = agent[b] /\ payment'[b] = payment[b]
      BY <1>2, <1>6, <2>4 DEF Retry, Becomes
    <3>2. \A c \in {QuoteCall(b), PaidCall(b)} : call'[c] = call[c]
      BY <2>2, <2>4, AgentCalls
    <3>3. QED
      BY <1>1, <3>1, <3>2, AgentKept
  <2>5. QED
    BY <2>3, <2>4
<1>7. ASSUME NEW a \in Agents, NEW x \in TxIds, Pay(a, x) PROVE AgentInv(b)'
  <2>1. call' = call /\ agent[a] = "quoted"
    BY <1>7 DEF Pay, Submit
  <2>2. CASE a = b
    <3>1. agent'[b] \in {"paid", "raised"} /\ payment'[b] = x
      BY <1>2, <1>7, <2>2 DEF Pay, Becomes
    <3>2. call[QuoteCall(b)].pc = "quoted" /\ call[PaidCall(b)].pc = "new"
      BY <1>1, <2>1, <2>2 DEF AgentInv
    <3>3. QuotePaid(b)'
      BY <1>1, <1>7, <2>1, <2>2, <3>1 DEF Pay, Submit, QuotePaid, TypeInv, TypeOK
    <3>4. QED
      BY <2>1, <3>1, <3>2, <3>3 DEF AgentInv
  <2>3. CASE a # b
    <3>1. agent'[b] = agent[b] /\ payment'[b] = payment[b]
      BY <1>2, <1>7, <2>3 DEF Pay, Becomes
    <3>2. QED
      BY <1>4, <2>1, <2>3, <3>1
  <2>4. QED
    BY <2>2, <2>3
<1>8. ASSUME NEW a \in Agents, ReadQuote(a) \/ PayFails(a) \/ ReadAnswer(a) \/ TimeOut(a)
      PROVE  AgentInv(b)'
  <2>1. UNCHANGED <<vars, payment>>
    BY <1>8 DEF ReadQuote, PayFails, ReadAnswer, TimeOut
  <2>2. CASE a = b
    <3>1. \/ agent'[b] = "raised"
          \/ agent'[b] = "quoted" /\ agent[b] = "quoting" /\ call[QuoteCall(b)].pc = "quoted"
          \/ agent'[b] = "done" /\ agent[b] = "retrying" /\ call[PaidCall(b)].pc = "served"
      BY <1>2, <1>8, <2>2 DEF ReadQuote, PayFails, ReadAnswer, TimeOut, Becomes
    <3>2. QED
      BY <1>1, <2>1, <3>1 DEF AgentInv, QuotePaid, vars
  <2>3. CASE a # b
    <3>1. agent'[b] = agent[b]
      BY <1>2, <1>8, <2>3 DEF ReadQuote, PayFails, ReadAnswer, TimeOut, Becomes
    <3>2. QED
      BY <1>4, <2>1, <2>3, <3>1 DEF vars
  <2>4. QED
    BY <2>2, <2>3
<1>9. CASE UNCHANGED <<vars, agentVars>>
  BY <1>1, <1>9 DEF vars, agentVars, AgentInv, QuotePaid
<1>10. QED
  BY <1>3, <1>5, <1>6, <1>7, <1>8, <1>9 DEF SystemNext, AgentStep

LEMMA SystemInit == AgentInit => SystemInv
<1> SUFFICES ASSUME AgentInit PROVE SystemInv
  OBVIOUS
<1>1. TypeInv /\ SafeInv
  BY TypeInit, SafeInit DEF AgentInit
<1>2. \A c \in Calls : call[c].pc = "new"
  BY DEF AgentInit, Init
<1>3. AgentTypeOK /\ KnownInv
  BY <1>1, <1>2 DEF AgentInit, AgentTypeOK, KnownInv, TypeInv
<1>4. \A a \in Agents : AgentInv(a) /\ PriceInv(a)
  BY <1>2, AgentCalls DEF AgentInit, AgentInv, PriceInv
<1>5. QuoteHonoured
  BY <1>2, AgentCalls DEF QuoteHonoured
<1>6. QED
  BY <1>1, <1>3, <1>4, <1>5 DEF SystemInv

LEMMA SystemStep == SystemInv /\ [SystemNext]_<<vars, agentVars>> => SystemInv'
<1> SUFFICES ASSUME SystemInv, [SystemNext]_<<vars, agentVars>> PROVE SystemInv'
  OBVIOUS
<1>1. [Next]_vars
  BY SystemIsNext
<1>2. TypeInv' /\ SafeInv'
  BY <1>1, TypeStep, PathStep, EpochStep, PayStep, HitStep, HoldStep, AgreementStep
  DEF SystemInv, SafeInv
<1>3. AgentTypeOK' /\ KnownInv' /\ QuoteHonoured'
  BY <1>1, AgentTypeStep, KnownStep, HonouredStep DEF SystemInv
<1>4. \A a \in Agents : AgentInv(a)' /\ PriceInv(a)'
  BY <1>1, AgentInvStep, PriceStep
<1>5. QED
  BY <1>2, <1>3, <1>4 DEF SystemInv

(* Agents, and all that they share with the server, keep their types.      *)
THEOREM AgentTypeCorrect == SystemSpec => []AgentTypeOK
<1>1. SystemInv => AgentTypeOK
  BY DEF SystemInv
<1>2. QED
  BY <1>1, SystemInit, SystemStep, PTL DEF SystemSpec

(* The agents are clients of the server: what is proved of Spec holds of   *)
(* the whole system.                                                       *)
THEOREM SystemImplementsServer == SystemSpec => Spec
<1>1. AgentInit => Init
  BY DEF AgentInit
<1>2. QED
  BY <1>1, SystemInit, SystemStep, SystemIsNext, PTL DEF SystemSpec, Spec

(* A payment of exactly the quote is refused only if the hour turned or    *)
(* the server restarted in between, whatever the other agents do.          *)
THEOREM QuoteHonouredCorrect == SystemSpec => []QuoteHonoured
<1>1. SystemInv => QuoteHonoured
  BY DEF SystemInv
<1>2. QED
  BY <1>1, SystemInit, SystemStep, PTL DEF SystemSpec

(* An agent that returns got what it asked for and paid the quote for it.  *)
THEOREM DoneIsSettledCorrect == SystemSpec => []DoneIsSettled
<1>1. SystemInv => DoneIsSettled
  <2> SUFFICES ASSUME SystemInv, NEW a \in Agents, agent[a] = "done"
               PROVE  LET q == call[QuoteCall(a)]  p == call[PaidCall(a)] IN
                      /\ p.addr = q.addr
                      /\ ledger[payment[a]] = PaymentTx(a, ServerWallet,
                                                        PriceFor(q.hit), q.addr)
                      /\ p.hit \/ ~ q.hit
    BY DEF DoneIsSettled
  <2> DEFINE q == call[QuoteCall(a)]  p == call[PaidCall(a)]
             tx == PaymentTx(a, ServerWallet, PriceFor(q.hit), q.addr)
  <2>1. QuotePaid(a) /\ p.pc = "served" /\ p.tx = payment[a]
    BY DEF SystemInv, AgentInv
  <2>2. Accepted(PaidCall(a)) /\ p.addr \in Address
    BY <2>1, AgentCalls DEF SystemInv, SafeInv, PayInv, Paid, TypeInv, GoodFrame
  <2>3. Verified(tx, PriceFor(p.hit), p.addr) /\ ledger[payment[a]] = tx
    BY <2>1, <2>2 DEF Accepted, QuotePaid
  <2>4. tx.memos = <<q.addr>> /\ tx.value = PriceFor(q.hit)
    BY DEF PaymentTx
  <2>5. p.addr = q.addr
    BY <2>3, <2>4 DEF Verified, FirstUorMemoIs
  <2>6. p.hit \/ ~ q.hit
    <3>1. PriceFor(q.hit) >= PriceFor(p.hit)
      BY <2>3, <2>4 DEF Verified
    <3>2. QED
      BY <3>1 DEF PriceFor, FullPrice, HitPrice
  <2>7. QED
    BY <2>3, <2>5, <2>6
<1>2. QED
  BY <1>1, SystemInit, SystemStep, PTL DEF SystemSpec
=============================================================================
