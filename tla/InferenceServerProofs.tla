------------------------ MODULE InferenceServerProofs ------------------------
(***************************************************************************)
(* Proofs about InferenceServer for every set of calls, requests, texts    *)
(* and transactions, and for all bounds.                                   *)
(***************************************************************************)
EXTENDS InferenceServer, FiniteSetTheorems, TLAPS

-----------------------------------------------------------------------------
(* Types.  A frame is good if it holds what its position promises.         *)
Paid == {"get", "log_hit", "infer", "mint", "anchor", "put", "attach",
         "royalty", "respond", "served"}
HasText == {"log_hit", "mint", "anchor", "put", "attach", "royalty",
            "respond", "served"}
HasCert == {"log_hit", "anchor", "put", "attach", "royalty", "respond", "served"}

GoodFrame ==
    {f \in Frame :
        /\ f.pc # "new" => f.addr \in Address
        /\ f.pc \in Paid \cup {"verify"} => f.tx \in TxIds
        /\ f.pc \in HasText => f.text \in Texts
        /\ f.pc \in HasCert => f.cert \in Calls}

TypeInv ==
    /\ TypeOK
    /\ call \in [Calls -> GoodFrame]
    /\ \A c \in Calls : royalty[c] # "none" => call[c].pc # "new"

(* What changes when a handler moves on.                                   *)
LEMMA UpdateFrame ==
    ASSUME call \in [Calls -> GoodFrame], NEW c \in Calls, NEW f \in GoodFrame,
           Update(c, f)
    PROVE  /\ call' \in [Calls -> GoodFrame] /\ call' \in [Calls -> Frame]
           /\ call'[c] = f
           /\ \A d \in Calls \ {c} : call'[d] = call[d]
BY DEF Update, GoodFrame

LEMMA GotoFrame ==
    ASSUME NEW f \in GoodFrame, f.pc # "new", NEW pc \in Running \cup Answered,
           pc \in Paid \cup {"verify"} => f.pc \in Paid \cup {"verify"},
           pc \in HasText => f.pc \in HasText,
           pc \in HasCert => f.pc \in HasCert
    PROVE  /\ [f EXCEPT !.pc = pc] \in GoodFrame
           /\ [f EXCEPT !.pc = pc].pc # "new"
<1>1. [f EXCEPT !.pc = pc] \in Frame
  BY DEF GoodFrame, Frame
<1>2. pc # "new"
  BY DEF Running, Answered
<1>3. QED
  BY <1>1, <1>2 DEF GoodFrame, Frame

(* The frame that a handler step leaves is good, and not new.              *)
LEMMA HandlerFrame ==
    ASSUME TypeInv, NEW c \in Calls, Handle(c)
    PROVE  \E f \in GoodFrame : Update(c, f) /\ f.pc # "new"
<1>1. call[c] \in GoodFrame /\ call[c] \in Frame
  BY DEF TypeInv, GoodFrame
<1>2. ASSUME NEW pc \in Running \cup Answered, call[c].pc # "new",
             pc \in Paid \cup {"verify"} => call[c].pc \in Paid \cup {"verify"},
             pc \in HasText => call[c].pc \in HasText,
             pc \in HasCert => call[c].pc \in HasCert,
             Goto(c, pc)
      PROVE  \E f \in GoodFrame : Update(c, f) /\ f.pc # "new"
  BY <1>1, <1>2, GotoFrame DEF Goto
<1>3. ASSUME NEW pc \in {"log_hit", "attach"}, call[c].pc \in {"get", "put"},
             Store!Has(call[c].addr), Update(c, WithEntry(c, pc))
      PROVE  \E f \in GoodFrame : Update(c, f) /\ f.pc # "new"
  <2>1. call[c].addr \in Address /\ call[c].tx \in TxIds
    BY <1>1, <1>3 DEF GoodFrame, Paid
  <2>2. store[call[c].addr] \in [cert: Calls, text: Texts, hits: Nat]
    BY <1>3, <2>1 DEF TypeInv, TypeOK, Store!StoreTypeOK, Store!Entry, Store!Has
  <2>3. store[call[c].addr].text \in Texts /\ store[call[c].addr].cert \in Calls
    BY <2>2
  <2>4. WithEntry(c, pc) \in Frame
    BY <1>1, <1>3, <2>3 DEF WithEntry, Frame, Running
  <2>5. WithEntry(c, pc) \in GoodFrame /\ WithEntry(c, pc).pc # "new"
    BY <1>1, <1>3, <2>1, <2>3, <2>4 DEF WithEntry, GoodFrame, Frame
  <2>6. QED
    BY <1>3, <2>5
<1>4. CASE Peek(c)
  <2> DEFINE f == [call[c] EXCEPT !.hit = IsHit(c),
                   !.pc = IF call[c].tx = None THEN "quote" ELSE "verify"]
  <2>1. IsHit(c) \in BOOLEAN
    BY DEF IsHit, Store!Has
  <2>2. f \in Frame
    BY <1>1, <2>1 DEF Frame, Running
  <2>3. f.pc \in {"quote", "verify"} /\ (f.pc = "verify" => f.tx \in TxIds)
    BY <1>1 DEF Frame
  <2>4. f.addr \in Address
    BY <1>1, <1>4 DEF Peek, GoodFrame, Frame
  <2>5. f \in GoodFrame /\ f.pc # "new"
    BY <2>2, <2>3, <2>4 DEF GoodFrame, Paid, HasText, HasCert
  <2>6. Update(c, f)
    BY <1>4, Zenon DEF Peek
  <2> HIDE DEF f
  <2>7. QED
    BY <2>5, <2>6
<1>5. CASE AcceptPayment(c)
  BY <1>2, <1>5 DEF AcceptPayment, Running, Paid, HasText, HasCert
<1>6. CASE LookupFails(c)
  BY <1>2, <1>6 DEF LookupFails, Answered, Paid, HasText, HasCert
<1>7. CASE ServeHit(c)
  BY <1>3, <1>7 DEF ServeHit, Store!Get
<1>8. CASE AdoptExisting(c)
  BY <1>3, <1>8 DEF AdoptExisting
<1>9. CASE RunInference(c)
  <2>1. PICK t \in Texts :
          Update(c, [call[c] EXCEPT !.pc = "mint", !.text = t])
    BY <1>9 DEF RunInference
  <2> DEFINE f == [call[c] EXCEPT !.pc = "mint", !.text = t]
  <2>2. f \in Frame
    BY <1>1 DEF Frame, Running
  <2>3. f \in GoodFrame /\ f.pc # "new"
    BY <1>1, <1>9, <2>2 DEF RunInference, GoodFrame, Frame, Paid, HasText, HasCert
  <2>4. QED
    BY <2>1, <2>3
<1>10. CASE MintCert(c)
  <2> DEFINE f == [call[c] EXCEPT !.cert = c,
                   !.pc = IF HcsAnchorEnabled THEN "anchor" ELSE "put"]
  <2>1. f \in Frame
    BY <1>1 DEF Frame, Running
  <2>2. f \in GoodFrame /\ f.pc # "new"
    BY <1>1, <1>10, <2>1 DEF MintCert, GoodFrame, Frame, Paid, HasText, HasCert
  <2>3. QED
    BY <1>10, <2>2 DEF MintCert
<1>11. CASE Quote(c)
  BY <1>2, <1>11 DEF Quote, Running, Answered, Paid, HasText, HasCert
<1>12. CASE RejectPayment(c)
  BY <1>2, <1>12 DEF RejectPayment, Running, Answered, Paid, HasText, HasCert
<1>13. CASE LogHit(c)
  BY <1>2, <1>13 DEF LogHit, Running, Answered, Paid, HasText, HasCert
<1>14. CASE InferenceFails(c)
  BY <1>2, <1>14 DEF InferenceFails, Running, Answered, Paid, HasText, HasCert
<1>15. CASE AnchorCert(c)
  BY <1>2, <1>15 DEF AnchorCert, Running, Answered, Paid, HasText, HasCert
<1>16. CASE AnchorFails(c)
  BY <1>2, <1>16 DEF AnchorFails, Running, Answered, Paid, HasText, HasCert
<1>17. CASE StoreCert(c)
  BY <1>2, <1>17 DEF StoreCert, Running, Answered, Paid, HasText, HasCert
<1>18. CASE AttachMetadata(c)
  BY <1>2, <1>18 DEF AttachMetadata, Running, Answered, Paid, HasText, HasCert
<1>19. CASE DispatchRoyalty(c)
  BY <1>2, <1>19 DEF DispatchRoyalty, Running, Answered, Paid, HasText, HasCert
<1>20. CASE Respond(c)
  BY <1>2, <1>20 DEF Respond, Running, Answered, Paid, HasText, HasCert
<1>21. QED
  BY <1>4, <1>5, <1>6, <1>7, <1>8, <1>9, <1>10, <1>11, <1>12, <1>13, <1>14, <1>15, <1>16, <1>17, <1>18, <1>19, <1>20 DEF Handle

(* A payment built by payment.py is a transaction that delivers in full.   *)
LEMMA PaymentTxType ==
    ASSUME NEW from \in Accounts, NEW to \in Accounts, NEW amount \in Nat,
           NEW addr \in Address
    PROVE  PaymentTx(from, to, amount, addr) \in Transactions(Accounts, Address)
<1> DEFINE tx == PaymentTx(from, to, amount, addr)
<1>1. <<addr>> \in Seq(Address \cup {NoAddress})
  OBVIOUS
<1>2. tx \in [type: {"Payment", "Other"}, result: {"tesSUCCESS", "tecFAILED"},
              account: Accounts, destination: Accounts, asset: {Rlusd, Xrp},
              value: Nat, delivered: Nat, memos: Seq(Address \cup {NoAddress})]
  BY <1>1 DEF PaymentTx, SettlementAsset
<1>3. tx.delivered <= tx.value /\ tx.result = "tesSUCCESS"
  BY DEF PaymentTx
<1>4. QED
  BY <1>2, <1>3 DEF Transactions

LEMMA RoyaltyTxType ==
    ASSUME TypeInv, NEW c \in Calls, royalty[c] # "none"
    PROVE  RoyaltyTx(c) \in Transactions(Accounts, Address)
<1>1. RoyaltyShare(PriceFor(call[c].hit)) \in Nat
  BY DEF RoyaltyShare, RoyaltyQuanta, PriceFor, FullPrice, HitPrice
<1>2. call[c].addr \in Address
  BY DEF TypeInv, GoodFrame
<1>3. QED
  BY <1>1, <1>2, PaymentTxType, ConfigAssumption DEF RoyaltyTx

LEMMA TypeInit == Init => TypeInv
<1> SUFFICES ASSUME Init PROVE TypeInv
  OBVIOUS
<1>1. TypeOK
  BY ConfigAssumption
  DEF Init, TypeOK, Frame, Store!StoreInit, Store!StoreTypeOK
<1>2. call \in [Calls -> GoodFrame]
  BY <1>1 DEF Init, TypeOK, GoodFrame, Paid, HasText, HasCert
<1>3. QED
  BY <1>1, <1>2 DEF TypeInv, Init

LEMMA TypeStep == TypeInv /\ [Next]_vars => TypeInv'
<1> SUFFICES ASSUME TypeInv, [Next]_vars PROVE TypeInv'
  OBVIOUS
<1>1. ASSUME NEW c \in Calls, Handle(c) PROVE TypeInv'
  <2>1. PICK f \in GoodFrame : Update(c, f) /\ f.pc # "new"
    BY <1>1, HandlerFrame
  <2>2. /\ call' \in [Calls -> GoodFrame] /\ call' \in [Calls -> Frame]
        /\ call'[c] = f /\ \A d \in Calls \ {c} : call'[d] = call[d]
    BY <2>1, UpdateFrame DEF TypeInv
  <2>3. UNCHANGED <<hour, epoch, ledger>>
    BY <1>1 DEF Handle, Peek, Quote, AcceptPayment, RejectPayment, LookupFails,
      ServeHit, LogHit, RunInference, InferenceFails, MintCert, AnchorCert,
      AnchorFails, StoreCert, AdoptExisting, AttachMetadata, DispatchRoyalty,
      Respond
  <2>4. Store!StoreTypeOK'
    <3>1. CASE ServeHit(c)
      <4> DEFINE e == [store[call[c].addr] EXCEPT !.hits = @ + 1]
      <4>1. store[call[c].addr] # None /\ store' = [store EXCEPT ![call[c].addr] = e]
        BY <3>1 DEF ServeHit, Store!Get, Store!Has
      <4>2. call[c].addr \in Address
        BY <3>1 DEF ServeHit, TypeInv, GoodFrame
      <4>3. store[call[c].addr] \in [cert: Calls, text: Texts, hits: Nat]
        BY <4>1, <4>2 DEF TypeInv, TypeOK, Store!StoreTypeOK, Store!Entry
      <4>4. e \in [cert: Calls, text: Texts, hits: Nat]
        BY <4>3
      <4> HIDE DEF e
      <4>5. QED
        BY <4>1, <4>4 DEF TypeInv, TypeOK, Store!StoreTypeOK, Store!Entry
    <3>2. CASE StoreCert(c)
      <4>1. call[c].cert \in Calls /\ call[c].text \in Texts
        BY <3>2 DEF StoreCert, TypeInv, GoodFrame, HasText, HasCert
      <4>2. QED
        BY <3>2, <4>1
        DEF StoreCert, TypeInv, TypeOK, Store!StoreTypeOK, Store!Entry, Store!Put
    <3>3. CASE UNCHANGED store
      BY <3>3 DEF TypeInv, TypeOK, Store!StoreTypeOK
    <3>4. QED
      BY <1>1, <3>1, <3>2, <3>3 DEF Handle, Peek, Quote, AcceptPayment,
        RejectPayment, LookupFails, LogHit, RunInference, InferenceFails,
        MintCert, AnchorCert, AnchorFails, AdoptExisting, AttachMetadata,
        DispatchRoyalty, Respond
  <2>5. meta' \in [Calls -> TxIds \cup {None}]
    <3>1. CASE AttachMetadata(c)
      <4>1. call[c].cert \in Calls /\ call[c].tx \in TxIds
        BY <3>1 DEF AttachMetadata, TypeInv, GoodFrame, Paid, HasCert
      <4>2. QED
        BY <3>1, <4>1 DEF AttachMetadata, TypeInv, TypeOK
    <3>2. CASE UNCHANGED meta
      BY <3>2 DEF TypeInv, TypeOK
    <3>3. QED
      BY <1>1, <3>1, <3>2 DEF Handle, Peek, Quote, AcceptPayment,
        RejectPayment, LookupFails, ServeHit, LogHit, RunInference,
        InferenceFails, MintCert, AnchorCert, AnchorFails, StoreCert,
        AdoptExisting, DispatchRoyalty, Respond
  <2>6. /\ royalty' \in [Calls -> {"none", "started", "submitted", "paid",
                                   "skipped", "failed", "lost"}]
        /\ \A d \in Calls \ {c} : royalty'[d] = royalty[d]
    BY <1>1 DEF TypeInv, TypeOK, Handle, Peek, Quote, AcceptPayment,
      RejectPayment, LookupFails, ServeHit, LogHit, RunInference,
      InferenceFails, MintCert, AnchorCert, AnchorFails, StoreCert,
      AdoptExisting, AttachMetadata, DispatchRoyalty, Respond
  <2>7. events' \subseteq EventKinds \X Calls /\ topic' \subseteq Calls
    <3>1. \/ UNCHANGED events
          \/ \E kind \in EventKinds : Push(kind, c)
          \/ Quote(c)
      BY <1>1 DEF EventKinds, Handle, Peek,
        AcceptPayment, RejectPayment, LookupFails, ServeHit, LogHit,
        RunInference, InferenceFails, MintCert, AnchorCert, AnchorFails,
        StoreCert, AdoptExisting, AttachMetadata, DispatchRoyalty, Respond
    <3>2. events' \subseteq EventKinds \X Calls
      BY <3>1 DEF Quote, Push, EventKinds, TypeInv, TypeOK
    <3>3. topic' \in {topic, topic \cup {c}}
      BY <1>1 DEF Handle, Peek, Quote,
        AcceptPayment, RejectPayment, LookupFails, ServeHit, LogHit,
        RunInference, InferenceFails, MintCert, AnchorCert, AnchorFails,
        StoreCert, AdoptExisting, AttachMetadata, DispatchRoyalty, Respond
    <3>4. QED
      BY <3>2, <3>3 DEF TypeInv, TypeOK
  <2>8. QED
    BY <2>1, <2>2, <2>3, <2>4, <2>5, <2>6, <2>7 DEF TypeInv, TypeOK
<1>2. ASSUME NEW c \in Calls, PayRoyalty(c) PROVE TypeInv'
  <2>1. CASE RoyaltySkip(c)
    BY <2>1 DEF RoyaltySkip, TypeInv, TypeOK, Store!StoreTypeOK
  <2>2. ASSUME NEW x \in TxIds, RoyaltySubmit(c, x) PROVE TypeInv'
    <3>1. RoyaltyTx(c) \in Transactions(Accounts, Address)
      BY <2>2, RoyaltyTxType DEF RoyaltySubmit
    <3>2. QED
      BY <2>2, <3>1 DEF RoyaltySubmit, TypeInv, TypeOK, Store!StoreTypeOK
  <2>3. CASE RoyaltyLog(c)
    BY <2>3
    DEF RoyaltyLog, Push, EventKinds, TypeInv, TypeOK, Store!StoreTypeOK
  <2>4. CASE RoyaltyFails(c)
    BY <2>4 DEF RoyaltyFails, TypeInv, TypeOK, Store!StoreTypeOK
  <2>5. QED
    BY <1>2, <2>1, <2>2, <2>3, <2>4 DEF PayRoyalty
<1>3. ASSUME NEW c \in Calls, NEW r \in Requests, NEW x \in TxIds \cup {None},
             Receive(c, r, x)
      PROVE  TypeInv'
  <2> DEFINE f == [call[c] EXCEPT !.pc = "received", !.addr = RequestAddress(r),
                                  !.tx = x, !.epoch = epoch]
  <2>1. RequestAddress(r) \in Address /\ epoch \in 0..MaxRestarts
    BY DEF RequestAddress, Address, TypeInv, TypeOK
  <2>2. f \in Frame
    BY <2>1 DEF TypeInv, TypeOK, Frame, Running
  <2>3. f.pc = "received" /\ f.addr = RequestAddress(r)
    BY DEF TypeInv, TypeOK, Frame
  <2>4. f \in GoodFrame
    BY <2>1, <2>2, <2>3 DEF GoodFrame, Paid, HasText, HasCert
  <2>5. Update(c, f)
    BY <1>3, Zenon DEF Receive
  <2> HIDE DEF f
  <2>6. /\ call' \in [Calls -> GoodFrame] /\ call' \in [Calls -> Frame]
        /\ call'[c].pc = "received" /\ \A d \in Calls \ {c} : call'[d] = call[d]
    BY <2>3, <2>4, <2>5, UpdateFrame DEF TypeInv
  <2>7. QED
    BY <1>3, <2>6 DEF Receive, TypeInv, TypeOK, Store!StoreTypeOK
<1>4. ASSUME NEW x \in TxIds, NEW tx \in Payments, Submit(x, tx) PROVE TypeInv'
  BY <1>4, PaymentsAssumption DEF Submit, TypeInv, TypeOK, Store!StoreTypeOK
<1>5. CASE Tick
  BY <1>5, ConfigAssumption DEF Tick, TypeInv, TypeOK, Store!StoreTypeOK
<1>6. CASE Restart
  <2>1. \A c \in Calls : [call[c] EXCEPT !.pc = "lost"] \in Frame
    BY DEF TypeInv, TypeOK, Frame, Answered
  <2>2. \A c \in Calls : call'[c] \in GoodFrame
    BY <1>6, <2>1 DEF Restart, TypeInv, TypeOK, Frame, GoodFrame, Running, Paid,
      HasText, HasCert
  <2>3. call' \in [Calls -> GoodFrame] /\ call' \in [Calls -> Frame]
    BY <1>6, <2>2 DEF Restart, GoodFrame
  <2>4. \A c \in Calls : call[c].pc # "new" => call'[c].pc # "new"
    BY <1>6 DEF Restart, TypeInv, TypeOK, Frame
  <2>5. QED
    BY <1>6, <2>3, <2>4, ConfigAssumption
    DEF Restart, TypeInv, TypeOK, Store!StoreTypeOK, Store!Reset
<1>7. CASE UNCHANGED vars
  BY <1>7 DEF vars, TypeInv, TypeOK, Store!StoreTypeOK
<1>8. QED
  BY <1>1, <1>2, <1>3, <1>4, <1>5, <1>6, <1>7 DEF Next, Server, Clients

(* Type correctness: every variable keeps its type, and every handler      *)
(* frame holds what its position needs, for all constants.                 *)
THEOREM TypeCorrect == Spec => [](TypeOK /\ TypeInv)
<1>1. TypeInv => TypeOK
  BY DEF TypeInv
<1>2. QED
  BY <1>1, TypeInit, TypeStep, PTL DEF Spec

-----------------------------------------------------------------------------
(* What one step of a handler may do, whichever of its actions it is.      *)
Holding == {"log_hit", "attach", "royalty", "respond", "served"}
MissPath == {"infer", "mint", "anchor", "put", "attach"}

SameEntry(a) ==
    /\ store'[a] # None
    /\ store'[a].text = store[a].text
    /\ store'[a].cert = store[a].cert

FrameMoves(c) ==
    LET f == call[c]  g == call'[c] IN
    /\ f.pc \in Running /\ g.pc \in Running \cup Answered /\ g.pc # "received"
    /\ g.addr = f.addr /\ g.tx = f.tx /\ g.epoch = f.epoch
    /\ g.hit = IF f.pc = "received" THEN store[f.addr] # None ELSE f.hit
    /\ g.pc \in Paid => f.pc \in Paid \/ (f.pc = "verify" /\ Accepted(c))
    /\ g.pc \in {"get", "log_hit"} => (f.pc = "verify" /\ f.hit) \/ f.pc = "get"
    /\ g.pc \in MissPath => (f.pc = "verify" /\ ~ f.hit) \/ f.pc \in MissPath
    /\ f.pc \in {"attach", "royalty", "respond"}
         => g.pc \in {"royalty", "respond", "served"}

DataMoves(c) ==
    LET f == call[c]  g == call'[c] IN
    /\ g.pc \in {"anchor", "put"} => g.cert = (IF f.pc = "mint" THEN c ELSE f.cert)
                                     /\ f.pc \in {"mint", "anchor"}
    /\ g.pc \in Holding =>
         \/ f.pc \in Holding /\ g.text = f.text /\ g.cert = f.cert
         \/ /\ f.pc \in {"get", "put"} /\ store'[f.addr] # None
            /\ g.text = store'[f.addr].text /\ g.cert = store'[f.addr].cert
    /\ \A a \in Address : store[a] # None => SameEntry(a)
    /\ \A a \in Address : store[a] = None /\ store'[a] # None =>
         f.pc = "put" /\ g.pc = "attach" /\ f.addr = a /\ store'[a].cert = f.cert
    /\ \A m \in Calls : meta'[m] # meta[m] =>
         f.pc = "attach" /\ m = f.cert /\ meta'[m] = f.tx

LEMMA GotoEffect ==
    ASSUME TypeInv, NEW c \in Calls, NEW pc, Goto(c, pc)
    PROVE  /\ call'[c].pc = pc
           /\ call'[c].addr = call[c].addr /\ call'[c].tx = call[c].tx
           /\ call'[c].hit = call[c].hit /\ call'[c].text = call[c].text
           /\ call'[c].cert = call[c].cert /\ call'[c].epoch = call[c].epoch
BY DEF Goto, Update, TypeInv, TypeOK, Frame

LEMMA EntryEffect ==
    ASSUME TypeInv, NEW c \in Calls, NEW pc, Update(c, WithEntry(c, pc))
    PROVE  /\ call'[c].pc = pc
           /\ call'[c].addr = call[c].addr /\ call'[c].tx = call[c].tx
           /\ call'[c].hit = call[c].hit /\ call'[c].epoch = call[c].epoch
           /\ call'[c].text = store[call[c].addr].text
           /\ call'[c].cert = store[call[c].addr].cert
BY DEF WithEntry, Update, TypeInv, TypeOK, Frame

LEMMA HandlerMoves ==
    ASSUME TypeInv, NEW c \in Calls, Handle(c)
    PROVE  /\ FrameMoves(c) /\ DataMoves(c)
           /\ UNCHANGED <<hour, epoch, ledger>>
           /\ \A d \in Calls \ {c} : call'[d] = call[d]
<1> USE DEF FrameMoves, DataMoves, SameEntry, Running, Answered, Paid, MissPath,
            Holding
<1>1. call[c] \in Frame /\ call \in [Calls -> Frame]
  BY DEF TypeInv, TypeOK
<1>2. \A d \in Calls \ {c} : call'[d] = call[d]
  <2>1. PICK f \in GoodFrame : Update(c, f)
    BY HandlerFrame
  <2>2. QED
    BY <2>1, UpdateFrame DEF TypeInv
<1>3. CASE Quote(c)
  BY <1>2, <1>3, GotoEffect DEF Quote
<1>4. CASE RejectPayment(c)
  BY <1>2, <1>4, GotoEffect DEF RejectPayment
<1>5. CASE LogHit(c)
  BY <1>2, <1>5, GotoEffect DEF LogHit
<1>6. CASE InferenceFails(c)
  BY <1>2, <1>6, GotoEffect DEF InferenceFails
<1>7. CASE AnchorCert(c)
  BY <1>2, <1>7, GotoEffect DEF AnchorCert
<1>8. CASE AnchorFails(c)
  BY <1>2, <1>8, GotoEffect DEF AnchorFails
<1>9. CASE DispatchRoyalty(c)
  BY <1>2, <1>9, GotoEffect DEF DispatchRoyalty
<1>10. CASE Respond(c)
  BY <1>2, <1>10, GotoEffect DEF Respond
<1>11. CASE AcceptPayment(c)
  BY <1>2, <1>11, GotoEffect DEF AcceptPayment
<1>12. CASE LookupFails(c)
  BY <1>2, <1>12, GotoEffect DEF LookupFails
<1>13. CASE AttachMetadata(c)
  BY <1>2, <1>13, GotoEffect DEF AttachMetadata, TypeInv, TypeOK
<1>14. CASE Peek(c)
  <2>1. /\ call'[c].hit = IsHit(c)
        /\ call'[c].pc \in {"quote", "verify"}
        /\ call'[c].addr = call[c].addr /\ call'[c].tx = call[c].tx
        /\ call'[c].epoch = call[c].epoch
    BY <1>1, <1>14 DEF Peek, Update, Frame
  <2>2. QED
    BY <1>2, <1>14, <2>1 DEF Peek, IsHit, Store!Has
<1>15. CASE RunInference(c)
  <2>1. PICK t \in Texts :
          Update(c, [call[c] EXCEPT !.pc = "mint", !.text = t])
    BY <1>15 DEF RunInference
  <2>2. /\ call'[c].pc = "mint" /\ call'[c].hit = call[c].hit
        /\ call'[c].addr = call[c].addr /\ call'[c].tx = call[c].tx
        /\ call'[c].epoch = call[c].epoch
    BY <1>1, <2>1 DEF Update, Frame
  <2>3. QED
    BY <1>2, <1>15, <2>2 DEF RunInference
<1>16. CASE MintCert(c)
  <2>1. /\ call'[c].pc \in {"anchor", "put"} /\ call'[c].cert = c
        /\ call'[c].addr = call[c].addr /\ call'[c].tx = call[c].tx
        /\ call'[c].epoch = call[c].epoch /\ call'[c].hit = call[c].hit
    BY <1>1, <1>16 DEF MintCert, Update, Frame
  <2>2. QED
    BY <1>2, <1>16, <2>1 DEF MintCert
<1>17. CASE ServeHit(c)
  <2>1. call[c].addr \in Address
    BY <1>17 DEF ServeHit, TypeInv, GoodFrame
  <2>2. /\ store[call[c].addr] # None
        /\ store'[call[c].addr] = [store[call[c].addr] EXCEPT !.hits = @ + 1]
        /\ \A a \in Address : a # call[c].addr => store'[a] = store[a]
    BY <1>17, <2>1 DEF ServeHit, Store!Get, Store!Has, TypeInv, TypeOK,
      Store!StoreTypeOK
  <2>3. store[call[c].addr] \in [cert: Calls, text: Texts, hits: Nat]
    BY <2>1, <2>2 DEF TypeInv, TypeOK, Store!StoreTypeOK, Store!Entry
  <2>4. SameEntry(call[c].addr)
    <3>1. store'[call[c].addr] \in [cert: Calls, text: Texts, hits: Nat]
      BY <2>2, <2>3
    <3>2. QED
      BY <2>2, <2>3, <3>1, NoneAssumption
  <2>5. /\ \A a \in Address : store[a] # None => SameEntry(a)
        /\ \A a \in Address : store[a] = None => store'[a] = None
    BY <2>2, <2>4
  <2>6. /\ store'[call[c].addr] # None
        /\ store'[call[c].addr].text = store[call[c].addr].text
        /\ store'[call[c].addr].cert = store[call[c].addr].cert
    BY <2>4
  <2>7. /\ call[c].pc = "get" /\ call'[c].pc = "log_hit" /\ meta' = meta
        /\ call'[c].addr = call[c].addr /\ call'[c].tx = call[c].tx
        /\ call'[c].hit = call[c].hit /\ call'[c].epoch = call[c].epoch
        /\ call'[c].text = store[call[c].addr].text
        /\ call'[c].cert = store[call[c].addr].cert
        /\ UNCHANGED <<hour, epoch, ledger>>
    BY <1>17, EntryEffect DEF ServeHit
  <2> HIDE DEF SameEntry
  <2>8. FrameMoves(c)
    BY <2>7
  <2>9. DataMoves(c)
    BY <2>5, <2>6, <2>7
  <2>10. QED
    BY <1>2, <2>7, <2>8, <2>9
<1>18. CASE AdoptExisting(c)
  BY <1>2, <1>18, EntryEffect DEF AdoptExisting, Store!Has
<1>19. CASE StoreCert(c)
  <2>1. /\ call[c].addr \in Address /\ call[c].cert \in Calls
        /\ call[c].text \in Texts
    BY <1>19 DEF StoreCert, TypeInv, GoodFrame, HasText, HasCert
  <2>2. /\ store[call[c].addr] = None
        /\ store'[call[c].addr] = [cert |-> call[c].cert,
                                   text |-> call[c].text, hits |-> 0]
        /\ \A a \in Address : a # call[c].addr => store'[a] = store[a]
    BY <1>19, <2>1 DEF StoreCert, Store!Put, Store!Has, TypeInv, TypeOK,
      Store!StoreTypeOK
  <2>3. store'[call[c].addr] # None
    BY <2>1, <2>2, NoneAssumption
  <2>4. QED
    BY <1>2, <1>19, <2>2, <2>3, GotoEffect DEF StoreCert
<1>20. QED
  BY <1>3, <1>4, <1>5, <1>6, <1>7, <1>8, <1>9, <1>10, <1>11, <1>12, <1>13, <1>14, <1>15, <1>16, <1>17, <1>18, <1>19 DEF Handle

-----------------------------------------------------------------------------
(* The inductive invariant: which calls have paid, and which of them may   *)
(* rely on the entry of their address in the store.                        *)
PathInv ==
    \A c \in Calls :
        LET f == call[c] IN
        /\ f.pc \in {"get", "log_hit"} => f.hit
        /\ f.pc \in MissPath \/ f.pc \in {"new", "received"} => ~ f.hit
        /\ f.pc \in {"anchor", "put"} => f.cert = c

EpochInv ==
    \A c \in Calls :
        /\ call[c].pc \in Running => call[c].epoch = epoch
        /\ call[c].pc # "new" => call[c].epoch <= epoch

PayInv == \A c \in Calls : call[c].pc \in Paid => Accepted(c)

HitInv ==
    \A c \in Calls : call[c].pc \in Running /\ call[c].hit
                       => store[call[c].addr] # None

HoldInv ==
    \A c \in Calls :
        LET f == call[c] IN
        f.pc \in Holding /\ f.epoch = epoch =>
            /\ store[f.addr] # None
            /\ store[f.addr].text = f.text /\ store[f.addr].cert = f.cert

SafeInv == PathInv /\ EpochInv /\ PayInv /\ HitInv /\ HoldInv /\ Agreement

LedgerKept == \A x \in TxIds : ledger[x] # None => ledger'[x] = ledger[x]

(* A validated transaction stays as it is.                                 *)
LEMMA LedgerStep ==
    ASSUME TypeInv, [Next]_vars
    PROVE  LedgerKept
<1>1. ASSUME NEW c \in Calls, Handle(c) PROVE LedgerKept
  BY <1>1, HandlerMoves DEF LedgerKept
<1>2. ASSUME NEW c \in Calls, PayRoyalty(c) PROVE LedgerKept
  BY <1>2 DEF PayRoyalty, RoyaltySkip, RoyaltySubmit, RoyaltyLog, RoyaltyFails,
    LedgerKept, TypeInv, TypeOK
<1>3. QED
  BY <1>1, <1>2 DEF Next, Server, Clients, Receive, Submit, Tick, Restart, vars,
    LedgerKept, TypeInv, TypeOK

LEMMA AcceptedKept ==
    ASSUME TypeInv, LedgerKept, NEW c \in Calls, call[c].tx \in TxIds, Accepted(c),
           call'[c].tx = call[c].tx, call'[c].addr = call[c].addr,
           call'[c].hit = call[c].hit
    PROVE  Accepted(c)'
BY DEF Accepted, LedgerKept

(* The steps that no call and no entry of the store takes part in.         *)
Quiet == UNCHANGED <<epoch, store, meta, call>>

LEMMA StepCases ==
    ASSUME TypeInv, [Next]_vars
    PROVE  \/ \E c \in Calls : Handle(c)
           \/ \E c \in Calls, r \in Requests, x \in TxIds \cup {None} :
                Receive(c, r, x)
           \/ Restart
           \/ Quiet
BY DEF Next, Server, Clients, PayRoyalty, RoyaltySkip, RoyaltySubmit, RoyaltyLog,
  RoyaltyFails, Submit, Tick, vars, Quiet

LEMMA ReceiveEffect ==
    ASSUME TypeInv, NEW c \in Calls, NEW r \in Requests,
           NEW x \in TxIds \cup {None}, Receive(c, r, x)
    PROVE  /\ call[c].pc = "new" /\ call'[c].pc = "received"
           /\ call'[c].addr \in Address
           /\ call'[c].epoch = epoch /\ call'[c].hit = call[c].hit
           /\ \A d \in Calls \ {c} : call'[d] = call[d]
           /\ UNCHANGED <<epoch, store, meta, royalty>>
BY DEF Receive, Update, RequestAddress, Address, TypeInv, TypeOK, Frame

LEMMA RestartEffect ==
    ASSUME TypeInv, Restart
    PROVE  /\ epoch' = epoch + 1
           /\ \A a \in Address : store'[a] = None
           /\ \A m \in Calls : meta'[m] = None
           /\ \A c \in Calls : call[c].pc \notin Running => call'[c] = call[c]
           /\ \A c \in Calls : call[c].pc \in Running =>
                call'[c].pc = "lost" /\ call'[c].epoch = call[c].epoch
BY DEF Restart, Store!Reset, TypeInv, TypeOK, Frame

LEMMA SafeInit == Init => SafeInv
BY DEF Init, SafeInv, PathInv, EpochInv, PayInv, HitInv, HoldInv, Agreement,
  Served, MissPath, Running, Paid, Holding

LEMMA PathStep ==
    ASSUME TypeInv, SafeInv, [Next]_vars
    PROVE  PathInv'
<1> USE DEF Running, Answered, MissPath, Holding
<1>1. ASSUME NEW c \in Calls, Handle(c) PROVE PathInv'
  <2>1. FrameMoves(c) /\ DataMoves(c) /\ \A d \in Calls \ {c} : call'[d] = call[d]
    BY <1>1, HandlerMoves
  <2>2. /\ call'[c].pc \in {"get", "log_hit"} => call'[c].hit
        /\ call'[c].pc \in MissPath \/ call'[c].pc \in {"new", "received"}
             => ~ call'[c].hit
        /\ call'[c].pc \in {"anchor", "put"} => call'[c].cert = c
    BY <2>1 DEF FrameMoves, DataMoves, SafeInv, PathInv
  <2>3. QED
    BY <2>1, <2>2 DEF SafeInv, PathInv
<1>2. ASSUME NEW c \in Calls, NEW r \in Requests, NEW x \in TxIds \cup {None},
             Receive(c, r, x)
      PROVE  PathInv'
  BY <1>2, ReceiveEffect DEF SafeInv, PathInv
<1>3. CASE Restart
  BY <1>3, RestartEffect DEF SafeInv, PathInv
<1>4. CASE Quiet
  BY <1>4 DEF Quiet, SafeInv, PathInv
<1>5. QED
  BY <1>1, <1>2, <1>3, <1>4, StepCases

LEMMA EpochStep ==
    ASSUME TypeInv, SafeInv, [Next]_vars
    PROVE  EpochInv'
<1>1. ASSUME NEW c \in Calls, Handle(c) PROVE EpochInv'
  <2>1. FrameMoves(c) /\ epoch' = epoch /\ \A d \in Calls \ {c} : call'[d] = call[d]
    BY <1>1, HandlerMoves
  <2>2. call[c].epoch = epoch /\ call'[c].epoch = epoch /\ epoch \in Nat
    BY <2>1, ConfigAssumption DEF FrameMoves, SafeInv, EpochInv, TypeInv, TypeOK
  <2>3. QED
    BY <2>1, <2>2 DEF SafeInv, EpochInv
<1>2. ASSUME NEW c \in Calls, NEW r \in Requests, NEW x \in TxIds \cup {None},
             Receive(c, r, x)
      PROVE  EpochInv'
  BY <1>2, ReceiveEffect DEF SafeInv, EpochInv, TypeInv, TypeOK
<1>3. CASE Restart
  <2>1. epoch \in Nat /\ \A c \in Calls : call[c].epoch \in Nat
    BY ConfigAssumption DEF TypeInv, TypeOK, Frame
  <2>2. QED
    BY <1>3, <2>1, RestartEffect DEF SafeInv, EpochInv, Running
<1>4. CASE Quiet
  BY <1>4 DEF Quiet, SafeInv, EpochInv
<1>5. QED
  BY <1>1, <1>2, <1>3, <1>4, StepCases

LEMMA PayStep ==
    ASSUME TypeInv, SafeInv, [Next]_vars
    PROVE  PayInv'
<1> USE DEF Paid
<1>1. LedgerKept
  BY LedgerStep
<1>2. \A c \in Calls : call[c].pc \in Paid \cup {"verify"} => call[c].tx \in TxIds
  BY DEF TypeInv, GoodFrame
<1>3. ASSUME NEW c \in Calls, call[c].pc \in Paid, call'[c] = call[c]
      PROVE  Accepted(c)'
  BY <1>1, <1>2, <1>3, AcceptedKept DEF SafeInv, PayInv
<1>4. ASSUME NEW c \in Calls, Handle(c) PROVE PayInv'
  <2>1. FrameMoves(c) /\ \A d \in Calls \ {c} : call'[d] = call[d]
    BY <1>4, HandlerMoves
  <2>2. ASSUME call'[c].pc \in Paid PROVE Accepted(c)'
    <3>1. Accepted(c) /\ call[c].pc \in Paid \cup {"verify"}
      BY <2>1, <2>2 DEF FrameMoves, SafeInv, PayInv
    <3>2. /\ call'[c].tx = call[c].tx /\ call'[c].addr = call[c].addr
          /\ call'[c].hit = call[c].hit
      BY <2>1, <3>1 DEF FrameMoves
    <3>3. QED
      BY <1>1, <1>2, <3>1, <3>2, AcceptedKept
  <2>3. QED
    BY <1>3, <2>1, <2>2 DEF PayInv
<1>5. ASSUME NEW c \in Calls, NEW r \in Requests, NEW x \in TxIds \cup {None},
             Receive(c, r, x)
      PROVE  PayInv'
  BY <1>3, <1>5, ReceiveEffect DEF PayInv
<1>6. CASE Restart
  BY <1>3, <1>6, RestartEffect DEF PayInv, Running
<1>7. CASE Quiet
  BY <1>3, <1>7 DEF Quiet, PayInv
<1>8. QED
  BY <1>4, <1>5, <1>6, <1>7, StepCases

LEMMA HitStep ==
    ASSUME TypeInv, SafeInv, [Next]_vars
    PROVE  HitInv'
<1> USE DEF Running
<1>1. \A c \in Calls : call[c].pc # "new" => call[c].addr \in Address
  BY DEF TypeInv, GoodFrame
<1>2. ASSUME NEW c \in Calls, Handle(c) PROVE HitInv'
  <2>1. FrameMoves(c) /\ DataMoves(c) /\ \A d \in Calls \ {c} : call'[d] = call[d]
    BY <1>2, HandlerMoves
  <2>2. \A a \in Address : store[a] # None => store'[a] # None
    BY <2>1 DEF DataMoves, SameEntry
  <2>3. call'[c].hit => store[call[c].addr] # None
    BY <2>1 DEF FrameMoves, SafeInv, HitInv
  <2>4. call'[c].hit => store'[call'[c].addr] # None
    BY <1>1, <2>1, <2>2, <2>3 DEF FrameMoves
  <2>5. QED
    BY <1>1, <2>1, <2>2, <2>4 DEF SafeInv, HitInv
<1>3. ASSUME NEW c \in Calls, NEW r \in Requests, NEW x \in TxIds \cup {None},
             Receive(c, r, x)
      PROVE  HitInv'
  BY <1>3, ReceiveEffect DEF SafeInv, HitInv, PathInv
<1>4. CASE Restart
  BY <1>4, RestartEffect DEF HitInv
<1>5. CASE Quiet
  BY <1>5 DEF Quiet, SafeInv, HitInv
<1>6. QED
  BY <1>2, <1>3, <1>4, <1>5, StepCases

LEMMA HoldStep ==
    ASSUME TypeInv, SafeInv, [Next]_vars
    PROVE  HoldInv'
<1> USE DEF Holding
<1>1. \A c \in Calls : call[c].pc # "new" => call[c].addr \in Address
  BY DEF TypeInv, GoodFrame
<1>2. ASSUME NEW c \in Calls, Handle(c) PROVE HoldInv'
  <2>1. /\ FrameMoves(c) /\ DataMoves(c) /\ epoch' = epoch
        /\ \A d \in Calls \ {c} : call'[d] = call[d]
    BY <1>2, HandlerMoves
  <2>2. \A a \in Address : store[a] # None => SameEntry(a)
    BY <2>1 DEF DataMoves
  <2>3. ASSUME NEW d \in Calls, d # c, call'[d].pc \in Holding,
               call'[d].epoch = epoch'
        PROVE  /\ store'[call'[d].addr] # None
               /\ store'[call'[d].addr].text = call'[d].text
               /\ store'[call'[d].addr].cert = call'[d].cert
    BY <1>1, <2>1, <2>2, <2>3 DEF SafeInv, HoldInv, SameEntry
  <2>4. ASSUME call'[c].pc \in Holding
        PROVE  /\ store'[call'[c].addr] # None
               /\ store'[call'[c].addr].text = call'[c].text
               /\ store'[call'[c].addr].cert = call'[c].cert
    <3>1. call'[c].addr = call[c].addr /\ call[c].addr \in Address
          /\ call[c].epoch = epoch
      BY <1>1, <2>1 DEF FrameMoves, SafeInv, EpochInv, Running
    <3>2. CASE call[c].pc \in {"get", "put"}
      BY <2>1, <2>4, <3>1, <3>2 DEF DataMoves
    <3>3. CASE call[c].pc \notin {"get", "put"}
      <4>1. /\ call[c].pc \in Holding
            /\ call'[c].text = call[c].text /\ call'[c].cert = call[c].cert
        BY <2>1, <2>4, <3>3 DEF DataMoves
      <4>2. QED
        BY <2>2, <3>1, <4>1 DEF SafeInv, HoldInv, SameEntry
    <3>4. QED
      BY <3>2, <3>3
  <2>5. QED
    BY <2>3, <2>4 DEF HoldInv
<1>3. ASSUME NEW c \in Calls, NEW r \in Requests, NEW x \in TxIds \cup {None},
             Receive(c, r, x)
      PROVE  HoldInv'
  BY <1>3, ReceiveEffect DEF SafeInv, HoldInv
<1>4. CASE Restart
  <2>1. epoch \in Nat /\ \A c \in Calls : call[c].epoch \in Nat
    BY ConfigAssumption DEF TypeInv, TypeOK, Frame
  <2>2. ASSUME NEW c \in Calls, call'[c].pc \in Holding PROVE call'[c].epoch # epoch'
    BY <1>4, <2>1, <2>2, RestartEffect DEF SafeInv, EpochInv
  <2>3. QED
    BY <2>2 DEF HoldInv
<1>5. CASE Quiet
  BY <1>5 DEF Quiet, SafeInv, HoldInv
<1>6. QED
  BY <1>2, <1>3, <1>4, <1>5, StepCases

LEMMA AgreementStep ==
    ASSUME TypeInv, SafeInv, [Next]_vars
    PROVE  Agreement'
<1> USE DEF Served
<1>1. ASSUME NEW c \in Calls, Handle(c) PROVE Agreement'
  <2>1. FrameMoves(c) /\ epoch' = epoch /\ \A d \in Calls \ {c} : call'[d] = call[d]
    BY <1>1, HandlerMoves
  <2>2. call'[c].epoch = epoch'
    BY <2>1 DEF FrameMoves, SafeInv, EpochInv
  <2>3. HoldInv'
    BY HoldStep
  <2>4. ASSUME NEW d \in Calls, Served(c)', Served(d)', call'[c].addr = call'[d].addr,
               call'[c].epoch = call'[d].epoch
        PROVE  call'[c].text = call'[d].text /\ call'[c].cert = call'[d].cert
    BY <2>2, <2>3, <2>4 DEF HoldInv, Holding
  <2>5. ASSUME NEW b \in Calls, NEW d \in Calls, Served(b)', Served(d)',
               call'[b].addr = call'[d].addr, call'[b].epoch = call'[d].epoch
        PROVE  call'[b].text = call'[d].text /\ call'[b].cert = call'[d].cert
    BY <2>1, <2>4, <2>5 DEF SafeInv, Agreement
  <2>6. QED
    BY <2>5 DEF Agreement
<1>2. ASSUME NEW c \in Calls, NEW r \in Requests, NEW x \in TxIds \cup {None},
             Receive(c, r, x)
      PROVE  Agreement'
  BY <1>2, ReceiveEffect DEF SafeInv, Agreement
<1>3. CASE Restart
  BY <1>3, RestartEffect DEF SafeInv, Agreement, Running
<1>4. CASE Quiet
  BY <1>4 DEF Quiet, SafeInv, Agreement
<1>5. QED
  BY <1>1, <1>2, <1>3, <1>4, StepCases

LEMMA SafeCorrect == Spec => [](TypeInv /\ SafeInv)
<1>1. TypeInv /\ SafeInv /\ [Next]_vars => (TypeInv /\ SafeInv)'
  BY TypeStep, PathStep, EpochStep, PayStep, HitStep, HoldStep, AgreementStep
  DEF SafeInv
<1>2. QED
  BY <1>1, TypeInit, SafeInit, PTL DEF Spec

(* Calls of one server process that are served for one address get the     *)
(* same completion under the same certificate.                             *)
THEOREM AgreementCorrect == Spec => []Agreement
<1>1. SafeInv => Agreement
  BY DEF SafeInv
<1>2. QED
  BY <1>1, SafeCorrect, PTL

(* The assertion of server.py 348 never fails.                             *)
THEOREM HitIsServableCorrect == Spec => []HitIsServable
<1>1. SafeInv => HitIsServable
  BY DEF SafeInv, HitInv, PathInv, HitIsServable, Store!Has, Running
<1>2. QED
  BY <1>1, SafeCorrect, PTL

LEMMA AcceptedBacks ==
    ASSUME TypeInv, NEW c \in Calls, call[c].tx \in TxIds, Accepted(c)
    PROVE  Backs(call[c].tx, PriceFor(call[c].hit), call[c].addr)
BY NoneAssumption DEF Accepted, Verified, FirstUorMemoIs, Backs

(* Every completion handed out is backed by a successful payment to the    *)
(* server that names the price charged and is bound to the address of the  *)
(* call.  What that payment delivered, the server does not know.           *)
THEOREM ServedIsBoundCorrect == Spec => []ServedIsBound
<1>1. TypeInv /\ SafeInv => ServedIsBound
  BY AcceptedBacks
  DEF TypeInv, GoodFrame, SafeInv, PayInv, ServedIsBound, Served, Paid
<1>2. QED
  BY <1>1, SafeCorrect, PTL

-----------------------------------------------------------------------------
(* Provenance: who minted an entry, and what its certificate is stamped    *)
(* with.  Two calls may stamp one certificate, so the stamp is not always  *)
(* the payment of the call that minted it.                                 *)
StoredInv ==
    \A a \in Address : store[a] # None =>
        LET m == call[store[a].cert] IN
        /\ m.addr = a /\ m.epoch = epoch /\ ~ m.hit
        /\ m.pc \in {"attach", "royalty", "respond", "served"}

(* Call d missed the address of m, and answers with the certificate of m.  *)
Stamper(d, m) ==
    /\ call[d].pc \in {"royalty", "respond", "served"} /\ ~ call[d].hit
    /\ call[d].addr = call[m].addr /\ call[d].cert = m

StampInv(m) ==
    /\ call[m].pc # "new"
    /\ store[call[m].addr] # None /\ store[call[m].addr].cert = m
    /\ Backs(meta[m], FullPrice, call[m].addr)
    /\ \E d \in Calls : Stamper(d, m) /\ call[d].tx = meta[m]

MetaInv == \A m \in Calls : meta[m] # None => StampInv(m)

LEMMA StoredCert ==
    ASSUME TypeInv, NEW a \in Address, store[a] # None
    PROVE  store[a].cert \in Calls
BY DEF TypeInv, TypeOK, Store!StoreTypeOK, Store!Entry

LEMMA BacksKept ==
    ASSUME LedgerKept, NEW x \in TxIds, NEW amount, NEW a, Backs(x, amount, a)
    PROVE  Backs(x, amount, a)'
BY DEF LedgerKept, Backs

(* A call that has answered, or is about to, keeps what it answers.        *)
LEMMA StamperKept ==
    ASSUME TypeInv, NEW c \in Calls, Handle(c), NEW d \in Calls, NEW m \in Calls,
           Stamper(d, m), call'[m].addr = call[m].addr
    PROVE  Stamper(d, m)' /\ call'[d].tx = call[d].tx
<1>1. /\ FrameMoves(c) /\ DataMoves(c)
      /\ \A e \in Calls \ {c} : call'[e] = call[e]
  BY HandlerMoves
<1>2. CASE d # c
  BY <1>1, <1>2 DEF Stamper
<1>3. CASE d = c
  <2>1. /\ call'[c].pc \in {"royalty", "respond", "served"}
        /\ call'[c].hit = call[c].hit /\ call'[c].addr = call[c].addr
        /\ call'[c].tx = call[c].tx
    BY <1>1, <1>3 DEF FrameMoves, Stamper, Running
  <2>2. call'[c].cert = call[c].cert
    BY <1>1, <1>3, <2>1 DEF DataMoves, Stamper, Holding
  <2>3. QED
    BY <1>3, <2>1, <2>2 DEF Stamper
<1>4. QED
  BY <1>2, <1>3

LEMMA StoredStep ==
    ASSUME TypeInv, SafeInv, StoredInv, [Next]_vars
    PROVE  StoredInv'
<1>1. ASSUME NEW c \in Calls, Handle(c) PROVE StoredInv'
  <2>1. /\ FrameMoves(c) /\ DataMoves(c) /\ epoch' = epoch
        /\ \A d \in Calls \ {c} : call'[d] = call[d]
    BY <1>1, HandlerMoves
  <2> SUFFICES ASSUME NEW a \in Address, store'[a] # None
               PROVE  LET m == call'[store'[a].cert] IN
                      /\ m.addr = a /\ m.epoch = epoch /\ ~ m.hit
                      /\ m.pc \in {"attach", "royalty", "respond", "served"}
    BY <2>1 DEF StoredInv
  <2>2. CASE store[a] # None
    <3>1. store'[a].cert = store[a].cert /\ store[a].cert \in Calls
      BY <2>1, <2>2, StoredCert DEF DataMoves, SameEntry
    <3>2. LET m == call[store[a].cert] IN
          /\ m.addr = a /\ m.epoch = epoch /\ ~ m.hit
          /\ m.pc \in {"attach", "royalty", "respond", "served"}
      BY <2>2 DEF StoredInv
    <3>3. CASE store[a].cert # c
      BY <2>1, <3>1, <3>2, <3>3
    <3>4. CASE store[a].cert = c
      BY <2>1, <3>1, <3>2, <3>4 DEF FrameMoves, Running
    <3>5. QED
      BY <3>3, <3>4
  <2>3. CASE store[a] = None
    <3>1. /\ call[c].pc = "put" /\ call'[c].pc = "attach" /\ call[c].addr = a
          /\ store'[a].cert = c
      BY <2>1, <2>3 DEF DataMoves, SafeInv, PathInv
    <3>2. call[c].epoch = epoch /\ ~ call[c].hit
      BY <3>1 DEF SafeInv, PathInv, EpochInv, MissPath, Running
    <3>3. QED
      BY <2>1, <3>1, <3>2 DEF FrameMoves
  <2>4. QED
    BY <2>2, <2>3
<1>2. ASSUME NEW c \in Calls, NEW r \in Requests, NEW x \in TxIds \cup {None},
             Receive(c, r, x)
      PROVE  StoredInv'
  BY <1>2, ReceiveEffect, StoredCert DEF StoredInv
<1>3. CASE Restart
  BY <1>3, RestartEffect DEF StoredInv
<1>4. CASE Quiet
  BY <1>4 DEF Quiet, StoredInv
<1>5. QED
  BY <1>1, <1>2, <1>3, <1>4, StepCases

LEMMA MetaStep ==
    ASSUME TypeInv, SafeInv, StoredInv, MetaInv, [Next]_vars
    PROVE  MetaInv'
<1>1. LedgerKept
  BY LedgerStep
<1>2. \A m \in Calls : meta[m] # None => meta[m] \in TxIds
  BY DEF TypeInv, TypeOK
<1>3. \A c \in Calls : call[c].pc # "new" => call[c].addr \in Address
  BY DEF TypeInv, GoodFrame
<1>4. ASSUME NEW m \in Calls, meta[m] # None, meta'[m] = meta[m],
             call'[m].pc # "new", call'[m].addr = call[m].addr,
             SameEntry(call[m].addr),
             \A d \in Calls : Stamper(d, m)
               => Stamper(d, m)' /\ call'[d].tx = call[d].tx
      PROVE  StampInv(m)'
  <2>1. PICK d \in Calls : Stamper(d, m) /\ call[d].tx = meta[m]
    BY <1>4 DEF MetaInv, StampInv
  <2>2. Stamper(d, m)' /\ call'[d].tx = meta'[m]
    BY <1>4, <2>1
  <2>3. Backs(meta[m], FullPrice, call[m].addr)
    BY <1>4 DEF MetaInv, StampInv
  <2>4. Backs(meta[m], FullPrice, call[m].addr)'
    BY <1>1, <1>2, <1>4, <2>3 DEF Backs, LedgerKept
  <2>5. QED
    BY <1>4, <2>2, <2>4 DEF MetaInv, StampInv, SameEntry
<1>5. ASSUME NEW c \in Calls, Handle(c) PROVE MetaInv'
  <2>1. /\ FrameMoves(c) /\ DataMoves(c) /\ \A d \in Calls \ {c} : call'[d] = call[d]
    BY <1>5, HandlerMoves
  <2>2. \A m \in Calls : call[m].pc # "new" =>
          call'[m].pc # "new" /\ call'[m].addr = call[m].addr
    BY <2>1 DEF FrameMoves, Running, Answered
  <2>3. \A a \in Address : store[a] # None => SameEntry(a)
    BY <2>1 DEF DataMoves
  <2>4. ASSUME NEW m \in Calls, meta'[m] # None, meta'[m] = meta[m]
        PROVE  StampInv(m)'
    <3>1. call[m].pc # "new" /\ store[call[m].addr] # None
      BY <2>4 DEF MetaInv, StampInv
    <3>2. \A d \in Calls : Stamper(d, m)
            => Stamper(d, m)' /\ call'[d].tx = call[d].tx
      BY <1>5, <2>2, <3>1, StamperKept
    <3>3. QED
      BY <1>3, <1>4, <2>2, <2>3, <2>4, <3>1, <3>2
  <2>5. ASSUME NEW m \in Calls, meta'[m] # None, meta'[m] # meta[m]
        PROVE  StampInv(m)'
    <3>1. call[c].pc = "attach" /\ m = call[c].cert /\ meta'[m] = call[c].tx
      BY <2>1, <2>5 DEF DataMoves
    <3>2. call[c].addr \in Address /\ call[c].tx \in TxIds /\ Accepted(c)
      BY <3>1 DEF TypeInv, GoodFrame, SafeInv, PayInv, Paid
    <3>3. store[call[c].addr] # None /\ store[call[c].addr].cert = m
      BY <3>1 DEF SafeInv, EpochInv, HoldInv, Holding, Running
    <3>4. call[m].addr = call[c].addr /\ call[m].pc # "new"
      BY <3>2, <3>3 DEF StoredInv
    <3>5. ~ call[c].hit
      BY <3>1 DEF SafeInv, PathInv, MissPath
    <3>6. Backs(call[c].tx, FullPrice, call[c].addr)
      BY <3>2, <3>5, AcceptedBacks DEF PriceFor
    <3>7. Backs(meta[m], FullPrice, call[m].addr)'
      <4>1. ledger' = ledger
        BY <1>5, HandlerMoves
      <4>2. QED
        BY <2>2, <3>1, <3>4, <3>6, <4>1 DEF Backs
    <3>8. Stamper(c, m)' /\ call'[c].tx = meta'[m]
      <4>1. /\ call'[c].pc \in {"royalty", "respond", "served"}
            /\ call'[c].hit = call[c].hit /\ call'[c].addr = call[c].addr
            /\ call'[c].tx = call[c].tx
        BY <2>1, <3>1 DEF FrameMoves
      <4>2. call'[c].cert = call[c].cert
        BY <2>1, <3>1, <4>1 DEF DataMoves, Holding
      <4>3. QED
        BY <2>2, <3>1, <3>4, <3>5, <4>1, <4>2 DEF Stamper
    <3>9. QED
      BY <2>2, <2>3, <3>2, <3>3, <3>4, <3>7, <3>8 DEF SameEntry, StampInv
  <2>6. QED
    BY <2>4, <2>5 DEF MetaInv
<1>6. ASSUME NEW c \in Calls, NEW r \in Requests, NEW x \in TxIds \cup {None},
             Receive(c, r, x)
      PROVE  MetaInv'
  <2>1. \A m \in Calls : call[m].pc # "new" => call'[m] = call[m]
    BY <1>6, ReceiveEffect
  <2>2. \A a \in Address : store[a] # None => SameEntry(a)
    BY <1>6, ReceiveEffect DEF SameEntry
  <2>3. \A m \in Calls : meta'[m] = meta[m]
    BY <1>6, ReceiveEffect
  <2>4. \A m \in Calls : meta[m] # None => call[m].pc # "new" /\ store[call[m].addr] # None
    BY DEF MetaInv, StampInv
  <2>5. \A d, m \in Calls : call[m].pc # "new" /\ Stamper(d, m)
          => Stamper(d, m)' /\ call'[d].tx = call[d].tx
    BY <2>1 DEF Stamper
  <2>6. QED
    BY <1>3, <1>4, <2>1, <2>2, <2>3, <2>4, <2>5 DEF MetaInv
<1>7. CASE Restart
  BY <1>7, RestartEffect DEF MetaInv
<1>8. CASE Quiet
  <2>1. UNCHANGED <<call, meta, store>>
    BY <1>8 DEF Quiet
  <2>2. \A m \in Calls : meta[m] # None => call[m].pc # "new" /\ store[call[m].addr] # None
    BY DEF MetaInv, StampInv
  <2>3. \A d, m \in Calls : Stamper(d, m) => Stamper(d, m)' /\ call'[d].tx = call[d].tx
    BY <2>1 DEF Stamper
  <2>4. QED
    BY <1>4, <2>1, <2>2, <2>3 DEF SameEntry, MetaInv
<1>9. QED
  BY <1>5, <1>6, <1>7, <1>8, StepCases

(* Every certificate in the store was minted for its own address by a call *)
(* whose payment names the full price, and is stamped only by calls that   *)
(* missed there too and answer with it.                                    *)
THEOREM StoreIsBoundCorrect == Spec => []StoreIsBound
<1>1. Init => StoredInv /\ MetaInv
  BY DEF Init, Store!StoreInit, StoredInv, MetaInv
<1>2. TypeInv /\ SafeInv /\ StoredInv /\ MetaInv => StoreIsBound
  <2> SUFFICES ASSUME TypeInv, SafeInv, StoredInv, MetaInv,
                      NEW a \in Address, store[a] # None
               PROVE  LET m == store[a].cert IN
                      /\ call[m].addr = a /\ call[m].epoch = epoch
                      /\ Backs(call[m].tx, FullPrice, a)
                      /\ meta[m] # None =>
                           /\ Backs(meta[m], FullPrice, a)
                           /\ \E d \in Calls :
                                /\ call[d].tx = meta[m] /\ call[d].addr = a
                                /\ ~ call[d].hit /\ call[d].cert = m
    BY DEF StoreIsBound, Store!Has
  <2> DEFINE m == store[a].cert
  <2>1. /\ m \in Calls /\ call[m].addr = a /\ call[m].epoch = epoch /\ ~ call[m].hit
        /\ call[m].pc \in Paid
    BY StoredCert DEF StoredInv, Paid
  <2>2. call[m].tx \in TxIds /\ Accepted(m)
    BY <2>1 DEF TypeInv, GoodFrame, SafeInv, PayInv
  <2>3. Backs(call[m].tx, FullPrice, a)
    BY <2>1, <2>2, AcceptedBacks DEF PriceFor
  <2>4. QED
    BY <2>1, <2>3 DEF MetaInv, StampInv, Stamper
<1>3. TypeInv /\ SafeInv /\ StoredInv /\ MetaInv /\ [Next]_vars
        => StoredInv' /\ MetaInv'
  BY StoredStep, MetaStep
<1>4. QED
  BY <1>1, <1>2, <1>3, SafeCorrect, PTL DEF Spec

-----------------------------------------------------------------------------
(* The event log: who has pushed what.                                     *)
Late == {"anchor", "put", "attach", "royalty", "respond", "served"}

MintedInv ==
    \A c \in Calls :
        call[c].pc \in Late /\ ~ call[c].hit /\ call[c].epoch = epoch
            => <<"CERT_MINTED", c>> \in events

LoggedInv ==
    \A c \in Calls : <<"CACHE_HIT", c>> \in events =>
        call[c].pc \in Holding /\ call[c].epoch = epoch

(* A handler comes to hold a certificate of its own by minting it, with an *)
(* event, and logs a hit once it holds the entry.                          *)
LogMoves(c) ==
    /\ events \subseteq events'
    /\ call'[c].pc \in Late =>
         \/ call[c].pc \in Late \cup {"log_hit"}
         \/ <<"CERT_MINTED", c>> \in events'
    /\ call[c].pc = "log_hit" => call'[c].pc = "royalty"
    /\ \A d \in Calls : <<"CACHE_HIT", d>> \in events' /\ <<"CACHE_HIT", d>> \notin events
         => d = c /\ call'[c].pc = "royalty"

LEMMA HandlerLogs ==
    ASSUME TypeInv, NEW c \in Calls, Handle(c)
    PROVE  LogMoves(c)
<1> USE DEF LogMoves, Late
<1>1. call[c] \in Frame /\ call \in [Calls -> Frame]
  BY DEF TypeInv, TypeOK
<1>2. CASE Quote(c)
  BY <1>2, GotoEffect DEF Quote
<1>3. CASE RejectPayment(c)
  BY <1>3, GotoEffect DEF RejectPayment
<1>4. CASE LookupFails(c)
  BY <1>4, GotoEffect DEF LookupFails
<1>5. CASE AcceptPayment(c)
  BY <1>5, GotoEffect DEF AcceptPayment, Push
<1>6. CASE InferenceFails(c)
  BY <1>6, GotoEffect DEF InferenceFails
<1>7. CASE AnchorCert(c)
  BY <1>7, GotoEffect DEF AnchorCert, Push
<1>8. CASE AnchorFails(c)
  BY <1>8, GotoEffect DEF AnchorFails
<1>9. CASE StoreCert(c)
  BY <1>9, GotoEffect DEF StoreCert
<1>10. CASE AttachMetadata(c)
  BY <1>10, GotoEffect DEF AttachMetadata
<1>11. CASE DispatchRoyalty(c)
  BY <1>11, GotoEffect DEF DispatchRoyalty
<1>12. CASE Respond(c)
  BY <1>12, GotoEffect DEF Respond
<1>13. CASE LogHit(c)
  BY <1>13, GotoEffect DEF LogHit, Push
<1>14. CASE Peek(c)
  BY <1>1, <1>14 DEF Peek, Update, Frame
<1>15. CASE RunInference(c)
  BY <1>1, <1>15 DEF RunInference, Update, Frame
<1>16. CASE MintCert(c)
  BY <1>1, <1>16 DEF MintCert, Update, Push, Frame
<1>17. CASE ServeHit(c)
  BY <1>17, EntryEffect DEF ServeHit
<1>18. CASE AdoptExisting(c)
  BY <1>18, EntryEffect DEF AdoptExisting
<1>19. QED
  BY <1>2, <1>3, <1>4, <1>5, <1>6, <1>7, <1>8, <1>9, <1>10, <1>11, <1>12, <1>13, <1>14, <1>15, <1>16, <1>17, <1>18 DEF Handle

(* Outside the handlers the log only grows by royalties, or starts anew.   *)
LEMMA OthersLog ==
    ASSUME TypeInv, [Next]_vars
    PROVE  \/ \E c \in Calls : Handle(c)
           \/ Restart /\ events' = {}
           \/ /\ epoch' = epoch /\ events \subseteq events'
              /\ \A d \in Calls : <<"CACHE_HIT", d>> \in events' => <<"CACHE_HIT", d>> \in events
              /\ \/ call' = call
                 \/ \E c \in Calls : /\ call'[c].pc = "received" /\ call[c].pc = "new"
                                     /\ \A d \in Calls \ {c} : call'[d] = call[d]
<1>1. ASSUME NEW c \in Calls, NEW r \in Requests, NEW x \in TxIds \cup {None},
             Receive(c, r, x)
      PROVE  /\ call[c].pc = "new" /\ call'[c].pc = "received" /\ epoch' = epoch
             /\ events' = events /\ \A d \in Calls \ {c} : call'[d] = call[d]
  BY <1>1, ReceiveEffect DEF Receive
<1>2. ASSUME NEW c \in Calls, PayRoyalty(c)
      PROVE  /\ epoch' = epoch /\ call' = call /\ events \subseteq events'
             /\ \A d \in Calls : <<"CACHE_HIT", d>> \in events' => <<"CACHE_HIT", d>> \in events
  BY <1>2 DEF PayRoyalty, RoyaltySkip, RoyaltySubmit, RoyaltyLog, RoyaltyFails, Push
<1>3. QED
  BY <1>1, <1>2 DEF Next, Server, Clients, Submit, Tick, Restart, vars

LEMMA LogStep ==
    ASSUME TypeInv, SafeInv, MintedInv, LoggedInv, [Next]_vars
    PROVE  MintedInv' /\ LoggedInv'
<1>1. ASSUME NEW c \in Calls, Handle(c) PROVE MintedInv' /\ LoggedInv'
  <2>1. /\ FrameMoves(c) /\ LogMoves(c) /\ epoch' = epoch
        /\ \A d \in Calls \ {c} : call'[d] = call[d]
    BY <1>1, HandlerMoves, HandlerLogs
  <2>2. call[c].epoch = epoch /\ call'[c].epoch = epoch
    BY <2>1 DEF FrameMoves, SafeInv, EpochInv
  <2>3. ASSUME call'[c].pc \in Late, ~ call'[c].hit PROVE <<"CERT_MINTED", c>> \in events'
    <3>1. CASE <<"CERT_MINTED", c>> \in events'
      BY <3>1
    <3>2. CASE call[c].pc \in Late \cup {"log_hit"}
      <4>1. ~ call[c].hit
        BY <2>1, <2>3, <3>2 DEF FrameMoves, Late
      <4>2. call[c].pc \in Late
        BY <3>2, <4>1 DEF SafeInv, PathInv
      <4>3. QED
        BY <2>1, <2>2, <4>1, <4>2 DEF MintedInv, LogMoves
    <3>3. QED
      BY <2>1, <2>3, <3>1, <3>2 DEF LogMoves
  <2>4. MintedInv'
    BY <2>1, <2>3 DEF MintedInv, LogMoves
  <2>5. ASSUME NEW d \in Calls, <<"CACHE_HIT", d>> \in events'
        PROVE  call'[d].pc \in Holding /\ call'[d].epoch = epoch'
    <3>1. CASE <<"CACHE_HIT", d>> \in events /\ d = c
      <4>1. call[c].pc \in Holding /\ call[c].pc \in Running
        BY <2>1, <3>1 DEF LoggedInv, FrameMoves
      <4>2. call[c].pc \in {"log_hit", "attach", "royalty", "respond"}
        BY <4>1 DEF Holding, Running
      <4>3. QED
        BY <2>1, <2>2, <3>1, <4>2 DEF FrameMoves, LogMoves, Holding
    <3>2. CASE <<"CACHE_HIT", d>> \in events /\ d # c
      BY <2>1, <3>2 DEF LoggedInv
    <3>3. CASE <<"CACHE_HIT", d>> \notin events
      BY <2>1, <2>2, <2>5, <3>3 DEF LogMoves, Holding
    <3>4. QED
      BY <3>1, <3>2, <3>3
  <2>6. QED
    BY <2>4, <2>5 DEF LoggedInv
<1>2. CASE Restart /\ events' = {}
  <2>1. epoch \in Nat /\ \A c \in Calls : call[c].epoch \in Nat
    BY ConfigAssumption DEF TypeInv, TypeOK, Frame
  <2>2. ASSUME NEW c \in Calls, call'[c].pc \in Late PROVE call'[c].epoch # epoch'
    BY <1>2, <2>1, <2>2, RestartEffect DEF SafeInv, EpochInv, Late
  <2>3. QED
    BY <1>2, <2>2 DEF MintedInv, LoggedInv
<1>3. ASSUME epoch' = epoch, events \subseteq events', call' = call,
             \A d \in Calls : <<"CACHE_HIT", d>> \in events' => <<"CACHE_HIT", d>> \in events
      PROVE  MintedInv' /\ LoggedInv'
  BY <1>3 DEF MintedInv, LoggedInv
<1>4. ASSUME epoch' = epoch, events \subseteq events', NEW c \in Calls,
             call'[c].pc = "received", call[c].pc = "new",
             \A d \in Calls \ {c} : call'[d] = call[d],
             \A d \in Calls : <<"CACHE_HIT", d>> \in events' => <<"CACHE_HIT", d>> \in events
      PROVE  MintedInv' /\ LoggedInv'
  BY <1>4 DEF MintedInv, LoggedInv, Late, Holding
<1>5. QED
  BY <1>1, <1>2, <1>3, <1>4, OthersLog

(* The event log explains each cache hit by an earlier mint.               *)
THEOREM HitAfterMintCorrect == Spec => []HitAfterMint
<1>1. Init => StoredInv /\ MintedInv /\ LoggedInv
  BY DEF Init, Store!StoreInit, StoredInv, MintedInv, LoggedInv, Late
<1>2. TypeInv /\ SafeInv /\ StoredInv /\ MintedInv /\ LoggedInv => HitAfterMint
  <2> SUFFICES ASSUME TypeInv, SafeInv, StoredInv, MintedInv, LoggedInv,
                      NEW c \in Calls, <<"CACHE_HIT", c>> \in events
               PROVE  \E d \in Calls : /\ <<"CERT_MINTED", d>> \in events
                                       /\ call[d].addr = call[c].addr /\ ~ call[d].hit
    BY DEF HitAfterMint
  <2>1. call[c].addr \in Address /\ store[call[c].addr] # None
    BY DEF LoggedInv, SafeInv, HoldInv, TypeInv, GoodFrame, Holding
  <2> DEFINE m == store[call[c].addr].cert
  <2>2. m \in Calls
    BY <2>1, StoredCert
  <2>3. /\ call[m].addr = call[c].addr /\ call[m].epoch = epoch /\ ~ call[m].hit
        /\ call[m].pc \in Late
    BY <2>1 DEF StoredInv, Late
  <2>4. QED
    BY <2>2, <2>3 DEF MintedInv
<1>3. TypeInv /\ SafeInv /\ StoredInv /\ MintedInv /\ LoggedInv /\ [Next]_vars
        => StoredInv' /\ MintedInv' /\ LoggedInv'
  BY StoredStep, LogStep
<1>4. QED
  BY <1>1, <1>2, <1>3, SafeCorrect, PTL DEF Spec

-----------------------------------------------------------------------------
(* The hit count of an entry: the calls that it has been handed to.        *)
Counted == {"log_hit", "royalty", "respond", "served"}

HitCalls(a) ==
    {c \in Calls : /\ call[c].addr = a /\ call[c].epoch = epoch /\ call[c].hit
                   /\ call[c].pc \in Counted}

CountInv ==
    \A a \in Address : store[a] # None =>
        IsFiniteSet(HitCalls(a)) /\ store[a].hits = Cardinality(HitCalls(a))

(* A handler counts one hit when it leaves "get", and none elsewhere.      *)
CountMoves(c) ==
    IF call[c].pc = "get"
    THEN /\ call'[c].pc = "log_hit"
         /\ store[call[c].addr] # None
         /\ store'[call[c].addr].hits = store[call[c].addr].hits + 1
         /\ \A a \in Address : a # call[c].addr => store'[a] = store[a]
    ELSE \A a \in Address : \/ store'[a] = store[a]
                            \/ store[a] = None /\ store'[a].hits = 0

LEMMA HandlerCounts ==
    ASSUME TypeInv, NEW c \in Calls, Handle(c)
    PROVE  CountMoves(c)
<1>1. CASE ServeHit(c)
  <2>1. call[c].addr \in Address
    BY <1>1 DEF ServeHit, TypeInv, GoodFrame
  <2>2. /\ store[call[c].addr] # None
        /\ store'[call[c].addr] = [store[call[c].addr] EXCEPT !.hits = @ + 1]
        /\ \A a \in Address : a # call[c].addr => store'[a] = store[a]
    BY <1>1, <2>1 DEF ServeHit, Store!Get, Store!Has, TypeInv, TypeOK,
      Store!StoreTypeOK
  <2>3. store[call[c].addr] \in [cert: Calls, text: Texts, hits: Nat]
    BY <2>1, <2>2 DEF TypeInv, TypeOK, Store!StoreTypeOK, Store!Entry
  <2>4. store'[call[c].addr].hits = store[call[c].addr].hits + 1
    BY <2>2, <2>3
  <2>5. call[c].pc = "get" /\ call'[c].pc = "log_hit"
    BY <1>1, EntryEffect DEF ServeHit
  <2>6. QED
    BY <2>2, <2>4, <2>5 DEF CountMoves
<1>2. CASE StoreCert(c)
  <2>1. call[c].addr \in Address /\ call[c].pc = "put"
    BY <1>2 DEF StoreCert, TypeInv, GoodFrame
  <2>2. /\ store[call[c].addr] = None
        /\ store'[call[c].addr].hits = 0
        /\ \A a \in Address : a # call[c].addr => store'[a] = store[a]
    BY <1>2, <2>1 DEF StoreCert, Store!Put, Store!Has, TypeInv, TypeOK,
      Store!StoreTypeOK
  <2>3. QED
    BY <2>1, <2>2 DEF CountMoves
<1>3. CASE call[c].pc # "get" /\ store' = store
  BY <1>3 DEF CountMoves
<1>4. QED
  BY <1>1, <1>2, <1>3 DEF Handle, Peek, Quote, AcceptPayment, RejectPayment,
    LookupFails, LogHit, RunInference, InferenceFails, MintCert, AnchorCert,
    AnchorFails, AdoptExisting, AttachMetadata, DispatchRoyalty, Respond

LEMMA NoEntryNoHits ==
    ASSUME SafeInv, NEW a \in Address, store[a] = None
    PROVE  HitCalls(a) = {}
BY DEF SafeInv, HoldInv, HitCalls, Counted, Holding

(* Who is counted changes with the call that leaves "get" only.            *)
LEMMA HitCallsMove ==
    ASSUME TypeInv, SafeInv, NEW c \in Calls, Handle(c), NEW a \in Address
    PROVE  HitCalls(a)' = IF call[c].pc = "get" /\ call[c].addr = a
                          THEN HitCalls(a) \cup {c} ELSE HitCalls(a)
<1>1. /\ FrameMoves(c) /\ DataMoves(c) /\ LogMoves(c) /\ CountMoves(c)
      /\ epoch' = epoch /\ \A d \in Calls \ {c} : call'[d] = call[d]
  BY HandlerMoves, HandlerLogs, HandlerCounts
<1>2. call[c].epoch = epoch /\ call'[c].epoch = epoch /\ call'[c].addr = call[c].addr
  BY <1>1 DEF FrameMoves, SafeInv, EpochInv
<1>3. CASE call[c].pc = "get"
  <2>1. call'[c].pc = "log_hit" /\ call'[c].hit = call[c].hit /\ call[c].hit
    BY <1>1, <1>3 DEF CountMoves, FrameMoves, SafeInv, PathInv
  <2>2. c \notin HitCalls(a) /\ (c \in HitCalls(a)' <=> call[c].addr = a)
    <3>1. c \notin HitCalls(a)
      BY <1>3 DEF HitCalls, Counted
    <3>2. call'[c].hit /\ call'[c].pc \in Counted
      BY <2>1 DEF Counted
    <3>3. c \in HitCalls(a)' <=> call'[c].addr = a
      BY <1>1, <1>2, <3>2 DEF HitCalls
    <3>4. QED
      BY <1>2, <3>1, <3>3
  <2>3. \A d \in Calls \ {c} : d \in HitCalls(a)' <=> d \in HitCalls(a)
    BY <1>1 DEF HitCalls
  <2>4. HitCalls(a) \subseteq Calls /\ HitCalls(a)' \subseteq Calls
    BY DEF HitCalls
  <2>5. QED
    BY <1>3, <2>2, <2>3, <2>4
<1>4. CASE call[c].pc # "get"
  <2>1. call'[c].hit /\ call'[c].pc \in Counted <=> call[c].hit /\ call[c].pc \in Counted
    <3>1. ASSUME call[c].hit, call[c].pc \in Counted
          PROVE  call'[c].hit /\ call'[c].pc \in Counted
      <4>1. call[c].pc \in {"log_hit", "royalty", "respond"}
        BY <1>1, <3>1 DEF FrameMoves, Running, Counted
      <4>2. QED
        BY <1>1, <3>1, <4>1 DEF FrameMoves, LogMoves, Counted
    <3>2. ASSUME call'[c].hit, call'[c].pc \in Counted
          PROVE  call[c].hit /\ call[c].pc \in Counted
      <4>1. call[c].pc \in Holding \cup {"put"}
        BY <1>1, <1>4, <3>2 DEF DataMoves, Counted, Holding
      <4>2. call[c].hit
        BY <1>1, <3>2, <4>1 DEF FrameMoves, Holding
      <4>3. call[c].pc \notin {"put", "attach"}
        BY <4>2 DEF SafeInv, PathInv, MissPath
      <4>4. QED
        BY <4>1, <4>2, <4>3 DEF Holding, Counted
    <3>3. QED
      BY <3>1, <3>2
  <2>2. \A d \in Calls : d \in HitCalls(a)' <=> d \in HitCalls(a)
    BY <1>1, <1>2, <2>1 DEF HitCalls
  <2>3. HitCalls(a) \subseteq Calls /\ HitCalls(a)' \subseteq Calls
    BY DEF HitCalls
  <2>4. QED
    BY <1>4, <2>2, <2>3
<1>5. QED
  BY <1>3, <1>4

LEMMA CountStep ==
    ASSUME TypeInv, SafeInv, CountInv, [Next]_vars
    PROVE  CountInv'
<1>1. ASSUME NEW a \in Address, store'[a] = store[a], HitCalls(a)' = HitCalls(a)
      PROVE  (store[a] # None =>
                IsFiniteSet(HitCalls(a)) /\ store[a].hits = Cardinality(HitCalls(a)))'
  BY <1>1 DEF CountInv
<1>2. ASSUME NEW c \in Calls, Handle(c) PROVE CountInv'
  <2>1. CountMoves(c)
    BY <1>2, HandlerCounts
  <2> SUFFICES ASSUME NEW a \in Address
               PROVE  (store[a] # None =>
                         IsFiniteSet(HitCalls(a))
                         /\ store[a].hits = Cardinality(HitCalls(a)))'
    BY DEF CountInv
  <2>2. CASE call[c].pc = "get" /\ call[c].addr = a
    <3>1. HitCalls(a)' = HitCalls(a) \cup {c} /\ c \notin HitCalls(a)
      BY <1>2, <2>2, HitCallsMove DEF HitCalls, Counted
    <3>2. /\ IsFiniteSet(HitCalls(a)) /\ store[a].hits = Cardinality(HitCalls(a))
          /\ store'[a].hits = store[a].hits + 1
      BY <2>1, <2>2 DEF CountMoves, CountInv
    <3>3. QED
      BY <3>1, <3>2, FS_AddElement
  <2>3. CASE ~ (call[c].pc = "get" /\ call[c].addr = a)
    <3>1. HitCalls(a)' = HitCalls(a)
      BY <1>2, <2>3, HitCallsMove
    <3>2. CASE store'[a] = store[a]
      BY <1>1, <3>1, <3>2
    <3>3. CASE store[a] = None /\ store'[a].hits = 0
      BY <3>1, <3>3, NoEntryNoHits, FS_EmptySet
    <3>4. QED
      BY <2>1, <2>3, <3>2, <3>3 DEF CountMoves
  <2>4. QED
    BY <2>2, <2>3
<1>3. ASSUME NEW c \in Calls, NEW r \in Requests, NEW x \in TxIds \cup {None},
             Receive(c, r, x)
      PROVE  CountInv'
  <2>1. /\ call[c].pc = "new" /\ call'[c].pc = "received"
        /\ \A d \in Calls \ {c} : call'[d] = call[d]
        /\ epoch' = epoch /\ store' = store
    BY <1>3, ReceiveEffect
  <2>2. ASSUME NEW a \in Address PROVE HitCalls(a)' = HitCalls(a)
    <3>1. \A d \in Calls : d \in HitCalls(a)' <=> d \in HitCalls(a)
      BY <2>1 DEF HitCalls, Counted
    <3>2. HitCalls(a) \subseteq Calls /\ HitCalls(a)' \subseteq Calls
      BY DEF HitCalls
    <3>3. QED
      BY <3>1, <3>2
  <2>3. QED
    BY <1>1, <2>1, <2>2 DEF CountInv
<1>4. CASE Restart
  BY <1>4, RestartEffect DEF CountInv
<1>5. CASE Quiet
  <2>1. \A a \in Address : HitCalls(a)' = HitCalls(a)
    BY <1>5 DEF Quiet, HitCalls
  <2>2. QED
    BY <1>1, <1>5, <2>1 DEF Quiet, CountInv
<1>6. QED
  BY <1>2, <1>3, <1>4, <1>5, StepCases

(* hit_count is exact: no hit of concurrent calls is lost or counted twice. *)
THEOREM HitCountExactCorrect == Spec => []HitCountExact
<1>1. Init => CountInv
  BY DEF Init, Store!StoreInit, CountInv
<1>2. CountInv => HitCountExact
  BY DEF CountInv, HitCountExact, HitCalls, Counted, Store!Has
<1>3. TypeInv /\ SafeInv /\ CountInv /\ [Next]_vars => CountInv'
  BY CountStep
<1>4. QED
  BY <1>1, <1>2, <1>3, SafeCorrect, PTL DEF Spec

-----------------------------------------------------------------------------
(* Refinement: the server implements the memo that its clients see.        *)

(* Only two actions of a handler touch the store.                          *)
LEMMA HandlerStore ==
    ASSUME NEW c \in Calls, Handle(c)
    PROVE  \/ ServeHit(c)
           \/ StoreCert(c)
           \/ store' = store
BY DEF Handle, Peek, Quote, AcceptPayment, RejectPayment, LookupFails, LogHit,
  RunInference, InferenceFails, MintCert, AnchorCert, AnchorFails, AdoptExisting,
  AttachMetadata, DispatchRoyalty, Respond

(* The state functions of the refinement.                                  *)
memoOf == [a \in Address |-> IF Store!Has(a) THEN store[a].text ELSE None]
answerOf == [c \in Calls |-> IF call[c].pc = "served"
                             THEN <<call[c].addr, call[c].text>> ELSE None]

LEMMA AcceptedIsBound ==
    ASSUME TypeInv, NEW c \in Calls, call[c].tx \in TxIds, Accepted(c)
    PROVE  /\ Memo!Bound(HitPrice, call[c].addr)
           /\ ~ call[c].hit => Memo!Bound(FullPrice, call[c].addr)
<1>1. ledger[call[c].tx] # None /\ ledger[call[c].tx].value \in Nat
  BY DEF Accepted, TypeInv, TypeOK, Transactions
<1>2. QED
  BY <1>1 DEF Accepted, Memo!Bound, Memo!Verified, Verified, PriceFor, FullPrice,
    HitPrice, Memo!FirstUorMemoIs, FirstUorMemoIs, Memo!SettlementAsset,
    SettlementAsset

(* A call is answered by Respond only.                                     *)
LEMMA HandlerServes ==
    ASSUME TypeInv, NEW c \in Calls, Handle(c), call'[c].pc = "served"
    PROVE  Respond(c)
<1>1. call[c] \in Frame /\ call \in [Calls -> Frame]
  BY DEF TypeInv, TypeOK
<1>2. ~ Peek(c)
  BY <1>1 DEF Peek, Update, Frame
<1>3. ~ RunInference(c)
  BY <1>1 DEF RunInference, Update, Frame
<1>4. ~ MintCert(c)
  BY <1>1 DEF MintCert, Update, Frame
<1>5. ~ ServeHit(c) /\ ~ AdoptExisting(c)
  BY EntryEffect DEF ServeHit, AdoptExisting
<1>6. QED
  BY <1>2, <1>3, <1>4, <1>5, GotoEffect DEF Handle, Quote, AcceptPayment,
    RejectPayment, LookupFails, LogHit, InferenceFails, AnchorCert, AnchorFails,
    StoreCert, AttachMetadata, DispatchRoyalty

LEMMA AnswerKept ==
    ASSUME TypeInv, NEW c \in Calls, Handle(c), ~ Respond(c)
    PROVE  UNCHANGED answerOf
<1>1. FrameMoves(c) /\ \A d \in Calls \ {c} : call'[d] = call[d]
  BY HandlerMoves
<1>2. call[c].pc # "served" /\ call'[c].pc # "served"
  BY <1>1, HandlerServes DEF FrameMoves, Running
<1>3. QED
  BY <1>1, <1>2 DEF answerOf

LEMMA MemoKept ==
    ASSUME \A a \in Address : store[a] # None => SameEntry(a),
           \A a \in Address : store[a] = None => store'[a] = None
    PROVE  UNCHANGED memoOf
BY DEF memoOf, SameEntry, Store!Has

LEMMA LearnStep ==
    ASSUME TypeInv, SafeInv, NEW c \in Calls, StoreCert(c),
           NEW a \in Address, NEW t \in Texts, a = call[c].addr, t = call[c].text
    PROVE  Memo!Learn(a, t)
<1>1. /\ call[c].addr \in Address /\ call[c].text \in Texts /\ call[c].tx \in TxIds
      /\ Accepted(c) /\ ~ call[c].hit /\ call[c].cert \in Calls
  BY DEF StoreCert, TypeInv, GoodFrame, Paid, HasText, HasCert, SafeInv, PayInv,
    PathInv, MissPath
<1>2. UNCHANGED answerOf /\ ledger' = ledger
  <2>1. Handle(c) /\ ~ Respond(c)
    BY DEF Handle, StoreCert, Respond
  <2>2. QED
    BY <2>1, AnswerKept, HandlerMoves
<1>3. store[call[c].addr] = None /\ memoOf[call[c].addr] = None
  BY <1>1 DEF StoreCert, Store!Put, Store!Has, memoOf
<1>4. memoOf' = [memoOf EXCEPT ![call[c].addr] = call[c].text]
  <2>1. /\ store'[call[c].addr] = [cert |-> call[c].cert,
                                   text |-> call[c].text, hits |-> 0]
        /\ \A b \in Address : b # call[c].addr => store'[b] = store[b]
    BY <1>1 DEF StoreCert, Store!Put, TypeInv, TypeOK, Store!StoreTypeOK
  <2>2. store'[call[c].addr] # None /\ store'[call[c].addr].text = call[c].text
    BY <1>1, <2>1, NoneAssumption
  <2>3. QED
    BY <1>1, <2>1, <2>2 DEF memoOf, Store!Has
<1>5. Memo!Bound(FullPrice, call[c].addr)
  BY <1>1, AcceptedIsBound
<1>6. QED
  BY <1>2, <1>3, <1>4, <1>5
  DEF Memo!Learn, memoOf, answerOf, Memo!FullPrice, FullPrice

LEMMA AnswerStep ==
    ASSUME TypeInv, SafeInv, NEW c \in Calls, Respond(c),
           NEW a \in Address, a = call[c].addr
    PROVE  Memo!Answer(c, a)
<1>1. /\ call[c].addr \in Address /\ call[c].text \in Texts /\ call[c].tx \in TxIds
      /\ Accepted(c)
  BY DEF Respond, TypeInv, GoodFrame, Paid, HasText, SafeInv, PayInv
<1>2. store[call[c].addr] # None /\ store[call[c].addr].text = call[c].text
  BY DEF Respond, SafeInv, EpochInv, HoldInv, Holding, Running
<1>3. memoOf[call[c].addr] = call[c].text /\ call[c].text # None
  BY <1>1, <1>2, NoneAssumption DEF memoOf, Store!Has
<1>4. UNCHANGED <<store, ledger>> /\ UNCHANGED memoOf
  BY DEF Respond, memoOf, Store!Has
<1>5. /\ answerOf[c] = None
      /\ answerOf' = [answerOf EXCEPT ![c] = <<call[c].addr, call[c].text>>]
  <2>1. /\ call[c].pc = "respond" /\ call'[c].pc = "served"
        /\ call'[c].addr = call[c].addr /\ call'[c].text = call[c].text
    BY GotoEffect DEF Respond
  <2>2. \A d \in Calls \ {c} : call'[d] = call[d]
    BY HandlerMoves DEF Handle
  <2>3. QED
    BY <2>1, <2>2 DEF answerOf
<1>6. Memo!Bound(HitPrice, call[c].addr)
  BY <1>1, AcceptedIsBound
<1>7. QED
  BY <1>3, <1>4, <1>5, <1>6
  DEF Memo!Answer, memoOf, answerOf, Memo!HitPrice, HitPrice

LEMMA SettleStep ==
    ASSUME TypeInv, NEW x \in TxIds, ledger[x] = None, NEW tx,
           ledger' = [ledger EXCEPT ![x] = tx], UNCHANGED <<store, call>>
    PROVE  Memo!Settle(x)
BY DEF Memo!Settle, Store!Has, TypeInv, TypeOK

LEMMA MemoStep ==
    ASSUME TypeInv, SafeInv, [Next]_vars
    PROVE  [Memo!MemoNext]_<<memoOf, answerOf, ledger>>
<1>1. ASSUME NEW c \in Calls, Handle(c)
      PROVE  [Memo!MemoNext]_<<memoOf, answerOf, ledger>>
  <2>1. CASE StoreCert(c)
    <3>1. call[c].addr \in Address /\ call[c].text \in Texts
      BY <2>1 DEF StoreCert, TypeInv, GoodFrame, HasText
    <3>2. PICK a \in Address, t \in Texts : a = call[c].addr /\ t = call[c].text
      BY <3>1
    <3>3. Memo!Learn(a, t)
      BY <2>1, <3>2, LearnStep
    <3>4. QED
      BY <3>3 DEF Memo!MemoNext
  <2>2. CASE Respond(c)
    <3>1. call[c].addr \in Address
      BY <2>2 DEF Respond, TypeInv, GoodFrame
    <3>2. PICK a \in Address : a = call[c].addr
      BY <3>1
    <3>3. Memo!Answer(c, a)
      BY <2>2, <3>2, AnswerStep
    <3>4. QED
      BY <3>3 DEF Memo!MemoNext
  <2>3. CASE ~ StoreCert(c) /\ ~ Respond(c)
    <3>1. UNCHANGED answerOf /\ ledger' = ledger /\ DataMoves(c)
      BY <1>1, <2>3, AnswerKept, HandlerMoves
    <3>2. \A a \in Address : store[a] = None => store'[a] = None
      BY <1>1, <2>3, HandlerStore
      DEF ServeHit, Store!Get, Store!Has, TypeInv, TypeOK, Store!StoreTypeOK
    <3>3. UNCHANGED memoOf
      BY <3>1, <3>2, MemoKept DEF DataMoves
    <3>4. QED
      BY <3>1, <3>3
  <2>4. QED
    BY <2>1, <2>2, <2>3
<1>2. ASSUME NEW x \in TxIds, ledger[x] = None, NEW tx,
             ledger' = [ledger EXCEPT ![x] = tx], UNCHANGED <<store, call>>
      PROVE  [Memo!MemoNext]_<<memoOf, answerOf, ledger>>
  BY <1>2, SettleStep DEF Memo!MemoNext
<1>3. ASSUME NEW c \in Calls, PayRoyalty(c)
      PROVE  [Memo!MemoNext]_<<memoOf, answerOf, ledger>>
  <2>1. CASE UNCHANGED <<store, call, ledger>>
    BY <2>1 DEF memoOf, answerOf, Store!Has
  <2>2. ASSUME NEW x \in TxIds, RoyaltySubmit(c, x)
        PROVE  [Memo!MemoNext]_<<memoOf, answerOf, ledger>>
    BY <1>2, <2>2 DEF RoyaltySubmit
  <2>3. QED
    BY <1>3, <2>1, <2>2 DEF PayRoyalty, RoyaltySkip, RoyaltyLog, RoyaltyFails
<1>4. ASSUME NEW c \in Calls, NEW r \in Requests, NEW x \in TxIds \cup {None},
             Receive(c, r, x)
      PROVE  [Memo!MemoNext]_<<memoOf, answerOf, ledger>>
  <2>1. /\ call[c].pc # "served" /\ call'[c].pc # "served"
        /\ \A d \in Calls \ {c} : call'[d] = call[d]
        /\ UNCHANGED <<store, ledger>>
    BY <1>4, ReceiveEffect DEF Receive
  <2>2. QED
    BY <2>1 DEF memoOf, answerOf, Store!Has
<1>5. ASSUME NEW x \in TxIds, NEW tx \in Payments, Submit(x, tx)
      PROVE  [Memo!MemoNext]_<<memoOf, answerOf, ledger>>
  BY <1>2, <1>5 DEF Submit
<1>6. CASE Restart
  <2>1. memoOf' = [a \in Address |-> None]
    BY <1>6, RestartEffect DEF memoOf, Store!Has
  <2>2. UNCHANGED answerOf /\ ledger' = ledger
    BY <1>6, RestartEffect DEF Restart, answerOf, Running
  <2>3. QED
    BY <2>1, <2>2 DEF Memo!MemoNext, Memo!Forget, memoOf, answerOf
<1>7. CASE Tick \/ UNCHANGED vars
  BY <1>7 DEF Tick, vars, memoOf, answerOf, Store!Has
<1>8. QED
  BY <1>1, <1>3, <1>4, <1>5, <1>6, <1>7 DEF Next, Server, Clients

(* Seen by its clients, the server is a memo: one completion per address,  *)
(* learned for the full price and handed out for a payment of its address. *)
THEOREM MemoImplemented == Spec => ImplementsMemo
<1>1. Init => Memo!MemoInit
  BY DEF Init, Store!StoreInit, Store!Has, Memo!MemoInit
<1>2. QED
  BY <1>1, MemoStep, SafeCorrect, PTL
  DEF Spec, ImplementsMemo, Memo!MemoSpec, memoOf, answerOf

-----------------------------------------------------------------------------
(* Liveness.  The provers know of ENABLED only what WF says of it, so that *)
(* what it means for the two fair actions is a hypothesis: each can be     *)
(* taken where its guard, spelled out, holds.  That no handler ever stands *)
(* where the guard of its next action fails is proved, not assumed.        *)
CanHandle(c) ==
    /\ call[c].pc \in Running
    /\ call[c].pc = "get" => Store!Has(call[c].addr)

CanPayRoyalty(c) == royalty[c] \in {"started", "submitted"}

GuardsOpen ==
    \A c \in Calls : /\ CanHandle(c) => ENABLED <<Handle(c)>>_vars
                     /\ CanPayRoyalty(c) => ENABLED <<PayRoyalty(c)>>_vars

HandlersCanGo == \A c \in Calls : call[c].pc \in Running => CanHandle(c)

(* At no moment is a handler stuck: one that runs can go on, a hit to the  *)
(* entry that was there when it looked, a put to the entry that came first *)
(* (server.py 347-419).                                                    *)
THEOREM NoHandlerStuck == Spec => []HandlersCanGo
<1>1. TypeInv /\ SafeInv => HandlersCanGo
  BY DEF SafeInv, HitInv, PathInv, HandlersCanGo, CanHandle, Store!Has, Running
<1>2. QED
  BY <1>1, SafeCorrect, PTL

(* The steps that a handler has left, at most.                             *)
StepsLeft(pc) ==
    CASE pc = "received" -> 9
      [] pc \in {"quote", "verify"} -> 8
      [] pc = "infer" -> 7
      [] pc \in {"get", "mint"} -> 6
      [] pc = "anchor" -> 5
      [] pc = "put" -> 4
      [] pc \in {"attach", "log_hit"} -> 3
      [] pc = "royalty" -> 2
      [] pc = "respond" -> 1
      [] OTHER -> 0

Within(c, n) ==
    call[c].pc \in Running \cup Answered /\ StepsLeft(call[c].pc) <= n

(* A step of its handler brings a call nearer to its answer; no other step *)
(* takes it back, and a restart answers it.                                *)
LEMMA HandlerAdvances ==
    ASSUME TypeInv, NEW c \in Calls, Handle(c)
    PROVE  /\ call[c].pc \in Running /\ call'[c].pc \in Running \cup Answered
           /\ StepsLeft(call'[c].pc) < StepsLeft(call[c].pc)
<1> USE DEF StepsLeft, Running, Answered
<1>1. CASE Peek(c)
  <2>1. call'[c].pc \in {"quote", "verify"}
    BY <1>1 DEF Peek, Update, TypeInv, TypeOK, Frame
  <2>2. QED
    BY <1>1, <2>1 DEF Peek
<1>2. CASE \/ Quote(c) \/ AcceptPayment(c) \/ RejectPayment(c) \/ LookupFails(c)
           \/ LogHit(c) \/ InferenceFails(c) \/ AnchorCert(c) \/ AnchorFails(c)
  BY <1>2, GotoEffect DEF Quote, AcceptPayment, RejectPayment, LookupFails, LogHit,
    InferenceFails, AnchorCert, AnchorFails
<1>3. CASE StoreCert(c) \/ AttachMetadata(c) \/ DispatchRoyalty(c) \/ Respond(c)
  BY <1>3, GotoEffect DEF StoreCert, AttachMetadata, DispatchRoyalty, Respond
<1>4. CASE ServeHit(c) \/ AdoptExisting(c)
  BY <1>4, EntryEffect DEF ServeHit, AdoptExisting
<1>5. CASE RunInference(c)
  <2>1. call'[c].pc = "mint"
    BY <1>5 DEF RunInference, Update, TypeInv, TypeOK, Frame
  <2>2. QED
    BY <1>5, <2>1 DEF RunInference
<1>6. CASE MintCert(c)
  <2>1. call'[c].pc \in {"anchor", "put"}
    BY <1>6 DEF MintCert, Update, TypeInv, TypeOK, Frame
  <2>2. QED
    BY <1>6, <2>1 DEF MintCert
<1>7. QED
  BY <1>1, <1>2, <1>3, <1>4, <1>5, <1>6 DEF Handle

LEMMA NeverBack ==
    ASSUME TypeInv, NEW c \in Calls, NEW n \in Nat, Within(c, n), [Next]_vars
    PROVE  Within(c, n)'
<1>1. ASSUME NEW d \in Calls, Handle(d) PROVE Within(c, n)'
  <2>1. CASE d = c
    <3>1. /\ call'[c].pc \in Running \cup Answered
          /\ StepsLeft(call'[c].pc) < StepsLeft(call[c].pc)
      BY <1>1, <2>1, HandlerAdvances
    <3>2. StepsLeft(call'[c].pc) \in Nat /\ StepsLeft(call[c].pc) \in Nat
      BY DEF StepsLeft
    <3>3. QED
      BY <3>1, <3>2 DEF Within
  <2>2. CASE d # c
    BY <1>1, <2>2, HandlerMoves DEF Within
  <2>3. QED
    BY <2>1, <2>2
<1>2. ASSUME NEW d \in Calls, NEW r \in Requests, NEW x \in TxIds \cup {None},
             Receive(d, r, x)
      PROVE  Within(c, n)'
  BY <1>2, ReceiveEffect DEF Within, Running, Answered
<1>3. CASE Restart
  <2>1. call'[c].pc = "lost" \/ call'[c].pc = call[c].pc
    BY <1>3, RestartEffect
  <2>2. QED
    BY <2>1 DEF Within, Answered, StepsLeft
<1>4. CASE Quiet
  BY <1>4 DEF Quiet, Within
<1>5. QED
  BY <1>1, <1>2, <1>3, <1>4, StepCases

HandlerKeeps(c) == []<>~ CanHandle(c) \/ []<><<Handle(c)>>_vars
RoyaltyKeeps(c) == []<>~ CanPayRoyalty(c) \/ []<><<PayRoyalty(c)>>_vars

LEMMA FairKeeps ==
    ASSUME NEW c \in Calls
    PROVE  []GuardsOpen /\ HandlerFair(c) /\ RoyaltyFair(c)
             => HandlerKeeps(c) /\ RoyaltyKeeps(c)
<1>1. GuardsOpen => /\ CanHandle(c) => ENABLED <<Handle(c)>>_vars
                    /\ CanPayRoyalty(c) => ENABLED <<PayRoyalty(c)>>_vars
  BY DEF GuardsOpen
<1>2. QED
  BY <1>1, PTL DEF HandlerFair, RoyaltyFair, HandlerKeeps, RoyaltyKeeps

LEMMA OneStepNearer ==
    ASSUME NEW c \in Calls, NEW n \in Nat, NEW m \in Nat, n = m + 1
    PROVE  []TypeInv /\ [](call[c].pc \in Running => CanHandle(c)) /\ [][Next]_vars
             /\ HandlerKeeps(c)
             => (Within(c, n) ~> Within(c, m))
<1>1. TypeInv /\ Within(c, n) /\ [Next]_vars => Within(c, n)'
  BY NeverBack
<1>2. TypeInv /\ Within(c, n) /\ <<Handle(c)>>_vars => Within(c, m)'
  <2> SUFFICES ASSUME TypeInv, Within(c, n), Handle(c) PROVE Within(c, m)'
    OBVIOUS
  <2>1. /\ call'[c].pc \in Running \cup Answered
        /\ StepsLeft(call'[c].pc) < StepsLeft(call[c].pc)
    BY HandlerAdvances
  <2>2. StepsLeft(call'[c].pc) \in Nat /\ StepsLeft(call[c].pc) \in Nat
    BY DEF StepsLeft
  <2>3. QED
    BY <2>1, <2>2 DEF Within
<1>3. Within(c, n) /\ ~ Within(c, m) => call[c].pc \in Running
  BY DEF Within, StepsLeft, Answered, Running
<1>4. QED
  BY <1>1, <1>2, <1>3, PTL DEF HandlerKeeps

LEMMA CallEnds ==
    ASSUME NEW c \in Calls
    PROVE  []TypeInv /\ [](call[c].pc \in Running => CanHandle(c)) /\ [][Next]_vars
             /\ HandlerKeeps(c)
             => (call[c].pc \in Running ~> call[c].pc \in Answered)
<1> DEFINE Goes(n, m) ==
      []TypeInv /\ [](call[c].pc \in Running => CanHandle(c)) /\ [][Next]_vars
        /\ HandlerKeeps(c) => (Within(c, n) ~> Within(c, m))
<1>1. \A n, m \in Nat : n = m + 1 => Goes(n, m)
  BY OneStepNearer
<1>2. /\ Goes(9, 8) /\ Goes(8, 7) /\ Goes(7, 6) /\ Goes(6, 5) /\ Goes(5, 4)
      /\ Goes(4, 3) /\ Goes(3, 2) /\ Goes(2, 1) /\ Goes(1, 0)
  <2> HIDE DEF Goes
  <2>1. QED
    BY <1>1
<1>3. call[c].pc \in Running => Within(c, 9)
  BY DEF Within, StepsLeft, Running
<1>4. Within(c, 0) => call[c].pc \in Answered
  BY DEF Within, StepsLeft, Running
<1>5. QED
  BY <1>2, <1>3, <1>4, PTL

(* Every call that reaches the server ends with an answer, or is lost in a *)
(* restart, whatever other calls, the clock and failures do in between, if *)
(* their guards are all that the handlers wait for.                        *)
THEOREM EveryCallEndsCorrect == FairSpec /\ []GuardsOpen => EveryCallEnds
<1>1. ASSUME NEW c \in Calls
      PROVE  FairSpec /\ []GuardsOpen
               => (call[c].pc \in Running ~> call[c].pc \in Answered)
  <2>1. HandlersCanGo => (call[c].pc \in Running => CanHandle(c))
    BY DEF HandlersCanGo
  <2>2. Fairness => HandlerFair(c) /\ RoyaltyFair(c)
    BY DEF Fairness
  <2>3. []GuardsOpen /\ HandlerFair(c) /\ RoyaltyFair(c) => HandlerKeeps(c)
    BY FairKeeps
  <2>4. []TypeInv /\ [](call[c].pc \in Running => CanHandle(c)) /\ [][Next]_vars
          /\ HandlerKeeps(c)
          => (call[c].pc \in Running ~> call[c].pc \in Answered)
    BY CallEnds
  <2>5. QED
    BY <2>1, <2>2, <2>3, <2>4, TypeCorrect, NoHandlerStuck, PTL
    DEF FairSpec, Spec
<1>2. QED
  BY <1>1 DEF EveryCallEnds
=============================================================================
