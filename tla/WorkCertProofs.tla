--------------------------- MODULE WorkCertProofs ---------------------------
(* Proofs about WorkCert, for any offers, any outputs and any number of edits *)
(* and messages: verification of signatures and anchors is exact.             *)
EXTENDS WorkCert, TLAPS

ReceiptDocs == [mock : BOOLEAN, number : Nat, stamped : BOOLEAN, seen : Docs]
SignatureDocs == [by : Keys, over : Docs, seen : Docs]

\* A signature is by the key that the signed object names, over all of it.
SigInv ==
    \A o \in Objects : \A p \in Parties(o) :
        sig[o][p] # None => /\ sig[o][p].over = sig[o][p].seen
                            /\ sig[o][p].by = sig[o][p].seen[p]

\* A live receipt bears the number of a message with what was anchored, or none.
ReceiptInv ==
    \A c \in Certs : (receipt[c] # None /\ ~ receipt[c].mock /\ receipt[c].number # 0) =>
        /\ receipt[c].number \in 1..Len(topic)
        /\ topic[receipt[c].number] = receipt[c].seen

CertInv == CertTypeOK /\ SigInv /\ ReceiptInv

LEMMA InitCert == CertInit => CertInv
<1> SUFFICES ASSUME CertInit PROVE CertInv
  OBVIOUS
<1>1. PICK t \in Terms, v \in Outputs :
        LET spec == [terms |-> t, buyer |-> "buyer's key", seller |-> "seller's key"]
            child == [output |-> v, spec |-> None, children |-> {},
                      seller |-> "subcontractor's key"]
        IN doc = [spec |-> spec, child |-> child,
                  parent |-> [output |-> v, spec |-> spec, children |-> {child},
                              seller |-> "seller's key"]]
  BY DEF CertInit
<1>2. /\ doc["spec"] \in SpecDocs /\ doc["child"] \in ChildDocs
      /\ doc["parent"] \in ParentDocs /\ doc \in [Objects -> Docs]
  <2> DEFINE spec == [terms |-> t, buyer |-> "buyer's key", seller |-> "seller's key"]
             child == [output |-> v, spec |-> None, children |-> {},
                       seller |-> "subcontractor's key"]
             parent == [output |-> v, spec |-> spec, children |-> {child},
                        seller |-> "seller's key"]
  <2>1. spec \in SpecDocs /\ child \in ChildDocs
    BY DEF SpecDocs, ChildDocs, Keys
  <2>2. parent \in ParentDocs
    <3> HIDE DEF spec, child
    <3>1. "seller's key" \in Keys /\ {child} \in SUBSET ChildDocs
      BY <2>1 DEF Keys
    <3>2. QED
      BY <2>1, <3>1 DEF ParentDocs
  <2>3. doc = [spec |-> spec, child |-> child, parent |-> parent]
    BY <1>1
  <2> HIDE DEF spec, child, parent
  <2>4. doc["spec"] = spec /\ doc["child"] = child /\ doc["parent"] = parent
    BY <2>3
  <2>5. doc \in [Objects -> Docs]
    BY <2>1, <2>2, <2>3 DEF Objects, Certs, Docs
  <2>6. QED
    BY <2>1, <2>2, <2>4, <2>5
<1>3. /\ DOMAIN sig = Objects
      /\ \A o \in Objects : sig[o] = [p \in Parties(o) |-> None]
      /\ receipt = [c \in Certs |-> None]
      /\ topic = <<>> /\ visible = 0 /\ edits = 0
  BY DEF CertInit
<1>4. CertTypeOK
  <2>1. \A o \in Objects : sig[o] \in
          [Parties(o) -> {None} \union [by : Keys, over : Docs, seen : Docs]]
    BY <1>3
  <2>2. receipt \in [Certs -> {None} \union [mock : BOOLEAN, number : Nat,
                                           stamped : BOOLEAN, seen : Docs]]
    BY <1>3
  <2>3. topic \in Seq(Docs) /\ visible \in 0..Len(topic) /\ edits \in 0..MaxEdits
    BY <1>3, CertAssumption
  <2>4. QED
    BY <1>2, <1>3, <2>1, <2>2, <2>3 DEF CertTypeOK
<1>5. SigInv /\ ReceiptInv
  BY <1>3 DEF SigInv, ReceiptInv
<1>6. QED
  BY <1>4, <1>5 DEF CertInv

\* A step that leaves signatures, receipts and topic alone disturbs only the
\* types of what it changes.
LEMMA EditKeeps ==
    ASSUME CertInv, UNCHANGED <<sig, receipt, topic, visible>>, Edited,
           doc' \in [Objects -> Docs], doc'["spec"] \in SpecDocs,
           doc'["child"] \in ChildDocs, doc'["parent"] \in ParentDocs
    PROVE  CertInv'
<1>1. edits' \in 0..MaxEdits
  BY CertAssumption DEF Edited, CertInv, CertTypeOK
<1>2. CertTypeOK'
  BY <1>1 DEF CertInv, CertTypeOK
<1>3. SigInv' /\ ReceiptInv'
  BY DEF CertInv, SigInv, ReceiptInv
<1>4. QED
  BY <1>2, <1>3 DEF CertInv

LEMMA SignKeeps ==
    ASSUME CertInv, NEW o \in Objects, NEW p \in Parties(o), Sign(o, p)
    PROVE  CertInv'
<1>1. PICK k \in Keys : k = doc[o][p]
                        /\ sig' = [sig EXCEPT ![o][p] = Signature(o, k)]
  BY DEF Sign, OwnKey
<1> DEFINE s == [by |-> k, over |-> doc[o], seen |-> doc[o]]
<1>2. sig' = [sig EXCEPT ![o][p] = s]
  BY <1>1 DEF Signature, Bytes
<1>3. s \in SignatureDocs
  BY DEF CertInv, CertTypeOK, SignatureDocs
<1>4. /\ DOMAIN sig' = Objects
      /\ \A q \in Objects : q # o => sig'[q] = sig[q]
      /\ sig'[o] = [sig[o] EXCEPT ![p] = s]
  BY <1>2 DEF CertInv, CertTypeOK
<1>5. sig'[o] \in [Parties(o) -> {None} \union SignatureDocs]
  <2>1. sig[o] \in [Parties(o) -> {None} \union SignatureDocs]
    BY DEF CertInv, CertTypeOK, SignatureDocs
  <2>2. QED
    BY <1>3, <1>4, <2>1
<1>6. CertTypeOK'
  BY <1>4, <1>5 DEF CertInv, CertTypeOK, Sign, SignatureDocs
<1>7. SigInv'
  <2> SUFFICES ASSUME NEW q \in Objects, NEW r \in Parties(q), sig'[q][r] # None
               PROVE  /\ sig'[q][r].over = sig'[q][r].seen
                      /\ sig'[q][r].by = sig'[q][r].seen[r]
    BY DEF SigInv
  <2>1. CASE q = o /\ r = p
    <3>1. sig'[q][r] = s
      BY <1>4, <2>1 DEF CertInv, CertTypeOK
    <3>2. QED
      BY <3>1, <2>1, <1>1
  <2>2. CASE ~ (q = o /\ r = p)
    <3>1. sig'[q][r] = sig[q][r]
      BY <1>4, <2>2 DEF CertInv, CertTypeOK
    <3>2. QED
      BY <3>1 DEF CertInv, SigInv
  <2>3. QED
    BY <2>1, <2>2
<1>8. ReceiptInv'
  BY DEF Sign, CertInv, ReceiptInv
<1>9. QED
  BY <1>6, <1>7, <1>8 DEF CertInv

LEMMA MockKeeps ==
    ASSUME CertInv, NEW c \in Certs, AnchorMock(c)
    PROVE  CertInv'
<1> DEFINE r == [mock |-> TRUE, number |-> 0, stamped |-> TRUE, seen |-> doc[c]]
<1>1. r \in ReceiptDocs /\ r.mock
  BY DEF CertInv, CertTypeOK, ReceiptDocs, Objects
<1>2. receipt' = [receipt EXCEPT ![c] = r]
  BY DEF AnchorMock
<1>3. CertTypeOK'
  BY <1>1, <1>2 DEF AnchorMock, CertInv, CertTypeOK, ReceiptDocs
<1>4. SigInv'
  BY DEF AnchorMock, CertInv, SigInv
<1>5. ReceiptInv'
  BY <1>1, <1>2 DEF AnchorMock, CertInv, CertTypeOK, ReceiptInv
<1>6. QED
  BY <1>3, <1>4, <1>5 DEF CertInv

LEMMA LiveKeeps ==
    ASSUME CertInv, NEW c \in Certs, AnchorLive(c)
    PROVE  CertInv'
<1> DEFINE r == [mock |-> FALSE, number |-> Len(topic) + 1, stamped |-> FALSE,
                 seen |-> doc[c]]
<1>1. doc[c] \in Docs /\ topic \in Seq(Docs) /\ topic' = Append(topic, doc[c])
  BY DEF AnchorLive, Address, Bytes, CertInv, CertTypeOK, Objects
<1>2. /\ topic' \in Seq(Docs) /\ Len(topic') = Len(topic) + 1
      /\ topic'[Len(topic) + 1] = doc[c]
      /\ \A i \in 1..Len(topic) : topic'[i] = topic[i]
      /\ Len(topic) \in Nat
  BY <1>1
<1>3. r \in ReceiptDocs /\ ~ r.mock
  BY <1>1, <1>2 DEF ReceiptDocs
<1>4. receipt' = [receipt EXCEPT ![c] = r] \/ receipt' = receipt
  BY <1>2 DEF AnchorLive, Number
<1>5. receipt' \in [Certs -> {None} \union ReceiptDocs]
  BY <1>3, <1>4 DEF CertInv, CertTypeOK, ReceiptDocs
<1>6. CertTypeOK'
  BY <1>2, <1>5 DEF AnchorLive, CertInv, CertTypeOK, ReceiptDocs
<1>7. SigInv'
  BY DEF AnchorLive, CertInv, SigInv
<1>8. ReceiptInv'
  <2> SUFFICES ASSUME NEW e \in Certs, receipt'[e] # None, ~ receipt'[e].mock,
                      receipt'[e].number # 0
               PROVE  /\ receipt'[e].number \in 1..Len(topic')
                      /\ topic'[receipt'[e].number] = receipt'[e].seen
    BY DEF ReceiptInv
  <2>1. CASE receipt'[e] = r
    BY <2>1, <1>2
  <2>2. CASE receipt'[e] = receipt[e]
    BY <2>2, <1>2 DEF CertInv, ReceiptInv
  <2>3. QED
    BY <2>1, <2>2, <1>4 DEF CertInv, CertTypeOK
<1>9. QED
  BY <1>6, <1>7, <1>8 DEF CertInv

LEMMA RefusedKeeps ==
    ASSUME CertInv, NEW c \in Certs, AnchorRefused(c)
    PROVE  CertInv'
<1> DEFINE r == [mock |-> FALSE, number |-> 0, stamped |-> FALSE, seen |-> doc[c]]
<1>1. r \in ReceiptDocs /\ r.number = 0
  BY DEF CertInv, CertTypeOK, ReceiptDocs, Objects
<1>2. receipt' = [receipt EXCEPT ![c] = r]
  BY DEF AnchorRefused
<1>3. CertTypeOK'
  BY <1>1, <1>2 DEF AnchorRefused, CertInv, CertTypeOK, ReceiptDocs
<1>4. SigInv'
  BY DEF AnchorRefused, CertInv, SigInv
<1>5. ReceiptInv'
  BY <1>1, <1>2 DEF AnchorRefused, CertInv, CertTypeOK, ReceiptInv
<1>6. QED
  BY <1>3, <1>4, <1>5 DEF CertInv

LEMMA VerifyKeeps ==
    ASSUME CertInv, NEW c \in Certs, VerifyAnchor(c)
    PROVE  CertInv'
<1>1. receipt[c] \in ReceiptDocs
  BY DEF VerifyAnchor, Confirmed, CertInv, CertTypeOK, ReceiptDocs
<1>2. /\ receipt' = [receipt EXCEPT ![c] = [receipt[c] EXCEPT !.stamped = TRUE]]
      /\ [receipt[c] EXCEPT !.stamped = TRUE] \in ReceiptDocs
  BY <1>1 DEF VerifyAnchor, ReceiptDocs
<1>3. CertTypeOK'
  BY <1>2 DEF VerifyAnchor, CertInv, CertTypeOK, ReceiptDocs
<1>4. SigInv'
  BY DEF VerifyAnchor, CertInv, SigInv
<1>5. ReceiptInv'
  <2>1. \A e \in Certs \ {c} : receipt'[e] = receipt[e]
    BY <1>2 DEF CertInv, CertTypeOK
  <2>2. /\ receipt'[c].mock = receipt[c].mock /\ receipt[c] # None
        /\ receipt'[c].number = receipt[c].number
        /\ receipt'[c].seen = receipt[c].seen
    BY <1>1, <1>2 DEF VerifyAnchor, Confirmed, CertInv, CertTypeOK, ReceiptDocs
  <2>3. QED
    BY <2>1, <2>2 DEF VerifyAnchor, CertInv, ReceiptInv
<1>6. QED
  BY <1>3, <1>4, <1>5 DEF CertInv

LEMMA StepCert == CertInv /\ [CertNext]_certVars => CertInv'
<1> SUFFICES ASSUME CertInv, [CertNext]_certVars PROVE CertInv'
  OBVIOUS
<1>1. CASE Renegotiate
  <2>1. PICK t \in Terms : doc' = [doc EXCEPT !["spec"].terms = t]
    BY <1>1 DEF Renegotiate
  <2>2. [doc["spec"] EXCEPT !.terms = t] \in SpecDocs
    BY DEF CertInv, CertTypeOK, SpecDocs
  <2>3. /\ doc' \in [Objects -> Docs] /\ doc'["spec"] \in SpecDocs
        /\ doc'["child"] \in ChildDocs /\ doc'["parent"] \in ParentDocs
    BY <2>1, <2>2 DEF CertInv, CertTypeOK, Objects, Certs, Docs
  <2>4. QED
    BY <1>1, <2>3, EditKeeps DEF Renegotiate
<1>2. ASSUME NEW c \in Certs, Rework(c) PROVE CertInv'
  <2>1. PICK v \in Outputs : doc' = [doc EXCEPT ![c].output = v]
    BY <1>2 DEF Rework
  <2>2. /\ c = "child" => [doc[c] EXCEPT !.output = v] \in ChildDocs
        /\ c = "parent" => [doc[c] EXCEPT !.output = v] \in ParentDocs
    BY DEF CertInv, CertTypeOK, ChildDocs, ParentDocs
  <2>3. /\ doc' \in [Objects -> Docs] /\ doc'["spec"] \in SpecDocs
        /\ doc'["child"] \in ChildDocs /\ doc'["parent"] \in ParentDocs
    BY <2>1, <2>2 DEF CertInv, CertTypeOK, Objects, Certs, Docs
  <2>4. QED
    BY <1>2, <2>3, EditKeeps DEF Rework
<1>3. CASE Refer
  <2>1. doc' = [doc EXCEPT !["parent"] = [doc["parent"] EXCEPT !.spec = doc["spec"],
                                                !.children = {doc["child"]}]]
    BY <1>3 DEF Refer, Address, Bytes, CertInv, CertTypeOK, ParentDocs, Objects, Certs
  <2>2. [doc["parent"] EXCEPT !.spec = doc["spec"], !.children = {doc["child"]}]
          \in ParentDocs
    BY DEF CertInv, CertTypeOK, ParentDocs
  <2>3. /\ doc' \in [Objects -> Docs] /\ doc'["spec"] \in SpecDocs
        /\ doc'["child"] \in ChildDocs /\ doc'["parent"] \in ParentDocs
    BY <2>1, <2>2 DEF CertInv, CertTypeOK, Objects, Certs, Docs
  <2>4. QED
    BY <1>3, <2>3, EditKeeps DEF Refer
<1>4. CASE MirrorAdvances
  <2>1. visible' \in 0..Len(topic')
    BY <1>4 DEF MirrorAdvances, CertInv, CertTypeOK
  <2>2. CertTypeOK'
    BY <1>4, <2>1 DEF MirrorAdvances, CertInv, CertTypeOK
  <2>3. QED
    BY <1>4, <2>2 DEF MirrorAdvances, CertInv, SigInv, ReceiptInv
<1>5. CASE UNCHANGED certVars
  BY <1>5 DEF certVars, CertInv, CertTypeOK, SigInv, ReceiptInv
<1>6. QED
  BY <1>1, <1>2, <1>3, <1>4, <1>5, SignKeeps, MockKeeps, LiveKeeps, RefusedKeeps,
     VerifyKeeps
  DEF CertNext

LEMMA CertInvariant == CertSpec => []CertInv
BY InitCert, StepCert, PTL DEF CertSpec

\* Documents, signatures, receipts and the topic keep their types, whatever is
\* assigned, signed and anchored.
THEOREM CertTypeCorrect == CertSpec => []CertTypeOK
<1>1. CertInv => CertTypeOK
  BY DEF CertInv
<1>2. QED
  BY <1>1, CertInvariant, PTL

\* Signatures verify exactly while their object is what was signed.
THEOREM SignatureExactCorrect == CertSpec => []SignatureExact
<1>1. CertInv => SignatureExact
  <2> SUFFICES ASSUME CertInv, NEW o \in Objects, NEW p \in Parties(o),
                      sig[o][p] # None
               PROVE  Verifies(o, p) <=> sig[o][p].seen = doc[o]
    BY DEF SignatureExact
  <2>1. sig[o][p].over = sig[o][p].seen /\ sig[o][p].by = sig[o][p].seen[p]
    BY DEF CertInv, SigInv
  <2>2. QED
    BY <2>1 DEF Verifies, Valid, Bytes
<1>2. QED
  BY <1>1, CertInvariant, PTL

\* A live receipt confirms exactly the certificate that it was given for.
THEOREM AnchorExactCorrect == CertSpec => []AnchorExact
<1>1. CertInv => AnchorExact
  <2> SUFFICES ASSUME CertInv, NEW c \in Certs, receipt[c] # None, ~ receipt[c].mock
               PROVE  Confirmed(c) <=> (receipt[c].seen = doc[c]
                                        /\ receipt[c].number \in 1..visible)
    BY DEF AnchorExact, CertInv, CertTypeOK
  <2>1. ASSUME receipt[c].number # 0
        PROVE  topic[receipt[c].number] = receipt[c].seen
    BY <2>1 DEF CertInv, ReceiptInv
  <2>2. QED
    BY <2>1 DEF Confirmed, Address, Bytes
<1>2. QED
  BY <1>1, CertInvariant, PTL
=============================================================================
