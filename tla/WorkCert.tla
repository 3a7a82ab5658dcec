------------------------------ MODULE WorkCert ------------------------------
(* TaskSpec, DerivationCert and the anchor of a certificate on a topic of the *)
(* Hedera Consensus Service: a buyer and a seller sign a specification, the   *)
(* seller signs a certificate that names it and the certificate of a          *)
(* subcontractor by their content addresses, and certificates are anchored.   *)
(*                                                                            *)
(* All three are mutable objects: a field may be assigned before, between and *)
(* after the signatures and the anchor, and these stay as they are. A hash    *)
(* and a signature are modelled as what they are of: no two contents share    *)
(* one.                                                                       *)
EXTENDS Integers, Sequences

CONSTANTS Terms,       \* what a specification asks for, and its price
          Outputs,     \* addresses of outputs
          MaxMessages, \* bound: messages on the topic
          MaxEdits,    \* bound: assignments to fields
          None

ASSUME CertAssumption == /\ MaxMessages \in Nat /\ MaxEdits \in Nat
                         /\ None \notin Terms \union Outputs

VARIABLES
    doc,      \* per object: the fields that are not detached
    sig,      \* per object and party: its signature, or None
    receipt,  \* per certificate: its hcs_receipt, or None
    topic,    \* what consensus has put on the topic
    visible,  \* how many messages of it the mirror node shows
    edits     \* assignments so far

certVars == <<doc, sig, receipt, topic, visible, edits>>

Certs == {"child", "parent"}
Objects == Certs \union {"spec"}
Parties(o) == IF o = "spec" THEN {"buyer", "seller"} ELSE {"seller"}
Keys == {"buyer's key", "seller's key", "subcontractor's key"}

\* A certificate is constructed with the addresses of what it refers to; the
\* child's own specification, of the subcontract, is left out.
CertInit ==
    /\ \E t \in Terms, v \in Outputs :
         LET spec == [terms |-> t, buyer |-> "buyer's key", seller |-> "seller's key"]
             child == [output |-> v, spec |-> None, children |-> {},
                       seller |-> "subcontractor's key"]
         IN doc = [spec |-> spec, child |-> child,
                   parent |-> [output |-> v, spec |-> spec, children |-> {child},
                               seller |-> "seller's key"]]
    /\ sig = [o \in Objects |-> [p \in Parties(o) |-> None]]
    /\ receipt = [c \in Certs |-> None]
    /\ topic = <<>> /\ visible = 0 /\ edits = 0

\* Mutants: the receipt is signed too; the references to certificates are not.
BytesWithReceipt(o) == <<doc[o], IF o \in Certs THEN receipt[o] ELSE None>>
BytesWithoutChildren(o) == IF o \in Certs THEN [doc[o] EXCEPT !.children = {}] ELSE doc[o]

\* to_canonical_bytes: all but the signatures and the receipt.
Bytes(o) == doc[o]

\* content_address. Verifiers compute it anew each time.
Address(o) == Bytes(o)

\* Assignments to fields: another offer, another output, and references to
\* specification and child as they are now.
Edited == edits < MaxEdits /\ edits' = edits + 1
Renegotiate ==
    /\ Edited
    /\ \E t \in Terms : doc' = [doc EXCEPT !.spec.terms = t]
    /\ UNCHANGED <<sig, receipt, topic, visible>>

Rework(c) ==
    /\ Edited
    /\ \E v \in Outputs : doc' = [doc EXCEPT ![c].output = v]
    /\ UNCHANGED <<sig, receipt, topic, visible>>

Refer ==
    /\ Edited
    /\ doc' = [doc EXCEPT !.parent.spec = Address("spec"),
                          !.parent.children = {Address("child")}]
    /\ UNCHANGED <<sig, receipt, topic, visible>>

\* A mutant: whoever's key it is.
AnyKey(o, p, k) == TRUE

\* A key that is not the party's is refused with a ValueError.
OwnKey(o, p, k) == k = doc[o][p]

\* sign of signing.py. What the signer has seen is history.
Signature(o, k) == [by |-> k, over |-> Bytes(o), seen |-> doc[o]]

\* sign_buyer, sign_seller, sign.
Sign(o, p) ==
    /\ \E k \in Keys : OwnKey(o, p, k) /\ sig' = [sig EXCEPT ![o][p] = Signature(o, k)]
    /\ UNCHANGED <<doc, receipt, topic, visible, edits>>

\* verify of signing.py: a signature of these bytes, by this key.
Valid(s, o, k) == s.by = k /\ s.over = Bytes(o)

\* verify_buyer_signature, verify_seller_signature, verify_signature.
Verifies(o, p) == sig[o][p] # None /\ Valid(sig[o][p], o, doc[o][p])

\* _mock_receipt: the same for the same address, and no message.
AnchorMock(c) ==
    /\ receipt' = [receipt EXCEPT ![c] = [mock |-> TRUE, number |-> 0, stamped |-> TRUE,
                                          seen |-> doc[c]]]
    /\ UNCHANGED <<doc, sig, topic, visible, edits>>

\* A mutant: messages are numbered from 0.
NumberFromZero(t) == Len(t) - 1

\* The sequence number of the last message.
Number(t) == Len(t)

\* _submit_live: a new message for each call. If the call raises, the message
\* may be on the topic, and the certificate keeps the receipt it had.
AnchorLive(c) ==
    /\ Len(topic) < MaxMessages
    /\ topic' = Append(topic, Address(c))
    /\ \/ receipt' = [receipt EXCEPT ![c] = [mock |-> FALSE, number |-> Number(topic'),
                                             stamped |-> FALSE, seen |-> doc[c]]]
       \/ UNCHANGED receipt
    /\ UNCHANGED <<doc, sig, visible, edits>>

\* Consensus refuses the message, which execute does not raise: the status of
\* the receipt is not looked at, and its number is the default.
AnchorRefused(c) ==
    /\ receipt' = [receipt EXCEPT ![c] = [mock |-> FALSE, number |-> 0,
                                         stamped |-> FALSE, seen |-> doc[c]]]
    /\ UNCHANGED <<doc, sig, topic, visible, edits>>

\* The mirror node follows consensus at a distance.
MirrorAdvances ==
    /\ visible < Len(topic) /\ visible' = visible + 1
    /\ UNCHANGED <<doc, sig, receipt, topic, edits>>

\* verify_anchor, when the mirror node answers; otherwise it is False.
Confirmed(c) ==
    /\ receipt[c] # None
    /\ \/ receipt[c].mock
       \/ /\ receipt[c].number \in 1..visible
          /\ topic[receipt[c].number] = Address(c)

\* Its side effect: the consensus timestamp is filled in.
VerifyAnchor(c) ==
    /\ Confirmed(c) /\ ~ receipt[c].stamped
    /\ receipt' = [receipt EXCEPT ![c].stamped = TRUE]
    /\ UNCHANGED <<doc, sig, topic, visible, edits>>

CertNext ==
    \/ Renegotiate \/ Refer \/ MirrorAdvances
    \/ \E o \in Objects : \E p \in Parties(o) : Sign(o, p)
    \/ \E c \in Certs : \/ Rework(c) \/ AnchorMock(c) \/ AnchorLive(c)
                       \/ AnchorRefused(c) \/ VerifyAnchor(c)

CertSpec == CertInit /\ [][CertNext]_certVars

----------------------------------------------------------------------------
(* Properties.                                                                *)

SpecDocs == [terms : Terms, buyer : Keys, seller : Keys]
ChildDocs == [output : Outputs, spec : {None}, children : {{}}, seller : Keys]
ParentDocs == [output : Outputs, spec : SpecDocs, children : SUBSET ChildDocs,
               seller : Keys]
Docs == SpecDocs \union ChildDocs \union ParentDocs

\* Every variable has its type: references are to whole certificates, and the
\* mirror node never shows more than consensus has.
CertTypeOK ==
    /\ doc \in [Objects -> Docs]
    /\ doc["spec"] \in SpecDocs /\ doc["child"] \in ChildDocs /\ doc["parent"] \in ParentDocs
    /\ DOMAIN sig = Objects
    /\ \A o \in Objects : sig[o] \in
         [Parties(o) -> {None} \union [by : Keys, over : Docs, seen : Docs]]
    /\ receipt \in [Certs -> {None} \union [mock : BOOLEAN, number : Nat,
                                            stamped : BOOLEAN, seen : Docs]]
    /\ topic \in Seq(Docs) /\ visible \in 0..Len(topic) /\ edits \in 0..MaxEdits

\* A signature verifies exactly while the object is what its party has seen
\* when it signed: an edit of a field, of a term or of what is referred to,
\* invalidates it, and undoing the edit revives it; another signature, an
\* anchor, and the timestamp that verify_anchor fills in do neither.
SignatureExact ==
    \A o \in Objects : \A p \in Parties(o) :
        sig[o][p] # None => (Verifies(o, p) <=> sig[o][p].seen = doc[o])

\* A certificate with a live receipt is confirmed exactly if it is what was
\* anchored and the mirror node has come to its message, whatever else is on
\* the topic: messages of other certificates, of earlier contents, and of calls
\* that raised. An edited certificate is not confirmed until anchored anew, and
\* neither is one whose receipt was taken although consensus refused it.
AnchorExact ==
    \A c \in Certs :
        receipt[c] # None => receipt[c].mock \/
            (Confirmed(c) <=> (receipt[c].seen = doc[c] /\ receipt[c].number \in 1..visible))
=============================================================================
