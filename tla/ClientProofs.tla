----------------------------- MODULE ClientProofs -----------------------------
(* Proofs about the clients of the services outside: McpSession, for any    *)
(* number of handlers, users and sessions (tools are called in sessions     *)
(* that were confirmed, and each fetch ends), and LlmReplay, for any number *)
(* of recording processes, requests, answers and failures (what is replayed *)
(* is what was recorded).                                                   *)
EXTENDS McpSession, LlmReplay, TLAPS

ClientDocs == [http : BOOLEAN, session : 0..MaxSessions,
               at : {"rest", "initialize", "confirm", "call", "raised", "gone"},
               entered : BOOLEAN, failed : BOOLEAN]

\* What the place of a client says of its connection and its session. Failed
\* means that open raised and that the client was not closed since.
Connected(k) ==
    /\ k.at \in {"initialize", "confirm", "call"} => k.http
    /\ k.session # NoSession => k.http
    /\ k.failed => k.http
    /\ k.at \in {"initialize", "confirm"} => ~ k.failed
    /\ k.at = "confirm" => k.session # NoSession
Confirmed(k, S) ==
    k.at \in {"rest", "call", "raised"} /\ k.http /\ ~ k.failed => k.session \in S
HandlerSound(k) == k.at \in {"rest", "call"} => ~ k.failed

ClientSound(k, c, S) ==
    k \in ClientDocs /\ Connected(k) /\ Confirmed(k, S) /\ (c \in Handlers => HandlerSound(k))

McpInv ==
    /\ sessions \in 0..MaxSessions
    /\ ready \subseteq Sessions /\ lost \subseteq Sessions
    /\ DOMAIN client = Owners /\ client = [c \in Owners |-> client[c]]
    /\ \A c \in Owners : ClientSound(client[c], c, ready)
    /\ receipt \in [Handlers -> {"pending"} \union Results]

LEMMA McpInvType == McpInv => McpTypeOK
<1> SUFFICES ASSUME McpInv PROVE McpTypeOK
  OBVIOUS
<1>1. client \in [Owners -> ClientDocs]
  BY DEF McpInv, ClientSound
<1>2. \A c \in Owners : client[c].session # NoSession => client[c].http
  BY DEF McpInv, ClientSound, Connected
<1>3. QED
  BY <1>1, <1>2, Zenon DEF McpInv, McpTypeOK, ClientDocs

LEMMA McpInvCalls == McpInv => CallsInSession
BY DEF McpInv, ClientSound, Connected, Confirmed, HandlerSound, CallsInSession, At

LEMMA InitMcp == McpInit => McpInv
<1> SUFFICES ASSUME McpInit PROVE McpInv
  OBVIOUS
<1>1. \A c \in Owners : client[c] = Made
  BY DEF McpInit
<1>2. Made \in ClientDocs
  BY McpAssumption DEF Made, ClientDocs, NoSession
<1>3. \A c \in Owners : ClientSound(client[c], c, ready)
  BY <1>1, <1>2 DEF ClientSound, Connected, Confirmed, HandlerSound, Made, NoSession
<1>4. DOMAIN client = Owners /\ client = [c \in Owners |-> client[c]]
  BY <1>1 DEF McpInit
<1>5. sessions \in 0..MaxSessions /\ ready \subseteq Sessions /\ lost \subseteq Sessions
  BY McpAssumption DEF McpInit, Sessions
<1>6. receipt \in [Handlers -> {"pending"} \union Results]
  BY DEF McpInit
<1>7. QED
  BY <1>3, <1>4, <1>5, <1>6 DEF McpInv

\* A step of one client, after which it is sound, keeps the others sound: no
\* session ceases to be confirmed.
LEMMA OneClient ==
    ASSUME McpInv, NEW c \in Owners, NEW STATE d,
           client' = [client EXCEPT ![c] = d],
           ClientSound(d, c, ready'), ready \subseteq ready'
    PROVE  /\ DOMAIN client' = Owners /\ client' = [e \in Owners |-> client'[e]]
           /\ \A e \in Owners : ClientSound(client'[e], e, ready')
<1>1. DOMAIN client' = Owners /\ client' = [e \in Owners |-> client'[e]]
  BY DEF McpInv
<1>2. ASSUME NEW e \in Owners PROVE ClientSound(client'[e], e, ready')
  <2>1. CASE e = c
    <3>1. client'[e] = d
      BY <2>1 DEF McpInv
    <3>2. QED
      BY <2>1, <3>1 DEF ClientSound, Connected, Confirmed, HandlerSound
  <2>2. CASE e # c
    <3>1. client'[e] = client[e] /\ ClientSound(client[e], e, ready)
      BY <2>2 DEF McpInv
    <3>2. QED
      BY <3>1 DEF ClientSound, Connected, Confirmed, HandlerSound
  <2>3. QED
    BY <2>1, <2>2
<1>3. QED
  BY <1>1, <1>2

\* An exception in open leaves a failed client, one in a call does not.
LEMMA RaiseSound ==
    ASSUME McpInv, NEW c \in Owners, Raise(c), ready \subseteq ready',
           At(c) \in {"initialize", "confirm", "call"}
    PROVE  /\ DOMAIN client' = Owners /\ client' = [e \in Owners |-> client'[e]]
           /\ \A e \in Owners : ClientSound(client'[e], e, ready')
<1> DEFINE k == client[c]
           f == k.failed \/ k.at \in {"initialize", "confirm"}
           d == [k EXCEPT !.at = "raised", !.failed = f]
<1>1. k \in ClientDocs /\ Connected(k) /\ Confirmed(k, ready) /\ (c \in Handlers => HandlerSound(k))
  BY DEF McpInv, ClientSound
<1>2. k.http /\ f \in BOOLEAN
  BY <1>1 DEF At, Connected, ClientDocs
<1>3. client' = [client EXCEPT ![c] = d]
  BY DEF Raise
<1>4. /\ d \in ClientDocs /\ d.at = "raised" /\ d.http = k.http /\ d.session = k.session
      /\ d.failed = f
  <2> HIDE DEF f
  <2>1. QED
    BY <1>1, <1>2 DEF ClientDocs
<1>5. ~ f => k.session \in ready'
  BY <1>1, <1>2 DEF Confirmed, At
<1>6. ClientSound(d, c, ready')
  <2> HIDE DEF d, f
  <2>1. QED
    BY <1>2, <1>4, <1>5 DEF ClientSound, Connected, Confirmed, HandlerSound
<1>7. QED
  BY <1>3, <1>6, OneClient

LEMMA MadeSound == ASSUME NEW c, NEW S PROVE ClientSound(Made, c, S)
<1>1. Made \in ClientDocs
  BY McpAssumption DEF Made, ClientDocs, NoSession
<1>2. QED
  BY <1>1 DEF ClientSound, Connected, Confirmed, HandlerSound, Made, NoSession

\* Every step keeps the invariant.
LEMMA NextMcp ==
    ASSUME McpInv, McpNext PROVE McpInv'
<1> DEFINE ClientsSound == /\ DOMAIN client' = Owners /\ client' = [e \in Owners |-> client'[e]]
                           /\ \A e \in Owners : ClientSound(client'[e], e, ready')
           RestTyped == /\ sessions' \in 0..MaxSessions
                        /\ ready' \subseteq Sessions /\ lost' \subseteq Sessions
                        /\ receipt' \in [Handlers -> {"pending"} \union Results]
<1>0. /\ sessions \in 0..MaxSessions /\ ready \subseteq Sessions /\ lost \subseteq Sessions
      /\ receipt \in [Handlers -> {"pending"} \union Results]
  BY DEF McpInv
<1>a. ASSUME ClientsSound, RestTyped PROVE McpInv'
  BY <1>a DEF McpInv
<1>k. ASSUME NEW c \in Owners
      PROVE  /\ client[c] \in ClientDocs /\ Connected(client[c]) /\ Confirmed(client[c], ready)
             /\ c \in Handlers => HandlerSound(client[c])
  BY DEF McpInv, ClientSound
<1> HIDE DEF ClientsSound
<1>1. ASSUME NEW c \in Owners, OpenAgain(c) PROVE McpInv'
  <2> DEFINE k == client[c]
             d == [k EXCEPT !.entered = TRUE]
  <2>1. client' = [client EXCEPT ![c] = d] /\ ready' = ready
    BY <1>1 DEF OpenAgain
  <2>2. ClientSound(d, c, ready')
    <3>1. d \in ClientDocs
      BY <1>k DEF ClientDocs
    <3>2. QED
      BY <1>k, <1>1, <2>1, <3>1
      DEF OpenAgain, At, ClientSound, Connected, Confirmed, HandlerSound, ClientDocs
  <2>3. ClientsSound
    BY <2>1, <2>2, OneClient DEF ClientsSound
  <2>4. RestTyped
    BY <1>0, <1>1 DEF OpenAgain
  <2>5. QED
    BY <1>a, <2>3, <2>4
<1>2. ASSUME NEW c \in Owners, OpenClient(c) PROVE McpInv'
  <2> DEFINE k == client[c]
             d == [k EXCEPT !.http = TRUE, !.at = "initialize"]
  <2>1. client' = [client EXCEPT ![c] = d] /\ ready' = ready
    BY <1>2 DEF OpenClient
  <2>2. ClientSound(d, c, ready')
    <3>1. d \in ClientDocs
      BY <1>k DEF ClientDocs
    <3>2. QED
      BY <1>k, <1>2, <2>1, <3>1
      DEF OpenClient, At, ClientSound, Connected, Confirmed, HandlerSound, ClientDocs
  <2>3. ClientsSound
    BY <2>1, <2>2, OneClient DEF ClientsSound
  <2>4. RestTyped
    BY <1>0, <1>2 DEF OpenClient
  <2>5. QED
    BY <1>a, <2>3, <2>4
<1>3. ASSUME NEW c \in Owners, Initialize(c) PROVE McpInv'
  <2>1. CASE sessions < MaxSessions /\ sessions' = sessions + 1
             /\ client' = [client EXCEPT ![c].at = "confirm", ![c].session = sessions']
    <3> DEFINE n == sessions + 1
               d == [client[c] EXCEPT !.at = "confirm", !.session = n]
    <3>1. client' = [client EXCEPT ![c] = d] /\ ready' = ready
      BY <1>3, <2>1 DEF Initialize
    <3>2. n \in 1..MaxSessions
      BY <1>0, <2>1, McpAssumption
    <3>3. ClientSound(d, c, ready')
      <4> HIDE DEF n
      <4>1. d \in ClientDocs
        <5>1. n \in 0..MaxSessions
          BY <3>2
        <5>2. QED
          BY <1>k, <5>1 DEF ClientDocs
      <4>2. QED
        BY <1>k, <1>3, <3>1, <3>2, <4>1
        DEF Initialize, At, ClientSound, Connected, Confirmed, HandlerSound, ClientDocs, NoSession
    <3>4. ClientsSound
      BY <3>1, <3>3, OneClient DEF ClientsSound
    <3>5. RestTyped
      BY <1>0, <1>3, <2>1, <3>2 DEF Initialize
    <3>6. QED
      BY <1>a, <3>4, <3>5
  <2>2. CASE MissingId(c) /\ UNCHANGED sessions
    <3>1. ClientsSound
      BY <1>3, <2>2, RaiseSound DEF Initialize, MissingId, ClientsSound
    <3>2. RestTyped
      BY <1>0, <1>3, <2>2 DEF Initialize
    <3>3. QED
      BY <1>a, <3>1, <3>2
  <2>3. QED
    BY <1>3, <2>1, <2>2 DEF Initialize
<1>4. ASSUME NEW c \in Owners, Confirm(c) PROVE McpInv'
  <2> DEFINE d == [client[c] EXCEPT !.at = "rest", !.entered = TRUE]
  <2>1. client' = [client EXCEPT ![c] = d]
    BY <1>4 DEF Confirm
  <2>2. client[c].session \in ready' /\ ready \subseteq ready' /\ ready' \subseteq Sessions
    <3>1. client[c].session \in 0..MaxSessions /\ client[c].session # NoSession
      BY <1>k, <1>4 DEF Confirm, At, Connected, ClientDocs
    <3>2. QED
      BY <1>0, <1>4, <3>1 DEF Confirm, Sessions, NoSession
  <2>3. ClientSound(d, c, ready')
    <3>1. d \in ClientDocs
      BY <1>k DEF ClientDocs
    <3>2. QED
      BY <1>k, <1>4, <2>2, <3>1
      DEF Confirm, At, ClientSound, Connected, Confirmed, HandlerSound, ClientDocs
  <2>4. ClientsSound
    BY <2>1, <2>2, <2>3, OneClient DEF ClientsSound
  <2>5. RestTyped
    BY <1>0, <1>4, <2>2 DEF Confirm
  <2>6. QED
    BY <1>a, <2>4, <2>5
<1>5. ASSUME NEW c \in Owners, PostRaises(c) PROVE McpInv'
  <2>1. ready \subseteq ready' /\ ready' \subseteq Sessions
    <3>1. client[c].session \in 0..MaxSessions
      BY <1>k DEF ClientDocs
    <3>2. QED
      <4>1. {client[c].session} \ {NoSession} \subseteq Sessions
        BY <3>1 DEF Sessions, NoSession
      <4>2. ready' = ready \/ ready' = ready \union ({client[c].session} \ {NoSession})
        BY <1>5 DEF PostRaises
      <4>3. QED
        BY <1>0, <4>1, <4>2
  <2>2. ClientsSound
    BY <1>5, <2>1, RaiseSound DEF PostRaises, ClientsSound
  <2>3. sessions' \in 0..MaxSessions
    BY <1>0, <1>5, McpAssumption DEF PostRaises
  <2>4. RestTyped
    BY <1>0, <1>5, <2>1, <2>3 DEF PostRaises
  <2>5. QED
    BY <1>a, <2>2, <2>4
<1>6. ASSUME NEW c \in Owners, CallTool(c) PROVE McpInv'
  <2> DEFINE k == client[c]
             d == [k EXCEPT !.at = "call"]
  <2>1. client' = [client EXCEPT ![c] = d] /\ ready' = ready
    BY <1>6 DEF CallTool
  <2>2. ClientSound(d, c, ready')
    <3>1. d \in ClientDocs
      BY <1>k DEF ClientDocs
    <3>2. QED
      BY <1>k, <1>6, <2>1, <3>1
      DEF CallTool, At, ClientSound, Connected, Confirmed, HandlerSound, ClientDocs
  <2>3. ClientsSound
    BY <2>1, <2>2, OneClient DEF ClientsSound
  <2>4. RestTyped
    BY <1>0, <1>6 DEF CallTool
  <2>5. QED
    BY <1>a, <2>3, <2>4
<1>7. ASSUME NEW c \in Owners, ToolAnswers(c) PROVE McpInv'
  <2>1. PICK m : IF IsResult(m)
                 THEN /\ client' = [client EXCEPT ![c].at = "rest"]
                      /\ receipt' = IF c \in Users THEN receipt
                                    ELSE [receipt EXCEPT ![c] = m]
                 ELSE Raise(c) /\ UNCHANGED receipt
    BY <1>7 DEF ToolAnswers
  <2>2. ready' = ready /\ At(c) = "call"
    BY <1>7 DEF ToolAnswers
  <2>3. CASE IsResult(m)
    <3> DEFINE d == [client[c] EXCEPT !.at = "rest"]
    <3>1. client' = [client EXCEPT ![c] = d]
      BY <2>1, <2>3
    <3>2. ClientSound(d, c, ready')
      <4>1. d \in ClientDocs
        BY <1>k DEF ClientDocs
      <4>2. QED
        BY <1>k, <2>2, <4>1
        DEF At, ClientSound, Connected, Confirmed, HandlerSound, ClientDocs
    <3>3. ClientsSound
      BY <2>2, <3>1, <3>2, OneClient DEF ClientsSound
    <3>4. receipt' \in [Handlers -> {"pending"} \union Results]
      BY <1>0, <2>1, <2>3 DEF IsResult
    <3>5. RestTyped
      BY <1>0, <1>7, <3>4 DEF ToolAnswers
    <3>6. QED
      BY <1>a, <3>3, <3>5
  <2>4. CASE ~ IsResult(m)
    <3>1. ClientsSound
      BY <2>1, <2>2, <2>4, RaiseSound DEF ClientsSound
    <3>2. RestTyped
      BY <1>0, <1>7, <2>1, <2>4 DEF ToolAnswers
    <3>3. QED
      BY <1>a, <3>1, <3>2
  <2>5. QED
    BY <2>3, <2>4
<1>8. ASSUME NEW c \in Owners, Close(c) PROVE McpInv'
  <2>1. client' = [client EXCEPT ![c] = Made] /\ ready' = ready
    BY <1>8 DEF Close, ClosedClient
  <2>2. ClientsSound
    BY <2>1, MadeSound, OneClient DEF ClientsSound
  <2>3. RestTyped
    BY <1>0, <1>8 DEF Close
  <2>4. QED
    BY <1>a, <2>2, <2>3
<1>9. ASSUME NEW c \in Owners, HandlerCatches(c) PROVE McpInv'
  <2>1. ready' = ready
    BY <1>9 DEF HandlerCatches
  <2>2. ClientsSound
    <3>1. CASE client[c].entered
      <4>1. client' = [client EXCEPT ![c] = Made]
        BY <1>9, <3>1 DEF HandlerCatches, ClosedClient
      <4>2. QED
        BY <2>1, <4>1, MadeSound, OneClient DEF ClientsSound
    <3>2. CASE ~ client[c].entered
      <4> DEFINE d == [client[c] EXCEPT !.at = "gone"]
      <4>1. client' = [client EXCEPT ![c] = d]
        BY <1>9, <3>2 DEF HandlerCatches
      <4>2. ClientSound(d, c, ready')
        <5>1. d \in ClientDocs
          BY <1>k DEF ClientDocs
        <5>2. QED
          BY <1>k, <5>1 DEF ClientSound, Connected, Confirmed, HandlerSound, ClientDocs
      <4>3. QED
        BY <2>1, <4>1, <4>2, OneClient DEF ClientsSound
    <3>3. QED
      BY <3>1, <3>2
  <2>3. receipt' \in [Handlers -> {"pending"} \union Results]
    BY <1>0, <1>9 DEF HandlerCatches, Results
  <2>4. RestTyped
    BY <1>0, <1>9, <2>3 DEF HandlerCatches
  <2>5. QED
    BY <1>a, <2>2, <2>4
<1>10. ASSUME NEW c \in Owners, UserCatches(c) PROVE McpInv'
  <2> DEFINE k == client[c]
             d == [k EXCEPT !.at = "rest"]
  <2>1. client' = [client EXCEPT ![c] = d] /\ ready' = ready
    BY <1>10 DEF UserCatches
  <2>2. ClientSound(d, c, ready')
    <3>1. d \in ClientDocs
      BY <1>k DEF ClientDocs
    <3>2. QED
      BY <1>k, <1>10, <2>1, <3>1, McpAssumption
      DEF UserCatches, At, ClientSound, Connected, Confirmed, HandlerSound, ClientDocs
  <2>3. ClientsSound
    BY <2>1, <2>2, OneClient DEF ClientsSound
  <2>4. RestTyped
    BY <1>0, <1>10 DEF UserCatches
  <2>5. QED
    BY <1>a, <2>3, <2>4
<1>11. CASE LoseSession
  <2>1. lost' \subseteq Sessions
    BY <1>0, <1>11, McpAssumption DEF LoseSession, Sessions
  <2>2. QED
    BY <1>11, <2>1 DEF LoseSession, McpInv, ClientSound, Connected, Confirmed, HandlerSound
<1>12. QED
  BY <1>1, <1>2, <1>3, <1>4, <1>5, <1>6, <1>7, <1>8, <1>9, <1>10, <1>11
  DEF McpNext, Return

LEMMA StepMcp == McpInv /\ [McpNext]_mcpVars => McpInv'
<1>1. CASE McpNext
  BY <1>1, NextMcp
<1>2. CASE UNCHANGED mcpVars
  BY <1>2 DEF mcpVars, McpInv, ClientSound, Connected, Confirmed, HandlerSound
<1>3. QED
  BY <1>1, <1>2

LEMMA McpInvariant == McpInit /\ [][McpNext]_mcpVars => []McpInv
BY InitMcp, StepMcp, PTL

\* Every variable of McpSession has its type, and a client has a session only
\* while it is connected.
THEOREM McpTypeCorrect == FairMcpSpec => []McpTypeOK
BY McpInvType, McpInvariant, PTL DEF FairMcpSpec

\* A tool of the Foundation's server is called in a confirmed session: by each
\* handler, whatever raised, and by a user whose open has not raised.
THEOREM CallsInSessionCorrect == FairMcpSpec => []CallsInSession
BY McpInvCalls, McpInvariant, PTL DEF FairMcpSpec

----------------------------------------------------------------------------
(* Liveness of McpSession: each fetch of a handler ends. What ENABLED means   *)
(* for the handler's steps is a hypothesis, with their guard spelled out.     *)

\* A handler has a step to take until its client is dropped, or closed behind
\* an answer.
CanReturn(c) ==
    /\ At(c) # "gone"
    /\ At(c) = "rest" => client[c].http \/ receipt[c] = "pending"

FetchOpen == \A c \in Handlers : CanReturn(c) => ENABLED <<Return(c)>>_mcpVars

\* The block of "with" is entered exactly when open has returned, and what open
\* raises leaves it behind.
FetchSound(k, r) ==
    /\ k.at \in {"initialize", "confirm"} => ~ k.entered /\ r = "pending"
    /\ k.at = "call" => k.entered /\ r = "pending"
    /\ k.at = "rest" /\ k.http => k.entered
    /\ k.at = "rest" /\ ~ k.http => ~ k.entered
    /\ k.at = "raised" => r = "pending" /\ (k.entered \/ k.failed)
    /\ k.at = "gone" => r # "pending" /\ k.failed

FetchInv == \A c \in Handlers : FetchSound(client[c], receipt[c])

\* The steps that a fetch has left, at most.
FetchLeft(k, r) ==
    CASE k.at = "rest" /\ ~ k.http /\ r = "pending" -> 7
      [] k.at = "initialize" -> 6
      [] k.at = "confirm" -> 5
      [] k.at = "rest" /\ k.http /\ r = "pending" -> 4
      [] k.at = "call" -> 3
      [] k.at = "rest" /\ k.http /\ r # "pending" -> 2
      [] k.at = "raised" -> 1
      [] OTHER -> 0

FetchNear(c, n) == FetchLeft(client[c], receipt[c]) <= n

LEMMA FetchLeftNat == ASSUME NEW k, NEW r PROVE FetchLeft(k, r) \in 0..7
BY DEF FetchLeft

\* What a handler raises, it raises in open or in the block.
LEMMA RaisedFetch ==
    ASSUME McpInv, FetchInv, NEW c \in Handlers, Raise(c), receipt' = receipt,
           At(c) \in {"initialize", "confirm", "call"}
    PROVE  /\ FetchSound(client'[c], receipt'[c])
           /\ FetchLeft(client'[c], receipt'[c]) < FetchLeft(client[c], receipt[c])
<1> DEFINE k == client[c]
           f == k.failed \/ k.at \in {"initialize", "confirm"}
           d == [k EXCEPT !.at = "raised", !.failed = f]
<1>1. k \in ClientDocs /\ c \in Owners /\ DOMAIN client = Owners
  BY DEF McpInv, ClientSound, Owners
<1>2. client'[c] = d
  BY <1>1 DEF Raise
<1>3. d.at = "raised" /\ d.failed = f /\ d.entered = k.entered
  <2> HIDE DEF f
  <2>1. QED
    BY <1>1 DEF ClientDocs
<1>4. k.entered \/ k.at \in {"initialize", "confirm"}
  BY DEF FetchInv, FetchSound, At
<1>5. FetchSound(d, receipt[c]) /\ receipt[c] = "pending"
  <2> HIDE DEF d
  <2>1. QED
    BY <1>3, <1>4 DEF FetchInv, FetchSound, At
<1>6. FetchLeft(d, receipt[c]) = 1
  <2> HIDE DEF d
  <2>1. QED
    BY <1>3 DEF FetchLeft
<1>7. FetchLeft(k, receipt[c]) \in {3, 5, 6}
  BY DEF FetchLeft, At
<1>8. QED
  BY <1>2, <1>5, <1>6, <1>7

LEMMA FetchAdvances ==
    ASSUME McpInv, FetchInv, NEW c \in Handlers, Return(c)
    PROVE  /\ FetchSound(client'[c], receipt'[c])
           /\ FetchLeft(client'[c], receipt'[c]) < FetchLeft(client[c], receipt[c])
<1> DEFINE k == client[c]  g == client'[c]
           Goal == /\ FetchSound(g, receipt'[c])
                   /\ FetchLeft(g, receipt'[c]) < FetchLeft(k, receipt[c])
<1>0. /\ k \in ClientDocs /\ c \in Owners /\ c \notin Users /\ DOMAIN client = Owners
      /\ FetchSound(k, receipt[c]) /\ receipt \in [Handlers -> {"pending"} \union Results]
  BY McpAssumption DEF McpInv, ClientSound, Owners, FetchInv
<1>1. CASE OpenClient(c)
  <2>1. g = [k EXCEPT !.http = TRUE, !.at = "initialize"]
    BY <1>0, <1>1 DEF OpenClient
  <2>2. g.at = "initialize" /\ g.entered = k.entered /\ receipt' = receipt
    BY <1>0, <1>1, <2>1 DEF OpenClient, ClientDocs
  <2>3. QED
    BY <1>0, <1>1, <2>2 DEF OpenClient, At, Fetching, FetchSound, FetchLeft
<1>2. CASE Initialize(c)
  <2>1. CASE MissingId(c)
    BY <1>2, <2>1, RaisedFetch DEF Initialize, MissingId
  <2>2. CASE /\ sessions' = sessions + 1
             /\ client' = [client EXCEPT ![c].at = "confirm", ![c].session = sessions']
    <3>1. g = [k EXCEPT !.at = "confirm", !.session = sessions']
      BY <1>0, <2>2
    <3>2. g.at = "confirm" /\ g.entered = k.entered /\ receipt' = receipt
      BY <1>0, <1>2, <3>1 DEF Initialize, ClientDocs
    <3>3. QED
      BY <1>0, <1>2, <3>2 DEF Initialize, At, FetchSound, FetchLeft
  <2>3. QED
    BY <1>2, <2>1, <2>2 DEF Initialize
<1>3. CASE Confirm(c)
  <2>1. g = [k EXCEPT !.at = "rest", !.entered = TRUE]
    BY <1>0, <1>3 DEF Confirm
  <2>2. g.at = "rest" /\ g.entered /\ g.http = k.http /\ receipt' = receipt
    BY <1>0, <1>3, <2>1 DEF Confirm, ClientDocs
  <2>3. k.http
    BY <1>3 DEF Confirm, At, McpInv, ClientSound, Connected, Owners
  <2>4. QED
    BY <1>0, <1>3, <2>2, <2>3 DEF Confirm, At, FetchSound, FetchLeft
<1>4. CASE CallTool(c)
  <2>1. g = [k EXCEPT !.at = "call"]
    BY <1>0, <1>4 DEF CallTool
  <2>2. g.at = "call" /\ g.entered = k.entered /\ receipt' = receipt
    BY <1>0, <1>4, <2>1 DEF CallTool, ClientDocs
  <2>3. QED
    BY <1>0, <1>4, <2>2 DEF CallTool, At, Fetching, FetchSound, FetchLeft
<1>5. CASE ToolAnswers(c)
  <2>1. PICK b \in Answers(c) :
           IF IsResult(FirstMessage(b))
           THEN /\ client' = [client EXCEPT ![c].at = "rest"]
                /\ receipt' = IF c \in Users THEN receipt
                              ELSE [receipt EXCEPT ![c] = FirstMessage(b)]
           ELSE Raise(c) /\ UNCHANGED receipt
    BY <1>5 DEF ToolAnswers
  <2>2. CASE ~ IsResult(FirstMessage(b))
    BY <1>5, <2>1, <2>2, RaisedFetch DEF ToolAnswers
  <2>3. CASE IsResult(FirstMessage(b))
    <3>1. g = [k EXCEPT !.at = "rest"] /\ receipt'[c] = FirstMessage(b)
      BY <1>0, <2>1, <2>3
    <3>2. g.at = "rest" /\ g.entered = k.entered /\ g.http = k.http
      BY <1>0, <3>1 DEF ClientDocs
    <3>3. k.at = "call" /\ k.http /\ receipt'[c] # "pending"
      BY <1>5, <2>3, <3>1
      DEF ToolAnswers, At, McpInv, ClientSound, Connected, Owners, IsResult, Results
    <3>4. QED
      BY <1>0, <3>2, <3>3 DEF FetchSound, FetchLeft
  <2>4. QED
    BY <2>2, <2>3
<1>6. CASE Close(c)
  <2>1. g = Made /\ receipt' = receipt
    BY <1>0, <1>6 DEF Close, ClosedClient
  <2>2. QED
    BY <1>0, <1>6, <2>1 DEF Close, At, Made, FetchSound, FetchLeft
<1>7. CASE PostRaises(c)
  BY <1>7, RaisedFetch DEF PostRaises
<1>8. CASE HandlerCatches(c)
  <2>1. receipt'[c] = "unsigned" /\ k.at = "raised"
    BY <1>0, <1>8 DEF HandlerCatches, At
  <2>2. CASE k.entered
    <3>1. g = Made
      BY <1>0, <1>8, <2>2 DEF HandlerCatches, ClosedClient
    <3>2. QED
      BY <2>1, <3>1 DEF Made, FetchSound, FetchLeft
  <2>3. CASE ~ k.entered
    <3>1. g = [k EXCEPT !.at = "gone"]
      BY <1>0, <1>8, <2>3 DEF HandlerCatches
    <3>2. g.at = "gone" /\ g.failed = k.failed
      BY <1>0, <3>1 DEF ClientDocs
    <3>3. QED
      BY <1>0, <2>1, <2>3, <3>2 DEF FetchSound, FetchLeft
  <2>4. QED
    BY <2>2, <2>3
<1>9. QED
  BY <1>1, <1>2, <1>3, <1>4, <1>5, <1>6, <1>7, <1>8 DEF Return

\* Nobody else touches the client of a handler.
LEMMA FetchAlone ==
    ASSUME McpInv, [McpNext]_mcpVars, NEW c \in Handlers
    PROVE  Return(c) \/ (client'[c] = client[c] /\ receipt'[c] = receipt[c])
<1>0. c \notin Users /\ c \in Owners /\ DOMAIN client = Owners
      /\ receipt \in [Handlers -> {"pending"} \union Results]
  BY McpAssumption DEF McpInv, Owners
<1>1. ASSUME NEW e \in Owners, Return(e), e # c
      PROVE  client'[c] = client[c] /\ receipt'[c] = receipt[c]
  BY <1>0, <1>1 DEF Return, OpenClient, Initialize, MissingId, Confirm, CallTool,
    ToolAnswers, Close, PostRaises, HandlerCatches, Raise
<1>2. ASSUME NEW e \in Owners, UserCatches(e) \/ OpenAgain(e)
      PROVE  client'[c] = client[c] /\ receipt'[c] = receipt[c]
  BY <1>0, <1>2 DEF UserCatches, OpenAgain
<1>3. QED
  BY <1>1, <1>2 DEF McpNext, LoseSession, mcpVars

LEMMA FetchInvariant == McpInit /\ [][McpNext]_mcpVars => []FetchInv
<1>1. McpInit => FetchInv
  <2> SUFFICES ASSUME McpInit, NEW c \in Handlers
               PROVE  FetchSound(client[c], receipt[c])
    BY DEF FetchInv
  <2>1. client[c] = Made /\ receipt[c] = "pending"
    BY DEF McpInit, Owners
  <2>2. QED
    BY <2>1 DEF FetchSound, Made
<1>2. McpInv /\ FetchInv /\ [McpNext]_mcpVars => FetchInv'
  <2> SUFFICES ASSUME McpInv, FetchInv, [McpNext]_mcpVars, NEW c \in Handlers
               PROVE  FetchSound(client'[c], receipt'[c])
    BY Zenon DEF FetchInv
  <2>1. CASE Return(c)
    BY <2>1, FetchAdvances
  <2>2. CASE client'[c] = client[c] /\ receipt'[c] = receipt[c]
    BY <2>2 DEF FetchInv, FetchSound
  <2>3. QED
    BY <2>1, <2>2, FetchAlone
<1>3. QED
  BY <1>1, <1>2, McpInvariant, PTL

FetchKeeps(c) == []<>~ CanReturn(c) \/ []<><<Return(c)>>_mcpVars

LEMMA FetchFairKeeps ==
    ASSUME NEW c \in Handlers
    PROVE  []FetchOpen /\ FetchFair(c) => FetchKeeps(c)
<1>1. FetchOpen => (CanReturn(c) => ENABLED <<Return(c)>>_mcpVars)
  BY DEF FetchOpen
<1>2. QED
  BY <1>1, PTL DEF FetchFair, FetchKeeps

\* Each step of the handler brings its fetch nearer to its end, and no step of
\* anybody takes it back.
LEMMA FetchNearer ==
    ASSUME NEW c \in Handlers, NEW n \in Nat, NEW m \in Nat, n = m + 1
    PROVE  []McpInv /\ []FetchInv /\ [][McpNext]_mcpVars /\ FetchKeeps(c)
             => (FetchNear(c, n) ~> FetchNear(c, m))
<1>1. McpInv /\ FetchInv /\ FetchNear(c, n) /\ [McpNext]_mcpVars => FetchNear(c, n)'
  BY FetchAdvances, FetchAlone, FetchLeftNat DEF FetchNear
<1>2. McpInv /\ FetchInv /\ FetchNear(c, n) /\ <<Return(c)>>_mcpVars
        => FetchNear(c, m)'
  BY FetchAdvances, FetchLeftNat DEF FetchNear
<1>3. McpInv /\ FetchInv /\ FetchNear(c, n) /\ ~ FetchNear(c, m) => CanReturn(c)
  <2> SUFFICES ASSUME McpInv, FetchInv, ~ CanReturn(c) PROVE FetchNear(c, m)
    OBVIOUS
  <2>1. FetchLeft(client[c], receipt[c]) = 0
    BY DEF CanReturn, At, FetchLeft
  <2>2. QED
    BY <2>1 DEF FetchNear
<1>4. QED
  BY <1>1, <1>2, <1>3, PTL DEF FetchKeeps

LEMMA FetchEnds ==
    ASSUME NEW c \in Handlers
    PROVE  []McpInv /\ []FetchInv /\ [][McpNext]_mcpVars /\ FetchKeeps(c)
             => <>[]FetchNear(c, 0)
<1> DEFINE Goes(n, m) ==
      []McpInv /\ []FetchInv /\ [][McpNext]_mcpVars /\ FetchKeeps(c)
        => (FetchNear(c, n) ~> FetchNear(c, m))
<1>1. \A n, m \in Nat : n = m + 1 => Goes(n, m)
  BY FetchNearer
<1>2. /\ Goes(7, 6) /\ Goes(6, 5) /\ Goes(5, 4) /\ Goes(4, 3)
      /\ Goes(3, 2) /\ Goes(2, 1) /\ Goes(1, 0)
  <2> HIDE DEF Goes
  <2>1. QED
    BY <1>1
<1>3. FetchNear(c, 7)
  BY FetchLeftNat DEF FetchNear
<1>4. McpInv /\ FetchInv /\ FetchNear(c, 0) /\ [McpNext]_mcpVars => FetchNear(c, 0)'
  BY FetchAdvances, FetchAlone, FetchLeftNat DEF FetchNear
<1>5. QED
  BY <1>2, <1>3, <1>4, PTL

\* Each fetch of a handler ends for good, with a receipt or without, and leaves
\* its connection open only if open itself raised, whatever the Foundation's
\* server, the other clients and lost answers do, if its steps wait for their
\* guards only.
THEOREM EveryFetchEndsCorrect == FairMcpSpec /\ []FetchOpen => EveryFetchEnds
<1>1. ASSUME NEW c \in Handlers
      PROVE  FairMcpSpec /\ []FetchOpen =>
               <>[](/\ receipt[c] # "pending" /\ At(c) \in {"rest", "gone"}
                    /\ client[c].http => client[c].failed)
  <2>1. McpInv /\ FetchInv /\ FetchNear(c, 0) =>
          /\ receipt[c] # "pending" /\ At(c) \in {"rest", "gone"}
          /\ client[c].http => client[c].failed
    <3> SUFFICES ASSUME McpInv, FetchInv, FetchNear(c, 0)
                 PROVE  /\ receipt[c] # "pending" /\ At(c) \in {"rest", "gone"}
                        /\ client[c].http => client[c].failed
      OBVIOUS
    <3>1. client[c] \in ClientDocs /\ FetchSound(client[c], receipt[c])
      BY DEF McpInv, ClientSound, FetchInv, Owners
    <3>2. FetchLeft(client[c], receipt[c]) = 0
      BY FetchLeftNat DEF FetchNear
    <3>3. \/ client[c].at = "gone"
          \/ client[c].at = "rest" /\ ~ client[c].http /\ receipt[c] # "pending"
      BY <3>1, <3>2 DEF FetchLeft, ClientDocs
    <3>4. QED
      BY <3>1, <3>3 DEF FetchSound, At
  <2>2. McpFairness => FetchFair(c)
    BY DEF McpFairness
  <2>3. []FetchOpen /\ FetchFair(c) => FetchKeeps(c)
    BY FetchFairKeeps
  <2>4. []McpInv /\ []FetchInv /\ [][McpNext]_mcpVars /\ FetchKeeps(c)
          => <>[]FetchNear(c, 0)
    BY FetchEnds
  <2>5. QED
    BY <2>1, <2>2, <2>3, <2>4, McpInvariant, FetchInvariant, PTL DEF FairMcpSpec
<1>2. QED
  BY <1>1 DEF EveryFetchEnds

(******************************************************************************)
(* LlmReplay.                                                                 *)
(******************************************************************************)

Recordings == [request : Requests, ok : BOOLEAN, blocks : 1..2]
Frames == [at : {"rest", "put", "write"}, answer : Nat, pos : 0..2]
Answer == 1..Len(given)
Blocks == Nat \X Nat

\* The first n blocks of an answer.
Prefix(a, n) == [i \in 1..n |-> <<a, i>>]

RecordTyped ==
    /\ given \in Seq(Recordings) /\ Len(given) <= MaxAnswers
    /\ fails \in 0..MaxFails
    /\ recorder \in [Recorders -> Frames]
    /\ last \in [Requests -> 0..Len(given)] /\ suspect \subseteq Requests

FileTyped == /\ file \in [Requests -> Seq(Blocks)]
             /\ \A r \in Requests : Len(file[r]) \in 0..2

\* A process that records has an answer, and is within it.
RecorderInv ==
    \A c \in Recorders :
        LET k == recorder[c] IN
        /\ k.at = "rest" => k = Idle
        /\ k.at # "rest" => k.answer \in Answer /\ k.pos <= given[k.answer].blocks
        /\ k.at = "put" => k.pos = 0

\* Each block in a file is of an answer to the file's request, or a gap.
BlockInv ==
    \A r \in Requests : \A i \in 1..Len(file[r]) :
        LET a == file[r][i][1] IN a # None => a \in Answer /\ given[a].request = r

\* Without an overlap or a failure since, a file holds what its one writer has
\* written, or what was last recorded.
CleanInv ==
    \A r \in Requests \ suspect :
        /\ \A c \in Writing(r) : /\ Writing(r) = {c}
                                 /\ file[r] = Prefix(recorder[c].answer, recorder[c].pos)
        /\ Writing(r) = {} =>
             file[r] = IF last[r] = None THEN NoFile
                       ELSE Prefix(last[r], given[last[r]].blocks)

ReplayInv == RecordTyped /\ FileTyped /\ RecorderInv /\ BlockInv /\ CleanInv

LEMMA KeysAreRequests == Keys = Requests /\ \A r : KeyFor(r) = r
BY DEF Keys, KeyFor

LEMMA AnswersKnown ==
    ASSUME RecordTyped, FileTyped
    PROVE  /\ Len(given) \in Nat
           /\ \A a \in Answer : given[a] \in Recordings /\ given[a].blocks \in 1..2
           /\ \A r \in Requests : /\ file[r] \in Seq(Blocks)
                                   /\ Len(file[r]) \in 0..2
<1>1. Len(given) \in Nat /\ \A a \in Answer : given[a] \in Recordings
  BY DEF RecordTyped, Answer
<1>2. \A x \in Recordings : x.blocks \in 1..2
  BY DEF Recordings
<1>3. \A r \in Requests : file[r] \in Seq(Blocks) /\ Len(file[r]) \in 0..2
  BY DEF FileTyped
<1>4. QED
  BY <1>1, <1>2, <1>3

LEMMA ReplayInvType == ReplayInv => ReplayTypeOK
<1> SUFFICES ASSUME ReplayInv PROVE ReplayTypeOK
  OBVIOUS
<1>1. \A k \in Keys : Len(file[k]) \in 0..2
  BY KeysAreRequests, AnswersKnown DEF ReplayInv
<1>2. Len(given) \in Nat
  BY AnswersKnown DEF ReplayInv
<1>3. \A c \in Recorders :
        /\ recorder[c] \in [at : {"rest", "put", "write"}, answer : 0..Len(given), pos : 0..2]
        /\ recorder[c].answer # None => recorder[c].pos <= given[recorder[c].answer].blocks
  <2> SUFFICES ASSUME NEW c \in Recorders
               PROVE  /\ recorder[c] \in [at : {"rest", "put", "write"},
                                         answer : 0..Len(given), pos : 0..2]
                      /\ recorder[c].answer # None =>
                           recorder[c].pos <= given[recorder[c].answer].blocks
    OBVIOUS
  <2>1. recorder[c] \in Frames
    BY DEF ReplayInv, RecordTyped
  <2>2. CASE recorder[c].at = "rest"
    BY <1>2, <2>2 DEF ReplayInv, RecorderInv, Idle, None
  <2>3. CASE recorder[c].at # "rest"
    <3>1. recorder[c].answer \in 1..Len(given)
          /\ recorder[c].pos <= given[recorder[c].answer].blocks
      BY <2>3 DEF ReplayInv, RecorderInv, Answer
    <3>2. recorder[c].answer \in 0..Len(given)
      BY <1>2, <3>1
    <3>3. QED
      BY <2>1, <3>1, <3>2 DEF Frames
  <2>4. QED
    BY <2>2, <2>3
<1>4. recorder \in [Recorders -> [at : {"rest", "put", "write"},
                                  answer : 0..Len(given), pos : 0..2]]
  BY <1>3 DEF ReplayInv, RecordTyped
<1>5. QED
  BY <1>1, <1>3, <1>4 DEF ReplayInv, RecordTyped, ReplayTypeOK, Recordings

\* A file that holds a whole answer replays that answer.
LEMMA WholeReplays ==
    ASSUME ReplayInv, NEW r \in Requests, NEW a \in Answer,
           file[r] = Prefix(a, given[a].blocks)
    PROVE  Documents(r) = {a} /\ file[r] # NoFile
<1>1. /\ Len(given) \in Nat /\ given[a].blocks \in 1..2
      /\ \A b \in Answer : given[b].blocks \in 1..2
  BY AnswersKnown DEF ReplayInv
<1>2. file[r][1] = <<a, 1>>
  BY <1>1 DEF Prefix
<1>3. \A b \in Answer : file[r] = [i \in 1..given[b].blocks |-> <<b, i>>] => b = a
  BY <1>1, <1>2
<1>4. Documents(r) = {a}
  BY <1>3 DEF Documents, Prefix, Answer
<1>5. NoFile[1] = <<0, 0>>
  BY DEF NoFile, None
<1>6. QED
  BY <1>2, <1>4, <1>5

LEMMA ReplayInvFaithful == ReplayInv => ReplayFaithful
<1> SUFFICES ASSUME ReplayInv, NEW r \in Requests
             PROVE  /\ Replayed(r)[2] # None => given[Replayed(r)[2]].request = r
                    /\ (Writing(r) = {} /\ r \notin suspect)
                          => Replayed(r) = IF last[r] = None THEN <<"CacheMiss", None>>
                                           ELSE Validated(last[r])
  BY DEF ReplayFaithful
<1>0. Len(given) \in Nat /\ \A b \in Answer : given[b].blocks \in 1..2
  BY AnswersKnown DEF ReplayInv
<1>1. ASSUME Replayed(r)[2] # None
      PROVE  given[Replayed(r)[2]].request = r
  <2> DEFINE a == CHOOSE a \in Documents(r) : TRUE
  <2>1. file[r] # NoFile /\ Documents(r) # {}
    BY <1>1, KeysAreRequests DEF Replayed
  <2>2. a \in Documents(r)
    BY <2>1
  <2>3. Replayed(r) = Validated(a)
    BY <2>1 DEF Replayed, KeyFor
  <2> HIDE DEF a
  <2>4. Replayed(r)[2] = a
    BY <2>3 DEF Validated
  <2>5. a \in Answer /\ file[r] = [i \in 1..given[a].blocks |-> <<a, i>>]
    BY <2>2 DEF Documents, Answer
  <2>6. file[r][1] = <<a, 1>> /\ 1 \in 1..Len(file[r])
    BY <1>0, <2>5
  <2>7. QED
    <3>1. file[r][1][1] = a /\ a # None
      BY <1>0, <2>5, <2>6 DEF Answer, None
    <3>2. QED
      BY <2>4, <2>6, <3>1 DEF ReplayInv, BlockInv
<1>2. ASSUME Writing(r) = {}, r \notin suspect
      PROVE  Replayed(r) = IF last[r] = None THEN <<"CacheMiss", None>>
                           ELSE Validated(last[r])
  <2>1. CASE last[r] = None
    <3>1. file[r] = NoFile
      BY <1>2, <2>1 DEF ReplayInv, CleanInv
    <3>2. QED
      BY <2>1, <3>1, KeysAreRequests DEF Replayed
  <2>2. CASE last[r] # None
    <3>1. last[r] \in Answer
      BY <1>0, <2>2 DEF ReplayInv, RecordTyped, Answer, None
    <3>2. file[r] = Prefix(last[r], given[last[r]].blocks)
      BY <1>2, <2>2 DEF ReplayInv, CleanInv
    <3>3. Documents(r) = {last[r]} /\ file[r] # NoFile
      BY <3>1, <3>2, WholeReplays
    <3>4. (CHOOSE a \in Documents(r) : TRUE) = last[r]
      BY <3>3
    <3>5. QED
      BY <2>2, <3>3, <3>4, KeysAreRequests DEF Replayed
  <2>3. QED
    BY <2>1, <2>2
<1>3. QED
  BY <1>1, <1>2

LEMMA InitReplay == ReplayInit => ReplayInv
<1> SUFFICES ASSUME ReplayInit PROVE ReplayInv
  OBVIOUS
<1>1. given = <<>> /\ Len(given) = 0
  BY DEF ReplayInit
<1>2. RecordTyped
  BY <1>1, ReplayAssumption DEF ReplayInit, RecordTyped, Frames, Idle, None
<1>3. file \in [Requests -> Seq(Blocks)] /\ \A r \in Requests : file[r] = NoFile
  BY KeysAreRequests DEF ReplayInit, NoFile, None, Blocks
<1>4. Len(NoFile) = 1
  <2>1. \A b : Len(<<b>>) = 1
    OBVIOUS
  <2>2. QED
    BY <2>1 DEF NoFile
<1>5. FileTyped
  <2>1. \A r \in Requests : Len(file[r]) = 1
    BY <1>3, <1>4
  <2>2. 1 \in 0..2
    OBVIOUS
  <2>3. QED
    BY <1>3, <2>1, <2>2, Zenon DEF FileTyped
<1>6. RecorderInv
  BY DEF ReplayInit, RecorderInv, Idle
<1>7. BlockInv
  BY <1>3, <1>4 DEF BlockInv, NoFile
<1>8. CleanInv
  <2>1. \A r : Writing(r) = {}
    BY DEF Writing, ReplayInit, Idle
  <2>2. QED
    BY <1>3, <2>1 DEF CleanInv, ReplayInit
<1>9. QED
  BY <1>2, <1>5, <1>6, <1>7, <1>8 DEF ReplayInv

\* One process moves.
LEMMA OneRecorder ==
    ASSUME recorder \in [Recorders -> Frames], NEW c \in Recorders, NEW k \in Frames,
           recorder' = [recorder EXCEPT ![c] = k]
    PROVE  /\ recorder' \in [Recorders -> Frames]
           /\ recorder'[c] = k /\ \A d \in Recorders \ {c} : recorder'[d] = recorder[d]
OBVIOUS

\* The model answers: old answers keep their numbers.
LEMMA CallApiStep ==
    ASSUME ReplayInv, NEW c \in Recorders, CallApi(c)
    PROVE  ReplayInv'
<1>1. PICK x \in Recordings : given' = Append(given, x)
  BY DEF CallApi, Recordings
<1>2. UNCHANGED <<file, fails, last, suspect>> /\ recorder[c].at = "rest"
  BY DEF CallApi
<1>3. /\ Len(given) \in Nat /\ given' \in Seq(Recordings) /\ Len(given') = Len(given) + 1
      /\ Len(given') <= MaxAnswers
      /\ Answer \subseteq Answer' /\ \A a \in Answer : given'[a] = given[a]
      /\ Len(given') \in Answer' /\ given'[Len(given')] = x
      /\ Len(given') \notin Answer
  BY <1>1, ReplayAssumption DEF CallApi, ReplayInv, RecordTyped, Answer
<1> DEFINE k == [recorder[c] EXCEPT !.at = "put", !.answer = Len(given')]
<1>4. recorder' = [recorder EXCEPT ![c] = k]
  BY DEF CallApi, ReplayInv, RecordTyped
<1>6. k \in Frames /\ k.at = "put" /\ k.answer = Len(given') /\ k.pos = 0
  <2>1. recorder[c] \in Frames /\ recorder[c].pos = 0
    BY <1>2 DEF ReplayInv, RecordTyped, RecorderInv, Idle
  <2>2. Len(given') \in Nat
    BY <1>3
  <2>3. QED
    BY <2>1, <2>2 DEF Frames
<1> HIDE DEF k
<1>5. /\ recorder' \in [Recorders -> Frames] /\ recorder'[c] = k
      /\ \A d \in Recorders \ {c} : recorder'[d] = recorder[d]
  BY <1>4, <1>6, OneRecorder DEF ReplayInv, RecordTyped
<1>7. RecordTyped'
  BY <1>2, <1>3, <1>5 DEF ReplayInv, RecordTyped
<1>8. FileTyped'
  BY <1>2 DEF ReplayInv, FileTyped
<1>9. RecorderInv'
  <2> SUFFICES ASSUME NEW d \in Recorders
               PROVE  LET j == recorder'[d] IN
                      /\ j.at = "rest" => j = Idle
                      /\ j.at # "rest" => j.answer \in Answer'
                                          /\ j.pos <= given'[j.answer].blocks
                      /\ j.at = "put" => j.pos = 0
    BY DEF RecorderInv
  <2>1. CASE d = c
    BY <1>1, <1>3, <1>5, <1>6, <2>1 DEF Recordings
  <2>2. CASE d # c
    BY <1>3, <1>5, <2>2 DEF ReplayInv, RecorderInv
  <2>3. QED
    BY <2>1, <2>2
<1>10. BlockInv'
  <2> SUFFICES ASSUME NEW r \in Requests, NEW i \in 1..Len(file[r]),
                      NEW a, a = file[r][i][1], a # None
               PROVE  a \in Answer' /\ given'[a].request = r
    BY <1>2 DEF BlockInv
  <2>1. a \in Answer /\ given[a].request = r
    BY DEF ReplayInv, BlockInv
  <2>2. QED
    BY <1>3, <2>1
<1>11. CleanInv'
  <2>1. \A d \in Recorders : recorder[d].at = "write" =>
          /\ recorder'[d] = recorder[d] /\ recorder[d].answer \in Answer
          /\ RequestOf(d)' = RequestOf(d)
    BY <1>2, <1>3, <1>5 DEF ReplayInv, RecorderInv, RequestOf
  <2>2. \A d \in Recorders : recorder'[d].at = "write" => recorder[d].at = "write"
    BY <1>5, <1>6
  <2>3. \A r : Writing(r)' = Writing(r)
    BY <2>1, <2>2 DEF Writing
  <2>4. \A r \in Requests : last[r] # None => given'[last[r]] = given[last[r]]
    BY <1>3 DEF ReplayInv, RecordTyped, Answer, None
  <2>5. \A r : \A d \in Writing(r) : recorder'[d] = recorder[d]
    BY <2>1 DEF Writing
  <2>6. QED
    BY <1>2, <2>3, <2>4, <2>5 DEF ReplayInv, CleanInv
<1>12. QED
  BY <1>7, <1>8, <1>9, <1>10, <1>11 DEF ReplayInv

\* What a step of a recording leaves alone: other processes, other files.
LEMMA RecordingStep ==
    ASSUME ReplayInv, NEW c \in Recorders, recorder[c].at # "rest",
           UNCHANGED given, NEW r, r = RequestOf(c)
    PROVE  /\ r \in Requests /\ recorder[c].answer \in Answer
           /\ given[recorder[c].answer].request = r
           /\ given[recorder[c].answer].blocks \in 1..2
           /\ recorder[c] \in Frames /\ Len(given) \in Nat /\ Answer' = Answer
           /\ \A d \in Recorders : recorder'[d] = recorder[d] => RequestOf(d)' = RequestOf(d)
<1>1. recorder[c].answer \in Answer /\ recorder[c] \in Frames /\ Len(given) \in Nat
  BY AnswersKnown DEF ReplayInv, RecorderInv, RecordTyped
<1>2. given[recorder[c].answer] \in Recordings /\ given[recorder[c].answer].blocks \in 1..2
  BY <1>1, AnswersKnown DEF ReplayInv
<1>3. r = given[recorder[c].answer].request /\ r \in Requests
  BY <1>2 DEF RequestOf, Recordings
<1>4. QED
  BY <1>1, <1>2, <1>3 DEF RequestOf, Answer

\* The other requests keep their writers, their files and their cleanness.
LEMMA OthersClean ==
    ASSUME ReplayInv, NEW c \in Recorders, NEW r \in Requests, r = RequestOf(c),
           UNCHANGED given,
           \A d \in Recorders \ {c} : recorder'[d] = recorder[d],
           recorder[c].at # "rest",
           recorder'[c].at = "write" => RequestOf(c)' = r,
           \A q \in Requests \ {r} : /\ file'[q] = file[q] /\ last'[q] = last[q]
                                     /\ q \in suspect' <=> q \in suspect
    PROVE  \A q \in Requests \ {r} :
             q \notin suspect' =>
               /\ \A d \in Writing(q)' :
                    /\ Writing(q)' = {d}
                    /\ file'[q] = Prefix(recorder'[d].answer, recorder'[d].pos)
               /\ Writing(q)' = {} =>
                    file'[q] = IF last'[q] = None THEN NoFile
                               ELSE Prefix(last'[q], given'[last'[q]].blocks)
<1> SUFFICES ASSUME NEW q \in Requests \ {r}, q \notin suspect'
             PROVE  /\ \A d \in Writing(q)' :
                         /\ Writing(q)' = {d}
                         /\ file'[q] = Prefix(recorder'[d].answer, recorder'[d].pos)
                    /\ Writing(q)' = {} =>
                         file'[q] = IF last'[q] = None THEN NoFile
                                    ELSE Prefix(last'[q], given'[last'[q]].blocks)
  OBVIOUS
<1>1. c \notin Writing(q) /\ c \notin Writing(q)'
  BY DEF Writing
<1>2. \A d \in Recorders \ {c} : RequestOf(d)' = RequestOf(d)
  BY DEF RequestOf
<1>3. Writing(q)' = Writing(q) /\ \A d \in Writing(q) : recorder'[d] = recorder[d]
  BY <1>1, <1>2 DEF Writing
<1>4. QED
  BY <1>3 DEF ReplayInv, CleanInv

\* Opening the file empties it; a second writer makes the request suspect.
LEMMA OpenFileStep ==
    ASSUME ReplayInv, NEW c \in Recorders, OpenFile(c)
    PROVE  ReplayInv'
<1>0. PICK r \in Requests : r = RequestOf(c)
  BY RecordingStep DEF OpenFile
<1> DEFINE k == [recorder[c] EXCEPT !.at = "write"]
<1>1. /\ UNCHANGED <<given, fails, last>> /\ recorder[c].at = "put"
      /\ file' = [file EXCEPT ![r] = <<>>]
      /\ recorder' = [recorder EXCEPT ![c] = k]
      /\ suspect' = IF Writing(r) = {} THEN suspect \ {r} ELSE suspect \union {r}
  BY <1>0 DEF OpenFile, Truncated, KeyFor
<1>2. /\ r \in Requests /\ recorder[c].answer \in Answer
      /\ recorder[c] \in Frames /\ Answer' = Answer
      /\ given[recorder[c].answer].request = r
      /\ \A d \in Recorders : recorder'[d] = recorder[d] => RequestOf(d)' = RequestOf(d)
  BY <1>0, <1>1, RecordingStep
<1>3. /\ k \in Frames /\ k.at = "write" /\ k.answer = recorder[c].answer
      /\ k.pos = recorder[c].pos /\ recorder[c].pos = 0
  BY <1>1, <1>2 DEF Frames, ReplayInv, RecorderInv
<1> HIDE DEF k
<1>4. /\ recorder' \in [Recorders -> Frames] /\ recorder'[c] = k
      /\ \A d \in Recorders \ {c} : recorder'[d] = recorder[d]
  BY <1>1, <1>3, OneRecorder DEF ReplayInv, RecordTyped
<1>5. RequestOf(c)' = r
  BY <1>0, <1>1, <1>3, <1>4 DEF RequestOf
<1>6. RecordTyped'
  BY <1>1, <1>2, <1>4 DEF ReplayInv, RecordTyped
<1>7. /\ file' \in [Requests -> Seq(Blocks)] /\ file'[r] = <<>>
      /\ \A q \in Requests \ {r} : file'[q] = file[q]
  BY <1>1, <1>2 DEF ReplayInv, FileTyped
<1>8. Len(file'[r]) = 0
  BY <1>7
<1>9. FileTyped'
  <2>1. 0 \in 0..2
    OBVIOUS
  <2>2. \A q \in Requests : Len(file'[q]) \in 0..2
    BY <1>7, <1>8, <2>1, Zenon DEF ReplayInv, FileTyped
  <2>3. QED
    BY <1>7, <2>2 DEF FileTyped
<1>10. RecorderInv'
  BY <1>1, <1>2, <1>3, <1>4 DEF ReplayInv, RecorderInv
<1>11. BlockInv'
  BY <1>1, <1>2, <1>7, <1>8 DEF ReplayInv, BlockInv
<1>12. CleanInv'
  <2>1. ASSUME r \notin suspect'
        PROVE  Writing(r)' = {c} /\ file'[r] = Prefix(k.answer, k.pos)
    <3>1. Writing(r) = {}
      BY <1>1, <1>2, <2>1
    <3>2. \A d \in Recorders \ {c} : ~ (recorder[d].at = "write" /\ RequestOf(d) = r)
      BY <3>1 DEF Writing
    <3>3. Writing(r)' = {c}
      <4>1. \A d \in Recorders \ {c} : recorder'[d] = recorder[d]
                                        /\ RequestOf(d)' = RequestOf(d)
        BY <1>2, <1>4
      <4>2. recorder'[c].at = "write" /\ RequestOf(c)' = r
        BY <1>3, <1>4, <1>5
      <4>3. QED
        BY <3>2, <4>1, <4>2 DEF Writing
    <3>4. Prefix(k.answer, k.pos) = <<>>
      BY <1>3 DEF Prefix
    <3>5. QED
      BY <1>7, <3>3, <3>4
  <2>2. \A q \in Requests \ {r} : q \in suspect' <=> q \in suspect
    BY <1>1
  <2>3. QED
    <3>1. \A q \in Requests \ {r} :
             q \notin suspect' =>
               /\ \A d \in Writing(q)' :
                    /\ Writing(q)' = {d}
                    /\ file'[q] = Prefix(recorder'[d].answer, recorder'[d].pos)
               /\ Writing(q)' = {} =>
                    file'[q] = IF last'[q] = None THEN NoFile
                               ELSE Prefix(last'[q], given'[last'[q]].blocks)
      BY <1>1, <1>2, <1>4, <1>5, <1>7, <2>2, <1>0, OthersClean
    <3>2. QED
      BY <1>4, <2>1, <3>1 DEF CleanInv
<1>13. QED
  BY <1>6, <1>9, <1>10, <1>11, <1>12 DEF ReplayInv

\* A block is put in its place; what was there before it stays, or is a gap.
Overwrites(w, f, i, b) ==
    /\ w \in Seq(Blocks) /\ Len(w) \in 0..2
    /\ \A j \in 1..Len(w) :
         w[j] = IF j = i THEN b ELSE IF j \in 1..Len(f) THEN f[j] ELSE <<None, j>>

LEMMA WrittenBlocks ==
    ASSUME NEW f \in Seq(Blocks), Len(f) \in 0..2, NEW i \in 1..2, NEW b \in Blocks
    PROVE  Overwrites(Written(f, i, b), f, i, b)
<1> DEFINE n == IF Len(f) < i THEN i ELSE Len(f)
           g(j) == IF j = i THEN b ELSE IF j \in DOMAIN f THEN f[j] ELSE <<None, j>>
<1>1. n \in 0..2 /\ n \in Nat
  OBVIOUS
<1>2. DOMAIN f = 1..Len(f)
  OBVIOUS
<1>3. \A j \in 1..n : g(j) \in Blocks
  <2>1. \A j \in 1..n : <<None, j>> \in Blocks
    BY <1>1 DEF None, Blocks
  <2>2. \A j \in DOMAIN f : f[j] \in Blocks
    BY <1>2
  <2>3. QED
    BY <2>1, <2>2
<1> DEFINE w == Written(f, i, b)
<1>4. w = [j \in 1..n |-> g(j)]
  BY DEF Written
<1> HIDE DEF n, g, w
<1>5. w \in Seq(Blocks) /\ Len(w) = n /\ \A j \in 1..n : w[j] = g(j)
  BY <1>1, <1>3, <1>4
<1>6. QED
  BY <1>1, <1>2, <1>5 DEF g, w, Overwrites

LEMMA PrefixWritten ==
    ASSUME NEW a \in Nat, NEW p \in 0..1
    PROVE  Written(Prefix(a, p), p + 1, <<a, p + 1>>) = Prefix(a, p + 1)
<1>1. Len(Prefix(a, p)) = p /\ DOMAIN Prefix(a, p) = 1..p
  BY DEF Prefix
<1>2. (IF Len(Prefix(a, p)) < p + 1 THEN p + 1 ELSE Len(Prefix(a, p))) = p + 1
  BY <1>1
<1>3. \A j \in 1..(p + 1) :
        (IF j = p + 1 THEN <<a, p + 1>>
         ELSE IF j \in DOMAIN Prefix(a, p) THEN Prefix(a, p)[j] ELSE <<None, j>>) = <<a, j>>
  <2>1. \A j \in 1..(p + 1) : j # p + 1 => j \in 1..p /\ Prefix(a, p)[j] = <<a, j>>
    BY DEF Prefix
  <2>2. QED
    BY <1>1, <2>1
<1>4. QED
  BY <1>2, <1>3 DEF Written, Prefix

\* A block goes to its writer's offset, whatever other writers have done.
LEMMA WriteBlockStep ==
    ASSUME ReplayInv, NEW c \in Recorders, WriteBlock(c)
    PROVE  ReplayInv'
<1>0. PICK r \in Requests : r = RequestOf(c)
  BY RecordingStep DEF WriteBlock
<1>1. PICK a, p : a = recorder[c].answer /\ p = recorder[c].pos
  OBVIOUS
<1> DEFINE k == [recorder[c] EXCEPT !.pos = p + 1]
<1>2. /\ UNCHANGED <<given, fails, last, suspect>> /\ recorder[c].at = "write"
      /\ p + 1 <= given[a].blocks
      /\ file' = [file EXCEPT ![r] = Written(file[r], p + 1, <<a, p + 1>>)]
      /\ recorder' = [recorder EXCEPT ![c] = k]
  BY <1>0, <1>1, KeysAreRequests DEF WriteBlock, KeyFor, ReplayInv, FileTyped, RecordTyped
<1>3. /\ a \in Answer /\ given[a].request = r /\ given[a].blocks \in 1..2
      /\ recorder[c] \in Frames /\ Len(given) \in Nat /\ Answer' = Answer
      /\ \A d \in Recorders : recorder'[d] = recorder[d] => RequestOf(d)' = RequestOf(d)
  BY <1>0, <1>1, <1>2, RecordingStep
<1>4. p \in 0..1 /\ p + 1 \in 1..2 /\ a \in Nat /\ <<a, p + 1>> \in Blocks
  <2>1. p \in 0..2 /\ a \in Nat
    BY <1>1, <1>3 DEF Frames
  <2>2. QED
    BY <1>2, <1>3, <2>1 DEF Blocks
<1>5. k \in Frames /\ k.at = "write" /\ k.answer = a /\ k.pos = p + 1
  BY <1>1, <1>2, <1>3, <1>4 DEF Frames
<1> HIDE DEF k
<1>6. /\ recorder' \in [Recorders -> Frames] /\ recorder'[c] = k
      /\ \A d \in Recorders \ {c} : recorder'[d] = recorder[d]
  BY <1>2, <1>5, OneRecorder DEF ReplayInv, RecordTyped
<1>7. RequestOf(c)' = r
  BY <1>0, <1>1, <1>2, <1>5, <1>6 DEF RequestOf
<1>8. RecordTyped'
  BY <1>2, <1>3, <1>6 DEF ReplayInv, RecordTyped
<1> DEFINE f == Written(file[r], p + 1, <<a, p + 1>>)
<1>9. /\ f \in Seq(Blocks) /\ Len(f) \in 0..2
      /\ Overwrites(f, file[r], p + 1, <<a, p + 1>>)
  <2>1. file[r] \in Seq(Blocks) /\ Len(file[r]) \in 0..2
    BY AnswersKnown DEF ReplayInv
  <2>2. Overwrites(f, file[r], p + 1, <<a, p + 1>>)
    BY <1>4, <2>1, WrittenBlocks
  <2> HIDE DEF f
  <2>3. QED
    BY <2>2 DEF Overwrites
<1> HIDE DEF f
<1>10. /\ file' \in [Requests -> Seq(Blocks)] /\ file'[r] = f
       /\ \A q \in Requests \ {r} : file'[q] = file[q]
  BY <1>2, <1>9 DEF ReplayInv, FileTyped, f
<1>11. FileTyped'
  <2>1. \A q \in Requests : Len(file'[q]) \in 0..2
    BY <1>9, <1>10, Zenon DEF ReplayInv, FileTyped
  <2>2. QED
    BY <1>10, <2>1 DEF FileTyped
<1>12. RecorderInv'
  BY <1>2, <1>3, <1>5, <1>6 DEF ReplayInv, RecorderInv
<1>13. BlockInv'
  <2>1. ASSUME NEW j \in 1..Len(f), f[j][1] # None
        PROVE  f[j][1] \in Answer /\ given[f[j][1]].request = r
    <3>0. f[j] = IF j = p + 1 THEN <<a, p + 1>>
                 ELSE IF j \in 1..Len(file[r]) THEN file[r][j] ELSE <<None, j>>
      BY <1>9, Zenon DEF Overwrites
    <3>1. CASE j = p + 1
      BY <1>3, <3>0, <3>1
    <3>2. CASE j # p + 1 /\ j \in 1..Len(file[r])
      <4>1. f[j] = file[r][j]
        BY <3>0, <3>2
      <4>2. QED
        BY <2>1, <3>2, <4>1 DEF ReplayInv, BlockInv
    <3>3. CASE j # p + 1 /\ j \notin 1..Len(file[r])
      <4>1. f[j] = <<None, j>>
        BY <3>0, <3>3
      <4>2. QED
        BY <2>1, <4>1
    <3>4. QED
      BY <3>1, <3>2, <3>3
  <2>2. QED
    BY <1>2, <1>3, <1>10, <2>1 DEF ReplayInv, BlockInv
<1>14. CleanInv'
  <2>1. ASSUME r \notin suspect'
        PROVE  Writing(r)' = {c} /\ file'[r] = Prefix(a, p + 1)
    <3>1. c \in Writing(r)
      BY <1>0, <1>2 DEF Writing
    <3>2. Writing(r) = {c} /\ file[r] = Prefix(a, p)
      BY <1>1, <1>2, <2>1, <3>1 DEF ReplayInv, CleanInv
    <3>3. \A d \in Recorders \ {c} : ~ (recorder[d].at = "write" /\ RequestOf(d) = r)
      BY <3>2 DEF Writing
    <3>4. \A d \in Recorders \ {c} : recorder'[d] = recorder[d]
                                      /\ RequestOf(d)' = RequestOf(d)
      BY <1>3, <1>6
    <3>5. Writing(r)' = {c}
      BY <1>5, <1>6, <1>7, <3>3, <3>4 DEF Writing
    <3>6. QED
      BY <1>4, <1>10, <3>2, <3>5, PrefixWritten DEF f
  <2>2. QED
    <3>1. \A q \in Requests \ {r} :
             q \notin suspect' =>
               /\ \A d \in Writing(q)' :
                    /\ Writing(q)' = {d}
                    /\ file'[q] = Prefix(recorder'[d].answer, recorder'[d].pos)
               /\ Writing(q)' = {} =>
                    file'[q] = IF last'[q] = None THEN NoFile
                               ELSE Prefix(last'[q], given'[last'[q]].blocks)
      BY <1>0, <1>2, <1>6, <1>7, <1>10, OthersClean
    <3>2. QED
      BY <1>5, <1>6, <2>1, <3>1 DEF CleanInv
<1>15. QED
  BY <1>8, <1>11, <1>12, <1>13, <1>14 DEF ReplayInv

\* A recording that ends whole is the last one; one that fails is suspect.
LEMMA EndStep ==
    ASSUME ReplayInv, NEW c \in Recorders, CloseFile(c) \/ WriteFails(c)
    PROVE  ReplayInv'
<1>0. PICK r \in Requests : r = RequestOf(c)
  BY RecordingStep DEF CloseFile, WriteFails
<1>1. PICK a : a = recorder[c].answer
  OBVIOUS
<1>2. /\ UNCHANGED <<given, file>> /\ recorder[c].at = "write"
      /\ recorder' = [recorder EXCEPT ![c] = Idle]
      /\ \/ /\ last' = [last EXCEPT ![r] = a] /\ UNCHANGED <<fails, suspect>>
            /\ recorder[c].pos = given[a].blocks
         \/ UNCHANGED last /\ suspect' = suspect \union {r} /\ fails' \in 0..MaxFails
  <2>1. CASE CloseFile(c)
    BY <1>0, <1>1, <2>1 DEF CloseFile
  <2>2. CASE WriteFails(c)
    BY <1>0, <2>2, ReplayAssumption DEF WriteFails, ReplayInv, RecordTyped
  <2>3. QED
    BY <2>1, <2>2
<1>3. /\ a \in Answer /\ given[a].request = r /\ given[a].blocks \in 1..2
      /\ recorder[c] \in Frames /\ Len(given) \in Nat /\ Answer' = Answer
      /\ \A d \in Recorders : recorder'[d] = recorder[d] => RequestOf(d)' = RequestOf(d)
  BY <1>0, <1>1, <1>2, RecordingStep
<1>4. Idle \in Frames /\ Idle.at = "rest"
  BY DEF Idle, Frames, None
<1>5. /\ recorder' \in [Recorders -> Frames] /\ recorder'[c] = Idle
      /\ \A d \in Recorders \ {c} : recorder'[d] = recorder[d]
  BY <1>2, <1>4, OneRecorder DEF ReplayInv, RecordTyped
<1>6. RecordTyped'
  <2>1. a \in 0..Len(given)
    BY <1>3 DEF Answer
  <2>2. QED
    BY <1>2, <1>5, <2>1 DEF ReplayInv, RecordTyped
<1>7. FileTyped' /\ BlockInv'
  BY <1>2, <1>3 DEF ReplayInv, FileTyped, BlockInv
<1>8. RecorderInv'
  BY <1>2, <1>3, <1>4, <1>5 DEF ReplayInv, RecorderInv
<1>9. CleanInv'
  <2>1. ASSUME r \notin suspect'
        PROVE  Writing(r)' = {} /\ last'[r] = a /\ a # None
               /\ file'[r] = Prefix(a, given'[a].blocks)
    <3>1. r \notin suspect /\ last' = [last EXCEPT ![r] = a]
          /\ recorder[c].pos = given[a].blocks
      BY <1>2, <2>1
    <3>2. c \in Writing(r)
      BY <1>0, <1>2 DEF Writing
    <3>3. Writing(r) = {c} /\ file[r] = Prefix(a, given[a].blocks)
      BY <1>1, <3>1, <3>2 DEF ReplayInv, CleanInv
    <3>4. \A d \in Recorders \ {c} : ~ (recorder[d].at = "write" /\ RequestOf(d) = r)
      BY <3>3 DEF Writing
    <3>5. \A d \in Recorders \ {c} : recorder'[d] = recorder[d]
                                      /\ RequestOf(d)' = RequestOf(d)
      BY <1>3, <1>5
    <3>6. Writing(r)' = {}
      BY <1>4, <1>5, <3>4, <3>5 DEF Writing
    <3>7. last'[r] = a /\ a # None
      BY <1>3, <3>1 DEF ReplayInv, RecordTyped, Answer, None
    <3>8. QED
      BY <1>2, <3>3, <3>6, <3>7
  <2>2. QED
    <3>1. \A q \in Requests \ {r} : last'[q] = last[q] /\ (q \in suspect' <=> q \in suspect)
      BY <1>2 DEF ReplayInv, RecordTyped
    <3>2. \A q \in Requests \ {r} :
             q \notin suspect' =>
               /\ \A d \in Writing(q)' :
                    /\ Writing(q)' = {d}
                    /\ file'[q] = Prefix(recorder'[d].answer, recorder'[d].pos)
               /\ Writing(q)' = {} =>
                    file'[q] = IF last'[q] = None THEN NoFile
                               ELSE Prefix(last'[q], given'[last'[q]].blocks)
      BY <1>0, <1>2, <1>4, <1>5, <3>1, OthersClean
    <3>3. QED
      BY <2>1, <3>2 DEF CleanInv
<1>10. QED
  BY <1>6, <1>7, <1>8, <1>9 DEF ReplayInv

LEMMA ReplayStep == ReplayInv /\ [ReplayNext]_replayVars => ReplayInv'
<1> SUFFICES ASSUME ReplayInv, [ReplayNext]_replayVars PROVE ReplayInv'
  OBVIOUS
<1>1. CASE UNCHANGED replayVars
  BY <1>1 DEF replayVars, ReplayInv, RecordTyped, FileTyped, RecorderInv, BlockInv,
    CleanInv, Answer, Writing, RequestOf
<1>2. CASE ReplayNext
  BY <1>2, CallApiStep, OpenFileStep, WriteBlockStep, EndStep DEF ReplayNext
<1>3. QED
  BY <1>1, <1>2

LEMMA ReplayInvariant == ReplaySpec => []ReplayInv
BY InitReplay, ReplayStep, PTL DEF ReplaySpec

\* Every variable of LlmReplay has its type; no process writes past the end of
\* its answer, and no file is longer than an answer may be.
THEOREM ReplayTypeCorrect == ReplaySpec => []ReplayTypeOK
BY ReplayInvariant, ReplayInvType, PTL

\* Whatever is replayed was said by the model in answer to this request; and a
\* request whose recordings did not overlap, and have not failed since, replays
\* its last one, with the same value or the same ValidationError.
THEOREM ReplayFaithfulCorrect == ReplaySpec => []ReplayFaithful
BY ReplayInvariant, ReplayInvFaithful, PTL
===============================================================================
