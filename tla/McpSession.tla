----------------------------- MODULE McpSession -----------------------------
(* UORMCPClient, the session with the UOR Foundation's MCP server, and the    *)
(* handler that uses it to enrich a quote or a settlement with a signed       *)
(* receipt (_maybe_fetch_uor_mcps_receipt).                                   *)
(*                                                                            *)
(* A client is an HTTP connection and a session id, both absent at first.     *)
(* Handlers make a new client for each fetch and enter it with "with"; other  *)
(* users keep one and call open, its tools and close in an order of their     *)
(* own. Every post may raise (connection, timeout).                           *)
EXTENDS Integers, Sequences

CONSTANTS Handlers,     \* calls of the server that fetch a receipt
          Users,        \* code that holds a client of its own
          MaxSessions   \* bound: sessions that the Foundation's server opens

ASSUME McpAssumption == /\ Handlers \intersect Users = {}
                        /\ MaxSessions \in Nat

VARIABLES
    sessions,  \* sessions opened so far; their ids are 1 .. sessions
    ready,     \* sessions whose client has confirmed the initialisation
    lost,      \* sessions that the Foundation's server has forgotten
    client,    \* per owner: its UORMCPClient, and where it is in which method
    receipt    \* per handler: what the fetch returned

mcpVars == <<sessions, ready, lost, client, receipt>>

Owners == Handlers \union Users
NoSession == 0
Made == [http |-> FALSE, session |-> NoSession, at |-> "rest",
         entered |-> FALSE, failed |-> FALSE]
At(c) == client[c].at
Fetching(c) == IF c \in Users THEN TRUE ELSE receipt[c] = "pending"

McpInit ==
    /\ sessions = 0 /\ ready = {} /\ lost = {}
    /\ client = [c \in Owners |-> Made]
    /\ receipt = [c \in Handlers |-> "pending"]

Raise(c) == client' = [client EXCEPT ![c].at = "raised",
                         ![c].failed = @ \/ client[c].at \in {"initialize", "confirm"}]

\* open: a client that has its connection is taken to be open.
OpenAgain(c) ==
    /\ At(c) = "rest" /\ client[c].http /\ c \in Users
    /\ client' = [client EXCEPT ![c].entered = TRUE]
    /\ UNCHANGED <<sessions, ready, lost, receipt>>

\* open: otherwise the connection is made, and "initialize" posted.
OpenClient(c) ==
    /\ At(c) = "rest" /\ ~ client[c].http /\ Fetching(c)
    /\ client' = [client EXCEPT ![c].http = TRUE, ![c].at = "initialize"]
    /\ UNCHANGED <<sessions, ready, lost, receipt>>

\* A mutant: an answer without a session id is as good as another.
MissingIdAccepted(c) == client' = [client EXCEPT ![c].at = "confirm"]

\* Without an mcp-session-id in the answer, open raises.
MissingId(c) == Raise(c)

\* The answer to "initialize" names the session.
Initialize(c) ==
    /\ At(c) = "initialize"
    /\ \/ /\ sessions < MaxSessions
          /\ sessions' = sessions + 1
          /\ client' = [client EXCEPT ![c].at = "confirm", ![c].session = sessions']
       \/ MissingId(c) /\ UNCHANGED sessions
    /\ UNCHANGED <<ready, lost, receipt>>

\* "notifications/initialized"; its answer is not looked at.
Confirm(c) ==
    /\ At(c) = "confirm"
    /\ ready' = ready \union ({client[c].session} \ {NoSession})
    /\ client' = [client EXCEPT ![c].at = "rest", ![c].entered = TRUE]
    /\ UNCHANGED <<sessions, lost, receipt>>

\* A post raises: the server has not seen it, or its answer is lost.
PostRaises(c) ==
    /\ At(c) \in {"initialize", "confirm", "call"}
    /\ Raise(c)
    /\ \/ UNCHANGED <<sessions, ready>>
       \/ /\ At(c) = "initialize" /\ sessions < MaxSessions
          /\ sessions' = sessions + 1 /\ UNCHANGED ready
       \/ /\ At(c) = "confirm"
          /\ ready' = ready \union ({client[c].session} \ {NoSession})
          /\ UNCHANGED sessions
    /\ UNCHANGED <<lost, receipt>>

\* encode_address, verify_passport, verify_receipt: one post, with the session
\* id if there is one. A handler makes one call, inside its "with" block; a user
\* may call at any time, and without a connection is refused at once.
CallTool(c) ==
    /\ At(c) = "rest" /\ client[c].http /\ Fetching(c)
    /\ client' = [client EXCEPT ![c].at = "call"]
    /\ UNCHANGED <<sessions, ready, lost, receipt>>

\* What is in the event stream of an answer: lines with or without data.
Results == {"signed", "unsigned"}
Messages == {"notification", "error"} \union Results
Line == {"no json"} \union Messages
Body == UNION {[1..n -> Line] : n \in 0..2}

\* _parse_sse_response: the first line whose data is JSON, if there is one.
FirstMessage(b) ==
    LET json == {i \in DOMAIN b : b[i] \in Messages}
    IN IF json = {} THEN "no json" ELSE b[CHOOSE i \in json : \A j \in json : i <= j]

\* The server gives results only in sessions that it has, and knows, as ready.
Answers(c) == {b \in Body : client[c].session \in ready \ lost
                             \/ \A i \in DOMAIN b : b[i] \notin Results}

\* A mutant: any message is taken for the result.
AnyMessage(m) == m # "no json"

\* _parse_jsonrpc_result: an error or a message without a result raises.
IsResult(m) == m \in Results

\* A result, with a receipt or without.
ToolAnswers(c) ==
    /\ At(c) = "call"
    /\ \E b \in Answers(c) :
         IF IsResult(FirstMessage(b))
         THEN /\ client' = [client EXCEPT ![c].at = "rest"]
              /\ receipt' = IF c \in Users THEN receipt
                            ELSE [receipt EXCEPT ![c] = FirstMessage(b)]
         ELSE Raise(c) /\ UNCHANGED receipt
    /\ UNCHANGED <<sessions, ready, lost>>

\* A mutant: close keeps its reference to the connection.
KeepsConnection(k) == [Made EXCEPT !.http = k.http]

\* What close leaves of a client.
ClosedClient(k) == Made

\* close: by a user, or by __exit__ at the end of the handler's block.
Close(c) ==
    /\ At(c) = "rest" /\ client[c].http
    /\ c \in Handlers => receipt[c] # "pending"
    /\ client' = [client EXCEPT ![c] = ClosedClient(@)]
    /\ UNCHANGED <<sessions, ready, lost, receipt>>

\* A mutant: the exceptions of the "with" block are caught, not those of open.
CaughtInside(c) == client[c].entered

\* The handler goes on without a receipt whatever was raised.
Caught(c) == c \in Handlers

\* Through __exit__, which closes the client, if the block was entered. If open
\* raised it was not, and the client is dropped with its connection.
HandlerCatches(c) ==
    /\ At(c) = "raised" /\ c \in Handlers /\ Caught(c)
    /\ client' = [client EXCEPT ![c] = IF @.entered THEN ClosedClient(@)
                                       ELSE [@ EXCEPT !.at = "gone"]]
    /\ receipt' = [receipt EXCEPT ![c] = "unsigned"]
    /\ UNCHANGED <<sessions, ready, lost>>

\* A user catches it and keeps the client as it is.
UserCatches(c) ==
    /\ At(c) = "raised" /\ c \in Users
    /\ client' = [client EXCEPT ![c].at = "rest"]
    /\ UNCHANGED <<sessions, ready, lost, receipt>>

\* The Foundation's server restarts, or a session expires.
LoseSession ==
    /\ \E s \in 1..sessions : lost' = lost \union {s}
    /\ UNCHANGED <<sessions, ready, client, receipt>>

Return(c) == \/ OpenClient(c) \/ Initialize(c) \/ Confirm(c) \/ CallTool(c)
             \/ ToolAnswers(c) \/ Close(c) \/ PostRaises(c) \/ HandlerCatches(c)

McpNext ==
    \/ \E c \in Owners : Return(c) \/ UserCatches(c) \/ OpenAgain(c)
    \/ LoseSession

\* Each post is answered or times out, and the handler goes on.
FetchFair(c) == WF_mcpVars(Return(c))
McpFairness == \A c \in Handlers : FetchFair(c)
FairMcpSpec == McpInit /\ [][McpNext]_mcpVars /\ McpFairness

----------------------------------------------------------------------------
(* Properties.                                                                *)

Sessions == 1..MaxSessions

\* Every variable has its type; a client has a session only while connected.
McpTypeOK ==
    /\ sessions \in 0..MaxSessions
    /\ ready \subseteq Sessions /\ lost \subseteq Sessions
    /\ client \in [Owners -> [http : BOOLEAN, session : 0..MaxSessions,
                              at : {"rest", "initialize", "confirm", "call", "raised", "gone"},
                              entered : BOOLEAN, failed : BOOLEAN]]
    /\ receipt \in [Handlers -> {"pending"} \union Results]
    /\ \A c \in Owners : client[c].session # NoSession => client[c].http

\* A tool is called in a session that was initialised and confirmed: by every
\* handler, whatever failed before, and by a user unless an open of the same
\* client raised and it was not closed since (then open returns at once, and
\* the call goes out without a session).
CallsInSession ==
    \A c \in Owners :
        (At(c) = "call" /\ (c \in Handlers \/ ~ client[c].failed))
            => client[c].session \in ready

\* Enrichment is not load-bearing (server.py 226): each fetch ends, with a
\* receipt or without, and for good; and it leaves its connection open only if
\* open itself raised.
EveryFetchEnds ==
    \A c \in Handlers :
        <>[](/\ receipt[c] # "pending" /\ At(c) \in {"rest", "gone"}
             /\ client[c].http => client[c].failed)
=============================================================================
