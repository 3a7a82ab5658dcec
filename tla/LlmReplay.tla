------------------------------ MODULE LlmReplay ------------------------------
(* LLMClient and LLMCache: answers of the model are recorded in one JSON file *)
(* per request in live mode, and replayed from it in cache mode.              *)
(*                                                                            *)
(* A file is written in place: opening it truncates it, its blocks reach the  *)
(* disk one after another, each at the offset of its writer, and nothing      *)
(* keeps two processes from writing one file. An answer is known by its       *)
(* number in "given"; what tells answers apart is the request that the model  *)
(* was given, whether the answer passes the caller's schema, and its length.  *)
EXTENDS Integers, Sequences

CONSTANTS Recorders,    \* processes in live mode
          Prompts,      \* the model, the messages and the schema of a request
          Temperatures, \* the temperature of a request
          MaxAnswers,   \* bound: answers of the model
          MaxFails      \* bound: recordings that fail or are cut by a crash

ASSUME ReplayAssumption == /\ Prompts # {} /\ Temperatures # {}
                           /\ MaxAnswers \in Nat /\ MaxFails \in Nat

VARIABLES
    given,     \* the model's answers, in order
    file,      \* per key: the blocks of its file, or NoFile
    recorder,  \* per process in live mode: its complete_structured
    fails,     \* recordings that failed
    last,      \* history, per request: the answer of its last whole recording
    suspect    \* history: requests whose last recordings overlapped or failed

replayVars == <<given, file, recorder, fails, last, suspect>>

Requests == Prompts \X Temperatures
None == 0
NoFile == << <<None, None>> >>    \* no block has the number None

\* A mutant: a key that leaves the temperature out.
KeyOfPrompt(r) == r[1]

\* key_for: the hash of the whole request.
KeyFor(r) == r

Keys == {KeyFor(r) : r \in Requests}

Idle == [at |-> "rest", answer |-> None, pos |-> 0]
RequestOf(c) == given[recorder[c].answer].request
Writing(r) == {c \in Recorders : recorder[c].at = "write" /\ RequestOf(c) = r}

ReplayInit ==
    /\ given = <<>> /\ fails = 0
    /\ file = [k \in Keys |-> NoFile]
    /\ recorder = [c \in Recorders |-> Idle]
    /\ last = [r \in Requests |-> None] /\ suspect = {}

\* complete_structured in live mode: _call_api. A call that raises (no key, an
\* API error, no tool_use block) leaves nothing behind.
CallApi(c) ==
    /\ recorder[c].at = "rest" /\ Len(given) < MaxAnswers
    /\ \E r \in Requests, ok \in BOOLEAN, n \in 1..2 :
         given' = Append(given, [request |-> r, ok |-> ok, blocks |-> n])
    /\ recorder' = [recorder EXCEPT ![c].at = "put", ![c].answer = Len(given')]
    /\ UNCHANGED <<file, fails, last, suspect>>

\* A mutant: the file is opened for update, and keeps its old tail.
Kept(k) == IF file[k] = NoFile THEN <<>> ELSE file[k]

\* open(..., "w").
Truncated(k) == <<>>

\* put, whatever the answer is: the file is opened.
OpenFile(c) ==
    LET r == RequestOf(c)
    IN /\ recorder[c].at = "put"
       /\ file' = [file EXCEPT ![KeyFor(r)] = Truncated(KeyFor(r))]
       /\ recorder' = [recorder EXCEPT ![c].at = "write"]
       /\ suspect' = IF Writing(r) = {} THEN suspect \ {r} ELSE suspect \union {r}
       /\ UNCHANGED <<given, fails, last>>

\* A mutant: the file is in append mode.
Appended(f, i, b) == Append(f, b)

\* The blocks f with b at i; there is a gap if f was truncated meanwhile.
Written(f, i, b) ==
    [j \in 1..(IF Len(f) < i THEN i ELSE Len(f)) |->
        IF j = i THEN b ELSE IF j \in DOMAIN f THEN f[j] ELSE <<None, j>>]

\* json.dump: a block reaches the disk.
WriteBlock(c) ==
    LET a == recorder[c].answer
        i == recorder[c].pos + 1
    IN /\ recorder[c].at = "write" /\ i <= given[a].blocks
       /\ file' = [file EXCEPT ![KeyFor(RequestOf(c))] = Written(@, i, <<a, i>>)]
       /\ recorder' = [recorder EXCEPT ![c].pos = i]
       /\ UNCHANGED <<given, fails, last, suspect>>

\* The file is closed. Only then the answer is validated: the caller gets its
\* value or a ValidationError, and the file stays in either case.
CloseFile(c) ==
    /\ recorder[c].at = "write" /\ recorder[c].pos = given[recorder[c].answer].blocks
    /\ last' = [last EXCEPT ![RequestOf(c)] = recorder[c].answer]
    /\ recorder' = [recorder EXCEPT ![c] = Idle]
    /\ UNCHANGED <<given, file, fails, suspect>>

\* The write raises, or the process ends in the middle of it.
WriteFails(c) ==
    /\ recorder[c].at = "write" /\ fails < MaxFails
    /\ fails' = fails + 1
    /\ suspect' = suspect \union {RequestOf(c)}
    /\ recorder' = [recorder EXCEPT ![c] = Idle]
    /\ UNCHANGED <<given, file, last>>

ReplayNext ==
    \E c \in Recorders : \/ CallApi(c) \/ OpenFile(c) \/ WriteBlock(c)
                         \/ CloseFile(c) \/ WriteFails(c)

ReplaySpec == ReplayInit /\ [][ReplayNext]_replayVars

\* What the caller gets out of a whole answer.
Validated(a) == IF given[a].ok THEN <<"value", a>> ELSE <<"ValidationError", a>>

\* get: the file as one JSON document.
Documents(k) == {a \in 1..Len(given) : file[k] = [i \in 1..given[a].blocks |-> <<a, i>>]}

\* complete_structured in cache mode, which changes nothing: a miss, an answer,
\* or the error of json.load. The pieces of two answers may be JSON by chance.
Replayed(r) ==
    LET k == KeyFor(r)
    IN IF file[k] = NoFile THEN <<"CacheMiss", None>>
       ELSE IF Documents(k) = {} THEN <<"pieces", None>>
       ELSE Validated(CHOOSE a \in Documents(k) : TRUE)

----------------------------------------------------------------------------
(* Properties.                                                                *)

\* Every variable has its type; no process writes past the end of its answer.
ReplayTypeOK ==
    /\ given \in Seq([request : Requests, ok : BOOLEAN, blocks : 1..2])
    /\ Len(given) <= MaxAnswers /\ fails \in 0..MaxFails
    /\ \A k \in Keys : file[k] = NoFile \/ Len(file[k]) \in 0..2
    /\ recorder \in [Recorders -> [at : {"rest", "put", "write"},
                                   answer : 0..Len(given), pos : 0..2]]
    /\ \A c \in Recorders : recorder[c].answer # None
                            => recorder[c].pos <= given[recorder[c].answer].blocks
    /\ last \in [Requests -> 0..Len(given)] /\ suspect \subseteq Requests

\* A replay is "identical to a real LLM call modulo the network" (cache.py 22):
\* whatever is replayed whole was said by the model in answer to this very
\* request, even where two recordings mixed; and once no recording of a request
\* is under way, a replay of it ends as its last whole recording did, with the
\* same value or the same ValidationError, or in a miss if there was none. That
\* takes only that its recordings did not overlap and that none failed since:
\* one undisturbed recording repairs a torn file.
ReplayFaithful ==
    \A r \in Requests :
        /\ Replayed(r)[2] # None => given[Replayed(r)[2]].request = r
        /\ (Writing(r) = {} /\ r \notin suspect)
              => Replayed(r) = IF last[r] = None THEN <<"CacheMiss", None>>
                               ELSE Validated(last[r])
=============================================================================
