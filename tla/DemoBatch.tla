----------------------------- MODULE DemoBatch -----------------------------
(* Demo batches: POST /demo/run of the dashboard, whose flag lets one batch   *)
(* run at a time, and run_inference_demo.py, which runs the same calls from   *)
(* the command line under no flag. Two agents take turns; what they do to the *)
(* server's memo and log is here as far as batches can tell it apart, and in  *)
(* full in PaidInference.                                                     *)
EXTENDS Integers, FiniteSets

CONSTANTS Posts,      \* POSTs to /demo/run
          Scripts,    \* runs of run_inference_demo.py
          Totals,     \* values of the parameter total of a POST
          ScriptTotals,  \* bound: values of --total-calls
          MaxHour,    \* bound: hours that pass
          MaxFails    \* bound: calls that raise, and agents that time out

ASSUME DemoAssumption == /\ Posts \intersect Scripts = {}
                         /\ Totals \subseteq Int
                         /\ ScriptTotals \subseteq Int
                         /\ MaxHour \in Nat /\ MaxFails \in Nat

FullPrice == 10
HitPrice == 1
MaxTotal == 25
Runs == Posts \union Scripts
Hours == 0..MaxHour

VARIABLES
    running,   \* _demo_running["flag"]
    hour,      \* the hour bucket of the clock
    fails,     \* calls that raised, and agents that timed out
    run,       \* per batch: where it is, its total, its call, its quote
    handler,   \* per batch: the server's handler of its last paid call
    memo,      \* the hours for which the demo prompt has a certificate
    log,       \* the event log: what each kind adds up to
    raced      \* history: batches or handlers overlapped that no flag orders

demoVars == <<running, hour, fails, run, handler, memo, log, raced>>

Fresh == [at |-> "new", total |-> 0, i |-> 0, hour |-> 0, price |-> 0]
NoHandler == [at |-> "none", hour |-> 0]

DemoInit ==
    /\ running = FALSE /\ hour = 0 /\ fails = 0 /\ raced = FALSE
    /\ run = [r \in Runs |-> Fresh]
    /\ handler = [r \in Runs |-> NoHandler]
    /\ memo = {}
    /\ log = [paid |-> 0, volume |-> 0, hits |-> 0, misses |-> 0,
              minted |-> [h \in Hours |-> 0]]

Ended == {"new", "refused", "failed", "over"}
Active(r) == run[r].at \notin Ended
Busy(r) == handler[r].at \in {"infer", "store", "answer"}

\* Whether another batch, or a handler that another batch left behind, is
\* active although the flag does not keep it apart from r.
Unguarded(r) ==
    \E s \in Runs \ {r} : \/ Active(s) /\ (s \in Scripts \/ r \in Scripts)
                          \/ Busy(s) /\ ~ Active(s)

Goes(r, at) == run' = [run EXCEPT ![r].at = at]

\* A mutant: the flag is looked at, and set only by the thread.
TakeFlagLate == running' = running

\* The flag is set under the lock that it was looked at under.
TakeFlag == running' = TRUE

\* The values of total that a batch may have.
InRange(total) == total \in 1..MaxTotal

\* demo_run: a total out of range is 400, a batch that runs already is 409.
\* Otherwise the flag is set, and the thread is still to be started.
Post(p, total) ==
    /\ p \in Posts /\ run[p].at = "new"
    /\ IF ~ InRange(total) \/ running
       THEN /\ Goes(p, "refused") /\ UNCHANGED <<running, raced>>
       ELSE /\ run' = [run EXCEPT ![p].at = "flagged", ![p].total = total]
            /\ TakeFlag
            /\ raced' = (raced \/ Unguarded(p))
    /\ UNCHANGED <<hour, fails, handler, memo, log>>

\* main: --total-calls below 1 exits, and nothing else is in the way.
Script(s, total) ==
    /\ s \in Scripts /\ run[s].at = "new"
    /\ IF total < 1
       THEN /\ Goes(s, "refused") /\ UNCHANGED raced
       ELSE /\ run' = [run EXCEPT ![s].at = "call", ![s].total = total]
            /\ raced' = (raced \/ Unguarded(s))
    /\ UNCHANGED <<running, hour, fails, handler, memo, log>>

\* The rest of demo_run: the thread is started, and the answer is "started".
StartThread(p) ==
    /\ run[p].at = "flagged"
    /\ Goes(p, "thread")
    /\ UNCHANGED <<running, hour, fails, handler, memo, log, raced>>

\* It cannot be started. The finally clause that resets the flag is in the
\* thread, so the POST is a 500 and the flag stays set.
ThreadFails(p) ==
    /\ fails < MaxFails
    /\ run[p].at = "flagged"
    /\ fails' = fails + 1
    /\ Goes(p, "failed")
    /\ UNCHANGED <<running, hour, handler, memo, log, raced>>

\* _run_batch builds both agents before its first call.
BuildAgents(p) ==
    /\ run[p].at = "thread"
    /\ Goes(p, "call")
    /\ UNCHANGED <<running, hour, fails, handler, memo, log, raced>>

\* The payer of the call: a, b, a, b, ...
Payer(r) == IF run[r].i % 2 = 1 THEN "agent_b" ELSE "agent_a"

PriceNow == IF hour \in memo THEN HitPrice ELSE FullPrice

\* complete(), 402: the price of the moment, for the hour of the moment.
AskPrice(r) ==
    /\ run[r].at = "call"
    /\ run' = [run EXCEPT ![r].at = "quoted", ![r].hour = hour,
                          ![r].price = PriceNow]
    /\ UNCHANGED <<running, hour, fails, handler, memo, log, raced>>

\* A batch ends after its last call; a raised exception ends it at once. The
\* thread of a POST has its finally clause to run.
Ending(r) == IF r \in Posts THEN "finally" ELSE "over"

\* complete(): the payment is made, and its handler accepts it. If the hour
\* has changed the address has too: 402, and the agent raises.
PayAndRetry(r) ==
    /\ run[r].at = "quoted"
    /\ IF run[r].hour # hour \/ run[r].price < PriceNow
       THEN /\ Goes(r, Ending(r)) /\ UNCHANGED <<handler, log>>
       ELSE /\ Goes(r, "waiting")
            /\ handler' = [handler EXCEPT ![r] =
                 [at |-> IF hour \in memo THEN "hit" ELSE "infer", hour |-> hour]]
            /\ log' = [log EXCEPT !.paid = @ + 1, !.volume = @ + run[r].price]
    /\ UNCHANGED <<running, hour, fails, memo, raced>>

\* The handler of a hit counts it and answers.
ServeHit(r) ==
    /\ handler[r].at = "hit"
    /\ handler' = [handler EXCEPT ![r].at = "answer"]
    /\ log' = [log EXCEPT !.hits = @ + 1]
    /\ UNCHANGED <<running, hour, fails, run, memo, raced>>

\* A mutant: a certificate that will not be stored is not logged.
MintEventIfNew(h) == IF h \in memo THEN log
                     ELSE [log EXCEPT !.misses = @ + 1, !.minted[h] = @ + 1]

\* EVENT_CERT_MINTED is pushed for every certificate.
MintEvent(h) == [log EXCEPT !.misses = @ + 1, !.minted[h] = @ + 1]

\* The handler of a miss runs the model and mints a certificate ...
Mint(r) ==
    /\ handler[r].at = "infer"
    /\ handler' = [handler EXCEPT ![r].at = "store"]
    /\ log' = MintEvent(handler[r].hour)
    /\ UNCHANGED <<running, hour, fails, run, memo, raced>>

\* ... and stores it; one that is there already is adopted.
Store(r) ==
    /\ handler[r].at = "store"
    /\ handler' = [handler EXCEPT ![r].at = "answer"]
    /\ memo' = memo \union {handler[r].hour}
    /\ UNCHANGED <<running, hour, fails, run, log, raced>>

\* The answer is 200: the next call, or the end.
Answered(r) ==
    /\ run[r].at = "waiting" /\ handler[r].at = "answer"
    /\ handler' = [handler EXCEPT ![r] = NoHandler]
    /\ run' = [run EXCEPT ![r].i = @ + 1,
                 ![r].at = IF run[r].i + 1 = run[r].total THEN Ending(r) ELSE "call"]
    /\ UNCHANGED <<running, hour, fails, memo, log, raced>>

\* No model answers: 500, and the agent raises if it still waits.
ModelFails(r) ==
    /\ fails < MaxFails
    /\ handler[r].at = "infer"
    /\ fails' = fails + 1
    /\ handler' = [handler EXCEPT ![r] = NoHandler]
    /\ IF run[r].at = "waiting" THEN Goes(r, Ending(r)) ELSE UNCHANGED run
    /\ UNCHANGED <<running, hour, memo, log, raced>>

\* The agent raises before it has paid: no server, no wallet, no ledger.
CallRaises(r) ==
    /\ fails < MaxFails
    /\ run[r].at \in {"thread", "call", "quoted"}
    /\ fails' = fails + 1
    /\ Goes(r, Ending(r))
    /\ UNCHANGED <<running, hour, handler, memo, log, raced>>

\* The agent's 30 seconds are over while its handler goes on.
AgentTimesOut(r) ==
    /\ fails < MaxFails
    /\ run[r].at = "waiting"
    /\ fails' = fails + 1
    /\ Goes(r, Ending(r))
    /\ UNCHANGED <<running, hour, handler, memo, log, raced>>

\* A handler whose agent has left answers nobody.
AnswersNobody(r) ==
    /\ run[r].at # "waiting" /\ handler[r].at = "answer"
    /\ handler' = [handler EXCEPT ![r] = NoHandler]
    /\ UNCHANGED <<running, hour, fails, run, memo, log, raced>>

\* A mutant: the flag is reset at the end of the loop, not in finally.
FinallyIfComplete(p) ==
    /\ run[p].at = "finally"
    /\ Goes(p, "over")
    /\ running' = (running /\ run[p].i < run[p].total)
    /\ UNCHANGED <<hour, fails, handler, memo, log, raced>>

\* finally: the flag is reset, whatever happened.
Finally(p) ==
    /\ run[p].at = "finally"
    /\ Goes(p, "over")
    /\ running' = FALSE
    /\ UNCHANGED <<hour, fails, handler, memo, log, raced>>

NextHour ==
    /\ hour < MaxHour
    /\ hour' = hour + 1
    /\ UNCHANGED <<running, fails, run, handler, memo, log, raced>>

ServerStep(r) == ServeHit(r) \/ Mint(r) \/ Store(r) \/ AnswersNobody(r)
BatchStep(r) == \/ StartThread(r) \/ BuildAgents(r) \/ AskPrice(r)
                \/ PayAndRetry(r) \/ Answered(r) \/ Finally(r)
CallFails(r) == \/ ThreadFails(r) \/ ModelFails(r) \/ CallRaises(r)
                \/ AgentTimesOut(r)

DemoNext ==
    \/ \E r \in Runs : \/ ServerStep(r) \/ BatchStep(r) \/ CallFails(r)
                       \/ \E t \in Totals : Post(r, t)
                       \/ \E t \in ScriptTotals : Script(r, t)
    \/ NextHour

DemoSpec == DemoInit /\ [][DemoNext]_demoVars
ServerFair(r) == WF_demoVars(ServerStep(r))
BatchFair(r) == WF_demoVars(BatchStep(r))
DemoFairness == \A r \in Runs : ServerFair(r) /\ BatchFair(r)
FairDemoSpec == DemoSpec /\ DemoFairness

----------------------------------------------------------------------------
(* Properties.                                                                *)

\* Every variable has its type, and no batch of the dashboard has more calls
\* than it may have.
DemoTypeOK ==
    /\ running \in BOOLEAN /\ hour \in Hours /\ fails \in 0..MaxFails
    /\ raced \in BOOLEAN /\ memo \subseteq Hours
    /\ run \in [Runs -> [at : {"new", "refused", "flagged", "failed", "thread",
                               "call", "quoted", "waiting", "finally", "over"},
                         total : Nat, i : Nat, hour : Hours,
                         price : {0, HitPrice, FullPrice}]]
    /\ handler \in [Runs -> [at : {"none", "hit", "infer", "store", "answer"},
                             hour : Hours]]
    /\ \A p \in Posts : run[p].total <= MaxTotal
    /\ log \in [paid : Nat, volume : Nat, hits : Nat, misses : Nat,
               minted : [Hours -> Nat]]

\* A POST that set the flag, and has not reset it: its batch runs, or its
\* thread could not be started.
Holds(p) == Active(p) \/ run[p].at = "failed"

\* The flag is set exactly while a POST holds it, and one does at most, so that
\* a double tap spawns no parallel batches (dashboard.py 416).
OneBatch ==
    /\ running => \E p \in Posts : Holds(p)
    /\ \A p, q \in Posts : Holds(p) => running /\ (Holds(q) => p = q)

\* The model is paid for and run once per hour: what the flag and the memo
\* are for. Only a handler whose agent timed out, or a script beside a batch,
\* can run it twice.
MintedOnce == ~ raced => \A h \in Hours : log.minted[h] <= 1

\* _metrics: what is shown as inferences, hits and volume fits the payments.
\* When no call is inside the server and none failed there, each payment is one
\* hit or one miss; and hits are never sold above the price of their quote.
MetricsAddUp ==
    /\ log.hits + log.misses <= log.paid
    /\ log.volume >= FullPrice * log.misses + HitPrice * log.hits
    /\ (fails = 0 /\ \A r \in Runs : handler[r].at \notin {"hit", "infer"})
          => log.hits + log.misses = log.paid

\* The flag is not set, or a POST set it and could not start its thread.
Freed == ~ running \/ \E p \in Posts : run[p].at = "failed"

\* The flag does not stay set: whatever a batch raises, the next one can start.
\* The one way to keep it is in demo_run: Thread.start (dashboard.py 473) is
\* outside the try whose finally resets what line 448 set.
GuardFreed == running ~> Freed
============================================================================
