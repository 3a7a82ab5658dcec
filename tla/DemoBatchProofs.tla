--------------------------- MODULE DemoBatchProofs ---------------------------
(* Proofs about DemoBatch, for any number of batches, calls and hours: the    *)
(* flag keeps the dashboard's batches apart and is freed in the end, and the  *)
(* model runs once per hour unless something ran beside the flag.             *)
EXTENDS DemoBatch, FiniteSetTheorems, WellFoundedInduction, TLAPS

RunDocs == [at : {"new", "refused", "flagged", "failed", "thread", "call",
                  "quoted", "waiting", "finally", "over"},
            total : Nat, i : Nat, hour : Hours, price : {0, HitPrice, FullPrice}]
HandlerDocs == [at : {"none", "hit", "infer", "store", "answer"}, hour : Hours]

\* A batch that runs, or whose handler may still mint or store.
Engaged(r) == Active(r) \/ handler[r].at \in {"infer", "store"}

\* While nothing has raced, at most one batch is engaged.
Exclusive == ~ raced => \A r, s \in Runs : Engaged(r) /\ Engaged(s) => r = s

\* A handler is at work only for a batch that waits for it or has given up.
HandlerInv ==
    \A r \in Runs : handler[r].at # "none" => run[r].at \in {"waiting", "finally", "over"}

\* An hour's certificate is stored, or about to be, and nobody infers it again.
MintInv ==
    ~ raced =>
        /\ \A h \in Hours :
             /\ log.minted[h] <= 1
             /\ log.minted[h] = 1 => \/ h \in memo
                                     \/ \E r \in Runs : handler[r].at = "store"
                                                        /\ handler[r].hour = h
        /\ \A r \in Runs : handler[r].at = "infer" => log.minted[handler[r].hour] = 0

\* Only a batch of the dashboard has a thread that starts and a finally clause.
PlaceInv == \A r \in Runs : run[r].at \in {"flagged", "failed", "thread", "finally"}
                               => r \in Posts

\* A POST that holds the flag has set it, and is the only one.
Guarded == \A p, q \in Posts : Holds(p) => running /\ (Holds(q) => p = q)

DemoInv == DemoTypeOK /\ Guarded /\ PlaceInv /\ Exclusive /\ HandlerInv /\ MintInv

LEMMA InitDemo == DemoInit => DemoInv
<1> SUFFICES ASSUME DemoInit PROVE DemoInv
  OBVIOUS
<1>1. \A r \in Runs : run[r] = Fresh /\ handler[r] = NoHandler
  BY DEF DemoInit
<1>2. 0 \in Hours
  BY DemoAssumption DEF Hours
<1>3. run \in [Runs -> RunDocs]
  <2>1. Fresh \in RunDocs
    BY <1>2 DEF Fresh, RunDocs
  <2>2. QED
    BY <2>1 DEF DemoInit
<1>4. handler \in [Runs -> HandlerDocs]
  <2>1. NoHandler \in HandlerDocs
    BY <1>2 DEF NoHandler, HandlerDocs
  <2>2. QED
    BY <2>1 DEF DemoInit
<1>5. log \in [paid : Nat, volume : Nat, hits : Nat, misses : Nat,
                minted : [Hours -> Nat]]
  BY DEF DemoInit
<1>6. \A p \in Posts : run[p].total <= MaxTotal
  BY <1>1 DEF Runs, Fresh, MaxTotal
<1>7. DemoTypeOK
  <2>1. /\ running \in BOOLEAN /\ hour \in Hours /\ fails \in 0..MaxFails
        /\ raced \in BOOLEAN /\ memo \subseteq Hours
    <3>1. 0 \in 0..MaxFails
      BY DemoAssumption
    <3>2. QED
      BY <1>2, <3>1, Zenon DEF DemoInit
  <2>2. QED
    BY <1>3, <1>4, <1>5, <1>6, <2>1, Zenon DEF DemoTypeOK, RunDocs, HandlerDocs
<1>8. Guarded /\ PlaceInv
  BY <1>1 DEF Guarded, Holds, PlaceInv, Active, Ended, Fresh, Runs
<1>9. Exclusive /\ HandlerInv
  BY <1>1 DEF Exclusive, HandlerInv, Engaged, Active, Ended, Fresh, NoHandler
<1>10. MintInv
  BY <1>1 DEF DemoInit, MintInv, NoHandler
<1>11. QED
  BY <1>7, <1>8, <1>9, <1>10 DEF DemoInv

Places == {"new", "refused", "flagged", "failed", "thread", "call", "quoted",
           "waiting", "finally", "over"}
RunTyped == run \in [Runs -> RunDocs] /\ \A p \in Posts : run[p].total <= MaxTotal
HandlerTyped == handler \in [Runs -> HandlerDocs]
LogTyped == log \in [paid : Nat, volume : Nat, hits : Nat, misses : Nat,
                minted : [Hours -> Nat]]
RestTyped == /\ running \in BOOLEAN /\ hour \in Hours /\ fails \in 0..MaxFails
             /\ raced \in BOOLEAN /\ memo \subseteq Hours

LEMMA TypeParts ==
    /\ DemoTypeOK => RunTyped /\ HandlerTyped /\ LogTyped /\ RestTyped
    /\ RunTyped' /\ HandlerTyped' /\ LogTyped' /\ RestTyped' => DemoTypeOK'
BY DEF DemoTypeOK, RunTyped, HandlerTyped, LogTyped, RestTyped, RunDocs, HandlerDocs

\* What is kept of a variable that a step leaves alone.
LEMMA PartsKept ==
    /\ RunTyped /\ run' = run => RunTyped'
    /\ HandlerTyped /\ handler' = handler => HandlerTyped'
    /\ LogTyped /\ log' = log => LogTyped'
BY DEF RunTyped, HandlerTyped, LogTyped

\* A record that gets another place is a record of its type.
LEMMA GoesTyped ==
    ASSUME RunTyped, NEW r \in Runs, NEW at \in Places, Goes(r, at) PROVE RunTyped'
<1>1. [run[r] EXCEPT !.at = at] \in RunDocs
  BY DEF RunTyped, RunDocs, Places
<1>2. run' = [run EXCEPT ![r] = [run[r] EXCEPT !.at = at]]
  BY DEF Goes
<1>3. run' \in [Runs -> RunDocs]
  BY <1>1, <1>2 DEF RunTyped
<1>4. ASSUME NEW p \in Posts PROVE run'[p].total <= MaxTotal
  BY <1>2, <1>4 DEF RunTyped, RunDocs, Runs
<1>5. QED
  BY <1>3, <1>4 DEF RunTyped

LEMMA EndingPlace == ASSUME NEW r \in Runs PROVE Ending(r) \in Places
BY DEF Ending, Places

LEMMA HandlerGoesTyped ==
    ASSUME HandlerTyped, NEW r \in Runs, NEW d \in HandlerDocs,
           handler' = [handler EXCEPT ![r] = d]
    PROVE  HandlerTyped'
BY DEF HandlerTyped

LEMMA NobodyTyped == NoHandler \in HandlerDocs
BY DemoAssumption DEF NoHandler, HandlerDocs, Hours

\* Every step keeps the types.
LEMMA TypeKept ==
    ASSUME DemoInv, DemoNext PROVE DemoTypeOK'
<1> USE DemoAssumption
<1>0. RunTyped /\ HandlerTyped /\ LogTyped /\ RestTyped
  BY TypeParts DEF DemoInv
<1>1. ASSUME NEW r \in Runs, NEW t \in Totals, Post(r, t) PROVE DemoTypeOK'
  <2>1. RunTyped'
    <3>1. CASE ~ InRange(t) \/ running
      <4>1. Goes(r, "refused")
        BY <1>1, <3>1 DEF Post
      <4>2. QED
        BY <1>0, <4>1, GoesTyped DEF Places
    <3>2. CASE ~ (~ InRange(t) \/ running)
      <4> DEFINE d == [run[r] EXCEPT !.at = "flagged", !.total = t]
      <4>1. run' = [run EXCEPT ![r] = d]
        BY <1>1, <3>2 DEF Post
      <4>2. t \in Nat /\ t <= MaxTotal
        BY <3>2 DEF InRange, MaxTotal
      <4>3. d \in RunDocs /\ d.total <= MaxTotal
        BY <1>0, <4>2 DEF RunTyped, RunDocs
      <4>4. run' \in [Runs -> RunDocs]
        BY <1>0, <4>1, <4>3 DEF RunTyped
      <4>5. ASSUME NEW p \in Posts PROVE run'[p].total <= MaxTotal
        BY <1>0, <4>1, <4>3, <4>5 DEF RunTyped, Runs
      <4>6. QED
        BY <4>4, <4>5 DEF RunTyped
    <3>3. QED
      BY <3>1, <3>2
  <2>2. RestTyped'
    BY <1>0, <1>1 DEF Post, TakeFlag, RestTyped
  <2>3. QED
    BY <1>0, <1>1, <2>1, <2>2, PartsKept, TypeParts DEF Post
<1>2. ASSUME NEW r \in Runs, NEW t \in ScriptTotals, Script(r, t) PROVE DemoTypeOK'
  <2>1. RunTyped'
    <3>1. CASE t < 1
      <4>1. Goes(r, "refused")
        BY <1>2, <3>1 DEF Script
      <4>2. QED
        BY <1>0, <4>1, GoesTyped DEF Places
    <3>2. CASE ~ (t < 1)
      <4> DEFINE d == [run[r] EXCEPT !.at = "call", !.total = t]
      <4>1. run' = [run EXCEPT ![r] = d] /\ r \notin Posts
        BY <1>2, <3>2 DEF Script
      <4>2. t \in Nat
        BY <3>2
      <4>3. d \in RunDocs
        BY <1>0, <4>2 DEF RunTyped, RunDocs
      <4>4. run' \in [Runs -> RunDocs]
        BY <1>0, <4>1, <4>3 DEF RunTyped
      <4>5. ASSUME NEW p \in Posts PROVE run'[p].total <= MaxTotal
        BY <1>0, <4>1, <4>5 DEF RunTyped, Runs
      <4>6. QED
        BY <4>4, <4>5 DEF RunTyped
    <3>3. QED
      BY <3>1, <3>2
  <2>2. RestTyped'
    BY <1>0, <1>2 DEF Script, RestTyped
  <2>3. QED
    BY <1>0, <1>2, <2>1, <2>2, PartsKept, TypeParts DEF Script
<1>3. ASSUME NEW r \in Runs, BuildAgents(r) PROVE DemoTypeOK'
  <2>1. RunTyped'
    BY <1>0, <1>3, GoesTyped DEF BuildAgents, Places
  <2>2. RestTyped'
    BY <1>0, <1>3 DEF BuildAgents, RestTyped
  <2>3. QED
    BY <1>0, <1>3, <2>1, <2>2, PartsKept, TypeParts DEF BuildAgents
<1>4. ASSUME NEW r \in Runs, AskPrice(r) PROVE DemoTypeOK'
  <2> DEFINE d == [run[r] EXCEPT !.at = "quoted", !.hour = hour, !.price = PriceNow]
  <2>1. run' = [run EXCEPT ![r] = d]
    BY <1>4 DEF AskPrice
  <2>2. d \in RunDocs
    BY <1>0 DEF RunTyped, RestTyped, RunDocs, PriceNow
  <2>3. run' \in [Runs -> RunDocs]
    BY <1>0, <2>1, <2>2 DEF RunTyped
  <2>4. ASSUME NEW p \in Posts PROVE run'[p].total <= MaxTotal
    BY <1>0, <2>1, <2>4 DEF RunTyped, RunDocs, Runs
  <2>5. RunTyped'
    BY <2>3, <2>4 DEF RunTyped
  <2>6. RestTyped'
    BY <1>0, <1>4 DEF AskPrice, RestTyped
  <2>7. QED
    BY <1>0, <1>4, <2>5, <2>6, PartsKept, TypeParts DEF AskPrice
<1>5. ASSUME NEW r \in Runs, PayAndRetry(r) PROVE DemoTypeOK'
  <2>1. RestTyped'
    BY <1>0, <1>5 DEF PayAndRetry, RestTyped
  <2>2. CASE run[r].hour # hour \/ run[r].price < PriceNow
    <3>1. RunTyped'
      BY <1>0, <1>5, <2>2, GoesTyped, EndingPlace DEF PayAndRetry
    <3>2. QED
      BY <1>0, <1>5, <2>1, <2>2, <3>1, PartsKept, TypeParts DEF PayAndRetry
  <2>3. CASE ~ (run[r].hour # hour \/ run[r].price < PriceNow)
    <3>1. RunTyped'
      BY <1>0, <1>5, <2>3, GoesTyped DEF PayAndRetry, Places
    <3>2. HandlerTyped'
      <4> DEFINE d == [at |-> IF hour \in memo THEN "hit" ELSE "infer", hour |-> hour]
      <4>1. d \in HandlerDocs
        BY <1>0 DEF HandlerDocs, RestTyped
      <4>2. handler' = [handler EXCEPT ![r] = d]
        BY <1>5, <2>3 DEF PayAndRetry
      <4>3. QED
        BY <1>0, <4>1, <4>2 DEF HandlerTyped
    <3>3. LogTyped'
      <4>1. run[r].price \in Nat
        BY <1>0 DEF RunTyped, RunDocs, HitPrice, FullPrice
      <4>2. log' = [log EXCEPT !.paid = @ + 1, !.volume = @ + run[r].price]
        BY <1>5, <2>3 DEF PayAndRetry
      <4>3. log.paid + 1 \in Nat /\ log.volume + run[r].price \in Nat
        BY <1>0, <4>1 DEF LogTyped
      <4>4. log' = [paid |-> log.paid + 1, volume |-> log.volume + run[r].price,
                    hits |-> log.hits, misses |-> log.misses,
                    minted |-> log.minted]
        BY <1>0, <4>2 DEF LogTyped
      <4>5. QED
        BY <1>0, <4>3, <4>4 DEF LogTyped
    <3>4. QED
      BY <2>1, <3>1, <3>2, <3>3, TypeParts
  <2>4. QED
    BY <2>2, <2>3
<1>6. ASSUME NEW r \in Runs, ServeHit(r) PROVE DemoTypeOK'
  <2>1. HandlerTyped'
    <3> DEFINE d == [handler[r] EXCEPT !.at = "answer"]
    <3>1. d \in HandlerDocs
      BY <1>0 DEF HandlerTyped, HandlerDocs
    <3>2. handler' = [handler EXCEPT ![r] = d]
      BY <1>6 DEF ServeHit
    <3>3. QED
      BY <1>0, <3>1, <3>2 DEF HandlerTyped
  <2>2. LogTyped'
    BY <1>0, <1>6 DEF ServeHit, LogTyped
  <2>3. RestTyped'
    BY <1>0, <1>6 DEF ServeHit, RestTyped
  <2>4. QED
    BY <1>0, <1>6, <2>1, <2>2, <2>3, PartsKept, TypeParts DEF ServeHit
<1>7. ASSUME NEW r \in Runs, Mint(r) PROVE DemoTypeOK'
  <2>1. HandlerTyped'
    <3> DEFINE d == [handler[r] EXCEPT !.at = "store"]
    <3>1. d \in HandlerDocs
      BY <1>0 DEF HandlerTyped, HandlerDocs
    <3>2. handler' = [handler EXCEPT ![r] = d]
      BY <1>7 DEF Mint
    <3>3. QED
      BY <1>0, <3>1, <3>2 DEF HandlerTyped
  <2>2. LogTyped'
    <3> DEFINE h == handler[r].hour
    <3>1. h \in Hours
      BY <1>0 DEF HandlerTyped, HandlerDocs
    <3>2. log' = [log EXCEPT !.misses = log.misses + 1,
                             !.minted = [log.minted EXCEPT ![h] = log.minted[h] + 1]]
      BY <1>7 DEF Mint, MintEvent
    <3> DEFINE minted == [log.minted EXCEPT ![h] = log.minted[h] + 1]
    <3>3. minted \in [Hours -> Nat] /\ log.misses + 1 \in Nat
      BY <1>0, <3>1 DEF LogTyped
    <3> HIDE DEF minted
    <3>4. log' = [paid |-> log.paid, volume |-> log.volume, hits |-> log.hits,
                  misses |-> log.misses + 1, minted |-> minted]
      BY <1>0, <3>2 DEF LogTyped, minted
    <3>5. QED
      BY <1>0, <3>3, <3>4 DEF LogTyped
  <2>3. RestTyped'
    BY <1>0, <1>7 DEF Mint, RestTyped
  <2>4. QED
    BY <1>0, <1>7, <2>1, <2>2, <2>3, PartsKept, TypeParts DEF Mint
<1>8. ASSUME NEW r \in Runs, Store(r) PROVE DemoTypeOK'
  <2>1. HandlerTyped'
    <3> DEFINE d == [handler[r] EXCEPT !.at = "answer"]
    <3>1. d \in HandlerDocs
      BY <1>0 DEF HandlerTyped, HandlerDocs
    <3>2. handler' = [handler EXCEPT ![r] = d]
      BY <1>8 DEF Store
    <3>3. QED
      BY <1>0, <3>1, <3>2 DEF HandlerTyped
  <2>2. RestTyped'
    <3>1. handler[r].hour \in Hours
      BY <1>0 DEF HandlerTyped, HandlerDocs
    <3>2. QED
      BY <1>0, <1>8, <3>1 DEF Store, RestTyped
  <2>3. QED
    BY <1>0, <1>8, <2>1, <2>2, PartsKept, TypeParts DEF Store
<1>9. ASSUME NEW r \in Runs, Answered(r) PROVE DemoTypeOK'
  <2> DEFINE at == IF run[r].i + 1 = run[r].total THEN Ending(r) ELSE "call"
             d == [run[r] EXCEPT !.i = run[r].i + 1, !.at = at]
  <2>1. run' = [run EXCEPT ![r] = d]
    BY <1>9 DEF Answered
  <2>2. d \in RunDocs
    <3>1. at \in Places
      BY EndingPlace DEF Places
    <3>2. run[r] \in RunDocs /\ run[r].i + 1 \in Nat
      BY <1>0 DEF RunTyped, RunDocs
    <3> HIDE DEF at
    <3>3. QED
      BY <3>1, <3>2 DEF RunDocs, Places
  <2>3. run' \in [Runs -> RunDocs]
    BY <1>0, <2>1, <2>2 DEF RunTyped
  <2>4. ASSUME NEW p \in Posts PROVE run'[p].total <= MaxTotal
    BY <1>0, <2>1, <2>4 DEF RunTyped, RunDocs, Runs
  <2>5. RunTyped'
    BY <2>3, <2>4 DEF RunTyped
  <2>6. HandlerTyped'
    BY <1>0, <1>9, HandlerGoesTyped, NobodyTyped DEF Answered
  <2>7. RestTyped'
    BY <1>0, <1>9 DEF Answered, RestTyped
  <2>8. QED
    BY <1>0, <1>9, <2>5, <2>6, <2>7, PartsKept, TypeParts DEF Answered
<1>10. ASSUME NEW r \in Runs, ModelFails(r) PROVE DemoTypeOK'
  <2>1. RunTyped'
    <3>1. CASE run[r].at = "waiting"
      BY <1>0, <1>10, <3>1, GoesTyped, EndingPlace DEF ModelFails
    <3>2. CASE run[r].at # "waiting"
      BY <1>0, <1>10, <3>2, PartsKept DEF ModelFails
    <3>3. QED
      BY <3>1, <3>2
  <2>2. HandlerTyped'
    BY <1>0, <1>10, HandlerGoesTyped, NobodyTyped DEF ModelFails
  <2>3. RestTyped'
    BY <1>0, <1>10 DEF ModelFails, RestTyped
  <2>4. QED
    BY <1>0, <1>10, <2>1, <2>2, <2>3, PartsKept, TypeParts DEF ModelFails
<1>11. ASSUME NEW r \in Runs, CallRaises(r) PROVE DemoTypeOK'
  <2>1. RunTyped'
    BY <1>0, <1>11, GoesTyped, EndingPlace DEF CallRaises
  <2>2. RestTyped'
    BY <1>0, <1>11 DEF CallRaises, RestTyped
  <2>3. QED
    BY <1>0, <1>11, <2>1, <2>2, PartsKept, TypeParts DEF CallRaises
<1>12. ASSUME NEW r \in Runs, AgentTimesOut(r) PROVE DemoTypeOK'
  <2>1. RunTyped'
    BY <1>0, <1>12, GoesTyped, EndingPlace DEF AgentTimesOut
  <2>2. RestTyped'
    BY <1>0, <1>12 DEF AgentTimesOut, RestTyped
  <2>3. QED
    BY <1>0, <1>12, <2>1, <2>2, PartsKept, TypeParts DEF AgentTimesOut
<1>13. ASSUME NEW r \in Runs, AnswersNobody(r) PROVE DemoTypeOK'
  <2>1. HandlerTyped'
    BY <1>0, <1>13, HandlerGoesTyped, NobodyTyped DEF AnswersNobody
  <2>2. RestTyped'
    BY <1>0, <1>13 DEF AnswersNobody, RestTyped
  <2>3. QED
    BY <1>0, <1>13, <2>1, <2>2, PartsKept, TypeParts DEF AnswersNobody
<1>14. ASSUME NEW r \in Runs, Finally(r) PROVE DemoTypeOK'
  <2>1. RunTyped'
    BY <1>0, <1>14, GoesTyped DEF Finally, Places
  <2>2. RestTyped'
    BY <1>0, <1>14 DEF Finally, RestTyped
  <2>3. QED
    BY <1>0, <1>14, <2>1, <2>2, PartsKept, TypeParts DEF Finally
<1>15. CASE NextHour
  BY <1>15 DEF NextHour, DemoInv, DemoTypeOK, Hours
<1>16. ASSUME NEW r \in Runs, StartThread(r) PROVE DemoTypeOK'
  <2>1. RunTyped'
    BY <1>0, <1>16, GoesTyped DEF StartThread, Places
  <2>2. RestTyped'
    BY <1>0, <1>16 DEF StartThread, RestTyped
  <2>3. QED
    BY <1>0, <1>16, <2>1, <2>2, PartsKept, TypeParts DEF StartThread
<1>17. ASSUME NEW r \in Runs, ThreadFails(r) PROVE DemoTypeOK'
  <2>1. RunTyped'
    BY <1>0, <1>17, GoesTyped DEF ThreadFails, Places
  <2>2. RestTyped'
    BY <1>0, <1>17 DEF ThreadFails, RestTyped
  <2>3. QED
    BY <1>0, <1>17, <2>1, <2>2, PartsKept, TypeParts DEF ThreadFails
<1>18. QED
  BY <1>1, <1>2, <1>3, <1>4, <1>5, <1>6, <1>7, <1>8, <1>9, <1>10, <1>11, <1>12, <1>13, <1>14, <1>15,
     <1>16, <1>17
  DEF DemoNext, ServerStep, BatchStep, CallFails

\* What a batch's step does to the places of all batches.
LEMMA GoesPlaces ==
    ASSUME RunTyped, NEW r \in Runs, NEW at, Goes(r, at)
    PROVE  \A s \in Runs : run'[s].at = IF s = r THEN at ELSE run[s].at
BY DEF RunTyped, RunDocs, Goes

\* Only Post sets the flag, and only if it is clear; Finally clears it for the
\* one batch that runs.
LEMMA GuardedKept ==
    ASSUME DemoInv, DemoNext PROVE Guarded'
<1>1. ASSUME NEW r \in Runs, NEW t \in Totals, Post(r, t) PROVE Guarded'
  BY <1>1, DemoAssumption DEF Post, InRange, TakeFlag, MaxTotal, Goes, DemoInv, DemoTypeOK, Guarded, Holds, Active, Ended, Runs
<1>2. ASSUME NEW r \in Runs, NEW t \in ScriptTotals, Script(r, t) PROVE Guarded'
  BY <1>2, DemoAssumption DEF Script, Goes, DemoInv, DemoTypeOK, Guarded, Holds, Active, Ended, Runs
<1>3. ASSUME NEW r \in Runs, BuildAgents(r) PROVE Guarded'
  BY <1>3, DemoAssumption DEF BuildAgents, Goes, DemoInv, DemoTypeOK, Guarded, Holds, Active, Ended, Runs
<1>4. ASSUME NEW r \in Runs, AskPrice(r) PROVE Guarded'
  BY <1>4, DemoAssumption DEF AskPrice, PriceNow, HitPrice, FullPrice, DemoInv, DemoTypeOK, Guarded, Holds, Active, Ended, Runs
<1>5. ASSUME NEW r \in Runs, PayAndRetry(r) PROVE Guarded'
  BY <1>5, DemoAssumption DEF PayAndRetry, Goes, Ending, DemoInv, DemoTypeOK, Guarded, Holds, Active, Ended, Runs
<1>6. ASSUME NEW r \in Runs, ServeHit(r) PROVE Guarded'
  BY <1>6, DemoAssumption DEF ServeHit, DemoInv, DemoTypeOK, Guarded, Holds, Active, Ended, Runs
<1>7. ASSUME NEW r \in Runs, Mint(r) PROVE Guarded'
  BY <1>7, DemoAssumption DEF Mint, MintEvent, DemoInv, DemoTypeOK, Guarded, Holds, Active, Ended, Runs
<1>8. ASSUME NEW r \in Runs, Store(r) PROVE Guarded'
  BY <1>8, DemoAssumption DEF Store, DemoInv, DemoTypeOK, Guarded, Holds, Active, Ended, Runs
<1>9. ASSUME NEW r \in Runs, Answered(r) PROVE Guarded'
  BY <1>9, DemoAssumption DEF Answered, NoHandler, Ending, DemoInv, DemoTypeOK, Guarded, Holds, Active, Ended, Runs
<1>10. ASSUME NEW r \in Runs, ModelFails(r) PROVE Guarded'
  BY <1>10, DemoAssumption DEF ModelFails, NoHandler, Goes, Ending, DemoInv, DemoTypeOK, Guarded, Holds, Active, Ended, Runs
<1>11. ASSUME NEW r \in Runs, CallRaises(r) PROVE Guarded'
  BY <1>11, DemoAssumption DEF CallRaises, Goes, Ending, DemoInv, DemoTypeOK, Guarded, Holds, Active, Ended, Runs
<1>12. ASSUME NEW r \in Runs, AgentTimesOut(r) PROVE Guarded'
  BY <1>12, DemoAssumption DEF AgentTimesOut, Goes, Ending, DemoInv, DemoTypeOK, Guarded, Holds, Active, Ended, Runs
<1>13. ASSUME NEW r \in Runs, AnswersNobody(r) PROVE Guarded'
  BY <1>13, DemoAssumption DEF AnswersNobody, NoHandler, DemoInv, DemoTypeOK, Guarded, Holds, Active, Ended, Runs
<1>14. ASSUME NEW r \in Runs, Finally(r) PROVE Guarded'
  <2>1. \A s \in Runs : run'[s].at = IF s = r THEN "over" ELSE run[s].at
    BY <1>14, GoesPlaces, TypeParts DEF Finally, DemoInv
  <2>2. Active(r)
    BY <1>14 DEF Finally, Active, Ended
  <2>3. CASE r \in Posts
    <3>1. ASSUME NEW p \in Posts PROVE ~ Holds(p)'
      <4>1. Holds(p) => p = r
        BY <2>2, <2>3, <3>1 DEF DemoInv, Guarded, Holds
      <4>2. QED
        BY <2>1, <3>1, <4>1 DEF Holds, Active, Ended, Runs
    <3>2. QED
      BY <3>1 DEF Guarded
  <2>4. CASE r \notin Posts
    BY <1>14, <2>4 DEF Finally, DemoInv, PlaceInv
  <2>5. QED
    BY <2>3, <2>4
<1>15. CASE NextHour
  BY <1>15, DemoAssumption DEF NextHour, DemoInv, DemoTypeOK, Guarded, Holds, Active, Ended, Runs
<1>16. ASSUME NEW r \in Runs, StartThread(r) PROVE Guarded'
  BY <1>16, DemoAssumption DEF StartThread, Goes, DemoInv, DemoTypeOK, Guarded, Holds, Active, Ended, Runs
<1>17. ASSUME NEW r \in Runs, ThreadFails(r) PROVE Guarded'
  BY <1>17, DemoAssumption DEF ThreadFails, Goes, DemoInv, DemoTypeOK, Guarded, Holds, Active, Ended, Runs
<1>18. QED
  BY <1>1, <1>2, <1>3, <1>4, <1>5, <1>6, <1>7, <1>8, <1>9, <1>10, <1>11, <1>12, <1>13, <1>14, <1>15,
     <1>16, <1>17
  DEF DemoNext, ServerStep, BatchStep, CallFails

\* Only a POST goes to the places that a thread has.
LEMMA PlaceKept ==
    ASSUME DemoInv, DemoNext PROVE PlaceInv'
<1> USE DemoAssumption DEF PlaceInv
<1>0. RunTyped /\ PlaceInv
  BY TypeParts DEF DemoInv
<1>1. ASSUME NEW r \in Runs, NEW t \in Totals, Post(r, t) PROVE PlaceInv'
  BY <1>0, <1>1, GoesPlaces DEF Post, RunTyped, RunDocs
<1>2. ASSUME NEW r \in Runs, NEW t \in ScriptTotals, Script(r, t) PROVE PlaceInv'
  BY <1>0, <1>2, GoesPlaces DEF Script, RunTyped, RunDocs
<1>3. ASSUME NEW r \in Runs, BuildAgents(r) PROVE PlaceInv'
  BY <1>0, <1>3, GoesPlaces DEF BuildAgents
<1>4. ASSUME NEW r \in Runs, AskPrice(r) PROVE PlaceInv'
  BY <1>0, <1>4 DEF AskPrice, RunTyped, RunDocs, Ending
<1>5. ASSUME NEW r \in Runs, PayAndRetry(r) PROVE PlaceInv'
  BY <1>0, <1>5, GoesPlaces DEF PayAndRetry, Ending
<1>6. ASSUME NEW r \in Runs, ServeHit(r) PROVE PlaceInv'
  BY <1>0, <1>6 DEF ServeHit
<1>7. ASSUME NEW r \in Runs, Mint(r) PROVE PlaceInv'
  BY <1>0, <1>7 DEF Mint
<1>8. ASSUME NEW r \in Runs, Store(r) PROVE PlaceInv'
  BY <1>0, <1>8 DEF Store
<1>9. ASSUME NEW r \in Runs, Answered(r) PROVE PlaceInv'
  BY <1>0, <1>9 DEF Answered, RunTyped, RunDocs, Ending
<1>10. ASSUME NEW r \in Runs, ModelFails(r) PROVE PlaceInv'
  BY <1>0, <1>10, GoesPlaces DEF ModelFails, Ending
<1>11. ASSUME NEW r \in Runs, CallRaises(r) PROVE PlaceInv'
  BY <1>0, <1>11, GoesPlaces DEF CallRaises, Ending
<1>12. ASSUME NEW r \in Runs, AgentTimesOut(r) PROVE PlaceInv'
  BY <1>0, <1>12, GoesPlaces DEF AgentTimesOut, Ending
<1>13. ASSUME NEW r \in Runs, AnswersNobody(r) PROVE PlaceInv'
  BY <1>0, <1>13 DEF AnswersNobody
<1>14. ASSUME NEW r \in Runs, Finally(r) PROVE PlaceInv'
  BY <1>0, <1>14, GoesPlaces DEF Finally
<1>15. CASE NextHour
  BY <1>0, <1>15 DEF NextHour
<1>16. ASSUME NEW r \in Runs, StartThread(r) PROVE PlaceInv'
  BY <1>0, <1>16, GoesPlaces DEF StartThread
<1>17. ASSUME NEW r \in Runs, ThreadFails(r) PROVE PlaceInv'
  BY <1>0, <1>17, GoesPlaces DEF ThreadFails
<1>18. QED
  BY <1>1, <1>2, <1>3, <1>4, <1>5, <1>6, <1>7, <1>8, <1>9, <1>10, <1>11, <1>12, <1>13, <1>14, <1>15,
     <1>16, <1>17
  DEF DemoNext, ServerStep, BatchStep, CallFails

\* A paid call is the last thing that a batch starts until it is answered.
LEMMA HandlerKept ==
    ASSUME DemoInv, DemoNext PROVE HandlerInv'
<1>1. ASSUME NEW r \in Runs, NEW t \in Totals, Post(r, t) PROVE HandlerInv'
  BY <1>1, DemoAssumption DEF Post, InRange, TakeFlag, MaxTotal, Goes, DemoInv, DemoTypeOK, HandlerInv
<1>2. ASSUME NEW r \in Runs, NEW t \in ScriptTotals, Script(r, t) PROVE HandlerInv'
  BY <1>2, DemoAssumption DEF Script, Goes, DemoInv, DemoTypeOK, HandlerInv
<1>3. ASSUME NEW r \in Runs, BuildAgents(r) PROVE HandlerInv'
  BY <1>3, DemoAssumption DEF BuildAgents, Goes, DemoInv, DemoTypeOK, HandlerInv
<1>4. ASSUME NEW r \in Runs, AskPrice(r) PROVE HandlerInv'
  BY <1>4, DemoAssumption DEF AskPrice, PriceNow, HitPrice, FullPrice, DemoInv, DemoTypeOK, HandlerInv
<1>5. ASSUME NEW r \in Runs, PayAndRetry(r) PROVE HandlerInv'
  <2>1. CASE run[r].hour # hour \/ run[r].price < PriceNow
    <3>1. \A s \in Runs : run'[s].at = IF s = r THEN Ending(r) ELSE run[s].at
      BY <1>5, <2>1, GoesPlaces, TypeParts DEF PayAndRetry, DemoInv
    <3>2. handler' = handler /\ Ending(r) \in {"finally", "over"}
      BY <1>5, <2>1 DEF PayAndRetry, Ending
    <3>3. QED
      BY <3>1, <3>2 DEF DemoInv, HandlerInv
  <2>2. CASE ~ (run[r].hour # hour \/ run[r].price < PriceNow)
    <3>1. \A s \in Runs : run'[s].at = IF s = r THEN "waiting" ELSE run[s].at
      BY <1>5, <2>2, GoesPlaces, TypeParts DEF PayAndRetry, DemoInv
    <3>2. \A s \in Runs \ {r} : handler'[s] = handler[s]
      BY <1>5, <2>2, TypeParts DEF PayAndRetry, DemoInv, HandlerTyped
    <3>3. QED
      BY <3>1, <3>2 DEF DemoInv, HandlerInv
  <2>3. QED
    BY <2>1, <2>2
<1>6. ASSUME NEW r \in Runs, ServeHit(r) PROVE HandlerInv'
  BY <1>6, DemoAssumption DEF ServeHit, DemoInv, DemoTypeOK, HandlerInv
<1>7. ASSUME NEW r \in Runs, Mint(r) PROVE HandlerInv'
  BY <1>7, DemoAssumption DEF Mint, MintEvent, DemoInv, DemoTypeOK, HandlerInv
<1>8. ASSUME NEW r \in Runs, Store(r) PROVE HandlerInv'
  BY <1>8, DemoAssumption DEF Store, DemoInv, DemoTypeOK, HandlerInv
<1>9. ASSUME NEW r \in Runs, Answered(r) PROVE HandlerInv'
  BY <1>9, DemoAssumption DEF Answered, NoHandler, Ending, DemoInv, DemoTypeOK, HandlerInv
<1>10. ASSUME NEW r \in Runs, ModelFails(r) PROVE HandlerInv'
  BY <1>10, DemoAssumption DEF ModelFails, NoHandler, Goes, Ending, DemoInv, DemoTypeOK, HandlerInv
<1>11. ASSUME NEW r \in Runs, CallRaises(r) PROVE HandlerInv'
  BY <1>11, DemoAssumption DEF CallRaises, Goes, Ending, DemoInv, DemoTypeOK, HandlerInv
<1>12. ASSUME NEW r \in Runs, AgentTimesOut(r) PROVE HandlerInv'
  BY <1>12, DemoAssumption DEF AgentTimesOut, Goes, Ending, DemoInv, DemoTypeOK, HandlerInv
<1>13. ASSUME NEW r \in Runs, AnswersNobody(r) PROVE HandlerInv'
  BY <1>13, DemoAssumption DEF AnswersNobody, NoHandler, DemoInv, DemoTypeOK, HandlerInv
<1>14. ASSUME NEW r \in Runs, Finally(r) PROVE HandlerInv'
  BY <1>14, DemoAssumption DEF Finally, Goes, DemoInv, DemoTypeOK, HandlerInv
<1>15. CASE NextHour
  BY <1>15, DemoAssumption DEF NextHour, DemoInv, DemoTypeOK, HandlerInv
<1>16. ASSUME NEW r \in Runs, StartThread(r) PROVE HandlerInv'
  BY <1>16, DemoAssumption DEF StartThread, Goes, DemoInv, DemoTypeOK, HandlerInv
<1>17. ASSUME NEW r \in Runs, ThreadFails(r) PROVE HandlerInv'
  BY <1>17, DemoAssumption DEF ThreadFails, Goes, DemoInv, DemoTypeOK, HandlerInv
<1>18. QED
  BY <1>1, <1>2, <1>3, <1>4, <1>5, <1>6, <1>7, <1>8, <1>9, <1>10, <1>11, <1>12, <1>13, <1>14, <1>15,
     <1>16, <1>17
  DEF DemoNext, ServerStep, BatchStep, CallFails

\* A batch starts beside another one, or beside a handler, only if it races.
LEMMA ExclusiveKept ==
    ASSUME DemoInv, DemoNext PROVE Exclusive'
<1>1. ASSUME NEW r \in Runs, NEW t \in Totals, Post(r, t) PROVE Exclusive'
  <2>1. CASE ~ InRange(t) \/ running
    <3>1. \A s \in Runs : run'[s].at = IF s = r THEN "refused" ELSE run[s].at
      BY <1>1, <2>1, GoesPlaces, TypeParts DEF Post, DemoInv
    <3>2. handler' = handler /\ raced' = raced
      BY <1>1, <2>1 DEF Post
    <3>3. QED
      BY <3>1, <3>2 DEF DemoInv, Exclusive, Engaged, Active, Ended
  <2>2. CASE ~ (~ InRange(t) \/ running)
    <3>1. \A s \in Runs : run'[s].at = IF s = r THEN "flagged" ELSE run[s].at
      BY <1>1, <2>2, TypeParts DEF Post, DemoInv, RunTyped, RunDocs
    <3>2. ~ raced' => ~ raced /\ ~ Unguarded(r)
      BY <1>1, <2>2 DEF Post
    <3>3. r \in Posts /\ ~ running /\ handler' = handler
      BY <1>1, <2>2 DEF Post
    <3>4. ASSUME ~ raced', NEW q \in Runs \ {r} PROVE ~ Engaged(q)'
      <4>1. ~ Unguarded(r)
        BY <3>2, <3>4
      <4>2. ~ Active(q)
        <5>1. CASE q \in Scripts
          BY <4>1, <5>1 DEF Unguarded
        <5>2. CASE q \in Posts
          BY <3>3, <5>2 DEF DemoInv, Guarded, Holds
        <5>3. QED
          BY <5>1, <5>2 DEF Runs
      <4>3. handler[q].at \notin {"infer", "store"}
        BY <4>1, <4>2 DEF Unguarded, Busy
      <4>4. QED
        BY <3>1, <3>3, <4>2, <4>3 DEF Engaged, Active
    <3>5. QED
      BY <3>4 DEF Exclusive
  <2>3. QED
    BY <2>1, <2>2
<1>2. ASSUME NEW r \in Runs, NEW t \in ScriptTotals, Script(r, t) PROVE Exclusive'
  <2>1. CASE t < 1
    <3>1. \A s \in Runs : run'[s].at = IF s = r THEN "refused" ELSE run[s].at
      BY <1>2, <2>1, GoesPlaces, TypeParts DEF Script, DemoInv
    <3>2. handler' = handler /\ raced' = raced
      BY <1>2, <2>1 DEF Script
    <3>3. QED
      BY <3>1, <3>2 DEF DemoInv, Exclusive, Engaged, Active, Ended
  <2>2. CASE ~ (t < 1)
    <3>1. \A s \in Runs : run'[s].at = IF s = r THEN "call" ELSE run[s].at
      BY <1>2, <2>2, TypeParts DEF Script, DemoInv, RunTyped, RunDocs
    <3>2. ~ raced' => ~ raced /\ ~ Unguarded(r)
      BY <1>2, <2>2 DEF Script
    <3>3. r \in Scripts /\ handler' = handler
      BY <1>2, <2>2 DEF Script
    <3>4. ASSUME ~ raced', NEW q \in Runs \ {r} PROVE ~ Engaged(q)'
      <4>1. ~ Unguarded(r)
        BY <3>2, <3>4
      <4>2. ~ Active(q)
        BY <3>3, <4>1 DEF Unguarded
      <4>3. handler[q].at \notin {"infer", "store"}
        BY <4>1, <4>2 DEF Unguarded, Busy
      <4>4. QED
        BY <3>1, <3>3, <4>2, <4>3 DEF Engaged, Active
    <3>5. QED
      BY <3>4 DEF Exclusive
  <2>3. QED
    BY <2>1, <2>2
<1>3. ASSUME NEW r \in Runs, BuildAgents(r) PROVE Exclusive'
  BY <1>3, DemoAssumption DEF BuildAgents, Goes, DemoInv, DemoTypeOK, Guarded, Holds, HandlerInv, Exclusive, Engaged, Active, Ended, Busy, Unguarded, Runs
<1>4. ASSUME NEW r \in Runs, AskPrice(r) PROVE Exclusive'
  BY <1>4, DemoAssumption DEF AskPrice, PriceNow, HitPrice, FullPrice, DemoInv, DemoTypeOK, Guarded, Holds, HandlerInv, Exclusive, Engaged, Active, Ended, Busy, Unguarded, Runs
<1>5. ASSUME NEW r \in Runs, PayAndRetry(r) PROVE Exclusive'
  BY <1>5, DemoAssumption DEF PayAndRetry, Goes, Ending, DemoInv, DemoTypeOK, Guarded, Holds, HandlerInv, Exclusive, Engaged, Active, Ended, Busy, Unguarded, Runs
<1>6. ASSUME NEW r \in Runs, ServeHit(r) PROVE Exclusive'
  BY <1>6, DemoAssumption DEF ServeHit, DemoInv, DemoTypeOK, Guarded, Holds, HandlerInv, Exclusive, Engaged, Active, Ended, Busy, Unguarded, Runs
<1>7. ASSUME NEW r \in Runs, Mint(r) PROVE Exclusive'
  BY <1>7, DemoAssumption DEF Mint, MintEvent, DemoInv, DemoTypeOK, Guarded, Holds, HandlerInv, Exclusive, Engaged, Active, Ended, Busy, Unguarded, Runs
<1>8. ASSUME NEW r \in Runs, Store(r) PROVE Exclusive'
  BY <1>8, DemoAssumption DEF Store, DemoInv, DemoTypeOK, Guarded, Holds, HandlerInv, Exclusive, Engaged, Active, Ended, Busy, Unguarded, Runs
<1>9. ASSUME NEW r \in Runs, Answered(r) PROVE Exclusive'
  BY <1>9, DemoAssumption DEF Answered, NoHandler, Ending, DemoInv, DemoTypeOK, Guarded, Holds, HandlerInv, Exclusive, Engaged, Active, Ended, Busy, Unguarded, Runs
<1>10. ASSUME NEW r \in Runs, ModelFails(r) PROVE Exclusive'
  BY <1>10, DemoAssumption DEF ModelFails, NoHandler, Goes, Ending, DemoInv, DemoTypeOK, Guarded, Holds, HandlerInv, Exclusive, Engaged, Active, Ended, Busy, Unguarded, Runs
<1>11. ASSUME NEW r \in Runs, CallRaises(r) PROVE Exclusive'
  BY <1>11, DemoAssumption DEF CallRaises, Goes, Ending, DemoInv, DemoTypeOK, Guarded, Holds, HandlerInv, Exclusive, Engaged, Active, Ended, Busy, Unguarded, Runs
<1>12. ASSUME NEW r \in Runs, AgentTimesOut(r) PROVE Exclusive'
  BY <1>12, DemoAssumption DEF AgentTimesOut, Goes, Ending, DemoInv, DemoTypeOK, Guarded, Holds, HandlerInv, Exclusive, Engaged, Active, Ended, Busy, Unguarded, Runs
<1>13. ASSUME NEW r \in Runs, AnswersNobody(r) PROVE Exclusive'
  BY <1>13, DemoAssumption DEF AnswersNobody, NoHandler, DemoInv, DemoTypeOK, Guarded, Holds, HandlerInv, Exclusive, Engaged, Active, Ended, Busy, Unguarded, Runs
<1>14. ASSUME NEW r \in Runs, Finally(r) PROVE Exclusive'
  BY <1>14, DemoAssumption DEF Finally, Goes, DemoInv, DemoTypeOK, Guarded, Holds, HandlerInv, Exclusive, Engaged, Active, Ended, Busy, Unguarded, Runs
<1>15. CASE NextHour
  BY <1>15, DemoAssumption DEF NextHour, DemoInv, DemoTypeOK, Guarded, Holds, HandlerInv, Exclusive, Engaged, Active, Ended, Busy, Unguarded, Runs
<1>16. ASSUME NEW r \in Runs, StartThread(r) PROVE Exclusive'
  BY <1>16, DemoAssumption DEF StartThread, Goes, DemoInv, DemoTypeOK, Guarded, Holds, HandlerInv, Exclusive, Engaged, Active, Ended, Busy, Unguarded, Runs
<1>17. ASSUME NEW r \in Runs, ThreadFails(r) PROVE Exclusive'
  BY <1>17, DemoAssumption DEF ThreadFails, Goes, DemoInv, DemoTypeOK, Guarded, Holds, HandlerInv, Exclusive, Engaged, Active, Ended, Busy, Unguarded, Runs
<1>18. QED
  BY <1>1, <1>2, <1>3, <1>4, <1>5, <1>6, <1>7, <1>8, <1>9, <1>10, <1>11, <1>12, <1>13, <1>14, <1>15,
     <1>16, <1>17
  DEF DemoNext, ServerStep, BatchStep, CallFails

\* The only batch that is engaged infers for hours that are not in the memo.
LEMMA MintKept ==
    ASSUME DemoInv, DemoNext PROVE MintInv'
<1>1. ASSUME NEW r \in Runs, NEW t \in Totals, Post(r, t) PROVE MintInv'
  BY <1>1, DemoAssumption DEF Post, InRange, TakeFlag, MaxTotal, Goes, DemoInv, DemoTypeOK, Guarded, Holds, HandlerInv, Exclusive, Engaged, Active, Ended, MintInv
<1>2. ASSUME NEW r \in Runs, NEW t \in ScriptTotals, Script(r, t) PROVE MintInv'
  BY <1>2, DemoAssumption DEF Script, Goes, DemoInv, DemoTypeOK, Guarded, Holds, HandlerInv, Exclusive, Engaged, Active, Ended, MintInv
<1>3. ASSUME NEW r \in Runs, BuildAgents(r) PROVE MintInv'
  BY <1>3, DemoAssumption DEF BuildAgents, Goes, DemoInv, DemoTypeOK, Guarded, Holds, HandlerInv, Exclusive, Engaged, Active, Ended, MintInv
<1>4. ASSUME NEW r \in Runs, AskPrice(r) PROVE MintInv'
  BY <1>4, DemoAssumption DEF AskPrice, PriceNow, HitPrice, FullPrice, DemoInv, DemoTypeOK, Guarded, Holds, HandlerInv, Exclusive, Engaged, Active, Ended, MintInv
<1>5. ASSUME NEW r \in Runs, PayAndRetry(r) PROVE MintInv'
  <2>1. CASE run[r].hour # hour \/ run[r].price < PriceNow
    BY <1>5, <2>1 DEF PayAndRetry, DemoInv, MintInv
  <2>2. CASE ~ (run[r].hour # hour \/ run[r].price < PriceNow)
    <3> DEFINE d == [at |-> IF hour \in memo THEN "hit" ELSE "infer", hour |-> hour]
    <3>1. /\ \A q \in Runs : handler'[q] = IF q = r THEN d ELSE handler[q]
          /\ log'.minted = log.minted /\ memo' = memo /\ raced' = raced
      BY <1>5, <2>2, TypeParts DEF PayAndRetry, DemoInv, HandlerTyped, LogTyped
    <3>2. Active(r) /\ hour \in Hours
      BY <1>5, TypeParts DEF PayAndRetry, Active, Ended, DemoInv, RestTyped
    <3>3. ~ raced => \A q \in Runs : handler[q].at = "store" => q = r
      BY <3>2 DEF DemoInv, Exclusive, Engaged
    <3>4. handler[r].at # "store"
      BY <1>5 DEF PayAndRetry, DemoInv, HandlerInv
    <3>5. ~ raced /\ hour \notin memo => log.minted[hour] = 0
      BY <3>2, <3>3, <3>4, TypeParts DEF DemoInv, MintInv, LogTyped
    <3>6. QED
      BY <3>1, <3>3, <3>4, <3>5 DEF DemoInv, MintInv
  <2>3. QED
    BY <2>1, <2>2
<1>6. ASSUME NEW r \in Runs, ServeHit(r) PROVE MintInv'
  BY <1>6, DemoAssumption DEF ServeHit, DemoInv, DemoTypeOK, Guarded, Holds, HandlerInv, Exclusive, Engaged, Active, Ended, MintInv
<1>7. ASSUME NEW r \in Runs, Mint(r) PROVE MintInv'
  BY <1>7, DemoAssumption DEF Mint, MintEvent, DemoInv, DemoTypeOK, Guarded, Holds, HandlerInv, Exclusive, Engaged, Active, Ended, MintInv
<1>8. ASSUME NEW r \in Runs, Store(r) PROVE MintInv'
  BY <1>8, DemoAssumption DEF Store, DemoInv, DemoTypeOK, Guarded, Holds, HandlerInv, Exclusive, Engaged, Active, Ended, MintInv
<1>9. ASSUME NEW r \in Runs, Answered(r) PROVE MintInv'
  BY <1>9, DemoAssumption DEF Answered, NoHandler, Ending, DemoInv, DemoTypeOK, Guarded, Holds, HandlerInv, Exclusive, Engaged, Active, Ended, MintInv
<1>10. ASSUME NEW r \in Runs, ModelFails(r) PROVE MintInv'
  BY <1>10, DemoAssumption DEF ModelFails, NoHandler, Goes, Ending, DemoInv, DemoTypeOK, Guarded, Holds, HandlerInv, Exclusive, Engaged, Active, Ended, MintInv
<1>11. ASSUME NEW r \in Runs, CallRaises(r) PROVE MintInv'
  BY <1>11, DemoAssumption DEF CallRaises, Goes, Ending, DemoInv, DemoTypeOK, Guarded, Holds, HandlerInv, Exclusive, Engaged, Active, Ended, MintInv
<1>12. ASSUME NEW r \in Runs, AgentTimesOut(r) PROVE MintInv'
  BY <1>12, DemoAssumption DEF AgentTimesOut, Goes, Ending, DemoInv, DemoTypeOK, Guarded, Holds, HandlerInv, Exclusive, Engaged, Active, Ended, MintInv
<1>13. ASSUME NEW r \in Runs, AnswersNobody(r) PROVE MintInv'
  BY <1>13, DemoAssumption DEF AnswersNobody, NoHandler, DemoInv, DemoTypeOK, Guarded, Holds, HandlerInv, Exclusive, Engaged, Active, Ended, MintInv
<1>14. ASSUME NEW r \in Runs, Finally(r) PROVE MintInv'
  BY <1>14, DemoAssumption DEF Finally, Goes, DemoInv, DemoTypeOK, Guarded, Holds, HandlerInv, Exclusive, Engaged, Active, Ended, MintInv
<1>15. CASE NextHour
  BY <1>15, DemoAssumption DEF NextHour, DemoInv, DemoTypeOK, Guarded, Holds, HandlerInv, Exclusive, Engaged, Active, Ended, MintInv
<1>16. ASSUME NEW r \in Runs, StartThread(r) PROVE MintInv'
  BY <1>16, DemoAssumption DEF StartThread, Goes, DemoInv, DemoTypeOK, Guarded, Holds, HandlerInv, Exclusive, Engaged, Active, Ended, MintInv
<1>17. ASSUME NEW r \in Runs, ThreadFails(r) PROVE MintInv'
  BY <1>17, DemoAssumption DEF ThreadFails, Goes, DemoInv, DemoTypeOK, Guarded, Holds, HandlerInv, Exclusive, Engaged, Active, Ended, MintInv
<1>18. QED
  BY <1>1, <1>2, <1>3, <1>4, <1>5, <1>6, <1>7, <1>8, <1>9, <1>10, <1>11, <1>12, <1>13, <1>14, <1>15,
     <1>16, <1>17
  DEF DemoNext, ServerStep, BatchStep, CallFails

LEMMA StepDemo == DemoInv /\ [DemoNext]_demoVars => DemoInv'
<1>1. CASE DemoNext
  BY <1>1, TypeKept, GuardedKept, PlaceKept, ExclusiveKept, HandlerKept, MintKept
  DEF DemoInv
<1>2. CASE UNCHANGED demoVars
  BY <1>2 DEF demoVars, DemoInv, DemoTypeOK, Guarded, Holds, PlaceInv, Exclusive, HandlerInv,
    MintInv, Engaged, Active
<1>3. QED
  BY <1>1, <1>2

LEMMA DemoInvariant == DemoSpec => []DemoInv
BY InitDemo, StepDemo, PTL DEF DemoSpec

------------------------------------------------------------------------------
(* The metrics: each payment is a hit, a miss, or a handler at work on one.   *)
At(x) == {r \in Runs : handler[r].at = x}
AtHit == At("hit")
AtInfer == At("infer")

MetricsInv ==
    LET h == Cardinality(AtHit)  m == Cardinality(AtInfer) IN
    /\ IsFiniteSet(AtHit) /\ IsFiniteSet(AtInfer)
    /\ log.hits + h + (log.misses + m) <= log.paid
    /\ fails = 0 => log.hits + h + (log.misses + m) = log.paid
    /\ log.volume >= FullPrice * (log.misses + m) + HitPrice * (log.hits + h)

LEMMA InitMetrics == DemoInit => MetricsInv
<1> SUFFICES ASSUME DemoInit PROVE MetricsInv
  OBVIOUS
<1>1. AtHit = {} /\ AtInfer = {}
  BY DEF DemoInit, AtHit, AtInfer, At, NoHandler
<1>2. IsFiniteSet({}) /\ Cardinality({}) = 0
  BY FS_EmptySet
<1>3. log.hits = 0 /\ log.misses = 0 /\ log.paid = 0 /\ log.volume = 0
  BY DEF DemoInit
<1>4. QED
  BY <1>1, <1>2, <1>3 DEF MetricsInv, FullPrice, HitPrice

\* A handler that comes to x adds one to those at x, and one that leaves x
\* takes one away.
LEMMA AtMoves ==
    ASSUME HandlerTyped, NEW r \in Runs, NEW d \in HandlerDocs,
           handler' = [handler EXCEPT ![r] = d], NEW x, IsFiniteSet(At(x))
    PROVE  /\ IsFiniteSet(At(x)')
           /\ Cardinality(At(x)) \in Nat /\ Cardinality(At(x)') \in Nat
           /\ d.at = x /\ handler[r].at # x
                => Cardinality(At(x)') = Cardinality(At(x)) + 1
           /\ d.at # x /\ handler[r].at = x
                => Cardinality(At(x)) = Cardinality(At(x)') + 1
           /\ (d.at = x <=> handler[r].at = x) => At(x)' = At(x)
<1>1. \A s \in Runs : handler'[s] = IF s = r THEN d ELSE handler[s]
  BY DEF HandlerTyped
<1>2. Cardinality(At(x)) \in Nat
  BY FS_CardinalityType
<1>3. CASE d.at = x /\ handler[r].at # x
  <2>1. At(x)' = At(x) \union {r} /\ r \notin At(x)
    BY <1>1, <1>3 DEF At
  <2>2. IsFiniteSet(At(x) \union {r})
        /\ Cardinality(At(x) \union {r}) = Cardinality(At(x)) + 1
    BY <2>1, FS_AddElement
  <2>3. QED
    BY <1>2, <1>3, <2>1, <2>2
<1>4. CASE d.at # x /\ handler[r].at = x
  <2>1. At(x)' = At(x) \ {r} /\ r \in At(x)
    BY <1>1, <1>4 DEF At
  <2>2. IsFiniteSet(At(x) \ {r})
        /\ Cardinality(At(x) \ {r}) = Cardinality(At(x)) - 1
    BY <2>1, FS_RemoveElement
  <2>3. Cardinality(At(x) \ {r}) \in Nat
    BY <2>2, FS_CardinalityType
  <2>4. QED
    BY <1>2, <1>4, <2>1, <2>2, <2>3
<1>5. CASE d.at = x <=> handler[r].at = x
  <2>1. At(x)' = At(x)
    BY <1>1, <1>5 DEF At
  <2>2. QED
    BY <1>2, <1>5, <2>1
<1>6. QED
  BY <1>3, <1>4, <1>5

\* The sums, as numbers: a payment, a hit, a miss, a handler that gives up.
Sums(h, m, hits, misses, paid, volume, exact) ==
    /\ hits + h + (misses + m) <= paid
    /\ exact => hits + h + (misses + m) = paid
    /\ volume >= FullPrice * (misses + m) + HitPrice * (hits + h)

LEMMA SumsMove ==
    ASSUME NEW h \in Nat, NEW m \in Nat, NEW hits \in Nat, NEW misses \in Nat,
           NEW paid \in Nat, NEW volume \in Nat, NEW exact \in BOOLEAN,
           Sums(h, m, hits, misses, paid, volume, exact)
    PROVE  /\ \A p \in Nat : p >= HitPrice =>
                Sums(h + 1, m, hits, misses, paid + 1, volume + p, exact)
           /\ \A p \in Nat : p >= FullPrice =>
                Sums(h, m + 1, hits, misses, paid + 1, volume + p, exact)
           /\ \A k \in Nat : h = k + 1 => Sums(k, m, hits + 1, misses, paid, volume, exact)
           /\ \A k \in Nat : m = k + 1 => Sums(h, k, hits, misses + 1, paid, volume, exact)
           /\ \A k \in Nat : m = k + 1 => Sums(h, k, hits, misses, paid, volume, FALSE)
           /\ Sums(h, m, hits, misses, paid, volume, FALSE)
BY DEF Sums, FullPrice, HitPrice

LEMMA MetricsAreSums ==
    MetricsInv <=> /\ IsFiniteSet(AtHit) /\ IsFiniteSet(AtInfer)
                   /\ Sums(Cardinality(AtHit), Cardinality(AtInfer), log.hits, log.misses,
                           log.paid, log.volume, fails = 0)
BY DEF MetricsInv, Sums

LEMMA MetricsKept ==
    ASSUME DemoInv, MetricsInv, [DemoNext]_demoVars PROVE MetricsInv'
<1> DEFINE h == Cardinality(AtHit)
           m == Cardinality(AtInfer)
<1>0. RunTyped /\ HandlerTyped /\ LogTyped /\ RestTyped
  BY TypeParts DEF DemoInv
<1>1. /\ log.hits \in Nat /\ log.misses \in Nat /\ log.paid \in Nat /\ log.volume \in Nat
      /\ h \in Nat /\ m \in Nat /\ fails \in Nat
      /\ IsFiniteSet(AtHit) /\ IsFiniteSet(AtInfer)
  BY <1>0, FS_CardinalityType, DemoAssumption DEF LogTyped, RestTyped, MetricsInv
<1>2. Sums(h, m, log.hits, log.misses, log.paid, log.volume, fails = 0)
  BY MetricsAreSums
<1>3. ASSUME UNCHANGED <<handler, log>>, fails' \in Nat, fails' = 0 => fails = 0
      PROVE  MetricsInv'
  <2>1. AtHit' = AtHit /\ AtInfer' = AtInfer
    BY <1>3 DEF AtHit, AtInfer, At
  <2>2. QED
    BY <1>3, <2>1 DEF MetricsInv
<1>4. ASSUME NEW r \in Runs, NEW d \in HandlerDocs,
             handler' = [handler EXCEPT ![r] = d], UNCHANGED <<log, fails>>,
             handler[r].at \notin {"hit", "infer"}, d.at \notin {"hit", "infer"}
      PROVE  MetricsInv'
  <2>1. AtHit' = AtHit /\ AtInfer' = AtInfer
    BY <1>0, <1>1, <1>4, AtMoves DEF AtHit, AtInfer
  <2>2. QED
    BY <1>4, <2>1 DEF MetricsInv
<1>5. ASSUME NEW r \in Runs, PayAndRetry(r) PROVE MetricsInv'
  <2>1. CASE run[r].hour # hour \/ run[r].price < PriceNow
    BY <1>1, <1>3, <1>5, <2>1 DEF PayAndRetry
  <2>2. CASE ~ (run[r].hour # hour \/ run[r].price < PriceNow)
    <3> DEFINE d == [at |-> IF hour \in memo THEN "hit" ELSE "infer", hour |-> hour]
    <3>1. d \in HandlerDocs /\ handler' = [handler EXCEPT ![r] = d] /\ fails' = fails
      BY <1>0, <1>5, <2>2 DEF PayAndRetry, HandlerDocs, RestTyped
    <3>2. handler[r].at = "none"
      BY <1>5 DEF PayAndRetry, DemoInv, HandlerInv
    <3>3. /\ log'.paid = log.paid + 1 /\ log'.volume = log.volume + run[r].price
          /\ log'.hits = log.hits /\ log'.misses = log.misses
      BY <1>0, <1>5, <2>2 DEF PayAndRetry, LogTyped
    <3>4. run[r].price \in Nat /\ run[r].price >= PriceNow
      BY <1>0, <2>2 DEF RunTyped, RunDocs, PriceNow, HitPrice, FullPrice
    <3>5. CASE hour \in memo
      <4>1. d.at = "hit" /\ run[r].price >= HitPrice
        BY <3>4, <3>5 DEF PriceNow
      <4>2. /\ AtInfer' = AtInfer /\ Cardinality(AtHit') = h + 1 /\ IsFiniteSet(AtHit')
        BY <1>0, <1>1, <3>1, <3>2, <4>1, AtMoves DEF AtHit, AtInfer
      <4>3. Sums(h + 1, m, log.hits, log.misses, log.paid + 1,
                 log.volume + run[r].price, fails = 0)
        BY <1>1, <1>2, <3>4, <4>1, SumsMove
      <4>4. QED
        BY <1>1, <3>1, <3>3, <4>2, <4>3 DEF MetricsInv, Sums
    <3>6. CASE hour \notin memo
      <4>1. d.at = "infer" /\ run[r].price >= FullPrice
        BY <3>4, <3>6 DEF PriceNow
      <4>2. /\ AtHit' = AtHit /\ Cardinality(AtInfer') = m + 1 /\ IsFiniteSet(AtInfer')
        BY <1>0, <1>1, <3>1, <3>2, <4>1, AtMoves DEF AtHit, AtInfer
      <4>3. Sums(h, m + 1, log.hits, log.misses, log.paid + 1,
                 log.volume + run[r].price, fails = 0)
        BY <1>1, <1>2, <3>4, <4>1, SumsMove
      <4>4. QED
        BY <1>1, <3>1, <3>3, <4>2, <4>3 DEF MetricsInv, Sums
    <3>7. QED
      BY <3>5, <3>6
  <2>3. QED
    BY <2>1, <2>2
<1>6. ASSUME NEW r \in Runs, ServeHit(r) PROVE MetricsInv'
  <2> DEFINE d == [handler[r] EXCEPT !.at = "answer"]
  <2>1. d \in HandlerDocs /\ d.at = "answer" /\ handler' = [handler EXCEPT ![r] = d]
        /\ handler[r].at = "hit" /\ fails' = fails
    BY <1>0, <1>6 DEF ServeHit, HandlerTyped, HandlerDocs
  <2> HIDE DEF d
  <2>2. AtInfer' = AtInfer /\ h = Cardinality(AtHit') + 1 /\ IsFiniteSet(AtHit')
        /\ Cardinality(AtHit') \in Nat
    BY <1>0, <1>1, <2>1, AtMoves DEF AtHit, AtInfer
  <2>3. /\ log'.paid = log.paid /\ log'.volume = log.volume
        /\ log'.hits = log.hits + 1 /\ log'.misses = log.misses
    BY <1>0, <1>6 DEF ServeHit, LogTyped
  <2>4. Sums(Cardinality(AtHit'), m, log.hits + 1, log.misses, log.paid, log.volume, fails = 0)
    BY <1>1, <1>2, <2>2, SumsMove
  <2>5. QED
    BY <1>1, <2>1, <2>2, <2>3, <2>4 DEF MetricsInv, Sums
<1>7. ASSUME NEW r \in Runs, Mint(r) PROVE MetricsInv'
  <2> DEFINE d == [handler[r] EXCEPT !.at = "store"]
  <2>1. d \in HandlerDocs /\ d.at = "store" /\ handler' = [handler EXCEPT ![r] = d]
        /\ handler[r].at = "infer" /\ fails' = fails
    BY <1>0, <1>7 DEF Mint, HandlerTyped, HandlerDocs
  <2> HIDE DEF d
  <2>2. AtHit' = AtHit /\ m = Cardinality(AtInfer') + 1 /\ IsFiniteSet(AtInfer')
        /\ Cardinality(AtInfer') \in Nat
    BY <1>0, <1>1, <2>1, AtMoves DEF AtHit, AtInfer
  <2>3. /\ log'.paid = log.paid /\ log'.volume = log.volume
        /\ log'.hits = log.hits /\ log'.misses = log.misses + 1
    BY <1>0, <1>7 DEF Mint, MintEvent, LogTyped
  <2>4. Sums(h, Cardinality(AtInfer'), log.hits, log.misses + 1, log.paid, log.volume, fails = 0)
    BY <1>1, <1>2, <2>2, SumsMove
  <2>5. QED
    BY <1>1, <2>1, <2>2, <2>3, <2>4 DEF MetricsInv, Sums
<1>8. ASSUME NEW r \in Runs, ModelFails(r) PROVE MetricsInv'
  <2>1. handler' = [handler EXCEPT ![r] = NoHandler] /\ handler[r].at = "infer"
        /\ log' = log /\ fails' = fails + 1 /\ NoHandler.at = "none"
    BY <1>8 DEF ModelFails, NoHandler
  <2>2. AtHit' = AtHit /\ m = Cardinality(AtInfer') + 1 /\ IsFiniteSet(AtInfer')
        /\ Cardinality(AtInfer') \in Nat
    BY <1>0, <1>1, <2>1, NobodyTyped, AtMoves DEF AtHit, AtInfer
  <2>3. fails' # 0
    BY <1>1, <2>1
  <2>4. Sums(h, Cardinality(AtInfer'), log.hits, log.misses, log.paid, log.volume, FALSE)
    BY <1>1, <1>2, <2>2, SumsMove
  <2>5. QED
    BY <1>1, <2>1, <2>2, <2>3, <2>4 DEF MetricsInv, Sums
<1>9. ASSUME NEW r \in Runs, Store(r) PROVE MetricsInv'
  <2> DEFINE d == [handler[r] EXCEPT !.at = "answer"]
  <2>1. d \in HandlerDocs /\ d.at = "answer" /\ handler' = [handler EXCEPT ![r] = d]
        /\ handler[r].at = "store" /\ UNCHANGED <<log, fails>>
    BY <1>0, <1>9 DEF Store, HandlerTyped, HandlerDocs
  <2> HIDE DEF d
  <2>2. QED
    BY <1>4, <2>1
<1>10. ASSUME NEW r \in Runs, Answered(r) \/ AnswersNobody(r) PROVE MetricsInv'
  <2>1. handler' = [handler EXCEPT ![r] = NoHandler] /\ handler[r].at = "answer"
        /\ UNCHANGED <<log, fails>> /\ NoHandler.at = "none"
    BY <1>10 DEF Answered, AnswersNobody, NoHandler
  <2>2. QED
    BY <1>4, <2>1, NobodyTyped
<1>11. ASSUME NEW r \in Runs, ThreadFails(r) \/ CallRaises(r) \/ AgentTimesOut(r)
       PROVE  MetricsInv'
  <2>1. fails' = fails + 1 /\ UNCHANGED <<handler, log>>
    BY <1>11 DEF ThreadFails, CallRaises, AgentTimesOut
  <2>2. fails' \in Nat /\ (fails' = 0 => fails = 0)
    BY <1>1, <2>1
  <2>3. QED
    BY <1>3, <2>1, <2>2
<1>12. ASSUME NEW r \in Runs,
              \/ StartThread(r) \/ BuildAgents(r) \/ AskPrice(r) \/ Finally(r)
              \/ \E t \in Totals : Post(r, t)
              \/ \E t \in ScriptTotals : Script(r, t)
       PROVE  MetricsInv'
  <2>1. UNCHANGED <<handler, log, fails>>
    BY <1>12 DEF StartThread, BuildAgents, AskPrice, Finally, Post, Script
  <2>2. QED
    BY <1>1, <1>3, <2>1
<1>13. CASE NextHour \/ UNCHANGED demoVars
  BY <1>1, <1>3, <1>13 DEF NextHour, demoVars
<1>14. QED
  BY <1>5, <1>6, <1>7, <1>8, <1>9, <1>10, <1>11, <1>12, <1>13
  DEF DemoNext, ServerStep, BatchStep, CallFails

LEMMA MetricsFit == DemoInv /\ MetricsInv => MetricsAddUp
<1> SUFFICES ASSUME DemoInv, MetricsInv PROVE MetricsAddUp
  OBVIOUS
<1>1. /\ log.hits \in Nat /\ log.misses \in Nat /\ log.paid \in Nat /\ log.volume \in Nat
      /\ Cardinality(AtHit) \in Nat /\ Cardinality(AtInfer) \in Nat
  BY TypeParts, FS_CardinalityType DEF DemoInv, LogTyped, MetricsInv
<1>2. ASSUME \A r \in Runs : handler[r].at \notin {"hit", "infer"}
      PROVE  Cardinality(AtHit) = 0 /\ Cardinality(AtInfer) = 0
  <2>1. AtHit = {} /\ AtInfer = {}
    BY <1>2 DEF AtHit, AtInfer, At
  <2>2. QED
    BY <2>1, FS_EmptySet
<1>3. QED
  BY <1>1, <1>2 DEF MetricsInv, MetricsAddUp, FullPrice, HitPrice

------------------------------------------------------------------------------
\* Every variable of DemoBatch has its type; above all, no batch of the dashboard
\* has more calls than /demo/run allows.
THEOREM DemoTypeCorrect == DemoSpec => []DemoTypeOK
BY DemoInvariant, PTL DEF DemoInv

\* The server runs the model once per hour, unless a batch started beside a
\* script, or beside a handler that a timed-out agent had left.
THEOREM MintedOnceCorrect == DemoSpec => []MintedOnce
<1>1. DemoInv => MintedOnce
  BY DEF DemoInv, MintInv, MintedOnce
<1>2. QED
  BY <1>1, DemoInvariant, PTL

\* What the dashboard shows fits the payments: each is one hit or one miss, unless
\* its call is still in the server or failed there; and the volume is at least
\* what the hits and misses cost, although the price was fixed by an earlier quote.
THEOREM MetricsAddUpCorrect == DemoSpec => []MetricsAddUp
<1>1. DemoInit => MetricsInv
  BY InitMetrics
<1>2. DemoInv /\ MetricsInv /\ [DemoNext]_demoVars => MetricsInv'
  BY MetricsKept
<1>3. QED
  BY <1>1, <1>2, DemoInvariant, MetricsFit, PTL DEF DemoSpec

------------------------------------------------------------------------------
(* Liveness: the flag is freed. The batch that holds it counts down to its    *)
(* finally clause. What ENABLED means for the two fair actions is a           *)
(* hypothesis, with the guards spelled out where the batch holds the flag.    *)
BatchTurn(p) == \/ run[p].at \in {"flagged", "thread", "call", "quoted", "finally"}
                \/ run[p].at = "waiting" /\ handler[p].at = "answer"
ServerTurn(p) == run[p].at = "waiting" /\ handler[p].at \in {"hit", "infer", "store"}

BatchOpen ==
    \A p \in Posts : /\ BatchTurn(p) => ENABLED <<BatchStep(p)>>_demoVars
                     /\ ServerTurn(p) => ENABLED <<ServerStep(p)>>_demoVars

\* A batch that is running a call has calls left, and one that waits waits for
\* a handler; the flag is set only while a POST holds it.
CountInv ==
    /\ \A p \in Posts : /\ run[p].at \in {"flagged", "thread", "call", "quoted", "waiting"}
                             => run[p].i < run[p].total
                        /\ run[p].at = "waiting" => handler[p].at # "none"
                        /\ run[p].at = "new" => run[p].i = 0
    /\ running => \E p \in Posts : Holds(p)

\* The steps that a batch has left, at most.
CallLeft(r, h) ==
    CASE r.at = "flagged" -> 9
      [] r.at = "thread" -> 8
      [] r.at = "call" -> 7
      [] r.at = "quoted" -> 6
      [] r.at = "waiting" /\ h.at = "infer" -> 5
      [] r.at = "waiting" /\ h.at \in {"hit", "store"} -> 4
      [] OTHER -> 3
BatchLeft(r, h) ==
    IF r.at = "finally" THEN 1 ELSE 9 * (r.total - r.i) + CallLeft(r, h)

Near(p, n) == Active(p) /\ BatchLeft(run[p], handler[p]) <= n

\* The batch of p goes on as r with the handler h: it ends, or is nearer to it.
Nearer(p, r, h) ==
    /\ r.at \notin Ended
    /\ BatchLeft(r, h) < BatchLeft(run[p], handler[p])
    /\ r.at \in {"flagged", "thread", "call", "quoted", "waiting"} => r.i < r.total
    /\ r.at = "waiting" => h.at # "none"

LEMMA FinallyNearer ==
    ASSUME DemoInv, CountInv, NEW p \in Posts, NEW r, NEW h, r.at = "finally",
           run[p].at \in {"flagged", "thread", "call", "quoted", "waiting"}
    PROVE  Nearer(p, r, h)
<1>1. run[p].total \in Nat /\ run[p].i \in Nat /\ run[p].i < run[p].total
  BY DEF DemoInv, DemoTypeOK, CountInv, Runs
<1>2. BatchLeft(r, h) = 1
  BY DEF BatchLeft
<1>3. CallLeft(run[p], handler[p]) \in 3..9
  BY DEF CallLeft
<1>4. BatchLeft(run[p], handler[p]) > 1
  BY <1>1, <1>3 DEF BatchLeft
<1>5. BatchLeft(run[p], handler[p]) \in Nat
  BY <1>1, <1>3 DEF BatchLeft
<1>6. QED
  BY <1>2, <1>4, <1>5 DEF Nearer, Ended

\* What a step of its own does to a batch that holds the flag.
LEMMA OwnStep ==
    ASSUME DemoInv, CountInv, NEW p \in Posts, Active(p),
           \/ BatchStep(p) \/ (CallFails(p) /\ run[p].at # "finally")
           \/ ServerStep(p) /\ ServerTurn(p)
    PROVE  \/ running' = FALSE /\ run'[p].at = "over"
           \/ run'[p].at = "failed"
           \/ Nearer(p, run'[p], handler'[p])
<1> DEFINE r == run[p]  h == handler[p]
<1>0. /\ r \in RunDocs /\ h \in HandlerDocs /\ p \in Runs
      /\ DOMAIN run = Runs /\ DOMAIN handler = Runs /\ Ending(p) = "finally"
      /\ r.at \in {"flagged", "thread", "call", "quoted", "waiting"} => r.i < r.total
  BY TypeParts DEF DemoInv, CountInv, RunTyped, HandlerTyped, Runs, Ending
<1>1. r.total \in Nat /\ r.i \in Nat
  BY <1>0 DEF RunDocs
<1>2. CASE BuildAgents(p)
  <2>1. run'[p] = [r EXCEPT !.at = "call"] /\ handler' = handler /\ r.at = "thread"
    BY <1>0, <1>2 DEF BuildAgents, Goes
  <2>2. run'[p].at = "call" /\ run'[p].total = r.total /\ run'[p].i = r.i
    BY <1>0, <2>1 DEF RunDocs
  <2>3. QED
    BY <1>0, <1>1, <2>1, <2>2 DEF Nearer, BatchLeft, CallLeft, Ended
<1>3. CASE AskPrice(p)
  <2>1. /\ run'[p] = [r EXCEPT !.at = "quoted", !.hour = hour, !.price = PriceNow]
        /\ handler' = handler /\ r.at = "call"
    BY <1>0, <1>3 DEF AskPrice
  <2>2. run'[p].at = "quoted" /\ run'[p].total = r.total /\ run'[p].i = r.i
    BY <1>0, <2>1 DEF RunDocs
  <2>3. QED
    BY <1>0, <1>1, <2>1, <2>2 DEF Nearer, BatchLeft, CallLeft, Ended
<1>4. ASSUME Goes(p, "finally"), r.at \in {"flagged", "thread", "call", "quoted", "waiting"}
      PROVE  Nearer(p, run'[p], handler'[p])
  <2>1. run'[p].at = "finally"
    BY <1>0, <1>4 DEF Goes, RunDocs
  <2>2. QED
    BY <1>4, <2>1, FinallyNearer
<1>5. CASE PayAndRetry(p)
  <2>1. CASE Goes(p, "finally")
    BY <1>4, <1>5, <2>1 DEF PayAndRetry
  <2>2. CASE Goes(p, "waiting") /\ handler'[p].at \in {"hit", "infer"}
    <3>1. run'[p].at = "waiting" /\ run'[p].total = r.total /\ run'[p].i = r.i
      BY <1>0, <2>2 DEF Goes, RunDocs
    <3>2. CallLeft(run'[p], handler'[p]) \in {4, 5}
      BY <2>2, <3>1 DEF CallLeft
    <3>3. r.at = "quoted"
      BY <1>5 DEF PayAndRetry
    <3>4. QED
      BY <1>0, <1>1, <2>2, <3>1, <3>2, <3>3 DEF Nearer, BatchLeft, CallLeft, Ended
  <2>3. CASE ~ (run[p].hour # hour \/ run[p].price < PriceNow)
    <3>1. /\ Goes(p, "waiting")
          /\ handler' = [handler EXCEPT ![p] =
               [at |-> IF hour \in memo THEN "hit" ELSE "infer", hour |-> hour]]
      BY <1>5, <2>3 DEF PayAndRetry
    <3>2. handler'[p].at = IF hour \in memo THEN "hit" ELSE "infer"
      BY <1>0, <3>1
    <3>3. QED
      BY <2>2, <3>1, <3>2
  <2>4. CASE run[p].hour # hour \/ run[p].price < PriceNow
    <3>1. Goes(p, Ending(p))
      BY <1>5, <2>4 DEF PayAndRetry
    <3>2. QED
      BY <1>0, <2>1, <3>1
  <2>5. QED
    BY <2>3, <2>4
<1>6. CASE Answered(p)
  <2>1. /\ run'[p] = [r EXCEPT !.i = @ + 1,
                        !.at = IF r.i + 1 = r.total THEN Ending(p) ELSE "call"]
        /\ r.at = "waiting" /\ h.at = "answer"
    BY <1>0, <1>6 DEF Answered
  <2>2. CASE r.i + 1 = r.total
    <3>1. run'[p].at = "finally"
      BY <1>0, <2>1, <2>2 DEF RunDocs
    <3>2. QED
      BY <2>1, <3>1, FinallyNearer
  <2>3. CASE r.i + 1 # r.total
    <3>1. run'[p].at = "call" /\ run'[p].total = r.total /\ run'[p].i = r.i + 1
      BY <1>0, <2>1, <2>3 DEF RunDocs
    <3>2. CallLeft(run'[p], handler'[p]) = 7 /\ CallLeft(r, h) = 3
      BY <2>1, <3>1 DEF CallLeft
    <3>3. QED
      BY <1>0, <1>1, <2>1, <2>3, <3>1, <3>2 DEF Nearer, BatchLeft, Ended
  <2>4. QED
    BY <2>2, <2>3
<1>7. CASE Finally(p)
  <2>1. run'[p].at = "over" /\ running' = FALSE
    BY <1>0, <1>7 DEF Finally, Goes, RunDocs
  <2>2. QED
    BY <2>1
<1>8. CASE CallFails(p) /\ r.at # "finally"
  <2>1. CASE ThreadFails(p)
    BY <1>0, <2>1 DEF ThreadFails, Goes, RunDocs
  <2>2. CASE ~ ThreadFails(p)
    <3>1. h.at # "none" => r.at \in {"waiting", "finally"}
      BY <1>0 DEF DemoInv, HandlerInv, Active, Ended
    <3>2. Goes(p, "finally") /\ r.at \in {"flagged", "thread", "call", "quoted", "waiting"}
      BY <1>0, <1>8, <2>2, <3>1 DEF CallFails, ModelFails, CallRaises, AgentTimesOut
    <3>3. QED
      BY <1>4, <3>2
  <2>3. QED
    BY <2>1, <2>2
<1>9. CASE ServerStep(p) /\ ServerTurn(p)
  <2>1. run' = run /\ r.at = "waiting"
    BY <1>9 DEF ServerStep, ServerTurn, ServeHit, Mint, Store, AnswersNobody
  <2>2. \/ h.at = "hit" /\ handler'[p].at = "answer"
        \/ h.at = "infer" /\ handler'[p].at = "store"
        \/ h.at = "store" /\ handler'[p].at = "answer"
    BY <1>0, <1>9 DEF ServerStep, ServerTurn, ServeHit, Mint, Store, AnswersNobody,
      HandlerDocs
  <2>3. CallLeft(r, handler'[p]) < CallLeft(r, h)
    BY <2>1, <2>2 DEF CallLeft
  <2>4. CallLeft(r, handler'[p]) \in 3..9 /\ CallLeft(r, h) \in 3..9
    BY DEF CallLeft
  <2>5. QED
    BY <1>0, <1>1, <2>1, <2>2, <2>3, <2>4 DEF Nearer, BatchLeft, Ended
<1>10. CASE StartThread(p)
  <2>1. run'[p] = [r EXCEPT !.at = "thread"] /\ handler' = handler /\ r.at = "flagged"
    BY <1>0, <1>10 DEF StartThread, Goes
  <2>2. run'[p].at = "thread" /\ run'[p].total = r.total /\ run'[p].i = r.i
    BY <1>0, <2>1 DEF RunDocs
  <2>3. QED
    BY <1>0, <1>1, <2>1, <2>2 DEF Nearer, BatchLeft, CallLeft, Ended
<1>11. QED
  BY <1>2, <1>3, <1>5, <1>6, <1>7, <1>8, <1>9, <1>10 DEF BatchStep

\* What any other step does to it: nothing, or its handler of before is done.
LEMMA OtherStep ==
    ASSUME DemoInv, CountInv, NEW p \in Posts, Active(p), [DemoNext]_demoVars,
           ~ BatchStep(p), ~ (CallFails(p) /\ run[p].at # "finally"),
           ~ (ServerStep(p) /\ ServerTurn(p))
    PROVE  /\ run'[p] = run[p]
           /\ handler'[p] = handler[p] \/ run[p].at = "finally"
<1>0. /\ p \in Runs /\ p \notin Scripts /\ run[p].at # "new"
      /\ RunTyped /\ HandlerTyped /\ HandlerInv
  BY TypeParts, DemoAssumption DEF DemoInv, Runs, Active, Ended
<1>1. ASSUME NEW r \in Runs, r # p, ServerStep(r) \/ BatchStep(r) \/ CallFails(r)
      PROVE  run'[p] = run[p] /\ handler'[p] = handler[p]
  BY <1>0, <1>1 DEF ServerStep, BatchStep, CallFails, ServeHit, Mint, Store,
    AnswersNobody, StartThread, BuildAgents, AskPrice, PayAndRetry, Answered, Finally, ThreadFails,
    ModelFails, CallRaises, AgentTimesOut, Goes, RunTyped, HandlerTyped
<1>2. ASSUME NEW r \in Runs, NEW t, Post(r, t) \/ Script(r, t)
      PROVE  run'[p] = run[p] /\ handler'[p] = handler[p]
  BY <1>0, <1>2 DEF Post, Script, Goes, RunTyped
<1>3. CASE ServerStep(p)
  <2>1. run' = run
    BY <1>3 DEF ServerStep, ServeHit, Mint, Store, AnswersNobody
  <2>2. run[p].at = "finally"
    <3>1. ~ ServerTurn(p)
      BY <1>3
    <3>2. handler[p].at # "none"
      BY <1>3 DEF ServerStep, ServeHit, Mint, Store, AnswersNobody
    <3>3. run[p].at \in {"waiting", "finally"}
      BY <1>0, <3>2 DEF HandlerInv, Active, Ended
    <3>4. CASE run[p].at = "waiting"
      BY <1>3, <3>1, <3>4
      DEF ServerTurn, ServerStep, ServeHit, Mint, Store, AnswersNobody
    <3>5. QED
      BY <3>3, <3>4
  <2>3. QED
    BY <2>1, <2>2
<1>4. CASE NextHour \/ UNCHANGED demoVars
  BY <1>4 DEF NextHour, demoVars
<1>5. CASE CallFails(p) /\ run[p].at = "finally"
  BY <1>5 DEF CallFails, ThreadFails, ModelFails, CallRaises, AgentTimesOut
<1>6. QED
  BY <1>1, <1>2, <1>3, <1>4, <1>5 DEF DemoNext

\* What any step does to the batch that holds the flag.
LEMMA FlagStep ==
    ASSUME DemoInv, CountInv, NEW p \in Posts, Active(p), [DemoNext]_demoVars
    PROVE  \/ running' = FALSE /\ run'[p].at = "over"
           \/ run'[p].at = "failed"
           \/ Nearer(p, run'[p], handler'[p])
           \/ /\ run'[p] = run[p]
              /\ handler'[p] = handler[p] \/ run[p].at = "finally"
BY OwnStep, OtherStep

LEMMA BatchLeftNat ==
    ASSUME DemoInv, CountInv, NEW p \in Posts, Active(p)
    PROVE  BatchLeft(run[p], handler[p]) \in Nat \ {0}
<1>1. run[p].total \in Nat /\ run[p].i \in Nat /\ p \in Runs
  BY DEF DemoInv, DemoTypeOK, Runs
<1>2. CallLeft(run[p], handler[p]) \in 3..9
  BY DEF CallLeft
<1>3. run[p].at \in {"flagged", "thread", "call", "quoted", "waiting", "finally"}
  BY <1>1 DEF DemoInv, DemoTypeOK, Active, Ended
<1>4. run[p].at # "finally" => run[p].i < run[p].total
  BY <1>3 DEF CountInv
<1>5. QED
  BY <1>1, <1>2, <1>4 DEF BatchLeft

\* A POST that takes the flag has its thread still to start.
LEMMA PostStep ==
    ASSUME DemoInv, CountInv, NEW p \in Runs, NEW t \in Totals, Post(p, t)
    PROVE  /\ p \in Posts
           /\ \A q \in Posts \ {p} : run'[q] = run[q]
           /\ handler' = handler
           /\ \/ run'[p].at = "refused" /\ running' = running
              \/ run'[p].at = "flagged" /\ run'[p].i < run'[p].total
<1>1. /\ p \in Posts /\ handler' = handler /\ run \in [Runs -> RunDocs]
      /\ run[p].at = "new"
  BY TypeParts DEF Post, DemoInv, RunTyped
<1>2. \A q \in Posts \ {p} : run'[q] = run[q]
  BY <1>1 DEF Post, Goes, Runs
<1>3. CASE ~ InRange(t) \/ running
  <2>1. run'[p].at = "refused"
    BY <1>1, <1>3 DEF Post, Goes, RunDocs
  <2>2. QED
    BY <1>1, <1>2, <1>3, <2>1 DEF Post
<1>4. CASE InRange(t) /\ ~ running
  <2>1. run'[p] = [run[p] EXCEPT !.at = "flagged", !.total = t]
    BY <1>1, <1>4 DEF Post
  <2>2. run'[p].at = "flagged" /\ run'[p].total = t /\ run'[p].i = run[p].i
    BY <1>1, <2>1 DEF RunDocs
  <2>3. run[p].i = 0
    BY <1>1 DEF CountInv
  <2>4. QED
    BY <1>1, <1>2, <1>4, <2>2, <2>3 DEF InRange
<1>5. QED
  BY <1>3, <1>4
LEMMA InitCount == DemoInit => CountInv
<1> SUFFICES ASSUME DemoInit PROVE CountInv
  OBVIOUS
<1>1. \A p \in Posts : run[p].at = "new" /\ run[p].i = 0
  BY DEF DemoInit, Fresh, Runs
<1>2. QED
  BY <1>1 DEF DemoInit, CountInv

\* What a batch of the dashboard has counted, kept by each step: CountInv of p.
Counted(p) ==
    /\ run[p].at \in {"flagged", "thread", "call", "quoted", "waiting"} => run[p].i < run[p].total
    /\ run[p].at = "waiting" => handler[p].at # "none"
    /\ run[p].at = "new" => run[p].i = 0

\* The flag is held by a POST of the dashboard.
Held == running => \E p \in Posts : Holds(p)

LEMMA CountParts == CountInv <=> (\A p \in Posts : Counted(p)) /\ Held
BY DEF CountInv, Counted, Held

\* A batch that does not run, and does not start, stays as it is.
LEMMA IdleStep ==
    ASSUME DemoInv, CountInv, NEW p \in Posts, ~ Active(p), [DemoNext]_demoVars,
           \A t \in Totals : ~ Post(p, t)
    PROVE  run'[p] = run[p]
<1>0. /\ p \in Runs /\ p \notin Scripts /\ RunTyped
      /\ run[p].at \in {"new", "refused", "failed", "over"}
  BY TypeParts, DemoAssumption DEF DemoInv, Runs, Active, Ended
<1>1. ASSUME NEW r \in Runs, r # p, ServerStep(r) \/ BatchStep(r) \/ CallFails(r)
      PROVE  run'[p] = run[p]
  BY <1>0, <1>1 DEF ServerStep, BatchStep, CallFails, ServeHit, Mint, Store,
    AnswersNobody, StartThread, BuildAgents, AskPrice, PayAndRetry, Answered, Finally, ThreadFails,
    ModelFails, CallRaises, AgentTimesOut, Goes, RunTyped
<1>2. ASSUME ServerStep(p) \/ BatchStep(p) \/ CallFails(p)
      PROVE  run'[p] = run[p]
  BY <1>0, <1>2 DEF ServerStep, BatchStep, CallFails, ServeHit, Mint, Store,
    AnswersNobody, StartThread, BuildAgents, AskPrice, PayAndRetry, Answered, Finally, ThreadFails,
    ModelFails, CallRaises, AgentTimesOut
<1>3. ASSUME NEW r \in Runs, NEW t \in Totals, Post(r, t)
      PROVE  run'[p] = run[p]
  <2>1. r # p
    BY <1>3
  <2>2. QED
    BY <1>0, <1>3, <2>1 DEF Post, Goes, RunTyped
<1>4. ASSUME NEW r \in Runs, NEW t, Script(r, t) PROVE run'[p] = run[p]
  BY <1>0, <1>4 DEF Script, Goes, RunTyped
<1>5. CASE NextHour \/ UNCHANGED demoVars
  BY <1>5 DEF NextHour, demoVars
<1>6. QED
  BY <1>1, <1>2, <1>3, <1>4, <1>5 DEF DemoNext

LEMMA CountedKept ==
    ASSUME DemoInv, CountInv, [DemoNext]_demoVars, NEW p \in Posts
    PROVE  Counted(p)'
<1>0. Counted(p)
  BY CountParts
<1>1. CASE Active(p)
  <2>1. CASE run'[p].at \in {"failed", "over"}
    BY <2>1 DEF Counted
  <2>2. CASE Nearer(p, run'[p], handler'[p])
    BY <2>2 DEF Nearer, Counted, Ended
  <2>3. CASE run'[p] = run[p] /\ (handler'[p] = handler[p] \/ run[p].at = "finally")
    BY <1>0, <2>3 DEF Counted
  <2>4. QED
    BY <1>1, <2>1, <2>2, <2>3, FlagStep
<1>2. CASE \E t \in Totals : Post(p, t)
  <2>1. PICK t \in Totals : Post(p, t)
    BY <1>2
  <2>2. run'[p].at = "refused" \/ (run'[p].at = "flagged" /\ run'[p].i < run'[p].total)
    BY <2>1, PostStep DEF Runs
  <2>3. QED
    BY <2>2 DEF Counted
<1>3. CASE ~ Active(p) /\ \A t \in Totals : ~ Post(p, t)
  <2>1. run'[p] = run[p]
    BY <1>3, IdleStep
  <2>2. QED
    BY <1>0, <1>3, <2>1 DEF Counted, Active, Ended
<1>4. QED
  BY <1>1, <1>2, <1>3

LEMMA HeldKept ==
    ASSUME DemoInv, CountInv, [DemoNext]_demoVars
    PROVE  Held'
<1>1. CASE \E p \in Posts : Active(p)
  <2>1. PICK p \in Posts : Active(p)
    BY <1>1
  <2>2. CASE running' = FALSE
    BY <2>2 DEF Held
  <2>3. CASE Nearer(p, run'[p], handler'[p])
    BY <2>3 DEF Held, Holds, Nearer, Active
  <2>4. CASE run'[p] = run[p] \/ run'[p].at = "failed"
    BY <2>1, <2>4 DEF Held, Holds, Active
  <2>5. QED
    BY <2>1, <2>2, <2>3, <2>4, FlagStep
<1>2. CASE \E p \in Posts : run[p].at = "failed"
  <2>1. PICK p \in Posts : run[p].at = "failed"
    BY <1>2
  <2>2. ~ Active(p) /\ \A t \in Totals : ~ Post(p, t)
    BY <2>1 DEF Active, Ended, Post
  <2>3. run'[p] = run[p]
    BY <2>2, IdleStep
  <2>4. QED
    BY <2>1, <2>3 DEF Held, Holds
<1>3. CASE \A p \in Posts : ~ Holds(p)
  <2>1. ~ running
    BY <1>3 DEF CountInv
  <2>2. CASE \E p \in Runs, t \in Totals : Post(p, t)
    <3>1. PICK p \in Runs, t \in Totals : Post(p, t)
      BY <2>2
    <3>2. /\ p \in Posts
          /\ \/ run'[p].at = "refused" /\ running' = running
             \/ run'[p].at = "flagged"
      BY <3>1, PostStep
    <3>3. QED
      BY <2>1, <3>2 DEF Held, Holds, Active, Ended
  <2>3. CASE ~ \E p \in Runs, t \in Totals : Post(p, t)
    <3>1. ASSUME NEW r \in Runs, Finally(r) PROVE FALSE
      <4>1. run[r].at = "finally" /\ r \in Posts
        BY <3>1 DEF DemoInv, PlaceInv, Finally
      <4>2. QED
        BY <1>3, <4>1 DEF Holds, Active, Ended
    <3>2. running' = running
      <4>1. ASSUME NEW r \in Runs, ServerStep(r) \/ BatchStep(r) \/ CallFails(r)
            PROVE  running' = running
        BY <3>1, <4>1 DEF ServerStep, BatchStep, CallFails, ServeHit, Mint, Store,
          AnswersNobody, StartThread, BuildAgents, AskPrice, PayAndRetry, Answered,
          ThreadFails, ModelFails, CallRaises, AgentTimesOut
      <4>2. ASSUME NEW r \in Runs, NEW t \in ScriptTotals, Script(r, t)
            PROVE  running' = running
        BY <4>2 DEF Script
      <4>3. CASE NextHour \/ UNCHANGED demoVars
        BY <4>3 DEF NextHour, demoVars
      <4>4. QED
        BY <2>3, <4>1, <4>2, <4>3 DEF DemoNext
    <3>3. QED
      BY <2>1, <3>2 DEF Held
  <2>4. QED
    BY <2>2, <2>3
<1>4. QED
  BY <1>1, <1>2, <1>3 DEF Holds

LEMMA CountInvariant == DemoSpec => []CountInv
<1>1. DemoInit => CountInv
  BY InitCount
<1>2. DemoInv /\ CountInv /\ [DemoNext]_demoVars => CountInv'
  <2> SUFFICES ASSUME DemoInv, CountInv, [DemoNext]_demoVars PROVE CountInv'
    OBVIOUS
  <2>1. \A p \in Posts : Counted(p)'
    BY CountedKept
  <2>2. Held'
    BY HeldKept
  <2>3. QED
    BY <2>1, <2>2 DEF CountInv, Counted, Held
<1>3. QED
  BY <1>1, <1>2, DemoInvariant, PTL DEF DemoSpec

\* The flag of /demo/run is set exactly while a POST holds it, and one does at
\* most, whatever the scripts and the handlers beside it do: nothing that a batch
\* raises, and no POST that is refused, leaves the flag behind; only a thread that
\* could not be started does.
THEOREM OneBatchCorrect == DemoSpec => []OneBatch
<1>1. DemoInv /\ CountInv => OneBatch
  BY CountParts DEF DemoInv, Guarded, Held, OneBatch
<1>2. QED
  BY <1>1, DemoInvariant, CountInvariant, PTL

------------------------------------------------------------------------------
\* The batch keeps its turns: its thread and its handler are scheduled.
KeepsUp(p) == ServerFair(p) /\ BatchFair(p)

LEMMA BatchLeftInt ==
    ASSUME NEW r \in RunDocs, NEW h
    PROVE  BatchLeft(r, h) \in Int
<1>1. r.total \in Nat /\ r.i \in Nat
  BY DEF RunDocs
<1>2. CallLeft(r, h) \in 3..9
  BY DEF CallLeft
<1>3. QED
  BY <1>1, <1>2 DEF BatchLeft

\* A batch that is nearer to its end is so by one step at least.
LEMMA NearerCounts ==
    ASSUME DemoInv, CountInv, DemoInv', NEW p \in Posts, NEW n \in Nat, NEW m \in Nat,
           n = m + 1, Near(p, n), Nearer(p, run'[p], handler'[p])
    PROVE  Near(p, m)'
<1>1. run'[p] \in RunDocs
  BY DEF DemoInv, DemoTypeOK, RunDocs, Runs
<1>2. BatchLeft(run'[p], handler'[p]) \in Int
  BY <1>1, BatchLeftInt
<1>3. BatchLeft(run[p], handler[p]) \in Nat
  BY BatchLeftNat DEF Near
<1>4. BatchLeft(run'[p], handler'[p]) <= m
  BY <1>2, <1>3 DEF Near, Nearer
<1>5. QED
  BY <1>4 DEF Near, Nearer, Active

\* A batch that holds the flag waits for its thread or for its handler.
LEMMA SomeTurn ==
    ASSUME DemoInv, CountInv, NEW p \in Posts, Active(p)
    PROVE  BatchTurn(p) \/ ServerTurn(p)
<1>1. /\ run[p].at \in {"flagged", "thread", "call", "quoted", "waiting", "finally"}
      /\ handler[p].at \in {"none", "hit", "infer", "store", "answer"}
  BY DEF DemoInv, DemoTypeOK, Active, Ended, Runs
<1>2. QED
  BY <1>1 DEF CountInv, BatchTurn, ServerTurn

\* Whatever is done, the batch keeps its turn until it is nearer to its end.
LEMMA TurnKept ==
    ASSUME DemoInv, CountInv, DemoInv', NEW p \in Posts, NEW n \in Nat, NEW m \in Nat,
           n = m + 1, Near(p, n), [DemoNext]_demoVars
    PROVE  \/ Near(p, m)' \/ Freed'
           \/ /\ Near(p, n)'
              /\ BatchTurn(p) => BatchTurn(p)'
              /\ ServerTurn(p) => ServerTurn(p)'
<1>1. Active(p)
  BY DEF Near
<1>2. CASE Nearer(p, run'[p], handler'[p])
  BY <1>2, NearerCounts
<1>3. CASE run'[p] = run[p] /\ (handler'[p] = handler[p] \/ run[p].at = "finally")
  <2>1. BatchLeft(run'[p], handler'[p]) = BatchLeft(run[p], handler[p])
    BY <1>3 DEF BatchLeft
  <2>2. QED
    BY <1>3, <2>1 DEF Near, Active, BatchTurn, ServerTurn
<1>4. CASE running' = FALSE \/ run'[p].at = "failed"
  BY <1>4 DEF Freed
<1>5. QED
  BY <1>1, <1>2, <1>3, <1>4, FlagStep

\* The step whose turn it is brings the batch nearer to its end.
LEMMA TurnTaken ==
    ASSUME DemoInv, CountInv, DemoInv', NEW p \in Posts, NEW n \in Nat, NEW m \in Nat,
           n = m + 1, Near(p, n), BatchStep(p) \/ (ServerStep(p) /\ ServerTurn(p))
    PROVE  Near(p, m)' \/ Freed'
<1>1. Active(p)
  BY DEF Near
<1>2. CASE Nearer(p, run'[p], handler'[p])
  BY <1>2, NearerCounts
<1>3. CASE running' = FALSE \/ run'[p].at = "failed"
  BY <1>3 DEF Freed
<1>4. QED
  BY <1>1, <1>2, <1>3, OwnStep

\* What the batch of p runs under.
InService(p) ==
    []DemoInv /\ []CountInv /\ []BatchOpen /\ [][DemoNext]_demoVars /\ KeepsUp(p)

\* With n steps left at most, the batch of p comes to m, or frees the flag.
ComesNearer(p, n, m) == InService(p) => (Near(p, n) ~> (Near(p, m) \/ Freed))

LEMMA BatchComesNearer ==
    ASSUME NEW p \in Posts, NEW n \in Nat, NEW m \in Nat, n = m + 1
    PROVE  ComesNearer(p, n, m)
<1> DEFINE Thread == Near(p, n) /\ BatchTurn(p)
           Server == Near(p, n) /\ ServerTurn(p)
           Goal == Near(p, m) \/ Freed
<1>1. DemoInv /\ CountInv /\ Near(p, n) => Thread \/ Server
  <2> SUFFICES ASSUME DemoInv, CountInv, Near(p, n) PROVE Thread \/ Server
    OBVIOUS
  <2>1. Active(p)
    BY DEF Near
  <2>2. QED
    BY <2>1, SomeTurn
<1>2. DemoInv /\ CountInv /\ DemoInv' /\ Thread /\ [DemoNext]_demoVars => Thread' \/ Goal'
  BY TurnKept
<1>3. DemoInv /\ CountInv /\ DemoInv' /\ Server /\ [DemoNext]_demoVars => Server' \/ Goal'
  BY TurnKept
<1>4. DemoInv /\ CountInv /\ DemoInv' /\ Thread /\ <<BatchStep(p)>>_demoVars => Goal'
  BY TurnTaken
<1>5. DemoInv /\ CountInv /\ DemoInv' /\ Server /\ <<ServerStep(p)>>_demoVars => Goal'
  BY TurnTaken
<1>6. BatchOpen /\ Thread => ENABLED <<BatchStep(p)>>_demoVars
  BY DEF BatchOpen
<1>7. BatchOpen /\ Server => ENABLED <<ServerStep(p)>>_demoVars
  BY DEF BatchOpen
<1> HIDE DEF Thread, Server, Goal
<1>8. InService(p) => (Near(p, n) ~> Goal)
  BY <1>1, <1>2, <1>3, <1>4, <1>5, <1>6, <1>7, PTL
  DEF InService, KeepsUp, ServerFair, BatchFair
<1>9. QED
  BY <1>8 DEF ComesNearer, Goal

\* A set of numbers with 0 and with every successor has them all.
LEMMA AllNumbers ==
    ASSUME NEW S \in SUBSET Nat, 0 \in S, \A n \in S : n + 1 \in S
    PROVE  S = Nat
<1> SUFFICES ASSUME S # Nat PROVE FALSE
  OBVIOUS
<1> DEFINE Less == {p \in Nat \X Nat : p[1] < p[2]}
           Rest == Nat \ S
<1>1. IsWellFoundedOn(Less, Nat)
  BY NatLessThanWellFounded DEF OpToRel
<1>2. PICK n \in Rest : \A m \in Rest : ~ (<<m, n>> \in Less)
  <2>1. Rest \subseteq Nat /\ Rest # {}
    OBVIOUS
  <2> HIDE DEF Rest
  <2>2. QED
    BY <1>1, <2>1, WFMin
<1>3. n # 0 /\ n - 1 \in Nat /\ n - 1 < n
  BY <1>2
<1>4. n - 1 \in S
  BY <1>2, <1>3
<1>5. (n - 1) + 1 = n
  BY <1>2
<1>6. QED
  BY <1>2, <1>4, <1>5

\* A function that a lemma is told of. A temporal formula that speaks of n makes
\* one, of n: whether the formula holds of the behaviour at hand. Such a function
\* can be named but not applied, so that the lemma does it.
Named(g) == TRUE

LEMMA NumberInduction ==
    \A g : Named(g) /\ g[0] /\ (\A n \in Nat : g[n] => g[n + 1]) => \A n \in Nat : g[n]
<1> SUFFICES ASSUME NEW g, g[0], \A n \in Nat : g[n] => g[n + 1]
             PROVE  \A n \in Nat : g[n]
  OBVIOUS
<1> DEFINE S == {n \in Nat : g[n]}
<1>1. S \in SUBSET Nat /\ 0 \in S /\ \A n \in S : n + 1 \in S
  OBVIOUS
<1> HIDE DEF S
<1>2. S = Nat
  BY <1>1, AllNumbers
<1>3. QED
  BY <1>2 DEF S

\* With n steps left at most, the batch of p frees the flag.
Frees(p, n) == InService(p) => (Near(p, n) ~> Freed)

LEMMA FreesStart ==
    ASSUME NEW p \in Posts
    PROVE  Frees(p, 0)
<1>1. DemoInv /\ CountInv => ~ Near(p, 0)
  <2> SUFFICES ASSUME DemoInv, CountInv, Near(p, 0) PROVE FALSE
    OBVIOUS
  <2>1. BatchLeft(run[p], handler[p]) \in Nat \ {0} /\ BatchLeft(run[p], handler[p]) <= 0
    BY BatchLeftNat DEF Near
  <2>2. QED
    BY <2>1
<1>2. QED
  BY <1>1, PTL DEF Frees, InService

LEMMA FreesNext ==
    ASSUME NEW p \in Posts, NEW m \in Nat
    PROVE  Frees(p, m) => Frees(p, m + 1)
<1> DEFINE n == m + 1
<1>1. n \in Nat /\ n = m + 1
  OBVIOUS
<1> HIDE DEF n
<1>2. ComesNearer(p, n, m)
  BY <1>1, BatchComesNearer
<1>3. Frees(p, m) => Frees(p, n)
  BY <1>2, PTL DEF Frees, ComesNearer
<1>4. QED
  BY <1>1, <1>3

\* By induction on the steps that are left: Frees(p, n) is told of a behaviour,
\* and the numbers it holds of are a set as any other.
LEMMA FreesAlways ==
    ASSUME NEW p \in Posts
    PROVE  \A n \in Nat : Frees(p, n)
<1> DEFINE F == [n \in Nat |-> Frees(p, n)]
<1>1. Named(F)
  BY DEF Named
<1>2. QED
  BY FreesStart, FreesNext, <1>1, NumberInduction, SMT

\* The batch of p, if it runs now, will free the flag.
WillFree(p) == Active(p) => <> Freed

LEMMA BatchFrees ==
    ASSUME NEW p \in Posts
    PROVE  FairDemoSpec /\ []BatchOpen => []WillFree(p)
<1> DEFINE n == 9 * MaxTotal + 9
<1>1. DemoInv /\ CountInv /\ Active(p) => Near(p, n)
  <2> SUFFICES ASSUME DemoInv, CountInv, Active(p) PROVE Near(p, n)
    OBVIOUS
  <2>1. /\ run[p].total \in Nat /\ run[p].i \in Nat /\ run[p].total <= 25
        /\ CallLeft(run[p], handler[p]) \in 3..9
    BY DEF DemoInv, DemoTypeOK, MaxTotal, Runs, CallLeft
  <2>2. BatchLeft(run[p], handler[p]) <= 234
    BY <2>1 DEF BatchLeft
  <2>3. QED
    BY <2>2 DEF Near, MaxTotal
<1>2. n \in Nat
  BY DEF MaxTotal
<1> HIDE DEF n
<1>3. Frees(p, n)
  BY <1>2, FreesAlways
<1>4. DemoFairness => KeepsUp(p)
  BY DEF DemoFairness, KeepsUp, Runs
<1>5. QED
  BY <1>1, <1>3, <1>4, DemoInvariant, CountInvariant, PTL
  DEF Frees, InService, WillFree, FairDemoSpec, DemoSpec

\* If the guards of the batch's steps are all that they wait for, the flag does
\* not stay set: whichever batch holds it counts down to its finally clause,
\* whatever its calls raise, and whatever scripts and other POSTs do meanwhile.
\* The exception is a thread that could not be started.
THEOREM GuardFreedCorrect == FairDemoSpec /\ []BatchOpen => GuardFreed
<1>1. FairDemoSpec /\ []BatchOpen => \A p \in Posts : []WillFree(p)
  BY BatchFrees
<1>2. (\A p \in Posts : []WillFree(p)) => [](\A p \in Posts : WillFree(p))
  OBVIOUS
<1>3. (\A p \in Posts : WillFree(p)) => ((\E p \in Posts : Active(p)) => <> Freed)
  BY DEF WillFree
<1>4. CountInv => (running => (\E p \in Posts : Active(p)) \/ Freed)
  BY DEF CountInv, Holds, Freed
<1> DEFINE Some == \E p \in Posts : Active(p)
           All == \A p \in Posts : WillFree(p)
           Each == \A p \in Posts : []WillFree(p)
<1>5. /\ FairDemoSpec /\ []BatchOpen => Each
      /\ Each => []All
      /\ All => (Some => <> Freed)
      /\ CountInv => (running => Some \/ Freed)
  BY <1>1, <1>2, <1>3, <1>4
<1> HIDE DEF Some, All, Each
<1>6. QED
  BY <1>5, CountInvariant, PTL DEF GuardFreed, FairDemoSpec
==============================================================================
