-------------------------- MODULE EventFeedProofs --------------------------
(* Proofs about EventFeed, for any number of polls in flight, events,       *)
(* server processes and failures: the page schedules every event from the   *)
(* end of its priming to lastSeq once, and none of its history; in the end  *)
(* it shows each event of a process that lives on.                          *)
EXTENDS EventFeed, FiniteSetTheorems, FunctionTheorems, WellFoundedInduction, TLAPS

Event == [boot : Boots, seq : Seqs \ {0}]

VarsTyped ==
    /\ boot \in Boots /\ seq \in Seqs /\ fails \in 0..MaxFails
    /\ poll \in [Polls -> PollRecord]
    /\ page \in {"loading", "priming", "polling"}
    /\ lastSeq \in Seqs /\ start \in Seqs
    /\ listed \in [boot : Boots, upto : Seqs]

\* No request asks for what is beyond lastSeq; an answer's latest_seq was read
\* after its events, from the log of the same process.
RequestInv ==
    \A p \in Polls :
        /\ poll[p].since <= lastSeq
        /\ poll[p].at = "read" => poll[p].upto <= seq
        /\ poll[p].at = "answered" => poll[p].upto <= poll[p].latest

\* Nothing is scheduled before the page polls.
PrimingInv ==
    page # "polling" => lastSeq = 0 /\ start = 0 /\ timers = {} /\ shown = <<>>

\* What the priming has listed is not after its latest_seq.
ListedInv == listed.upto <= start

TimersTyped ==
    /\ timers \subseteq Timer /\ IsFiniteSet(timers)
    /\ shown \in Seq(Event)
    /\ batches \in Nat /\ batches <= lastSeq - start

FeedInv == /\ VarsTyped /\ RequestInv /\ PrimingInv /\ ListedInv
           /\ TimersTyped /\ ShownOnce

LEMMA FeedBounds ==
    /\ Seqs = 0..MaxEvents /\ MaxEvents \in Nat
    /\ 1 \in Boots /\ 0 \in Seqs /\ 0 \in 0..MaxFails
BY FeedAssumption DEF Seqs, Boots

LEMMA FeedInvType == FeedInv => TypeOK
<1> SUFFICES ASSUME FeedInv PROVE TypeOK
  OBVIOUS
<1>1. batches \in Seqs
  BY FeedBounds DEF FeedInv, TimersTyped, VarsTyped
<1>2. QED
  BY <1>1 DEF FeedInv, VarsTyped, TimersTyped, PrimingInv, TypeOK, Event

LEMMA FeedInvHistory == FeedInv => HistoryNotReplayed
<1> SUFFICES ASSUME FeedInv, NEW s \in 1..listed.upto, Happened(listed.boot, s)
             PROVE  FALSE
  BY DEF HistoryNotReplayed
<1>1. s \in ScheduledSeqs
  BY DEF Happened, Shown, ScheduledSeqs, AnimatedSeqs
<1>2. s > start
  BY <1>1, FeedBounds DEF FeedInv, ShownOnce, VarsTyped
<1>3. s <= start
  BY FeedBounds DEF FeedInv, ListedInv, VarsTyped
<1>4. QED
  BY <1>2, <1>3, FeedBounds DEF FeedInv, VarsTyped

LEMMA FeedInit == Init => FeedInv
<1> SUFFICES ASSUME Init PROVE FeedInv
  OBVIOUS
<1>1. Idle \in PollRecord
  BY FeedBounds DEF Idle, PollRecord
<1>2. VarsTyped
  BY <1>1, FeedBounds DEF Init, VarsTyped
<1>3. RequestInv
  BY FeedBounds DEF Init, RequestInv, Idle
<1>4. PrimingInv /\ ListedInv
  BY DEF Init, PrimingInv, ListedInv
<1>5. TimersTyped
  BY FS_EmptySet DEF Init, TimersTyped
<1>6. ShownOnce
  <2>1. ScheduledSeqs = {}
    BY DEF Init, ScheduledSeqs, AnimatedSeqs
  <2>2. Len(shown) + Cardinality(timers) = lastSeq - start
    BY FS_EmptySet DEF Init
  <2>3. QED
    BY <2>1, <2>2 DEF Init, ShownOnce
<1>7. QED
  BY <1>2, <1>3, <1>4, <1>5, <1>6 DEF FeedInv

\* One request changes.
LEMMA OnePoll ==
    ASSUME poll \in [Polls -> PollRecord], NEW p \in Polls, NEW r \in PollRecord,
           poll' = [poll EXCEPT ![p] = r]
    PROVE  /\ poll' \in [Polls -> PollRecord]
           /\ poll'[p] = r /\ \A q \in Polls \ {p} : poll'[q] = poll[q]
OBVIOUS

\* The part of the invariant about the timers is kept by a step that leaves
\* them, and how far the page has come, alone.
LEMMA ScheduleKept ==
    ASSUME FeedInv, UNCHANGED <<lastSeq, start, timers, batches, shown>>
    PROVE  TimersTyped' /\ ShownOnce'
BY DEF FeedInv, TimersTyped, ShownOnce, ScheduledSeqs, AnimatedSeqs

\* The server and the network answer requests; the page does nothing.
LEMMA ServerFeedStep ==
    ASSUME FeedInv,
           Push \/ Restart \/ \E p \in Polls : ReadEvents(p) \/ ReadLatest(p) \/ Lose(p)
    PROVE  FeedInv'
<1>0. UNCHANGED browser
  BY DEF Push, Restart, ReadEvents, ReadLatest, Lose
<1>1. PrimingInv' /\ ListedInv' /\ TimersTyped' /\ ShownOnce'
  BY <1>0, ScheduleKept DEF browser, FeedInv, PrimingInv, ListedInv
<1>2. VarsTyped' /\ RequestInv'
  <2> USE FeedBounds, <1>0 DEF FeedInv, VarsTyped, RequestInv, browser
  <2>1. CASE Push
    BY <2>1 DEF Push, PollRecord
  <2>2. CASE Restart
    <3>1. boot' \in Boots
      BY <2>2, FeedAssumption DEF Restart, Boots
    <3>2. \A p \in Polls : /\ poll'[p] \in PollRecord /\ poll'[p].since = poll[p].since
                           /\ poll'[p].at # "read"
                           /\ poll'[p].at = "answered" => poll'[p] = poll[p]
      BY <2>2 DEF Restart, PollRecord
    <3>3. QED
      BY <2>2, <3>1, <3>2, Zenon DEF Restart
  <2>3. ASSUME NEW p \in Polls, ReadEvents(p) PROVE VarsTyped' /\ RequestInv'
    <3> DEFINE r == [poll[p] EXCEPT !.at = "read", !.boot = boot, !.upto = seq]
    <3>1. r \in PollRecord /\ r.since = poll[p].since /\ r.upto = seq /\ r.at = "read"
      BY DEF PollRecord
    <3>2. poll' = [poll EXCEPT ![p] = r]
      BY <2>3 DEF ReadEvents
    <3> HIDE DEF r
    <3>3. UNCHANGED <<boot, seq, fails>>
      BY <2>3 DEF ReadEvents, server
    <3>4. /\ poll' \in [Polls -> PollRecord] /\ poll'[p] = r
          /\ \A q \in Polls \ {p} : poll'[q] = poll[q]
      BY <3>1, <3>2, OnePoll
    <3>5. VarsTyped'
      BY <3>3, <3>4
    <3>6. RequestInv'
      <4>1. seq <= seq
        BY DEF Seqs
      <4>2. QED
        BY <3>1, <3>3, <3>4, <4>1
    <3>7. QED
      BY <3>5, <3>6
  <2>4. ASSUME NEW p \in Polls, ReadLatest(p) PROVE VarsTyped' /\ RequestInv'
    <3> DEFINE r == [poll[p] EXCEPT !.at = "answered", !.latest = seq]
    <3>1. r \in PollRecord /\ r.since = poll[p].since /\ r.at = "answered"
          /\ r.upto = poll[p].upto /\ r.latest = seq
      BY DEF PollRecord
    <3>2. poll' = [poll EXCEPT ![p] = r] /\ poll[p].upto <= seq
      BY <2>4 DEF ReadLatest
    <3> HIDE DEF r
    <3>3. QED
      BY <2>4, <3>1, <3>2, OnePoll DEF ReadLatest, server
  <2>5. ASSUME NEW p \in Polls, Lose(p) PROVE VarsTyped' /\ RequestInv'
    <3> DEFINE r == [poll[p] EXCEPT !.at = "failed"]
    <3>1. r \in PollRecord /\ r.since = poll[p].since /\ r.at = "failed"
      BY DEF PollRecord
    <3>2. poll' = [poll EXCEPT ![p] = r] /\ fails' \in 0..MaxFails
      BY <2>5, FeedAssumption DEF Lose
    <3> HIDE DEF r
    <3>3. QED
      BY <2>5, <3>1, <3>2, OnePoll DEF Lose, server
  <2>6. QED
    BY <2>1, <2>2, <2>3, <2>4, <2>5
<1>3. QED
  BY <1>1, <1>2 DEF FeedInv

\* The page sends a request, or gives one up.
LEMMA AskStep ==
    ASSUME FeedInv, NEW p \in Polls,
           Prime(p) \/ PrimeFails(p) \/ PollOnce(p) \/ PollFails(p)
    PROVE  FeedInv'
<1>0. UNCHANGED <<server, fails, lastSeq, start, listed, timers, batches, shown>>
  BY DEF Prime, PrimeFails, PollOnce, PollFails, browser
<1>1. ListedInv' /\ TimersTyped' /\ ShownOnce'
  BY <1>0, ScheduleKept DEF FeedInv, ListedInv
<1>2. page' \in {"loading", "priming", "polling"} /\ (page' # "polling" => page # "polling")
  BY DEF Prime, PrimeFails, PollOnce, PollFails, browser, FeedInv, VarsTyped
<1>3. PrimingInv'
  BY <1>0, <1>2 DEF FeedInv, PrimingInv
<1>4. PICK r \in PollRecord : /\ poll' = [poll EXCEPT ![p] = r] /\ r.since <= lastSeq
                              /\ r.at \notin {"read", "answered"}
  <2>1. Asked(0) \in PollRecord /\ Asked(lastSeq) \in PollRecord /\ Idle \in PollRecord
    BY FeedBounds DEF Asked, Idle, PollRecord, FeedInv, VarsTyped
  <2>2. /\ Asked(0).since = 0 /\ Asked(lastSeq).since = lastSeq /\ Idle.since = 0
        /\ Asked(0).at = "asked" /\ Asked(lastSeq).at = "asked" /\ Idle.at = "idle"
    BY DEF Asked, Idle
  <2>3. \/ poll' = [poll EXCEPT ![p] = Asked(0)]
        \/ poll' = [poll EXCEPT ![p] = Asked(lastSeq)]
        \/ poll' = [poll EXCEPT ![p] = Idle]
    BY DEF Prime, PrimeFails, PollOnce, PollFails
  <2>4. 0 <= lastSeq /\ lastSeq <= lastSeq
    BY FeedBounds DEF FeedInv, VarsTyped
  <2>5. QED
    BY <2>1, <2>2, <2>3, <2>4, Zenon
<1>5. VarsTyped' /\ RequestInv'
  BY <1>0, <1>2, <1>4, OnePoll DEF FeedInv, VarsTyped, RequestInv, server
<1>6. QED
  BY <1>1, <1>3, <1>5 DEF FeedInv

\* The priming answer moves the page past what it has listed.
LEMMA PrimedStep ==
    ASSUME FeedInv, NEW p \in Polls, Primed(p)
    PROVE  FeedInv'
<1>1. /\ lastSeq = 0 /\ start = 0 /\ timers = {} /\ shown = <<>> /\ batches = 0
      /\ timers' = {} /\ shown' = <<>> /\ batches' = 0
  BY FeedBounds DEF Primed, FeedInv, PrimingInv, TimersTyped
<1>2. Idle \in PollRecord /\ Idle.since = 0 /\ Idle.at = "idle" /\ poll[p] \in PollRecord
  BY FeedBounds DEF Idle, PollRecord, FeedInv, VarsTyped
<1>3. poll[p].latest \in Seqs /\ poll[p].boot \in Boots /\ poll[p].upto \in Seqs
  BY <1>2 DEF PollRecord
<1>4. lastSeq' = poll[p].latest /\ start' = poll[p].latest
  BY DEF Primed
<1>5. VarsTyped'
  BY <1>2, <1>3, OnePoll DEF Primed, FeedInv, VarsTyped, server
<1>6. RequestInv'
  <2>1. \A q \in Polls : poll'[q] = IF q = p THEN Idle ELSE poll[q]
    BY <1>2, OnePoll DEF Primed, FeedInv, VarsTyped
  <2>2. \A q \in Polls : poll[q].since \in Seqs /\ poll[q].since <= 0
    BY <1>1 DEF FeedInv, VarsTyped, RequestInv, PollRecord
  <2>3. QED
    BY <1>2, <1>3, <1>4, <2>1, <2>2, FeedBounds DEF FeedInv, RequestInv, Primed, server
<1>7. PrimingInv' /\ ListedInv'
  BY <1>4 DEF Primed, PrimingInv, ListedInv, FeedInv, RequestInv
<1>8. TimersTyped'
  BY <1>1, <1>3, <1>4, FeedBounds, FS_EmptySet DEF TimersTyped
<1>9. ShownOnce'
  <2>1. ScheduledSeqs' = {}
    BY <1>1 DEF ScheduledSeqs, AnimatedSeqs
  <2>2. (start' + 1)..lastSeq' = {} /\ 0 = lastSeq' - start'
    BY <1>3, <1>4, FeedBounds
  <2>3. Len(shown') + Cardinality(timers') = 0
    BY <1>1, FS_EmptySet
  <2>4. QED
    BY <2>1, <2>2, <2>3 DEF ShownOnce
<1>10. QED
  BY <1>5, <1>6, <1>7, <1>8, <1>9 DEF FeedInv

\* The events that an answer adds are those after lastSeq, whatever it was
\* asked for; each has a timer of its own.
LEMMA FreshTimers ==
    ASSUME FeedInv, NEW p \in Polls, poll[p].at = "answered"
    PROVE  /\ Fresh(p) = (lastSeq + 1)..poll[p].upto
           /\ poll[p].upto \in Seqs
           /\ Fresh(p) # {} => LastOf(p) = poll[p].upto
           /\ {t.seq : t \in Staggered(p)} = Fresh(p)
           /\ Fresh(p) # {} => Staggered(p) \subseteq [boot : Boots, seq : Seqs \ {0},
                                    batch : {batches + 1}, slot : Seqs]
           /\ Fresh(p) = {} => Staggered(p) = {}
           /\ IsFiniteSet(Staggered(p))
           /\ Cardinality(Staggered(p)) = Cardinality(Fresh(p))
<1>1. /\ poll[p] \in PollRecord /\ poll[p].since \in Seqs /\ poll[p].upto \in Seqs
      /\ poll[p].boot \in Boots /\ poll[p].since <= lastSeq /\ lastSeq \in Seqs
  BY DEF FeedInv, VarsTyped, RequestInv, PollRecord
<1>2. Fresh(p) = (lastSeq + 1)..poll[p].upto
  BY <1>1, FeedBounds DEF Fresh
<1>3. Fresh(p) # {} => LastOf(p) = poll[p].upto
  <2> SUFFICES ASSUME Fresh(p) # {} PROVE LastOf(p) = poll[p].upto
    OBVIOUS
  <2>1. poll[p].upto \in Fresh(p) /\ \A t \in Fresh(p) : t <= poll[p].upto
    BY <1>1, <1>2, FeedBounds
  <2>2. LastOf(p) \in Fresh(p) /\ \A t \in Fresh(p) : t <= LastOf(p)
    BY <2>1 DEF LastOf
  <2>3. QED
    BY <1>1, <1>2, <2>1, <2>2, FeedBounds
<1> DEFINE slot(s) == Cardinality({t \in Fresh(p) : t < s})
           timer(s) == [boot |-> poll[p].boot, seq |-> s, batch |-> batches + 1,
                        slot |-> slot(s)]
<1>4. Staggered(p) = {timer(s) : s \in Fresh(p)}
  BY DEF Staggered
<1>5. Fresh(p) \subseteq Seqs \ {0} /\ Fresh(p) \subseteq 1..MaxEvents
  BY <1>1, <1>2, FeedBounds
<1>6. IsFiniteSet(Fresh(p)) /\ Cardinality(1..MaxEvents) = MaxEvents
      /\ IsFiniteSet(1..MaxEvents)
  <2>1. IsFiniteSet(1..MaxEvents) /\ Cardinality(1..MaxEvents) = MaxEvents
    <3>1. /\ IsFiniteSet(1..MaxEvents)
          /\ Cardinality(1..MaxEvents) = IF 1 > MaxEvents THEN 0 ELSE MaxEvents - 1 + 1
      BY FeedBounds, FS_Interval
    <3>2. QED
      BY <3>1, FeedBounds
  <2>2. IsFiniteSet(Fresh(p))
    BY <2>1, <1>5, FS_Subset
  <2>3. QED
    BY <2>1, <2>2
<1>7. \A s \in Fresh(p) : slot(s) \in Seqs
  <2> SUFFICES ASSUME NEW s \in Fresh(p) PROVE slot(s) \in Seqs
    OBVIOUS
  <2>1. {t \in Fresh(p) : t < s} \subseteq 1..MaxEvents
    BY <1>5
  <2>2. slot(s) \in Nat /\ slot(s) <= MaxEvents
    BY <2>1, <1>6, FS_Subset, FS_CardinalityType
  <2>3. QED
    BY <2>2, FeedBounds
<1> HIDE DEF slot
<1>8. {t.seq : t \in Staggered(p)} = Fresh(p)
  <2>1. \A s \in Fresh(p) : timer(s).seq = s
    OBVIOUS
  <2> HIDE DEF timer
  <2>2. QED
    BY <1>4, <2>1
<1>9. Staggered(p) \subseteq [boot : Boots, seq : Seqs \ {0}, batch : {batches + 1},
                              slot : Seqs]
  BY <1>1, <1>4, <1>5, <1>7
<1>10. ExistsBijection(Fresh(p), Staggered(p))
  <2> DEFINE f == [s \in Fresh(p) |-> timer(s)]
  <2>1. f \in Bijection(Fresh(p), Staggered(p))
    <3>1. \A s, t \in Fresh(p) : f[s] = f[t] => s = t
      OBVIOUS
    <3>2. f \in [Fresh(p) -> Staggered(p)]
      BY <1>4
    <3>3. \A t \in Staggered(p) : \E s \in Fresh(p) : f[s] = t
      BY <1>4
    <3> HIDE DEF f
    <3>4. QED
      BY <3>1, <3>2, <3>3, Fun_IsBij
  <2>2. QED
    BY <2>1 DEF ExistsBijection
<1>11. IsFiniteSet(Staggered(p)) /\ Cardinality(Staggered(p)) = Cardinality(Fresh(p))
  BY <1>6, <1>10, FS_Bijection
<1>12. QED
  BY <1>1, <1>2, <1>3, <1>4, <1>8, <1>9, <1>11, Zenon

\* An answer schedules the events after lastSeq and moves lastSeq past them.
LEMMA OnStateStep ==
    ASSUME FeedInv, NEW p \in Polls, OnState(p)
    PROVE  FeedInv'
<1> DEFINE u == poll[p].upto
<1>0. /\ poll' = [poll EXCEPT ![p] = Idle] /\ timers' = timers \union Staggered(p)
      /\ page = "polling" /\ page' = page /\ poll[p].at = "answered"
      /\ UNCHANGED <<boot, seq, fails, start, listed, shown>>
  BY DEF OnState, server
<1>1. /\ Fresh(p) = (lastSeq + 1)..u /\ u \in Seqs
      /\ Fresh(p) # {} => lastSeq' = u /\ batches' = batches + 1
      /\ Fresh(p) = {} => lastSeq' = lastSeq /\ batches' = batches
  BY <1>0, FreshTimers DEF OnState
<1>2. /\ lastSeq \in Seqs /\ start \in Seqs /\ batches \in Nat
      /\ batches <= lastSeq - start
  BY DEF FeedInv, VarsTyped, TimersTyped
<1>3. /\ lastSeq' \in Seqs /\ lastSeq <= lastSeq' /\ start <= lastSeq
      /\ batches' \in Nat /\ batches' <= lastSeq' - start
      /\ (lastSeq + 1)..lastSeq' = Fresh(p)
  <2>1. CASE Fresh(p) = {}
    BY <2>1, <1>1, <1>2, FeedBounds
  <2>2. CASE Fresh(p) # {}
    <3>1. u > lastSeq
      BY <2>2, <1>1, <1>2, FeedBounds
    <3>2. QED
      BY <2>2, <3>1, <1>1, <1>2, FeedBounds
  <2>3. QED
    BY <2>1, <2>2
<1>4. Idle \in PollRecord /\ Idle.since = 0 /\ Idle.at = "idle"
  BY FeedBounds DEF Idle, PollRecord
<1>5. VarsTyped'
  BY <1>0, <1>3, <1>4, OnePoll DEF FeedInv, VarsTyped
<1>6. RequestInv'
  <2>1. \A q \in Polls : poll'[q] = IF q = p THEN Idle ELSE poll[q]
    BY <1>0, <1>4, OnePoll DEF FeedInv, VarsTyped
  <2>2. \A q \in Polls : poll[q].since \in Seqs
    BY DEF FeedInv, VarsTyped, PollRecord
  <2>3. QED
    BY <1>0, <1>2, <1>3, <1>4, <2>1, <2>2, FeedBounds DEF FeedInv, RequestInv
<1>7. PrimingInv' /\ ListedInv'
  BY <1>0 DEF FeedInv, PrimingInv, ListedInv
<1>8. TimersTyped'
  <2>1. IsFiniteSet(timers') /\ shown' \in Seq(Event)
    BY <1>0, FreshTimers, FS_Union DEF FeedInv, TimersTyped
  <2>2. timers' \subseteq Timer
    <3>1. CASE Fresh(p) = {}
      BY <1>0, <3>1, FreshTimers DEF FeedInv, TimersTyped
    <3>2. CASE Fresh(p) # {}
      <4>1. batches + 1 \in Seqs \ {0}
        BY <3>2, <1>1, <1>2, <1>3, FeedBounds
      <4>2. Staggered(p) \subseteq Timer
        BY <1>0, <3>2, <4>1, FreshTimers DEF Timer
      <4>3. QED
        BY <1>0, <4>2 DEF FeedInv, TimersTyped
    <3>3. QED
      BY <3>1, <3>2
  <2>3. QED
    BY <1>0, <1>3, <2>1, <2>2 DEF TimersTyped
<1>9. ShownOnce'
  <2> DEFINE Seqs1 == {t.seq : t \in timers}
             Seqs2 == {t.seq : t \in Staggered(p)}
  <2>1. ScheduledSeqs' = ScheduledSeqs \union Fresh(p)
    <3>1. {t.seq : t \in timers'} = Seqs1 \union Seqs2
      BY <1>0
    <3>2. AnimatedSeqs' = AnimatedSeqs
      BY <1>0 DEF AnimatedSeqs
    <3>3. QED
      BY <1>0, <3>1, <3>2, FreshTimers DEF ScheduledSeqs
  <2>2. ScheduledSeqs = (start + 1)..lastSeq
    BY DEF FeedInv, ShownOnce
  <2>3. ScheduledSeqs' = (start' + 1)..lastSeq'
    BY <1>0, <1>2, <1>3, <2>1, <2>2, FeedBounds
  <2>4. timers \intersect Staggered(p) = {}
    <3>1. \A t \in timers : t.seq \in (start + 1)..lastSeq
      BY <2>2 DEF ScheduledSeqs
    <3>2. \A t \in Staggered(p) : t.seq \in (lastSeq + 1)..lastSeq'
      BY <1>0, <1>3, FreshTimers
    <3>3. QED
      BY <1>2, <1>3, <3>1, <3>2, FeedBounds
  <2>5. /\ Cardinality(timers') = Cardinality(timers) + Cardinality(Fresh(p))
        /\ Cardinality(Fresh(p)) \in Nat
    <3>1. IsFiniteSet(timers) /\ IsFiniteSet(Staggered(p))
          /\ Cardinality(Staggered(p)) = Cardinality(Fresh(p))
      BY <1>0, FreshTimers DEF FeedInv, TimersTyped
    <3>2. Cardinality(timers \intersect Staggered(p)) = 0
      BY <2>4, FS_EmptySet
    <3>3. Cardinality(timers) \in Nat /\ Cardinality(Fresh(p)) \in Nat
      BY <3>1, FS_CardinalityType
    <3>4. Cardinality(timers \union Staggered(p))
            = Cardinality(timers) + Cardinality(Staggered(p))
              - Cardinality(timers \intersect Staggered(p))
      BY <3>1, FS_Union
    <3>5. QED
      BY <1>0, <3>1, <3>2, <3>3, <3>4
  <2>6. Cardinality(Fresh(p)) = lastSeq' - lastSeq
    BY <1>2, <1>3, FS_Interval, FeedBounds
  <2>7. Len(shown) \in Nat /\ Cardinality(timers) \in Nat
        /\ Len(shown) + Cardinality(timers) = lastSeq - start
    BY FS_CardinalityType DEF FeedInv, TimersTyped, ShownOnce
  <2>8. Len(shown') + Cardinality(timers') = lastSeq' - start'
    <3>1. Len(shown') = Len(shown) /\ start' = start
      BY <1>0
    <3>2. lastSeq \in Int /\ start \in Int /\ lastSeq' \in Int
      BY <1>2, <1>3, FeedBounds
    <3> DEFINE n == Len(shown)
               m == Cardinality(timers)
               k == Cardinality(Fresh(p))
               c == lastSeq'
    <3>3. n + (m + k) = c - start
      <4>1. n \in Nat /\ m \in Nat /\ k \in Nat /\ n + m = lastSeq - start
        BY <2>5, <2>7
      <4>2. k = c - lastSeq /\ c \in Int
        BY <2>6, <3>2
      <4> HIDE DEF n, m, k, c
      <4>3. QED
        BY <3>2, <4>1, <4>2
    <3>4. QED
      BY <3>1, <3>3, <2>5, Zenon
  <2>9. QED
    BY <2>3, <2>8 DEF ShownOnce
<1>10. QED
  BY <1>5, <1>6, <1>7, <1>8, <1>9 DEF FeedInv

\* A timer that fires moves its event from the scheduled to the animated ones.
LEMMA HandleStep ==
    ASSUME FeedInv, HandleEvent
    PROVE  FeedInv'
<1>1. PICK t \in timers : /\ timers' = timers \ {t}
                          /\ shown' = Append(shown, [boot |-> t.boot, seq |-> t.seq])
  BY DEF HandleEvent
<1>2. UNCHANGED <<server, poll, fails, page, lastSeq, start, listed, batches>>
  BY DEF HandleEvent
<1> DEFINE e == [boot |-> t.boot, seq |-> t.seq]
<1>3. e \in Event /\ e.seq = t.seq /\ shown \in Seq(Event) /\ IsFiniteSet(timers)
  BY DEF FeedInv, TimersTyped, Timer, Event
<1> HIDE DEF e
<1>4. shown' = Append(shown, e)
  BY <1>1 DEF e
<1>5. /\ shown' \in Seq(Event) /\ Len(shown') = Len(shown) + 1
      /\ \A i \in 1..Len(shown) : shown'[i] = shown[i]
      /\ shown'[Len(shown')] = e
  BY <1>3, <1>4
<1>6. IsFiniteSet(timers') /\ Cardinality(timers') = Cardinality(timers) - 1
  BY <1>1, <1>3, FS_RemoveElement
<1>7. VarsTyped' /\ RequestInv' /\ ListedInv'
  BY <1>2 DEF FeedInv, VarsTyped, RequestInv, ListedInv, server
<1>8. PrimingInv'
  BY <1>1, <1>2 DEF FeedInv, PrimingInv
<1>9. TimersTyped'
  BY <1>1, <1>2, <1>5, <1>6 DEF FeedInv, TimersTyped
<1>10. ShownOnce'
  <2>1. AnimatedSeqs' = AnimatedSeqs \union {t.seq}
    <3>1. Len(shown) \in Nat
      BY <1>3
    <3>2. 1..Len(shown') = 1..Len(shown) \union {Len(shown')}
      BY <1>5, <3>1
    <3>3. \A i \in 1..Len(shown) : shown'[i].seq = shown[i].seq
      BY <1>5
    <3>4. QED
      BY <1>3, <1>5, <3>2, <3>3 DEF AnimatedSeqs
  <2>2. {u.seq : u \in timers'} \union {t.seq} = {u.seq : u \in timers}
    BY <1>1
  <2>3. ScheduledSeqs' = ScheduledSeqs
    BY <2>1, <2>2 DEF ScheduledSeqs
  <2>4. Len(shown) \in Nat /\ Cardinality(timers) \in Nat
    BY <1>3, FS_CardinalityType
  <2>5. QED
    BY <1>2, <1>5, <1>6, <2>3, <2>4 DEF FeedInv, ShownOnce
<1>11. QED
  BY <1>7, <1>8, <1>9, <1>10 DEF FeedInv

LEMMA FeedStep == FeedInv /\ [Next]_vars => FeedInv'
<1> SUFFICES ASSUME FeedInv, [Next]_vars PROVE FeedInv'
  OBVIOUS
<1>1. CASE UNCHANGED vars
  BY <1>1 DEF vars, server, browser, FeedInv, VarsTyped, RequestInv, PrimingInv,
    ListedInv, TimersTyped, ShownOnce, ScheduledSeqs, AnimatedSeqs
<1>2. CASE PageStep
  BY <1>2, AskStep, PrimedStep, OnStateStep DEF PageStep
<1>3. CASE Next /\ ~ PageStep
  BY <1>3, ServerFeedStep, HandleStep DEF Next
<1>4. QED
  BY <1>1, <1>2, <1>3

LEMMA FeedInvariant == Spec => []FeedInv
BY FeedInit, FeedStep, PTL DEF Spec

\* Every variable of the feed has its type; lastSeq and the batches stay within
\* what was pushed, and a page that is not polling has scheduled nothing.
THEOREM FeedTypeCorrect == Spec => []TypeOK
BY FeedInvariant, FeedInvType, PTL

\* However many polls overlap, in whatever order they are answered, over restarts
\* of the server and lost requests: the events from the end of the priming to
\* lastSeq are scheduled or animated, each one once.
THEOREM ShownOnceCorrect == Spec => []ShownOnce
<1>1. FeedInv => ShownOnce
  BY DEF FeedInv
<1>2. QED
  BY <1>1, FeedInvariant, PTL

\* Nothing that the priming answer listed is ever animated, although latest_seq
\* is read after the list and polls of an old process may be answered late.
THEOREM HistoryNotReplayedCorrect == Spec => []HistoryNotReplayed
BY FeedInvariant, FeedInvHistory, PTL

------------------------------------------------------------------------------
(* Liveness: every event of a living process is animated or was history. What *)
(* ENABLED means for the fair actions is a hypothesis, their guards spelled   *)
(* out; that the guards hold when they have to is proved.                     *)
FeedOpen ==
    /\ (\E t \in timers : Due(t)) => ENABLED <<HandleEvent>>_vars
    /\ \A p \in Polls :
         /\ poll[p].at = "asked" => ENABLED <<ReadEvents(p)>>_vars
         /\ poll[p].at = "read" => ENABLED <<ReadLatest(p)>>_vars
         /\ page = "loading" => ENABLED <<Prime(p)>>_vars
         /\ page = "priming" /\ poll[p].at = "answered" => ENABLED <<Primed(p)>>_vars
         /\ page = "priming" /\ poll[p].at = "failed" => ENABLED <<PrimeFails(p)>>_vars
         /\ page = "polling" /\ poll[p].at = "idle" => ENABLED <<PollOnce(p)>>_vars
         /\ page = "polling" /\ poll[p].at = "answered" => ENABLED <<OnState(p)>>_vars
         /\ page = "polling" /\ poll[p].at = "failed" => ENABLED <<PollFails(p)>>_vars

\* No two timers have the same batch and slot.
SlotInv ==
    /\ \A t \in timers : t.batch <= batches
    /\ \A t, u \in timers : t.batch = u.batch /\ t.slot = u.slot => t = u

\* The page does not wait for timers that wait for each other.
TimersFlow == timers # {} => \E t \in timers : Due(t)

\* While the page is priming, the request it waits for is under way.
PrimingAsked == page = "priming" => \E p \in Polls : poll[p].at # "idle"

\* A set of numbers has a least one.
LEMMA LeastNumber ==
    ASSUME NEW S \in SUBSET Nat, S # {}
    PROVE  \E m \in S : \A n \in S : m <= n
<1> DEFINE Less == {p \in Nat \X Nat : p[1] < p[2]}
<1>1. IsWellFoundedOn(Less, Nat)
  BY NatLessThanWellFounded DEF OpToRel
<1>2. PICK m \in S : \A n \in S : ~ (<<n, m>> \in Less)
  BY <1>1, WFMin
<1>3. ASSUME NEW n \in S, n < m PROVE <<n, m>> \in Less
  <2>1. n \in Nat /\ m \in Nat
    OBVIOUS
  <2>2. QED
    BY <1>3, <2>1
<1>4. QED
  <2>1. \A n \in S : ~ (n < m)
    BY <1>2, <1>3
  <2>2. \A n \in S : n \in Nat /\ m \in Nat
    OBVIOUS
  <2>3. QED
    BY <2>1, <2>2

\* A set of numbers with 0 and with every successor has them all.
LEMMA AllNumbers ==
    ASSUME NEW S \in SUBSET Nat, 0 \in S, \A n \in S : n + 1 \in S
    PROVE  S = Nat
<1> SUFFICES ASSUME S # Nat PROVE FALSE
  OBVIOUS
<1> DEFINE Rest == Nat \ S
<1>1. PICK n \in Rest : \A m \in Rest : n <= m
  <2>1. Rest \in SUBSET Nat /\ Rest # {}
    OBVIOUS
  <2> HIDE DEF Rest
  <2>2. QED
    BY <2>1, LeastNumber
<1>2. n # 0 /\ n - 1 \in Nat /\ ~ (n <= n - 1)
  BY <1>1
<1>3. n - 1 \in S
  BY <1>1, <1>2
<1>4. (n - 1) + 1 = n
  BY <1>1
<1>5. QED
  BY <1>1, <1>3, <1>4

\* A function that a lemma is told of. A temporal formula that speaks of n makes
\* one, of n: whether the formula holds of the behaviour at hand. Such a function
\* can be named but not applied, so that the lemma does it.
Named(g) == TRUE

LEMMA NumberInduction ==
    \A g : Named(g) /\ g[0] /\ (\A n \in Nat : g[n] => g[n + 1]) => \A n \in Nat : g[n]
<1> SUFFICES ASSUME NEW g, g[0], \A n \in Nat : g[n] => g[n + 1]
             PROVE  \A n \in Nat : g[n]
  OBVIOUS
<1> DEFINE S == {n \in Nat : g[n]}
<1>1. S \in SUBSET Nat /\ 0 \in S /\ \A n \in S : n + 1 \in S
  OBVIOUS
<1> HIDE DEF S
<1>2. S = Nat
  BY <1>1, AllNumbers
<1>3. QED
  BY <1>2 DEF S

\* The events of a batch have slots of their own: those before the one are
\* among those before the other.
LEMMA SlotsDiffer ==
    ASSUME FeedInv, NEW p \in Polls, poll[p].at = "answered",
           NEW t \in Staggered(p), NEW u \in Staggered(p), t.slot = u.slot
    PROVE  t = u
<1> DEFINE Before(s) == {r \in Fresh(p) : r < s}
           timer(s) == [boot |-> poll[p].boot, seq |-> s, batch |-> batches + 1,
                        slot |-> Cardinality(Before(s))]
<1>1. Fresh(p) \subseteq Nat /\ IsFiniteSet(Fresh(p))
  <2>1. Fresh(p) = (lastSeq + 1)..poll[p].upto /\ lastSeq \in Nat /\ poll[p].upto \in Nat
    BY FreshTimers, FeedBounds DEF FeedInv, VarsTyped
  <2>2. QED
    BY <2>1, FS_Interval
<1>2. ASSUME NEW x \in Fresh(p), NEW y \in Fresh(p), x < y
      PROVE  Cardinality(Before(x)) # Cardinality(Before(y))
  <2>1. Before(x) \subseteq Before(y) /\ x \in Before(y) /\ x \notin Before(x)
    BY <1>1, <1>2
  <2>2. IsFiniteSet(Before(y))
    BY <1>1, FS_Subset
  <2>3. Before(x) # Before(y)
    BY <2>1
  <2> HIDE DEF Before
  <2>4. QED
    BY <2>1, <2>2, <2>3, FS_Subset
<1>3. PICK x \in Fresh(p) : t = timer(x)
  BY DEF Staggered
<1>4. PICK y \in Fresh(p) : u = timer(y)
  BY DEF Staggered
<1>5. Cardinality(Before(x)) = Cardinality(Before(y))
  BY <1>3, <1>4
<1> HIDE DEF Before
<1>6. x \in Nat /\ y \in Nat /\ ~ (x < y) /\ ~ (y < x)
  BY <1>1, <1>2, <1>5
<1>7. QED
  BY <1>3, <1>4, <1>6

LEMMA SlotKept == FeedInv /\ SlotInv /\ [Next]_vars => SlotInv'
<1> SUFFICES ASSUME FeedInv, SlotInv, [Next]_vars PROVE SlotInv'
  OBVIOUS
<1>0. /\ timers \subseteq Timer /\ batches \in Nat
      /\ \A t \in timers : t.batch \in Nat
  BY FeedBounds DEF FeedInv, TimersTyped, Timer
<1>1. CASE timers' \subseteq timers /\ batches' = batches
  BY <1>1 DEF SlotInv
<1>2. ASSUME NEW p \in Polls, OnState(p) PROVE SlotInv'
  <2>1. poll[p].at = "answered" /\ timers' = timers \union Staggered(p)
    BY <1>2 DEF OnState
  <2>2. CASE Fresh(p) = {}
    <3>1. timers' = timers /\ batches' = batches
      BY <1>2, <2>1, <2>2, FreshTimers DEF OnState
    <3>2. QED
      BY <1>1, <3>1
  <2>3. CASE Fresh(p) # {}
    <3>1. batches' = batches + 1
      BY <1>2, <2>3 DEF OnState
    <3>2. \A t \in Staggered(p) : t.batch = batches + 1
      BY <2>1, <2>3, FreshTimers
    <3>3. \A t \in timers : t.batch <= batches
      BY DEF SlotInv
    <3>4. \A t \in timers' : t.batch <= batches'
      BY <1>0, <2>1, <3>1, <3>2, <3>3
    <3>5. ASSUME NEW t \in timers', NEW u \in timers', t.batch = u.batch, t.slot = u.slot
          PROVE  t = u
      <4>1. CASE t \in timers /\ u \in timers
        BY <3>5, <4>1 DEF SlotInv
      <4>2. CASE t \in Staggered(p) /\ u \in Staggered(p)
        BY <2>1, <3>5, <4>2, SlotsDiffer
      <4>3. QED
        BY <1>0, <2>1, <3>2, <3>3, <3>5, <4>1, <4>2
    <3>6. QED
      BY <3>4, <3>5 DEF SlotInv
  <2>4. QED
    BY <2>2, <2>3
<1>3. CASE HandleEvent
  BY <1>1, <1>3 DEF HandleEvent
<1>4. ASSUME NEW p \in Polls, ReadEvents(p) \/ ReadLatest(p) \/ Lose(p) \/ Prime(p)
                              \/ Primed(p) \/ PrimeFails(p) \/ PollOnce(p) \/ PollFails(p)
      PROVE  SlotInv'
  <2>1. timers' = timers /\ batches' = batches
    BY <1>4 DEF ReadEvents, ReadLatest, Lose, Prime, Primed, PrimeFails, PollOnce,
      PollFails, browser
  <2>2. QED
    BY <1>1, <2>1
<1>5. CASE Push \/ Restart \/ UNCHANGED vars
  BY <1>1, <1>5 DEF Push, Restart, vars, browser
<1>6. QED
  BY <1>2, <1>3, <1>4, <1>5 DEF Next, PageStep

LEMMA SomeDue == FeedInv /\ SlotInv => TimersFlow
<1> SUFFICES ASSUME FeedInv, SlotInv, timers # {} PROVE \E t \in timers : Due(t)
  BY DEF TimersFlow
<1>1. \A t \in timers : t.batch \in Nat /\ t.slot \in Nat
  BY FeedBounds DEF FeedInv, TimersTyped, Timer
<1> DEFINE Ranks == {t.batch + t.slot : t \in timers}
<1>2. PICK m \in Ranks : \A n \in Ranks : m <= n
  <2>1. Ranks \in SUBSET Nat /\ Ranks # {}
    BY <1>1
  <2> HIDE DEF Ranks
  <2>2. QED
    BY <2>1, LeastNumber
<1>3. PICK t \in timers : \A u \in timers : t.batch + t.slot <= u.batch + u.slot
  BY <1>2
<1>4. Due(t)
  <2> SUFFICES ASSUME NEW u \in timers \ {t}, u.batch <= t.batch, u.slot <= t.slot
               PROVE  FALSE
    BY DEF Due
  <2>1. u.batch = t.batch /\ u.slot = t.slot
    BY <1>1, <1>3
  <2>2. QED
    BY <2>1 DEF SlotInv
<1>5. QED
  BY <1>4

LEMMA SlotInvariant == Spec => []SlotInv
<1>1. Init => SlotInv
  BY DEF Init, SlotInv
<1>2. QED
  BY <1>1, SlotKept, FeedInvariant, PTL DEF Spec

\* Timers never wait for each other: while there are any, one may fire, however
\* many batches with late and early slots are under way.
THEOREM SomeTimerFires == Spec => []TimersFlow
BY FeedInvariant, SlotInvariant, SomeDue, PTL

\* Requests keep the priming waiting only while they are under way.
LEMMA PrimingKept == FeedInv /\ PrimingAsked /\ [Next]_vars => PrimingAsked'
<1> SUFFICES ASSUME FeedInv, PrimingAsked, [Next]_vars, page' = "priming"
             PROVE  \E p \in Polls : poll'[p].at # "idle"
  BY DEF PrimingAsked
<1>0. poll \in [Polls -> PollRecord]
  BY DEF FeedInv, VarsTyped
<1>1. ASSUME NEW p \in Polls, Prime(p) PROVE poll'[p].at # "idle"
  BY <1>0, <1>1 DEF Prime, Asked, Idle
<1>2. ASSUME NEW p \in Polls,
             Primed(p) \/ PrimeFails(p) \/ PollOnce(p) \/ OnState(p) \/ PollFails(p)
      PROVE  FALSE
  BY <1>2 DEF Primed, PrimeFails, PollOnce, OnState, PollFails, browser
<1>3. ASSUME page = "priming", \A p \in Polls : poll[p].at # "idle" => poll'[p].at # "idle"
      PROVE  \E p \in Polls : poll'[p].at # "idle"
  BY <1>3 DEF PrimingAsked
<1>4. ASSUME NEW p \in Polls, ReadEvents(p) \/ ReadLatest(p) \/ Lose(p)
      PROVE  \E q \in Polls : poll'[q].at # "idle"
  <2>1. page = "priming"
    BY <1>4 DEF ReadEvents, ReadLatest, Lose, browser
  <2>2. poll'[p].at # "idle" /\ \A q \in Polls \ {p} : poll'[q] = poll[q]
    BY <1>0, <1>4 DEF ReadEvents, ReadLatest, Lose, PollRecord
  <2>3. QED
    BY <1>3, <2>1, <2>2
<1>5. CASE Restart
  <2>1. page = "priming"
    BY <1>5 DEF Restart, browser
  <2>2. \A q \in Polls : poll[q].at # "idle" => poll'[q].at # "idle"
    BY <1>0, <1>5 DEF Restart, PollRecord
  <2>3. QED
    BY <1>3, <2>1, <2>2
<1>6. CASE Push \/ HandleEvent \/ UNCHANGED vars
  BY <1>3, <1>6 DEF Push, HandleEvent, vars, browser
<1>7. QED
  BY <1>1, <1>2, <1>4, <1>5, <1>6 DEF Next, PageStep

LEMMA PrimingInvariant == Spec => []PrimingAsked
<1>1. Init => PrimingAsked
  BY DEF Init, PrimingAsked
<1>2. QED
  BY <1>1, PrimingKept, FeedInvariant, PTL DEF Spec

\* Event n is scheduled or animated, or was history, or its process has ended.
Passed(b, n) == boot > b \/ WasHistory(b, n) \/ Happened(b, n)

\* What any step does to one request, while its process lives.
LEMMA PollMoves ==
    ASSUME FeedInv, [Next]_vars, NEW p \in Polls, boot' = boot
    PROVE  \/ poll'[p] = poll[p]
           \/ ReadEvents(p) \/ ReadLatest(p) \/ Lose(p) \/ page' # page
           \/ PollOnce(p) \/ OnState(p) \/ PollFails(p)
<1>0. poll \in [Polls -> PollRecord]
  BY DEF FeedInv, VarsTyped
<1>1. ASSUME NEW q \in Polls, q # p, ReadEvents(q) \/ ReadLatest(q) \/ Lose(q)
                          \/ PollOnce(q) \/ OnState(q) \/ PollFails(q)
      PROVE  poll'[p] = poll[p]
  BY <1>0, <1>1 DEF ReadEvents, ReadLatest, Lose, PollOnce, OnState, PollFails
<1>2. ASSUME NEW q \in Polls, Prime(q) \/ Primed(q) \/ PrimeFails(q)
      PROVE  page' # page
  BY <1>2 DEF Prime, Primed, PrimeFails
<1>3. ~ Restart
  <2>1. boot \in Nat
    BY FeedAssumption DEF FeedInv, VarsTyped, Boots
  <2>2. QED
    BY <2>1 DEF Restart
<1>4. CASE Push \/ HandleEvent \/ UNCHANGED vars
  BY <1>4 DEF Push, HandleEvent, vars
<1>5. QED
  BY <1>1, <1>2, <1>3, <1>4 DEF Next, PageStep

\* A process that no other follows leaves no answers but its own on their way.
LEMMA CurrentKept ==
    ASSUME FeedInv, [Next]_vars, NEW b \in Boots, boot = b, boot' = b, Current(b)
    PROVE  Current(b)'
<1>0. poll \in [Polls -> PollRecord] /\ Idle.at = "idle"
      /\ \A n \in Seqs : Asked(n).at = "asked"
  BY DEF FeedInv, VarsTyped, Idle, Asked
<1>1. ASSUME NEW p \in Polls, ReadEvents(p) \/ ReadLatest(p) \/ Lose(p)
      PROVE  Current(b)'
  BY <1>0, <1>1 DEF ReadEvents, ReadLatest, Lose, Current, PollRecord
<1>2. ASSUME NEW p \in Polls, NEW r, r.at \notin {"read", "answered"},
             poll' = [poll EXCEPT ![p] = r]
      PROVE  Current(b)'
  BY <1>0, <1>2 DEF Current
<1>3. Asked(0).at = "asked" /\ Asked(lastSeq).at = "asked"
  BY DEF Asked, Idle
<1>4. ASSUME NEW p \in Polls, \/ Prime(p) \/ Primed(p) \/ PrimeFails(p)
                              \/ PollOnce(p) \/ OnState(p) \/ PollFails(p)
      PROVE  Current(b)'
  <2>1. poll' \in {[poll EXCEPT ![p] = r] : r \in {Asked(0), Asked(lastSeq), Idle}}
    BY <1>4 DEF Prime, Primed, PrimeFails, PollOnce, OnState, PollFails
  <2>2. QED
    BY <1>0, <1>2, <1>3, <2>1
<1>5. ~ Restart
  BY FeedAssumption DEF Restart, Boots
<1>6. CASE Push \/ HandleEvent \/ UNCHANGED vars
  BY <1>6 DEF Push, HandleEvent, vars, Current
<1>7. QED
  BY <1>1, <1>4, <1>5, <1>6 DEF Next, PageStep

\* An answer that moves the page past event n of its process schedules it.
LEMMA NewScheduled ==
    ASSUME FeedInv, FeedInv', NEW p \in Polls, NEW b \in Boots, NEW n \in Seqs \ {0},
           Pending(b, n), OnState(p), n <= lastSeq' \/ n <= poll[p].upto
    PROVE  Happened(b, n)'
<1>1. /\ poll[p].at = "answered" /\ poll[p].boot = b
      /\ timers' = timers \union Staggered(p)
      /\ lastSeq \in Nat /\ n \in Nat /\ lastSeq < n
  BY DEF OnState, Pending, Current, FeedInv, VarsTyped, Seqs
<1>2. Fresh(p) = (lastSeq + 1)..poll[p].upto /\ poll[p].upto \in Nat
  BY <1>1, FreshTimers DEF Seqs
<1>3. n <= poll[p].upto
  <2>1. ASSUME n <= lastSeq' PROVE lastSeq' = poll[p].upto
    <3>1. Fresh(p) # {}
      BY <1>1, <2>1 DEF OnState
    <3>2. QED
      BY <1>1, <3>1, FreshTimers DEF OnState
  <2>2. QED
    BY <2>1
<1>4. n \in Fresh(p)
  BY <1>1, <1>2, <1>3
<1>5. PICK t \in Staggered(p) : t.seq = n /\ t.boot = b
  <2> DEFINE t == [boot |-> poll[p].boot, seq |-> n, batch |-> batches + 1,
                   slot |-> Cardinality({u \in Fresh(p) : u < n})]
  <2>1. t \in Staggered(p)
    BY <1>4 DEF Staggered
  <2>2. t.seq = n /\ t.boot = b
    BY <1>1
  <2>3. QED
    BY <2>1, <2>2
<1>6. QED
  BY <1>1, <1>5 DEF Happened

\* An event that the page has to come to stays so until the page comes to it.
LEMMA PendingKept ==
    ASSUME FeedInv, FeedInv', [Next]_vars, NEW b \in Boots, NEW n \in Seqs \ {0},
           Pending(b, n)
    PROVE  /\ Passed(b, n)' \/ (Pending(b, n)' /\ boot' = boot)
           /\ fails' \in {fails, fails + 1}
           /\ page = "polling" => page' = "polling"
           /\ page = "priming" => page' \in {"priming", "polling"}
           /\ page = "loading" => page' \in {"loading", "priming"}
<1>0. /\ boot \in Nat /\ seq \in Nat /\ lastSeq' \in Nat /\ n \in Nat \ {0}
      /\ page \in {"loading", "priming", "polling"}
      /\ page' # "polling" => lastSeq' = 0
  BY FeedAssumption DEF FeedInv, VarsTyped, PrimingInv, Boots, Seqs
<1> DEFINE Onward == Passed(b, n)' \/ (Pending(b, n)' /\ boot' = boot)
           Forward == /\ fails' \in {fails, fails + 1}
                      /\ page = "polling" => page' = "polling"
                      /\ page = "priming" => page' \in {"priming", "polling"}
                      /\ page = "loading" => page' \in {"loading", "priming"}
<1>1. Forward
  <2>1. ASSUME fails' \in {fails, fails + 1}, page' = page PROVE Forward
    BY <1>0, <2>1
  <2>2. CASE Push \/ Restart \/ HandleEvent \/ UNCHANGED vars
    BY <2>1, <2>2 DEF Push, Restart, HandleEvent, vars, browser
  <2>3. ASSUME NEW p \in Polls, ReadEvents(p) \/ ReadLatest(p) \/ Lose(p)
                                \/ PollOnce(p) \/ OnState(p) \/ PollFails(p)
        PROVE  Forward
    <3>1. fails' \in {fails, fails + 1} /\ page' = page
      BY <2>3 DEF ReadEvents, ReadLatest, Lose, PollOnce, OnState, PollFails, browser
    <3>2. QED
      BY <2>1, <3>1
  <2>4. ASSUME NEW p \in Polls, Prime(p) \/ Primed(p) \/ PrimeFails(p)
        PROVE  Forward
    BY <2>4 DEF Prime, Primed, PrimeFails
  <2>5. QED
    BY <2>2, <2>3, <2>4 DEF Next, PageStep
<1>2. ASSUME Restart PROVE Onward
  BY <1>0, <1>2 DEF Restart, Passed, Pending
<1>3. ASSUME Push PROVE Onward
  BY <1>0, <1>3 DEF Push, Passed, Pending, Current, browser
<1>4. ASSUME ~ Restart, ~ Push PROVE Onward
  <2>1. UNCHANGED server
    <3>1. ASSUME NEW p \in Polls, ReadEvents(p) \/ ReadLatest(p) \/ Lose(p)
                   \/ Prime(p) \/ Primed(p) \/ PrimeFails(p)
                   \/ PollOnce(p) \/ OnState(p) \/ PollFails(p)
          PROVE  UNCHANGED server
      BY <3>1 DEF ReadEvents, ReadLatest, Lose, Prime, Primed, PrimeFails, PollOnce,
        OnState, PollFails
    <3>2. CASE HandleEvent \/ UNCHANGED vars
      BY <3>2 DEF HandleEvent, vars
    <3>3. QED
      BY <1>4, <3>1, <3>2 DEF Next, PageStep
  <2>2. CASE lastSeq' < n
    <3>1. Current(b)'
      BY <1>4, <2>1, CurrentKept DEF Pending, server
    <3>2. QED
      BY <2>1, <2>2, <3>1 DEF server, Pending
  <2>3. CASE n <= lastSeq'
    <3>1. PICK p \in Polls : OnState(p) \/ Primed(p)
      <4>1. lastSeq' # lastSeq
        BY <1>0, <2>3 DEF Pending
      <4>2. ASSUME NEW p \in Polls, ReadEvents(p) \/ ReadLatest(p) \/ Lose(p)
                     \/ Prime(p) \/ PrimeFails(p) \/ PollOnce(p) \/ PollFails(p)
            PROVE  FALSE
        BY <4>1, <4>2 DEF ReadEvents, ReadLatest, Lose, Prime, PrimeFails, PollOnce,
          PollFails, browser
      <4>3. CASE HandleEvent \/ UNCHANGED vars
        BY <4>1, <4>3 DEF HandleEvent, vars, browser
      <4>4. QED
        BY <1>4, <4>2, <4>3 DEF Next, PageStep
    <3>2. poll[p].at = "answered" /\ poll[p].boot = b
      BY <3>1 DEF OnState, Primed, Pending, Current
    <3>3. CASE Primed(p)
      BY <1>0, <2>3, <3>2, <3>3 DEF Primed, Passed, WasHistory
    <3>4. CASE OnState(p)
      BY <2>3, <3>4, NewScheduled DEF Passed
    <3>5. QED
      BY <3>1, <3>3, <3>4
  <2>4. QED
    BY <1>0, <2>2, <2>3
<1>5. QED
  BY <1>1, <1>2, <1>3, <1>4

------------------------------------------------------------------------------
(* The page polls: request p, of whichever the page has, brings it past n.    *)

\* The steps of request p until the page is past event n, if none is lost.
PollLeft(r, n) ==
    CASE r.at = "read" /\ r.upto < n -> 7
      [] r.at = "answered" /\ r.upto < n -> 6
      [] r.at = "failed" -> 5
      [] r.at = "idle" -> 4
      [] r.at = "asked" -> 3
      [] r.at = "read" /\ n <= r.upto -> 2
      [] OTHER -> 1

\* A request that is lost costs more steps than a poll has.
PassLeft(p, n) == 8 * (MaxFails - fails) + PollLeft(poll[p], n)

AtMost(p, b, n, k) == Pending(b, n) /\ page = "polling" /\ PassLeft(p, n) <= k

LEMMA PassLeftNat ==
    ASSUME FeedInv, NEW p \in Polls, NEW n \in Nat
    PROVE  /\ PassLeft(p, n) \in Nat \ {0}
           /\ PollLeft(poll[p], n) \in 1..7 /\ fails \in Nat /\ fails <= MaxFails
<1>1. fails \in Nat /\ fails <= MaxFails /\ MaxFails \in Nat
  BY FeedAssumption DEF FeedInv, VarsTyped
<1>2. PollLeft(poll[p], n) \in 1..7
  BY DEF PollLeft
<1>3. QED
  BY <1>1, <1>2 DEF PassLeft

\* A step of request p brings the page nearer to event n, or past it.
LEMMA PollAdvances ==
    ASSUME FeedInv, FeedInv', NEW p \in Polls, NEW b \in Boots, NEW n \in Seqs \ {0},
           Pending(b, n), page = "polling",
           \/ ReadEvents(p) \/ ReadLatest(p) \/ Lose(p)
           \/ PollOnce(p) \/ OnState(p) \/ PollFails(p)
    PROVE  Passed(b, n)' \/ PassLeft(p, n)' < PassLeft(p, n)
<1> DEFINE r == poll[p]
<1>0. /\ n \in Nat /\ lastSeq \in Nat /\ MaxFails \in Nat /\ fails \in Nat
      /\ poll \in [Polls -> PollRecord] /\ r \in PollRecord
      /\ r.at \in {"idle", "asked", "read", "answered", "failed"}
      /\ r.upto \in Nat /\ seq \in Nat
      /\ PollLeft(r, n) \in 1..7
  BY PassLeftNat, FeedAssumption DEF FeedInv, VarsTyped, Seqs, PollRecord
<1>1. ASSUME fails' = fails, PollLeft(poll'[p], n) < PollLeft(r, n),
             PollLeft(poll'[p], n) \in Int
      PROVE  PassLeft(p, n)' < PassLeft(p, n)
  BY <1>0, <1>1 DEF PassLeft
<1>2. PollLeft(poll'[p], n) \in Int
  BY DEF PollLeft
<1>3. CASE ReadEvents(p)
  <2>1. poll'[p].at = "read" /\ poll'[p].upto = seq /\ r.at = "asked" /\ fails' = fails
    BY <1>0, <1>3 DEF ReadEvents, PollRecord
  <2>2. PollLeft(poll'[p], n) = 2 /\ PollLeft(r, n) = 3
    BY <1>0, <2>1 DEF PollLeft, Pending
  <2>3. QED
    BY <1>1, <1>2, <2>1, <2>2
<1>4. CASE ReadLatest(p)
  <2>1. /\ poll'[p].at = "answered" /\ poll'[p].upto = r.upto
        /\ r.at = "read" /\ fails' = fails
    BY <1>0, <1>4 DEF ReadLatest, PollRecord
  <2>2. PollLeft(poll'[p], n) < PollLeft(r, n)
    BY <1>0, <2>1 DEF PollLeft
  <2>3. QED
    BY <1>1, <1>2, <2>1, <2>2
<1>5. CASE PollOnce(p) \/ PollFails(p)
  <2>1. /\ \/ r.at = "idle" /\ poll'[p].at = "asked"
           \/ r.at = "failed" /\ poll'[p].at = "idle"
        /\ fails' = fails
    <3>1. Asked(lastSeq).at = "asked" /\ Idle.at = "idle"
      BY DEF Asked, Idle
    <3>2. /\ \/ r.at = "idle" /\ poll'[p] = Asked(lastSeq)
             \/ r.at = "failed" /\ poll'[p] = Idle
          /\ fails' = fails
      BY <1>0, <1>5 DEF PollOnce, PollFails
    <3>3. QED
      BY <3>1, <3>2
  <2>2. PollLeft(poll'[p], n) < PollLeft(r, n)
    BY <2>1 DEF PollLeft
  <2>3. QED
    BY <1>1, <1>2, <2>1, <2>2
<1>6. CASE OnState(p)
  <2>1. r.at = "answered" /\ poll'[p].at = "idle" /\ fails' = fails
    BY <1>0, <1>6 DEF OnState, Idle
  <2>2. CASE r.upto < n
    <3>1. PollLeft(poll'[p], n) = 4 /\ PollLeft(r, n) = 6
      BY <2>1, <2>2 DEF PollLeft
    <3>2. QED
      BY <1>1, <1>2, <2>1, <3>1
  <2>3. CASE n <= r.upto
    BY <1>6, <2>3, NewScheduled DEF Passed
  <2>4. QED
    BY <1>0, <2>2, <2>3
<1>7. CASE Lose(p)
  <2>1. poll'[p].at = "failed" /\ fails' = fails + 1
    BY <1>0, <1>7 DEF Lose, PollRecord
  <2>2. PollLeft(poll'[p], n) = 5
    BY <2>1 DEF PollLeft
  <2>3. QED
    BY <1>0, <2>1, <2>2 DEF PassLeft
<1>8. QED
  BY <1>3, <1>4, <1>5, <1>6, <1>7

LEMMA NearerPass ==
    ASSUME FeedInv, FeedInv', NEW p \in Polls, NEW b \in Boots, NEW n \in Seqs \ {0},
           NEW k \in Nat, NEW m \in Nat, k = m + 1, AtMost(p, b, n, k), [Next]_vars,
           \/ ReadEvents(p) \/ ReadLatest(p) \/ Lose(p)
           \/ PollOnce(p) \/ OnState(p) \/ PollFails(p)
    PROVE  AtMost(p, b, n, m)' \/ Passed(b, n)'
<1>1. Pending(b, n) /\ page = "polling" /\ PassLeft(p, n) <= k
  BY DEF AtMost
<1>2. n \in Nat
  BY DEF Seqs
<1>3. PassLeft(p, n) \in Nat
  BY <1>2, PassLeftNat
<1>4. PassLeft(p, n)' \in Int
  <2>1. fails' \in Nat /\ MaxFails \in Nat /\ PollLeft(poll'[p], n) \in 1..7
    BY FeedAssumption DEF FeedInv, VarsTyped, PollLeft
  <2>2. QED
    BY <2>1 DEF PassLeft
<1>5. Passed(b, n)' \/ (Pending(b, n)' /\ page' = "polling")
  BY <1>1, PendingKept
<1>6. Passed(b, n)' \/ PassLeft(p, n)' < PassLeft(p, n)
  BY <1>1, PollAdvances
<1>7. QED
  BY <1>1, <1>3, <1>4, <1>5, <1>6 DEF AtMost

\* No step of others takes the page away from event n, or request p its turn.
LEMMA PassKept ==
    ASSUME FeedInv, FeedInv', NEW p \in Polls, NEW b \in Boots, NEW n \in Seqs \ {0},
           NEW k \in Nat, NEW m \in Nat, k = m + 1, AtMost(p, b, n, k), [Next]_vars
    PROVE  \/ AtMost(p, b, n, m)' \/ Passed(b, n)'
           \/ AtMost(p, b, n, k)' /\ poll'[p].at = poll[p].at
<1>1. Pending(b, n) /\ page = "polling" /\ PassLeft(p, n) <= k
  BY DEF AtMost
<1>2. /\ Passed(b, n)' \/ (Pending(b, n)' /\ boot' = boot)
      /\ page' = page /\ fails' \in {fails, fails + 1}
  BY <1>1, PendingKept
<1>3. CASE \/ ReadEvents(p) \/ ReadLatest(p) \/ Lose(p)
           \/ PollOnce(p) \/ OnState(p) \/ PollFails(p)
  BY <1>3, NearerPass
<1>4. CASE Pending(b, n)' /\ boot' = boot /\ poll'[p] = poll[p]
  <2>1. /\ fails \in Nat /\ fails' \in Nat /\ MaxFails \in Nat
        /\ PollLeft(poll[p], n) \in 1..7
    BY <1>2, PassLeftNat, FeedAssumption DEF FeedInv, VarsTyped, Seqs
  <2>2. PassLeft(p, n)' <= PassLeft(p, n) /\ PassLeft(p, n)' \in Int
        /\ PassLeft(p, n) \in Int
    BY <1>2, <1>4, <2>1 DEF PassLeft
  <2>3. PassLeft(p, n)' <= k
    BY <1>1, <2>2
  <2>4. QED
    BY <1>1, <1>2, <1>4, <2>3 DEF AtMost
<1>5. QED
  BY <1>2, <1>3, <1>4, PollMoves

\* What request p is served under.
Watching(p) == []FeedInv /\ []FeedOpen /\ [][Next]_vars /\ PollFair(p)

\* With k steps left at most, the page comes to m, or past event n.
ComesNearer(p, b, n, k, m) ==
    Watching(p) => (AtMost(p, b, n, k) ~> (AtMost(p, b, n, m) \/ Passed(b, n)))

LEMMA PassComesNearer ==
    ASSUME NEW p \in Polls, NEW b \in Boots, NEW n \in Seqs \ {0},
           NEW k \in Nat, NEW m \in Nat, k = m + 1
    PROVE  ComesNearer(p, b, n, k, m)
<1> DEFINE Where(x) == AtMost(p, b, n, k) /\ poll[p].at = x
           Goal == AtMost(p, b, n, m) \/ Passed(b, n)
<1>1. FeedInv /\ AtMost(p, b, n, k) =>
        Where("idle") \/ Where("asked") \/ Where("read") \/ Where("answered")
          \/ Where("failed")
  <2>1. FeedInv => poll[p].at \in {"idle", "asked", "read", "answered", "failed"}
    BY DEF FeedInv, VarsTyped, PollRecord
  <2>2. QED
    BY <2>1
<1>2. ASSUME NEW x
      PROVE  FeedInv /\ FeedInv' /\ Where(x) /\ [Next]_vars => Where(x)' \/ Goal'
  BY PassKept
<1>3. ASSUME FeedInv, FeedInv', NEW x, Where(x), [Next]_vars,
             \/ ReadEvents(p) \/ ReadLatest(p) \/ PollOnce(p) \/ OnState(p) \/ PollFails(p)
      PROVE  Goal'
  BY <1>3, NearerPass
<1> DEFINE Taken(x, A) == FeedInv /\ FeedInv' /\ Where(x) /\ [Next]_vars /\ A => Goal'
<1>4. /\ Taken("idle", PollOnce(p)) /\ Taken("asked", ReadEvents(p))
      /\ Taken("read", ReadLatest(p)) /\ Taken("answered", OnState(p))
      /\ Taken("failed", PollFails(p))
  BY <1>3
<1>5. FeedOpen =>
        /\ Where("idle") => ENABLED <<PollOnce(p)>>_vars
        /\ Where("asked") => ENABLED <<ReadEvents(p)>>_vars
        /\ Where("read") => ENABLED <<ReadLatest(p)>>_vars
        /\ Where("answered") => ENABLED <<OnState(p)>>_vars
        /\ Where("failed") => ENABLED <<PollFails(p)>>_vars
  BY DEF FeedOpen, AtMost
<1>6. /\ FeedInv /\ FeedInv' /\ Where("idle") /\ [Next]_vars => Where("idle")' \/ Goal'
      /\ FeedInv /\ FeedInv' /\ Where("asked") /\ [Next]_vars => Where("asked")' \/ Goal'
      /\ FeedInv /\ FeedInv' /\ Where("read") /\ [Next]_vars => Where("read")' \/ Goal'
      /\ FeedInv /\ FeedInv' /\ Where("answered") /\ [Next]_vars
           => Where("answered")' \/ Goal'
      /\ FeedInv /\ FeedInv' /\ Where("failed") /\ [Next]_vars => Where("failed")' \/ Goal'
  BY <1>2
<1> HIDE DEF Where, Goal
<1>7. Watching(p) => (AtMost(p, b, n, k) ~> Goal)
  BY <1>1, <1>4, <1>5, <1>6, PTL DEF Watching, PollFair
<1>8. QED
  BY <1>7 DEF ComesNearer, Goal

\* With k steps left at most, the page comes past event n.
Passes(p, b, n, k) == Watching(p) => (AtMost(p, b, n, k) ~> Passed(b, n))

LEMMA PassesStart ==
    ASSUME NEW p \in Polls, NEW b \in Boots, NEW n \in Seqs \ {0}
    PROVE  Passes(p, b, n, 0)
<1>1. FeedInv => ~ AtMost(p, b, n, 0)
  <2> SUFFICES ASSUME FeedInv, AtMost(p, b, n, 0) PROVE FALSE
    OBVIOUS
  <2>1. PassLeft(p, n) \in Nat \ {0} /\ PassLeft(p, n) <= 0
    BY PassLeftNat DEF AtMost, Seqs
  <2>2. QED
    BY <2>1
<1>2. QED
  BY <1>1, PTL DEF Passes, Watching

LEMMA PassesNext ==
    ASSUME NEW p \in Polls, NEW b \in Boots, NEW n \in Seqs \ {0}, NEW m \in Nat
    PROVE  Passes(p, b, n, m) => Passes(p, b, n, m + 1)
<1> DEFINE k == m + 1
<1>1. k \in Nat /\ k = m + 1
  OBVIOUS
<1> HIDE DEF k
<1>2. ComesNearer(p, b, n, k, m)
  BY <1>1, PassComesNearer
<1>3. Passes(p, b, n, m) => Passes(p, b, n, k)
  BY <1>2, PTL DEF Passes, ComesNearer
<1>4. QED
  BY <1>1, <1>3

\* By induction on the steps that are left: Passes is told of a behaviour, and
\* the numbers it holds of are a set as any other.
LEMMA PassesAlways ==
    ASSUME NEW p \in Polls, NEW b \in Boots, NEW n \in Seqs \ {0}
    PROVE  \A k \in Nat : Passes(p, b, n, k)
<1> DEFINE F == [k \in Nat |-> Passes(p, b, n, k)]
<1>1. Named(F)
  BY DEF Named
<1>2. QED
  BY PassesStart, PassesNext, <1>1, NumberInduction, SMT

LEMMA PollingPasses ==
    ASSUME NEW p \in Polls, NEW b \in Boots, NEW n \in Seqs \ {0}
    PROVE  Watching(p) => ((Pending(b, n) /\ page = "polling") ~> Passed(b, n))
<1> DEFINE k == 8 * MaxFails + 7
           Polling == Pending(b, n) /\ page = "polling"
<1>1. k \in Nat
  BY FeedAssumption
<1>2. FeedInv /\ Polling => AtMost(p, b, n, k)
  <2> SUFFICES ASSUME FeedInv, Polling PROVE AtMost(p, b, n, k)
    OBVIOUS
  <2>1. /\ PollLeft(poll[p], n) \in 1..7 /\ fails \in Nat /\ fails <= MaxFails
        /\ MaxFails \in Nat
    BY PassLeftNat, FeedAssumption DEF Seqs
  <2>2. PassLeft(p, n) <= k
    BY <2>1 DEF PassLeft
  <2>3. QED
    BY <2>2 DEF AtMost
<1> HIDE DEF k
<1>3. Passes(p, b, n, k)
  BY <1>1, PassesAlways
<1>4. QED
  BY <1>2, <1>3, PTL DEF Passes, Watching

------------------------------------------------------------------------------
(* The page comes to poll: its one request of the priming is answered, or     *)
(* fails, and either starts the timer.                                        *)
Polling(b, n) == Pending(b, n) /\ page = "polling"
Priming(b, n) == Pending(b, n) /\ page = "priming"
Loading(b, n) == Pending(b, n) /\ page = "loading"

\* The request that the priming waits for is p.
Asking(p, b, n) == Priming(b, n) /\ poll[p].at # "idle"

\* The request of the priming makes one step after the other.
LEMMA PrimingMoves ==
    ASSUME FeedInv, FeedInv', NEW p \in Polls, NEW b \in Boots, NEW n \in Seqs \ {0},
           Priming(b, n), [Next]_vars
    PROVE  \/ Polling(b, n)' \/ Passed(b, n)'
           \/ /\ Priming(b, n)' /\ ~ Primed(p) /\ ~ PrimeFails(p)
              /\ \/ poll'[p].at = poll[p].at /\ ~ ReadEvents(p) /\ ~ ReadLatest(p)
                 \/ poll[p].at = "asked" /\ poll'[p].at = "read"
                 \/ poll[p].at = "read" /\ poll'[p].at = "answered"
                 \/ poll[p].at \in {"asked", "answered", "failed"} /\ poll'[p].at = "failed"
<1>0. /\ Pending(b, n) /\ page = "priming"
      /\ poll \in [Polls -> PollRecord]
  BY DEF Priming, FeedInv, VarsTyped
<1>1. /\ Passed(b, n)' \/ (Pending(b, n)' /\ boot' = boot)
      /\ page' \in {"priming", "polling"}
  BY <1>0, PendingKept
<1>2. ASSUME Pending(b, n)', boot' = boot, page' = "priming"
      PROVE  /\ Priming(b, n)' /\ ~ Primed(p) /\ ~ PrimeFails(p)
             /\ \/ poll'[p].at = poll[p].at /\ ~ ReadEvents(p) /\ ~ ReadLatest(p)
                \/ poll[p].at = "asked" /\ poll'[p].at = "read"
                \/ poll[p].at = "read" /\ poll'[p].at = "answered"
                \/ poll[p].at \in {"asked", "answered", "failed"} /\ poll'[p].at = "failed"
  <2>1. Priming(b, n)' /\ ~ Primed(p) /\ ~ PrimeFails(p)
    BY <1>2 DEF Priming, Primed, PrimeFails
  <2>2. CASE ReadEvents(p)
    BY <1>0, <2>1, <2>2 DEF ReadEvents, PollRecord
  <2>3. CASE ReadLatest(p)
    BY <1>0, <2>1, <2>3 DEF ReadLatest, PollRecord
  <2>4. CASE Lose(p)
    BY <1>0, <2>1, <2>4 DEF Lose, PollRecord
  <2>5. ~ PollOnce(p) /\ ~ OnState(p) /\ ~ PollFails(p)
    BY <1>0 DEF PollOnce, OnState, PollFails
  <2>6. CASE poll'[p] = poll[p] /\ ~ ReadEvents(p) /\ ~ ReadLatest(p)
    BY <2>1, <2>6
  <2>7. QED
    BY <1>0, <1>2, <2>2, <2>3, <2>4, <2>5, <2>6, PollMoves
<1>3. QED
  BY <1>1, <1>2 DEF Polling

\* The priming ends: the page polls, if nothing else takes it past event n.
StartsPolling(p, b, n) ==
    Watching(p) => (Asking(p, b, n) ~> (Polling(b, n) \/ Passed(b, n)))

LEMMA PrimingEnds ==
    ASSUME NEW p \in Polls, NEW b \in Boots, NEW n \in Seqs \ {0}
    PROVE  StartsPolling(p, b, n)
<1> DEFINE Where(x) == Priming(b, n) /\ poll[p].at = x
           Goal == Polling(b, n) \/ Passed(b, n)
           Start == Asking(p, b, n)
           Step == FeedInv /\ FeedInv' /\ [Next]_vars
<1>1. FeedInv /\ Start =>
        Where("asked") \/ Where("read") \/ Where("answered") \/ Where("failed")
  <2>1. FeedInv => poll[p].at \in {"idle", "asked", "read", "answered", "failed"}
    BY DEF FeedInv, VarsTyped, PollRecord
  <2>2. QED
    BY <2>1 DEF Asking
<1>2. /\ Step /\ Where("asked") => Where("asked")' \/ Where("read")' \/ Where("failed")' \/ Goal'
      /\ Step /\ Where("read") => Where("read")' \/ Where("answered")' \/ Goal'
      /\ Step /\ Where("answered") => Where("answered")' \/ Where("failed")' \/ Goal'
      /\ Step /\ Where("failed") => Where("failed")' \/ Goal'
  BY PrimingMoves
<1>3. /\ Step /\ Where("asked") /\ ReadEvents(p) => Where("read")' \/ Where("failed")' \/ Goal'
      /\ Step /\ Where("read") /\ ReadLatest(p) => Where("answered")' \/ Goal'
      /\ Step /\ Where("answered") /\ Primed(p) => Goal'
      /\ Step /\ Where("failed") /\ PrimeFails(p) => Goal'
  <2> SUFFICES ASSUME Step, Priming(b, n)
               PROVE  /\ Where("asked") /\ ReadEvents(p)
                           => Where("read")' \/ Where("failed")' \/ Goal'
                      /\ Where("read") /\ ReadLatest(p) => Where("answered")' \/ Goal'
                      /\ Where("answered") /\ Primed(p) => Goal'
                      /\ Where("failed") /\ PrimeFails(p) => Goal'
    OBVIOUS
  <2>1. \/ Goal'
        \/ /\ Priming(b, n)' /\ ~ Primed(p) /\ ~ PrimeFails(p)
           /\ \/ poll'[p].at = poll[p].at /\ ~ ReadEvents(p) /\ ~ ReadLatest(p)
              \/ poll[p].at = "asked" /\ poll'[p].at = "read"
              \/ poll[p].at = "read" /\ poll'[p].at = "answered"
              \/ poll[p].at \in {"asked", "answered", "failed"} /\ poll'[p].at = "failed"
    BY PrimingMoves
  <2>2. QED
    BY <2>1
<1>4. FeedOpen =>
        /\ Where("asked") => ENABLED <<ReadEvents(p)>>_vars
        /\ Where("read") => ENABLED <<ReadLatest(p)>>_vars
        /\ Where("answered") => ENABLED <<Primed(p)>>_vars
        /\ Where("failed") => ENABLED <<PrimeFails(p)>>_vars
  BY DEF FeedOpen, Priming
<1> HIDE DEF Where, Goal, Start
<1>5. Watching(p) => (Start ~> Goal)
  BY <1>1, <1>2, <1>3, <1>4, PTL DEF Watching, PollFair
<1>6. QED
  BY <1>5 DEF Start, Goal, StartsPolling

LEMMA LoadingEnds ==
    ASSUME NEW p \in Polls, NEW b \in Boots, NEW n \in Seqs \ {0}
    PROVE  Watching(p) => (Loading(b, n) ~> (Priming(b, n) \/ Passed(b, n)))
<1> DEFINE Goal == Priming(b, n) \/ Passed(b, n)
<1>1. FeedInv /\ FeedInv' /\ [Next]_vars /\ Loading(b, n) => Loading(b, n)' \/ Goal'
  BY PendingKept DEF Loading, Priming
<1>2. FeedInv /\ FeedInv' /\ [Next]_vars /\ Loading(b, n) /\ Prime(p) => Goal'
  <2> SUFFICES ASSUME FeedInv, FeedInv', [Next]_vars, Loading(b, n), Prime(p)
               PROVE  Goal'
    OBVIOUS
  <2>1. page' = "priming"
    BY DEF Prime
  <2>2. Passed(b, n)' \/ Pending(b, n)'
    BY PendingKept DEF Loading
  <2>3. QED
    BY <2>1, <2>2 DEF Priming
<1>3. FeedOpen /\ Loading(b, n) => ENABLED <<Prime(p)>>_vars
  BY DEF FeedOpen, Loading
<1> HIDE DEF Goal
<1>4. Watching(p) => (Loading(b, n) ~> Goal)
  BY <1>1, <1>2, <1>3, PTL DEF Watching, PollFair
<1>5. QED
  BY <1>4 DEF Goal

------------------------------------------------------------------------------
(* What is scheduled is animated: a page has no more timers to come than      *)
(* there are events, so that each that fires leaves fewer.                    *)

\* Event n of process b has a timer that has not fired.
Scheduled(b, n) == \E t \in timers : t.boot = b /\ t.seq = n

\* It has, and k events at most are not animated yet.
Waits(b, n, k) == Scheduled(b, n) /\ MaxEvents - Len(shown) <= k

LEMMA ScheduledKept ==
    ASSUME FeedInv, [Next]_vars, NEW b, NEW n, Scheduled(b, n)
    PROVE  /\ Scheduled(b, n)' \/ Shown(b, n)'
           /\ IF HandleEvent THEN Len(shown') = Len(shown) + 1 ELSE shown' = shown
<1>0. page = "polling" /\ shown \in Seq(Event)
  BY DEF Scheduled, FeedInv, PrimingInv, TimersTyped
<1>1. ASSUME timers \subseteq timers' PROVE Scheduled(b, n)'
  BY <1>1 DEF Scheduled
<1>2. CASE HandleEvent
  <2>1. PICK t \in timers :
            /\ timers' = timers \ {t}
            /\ shown' = Append(shown, [boot |-> t.boot, seq |-> t.seq])
    BY <1>2 DEF HandleEvent
  <2>2. /\ Len(shown') = Len(shown) + 1 /\ Len(shown) \in Nat
        /\ shown'[Len(shown) + 1] = [boot |-> t.boot, seq |-> t.seq]
    BY <1>0, <2>1
  <2>3. CASE t.boot = b /\ t.seq = n
    <3>1. Len(shown) + 1 \in 1..Len(shown')
      BY <2>2
    <3>2. QED
      BY <1>2, <2>2, <2>3, <3>1 DEF Shown
  <2>4. CASE ~ (t.boot = b /\ t.seq = n)
    BY <1>2, <2>1, <2>2, <2>4 DEF Scheduled
  <2>5. QED
    BY <2>3, <2>4
<1>3. ASSUME NEW p \in Polls, OnState(p)
      PROVE  timers \subseteq timers' /\ shown' = shown
  BY <1>3 DEF OnState
<1>4. ASSUME NEW p \in Polls, \/ ReadEvents(p) \/ ReadLatest(p) \/ Lose(p)
                              \/ PollOnce(p) \/ PollFails(p)
      PROVE  timers \subseteq timers' /\ shown' = shown
  BY <1>4 DEF ReadEvents, ReadLatest, Lose, PollOnce, PollFails, browser
<1>5. ASSUME NEW p \in Polls PROVE ~ Prime(p) /\ ~ Primed(p) /\ ~ PrimeFails(p)
  BY <1>0 DEF Prime, Primed, PrimeFails
<1>6. ASSUME Push \/ Restart \/ UNCHANGED vars
      PROVE  timers \subseteq timers' /\ shown' = shown
  BY <1>6 DEF Push, Restart, vars, browser
<1>7. ASSUME ~ HandleEvent PROVE timers \subseteq timers' /\ shown' = shown
  BY <1>3, <1>4, <1>5, <1>6, <1>7 DEF Next, PageStep
<1>8. QED
  BY <1>1, <1>2, <1>7

LEMMA WaitsForTimer ==
    ASSUME FeedInv, timers # {}
    PROVE  Len(shown) \in Nat /\ MaxEvents - Len(shown) >= 1
<1>1. Cardinality(timers) \in Nat /\ Cardinality(timers) # 0
  BY FS_CardinalityType, FS_EmptySet DEF FeedInv, TimersTyped
<1>2. /\ Len(shown) \in Nat /\ Len(shown) + Cardinality(timers) = lastSeq - start
      /\ lastSeq \in Nat /\ start \in Nat /\ lastSeq <= MaxEvents /\ MaxEvents \in Nat
  BY FeedBounds DEF FeedInv, ShownOnce, TimersTyped, VarsTyped
<1>3. QED
  BY <1>1, <1>2

\* What the timers fire under.
Ticking == []FeedInv /\ []TimersFlow /\ []FeedOpen /\ [][Next]_vars /\ TimersFire

\* With k events to be animated at most, n comes to be one with m, or is animated.
FiresNearer(b, n, k, m) == Ticking => (Waits(b, n, k) ~> (Waits(b, n, m) \/ Shown(b, n)))

LEMMA TimerComesNearer ==
    ASSUME NEW b, NEW n, NEW k \in Nat, NEW m \in Nat, k = m + 1
    PROVE  FiresNearer(b, n, k, m)
<1> DEFINE Goal == Waits(b, n, m) \/ Shown(b, n)
<1>1. FeedInv /\ [Next]_vars /\ Waits(b, n, k) => Waits(b, n, k)' \/ Goal'
  <2> SUFFICES ASSUME FeedInv, [Next]_vars, Waits(b, n, k), ~ Goal' PROVE Waits(b, n, k)'
    OBVIOUS
  <2>1. Scheduled(b, n)' /\ (Len(shown') = Len(shown) + 1 \/ Len(shown') = Len(shown))
    BY ScheduledKept DEF Waits
  <2>2. Len(shown) \in Nat /\ MaxEvents - Len(shown) <= k
    BY WaitsForTimer DEF Waits, Scheduled
  <2>3. MaxEvents - Len(shown') <= k
    BY <2>1, <2>2, FeedBounds
  <2>4. QED
    BY <2>1, <2>3 DEF Waits
<1>2. FeedInv /\ [Next]_vars /\ Waits(b, n, k) /\ HandleEvent => Goal'
  <2> SUFFICES ASSUME FeedInv, [Next]_vars, Waits(b, n, k), HandleEvent,
                      ~ Shown(b, n)'
               PROVE  Waits(b, n, m)'
    OBVIOUS
  <2>1. Scheduled(b, n)' /\ Len(shown') = Len(shown) + 1
    BY ScheduledKept DEF Waits
  <2>2. Len(shown) \in Nat /\ MaxEvents - Len(shown) <= k
    BY WaitsForTimer DEF Waits, Scheduled
  <2>3. MaxEvents - Len(shown') <= m
    BY <2>1, <2>2, FeedBounds
  <2>4. QED
    BY <2>1, <2>3 DEF Waits
<1>3. FeedInv /\ TimersFlow /\ FeedOpen /\ Waits(b, n, k) => ENABLED <<HandleEvent>>_vars
  <2>1. FeedInv /\ Waits(b, n, k) => timers # {}
    <3> SUFFICES ASSUME FeedInv, Waits(b, n, k) PROVE timers # {}
      OBVIOUS
    <3>1. QED
      BY WaitsForTimer DEF Waits, Scheduled
  <2>2. QED
    BY <2>1 DEF TimersFlow, FeedOpen
<1> HIDE DEF Goal
<1>4. Ticking => (Waits(b, n, k) ~> Goal)
  BY <1>1, <1>2, <1>3, PTL DEF Ticking, TimersFire
<1>5. QED
  BY <1>4 DEF FiresNearer, Goal

\* With k events to be animated at most, n is animated.
Fires(b, n, k) == Ticking => (Waits(b, n, k) ~> Shown(b, n))

LEMMA FiresStart ==
    ASSUME NEW b, NEW n
    PROVE  Fires(b, n, 0)
<1>1. FeedInv => ~ Waits(b, n, 0)
  <2> SUFFICES ASSUME FeedInv, Waits(b, n, 0) PROVE FALSE
    OBVIOUS
  <2>1. Len(shown) \in Nat /\ MaxEvents - Len(shown) >= 1 /\ MaxEvents - Len(shown) <= 0
    BY WaitsForTimer DEF Waits, Scheduled
  <2>2. QED
    BY <2>1, FeedBounds
<1>2. QED
  BY <1>1, PTL DEF Fires, Ticking

LEMMA FiresNext ==
    ASSUME NEW b, NEW n, NEW m \in Nat
    PROVE  Fires(b, n, m) => Fires(b, n, m + 1)
<1> DEFINE k == m + 1
<1>1. k \in Nat /\ k = m + 1
  OBVIOUS
<1> HIDE DEF k
<1>2. FiresNearer(b, n, k, m)
  BY <1>1, TimerComesNearer
<1>3. Fires(b, n, m) => Fires(b, n, k)
  BY <1>2, PTL DEF Fires, FiresNearer
<1>4. QED
  BY <1>1, <1>3

LEMMA FiresAlways ==
    ASSUME NEW b, NEW n
    PROVE  \A k \in Nat : Fires(b, n, k)
<1> DEFINE F == [k \in Nat |-> Fires(b, n, k)]
<1>1. Named(F)
  BY DEF Named
<1>2. QED
  BY FiresStart, FiresNext, <1>1, NumberInduction, SMT

LEMMA ScheduledShown ==
    ASSUME NEW b, NEW n
    PROVE  Ticking => (Scheduled(b, n) ~> Shown(b, n))
<1> DEFINE k == MaxEvents
           Animated == Shown(b, n)
<1>1. FeedInv /\ Scheduled(b, n) => Animated \/ Waits(b, n, k)
  <2> SUFFICES ASSUME FeedInv, Scheduled(b, n), ~ Animated PROVE Waits(b, n, k)
    OBVIOUS
  <2>1. Len(shown) \in Nat
    BY WaitsForTimer
  <2>2. MaxEvents - Len(shown) <= MaxEvents
    BY <2>1, FeedBounds
  <2>3. QED
    BY <2>2 DEF Waits
<1>2. Fires(b, n, k)
  BY FeedBounds, FiresAlways
<1> HIDE DEF k
<1>3. QED
  BY <1>1, <1>2, PTL DEF Fires, Ticking

------------------------------------------------------------------------------
\* The request of p, if it is the one the priming waits for, starts the polling.
WillPoll(p, b, n) == Asking(p, b, n) => <> (Polling(b, n) \/ Passed(b, n))

LEMMA Watched ==
    ASSUME NEW p \in Polls
    PROVE  FairSpec /\ []FeedOpen => Watching(p)
<1>1. Fairness => PollFair(p)
  BY DEF Fairness
<1>2. QED
  BY <1>1, FeedInvariant, PTL DEF FairSpec, Spec, Watching

LEMMA PrimingPasses ==
    ASSUME NEW b \in Boots, NEW n \in Seqs \ {0}
    PROVE  FairSpec /\ []FeedOpen
             => (Priming(b, n) ~> (Polling(b, n) \/ Passed(b, n)))
<1> DEFINE Goal == Polling(b, n) \/ Passed(b, n)
           Someone == \E p \in Polls : Asking(p, b, n)
           Each == \A p \in Polls : []WillPoll(p, b, n)
           All == \A p \in Polls : WillPoll(p, b, n)
<1>1. ASSUME NEW p \in Polls PROVE FairSpec /\ []FeedOpen => []WillPoll(p, b, n)
  <2>1. StartsPolling(p, b, n)
    BY PrimingEnds
  <2>2. FairSpec /\ []FeedOpen => Watching(p)
    BY Watched
  <2>3. QED
    BY <2>1, <2>2, PTL DEF StartsPolling, WillPoll
<1>2. FairSpec /\ []FeedOpen => Each
  BY <1>1
<1>3. Each => []All
  OBVIOUS
<1>4. All => (Someone => <>Goal)
  BY DEF WillPoll
<1>5. PrimingAsked /\ Priming(b, n) => Someone
  BY DEF PrimingAsked, Priming, Asking
<1> HIDE DEF Goal, Someone, Each, All
<1>6. FairSpec /\ []FeedOpen => (Priming(b, n) ~> Goal)
  BY <1>2, <1>3, <1>4, <1>5, PrimingInvariant, PTL DEF FairSpec
<1>7. QED
  BY <1>6 DEF Goal

LEMMA EventComes ==
    ASSUME NEW b \in Boots, NEW n \in Seqs \ {0}
    PROVE  FairSpec /\ []FeedOpen => EventShown(b, n)
<1> DEFINE Animated == Shown(b, n)
           Ended == boot > b
<1>1. PICK p \in Polls : TRUE
  BY FeedAssumption
<1>2. FairSpec /\ []FeedOpen => Watching(p)
  BY Watched
<1>3. Watching(p) => (Loading(b, n) ~> (Priming(b, n) \/ Passed(b, n)))
  BY LoadingEnds
<1>4. FairSpec /\ []FeedOpen => (Priming(b, n) ~> (Polling(b, n) \/ Passed(b, n)))
  BY PrimingPasses
<1>5. Watching(p) => (Polling(b, n) ~> Passed(b, n))
  BY PollingPasses DEF Polling
<1>6. FairSpec /\ []FeedOpen => (Pending(b, n) ~> Passed(b, n))
  <2>1. FeedInv /\ Pending(b, n) => Loading(b, n) \/ Priming(b, n) \/ Polling(b, n)
    BY DEF FeedInv, VarsTyped, Loading, Priming, Polling
  <2>2. QED
    BY <1>2, <1>3, <1>4, <1>5, <2>1, FeedInvariant, PTL DEF FairSpec
<1>7. Ticking => (Scheduled(b, n) ~> Animated)
  BY ScheduledShown
<1>8. FairSpec /\ []FeedOpen => Ticking
  BY FeedInvariant, SomeTimerFires, PTL DEF FairSpec, Spec, Fairness, Ticking
<1>9. Passed(b, n) => Ended \/ WasHistory(b, n) \/ Animated \/ Scheduled(b, n)
  BY DEF Passed, Happened, Scheduled
<1>10. EventShown(b, n) <=> (Pending(b, n) ~> (Ended \/ Animated \/ WasHistory(b, n)))
  BY DEF EventShown
<1> HIDE DEF Animated, Ended
<1>11. QED
  BY <1>6, <1>7, <1>8, <1>9, <1>10, FeedInvariant, PTL DEF FairSpec

\* If their guards are all that the server, the page and the timers wait for, then
\* each event of a living process that the page has not come to, with no answer of
\* a former process on its way, is itself animated, or was history when the
\* polling began: however polls overlap, whatever is lost, and however many
\* events are scheduled before the ones that wait.
THEOREM EveryEventShownCorrect == FairSpec /\ []FeedOpen => EveryEventShown
BY EventComes DEF EveryEventShown
============================================================================
