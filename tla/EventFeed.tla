----------------------------- MODULE EventFeed -----------------------------
(* The dashboard's event feed: the server's EventLog, the route /api/state,   *)
(* and the page's polling loop in static/dashboard.js.                        *)
(*                                                                            *)
(* An event is its process (boot) and sequence number. An answer lists the    *)
(* events since+1 .. upto and a latest_seq that is read later. The page polls *)
(* on a timer without waiting, so up to |Polls| requests are in flight and    *)
(* are answered in any order. The status label and all drawing are left out.  *)
EXTENDS Integers, Sequences, FiniteSets

CONSTANTS Polls,        \* requests of the page that may be in flight at once
          MaxEvents,    \* bound: events one server process pushes
          MaxBoots,     \* bound: server processes
          MaxFails      \* bound: requests that fail

ASSUME FeedAssumption == /\ IsFiniteSet(Polls) /\ Polls # {}
                         /\ MaxEvents \in Nat /\ MaxBoots \in Nat \ {0}
                         /\ MaxFails \in Nat

VARIABLES
    boot,      \* the server process that runs now
    seq,       \* events in its log; the next one is numbered seq + 1
    poll,      \* poll[p]: a request of the page, and what it is answered
    fails,     \* requests that failed so far
    page,      \* the page: "loading", "priming" or "polling"
    lastSeq,   \* lastSeq of dashboard.js
    start,     \* history: lastSeq when polling began
    listed,    \* history: the last event listed in the priming answer
    timers,    \* setTimeout(handleEvent) calls that have not fired
    batches,   \* batches of events the page has scheduled
    shown      \* events the page has animated, in order

server == <<boot, seq>>
browser == <<page, lastSeq, start, listed, timers, batches, shown>>
vars == <<server, poll, fails, browser>>

Seqs == 0..MaxEvents
Boots == 1..MaxBoots
Idle == [at |-> "idle", since |-> 0, boot |-> 1, upto |-> 0, latest |-> 0]

Init ==
    /\ boot = 1 /\ seq = 0 /\ fails = 0
    /\ poll = [p \in Polls |-> Idle]
    /\ page = "loading" /\ lastSeq = 0 /\ start = 0
    /\ listed = [boot |-> 1, upto |-> 0]
    /\ timers = {} /\ batches = 0 /\ shown = <<>>

----------------------------------------------------------------------------
(* The server.                                                                *)

\* EventLog.push, called by the completion handlers.
Push ==
    /\ seq < MaxEvents
    /\ seq' = seq + 1
    /\ UNCHANGED <<boot, poll, fails, browser>>

\* build_state takes its copy of the log ...
ReadEvents(p) ==
    /\ poll[p].at = "asked"
    /\ poll' = [poll EXCEPT ![p].at = "read", ![p].boot = boot, ![p].upto = seq]
    /\ UNCHANGED <<server, fails, browser>>

\* A mutant: latest_seq is read first, and the events after the balances.
ReadLatestFirst(p) ==
    /\ poll[p].at = "read"
    /\ poll' = [poll EXCEPT ![p].at = "answered", ![p].latest = poll[p].upto,
                            ![p].upto = seq]
    /\ UNCHANGED <<server, fails, browser>>

\* ... and reads latest_seq after the actors' balances were fetched.
ReadLatest(p) ==
    /\ poll[p].at = "read"
    /\ poll' = [poll EXCEPT ![p].at = "answered", ![p].latest = seq]
    /\ UNCHANGED <<server, fails, browser>>

\* A new process starts with an empty log; requests inside the old one fail.
Restart ==
    /\ boot < MaxBoots
    /\ boot' = boot + 1 /\ seq' = 0
    /\ poll' = [p \in Polls |-> IF poll[p].at \in {"asked", "read"}
                                THEN [poll[p] EXCEPT !.at = "failed"]
                                ELSE poll[p]]
    /\ UNCHANGED <<fails, browser>>

\* A request or its answer is lost, or the server answers an error.
Lose(p) ==
    /\ fails < MaxFails
    /\ poll[p].at \in {"asked", "answered"}
    /\ fails' = fails + 1
    /\ poll' = [poll EXCEPT ![p].at = "failed"]
    /\ UNCHANGED <<server, browser>>

----------------------------------------------------------------------------
(* The page.                                                                  *)

Asked(since) == [Idle EXCEPT !.at = "asked", !.since = since]

\* primeSeqAndStart: one request for everything, before the timer starts.
Prime(p) ==
    /\ page = "loading"
    /\ page' = "priming"
    /\ poll' = [poll EXCEPT ![p] = Asked(0)]
    /\ UNCHANGED <<server, fails, lastSeq, start, listed, timers, batches, shown>>

\* Its answer moves lastSeq past the history; its events are dropped.
Primed(p) ==
    /\ page = "priming" /\ poll[p].at = "answered"
    /\ page' = "polling"
    /\ lastSeq' = poll[p].latest /\ start' = poll[p].latest
    /\ listed' = [boot |-> poll[p].boot, upto |-> poll[p].upto]
    /\ poll' = [poll EXCEPT ![p] = Idle]
    /\ UNCHANGED <<server, fails, timers, batches, shown>>

\* A mutant: the failure is not caught, and the timer is never started.
PrimeFailsForGood(p) ==
    /\ page = "priming" /\ poll[p].at = "failed"
    /\ page' = "priming"
    /\ poll' = [poll EXCEPT ![p] = Idle]
    /\ UNCHANGED <<server, fails, lastSeq, start, listed, timers, batches, shown>>

\* Without an answer the page polls from the beginning of the log.
PrimeFails(p) ==
    /\ page = "priming" /\ poll[p].at = "failed"
    /\ page' = "polling"
    /\ poll' = [poll EXCEPT ![p] = Idle]
    /\ UNCHANGED <<server, fails, lastSeq, start, listed, timers, batches, shown>>

\* pollOnce, on the timer: asks for what came after lastSeq.
PollOnce(p) ==
    /\ page = "polling" /\ poll[p].at = "idle"
    /\ poll' = [poll EXCEPT ![p] = Asked(lastSeq)]
    /\ UNCHANGED <<server, fails, browser>>

\* A mutant: the events of the answer are not compared with lastSeq again.
FreshWhenAsked(p) == (poll[p].since + 1)..poll[p].upto

\* The events of an answer that are new now, not when they were asked for.
Fresh(p) == {s \in (poll[p].since + 1)..poll[p].upto : s > lastSeq}

\* A mutant: lastSeq is moved to the number the next event will have.
NextOf(p) == poll[p].upto + 1

\* lastSeq after a batch: the sequence number of its last event.
LastOf(p) == CHOOSE s \in Fresh(p) : \A t \in Fresh(p) : t <= s

\* The timers of a batch: its events, slot by slot.
Staggered(p) ==
    {[boot |-> poll[p].boot, seq |-> s, batch |-> batches + 1,
      slot |-> Cardinality({t \in Fresh(p) : t < s})] : s \in Fresh(p)}

\* onState: schedule the new events and move lastSeq past them at once.
OnState(p) ==
    /\ page = "polling" /\ poll[p].at = "answered"
    /\ timers' = timers \union Staggered(p)
    /\ IF Fresh(p) = {} THEN UNCHANGED <<lastSeq, batches>>
                        ELSE lastSeq' = LastOf(p) /\ batches' = batches + 1
    /\ poll' = [poll EXCEPT ![p] = Idle]
    /\ UNCHANGED <<server, fails, page, start, listed, shown>>

\* pollOnce catches the error; the timer polls again.
PollFails(p) ==
    /\ page = "polling" /\ poll[p].at = "failed"
    /\ poll' = [poll EXCEPT ![p] = Idle]
    /\ UNCHANGED <<server, fails, browser>>

\* A timer fires. One set no later, for a slot no later, fires before it;
\* between a late slot and an early slot of a later batch the order is open.
Due(t) == \A u \in timers \ {t} : ~ (u.batch <= t.batch /\ u.slot <= t.slot)

HandleEvent ==
    \E t \in timers :
        /\ Due(t)
        /\ timers' = timers \ {t}
        /\ shown' = Append(shown, [boot |-> t.boot, seq |-> t.seq])
        /\ UNCHANGED <<server, poll, fails, page, lastSeq, start, listed, batches>>

PageStep == \E p \in Polls : \/ Prime(p) \/ Primed(p) \/ PrimeFails(p)
                             \/ PollOnce(p) \/ OnState(p) \/ PollFails(p)
Next ==
    \/ Push \/ Restart \/ HandleEvent \/ PageStep
    \/ \E p \in Polls : ReadEvents(p) \/ ReadLatest(p) \/ Lose(p)

Spec == Init /\ [][Next]_vars

\* The server answers what it is asked; the browser's timers fire. A request
\* fails at most MaxFails times, so no fairness of the network is needed.
TimersFire == WF_vars(HandleEvent)
PollFair(p) ==
    /\ WF_vars(ReadEvents(p)) /\ WF_vars(ReadLatest(p))
    /\ WF_vars(Prime(p)) /\ WF_vars(Primed(p)) /\ WF_vars(PrimeFails(p))
    /\ WF_vars(PollOnce(p)) /\ WF_vars(OnState(p)) /\ WF_vars(PollFails(p))
Fairness == TimersFire /\ \A p \in Polls : PollFair(p)

FairSpec == Spec /\ Fairness

----------------------------------------------------------------------------
(* Properties.                                                                *)

Timer == [boot : Boots, seq : Seqs \ {0}, batch : Seqs \ {0}, slot : Seqs]
PollRecord == [at : {"idle", "asked", "read", "answered", "failed"},
               since : Seqs, boot : Boots, upto : Seqs, latest : Seqs]

\* Every variable has its type, and an unfinished page holds no timers.
TypeOK ==
    /\ boot \in Boots /\ seq \in Seqs /\ fails \in 0..MaxFails
    /\ poll \in [Polls -> PollRecord]
    /\ page \in {"loading", "priming", "polling"}
    /\ lastSeq \in Seqs /\ start \in Seqs /\ batches \in Seqs
    /\ listed \in [boot : Boots, upto : Seqs]
    /\ timers \subseteq Timer
    /\ shown \in Seq([boot : Boots, seq : Seqs \ {0}])
    /\ page # "polling" => timers = {} /\ shown = <<>>

AnimatedSeqs == {shown[i].seq : i \in 1..Len(shown)}
ScheduledSeqs == AnimatedSeqs \union {t.seq : t \in timers}

\* However the answers of overlapping polls overtake each other, and over
\* restarts of the server, the events from the end of the priming to lastSeq
\* are scheduled, each one once (onState filters on lastSeq of the moment).
ShownOnce ==
    /\ ScheduledSeqs = (start + 1)..lastSeq
    /\ Len(shown) + Cardinality(timers) = lastSeq - start

\* Event n of process b was animated; it is scheduled, or was animated.
Shown(b, n) == \E i \in 1..Len(shown) : shown[i] = [boot |-> b, seq |-> n]
Happened(b, n) == \/ \E t \in timers : t.boot = b /\ t.seq = n
                  \/ Shown(b, n)

\* A page opened after a demo does not replay what its first answer listed
\* (primeSeqAndStart takes latest_seq, which build_state reads last).
HistoryNotReplayed == \A n \in 1..listed.upto : ~ Happened(listed.boot, n)

\* No answer of another process than b is on its way to the page.
Current(b) == \A p \in Polls : poll[p].at \in {"read", "answered"} => poll[p].boot = b

\* Event n of process b is logged, and the page has not come to its number.
Pending(b, n) == boot = b /\ n <= seq /\ lastSeq < n /\ Current(b)
WasHistory(b, n) == page = "polling" /\ listed.boot = b /\ n <= start
EventShown(b, n) ==
    Pending(b, n) ~> (boot > b \/ Shown(b, n) \/ WasHistory(b, n))

\* While a server process lives, each of its events whose number the page has
\* not reached is itself animated, or skipped as history by the priming. An
\* answer of the former process must not be on its way: it would move lastSeq
\* past events of this one, which onState then drops (dashboard.js 505).
EveryEventShown == \A b \in Boots, n \in Seqs \ {0} : EventShown(b, n)
============================================================================
