---------------------------- MODULE BalanceCache ----------------------------
(* The dashboard's BalanceCache: /api/state handlers share one entry per      *)
(* wallet, refresh it outside the lock with two ledger requests, and write it *)
(* back whatever was written in between.                                      *)
(*                                                                            *)
(* A wallet's balances are named by the number of payments that have touched  *)
(* it. Time passes in ticks; ages stop at a cap, so that time need not end.   *)
EXTENDS Integers, FiniteSets

CONSTANTS Readers,      \* handler threads of /api/state
          Wallets,      \* addresses of the actors panel
          TTL,          \* BALANCE_TTL_SECONDS, in ticks
          Timeout,      \* the longest time that one get() takes, in ticks
          MaxPayments,  \* bound: payments that touch a wallet
          MaxFails,     \* bound: ledger requests that fail
          None

ASSUME BalanceAssumption ==
    /\ IsFiniteSet(Readers) /\ Readers # {}
    /\ TTL \in Nat \ {0} /\ Timeout \in Nat \ {0}
    /\ MaxPayments \in Nat /\ MaxFails \in Nat
    /\ None \notin 0..MaxPayments

VARIABLES
    ledger,    \* per wallet: payments applied to it
    since,     \* history, per wallet and version: ticks since it was replaced
    fails,     \* ledger requests that failed
    entry,     \* per wallet: the cached WalletBalance and its age
    reader     \* per handler: where it is in get(), and what it has

balanceVars == <<ledger, since, fails, entry, reader>>

Versions == 0..MaxPayments
OldCap == TTL + 2 * Timeout          \* ages from here on are all "too old"
Younger(t, cap) == IF t < cap THEN t + 1 ELSE cap

\* An absent entry is one that has expired.
NoEntry == [xrp |-> None, rlusd |-> None, age |-> TTL]
AtRest == [at |-> "idle", wallet |-> None, xrp |-> None, rlusd |-> None,
           age |-> 0, busy |-> 0]

BalanceInit ==
    /\ ledger = [w \in Wallets |-> 0]
    /\ since = [w \in Wallets |-> [v \in Versions |-> 0]]
    /\ fails = 0
    /\ entry = [w \in Wallets |-> NoEntry]
    /\ reader = [r \in Readers |-> AtRest]

\* A payment changes the wallet's balances on the ledger.
Settle(w) ==
    /\ ledger[w] < MaxPayments
    /\ ledger' = [ledger EXCEPT ![w] = @ + 1]
    /\ UNCHANGED <<since, fails, entry, reader>>

\* A mutant: a hit moves the time of the entry, as in a cache of recent use.
TouchedEntry(w) == entry' = [entry EXCEPT ![w].age = 0]

\* A hit leaves the entry as it is.
HitLeaves(w) == UNCHANGED entry

\* get, under the lock: an entry younger than the TTL is the answer.
GetCached(r, w) ==
    /\ reader[r].at = "idle" /\ entry[w].age < TTL
    /\ reader' = [reader EXCEPT ![r] =
         [AtRest EXCEPT !.at = "served", !.wallet = w,
                        !.xrp = entry[w].xrp, !.rlusd = entry[w].rlusd]]
    /\ HitLeaves(w)
    /\ UNCHANGED <<ledger, since, fails>>

\* Otherwise the lock is released and the ledger is asked.
GetExpired(r, w) ==
    /\ reader[r].at = "idle" /\ entry[w].age >= TTL
    /\ reader' = [reader EXCEPT ![r] = [AtRest EXCEPT !.at = "xrp", !.wallet = w]]
    /\ UNCHANGED <<ledger, since, fails, entry>>

\* A mutant: the open ledger is asked, with payments that are not validated.
AnswersOpenLedger(w) == {ledger[w], ledger[w] + 1}

\* What a request answers: the validated balance, or nothing if it fails.
Answers(w) == {ledger[w]} \union (IF fails < MaxFails THEN {None} ELSE {})
CountFail(b) == fails' = IF b = None THEN fails + 1 ELSE fails

\* _fetch, the XRP balance: AccountInfo.
FetchXrp(r) ==
    /\ reader[r].at = "xrp"
    /\ \E b \in Answers(reader[r].wallet) :
         /\ CountFail(b)
         /\ reader' = [reader EXCEPT ![r].at = "rlusd", ![r].xrp = b]
    /\ UNCHANGED <<ledger, since, entry>>

\* _fetch, the RLUSD balance: AccountLines. Then fetched_at is taken.
FetchRlusd(r) ==
    /\ reader[r].at = "rlusd"
    /\ \E b \in Answers(reader[r].wallet) :
         /\ CountFail(b)
         /\ reader' = [reader EXCEPT ![r].at = "store", ![r].rlusd = b,
                                     ![r].age = 0]
    /\ UNCHANGED <<ledger, since, entry>>

Fetched(r) == [xrp |-> reader[r].xrp, rlusd |-> reader[r].rlusd,
               age |-> reader[r].age]

\* A mutant: what could not be read is filled in from the old entry, as if it
\* were fresh.
StoredKeepingOld(r) ==
    LET old == entry[reader[r].wallet]
        new == Fetched(r)
    IN [new EXCEPT !.xrp = IF @ = None THEN old.xrp ELSE @,
                   !.rlusd = IF @ = None THEN old.rlusd ELSE @]

\* What is written back: the answer, failures included.
Stored(r) == Fetched(r)

\* get, under the lock again: the answer replaces whatever is there.
StoreBalance(r) ==
    /\ reader[r].at = "store"
    /\ entry' = [entry EXCEPT ![reader[r].wallet] = Stored(r)]
    /\ reader' = [reader EXCEPT ![r].at = "served", ![r].xrp = Stored(r).xrp,
                                ![r].rlusd = Stored(r).rlusd]
    /\ UNCHANGED <<ledger, since, fails>>

\* _attach_balances goes on to the next actor, or the next poll arrives.
Attach(r) ==
    /\ reader[r].at = "served"
    /\ reader' = [reader EXCEPT ![r] = AtRest]
    /\ UNCHANGED <<ledger, since, fails, entry>>

\* A tick. The HTTP timeouts of the ledger client end every get() in time.
InTime == \A r \in Readers : reader[r].at # "idle" => reader[r].busy < Timeout
Tick ==
    /\ InTime
    /\ since' = [w \in Wallets |-> [v \in Versions |->
                   IF v < ledger[w] THEN Younger(since[w][v], OldCap) ELSE 0]]
    /\ entry' = [w \in Wallets |-> [entry[w] EXCEPT !.age = Younger(@, TTL)]]
    /\ reader' = [r \in Readers |->
         IF reader[r].at = "idle" THEN reader[r]
         ELSE [reader[r] EXCEPT !.busy = @ + 1,
                                !.age = IF reader[r].at = "store"
                                        THEN Younger(@, TTL) ELSE @]]
    /\ UNCHANGED <<ledger, fails>>

Refresh(r) == FetchXrp(r) \/ FetchRlusd(r) \/ StoreBalance(r) \/ Attach(r)
GetBalance(r, w) == GetCached(r, w) \/ GetExpired(r, w)

BalanceNext ==
    \/ \E r \in Readers : Refresh(r) \/ \E w \in Wallets : GetBalance(r, w)
    \/ \E w \in Wallets : Settle(w)
    \/ Tick

BalanceSpec == BalanceInit /\ [][BalanceNext]_balanceVars

\* Threads go on, pages keep polling for every actor, and time passes.
TimePasses == SF_balanceVars(Tick)
ThreadGoesOn(r) == WF_balanceVars(Refresh(r))
SomeGet(w) == \E r \in Readers : GetBalance(r, w)
PagesPoll(w) == SF_balanceVars(SomeGet(w))
BalanceFairness ==
    /\ TimePasses
    /\ \A r \in Readers : ThreadGoesOn(r)
    /\ \A w \in Wallets : PagesPoll(w)

FairBalanceSpec == BalanceSpec /\ BalanceFairness

----------------------------------------------------------------------------
(* Properties.                                                                *)

Balances == Versions \union {None}

\* Every variable has its type.
BalanceTypeOK ==
    /\ ledger \in [Wallets -> Versions]
    /\ since \in [Wallets -> [Versions -> 0..OldCap]]
    /\ fails \in 0..MaxFails
    /\ entry \in [Wallets -> [xrp : Balances, rlusd : Balances, age : 0..TTL]]
    /\ reader \in [Readers -> [at : {"idle", "xrp", "rlusd", "store", "served"},
                               wallet : Wallets \union {None},
                               xrp : Balances, rlusd : Balances,
                               age : 0..TTL, busy : 0..Timeout]]

\* However the refreshes of several handlers overtake each other, a balance
\* that get() returns was true on the ledger less than a TTL and a time-out
\* before that get() began.
ServedIsRecent ==
    \A r \in Readers : reader[r].at = "served" =>
        \A b \in {reader[r].xrp, reader[r].rlusd} \ {None} :
            since[reader[r].wallet][b] < TTL + Timeout + reader[r].busy

Shows(w, v) == entry[w].xrp = v /\ entry[w].rlusd = v
WalletSettles(w, v) == <>[](ledger[w] = v) => <>[]Shows(w, v)

\* When payments have stopped, the panel comes to show the final balances of
\* each wallet and keeps them, although an older answer can for a while
\* replace a newer one, and failed requests are cached as "no balance".
PanelSettles == \A w \in Wallets, v \in Versions : WalletSettles(w, v)
============================================================================
