----------------------------- MODULE WalletProofs -----------------------------
(* Proofs about the demo's wallets. First, about BalanceCache, for any      *)
(* number of readers, wallets and payments and any TTL and time-out: what   *)
(* get() returns is never older than the two, and the panel settles. Then,  *)
(* about DemoSetup, for any roles, look-ups, NFTs and page size: which      *)
(* wallets the scripts keep, and what a look-up says of the NFT that they   *)
(* minted.                                                                  *)
EXTENDS BalanceCache, DemoSetup, FiniteSetTheorems, WellFoundedInduction, TLAPS

\* A set of numbers has a least one.
LEMMA LeastNumber ==
    ASSUME NEW S \in SUBSET Nat, S # {}
    PROVE  \E m \in S : \A n \in S : m <= n
<1> DEFINE Less == {p \in Nat \X Nat : p[1] < p[2]}
<1>1. IsWellFoundedOn(Less, Nat)
  BY NatLessThanWellFounded DEF OpToRel
<1>2. PICK m \in S : \A n \in S : ~ (<<n, m>> \in Less)
  BY <1>1, WFMin
<1>3. ASSUME NEW n \in S, n < m PROVE <<n, m>> \in Less
  <2>1. n \in Nat /\ m \in Nat
    OBVIOUS
  <2>2. QED
    BY <1>3, <2>1
<1>4. QED
  <2>1. \A n \in S : ~ (n < m)
    BY <1>2, <1>3
  <2>2. \A n \in S : n \in Nat /\ m \in Nat
    OBVIOUS
  <2>3. QED
    BY <2>1, <2>2

\* A set of numbers with 0 and with every successor has them all.
LEMMA AllNumbers ==
    ASSUME NEW S \in SUBSET Nat, 0 \in S, \A n \in S : n + 1 \in S
    PROVE  S = Nat
<1> SUFFICES ASSUME S # Nat PROVE FALSE
  OBVIOUS
<1> DEFINE Missing == Nat \ S
<1>1. PICK n \in Missing : \A m \in Missing : n <= m
  <2>1. Missing \in SUBSET Nat /\ Missing # {}
    OBVIOUS
  <2> HIDE DEF Missing
  <2>2. QED
    BY <2>1, LeastNumber
<1>2. n # 0 /\ n - 1 \in Nat /\ ~ (n <= n - 1)
  BY <1>1
<1>3. n - 1 \in S
  BY <1>1, <1>2
<1>4. (n - 1) + 1 = n
  BY <1>1
<1>5. QED
  BY <1>1, <1>3, <1>4

\* A function that a lemma is told of. A temporal formula that speaks of n makes
\* one, of n: whether the formula holds of the behaviour at hand. Such a function
\* can be named but not applied, so that the lemma does it.
Named(g) == TRUE

LEMMA NumberInduction ==
    \A g : Named(g) /\ g[0] /\ (\A n \in Nat : g[n] => g[n + 1]) => \A n \in Nat : g[n]
<1> SUFFICES ASSUME NEW g, g[0], \A n \in Nat : g[n] => g[n + 1]
             PROVE  \A n \in Nat : g[n]
  OBVIOUS
<1> DEFINE S == {n \in Nat : g[n]}
<1>1. S \in SUBSET Nat /\ 0 \in S /\ \A n \in S : n + 1 \in S
  OBVIOUS
<1> HIDE DEF S
<1>2. S = Nat
  BY <1>1, AllNumbers
<1>3. QED
  BY <1>2 DEF S

EntryDocs == [xrp : Balances, rlusd : Balances, age : 0..TTL]
ReaderDocs == [at : {"idle", "xrp", "rlusd", "store", "served"},
               wallet : Wallets \union {None}, xrp : Balances, rlusd : Balances,
               age : 0..TTL, busy : 0..Timeout]

\* Both balances of k are None or have not been wrong for longer than bound; s
\* is since of k's wallet.
Within(k, s, bound) ==
    /\ k.xrp \in Versions => s[k.xrp] <= bound
    /\ k.rlusd \in Versions => s[k.rlusd] <= bound

\* An entry that get() may return was true when its fetch began or later.
EntrySound(e, s) == e.age < TTL => Within(e, s, Timeout + e.age)

\* What a frame fetched was true after the frame began; what it returns may
\* come from an entry.
ReaderSound(k, s) ==
    k.at # "idle" =>
        /\ k.wallet \in Wallets
        /\ Within(k, s[k.wallet], IF k.at = "served" THEN TTL + Timeout - 1 + k.busy
                                  ELSE k.busy)

BalanceInv ==
    /\ ledger \in [Wallets -> Versions]
    /\ since \in [Wallets -> [Versions -> 0..OldCap]]
    /\ fails \in 0..MaxFails
    /\ entry \in [Wallets -> EntryDocs]
    /\ reader \in [Readers -> ReaderDocs]
    /\ \A w \in Wallets : \A v \in Versions : v >= ledger[w] => since[w][v] = 0
    /\ \A w \in Wallets : EntrySound(entry[w], since[w])
    /\ \A r \in Readers : ReaderSound(reader[r], since)

LEMMA Sizes ==
    /\ TTL \in Nat /\ TTL >= 1 /\ Timeout \in Nat /\ Timeout >= 1 /\ OldCap \in Nat
    /\ MaxPayments \in Nat /\ MaxFails \in Nat
    /\ 0 \in Versions /\ None \notin Versions /\ Versions \subseteq Nat
    /\ None \in Balances /\ 0 \in 0..TTL /\ TTL \in 0..TTL /\ 0 \in 0..Timeout
BY BalanceAssumption DEF OldCap, Versions, Balances

LEMMA BalanceInvType == BalanceInv => BalanceTypeOK
BY Zenon DEF BalanceInv, BalanceTypeOK, EntryDocs, ReaderDocs

LEMMA BalanceInvRecent == BalanceInv => ServedIsRecent
<1> SUFFICES ASSUME BalanceInv, NEW r \in Readers, reader[r].at = "served",
                    NEW b \in {reader[r].xrp, reader[r].rlusd} \ {None}
             PROVE  since[reader[r].wallet][b] < TTL + Timeout + reader[r].busy
  BY DEF ServedIsRecent
<1> DEFINE k == reader[r]
           t == since[k.wallet][b]
<1>1. k \in ReaderDocs /\ ReaderSound(k, since)
  BY DEF BalanceInv
<1>2. k.wallet \in Wallets /\ b \in Versions /\ t <= TTL + Timeout - 1 + k.busy
  BY <1>1 DEF ReaderSound, Within, ReaderDocs, Balances
<1>3. t \in Nat /\ k.busy \in Nat
  BY <1>1, <1>2, Sizes DEF BalanceInv, ReaderDocs
<1>4. QED
  BY <1>2, <1>3, Sizes

LEMMA RestSound == AtRest \in ReaderDocs /\ \A s : ReaderSound(AtRest, s)
BY Sizes DEF AtRest, ReaderDocs, ReaderSound

LEMMA InitBalance == BalanceInit => BalanceInv
<1> SUFFICES ASSUME BalanceInit PROVE BalanceInv
  OBVIOUS
<1>1. NoEntry \in EntryDocs /\ \A s : EntrySound(NoEntry, s)
  BY Sizes DEF NoEntry, EntryDocs, EntrySound
<1>2. 0 \in 0..OldCap /\ 0 \in 0..MaxFails
  BY Sizes
<1>3. ledger \in [Wallets -> Versions] /\ fails \in 0..MaxFails
  BY <1>2, Sizes DEF BalanceInit
<1>4. /\ since \in [Wallets -> [Versions -> 0..OldCap]]
      /\ \A w \in Wallets : \A v \in Versions : v >= ledger[w] => since[w][v] = 0
  BY <1>2 DEF BalanceInit
<1>5. entry \in [Wallets -> EntryDocs] /\ \A w \in Wallets : EntrySound(entry[w], since[w])
  BY <1>1 DEF BalanceInit
<1>6. reader \in [Readers -> ReaderDocs] /\ \A r \in Readers : ReaderSound(reader[r], since)
  BY RestSound DEF BalanceInit
<1>7. QED
  BY <1>3, <1>4, <1>5, <1>6 DEF BalanceInv

\* A step that changes one frame and counts a failure, if any.
LEMMA OneReader ==
    ASSUME BalanceInv, NEW r \in Readers, NEW STATE k, k \in ReaderDocs,
           ReaderSound(k, since), reader' = [reader EXCEPT ![r] = k],
           UNCHANGED <<ledger, since, entry>>, fails' \in 0..MaxFails
    PROVE  BalanceInv'
<1>1. reader' \in [Readers -> ReaderDocs]
  BY DEF BalanceInv
<1>2. \A q \in Readers : ReaderSound(reader'[q], since)
  <2>1. \A q \in Readers : reader'[q] = IF q = r THEN k ELSE reader[q]
    BY DEF BalanceInv
  <2>2. QED
    BY <2>1 DEF BalanceInv
<1>3. QED
  BY <1>1, <1>2 DEF BalanceInv

LEMMA AnswerTyped ==
    ASSUME BalanceInv, NEW w \in Wallets, NEW b \in Answers(w), CountFail(b)
    PROVE  /\ b \in Balances /\ fails' \in 0..MaxFails
           /\ b \in Versions => since[w][b] = 0
<1>1. b = ledger[w] \/ (b = None /\ fails < MaxFails)
  BY DEF Answers
<1>2. ledger[w] \in Versions /\ since[w][ledger[w]] = 0 /\ fails \in 0..MaxFails
  <2>1. ledger[w] \in Versions
    BY DEF BalanceInv
  <2>2. ledger[w] >= ledger[w]
    <3>1. ledger[w] \in Nat
      BY <2>1, Sizes, Zenon
    <3>2. QED
      BY <3>1
  <2>3. QED
    BY <2>1, <2>2 DEF BalanceInv
<1>3. CASE b = ledger[w]
  BY <1>2, <1>3, Sizes DEF CountFail, Balances
<1>4. CASE b = None /\ fails < MaxFails
  BY <1>2, <1>4, Sizes DEF CountFail, Balances
<1>5. QED
  BY <1>1, <1>3, <1>4

LEMMA YoungerBound ==
    ASSUME NEW cap \in Nat, NEW t \in 0..cap
    PROVE  Younger(t, cap) \in 0..cap /\ Younger(t, cap) <= t + 1
           /\ (Younger(t, cap) < cap => Younger(t, cap) = t + 1)
BY DEF Younger

\* Steps of the frames.
LEMMA FrameStep ==
    ASSUME BalanceInv, NEW r \in Readers,
           Refresh(r) \/ \E w \in Wallets : GetBalance(r, w)
    PROVE  BalanceInv'
<1> DEFINE k == reader[r]
<1>0. k \in ReaderDocs /\ ReaderSound(k, since) /\ fails \in 0..MaxFails
  BY DEF BalanceInv
<1>1. ASSUME NEW w \in Wallets, GetCached(r, w) PROVE BalanceInv'
  <2> DEFINE e == entry[w]
             d == [AtRest EXCEPT !.at = "served", !.wallet = w, !.xrp = e.xrp,
                                 !.rlusd = e.rlusd]
  <2>1. e \in EntryDocs /\ EntrySound(e, since[w]) /\ e.age < TTL
    BY <1>1 DEF BalanceInv, GetCached
  <2>2. d \in ReaderDocs
    BY <2>1, RestSound DEF ReaderDocs, EntryDocs
  <2>3. /\ d.at = "served" /\ d.wallet = w /\ d.xrp = e.xrp /\ d.rlusd = e.rlusd
        /\ d.busy = 0
    BY DEF AtRest
  <2>4. ASSUME NEW v \in Versions, since[w][v] <= Timeout + e.age
        PROVE  since[w][v] <= TTL + Timeout - 1 + 0
    <3>1. since[w][v] \in Nat /\ e.age \in Nat
      BY <2>1, Sizes DEF BalanceInv, EntryDocs
    <3>2. QED
      BY <2>1, <2>4, <3>1, Sizes
  <2>5. ReaderSound(d, since)
    <3> HIDE DEF d, e
    <3>1. QED
      BY <2>1, <2>3, <2>4 DEF ReaderSound, EntrySound, Within
  <2>6. QED
    BY <1>0, <1>1, <2>2, <2>5, OneReader DEF GetCached, HitLeaves
<1>2. ASSUME NEW w \in Wallets, GetExpired(r, w) PROVE BalanceInv'
  <2> DEFINE d == [AtRest EXCEPT !.at = "xrp", !.wallet = w]
  <2>1. d \in ReaderDocs
    BY RestSound DEF ReaderDocs
  <2>2. ReaderSound(d, since)
    BY Sizes DEF ReaderSound, Within, AtRest
  <2>3. QED
    BY <1>0, <1>2, <2>1, <2>2, OneReader DEF GetExpired
<1>3. CASE FetchXrp(r)
  <2>0. k.at = "xrp" /\ k.wallet \in Wallets
    BY <1>0, <1>3 DEF FetchXrp, ReaderSound
  <2>1. PICK b \in Answers(k.wallet) :
          /\ CountFail(b)
          /\ reader' = [reader EXCEPT ![r].at = "rlusd", ![r].xrp = b]
    BY <1>3 DEF FetchXrp
  <2> DEFINE d == [k EXCEPT !.at = "rlusd", !.xrp = b]
  <2>2. b \in Balances /\ fails' \in 0..MaxFails /\ (b \in Versions => since[k.wallet][b] = 0)
    BY <2>0, <2>1, AnswerTyped
  <2>3. d \in ReaderDocs /\ reader' = [reader EXCEPT ![r] = d]
    BY <1>0, <2>1, <2>2 DEF ReaderDocs
  <2>4. ReaderSound(d, since)
    <3>1. k.busy \in Nat
      BY <1>0, Sizes DEF ReaderDocs
    <3>2. /\ d.at = "rlusd" /\ d.wallet = k.wallet /\ d.xrp = b /\ d.rlusd = k.rlusd
          /\ d.busy = k.busy
      BY <1>0 DEF ReaderDocs
    <3> HIDE DEF d
    <3>3. QED
      BY <1>0, <2>0, <2>2, <3>1, <3>2 DEF ReaderSound, Within
  <2>5. QED
    BY <1>3, <2>2, <2>3, <2>4, OneReader DEF FetchXrp
<1>4. CASE FetchRlusd(r)
  <2>0. k.at = "rlusd" /\ k.wallet \in Wallets
    BY <1>0, <1>4 DEF FetchRlusd, ReaderSound
  <2>1. PICK b \in Answers(k.wallet) :
          /\ CountFail(b)
          /\ reader' = [reader EXCEPT ![r].at = "store", ![r].rlusd = b, ![r].age = 0]
    BY <1>4 DEF FetchRlusd
  <2> DEFINE d == [k EXCEPT !.at = "store", !.rlusd = b, !.age = 0]
  <2>2. b \in Balances /\ fails' \in 0..MaxFails /\ (b \in Versions => since[k.wallet][b] = 0)
    BY <2>0, <2>1, AnswerTyped
  <2>3. d \in ReaderDocs /\ reader' = [reader EXCEPT ![r] = d]
    BY <1>0, <2>1, <2>2, Sizes DEF ReaderDocs
  <2>4. ReaderSound(d, since)
    <3>1. k.busy \in Nat
      BY <1>0, Sizes DEF ReaderDocs
    <3>2. /\ d.at = "store" /\ d.wallet = k.wallet /\ d.xrp = k.xrp /\ d.rlusd = b
          /\ d.busy = k.busy
      BY <1>0 DEF ReaderDocs
    <3> HIDE DEF d
    <3>3. QED
      BY <1>0, <2>0, <2>2, <3>1, <3>2 DEF ReaderSound, Within
  <2>5. QED
    BY <1>4, <2>2, <2>3, <2>4, OneReader DEF FetchRlusd
<1>5. CASE StoreBalance(r)
  <2> DEFINE w == k.wallet
             e == Fetched(r)
             d == [k EXCEPT !.at = "served", !.xrp = e.xrp, !.rlusd = e.rlusd]
  <2>0. k.at = "store" /\ w \in Wallets
    BY <1>0, <1>5 DEF StoreBalance, ReaderSound
  <2>1. /\ e \in EntryDocs /\ e.xrp = k.xrp /\ e.rlusd = k.rlusd /\ e.age = k.age
        /\ entry' = [entry EXCEPT ![w] = e] /\ reader' = [reader EXCEPT ![r] = d]
    BY <1>0, <1>5 DEF StoreBalance, Stored, Fetched, ReaderDocs, EntryDocs
  <2>2. /\ d \in ReaderDocs /\ d.at = "served" /\ d.wallet = w /\ d.busy = k.busy
        /\ d.xrp = k.xrp /\ d.rlusd = k.rlusd
    BY <1>0 DEF ReaderDocs, Fetched
  <2>3. /\ k.busy \in 0..Timeout /\ k.age \in Nat
    BY <1>0, Sizes DEF ReaderDocs
  <2>4. ASSUME NEW v \in Versions, since[w][v] <= k.busy
        PROVE  since[w][v] <= Timeout + k.age /\ since[w][v] <= TTL + Timeout - 1 + k.busy
    <3>1. since[w][v] \in Nat
      BY <2>0, Sizes DEF BalanceInv
    <3>2. QED
      BY <2>3, <2>4, <3>1, Sizes
  <2>5. EntrySound(e, since[w]) /\ ReaderSound(d, since)
    <3> HIDE DEF d, e
    <3>1. QED
      BY <1>0, <2>0, <2>1, <2>2, <2>4 DEF EntrySound, ReaderSound, Within
  <2>6. /\ entry' \in [Wallets -> EntryDocs]
        /\ \A x \in Wallets : EntrySound(entry'[x], since[x])
    <3>1. \A x \in Wallets : entry'[x] = IF x = w THEN e ELSE entry[x]
      BY <2>1 DEF BalanceInv
    <3>2. QED
      BY <2>1, <2>5, <3>1 DEF BalanceInv
  <2>7. /\ reader' \in [Readers -> ReaderDocs]
        /\ \A q \in Readers : ReaderSound(reader'[q], since)
    <3>1. \A q \in Readers : reader'[q] = IF q = r THEN d ELSE reader[q]
      BY <2>1 DEF BalanceInv
    <3>2. QED
      BY <2>1, <2>2, <2>5, <3>1 DEF BalanceInv
  <2>8. ledger' = ledger /\ since' = since /\ fails' = fails
    BY <1>5 DEF StoreBalance
  <2>9. QED
    BY <2>6, <2>7, <2>8 DEF BalanceInv
<1>6. CASE Attach(r)
  BY <1>0, <1>6, RestSound, OneReader DEF Attach
<1>7. QED
  BY <1>1, <1>2, <1>3, <1>4, <1>5, <1>6 DEF Refresh, GetBalance

\* A payment makes no balance older by itself: time does.
LEMMA SettleStep ==
    ASSUME BalanceInv, NEW w \in Wallets, Settle(w) PROVE BalanceInv'
<1>1. ledger[w] + 1 \in Versions
  BY Sizes DEF BalanceInv, Settle, Versions
<1>2. ledger' \in [Wallets -> Versions]
  BY <1>1 DEF BalanceInv, Settle
<1>3. ASSUME NEW x \in Wallets, NEW v \in Versions, v >= ledger'[x]
      PROVE  since[x][v] = 0
  <2>1. ledger[x] \in Nat /\ v \in Nat
    BY Sizes DEF BalanceInv
  <2>2. ledger'[x] = IF x = w THEN ledger[w] + 1 ELSE ledger[x]
    BY DEF BalanceInv, Settle
  <2>3. v >= ledger[x]
    BY <1>3, <2>1, <2>2
  <2>4. QED
    BY <2>3 DEF BalanceInv
<1>4. UNCHANGED <<since, fails, entry, reader>>
  BY DEF Settle
<1>5. QED
  BY <1>2, <1>3, <1>4 DEF BalanceInv

\* A tick adds at most one to the age of what is no longer true, and one to the
\* age of each entry that may still be returned and of each frame.
LEMMA TickStep ==
    ASSUME BalanceInv, Tick PROVE BalanceInv'
<1>1. ASSUME NEW w \in Wallets, NEW v \in Versions
      PROVE  /\ since'[w][v] \in 0..OldCap /\ since[w][v] \in Nat
             /\ since'[w][v] <= since[w][v] + 1
             /\ v >= ledger[w] => since'[w][v] = 0
  <2>1. since[w][v] \in 0..OldCap /\ OldCap \in Nat /\ v \in Nat /\ ledger[w] \in Nat
    BY Sizes DEF BalanceInv
  <2>2. since'[w][v] = IF v < ledger[w] THEN Younger(since[w][v], OldCap) ELSE 0
    BY DEF Tick
  <2>3. CASE v < ledger[w]
    <3>1. /\ Younger(since[w][v], OldCap) \in 0..OldCap
          /\ Younger(since[w][v], OldCap) <= since[w][v] + 1
      BY <2>1, YoungerBound
    <3>2. QED
      BY <2>1, <2>2, <2>3, <3>1
  <2>4. CASE v >= ledger[w]
    BY <2>1, <2>2, <2>4
  <2>5. QED
    BY <2>1, <2>3, <2>4
<1>2. since' \in [Wallets -> [Versions -> 0..OldCap]]
  <2>1. \A w \in Wallets : since'[w] \in [Versions -> 0..OldCap]
    BY <1>1 DEF Tick
  <2>2. QED
    BY <2>1 DEF Tick
<1>3. ASSUME NEW w \in Wallets, NEW k, NEW n \in Nat, Within(k, since[w], n)
      PROVE  Within(k, since'[w], n + 1)
  <2>1. ASSUME NEW v \in Versions, since[w][v] <= n PROVE since'[w][v] <= n + 1
    BY <1>1, <2>1, Sizes
  <2>2. QED
    BY <1>3, <2>1 DEF Within
<1>4. ASSUME NEW w \in Wallets
      PROVE  entry'[w] \in EntryDocs /\ EntrySound(entry'[w], since'[w])
  <2> DEFINE e == entry[w]
             a == Younger(e.age, TTL)
             d == [e EXCEPT !.age = a]
  <2>1. e \in EntryDocs /\ EntrySound(e, since[w]) /\ entry'[w] = d
    BY DEF BalanceInv, Tick
  <2>2. e.age \in 0..TTL /\ a \in 0..TTL /\ (a < TTL => a = e.age + 1)
    BY <2>1, YoungerBound, Sizes DEF EntryDocs
  <2>3. d \in EntryDocs /\ d.age = a /\ d.xrp = e.xrp /\ d.rlusd = e.rlusd
    <3> HIDE DEF a
    <3>1. QED
      BY <2>1, <2>2 DEF EntryDocs
  <2>4. ASSUME a < TTL PROVE Within(e, since'[w], Timeout + a)
    <3>1. e.age < TTL /\ Timeout + e.age \in Nat /\ Timeout + a = (Timeout + e.age) + 1
      BY <2>2, <2>4, Sizes
    <3>2. QED
      BY <1>3, <2>1, <3>1 DEF EntrySound
  <2>5. EntrySound(d, since'[w])
    <3> HIDE DEF d, e, a
    <3>1. QED
      BY <2>3, <2>4 DEF EntrySound, Within
  <2>6. QED
    BY <2>1, <2>3, <2>5
<1>5. ASSUME NEW r \in Readers
      PROVE  reader'[r] \in ReaderDocs /\ ReaderSound(reader'[r], since')
  <2> DEFINE k == reader[r]
             a == IF k.at = "store" THEN Younger(k.age, TTL) ELSE k.age
             d == [k EXCEPT !.busy = k.busy + 1, !.age = a]
  <2>1. k \in ReaderDocs /\ ReaderSound(k, since)
    BY DEF BalanceInv
  <2>2. CASE k.at = "idle"
    <3>1. reader'[r] = k
      BY <2>2 DEF Tick
    <3>2. QED
      BY <2>1, <2>2, <3>1 DEF ReaderSound
  <2>3. CASE k.at # "idle"
    <3>1. reader'[r] = d /\ k.busy < Timeout
      BY <2>3 DEF Tick, InTime
    <3>2. k.busy \in Nat /\ k.busy + 1 \in 0..Timeout /\ a \in 0..TTL
      BY <2>1, <3>1, YoungerBound, Sizes DEF ReaderDocs
    <3>3. /\ d \in ReaderDocs /\ d.at = k.at /\ d.wallet = k.wallet /\ d.xrp = k.xrp
          /\ d.rlusd = k.rlusd /\ d.busy = k.busy + 1
      <4> HIDE DEF a
      <4>1. QED
        BY <2>1, <3>2 DEF ReaderDocs
    <3>4. k.wallet \in Wallets
      BY <2>1, <2>3 DEF ReaderSound
    <3>5. CASE k.at = "served"
      <4>1. TTL + Timeout - 1 + k.busy \in Nat
            /\ TTL + Timeout - 1 + (k.busy + 1) = (TTL + Timeout - 1 + k.busy) + 1
        BY <3>2, Sizes
      <4>2. Within(k, since'[k.wallet], TTL + Timeout - 1 + (k.busy + 1))
        BY <1>3, <2>1, <3>4, <3>5, <4>1 DEF ReaderSound
      <4> HIDE DEF d, k
      <4>3. QED
        BY <3>1, <3>3, <3>4, <3>5, <4>2 DEF ReaderSound, Within
    <3>6. CASE k.at # "served"
      <4>1. Within(k, since'[k.wallet], k.busy + 1)
        BY <1>3, <2>1, <2>3, <3>2, <3>4, <3>6 DEF ReaderSound
      <4> HIDE DEF d, k
      <4>2. QED
        BY <3>1, <3>3, <3>4, <3>6, <4>1 DEF ReaderSound, Within
    <3>7. QED
      BY <3>5, <3>6
  <2>4. QED
    BY <2>2, <2>3
<1>6. entry' \in [Wallets -> EntryDocs]
  BY <1>4 DEF Tick
<1>7. reader' \in [Readers -> ReaderDocs]
  BY <1>5 DEF Tick
<1>8. ledger' = ledger /\ fails' = fails
  BY DEF Tick
<1>9. QED
  BY <1>1, <1>2, <1>4, <1>5, <1>6, <1>7, <1>8 DEF BalanceInv

LEMMA StepBalance == BalanceInv /\ [BalanceNext]_balanceVars => BalanceInv'
<1>1. CASE BalanceNext
  BY <1>1, FrameStep, SettleStep, TickStep DEF BalanceNext
<1>2. CASE UNCHANGED balanceVars
  BY <1>2 DEF balanceVars, BalanceInv
<1>3. QED
  BY <1>1, <1>2

LEMMA BalanceInvariant == BalanceSpec => []BalanceInv
BY InitBalance, StepBalance, PTL DEF BalanceSpec

\* Every variable of BalanceCache has its type.
THEOREM BalanceTypeCorrect == BalanceSpec => []BalanceTypeOK
BY BalanceInvType, BalanceInvariant, PTL

\* However the refreshes of the dashboard's handlers overtake each other, what
\* get() returns was true less than a TTL and a time-out before it began.
THEOREM ServedIsRecentCorrect == BalanceSpec => []ServedIsRecent
BY BalanceInvRecent, BalanceInvariant, PTL

------------------------------------------------------------------------------
(* Liveness of the panel. What ENABLED means for the fair actions is a        *)
(* hypothesis, with their guards spelled out; a tick that leaves every age at *)
(* its cap is no step, so that of Tick asks for an entry that ages.           *)
BalanceOpen ==
    /\ InTime /\ (\E w \in Wallets : entry[w].age < TTL)
         => ENABLED <<Tick>>_balanceVars
    /\ \A r \in Readers : reader[r].at # "idle" => ENABLED <<Refresh(r)>>_balanceVars
    /\ \A w \in Wallets :
         (\E r \in Readers : reader[r].at = "idle") => ENABLED <<SomeGet(w)>>_balanceVars

\* What every argument of this section assumes, and what reader r runs under.
Live == []BalanceInv /\ []BalanceOpen /\ [][BalanceNext]_balanceVars
LiveReader(r) == Live /\ ThreadGoesOn(r)
Idle(r) == reader[r].at = "idle"

\* The place after x.
After(x) == CASE x = "xrp" -> "rlusd" [] x = "rlusd" -> "store"
              [] x = "store" -> "served" [] OTHER -> "idle"

\* A thread that refreshes takes its next place; nobody else moves it.
LEMMA RefreshMoves ==
    ASSUME BalanceInv, NEW r \in Readers, Refresh(r)
    PROVE  /\ ~ Idle(r) /\ reader'[r].at = After(reader[r].at)
           /\ reader'[r].busy = reader[r].busy \/ Idle(r)'
           /\ \A q \in Readers \ {r} : reader'[q] = reader[q]
<1>0. reader \in [Readers -> ReaderDocs]
  BY DEF BalanceInv
<1>1. CASE FetchXrp(r)
  <2>1. PICK b : reader' = [reader EXCEPT ![r].at = "rlusd", ![r].xrp = b]
    BY <1>1 DEF FetchXrp
  <2>2. QED
    BY <1>0, <1>1, <2>1 DEF FetchXrp, ReaderDocs, After, Idle
<1>2. CASE FetchRlusd(r)
  <2>1. PICK b : reader' = [reader EXCEPT ![r].at = "store", ![r].rlusd = b, ![r].age = 0]
    BY <1>2 DEF FetchRlusd
  <2>2. QED
    BY <1>0, <1>2, <2>1 DEF FetchRlusd, ReaderDocs, After, Idle
<1>3. CASE StoreBalance(r)
  BY <1>0, <1>3 DEF StoreBalance, ReaderDocs, After, Idle
<1>4. CASE Attach(r)
  BY <1>0, <1>4 DEF Attach, AtRest, After, Idle
<1>5. QED
  BY <1>1, <1>2, <1>3, <1>4 DEF Refresh

LEMMA GetMoves ==
    ASSUME BalanceInv, NEW r \in Readers, NEW w \in Wallets, GetBalance(r, w)
    PROVE  /\ Idle(r) /\ reader'[r].busy = 0
           /\ reader'[r].wallet = w
           /\ reader'[r].at = IF entry[w].age < TTL THEN "served" ELSE "xrp"
           /\ \A q \in Readers \ {r} : reader'[q] = reader[q]
           /\ UNCHANGED <<ledger, fails, entry>>
<1>0. reader \in [Readers -> ReaderDocs] /\ entry[w].age \in Nat
  BY Sizes DEF BalanceInv, EntryDocs
<1>1. CASE GetCached(r, w)
  BY <1>0, <1>1 DEF GetCached, HitLeaves, AtRest, Idle
<1>2. CASE GetExpired(r, w)
  BY <1>0, <1>2, Sizes DEF GetExpired, AtRest, Idle
<1>3. QED
  BY <1>1, <1>2 DEF GetBalance

\* What a step does to reader r, unless r refreshes.
LEMMA ReaderMoves ==
    ASSUME BalanceInv, [BalanceNext]_balanceVars, NEW r \in Readers, ~ Refresh(r)
    PROVE  \/ \E w \in Wallets : GetBalance(r, w)
           \/ ~ Tick /\ reader'[r] = reader[r]
           \/ /\ Tick
              /\ reader'[r].at = reader[r].at /\ reader'[r].wallet = reader[r].wallet
              /\ reader'[r].xrp = reader[r].xrp /\ reader'[r].rlusd = reader[r].rlusd
<1>0. reader \in [Readers -> ReaderDocs]
  BY DEF BalanceInv
<1>1. CASE Tick
  BY <1>0, <1>1 DEF Tick, ReaderDocs
<1>2. ASSUME NEW q \in Readers, q # r, Refresh(q) PROVE reader'[r] = reader[r]
  BY <1>2, RefreshMoves
<1>3. ASSUME NEW q \in Readers, q # r, NEW w \in Wallets, GetBalance(q, w)
      PROVE  reader'[r] = reader[r]
  BY <1>3, GetMoves
<1>4. ASSUME NEW w \in Wallets, Settle(w) PROVE reader'[r] = reader[r]
  BY <1>4 DEF Settle
<1>5. CASE UNCHANGED balanceVars
  BY <1>5 DEF balanceVars
<1>6. QED
  BY <1>1, <1>2, <1>3, <1>4, <1>5 DEF BalanceNext

\* A thread that is in get() comes to its end.
LEMMA ReaderRests ==
    ASSUME NEW r \in Readers
    PROVE  LiveReader(r) => []<>Idle(r)
<1> DEFINE Where(x) == reader[r].at = x
<1>1. BalanceInv =>
        Where("xrp") \/ Where("rlusd") \/ Where("store") \/ Where("served") \/ Idle(r)
  BY DEF BalanceInv, ReaderDocs, Idle
<1>2. ASSUME NEW x, NEW y, x # "idle", y = After(x)
      PROVE  /\ BalanceInv /\ [BalanceNext]_balanceVars /\ Where(x) => Where(x)' \/ Where(y)'
             /\ BalanceInv /\ Where(x) /\ Refresh(r) => Where(y)'
  <2>1. BalanceInv /\ Where(x) /\ Refresh(r) => Where(y)'
    BY <1>2, RefreshMoves
  <2>2. ASSUME BalanceInv, [BalanceNext]_balanceVars, Where(x), ~ Refresh(r)
        PROVE  Where(x)'
    BY <1>2, <2>2, ReaderMoves, GetMoves DEF Idle
  <2>3. QED
    BY <2>1, <2>2
<1>3. /\ BalanceInv /\ [BalanceNext]_balanceVars /\ Where("xrp") => Where("xrp")' \/ Where("rlusd")'
      /\ BalanceInv /\ Where("xrp") /\ Refresh(r) => Where("rlusd")'
  BY <1>2 DEF After
<1>4. /\ BalanceInv /\ [BalanceNext]_balanceVars /\ Where("rlusd") => Where("rlusd")' \/ Where("store")'
      /\ BalanceInv /\ Where("rlusd") /\ Refresh(r) => Where("store")'
  BY <1>2 DEF After
<1>5. /\ BalanceInv /\ [BalanceNext]_balanceVars /\ Where("store") => Where("store")' \/ Where("served")'
      /\ BalanceInv /\ Where("store") /\ Refresh(r) => Where("served")'
  BY <1>2 DEF After
<1>6. /\ BalanceInv /\ [BalanceNext]_balanceVars /\ Where("served") => Where("served")' \/ Idle(r)'
      /\ BalanceInv /\ Where("served") /\ Refresh(r) => Idle(r)'
  BY <1>2 DEF After, Idle
<1>7. BalanceOpen =>
        (Where("xrp") \/ Where("rlusd") \/ Where("store") \/ Where("served")
           => ENABLED <<Refresh(r)>>_balanceVars)
  BY DEF BalanceOpen
<1> HIDE DEF Where
<1>8. QED
  BY <1>1, <1>3, <1>4, <1>5, <1>6, <1>7, PTL DEF LiveReader, Live, ThreadGoesOn

\* There are so many readers that they can be counted.
LEMMA ReadersListed ==
    \E g \in [Nat -> Readers], k \in Nat : \A r \in Readers : \E j \in 1..k : r = g[j]
<1>1. PICK k \in Nat : ExistsSurjection(1..k, Readers)
  BY FS_NatSurjection, BalanceAssumption
<1>2. PICK h : h \in [1..k -> Readers] /\ \A r \in Readers : \E j \in 1..k : h[j] = r
  BY <1>1 DEF ExistsSurjection, Surjection
<1>3. PICK r0 : r0 \in Readers
  BY BalanceAssumption
<1> DEFINE g == [j \in Nat |-> IF j \in 1..k THEN h[j] ELSE r0]
<1>4. g \in [Nat -> Readers] /\ \A j \in 1..k : g[j] = h[j]
  BY <1>2, <1>3
<1> HIDE DEF g
<1>5. \A r \in Readers : \E j \in 1..k : r = g[j]
  BY <1>2, <1>4
<1>6. QED
  BY <1>4, <1>5

\* All threads of the server go on.
LiveServer == Live /\ \A r \in Readers : ThreadGoesOn(r)

\* Reader r does not hold up the clock.
Prompt(r) == ~ Idle(r) => reader[r].busy < Timeout

LEMMA PromptKept ==
    ASSUME BalanceInv, NEW r \in Readers, Prompt(r), [BalanceNext]_balanceVars,
           [~ Tick]_balanceVars
    PROVE  Prompt(r)'
<1>1. CASE UNCHANGED balanceVars
  BY <1>1 DEF balanceVars, Prompt, Idle
<1>2. CASE Refresh(r)
  <2>1. ~ Idle(r) /\ (reader'[r].busy = reader[r].busy \/ Idle(r)')
    BY <1>2, RefreshMoves
  <2>2. QED
    BY <2>1 DEF Prompt
<1>3. CASE \E w \in Wallets : GetBalance(r, w)
  <2>1. reader'[r].busy = 0
    BY <1>3, GetMoves
  <2>2. QED
    BY <2>1, Sizes DEF Prompt
<1>4. CASE reader'[r] = reader[r]
  BY <1>4 DEF Prompt, Idle
<1>5. QED
  BY <1>1, <1>2, <1>3, <1>4, ReaderMoves

\* With no tick, each reader comes to its end and holds up the clock no more.
GetsPrompt(r) == [][~ Tick]_balanceVars => <>[]Prompt(r)

LEMMA ReaderGetsPrompt ==
    ASSUME NEW r \in Readers
    PROVE  LiveServer => GetsPrompt(r)
<1>1. LiveServer => LiveReader(r)
  BY DEF LiveServer, LiveReader
<1>2. LiveReader(r) => []<>Idle(r)
  BY ReaderRests
<1>3. Idle(r) => Prompt(r)
  BY DEF Prompt
<1>4. BalanceInv /\ Prompt(r) /\ [BalanceNext]_balanceVars /\ [~ Tick]_balanceVars
        => Prompt(r)'
  BY PromptKept
<1>5. QED
  BY <1>1, <1>2, <1>3, <1>4, PTL DEF LiveReader, Live, GetsPrompt

\* The first i readers hold up the clock no more.
FirstPrompt(g, i) == \A j \in 1..i : Prompt(g[j])
AllPrompt(g, i) == LiveServer => ([][~ Tick]_balanceVars => <>[]FirstPrompt(g, i))

LEMMA ReadersGetPrompt ==
    ASSUME NEW g \in [Nat -> Readers]
    PROVE  \A i \in Nat : AllPrompt(g, i)
<1>1. AllPrompt(g, 0)
  <2>1. FirstPrompt(g, 0)
    BY DEF FirstPrompt
  <2>2. QED
    BY <2>1, PTL DEF AllPrompt
<1>2. ASSUME NEW i \in Nat PROVE AllPrompt(g, i) => AllPrompt(g, i + 1)
  <2> DEFINE k == i + 1
             r == g[k]
  <2>1. r \in Readers /\ k = i + 1
    OBVIOUS
  <2>2. FirstPrompt(g, i) /\ Prompt(r) => FirstPrompt(g, k)
    <3>1. \A j \in 1..k : j \in 1..i \/ j = k
      OBVIOUS
    <3>2. QED
      BY <3>1 DEF FirstPrompt
  <2> HIDE DEF k, r
  <2>3. LiveServer => GetsPrompt(r)
    BY <2>1, ReaderGetsPrompt
  <2>4. AllPrompt(g, i) => AllPrompt(g, k)
    BY <2>2, <2>3, PTL DEF AllPrompt, GetsPrompt
  <2>5. QED
    BY <2>1, <2>4
<1> DEFINE F == [i \in Nat |-> AllPrompt(g, i)]
<1>3. Named(F)
  BY DEF Named
<1>4. QED
  BY <1>1, <1>2, <1>3, NumberInduction, SMT

\* So the clock is held up for good by nobody.
LEMMA ClockIsFree == LiveServer => ([][~ Tick]_balanceVars => <>[]InTime)
<1>1. PICK g \in [Nat -> Readers], k \in Nat :
             \A r \in Readers : \E j \in 1..k : r = g[j]
  BY ReadersListed
<1>2. AllPrompt(g, k)
  BY <1>1, ReadersGetPrompt
<1>3. FirstPrompt(g, k) => InTime
  BY <1>1 DEF FirstPrompt, Prompt, Idle, InTime
<1>4. QED
  BY <1>2, <1>3, PTL DEF AllPrompt

\* The wallet's last payment was the v-th, and no request fails any more.
Quiet(w, v, f) == ledger[w] = v /\ fails = f

\* What reader r has fetched for the wallet, and will store, are the balances v.
Current(w, v, r) ==
    reader[r].wallet = w =>
        /\ reader[r].at \in {"rlusd", "store"} => reader[r].xrp = v
        /\ reader[r].at = "store" => reader[r].rlusd = v

\* While nothing fails, the ledger answers with v.
LEMMA QuietAnswer ==
    ASSUME BalanceInv, NEW w \in Wallets, NEW v, NEW f, Quiet(w, v, f), Quiet(w, v, f)',
           NEW b \in Answers(w), CountFail(b)
    PROVE  b = v
<1>1. fails \in Nat
  BY Sizes DEF BalanceInv
<1>2. b # None
  BY <1>1 DEF CountFail, Quiet
<1>3. QED
  BY <1>2 DEF Answers, Quiet

LEMMA CurrentKept ==
    ASSUME BalanceInv, NEW w \in Wallets, NEW v, NEW f, NEW r \in Readers,
           Quiet(w, v, f), Quiet(w, v, f)', [BalanceNext]_balanceVars, Current(w, v, r)
    PROVE  Current(w, v, r)'
<1>0. reader \in [Readers -> ReaderDocs]
  BY DEF BalanceInv
<1>1. CASE FetchXrp(r)
  <2>1. PICK b \in Answers(reader[r].wallet) :
               CountFail(b) /\ reader' = [reader EXCEPT ![r].at = "rlusd", ![r].xrp = b]
    BY <1>1 DEF FetchXrp
  <2>2. /\ reader'[r].at = "rlusd" /\ reader'[r].xrp = b
        /\ reader'[r].wallet = reader[r].wallet
    BY <1>0, <2>1 DEF ReaderDocs
  <2>3. reader[r].wallet = w => b = v
    BY <2>1, QuietAnswer
  <2>4. QED
    BY <2>2, <2>3 DEF Current
<1>2. CASE FetchRlusd(r)
  <2>1. PICK b \in Answers(reader[r].wallet) :
               /\ CountFail(b)
               /\ reader' = [reader EXCEPT ![r].at = "store", ![r].rlusd = b, ![r].age = 0]
    BY <1>2 DEF FetchRlusd
  <2>2. /\ reader'[r].at = "store" /\ reader'[r].rlusd = b
        /\ reader'[r].wallet = reader[r].wallet /\ reader'[r].xrp = reader[r].xrp
    BY <1>0, <2>1 DEF ReaderDocs
  <2>3. reader[r].wallet = w => b = v
    BY <2>1, QuietAnswer
  <2>4. reader[r].at = "rlusd"
    BY <1>2 DEF FetchRlusd
  <2>5. QED
    BY <2>2, <2>3, <2>4 DEF Current
<1>3. CASE StoreBalance(r) \/ Attach(r)
  <2>1. reader'[r].at \in {"served", "idle"}
    <3>1. Refresh(r) /\ reader[r].at \in {"store", "served"}
      BY <1>3 DEF Refresh, StoreBalance, Attach
    <3>2. QED
      BY <3>1, RefreshMoves DEF After
  <2>2. QED
    BY <2>1 DEF Current
<1>4. CASE \E u \in Wallets : GetBalance(r, u)
  <2>1. reader'[r].at \in {"served", "xrp"}
    BY <1>4, GetMoves
  <2>2. QED
    BY <2>1 DEF Current
<1>5. CASE ~ Refresh(r) /\ ~ \E u \in Wallets : GetBalance(r, u)
  <2>1. /\ reader'[r].at = reader[r].at /\ reader'[r].wallet = reader[r].wallet
        /\ reader'[r].xrp = reader[r].xrp /\ reader'[r].rlusd = reader[r].rlusd
    BY <1>5, ReaderMoves
  <2>2. QED
    BY <2>1 DEF Current
<1>6. QED
  BY <1>1, <1>2, <1>3, <1>4, <1>5 DEF Refresh

\* An older answer that reader r has under way is stored once, and no more.
GetsCurrent(w, v, f, r) == []Quiet(w, v, f) => <>[]Current(w, v, r)

LEMMA ReaderGetsCurrent ==
    ASSUME NEW w \in Wallets, NEW v, NEW f, NEW r \in Readers
    PROVE  LiveServer => GetsCurrent(w, v, f, r)
<1>1. LiveServer => LiveReader(r)
  BY DEF LiveServer, LiveReader
<1>2. LiveReader(r) => []<>Idle(r)
  BY ReaderRests
<1>3. Idle(r) => Current(w, v, r)
  BY DEF Idle, Current
<1>4. BalanceInv /\ Quiet(w, v, f) /\ Quiet(w, v, f)' /\ [BalanceNext]_balanceVars
        /\ Current(w, v, r) => Current(w, v, r)'
  BY CurrentKept
<1>5. QED
  BY <1>1, <1>2, <1>3, <1>4, PTL DEF LiveReader, Live, GetsCurrent

\* The first i readers have nothing older under way.
FirstCurrent(g, w, v, i) == \A j \in 1..i : Current(w, v, g[j])
AllCurrent(g, w, v, f, i) ==
    LiveServer => ([]Quiet(w, v, f) => <>[]FirstCurrent(g, w, v, i))

LEMMA ReadersGetCurrent ==
    ASSUME NEW g \in [Nat -> Readers], NEW w \in Wallets, NEW v, NEW f
    PROVE  \A i \in Nat : AllCurrent(g, w, v, f, i)
<1>1. AllCurrent(g, w, v, f, 0)
  <2>1. FirstCurrent(g, w, v, 0)
    BY DEF FirstCurrent
  <2>2. QED
    BY <2>1, PTL DEF AllCurrent
<1>2. ASSUME NEW i \in Nat
      PROVE  AllCurrent(g, w, v, f, i) => AllCurrent(g, w, v, f, i + 1)
  <2> DEFINE k == i + 1
             r == g[k]
  <2>1. r \in Readers /\ k = i + 1
    OBVIOUS
  <2>2. FirstCurrent(g, w, v, i) /\ Current(w, v, r) => FirstCurrent(g, w, v, k)
    <3>1. \A j \in 1..k : j \in 1..i \/ j = k
      OBVIOUS
    <3>2. QED
      BY <3>1 DEF FirstCurrent
  <2> HIDE DEF k, r
  <2>3. LiveServer => GetsCurrent(w, v, f, r)
    BY <2>1, ReaderGetsCurrent
  <2>4. AllCurrent(g, w, v, f, i) => AllCurrent(g, w, v, f, k)
    BY <2>2, <2>3, PTL DEF AllCurrent, GetsCurrent
  <2>5. QED
    BY <2>1, <2>4
<1> DEFINE F == [i \in Nat |-> AllCurrent(g, w, v, f, i)]
<1>3. Named(F)
  BY DEF Named
<1>4. QED
  BY <1>1, <1>2, <1>3, NumberInduction, SMT

\* So nobody stores an older answer from some time on.
EveryCurrent(w, v) == \A r \in Readers : Current(w, v, r)

LEMMA OldAnswersEnd ==
    ASSUME NEW w \in Wallets, NEW v, NEW f
    PROVE  LiveServer => ([]Quiet(w, v, f) => <>[]EveryCurrent(w, v))
<1>1. PICK g \in [Nat -> Readers], k \in Nat :
             \A r \in Readers : \E j \in 1..k : r = g[j]
  BY ReadersListed
<1>2. AllCurrent(g, w, v, f, k)
  BY <1>1, ReadersGetCurrent
<1>3. FirstCurrent(g, w, v, k) => EveryCurrent(w, v)
  BY <1>1 DEF FirstCurrent, EveryCurrent
<1>4. QED
  BY <1>2, <1>3, PTL DEF AllCurrent

\* What a step does to the entry, once nobody stores an older answer: it comes
\* to show v, grows older by a tick, or stays.
LEMMA EntryMoves ==
    ASSUME BalanceInv, NEW w \in Wallets, NEW v, EveryCurrent(w, v),
           [BalanceNext]_balanceVars
    PROVE  \/ Shows(w, v)'
           \/ ~ Tick /\ entry'[w] = entry[w]
           \/ /\ entry'[w].xrp = entry[w].xrp /\ entry'[w].rlusd = entry[w].rlusd
              /\ entry'[w].age = Younger(entry[w].age, TTL)
           \/ entry'[w] = entry[w] /\ UNCHANGED balanceVars
<1>0. entry \in [Wallets -> EntryDocs] /\ reader \in [Readers -> ReaderDocs]
  BY DEF BalanceInv
<1>1. CASE Tick
  BY <1>0, <1>1 DEF Tick, EntryDocs
<1>2. CASE UNCHANGED balanceVars
  BY <1>2 DEF balanceVars
<1>3. ASSUME NEW r \in Readers, StoreBalance(r)
      PROVE  Shows(w, v)' \/ entry'[w] = entry[w]
  <2>1. entry' = [entry EXCEPT ![reader[r].wallet] = Fetched(r)] /\ reader[r].at = "store"
    BY <1>3 DEF StoreBalance, Stored
  <2>2. CASE reader[r].wallet = w
    <3>1. reader[r].xrp = v /\ reader[r].rlusd = v
      BY <2>1, <2>2 DEF EveryCurrent, Current
    <3>2. entry'[w] = Fetched(r)
      BY <1>0, <2>1, <2>2
    <3>3. QED
      BY <3>1, <3>2 DEF Shows, Fetched
  <2>3. CASE reader[r].wallet # w
    BY <1>0, <2>1, <2>3
  <2>4. QED
    BY <2>2, <2>3
<1>4. ASSUME NEW r \in Readers, FetchXrp(r) \/ FetchRlusd(r) \/ Attach(r)
      PROVE  entry'[w] = entry[w]
  BY <1>4 DEF FetchXrp, FetchRlusd, Attach
<1>5. ASSUME NEW r \in Readers, NEW u \in Wallets, GetBalance(r, u)
      PROVE  entry'[w] = entry[w]
  BY <1>5, GetMoves
<1>6. ASSUME NEW u \in Wallets, Settle(u) PROVE entry'[w] = entry[w]
  BY <1>6 DEF Settle
<1>7. CASE ~ Tick
  BY <1>2, <1>3, <1>4, <1>5, <1>6, <1>7 DEF BalanceNext, Refresh
<1>8. QED
  BY <1>1, <1>7

LEMMA LiveServerStays == LiveServer => []LiveServer
<1> DEFINE Each == \A r \in Readers : ThreadGoesOn(r)
           Always == \A r \in Readers : []ThreadGoesOn(r)
<1>1. ASSUME NEW r \in Readers PROVE ThreadGoesOn(r) => []ThreadGoesOn(r)
  BY PTL DEF ThreadGoesOn
<1>2. Each => Always
  BY <1>1
<1>3. Always => []Each
  OBVIOUS
<1>4. LiveServer <=> Live /\ Each
  BY DEF LiveServer
<1> HIDE DEF Each, Always
<1>5. QED
  BY <1>2, <1>3, <1>4, PTL DEF Live

\* The panel of wallet w: its pages and the clock go on, and nobody stores an
\* older answer.
Settling(w, v, f) ==
    /\ LiveServer /\ TimePasses /\ PagesPoll(w)
    /\ []Quiet(w, v, f) /\ []EveryCurrent(w, v)

\* The entry has k ticks at most until it expires.
Expired(w) == entry[w].age >= TTL
Aged(w, k) == entry[w].age >= TTL - k
Ages(w, v, f, k) == Settling(w, v, f) => [](Aged(w, k) => <>(Shows(w, v) \/ Expired(w)))

\* An entry of k ticks comes to m, if it neither expires nor shows v before.
AgesTo(w, v, f, k, m) ==
    Settling(w, v, f) => (Aged(w, k) ~> (Aged(w, m) \/ Shows(w, v) \/ Expired(w)))

LEMMA AgesOnce ==
    ASSUME NEW w \in Wallets, NEW v, NEW f, NEW k \in Nat, NEW m \in Nat, k = m + 1
    PROVE  AgesTo(w, v, f, k, m)
<1> DEFINE Young == Aged(w, k) /\ ~ Expired(w)
           Goal == Aged(w, m) \/ Shows(w, v) \/ Expired(w)
<1>1. /\ BalanceInv /\ EveryCurrent(w, v) /\ [BalanceNext]_balanceVars /\ Young
           => Young' \/ Goal'
      /\ BalanceInv /\ EveryCurrent(w, v) /\ Young /\ <<Tick>>_balanceVars => Goal'
  <2> SUFFICES ASSUME BalanceInv, EveryCurrent(w, v), [BalanceNext]_balanceVars, Young,
                      ~ Shows(w, v)'
               PROVE  (Young' \/ Goal') /\ (<<Tick>>_balanceVars => Goal')
    BY DEF BalanceNext
  <2>1. entry[w].age \in Nat /\ entry[w].age < TTL /\ TTL \in Nat /\ entry[w].age >= TTL - k
    BY Sizes DEF BalanceInv, EntryDocs, Expired, Aged
  <2>2. Younger(entry[w].age, TTL) = entry[w].age + 1
    BY <2>1 DEF Younger
  <2>3. CASE entry'[w].age = entry[w].age + 1
    BY <2>1, <2>3 DEF Aged
  <2>4. CASE entry'[w] = entry[w] /\ (~ Tick \/ UNCHANGED balanceVars)
    BY <2>4 DEF Aged, Expired
  <2>5. QED
    BY <2>2, <2>3, <2>4, EntryMoves
<1>2. BalanceOpen /\ BalanceInv /\ InTime /\ Young => ENABLED <<Tick>>_balanceVars
  <2>1. BalanceInv /\ Young => entry[w].age < TTL
    BY Sizes DEF BalanceInv, EntryDocs, Expired
  <2>2. QED
    BY <2>1 DEF BalanceOpen
<1>3. Aged(w, k) => Young \/ Goal
  OBVIOUS
<1> HIDE DEF Young, Goal
<1>4. Settling(w, v, f) => (Aged(w, k) ~> Goal)
  <2>1. LiveServer => ([][~ Tick]_balanceVars => <>[]InTime)
    BY ClockIsFree
  <2>2. LiveServer => Live
    BY DEF LiveServer
  <2>3. QED
    BY <1>1, <1>2, <1>3, <2>1, <2>2, LiveServerStays, PTL DEF Live, Settling, TimePasses
<1>5. QED
  BY <1>4 DEF Goal, AgesTo

LEMMA AgesAlways ==
    ASSUME NEW w \in Wallets, NEW v, NEW f
    PROVE  \A k \in Nat : Ages(w, v, f, k)
<1>1. Ages(w, v, f, 0)
  <2>1. Aged(w, 0) => Expired(w)
    BY Sizes DEF Aged, Expired
  <2>2. QED
    BY <2>1, PTL DEF Ages
<1>2. ASSUME NEW m \in Nat PROVE Ages(w, v, f, m) => Ages(w, v, f, m + 1)
  <2> DEFINE k == m + 1
  <2>1. k \in Nat /\ k = m + 1
    OBVIOUS
  <2> HIDE DEF k
  <2>2. AgesTo(w, v, f, k, m)
    BY <2>1, AgesOnce
  <2>3. Ages(w, v, f, m) => Ages(w, v, f, k)
    BY <2>2, PTL DEF Ages, AgesTo
  <2>4. QED
    BY <2>1, <2>3
<1> DEFINE F == [k \in Nat |-> Ages(w, v, f, k)]
<1>3. Named(F)
  BY DEF Named
<1>4. QED
  BY <1>1, <1>2, <1>3, NumberInduction, SMT

\* Reader r asks the ledger for wallet w, and will store the answer.
Asks(w, r) == reader[r].wallet = w /\ reader[r].at \in {"xrp", "rlusd", "store"}
WillShow(w, v, r) == Asks(w, r) => <>Shows(w, v)

LEMMA AskedShows ==
    ASSUME NEW w \in Wallets, NEW v, NEW f, NEW r \in Readers
    PROVE  Settling(w, v, f) => []WillShow(w, v, r)
<1> DEFINE Where(x) == reader[r].wallet = w /\ reader[r].at = x
           Goal == Shows(w, v)
           Step == BalanceInv /\ EveryCurrent(w, v) /\ [BalanceNext]_balanceVars
<1>1. Asks(w, r) => Where("xrp") \/ Where("rlusd") \/ Where("store")
  BY DEF Asks
<1>2. ASSUME Step, NEW x \in {"xrp", "rlusd", "store"}, Where(x), ~ Refresh(r)
      PROVE  Where(x)'
  <2>1. ~ Idle(r)
    BY <1>2 DEF Idle
  <2>2. QED
    BY <1>2, <2>1, ReaderMoves, GetMoves
<1>3. ASSUME Step, Where("xrp"), Refresh(r) PROVE Where("rlusd")'
  <2>1. FetchXrp(r)
    BY <1>3 DEF Refresh, FetchRlusd, StoreBalance, Attach
  <2>2. PICK b : reader' = [reader EXCEPT ![r].at = "rlusd", ![r].xrp = b]
    BY <2>1 DEF FetchXrp
  <2>3. QED
    BY <1>3, <2>2 DEF BalanceInv, ReaderDocs
<1>4. ASSUME Step, Where("rlusd"), Refresh(r) PROVE Where("store")'
  <2>1. FetchRlusd(r)
    BY <1>4 DEF Refresh, FetchXrp, StoreBalance, Attach
  <2>2. PICK b : reader' = [reader EXCEPT ![r].at = "store", ![r].rlusd = b, ![r].age = 0]
    BY <2>1 DEF FetchRlusd
  <2>3. QED
    BY <1>4, <2>2 DEF BalanceInv, ReaderDocs
<1>5. ASSUME Step, Where("store"), Refresh(r) PROVE Goal'
  <2>1. StoreBalance(r)
    BY <1>5 DEF Refresh, FetchXrp, FetchRlusd, Attach
  <2>2. entry'[w] = Fetched(r)
    BY <1>5, <2>1 DEF StoreBalance, Stored, BalanceInv
  <2>3. reader[r].xrp = v /\ reader[r].rlusd = v
    BY <1>5 DEF EveryCurrent, Current
  <2>4. QED
    BY <2>2, <2>3 DEF Shows, Fetched
<1>6. /\ Step /\ Where("xrp") => Where("xrp")' \/ Where("rlusd")'
      /\ Step /\ Where("rlusd") => Where("rlusd")' \/ Where("store")'
      /\ Step /\ Where("store") => Where("store")' \/ Goal'
  BY <1>2, <1>3, <1>4, <1>5
<1>7. /\ Step /\ Where("xrp") /\ Refresh(r) => Where("rlusd")'
      /\ Step /\ Where("rlusd") /\ Refresh(r) => Where("store")'
      /\ Step /\ Where("store") /\ Refresh(r) => Goal'
  BY <1>3, <1>4, <1>5
<1>8. BalanceOpen => (Where("xrp") \/ Where("rlusd") \/ Where("store")
                        => ENABLED <<Refresh(r)>>_balanceVars)
  BY DEF BalanceOpen
<1>9. LiveServer => LiveReader(r)
  BY DEF LiveServer, LiveReader
<1> HIDE DEF Where, Goal
<1>10. WillShow(w, v, r) <=> (Asks(w, r) => <>Goal)
  BY DEF WillShow, Goal
<1>11. QED
  BY <1>1, <1>6, <1>7, <1>8, <1>9, <1>10, PTL
  DEF Settling, LiveReader, Live, ThreadGoesOn

SomeAsk(w) == \E r \in Readers : Asks(w, r)

\* A page asks for an entry that has expired, when one of its threads is at rest.
LEMMA ExpiredAsks ==
    ASSUME NEW w \in Wallets, NEW v, NEW f
    PROVE  Settling(w, v, f) => [](Expired(w) => <>(Shows(w, v) \/ SomeAsk(w)))
<1>1. PICK r : r \in Readers
  BY BalanceAssumption
<1>2. BalanceInv /\ EveryCurrent(w, v) /\ [BalanceNext]_balanceVars /\ Expired(w)
        => Expired(w)' \/ Shows(w, v)'
  <2> SUFFICES ASSUME BalanceInv, EveryCurrent(w, v), [BalanceNext]_balanceVars,
                      Expired(w), ~ Shows(w, v)'
               PROVE  Expired(w)'
    OBVIOUS
  <2>0. entry[w].age \in 0..TTL
    BY DEF BalanceInv, EntryDocs
  <2>1. entry[w].age = TTL
    BY <2>0, Sizes DEF Expired
  <2>2. Younger(entry[w].age, TTL) = TTL
    BY <2>1, Sizes DEF Younger
  <2>3. entry'[w].age = TTL
    BY <2>1, <2>2, EntryMoves
  <2>4. QED
    BY <2>3, Sizes DEF Expired
<1>3. BalanceInv /\ Expired(w) /\ SomeGet(w) => SomeAsk(w)'
  <2> SUFFICES ASSUME BalanceInv, Expired(w), SomeGet(w) PROVE SomeAsk(w)'
    OBVIOUS
  <2>1. PICK q \in Readers : GetBalance(q, w)
    BY DEF SomeGet
  <2>2. ~ (entry[w].age < TTL)
    BY Sizes DEF BalanceInv, EntryDocs, Expired
  <2>3. reader'[q].wallet = w /\ reader'[q].at = "xrp"
    BY <2>1, <2>2, GetMoves
  <2>4. QED
    BY <2>3 DEF SomeAsk, Asks
<1>4. BalanceOpen /\ Idle(r) => ENABLED <<SomeGet(w)>>_balanceVars
  BY <1>1 DEF BalanceOpen, Idle
<1>5. LiveServer => []<>Idle(r)
  <2>1. LiveServer => LiveReader(r)
    BY <1>1 DEF LiveServer, LiveReader
  <2>2. LiveReader(r) => []<>Idle(r)
    BY <1>1, ReaderRests
  <2>3. QED
    BY <2>1, <2>2
<1>6. LiveServer => Live
  BY DEF LiveServer
<1>7. QED
  BY <1>2, <1>3, <1>4, <1>5, <1>6, PTL DEF Settling, Live, PagesPoll

LEMMA SomeAskShows ==
    ASSUME NEW w \in Wallets, NEW v, NEW f
    PROVE  Settling(w, v, f) => [](SomeAsk(w) => <>Shows(w, v))
<1> DEFINE Each == \A r \in Readers : []WillShow(w, v, r)
           All == \A r \in Readers : WillShow(w, v, r)
<1>1. ASSUME NEW r \in Readers PROVE Settling(w, v, f) => []WillShow(w, v, r)
  BY AskedShows
<1>2. Settling(w, v, f) => Each
  BY <1>1
<1>3. Each => []All
  OBVIOUS
<1>4. All => (SomeAsk(w) => <>Shows(w, v))
  BY DEF WillShow, SomeAsk
<1> HIDE DEF Each, All
<1>5. QED
  BY <1>2, <1>3, <1>4, PTL

\* Once nobody stores an older answer, the panel shows v, and keeps it.
LEMMA SettlingShows ==
    ASSUME NEW w \in Wallets, NEW v, NEW f
    PROVE  Settling(w, v, f) => <>[]Shows(w, v)
<1>1. BalanceInv => Aged(w, TTL)
  BY Sizes DEF BalanceInv, EntryDocs, Aged
<1>2. Ages(w, v, f, TTL)
  BY AgesAlways, Sizes
<1>3. Settling(w, v, f) => [](Expired(w) => <>(Shows(w, v) \/ SomeAsk(w)))
  BY ExpiredAsks
<1>4. Settling(w, v, f) => [](SomeAsk(w) => <>Shows(w, v))
  BY SomeAskShows
<1>5. BalanceInv /\ EveryCurrent(w, v) /\ [BalanceNext]_balanceVars /\ Shows(w, v)
        => Shows(w, v)'
  BY EntryMoves DEF Shows
<1>6. LiveServer => Live
  BY DEF LiveServer
<1>7. QED
  BY <1>1, <1>2, <1>3, <1>4, <1>5, <1>6, PTL DEF Settling, Live, Ages

\* The panel of wallet w is served and polled.
Served(w) == LiveServer /\ TimePasses /\ PagesPoll(w)
QuietEnds(w, v, f) == []Quiet(w, v, f) => <>[]Shows(w, v)

LEMMA QuietShows ==
    ASSUME NEW w \in Wallets, NEW v, NEW f
    PROVE  Served(w) => QuietEnds(w, v, f)
<1>1. LiveServer => ([]Quiet(w, v, f) => <>[]EveryCurrent(w, v))
  BY OldAnswersEnd
<1>2. Settling(w, v, f) => <>[]Shows(w, v)
  BY SettlingShows
<1>3. QED
  BY <1>1, <1>2, LiveServerStays, PTL
  DEF Settling, Served, TimePasses, PagesPoll, QuietEnds

\* At most k requests will still fail.
FailsLeft(k) == MaxFails - fails <= k
Paid(w, v) == ledger[w] = v
SettlesBy(w, v, k) == Served(w) => []([]Paid(w, v) /\ FailsLeft(k) => <>[]Shows(w, v))

LEMMA FailsGrow ==
    ASSUME BalanceInv, [BalanceNext]_balanceVars
    PROVE  fails' \in {fails, fails + 1}
<1>1. ASSUME NEW r \in Readers, Refresh(r) PROVE fails' \in {fails, fails + 1}
  <2>1. CASE FetchXrp(r)
    BY <2>1 DEF FetchXrp, CountFail
  <2>2. CASE FetchRlusd(r)
    BY <2>2 DEF FetchRlusd, CountFail
  <2>3. CASE StoreBalance(r) \/ Attach(r)
    BY <2>3 DEF StoreBalance, Attach
  <2>4. QED
    BY <1>1, <2>1, <2>2, <2>3 DEF Refresh
<1>2. ASSUME NEW r \in Readers, NEW w \in Wallets, GetBalance(r, w) PROVE fails' = fails
  BY <1>2, GetMoves
<1>3. CASE Tick \/ UNCHANGED balanceVars
  BY <1>3 DEF Tick, balanceVars
<1>4. ASSUME NEW w \in Wallets, Settle(w) PROVE fails' = fails
  BY <1>4 DEF Settle
<1>5. QED
  BY <1>1, <1>2, <1>3, <1>4 DEF BalanceNext

LEMMA FailsLeftStays ==
    ASSUME BalanceInv, [BalanceNext]_balanceVars, NEW k \in Nat, FailsLeft(k)
    PROVE  FailsLeft(k)'
<1>1. fails \in 0..MaxFails
  BY DEF BalanceInv
<1>2. fails' = fails \/ fails' = fails + 1
  BY FailsGrow
<1>3. MaxFails - fails <= k
  BY DEF FailsLeft
<1>4. MaxFails - fails' <= k
  BY <1>1, <1>2, <1>3, Sizes
<1>5. QED
  BY <1>4 DEF FailsLeft

\* Exactly f requests have failed.
Failed(f) == fails = f

LEMMA ServedStays ==
    ASSUME NEW w \in Wallets
    PROVE  Served(w) => []Served(w)
BY LiveServerStays, PTL DEF Served, TimePasses, PagesPoll

\* If k requests can still fail, either one more does, or none does any more.
LEMMA SettlesOnce ==
    ASSUME NEW w \in Wallets, NEW v, NEW k \in Nat, NEW m \in Nat, k = m + 1
    PROVE  SettlesBy(w, v, m) => SettlesBy(w, v, k)
<1> DEFINE f == MaxFails - k
<1>1. BalanceInv /\ FailsLeft(k) => FailsLeft(m) \/ Failed(f)
  BY Sizes DEF BalanceInv, FailsLeft, Failed
<1>2. BalanceInv /\ [BalanceNext]_balanceVars /\ FailsLeft(k) => FailsLeft(k)'
  BY FailsLeftStays
<1> HIDE DEF f
<1>3. Paid(w, v) /\ Failed(f) => Quiet(w, v, f)
  BY DEF Paid, Failed, Quiet
<1>4. Served(w) => QuietEnds(w, v, f)
  BY QuietShows
<1>5. Served(w) => []Served(w)
  BY ServedStays
<1>6. Served(w) => Live
  BY DEF Served, LiveServer
<1>7. QED
  BY <1>1, <1>2, <1>3, <1>4, <1>5, <1>6, PTL DEF SettlesBy, QuietEnds, Live

LEMMA SettlesAlways ==
    ASSUME NEW w \in Wallets, NEW v
    PROVE  \A k \in Nat : SettlesBy(w, v, k)
<1>1. SettlesBy(w, v, 0)
  <2>1. BalanceInv /\ FailsLeft(0) => Failed(MaxFails)
    BY Sizes DEF BalanceInv, FailsLeft, Failed
  <2>2. BalanceInv /\ [BalanceNext]_balanceVars /\ FailsLeft(0) => FailsLeft(0)'
    BY FailsLeftStays
  <2>3. Paid(w, v) /\ Failed(MaxFails) => Quiet(w, v, MaxFails)
    BY DEF Paid, Failed, Quiet
  <2>4. Served(w) => QuietEnds(w, v, MaxFails)
    BY QuietShows
  <2>5. Served(w) => []Served(w)
    BY ServedStays
  <2>6. Served(w) => Live
    BY DEF Served, LiveServer
  <2>7. QED
    BY <2>1, <2>2, <2>3, <2>4, <2>5, <2>6, PTL DEF SettlesBy, QuietEnds, Live
<1>2. ASSUME NEW m \in Nat PROVE SettlesBy(w, v, m) => SettlesBy(w, v, m + 1)
  <2>1. m + 1 \in Nat
    OBVIOUS
  <2>2. QED
    BY <2>1, SettlesOnce
<1> DEFINE F == [k \in Nat |-> SettlesBy(w, v, k)]
<1>3. Named(F)
  BY DEF Named
<1>4. QED
  BY <1>1, <1>2, <1>3, NumberInduction, SMT

LEMMA WalletSettlesCorrect ==
    ASSUME NEW w \in Wallets, NEW v
    PROVE  FairBalanceSpec /\ []BalanceOpen => WalletSettles(w, v)
<1>1. FairBalanceSpec => \A r \in Readers : ThreadGoesOn(r)
  BY DEF FairBalanceSpec, BalanceFairness
<1>2. FairBalanceSpec => BalanceSpec /\ TimePasses /\ PagesPoll(w)
  BY DEF FairBalanceSpec, BalanceFairness
<1>3. BalanceSpec => []BalanceInv
  BY BalanceInvariant
<1>4. FairBalanceSpec /\ []BalanceOpen => Live
  BY <1>2, <1>3, PTL DEF Live, BalanceSpec
<1>5. FairBalanceSpec /\ []BalanceOpen => Served(w)
  BY <1>1, <1>2, <1>4 DEF Served, LiveServer
<1>6. BalanceInv => FailsLeft(MaxFails)
  BY Sizes DEF BalanceInv, FailsLeft
<1>7. SettlesBy(w, v, MaxFails)
  BY SettlesAlways, Sizes
<1>8. WalletSettles(w, v) <=> (<>[]Paid(w, v) => <>[]Shows(w, v))
  BY PTL DEF WalletSettles, Paid
<1>9. QED
  BY <1>4, <1>5, <1>6, <1>7, <1>8, PTL DEF SettlesBy, Live

\* When payments have stopped, the panel comes to show the final balances of
\* each wallet and keeps them, if the guards of its threads, of its pages and of
\* the clock are all they wait for: for any number of wallets, of threads and of
\* failed requests, and for any TTL and time-out.
THEOREM PanelSettlesCorrect == FairBalanceSpec /\ []BalanceOpen => PanelSettles
BY WalletSettlesCorrect DEF PanelSettles

(******************************************************************************)
(* DemoSetup.                                                                 *)
(******************************************************************************)

\* The markers are of no type: what follows an empty page is not said.
LookupDocs(M) == [at : {"asleep", "ready", "walk", "held", "denied", "raised"},
                  id : Ids \union {NoId}, owner : Nat, marker : M, failed : BOOLEAN]
LookupTyped == \E M : lookup \in [Lookups -> LookupDocs(M)]

\* What the running script has in memory.
Scratch == [name : {"none", "wallets", "mint"},
            at : {"end", "role", "write", "write id", "write owner"},
            role : DOMAIN Roles, force : BOOLEAN, tries : Nat,
            wallet : Nat, id : Ids \union {NoId}]

SetupTyped ==
    /\ wallets \in Nat /\ losses \in Nat
    /\ holder \in [Ids -> Nat] /\ seed \in [RoleSet -> Nat \union {BadSeed}]
    /\ nft \in [id : Ids \union {NoId}, owner : Nat]
    /\ script \in Scratch
    /\ LookupTyped

\* A wallet that is in memory and nowhere else is about to be written; it
\* replaces a seed only if the run is forced.
MemoryInv ==
    /\ script.name = "none" => script = NoScript
    /\ script.at = "end" <=> script.name = "none"
    /\ script.at = "write" => script.name = "wallets"
    /\ script.name = "wallets" =>
         /\ script.at \in {"role", "write"}
         /\ script.at = "role" => script.wallet = NoWallet
         /\ script.at = "write" /\ ~ script.force => seed[RoleNow] \in Useless
    /\ script.name = "mint" => script.wallet = seed[ModelOwner] /\ script.wallet # NoWallet

\* What is written to .env, and was written there, is an NFT that was minted.
ConfigInv ==
    /\ script.at \in {"write id", "write owner"} =>
         /\ script.name = "mint" /\ script.id \in Ids
         /\ holder[script.id] # NoWallet
    /\ nft.id # NoId => nft.id \in Ids /\ holder[nft.id] # NoWallet

\* The NFT of a look-up was minted; if its owner holds it, it is behind the marker.
WalkInv ==
    \A l \in Lookups :
        /\ lookup[l].at # "asleep" =>
             lookup[l].id \in Ids /\ holder[lookup[l].id] # NoWallet
        /\ lookup[l].at = "walk" /\ holder[lookup[l].id] = lookup[l].owner =>
             lookup[l].marker \in Nat /\ lookup[l].id > lookup[l].marker
        /\ lookup[l].at = "held" => holder[lookup[l].id] = lookup[l].owner
        /\ lookup[l].at = "denied" /\ ~ lookup[l].failed =>
             holder[lookup[l].id] # lookup[l].owner

\* Funded wallets that are neither in .env nor in memory.
Homeless == (1..wallets) \ ({seed[r] : r \in RoleSet} \union {script.wallet})

SetupInv == SetupTyped /\ MemoryInv /\ ConfigInv /\ WalkInv /\ WalletsKept

\* A set of numbers with a bound has a greatest one.
LEMMA GreatestNumber ==
    ASSUME NEW S \in SUBSET Nat, S # {}, NEW b \in Nat, \A n \in S : n <= b
    PROVE  \E m \in S : \A n \in S : n <= m
<1> DEFINE Bounds == {u \in Nat : \A n \in S : n <= u}
<1>1. PICK u \in Bounds : \A v \in Bounds : u <= v
  <2>1. Bounds \in SUBSET Nat /\ b \in Bounds
    OBVIOUS
  <2>2. QED
    BY <2>1, LeastNumber
<1>2. SUFFICES ASSUME u \notin S PROVE FALSE
  BY <1>1
<1>3. \A n \in S : n < u
  BY <1>1, <1>2
<1>4. u - 1 \in Bounds
  <2>1. PICK n \in S : TRUE
    OBVIOUS
  <2>2. u - 1 \in Nat
    BY <1>1, <1>3, <2>1
  <2>3. \A k \in S : k <= u - 1
    BY <1>1, <1>3
  <2>4. QED
    BY <2>2, <2>3
<1>5. QED
  BY <1>1, <1>4

\* A page holds the first of the NFTs that are left, and a page that is not the
\* last one and misses an NFT has its marker before it.
LEMMA PageAndMarker ==
    ASSUME NEW l, lookup[l].marker \in Nat, NEW i \in Rest(l), i \notin Page(l)
    PROVE  /\ ~ LastPage(l)
           /\ (CHOOSE m \in Page(l) : \A j \in Page(l) : j <= m) \in {j \in Nat : j < i}
<1>1. Rest(l) \in SUBSET Nat /\ Page(l) \in SUBSET Rest(l)
  BY SetupAssumption DEF Rest, Page
<1> DEFINE Before(n) == {j \in Rest(l) : j < n}
<1>2. \A n \in Nat : IsFiniteSet(Before(n)) /\ Cardinality(Before(n)) \in Nat
  <2> SUFFICES ASSUME NEW n \in Nat
               PROVE  IsFiniteSet(Before(n)) /\ Cardinality(Before(n)) \in Nat
    OBVIOUS
  <2>1. Before(n) \subseteq 0..n
    BY <1>1
  <2>2. IsFiniteSet(0..n)
    BY FS_Interval
  <2>3. QED
    BY <2>1, <2>2, FS_Subset, FS_CardinalityType
<1>3. Page(l) = {k \in Rest(l) : Cardinality(Before(k)) < PageSize}
  BY DEF Page
<1> HIDE DEF Before
<1>4. Page(l) # {}
  <2>1. PICK m \in Rest(l) : \A n \in Rest(l) : m <= n
    BY <1>1, LeastNumber
  <2>2. Before(m) = {}
    BY <1>1, <2>1 DEF Before
  <2>3. Cardinality(Before(m)) = 0
    BY <2>2, FS_EmptySet
  <2>4. m \in Page(l)
    BY <1>3, <2>1, <2>3, SetupAssumption
  <2>5. QED
    BY <2>4
<1>5. \A j \in Page(l) : j < i
  <2> SUFFICES ASSUME NEW j \in Page(l), ~ (j < i) PROVE FALSE
    OBVIOUS
  <2>1. Before(i) \subseteq Before(j) /\ i \in Nat /\ j \in Nat
    BY <1>1 DEF Before
  <2>2. Cardinality(Before(i)) <= Cardinality(Before(j))
    BY <1>2, <2>1, FS_Subset
  <2>3. Cardinality(Before(j)) < PageSize
    BY <1>3
  <2>4. Cardinality(Before(i)) < PageSize
    BY <1>2, <2>1, <2>2, <2>3, SetupAssumption
  <2>5. QED
    BY <1>1, <2>4, <1>3
<1>6. \E m \in Page(l) : \A j \in Page(l) : j <= m
  <2>1. Page(l) \in SUBSET Nat /\ i \in Nat
    BY <1>1
  <2>2. \A j \in Page(l) : j <= i
    BY <1>5, <2>1
  <2>3. QED
    BY <1>4, <2>1, <2>2, GreatestNumber
<1>7. QED
  BY <1>1, <1>5, <1>6 DEF LastPage

LEMMA RolesKnown == /\ 1 \in DOMAIN Roles /\ DOMAIN Roles = 1..Len(Roles) /\ Len(Roles) \in Nat
                    /\ \A i \in DOMAIN Roles : Roles[i] \in RoleSet
                    /\ ModelOwner \in RoleSet
<1>1. Len(Roles) \in Nat /\ DOMAIN Roles = 1..Len(Roles)
  BY SetupAssumption
<1>2. \A i \in DOMAIN Roles : Roles[i] \in RoleSet
  BY DEF RoleSet
<1>3. ModelOwner \in RoleSet /\ DOMAIN Roles # {}
  BY SetupAssumption DEF RoleSet
<1>4. QED
  BY <1>1, <1>2, <1>3

\* How the wallets that are lost may grow.
LEMMA LossStep ==
    ASSUME WalletsKept, wallets \in Nat, losses \in Nat,
           NEW x, Homeless' \subseteq Homeless \union {x},
           losses' \in Nat,
           losses' > losses \/ (losses' = losses /\ Homeless' \subseteq Homeless)
    PROVE  WalletsKept'
<1>1. IsFiniteSet(Homeless) /\ Cardinality(Homeless) \in Nat
  <2>1. IsFiniteSet(1..wallets)
    BY FS_Interval
  <2>2. QED
    BY <2>1, FS_Subset, FS_CardinalityType DEF Homeless
<1>2. Cardinality(Homeless) <= losses
  BY DEF WalletsKept, Homeless
<1>3. IsFiniteSet(Homeless \union {x}) /\ Cardinality(Homeless \union {x}) \in Nat
      /\ Cardinality(Homeless \union {x}) <= Cardinality(Homeless) + 1
  <2>1. /\ IsFiniteSet(Homeless \union {x})
        /\ Cardinality(Homeless \union {x}) \in {Cardinality(Homeless), Cardinality(Homeless) + 1}
    BY <1>1, FS_AddElement
  <2>2. QED
    BY <1>1, <2>1
<1>4. Cardinality(Homeless') \in Nat /\ Cardinality(Homeless') <= losses'
  <2>1. CASE losses' > losses
    <3>1. Cardinality(Homeless') <= Cardinality(Homeless \union {x})
          /\ Cardinality(Homeless') \in Nat
      BY <1>3, FS_Subset, FS_CardinalityType
    <3>2. QED
      BY <1>1, <1>2, <1>3, <2>1, <3>1
  <2>2. CASE losses' = losses /\ Homeless' \subseteq Homeless
    <3>1. Cardinality(Homeless') <= Cardinality(Homeless) /\ Cardinality(Homeless') \in Nat
      BY <1>1, <2>2, FS_Subset, FS_CardinalityType
    <3>2. QED
      BY <1>1, <1>2, <2>2, <3>1
  <2>3. QED
    BY <2>1, <2>2
<1>5. QED
  BY <1>4 DEF WalletsKept, Homeless

LEMMA InitSetup == SetupInit => SetupInv
<1> SUFFICES ASSUME SetupInit PROVE SetupInv
  OBVIOUS
<1> USE DEF SetupInit
<1>1. SetupTyped
  <2>1. lookup \in [Lookups -> LookupDocs({0})]
    BY DEF LookupDocs, Asleep, NoId, NoWallet
  <2>2. LookupTyped
    BY <2>1 DEF LookupTyped
  <2>3. script \in Scratch
    BY RolesKnown DEF Scratch, NoScript, NoWallet, NoId
  <2>4. QED
    BY <2>2, <2>3 DEF SetupTyped, NoWallet, NoId, Useless, BadSeed
<1>2. MemoryInv /\ ConfigInv
  BY DEF MemoryInv, ConfigInv, NoScript, NoWallet, NoId
<1>3. WalkInv
  BY DEF WalkInv, Asleep
<1>4. WalletsKept
  <2>1. (1..wallets) \ ({seed[r] : r \in RoleSet} \union {script.wallet}) = {}
    OBVIOUS
  <2>2. QED
    BY <2>1, FS_EmptySet DEF WalletsKept
<1>5. QED
  BY <1>1, <1>2, <1>3, <1>4 DEF SetupInv

\* A script that goes on to the next role holds no wallet.
LEMMA NextRoleStep ==
    ASSUME SetupInv, NextRole, script.name = "wallets"
    PROVE  /\ script' \in Scratch
           /\ script'.wallet = NoWallet
           /\ \/ script' = NoScript
              \/ script'.name = "wallets" /\ script'.at = "role"
<1>1. CASE script.role = Len(Roles)
  BY <1>1, RolesKnown DEF NextRole, Scratch, NoScript, NoWallet, NoId
<1>2. CASE script.role # Len(Roles)
  <2>1. script.role \in 1..Len(Roles)
    BY RolesKnown DEF SetupInv, SetupTyped, Scratch
  <2>2. script.role + 1 \in DOMAIN Roles
    BY <1>2, <2>1, RolesKnown
  <2>3. QED
    BY <1>2, <2>2 DEF NextRole, Scratch, NoWallet, NoId, SetupInv, SetupTyped
<1>3. QED
  BY <1>1, <1>2

\* A step of the script that mints funds no wallet and changes no seed.
LEMMA MintKeepsWallets ==
    ASSUME SetupInv, UNCHANGED <<wallets, seed, losses>>,
           script'.wallet = script.wallet \/ (script.name = "mint" /\ script'.wallet = NoWallet)
           \/ (script.name = "none" /\ script'.wallet \in {NoWallet, seed[ModelOwner]})
    PROVE  WalletsKept'
<1>1. NoWallet \notin 1..wallets
  BY DEF NoWallet
<1>2. script.name = "none" => script.wallet = NoWallet
  BY DEF SetupInv, MemoryInv, NoScript
<1>3. script.name = "mint" => script.wallet = seed[ModelOwner]
  BY DEF SetupInv, MemoryInv
<1>4. seed[ModelOwner] \in {seed[r] : r \in RoleSet}
  BY RolesKnown
<1>5. Homeless' \subseteq Homeless
  BY <1>1, <1>2, <1>3, <1>4 DEF Homeless
<1>6. QED
  BY <1>5, LossStep DEF SetupInv, SetupTyped

LEMMA NoScriptTyped == NoScript \in Scratch
BY RolesKnown DEF Scratch, NoScript, NoWallet, NoId

\* Look-ups that do not move stay sound, since NFTs stay where they are.
LEMMA WalkKept ==
    ASSUME SetupInv, UNCHANGED lookup,
           \A i \in Ids : holder[i] # NoWallet => holder'[i] = holder[i]
    PROVE  WalkInv' /\ LookupTyped'
<1>1. LookupTyped'
  BY DEF SetupInv, SetupTyped, LookupTyped, LookupDocs
<1>2. WalkInv'
  BY DEF SetupInv, WalkInv
<1>3. QED
  BY <1>1, <1>2

\* A script of wallets that ends or is at the beginning of a role.
LEMMA RestedStep ==
    ASSUME SetupInv, UNCHANGED <<holder, nft>>, script'.wallet = NoWallet,
           script' = NoScript \/ (script'.name = "wallets" /\ script'.at = "role")
    PROVE  MemoryInv' /\ ConfigInv'
<1>1. NoScript.at = "end" /\ NoScript.name = "none"
  BY DEF NoScript
<1>2. /\ script'.at \in {"end", "role"}
      /\ script'.at = "end" <=> script'.name = "none"
      /\ script'.name \in {"none", "wallets"}
      /\ script'.name = "none" => script' = NoScript
  BY <1>1
<1>3. MemoryInv'
  BY <1>2 DEF MemoryInv
<1>4. ConfigInv'
  BY <1>2 DEF SetupInv, ConfigInv
<1>5. QED
  BY <1>3, <1>4

LEMMA StartStep ==
    ASSUME SetupInv, NEW name \in {"wallets", "mint"}, NEW force \in BOOLEAN, Start(name, force)
    PROVE  SetupInv'
<1>1. /\ script' = [NoScript EXCEPT !.name = name, !.force = force, !.at = "role",
                                  !.wallet = IF name = "mint" THEN seed[ModelOwner] ELSE @]
      /\ script = NoScript /\ (name = "mint" => seed[ModelOwner] \notin Useless)
      /\ UNCHANGED <<wallets, holder, seed, nft, lookup, losses>>
  BY DEF Start, Ledger, Env
<1>2. /\ script'.name = name /\ script'.force = force /\ script'.at = "role"
      /\ script'.wallet = (IF name = "mint" THEN seed[ModelOwner] ELSE NoWallet)
      /\ script'.id = NoId
  BY <1>1 DEF NoScript
<1>3. SetupTyped'
  <2>1. name = "mint" => seed[ModelOwner] \in Nat
    BY <1>1, RolesKnown DEF SetupInv, SetupTyped, Useless
  <2>2. script' \in Scratch
    BY <1>1, <2>1, RolesKnown DEF Scratch, NoScript, NoWallet, NoId
  <2>3. LookupTyped'
    BY <1>1, WalkKept
  <2>4. QED
    BY <1>1, <2>2, <2>3 DEF SetupInv, SetupTyped, Scratch
<1>4. MemoryInv'
  BY <1>1, <1>2 DEF SetupInv, MemoryInv, Useless
<1>5. ConfigInv'
  BY <1>1, <1>2 DEF SetupInv, ConfigInv
<1>6. WalkInv'
  BY <1>1, WalkKept
<1>7. WalletsKept'
  BY <1>1, <1>2, MintKeepsWallets DEF NoScript
<1>8. QED
  BY <1>3, <1>4, <1>5, <1>6, <1>7 DEF SetupInv

LEMMA KeepWalletStep == ASSUME SetupInv, KeepWallet PROVE SetupInv'
<1>1. /\ script.name = "wallets" /\ script.at = "role" /\ NextRole
      /\ UNCHANGED <<wallets, holder, seed, nft, lookup, losses>>
  BY DEF KeepWallet, Running, Ledger, Env
<1>2. /\ script' \in Scratch /\ script'.wallet = NoWallet
      /\ script' = NoScript \/ (script'.name = "wallets" /\ script'.at = "role")
  BY <1>1, NextRoleStep DEF Scratch
<1>3. SetupTyped'
  <2>1. LookupTyped'
    BY <1>1, WalkKept
  <2>2. QED
    BY <1>1, <1>2, <2>1 DEF SetupInv, SetupTyped, Scratch
<1>4. MemoryInv' /\ ConfigInv'
  BY <1>1, <1>2, RestedStep
<1>5. WalkInv'
  BY <1>1, WalkKept
<1>6. WalletsKept'
  <2>1. script.wallet = NoWallet
    BY <1>1 DEF SetupInv, MemoryInv
  <2>2. QED
    BY <1>1, <1>2, <2>1, MintKeepsWallets
<1>7. QED
  BY <1>3, <1>4, <1>5, <1>6 DEF SetupInv

LEMMA AskFaucetStep == ASSUME SetupInv, AskFaucet PROVE SetupInv'
<1>1. /\ script.name = "wallets" /\ script.at = "role" /\ Wanted(RoleNow)
      /\ UNCHANGED <<holder, seed, nft, lookup>>
      /\ script \in Scratch /\ wallets \in Nat /\ losses \in Nat
      /\ script.wallet = NoWallet
  BY DEF AskFaucet, Running, Ledger, Env, SetupInv, SetupTyped, MemoryInv, Scratch
<1>2. WalkInv' /\ LookupTyped'
  BY <1>1, WalkKept
<1>3. CASE /\ wallets' = wallets + 1
           /\ script' = [script EXCEPT !.at = "write", !.wallet = wallets']
           /\ UNCHANGED losses
  <2>1. /\ script' \in Scratch /\ script'.name = "wallets" /\ script'.at = "write"
        /\ script'.wallet = wallets + 1 /\ script'.force = script.force
        /\ script'.role = script.role
    <3>1. wallets + 1 \in Nat /\ script' = [script EXCEPT !.at = "write", !.wallet = wallets + 1]
      BY <1>1, <1>3
    <3>2. QED
      BY <1>1, <3>1 DEF Scratch
  <2>2. SetupTyped'
    BY <1>1, <1>2, <1>3, <2>1 DEF SetupInv, SetupTyped, Scratch
  <2>3. MemoryInv'
    BY <1>1, <2>1 DEF MemoryInv, Wanted, RoleNow
  <2>4. ConfigInv'
    BY <1>1, <2>1 DEF SetupInv, ConfigInv
  <2>5. Homeless' \subseteq Homeless
    <3>1. wallets' = wallets + 1 /\ script'.wallet = wallets + 1 /\ seed' = seed
      BY <1>1, <1>3, <2>1
    <3>2. script.wallet \notin 1..wallets
      BY <1>1 DEF NoWallet
    <3>3. QED
      BY <1>1, <3>1, <3>2 DEF Homeless
  <2>6. WalletsKept'
    BY <1>1, <1>3, <2>5, LossStep DEF SetupInv
  <2>7. QED
    BY <1>2, <2>2, <2>3, <2>4, <2>6 DEF SetupInv
<1>4. CASE /\ script' = IF script.tries = 2 THEN NoScript
                        ELSE [script EXCEPT !.tries = @ + 1]
           /\ \/ UNCHANGED <<wallets, losses>>
              \/ /\ wallets < MaxWallets /\ wallets' = wallets + 1
                 /\ losses' = losses + 1
  <2>1. /\ script' \in Scratch /\ script'.wallet = NoWallet
        /\ script' = NoScript \/ (script'.name = "wallets" /\ script'.at = "role")
    <3>1. CASE script' = NoScript
      <4>1. NoScript.wallet = NoWallet
        BY DEF NoScript
      <4>2. QED
        BY <3>1, <4>1, NoScriptTyped
    <3>2. CASE script' = [script EXCEPT !.tries = @ + 1]
      <4>1. script' \in Scratch
        <5> DEFINE more == script.tries + 1
        <5>1. more \in Nat /\ script' = [script EXCEPT !.tries = more]
          <6>1. script.tries \in Nat
            BY <1>1 DEF Scratch
          <6>2. more \in Nat
            BY <6>1
          <6>3. script' = [script EXCEPT !.tries = more]
            BY <3>2
          <6>4. QED
            BY <6>2, <6>3
        <5> HIDE DEF more
        <5>2. QED
          BY <1>1, <5>1 DEF Scratch
      <4>2. /\ script'.wallet = script.wallet /\ script'.name = script.name
            /\ script'.at = script.at
        BY <1>1, <3>2 DEF Scratch
      <4>3. QED
        BY <1>1, <4>1, <4>2
    <3>3. QED
      BY <1>4, <3>1, <3>2
  <2>2. SetupTyped'
    <3>1. wallets' \in Nat /\ losses' \in Nat
      BY <1>1, <1>4
    <3>2. QED
      BY <1>1, <1>2, <2>1, <3>1 DEF SetupInv, SetupTyped, Scratch
  <2>3. MemoryInv' /\ ConfigInv'
    BY <1>1, <2>1, RestedStep
  <2>4. CASE UNCHANGED <<wallets, losses>>
    BY <1>1, <1>2, <2>1, <2>2, <2>3, <2>4, MintKeepsWallets DEF SetupInv
  <2>5. CASE wallets' = wallets + 1 /\ losses' = losses + 1
    <3>1. Homeless' \subseteq Homeless \union {wallets + 1}
      BY <1>1, <2>1, <2>5 DEF Homeless
    <3>2. losses' \in Nat /\ losses' > losses
      BY <1>1, <2>5
    <3>3. WalletsKept'
      BY <1>1, <3>1, <3>2, LossStep DEF SetupInv
    <3>4. QED
      BY <1>2, <2>2, <2>3, <3>3 DEF SetupInv
  <2>6. QED
    BY <1>4, <2>4, <2>5
<1>5. QED
  BY <1>3, <1>4 DEF AskFaucet

LEMMA WriteSeedStep == ASSUME SetupInv, WriteSeed PROVE SetupInv'
<1>1. /\ script.name = "wallets" /\ script.at = "write" /\ NextRole
      /\ seed' = [seed EXCEPT ![RoleNow] = script.wallet]
      /\ losses' = IF script.force /\ seed[RoleNow] \notin Useless THEN losses + 1 ELSE losses
      /\ UNCHANGED <<wallets, holder, nft, lookup>>
  BY DEF WriteSeed, Running, Ledger, SetupInv, MemoryInv
<1>2. /\ script \in Scratch /\ wallets \in Nat /\ losses \in Nat
      /\ seed \in [RoleSet -> Nat \union {BadSeed}] /\ RoleNow \in RoleSet
  BY RolesKnown DEF SetupInv, SetupTyped, Scratch, RoleNow
<1>3. /\ script' \in Scratch /\ script'.wallet = NoWallet
      /\ script' = NoScript \/ (script'.name = "wallets" /\ script'.at = "role")
  BY <1>1, NextRoleStep DEF Scratch
<1>4. WalkInv' /\ LookupTyped'
  BY <1>1, WalkKept
<1>5. SetupTyped'
  <2>1. losses' \in Nat /\ script.wallet \in Nat
    <3>1. losses' = losses \/ losses' = losses + 1
      BY <1>1
    <3>2. losses' \in Nat
      BY <1>2, <3>1
    <3>3. script.wallet \in Nat
      BY <1>2 DEF Scratch
    <3>4. QED
      BY <3>2, <3>3
  <2>2. seed' \in [RoleSet -> Nat \union {BadSeed}]
    BY <1>1, <1>2, <2>1
  <2>3. QED
    BY <1>1, <1>2, <1>3, <1>4, <2>1, <2>2 DEF SetupInv, SetupTyped, Scratch
<1>6. MemoryInv' /\ ConfigInv'
  BY <1>1, <1>3, RestedStep
<1>7. WalletsKept'
  <2>1. Homeless' \subseteq Homeless \union {seed[RoleNow]}
    BY <1>1, <1>2, <1>3 DEF Homeless
  <2>2. CASE seed[RoleNow] \in Useless
    <3>1. seed[RoleNow] \notin Homeless' /\ losses' = losses
      BY <1>1, <1>2, <2>2 DEF Homeless, NoWallet, BadSeed, Useless
    <3>2. QED
      BY <1>2, <2>1, <2>2, <3>1, LossStep DEF SetupInv
  <2>3. CASE seed[RoleNow] \notin Useless
    <3>1. script.force
      BY <1>1, <2>3 DEF SetupInv, MemoryInv
    <3>2. losses' \in Nat /\ losses' > losses
      BY <1>1, <1>2, <2>3, <3>1
    <3>3. QED
      BY <1>2, <2>1, <3>2, LossStep DEF SetupInv
  <2>4. QED
    BY <2>2, <2>3
<1>8. QED
  BY <1>4, <1>5, <1>6, <1>7 DEF SetupInv

LEMMA MintStep == ASSUME SetupInv, Mint PROVE SetupInv'
<1>1. PICK i \in Ids :
        /\ holder[i] = NoWallet /\ holder' = [holder EXCEPT ![i] = script.wallet]
        /\ \/ script' = [script EXCEPT !.at = "write id", !.id = i]
           \/ script' = NoScript
  BY DEF Mint
<1>2. /\ script.name = "mint" /\ script.at = "role"
      /\ UNCHANGED <<wallets, seed, nft, lookup, losses>>
      /\ script \in Scratch /\ holder \in [Ids -> Nat]
      /\ script.wallet = seed[ModelOwner] /\ script.wallet # NoWallet
  BY DEF Mint, Running, Env, SetupInv, SetupTyped, MemoryInv, Scratch
<1>3. /\ \A j \in Ids : holder[j] # NoWallet => holder'[j] = holder[j]
      /\ holder' \in [Ids -> Nat] /\ holder'[i] = script.wallet
  BY <1>1, <1>2 DEF Scratch
<1>4. WalkInv' /\ LookupTyped'
  BY <1>2, <1>3, WalkKept
<1>5. \/ script' = NoScript
      \/ /\ script' \in Scratch /\ script'.name = "mint" /\ script'.at = "write id"
         /\ script'.wallet = script.wallet /\ script'.id = i
  BY <1>1, <1>2 DEF Scratch
<1>6. SetupTyped'
  BY <1>2, <1>3, <1>4, <1>5, NoScriptTyped DEF SetupInv, SetupTyped, Scratch
<1>7. NoScript.at = "end" /\ NoScript.name = "none" /\ NoScript.wallet = NoWallet
  BY DEF NoScript
<1>8. MemoryInv'
  BY <1>2, <1>5, <1>7 DEF MemoryInv
<1>9. ConfigInv'
  <2>1. nft'.id # NoId => nft'.id \in Ids /\ holder'[nft'.id] # NoWallet
    BY <1>2, <1>3 DEF SetupInv, ConfigInv
  <2>2. QED
    BY <1>1, <1>2, <1>3, <1>5, <1>7, <2>1 DEF ConfigInv
<1>10. WalletsKept'
  BY <1>2, <1>5, <1>7, MintKeepsWallets
<1>11. QED
  BY <1>4, <1>6, <1>8, <1>9, <1>10 DEF SetupInv

LEMMA WriteIdStep == ASSUME SetupInv, WriteId PROVE SetupInv'
<1>1. /\ script.name = "mint" /\ script.at = "write id" 
      /\ nft' = [nft EXCEPT !.id = script.id] /\ script' = [script EXCEPT !.at = "write owner"]
      /\ UNCHANGED <<wallets, holder, seed, lookup, losses>>
      /\ script \in Scratch /\ nft \in [id : Ids \union {NoId}, owner : Nat]
  BY DEF WriteId, Running, Ledger, SetupInv, SetupTyped, Scratch
<1>2. WalkInv' /\ LookupTyped'
  BY <1>1, WalkKept
<1>3. /\ script' \in Scratch /\ script'.name = "mint" /\ script'.at = "write owner"
      /\ script'.wallet = script.wallet /\ script'.id = script.id
  BY <1>1 DEF Scratch
<1>4. nft' \in [id : Ids \union {NoId}, owner : Nat] /\ nft'.id = script.id
  BY <1>1 DEF Scratch
<1>5. SetupTyped'
  BY <1>1, <1>2, <1>3, <1>4 DEF SetupInv, SetupTyped, Scratch
<1>6. MemoryInv'
  BY <1>1, <1>3 DEF SetupInv, MemoryInv
<1>7. ConfigInv'
  BY <1>1, <1>3, <1>4 DEF SetupInv, ConfigInv
<1>8. WalletsKept'
  BY <1>1, <1>3, MintKeepsWallets
<1>9. QED
  BY <1>2, <1>5, <1>6, <1>7, <1>8 DEF SetupInv

LEMMA WriteOwnerStep == ASSUME SetupInv, WriteOwner PROVE SetupInv'
<1>1. /\ script.name = "mint" /\ script.at = "write owner" 
      /\ nft' = [nft EXCEPT !.owner = script.wallet] /\ script' = NoScript
      /\ UNCHANGED <<wallets, holder, seed, lookup, losses>>
      /\ script \in Scratch /\ nft \in [id : Ids \union {NoId}, owner : Nat]
  BY DEF WriteOwner, Running, Ledger, SetupInv, SetupTyped, Scratch
<1>2. WalkInv' /\ LookupTyped'
  BY <1>1, WalkKept
<1>3. /\ nft' \in [id : Ids \union {NoId}, owner : Nat]
      /\ nft'.id = nft.id /\ nft'.owner = script.wallet
  BY <1>1 DEF Scratch
<1>4. SetupTyped'
  BY <1>1, <1>2, <1>3, NoScriptTyped DEF SetupInv, SetupTyped, Scratch
<1>5. NoScript.at = "end" /\ NoScript.name = "none" /\ NoScript.wallet = NoWallet
  BY DEF NoScript
<1>6. MemoryInv'
  BY <1>1, <1>5 DEF MemoryInv
<1>7. ConfigInv'
  BY <1>1, <1>3, <1>5 DEF SetupInv, ConfigInv
<1>8. WalletsKept'
  BY <1>1, <1>5, MintKeepsWallets
<1>9. QED
  BY <1>2, <1>4, <1>6, <1>7, <1>8 DEF SetupInv

LEMMA DieStep == ASSUME SetupInv, Die PROVE SetupInv'
<1>1. /\ script' = NoScript /\ script.name # "none"
      /\ losses' = IF Running("wallets", "write") THEN losses + 1 ELSE losses
      /\ UNCHANGED <<wallets, holder, seed, nft, lookup>>
      /\ script \in Scratch /\ losses \in Nat /\ wallets \in Nat
  BY DEF Die, Ledger, Env, SetupInv, SetupTyped, MemoryInv, Scratch
<1>2. WalkInv' /\ LookupTyped'
  BY <1>1, WalkKept
<1>3. SetupTyped'
  <2>1. losses' \in Nat
    BY <1>1
  <2>2. QED
    BY <1>1, <1>2, <2>1, NoScriptTyped DEF SetupInv, SetupTyped, Scratch
<1>4. NoScript.at = "end" /\ NoScript.name = "none" /\ NoScript.wallet = NoWallet
  BY DEF NoScript
<1>5. MemoryInv' /\ ConfigInv'
  BY <1>1, <1>4, RestedStep
<1>6. WalletsKept'
  <2>1. CASE script.name = "mint"
    BY <1>1, <1>4, <2>1, MintKeepsWallets DEF Running
  <2>2. CASE script.name = "wallets" /\ script.at = "role"
    <3>1. script.wallet = NoWallet /\ losses' = losses
      BY <1>1, <2>2 DEF Running, SetupInv, MemoryInv
    <3>2. QED
      BY <1>1, <1>4, <3>1, MintKeepsWallets
  <2>3. CASE script.name = "wallets" /\ script.at = "write"
    <3>1. Homeless' \subseteq Homeless \union {script.wallet}
      BY <1>1 DEF Homeless
    <3>2. losses' \in Nat /\ losses' > losses
      BY <1>1, <2>3 DEF Running
    <3>3. QED
      BY <1>1, <3>1, <3>2, LossStep DEF SetupInv
  <2>4. QED
    BY <1>1, <2>1, <2>2, <2>3 DEF SetupInv, MemoryInv, Scratch
<1>7. QED
  BY <1>2, <1>3, <1>5, <1>6 DEF SetupInv

\* A look-up moves nothing else.
LEMMA LookupStep ==
    ASSUME SetupInv, UNCHANGED <<wallets, holder, seed, nft, script, losses>>,
           LookupTyped', WalkInv'
    PROVE  SetupInv'
<1>1. SetupTyped'
  BY DEF SetupInv, SetupTyped
<1>2. MemoryInv' /\ ConfigInv'
  BY DEF SetupInv, MemoryInv, ConfigInv, RoleNow
<1>3. WalletsKept'
  BY DEF SetupInv, WalletsKept
<1>4. QED
  BY <1>1, <1>2, <1>3 DEF SetupInv

LEMMA IdsPositive == \A i \in Ids : i \in Nat /\ i > 0
<1>1. Ids \subseteq Nat \ {0}
  BY SetupAssumption
<1>2. QED
  BY <1>1

\* A look-up that moves is sound if it is of its type and what it says is true.
LEMMA OneLookupStep ==
    ASSUME SetupInv, UNCHANGED <<wallets, holder, seed, nft, script, losses>>,
           NEW l \in Lookups, NEW M, NEW new \in LookupDocs(M),
           lookup' = [lookup EXCEPT ![l] = new],
           new.at # "asleep", new.id \in Ids, holder[new.id] # NoWallet,
           new.at = "walk" /\ holder[new.id] = new.owner =>
             new.marker \in Nat /\ new.id > new.marker,
           new.at = "held" => holder[new.id] = new.owner,
           new.at = "denied" /\ ~ new.failed => holder[new.id] # new.owner
    PROVE  SetupInv'
<1>1. PICK N : lookup \in [Lookups -> LookupDocs(N)]
  BY DEF SetupInv, SetupTyped, LookupTyped
<1>2. \A k \in Lookups : lookup'[k] = IF k = l THEN new ELSE lookup[k]
  BY <1>1
<1>3. LookupTyped'
  <2>1. new \in LookupDocs(M \union N) /\ lookup \in [Lookups -> LookupDocs(M \union N)]
    BY <1>1 DEF LookupDocs
  <2>2. lookup' \in [Lookups -> LookupDocs(M \union N)]
    BY <2>1
  <2>3. QED
    BY <2>2 DEF LookupTyped, LookupDocs
<1>4. WalkInv'
  BY <1>2 DEF SetupInv, WalkInv
<1>5. QED
  BY <1>3, <1>4, LookupStep

LEMMA ReadConfigStep == ASSUME SetupInv, NEW l \in Lookups, ReadConfig(l) PROVE SetupInv'
<1> DEFINE new == [Asleep EXCEPT !.at = "ready", !.id = nft.id, !.owner = nft.owner]
<1>1. /\ lookup' = [lookup EXCEPT ![l] = new] /\ nft.id # NoId
      /\ UNCHANGED <<wallets, holder, seed, nft, script, losses>>
  BY DEF ReadConfig, Ledger, Env
<1>2. /\ new \in LookupDocs({0}) /\ new.at = "ready" /\ new.id = nft.id
  BY DEF LookupDocs, Asleep, SetupInv, SetupTyped
<1>3. nft.id \in Ids /\ holder[nft.id] # NoWallet
  BY <1>1 DEF SetupInv, ConfigInv
<1> HIDE DEF new
<1>4. QED
  BY <1>1, <1>2, <1>3, OneLookupStep

\* The steps of a look-up that has a configuration.
LEMMA ConfiguredStep ==
    ASSUME SetupInv, UNCHANGED <<wallets, holder, seed, nft, script, losses>>,
           NEW l \in Lookups, lookup[l].at # "asleep", NEW mark, NEW fail \in BOOLEAN,
           NEW at \in {"ready", "walk", "held", "denied", "raised"},
           lookup' = [lookup EXCEPT ![l].at = at, ![l].marker = mark, ![l].failed = fail],
           at = "walk" /\ holder[lookup[l].id] = lookup[l].owner =>
             mark \in Nat /\ lookup[l].id > mark,
           at = "held" => holder[lookup[l].id] = lookup[l].owner,
           at = "denied" /\ ~ fail => holder[lookup[l].id] # lookup[l].owner
    PROVE  SetupInv'
<1>1. PICK M : lookup \in [Lookups -> LookupDocs(M)]
  BY DEF SetupInv, SetupTyped, LookupTyped
<1> DEFINE new == [lookup[l] EXCEPT !.at = at, !.marker = mark, !.failed = fail]
<1>2. /\ new \in LookupDocs(M \union {mark}) /\ new.at = at /\ new.marker = mark
      /\ new.failed = fail /\ new.id = lookup[l].id /\ new.owner = lookup[l].owner
  BY <1>1 DEF LookupDocs
<1>3. lookup' = [lookup EXCEPT ![l] = new]
  BY <1>1
<1>4. lookup[l].id \in Ids /\ holder[lookup[l].id] # NoWallet
  BY DEF SetupInv, WalkInv
<1> HIDE DEF new
<1>5. /\ new.at # "asleep" /\ new.id \in Ids /\ holder[new.id] # NoWallet
      /\ new.at = "walk" /\ holder[new.id] = new.owner =>
           new.marker \in Nat /\ new.id > new.marker
      /\ new.at = "held" => holder[new.id] = new.owner
      /\ new.at = "denied" /\ ~ new.failed => holder[new.id] # new.owner
  BY <1>2, <1>4
<1> DEFINE N == M \union {mark}
<1> HIDE DEF N
<1>6. new \in LookupDocs(N)
  BY <1>2 DEF N
<1>7. QED
  BY <1>3, <1>5, <1>6, OneLookupStep

LEMMA BeginStep == ASSUME SetupInv, NEW l \in Lookups, Begin(l) PROVE SetupInv'
<1>1. /\ lookup' = [lookup EXCEPT ![l].at = "walk", ![l].marker = 0, ![l].failed = FALSE]
      /\ lookup[l].at # "asleep"
      /\ UNCHANGED <<wallets, holder, seed, nft, script, losses>>
  BY DEF Begin, Ledger, Env
<1>2. lookup[l].id > 0
  BY <1>1, IdsPositive DEF SetupInv, WalkInv
<1>3. QED
  BY <1>1, <1>2, ConfiguredStep

LEMMA PageFailsStep == ASSUME SetupInv, NEW l \in Lookups, PageFails(l) PROVE SetupInv'
<1>1. PICK out \in {"denied", "raised"} :
        lookup' = [lookup EXCEPT ![l].at = out, ![l].failed = TRUE]
  BY DEF PageFails
<1>2. /\ lookup[l].at # "asleep"
      /\ UNCHANGED <<wallets, holder, seed, nft, script, losses>>
  BY DEF PageFails, Ledger, Env
<1>3. PICK M : lookup \in [Lookups -> LookupDocs(M)]
  BY DEF SetupInv, SetupTyped, LookupTyped
<1>4. lookup' = [lookup EXCEPT ![l].at = out, ![l].marker = lookup[l].marker,
                               ![l].failed = TRUE]
  BY <1>1, <1>3 DEF LookupDocs
<1>5. QED
  BY <1>2, <1>4, ConfiguredStep

\* The same, of a step that leaves the history of failures.
LEMMA Changes ==
    ASSUME SetupInv, UNCHANGED <<wallets, holder, seed, nft, script, losses>>,
           NEW l \in Lookups, lookup[l].at # "asleep", NEW mark,
           NEW at \in {"walk", "held", "denied"},
           lookup' = [lookup EXCEPT ![l].at = at, ![l].marker = mark],
           at = "walk" /\ holder[lookup[l].id] = lookup[l].owner =>
             mark \in Nat /\ lookup[l].id > mark,
           at = "held" => holder[lookup[l].id] = lookup[l].owner,
           at = "denied" => holder[lookup[l].id] # lookup[l].owner
    PROVE  SetupInv'
<1>1. PICK M : lookup \in [Lookups -> LookupDocs(M)]
  BY DEF SetupInv, SetupTyped, LookupTyped
<1>2. /\ lookup[l].failed \in BOOLEAN
      /\ lookup' = [lookup EXCEPT ![l].at = at, ![l].marker = mark,
                                  ![l].failed = lookup[l].failed]
  BY <1>1 DEF LookupDocs
<1>3. QED
  BY <1>2, ConfiguredStep

LEMMA WalkPageStep == ASSUME SetupInv, NEW l \in Lookups, WalkPage(l) PROVE SetupInv'
<1> DEFINE greatest == CHOOSE i \in Page(l) : \A j \in Page(l) : j <= i
           mark == IF PageTells(l) # "walk" THEN lookup[l].marker ELSE greatest
           id == lookup[l].id
           owner == lookup[l].owner
<1>1. /\ lookup[l].at = "walk"
      /\ lookup' = [lookup EXCEPT ![l].at = PageTells(l), ![l].marker = mark]
      /\ UNCHANGED <<wallets, holder, seed, nft, script, losses>>
  <2>1. PICK M : lookup \in [Lookups -> LookupDocs(M)]
    BY DEF SetupInv, SetupTyped, LookupTyped
  <2>2. QED
    BY <2>1 DEF WalkPage, Ledger, Env, LookupDocs
<1> HIDE DEF greatest
<1>2. id \in Ids
  BY <1>1 DEF SetupInv, WalkInv
<1>3. id \in Page(l) => holder[id] = owner
  BY DEF Page, Rest
<1>4. CASE holder[id] = owner
  <2>1. lookup[l].marker \in Nat /\ id > lookup[l].marker
    BY <1>1, <1>4 DEF SetupInv, WalkInv
  <2>2. id \in Rest(l)
    BY <1>2, <1>4, <2>1 DEF Rest
  <2>3. CASE id \in Page(l)
    <3>1. PageTells(l) = "held"
      BY <2>3 DEF PageTells
    <3>2. QED
      BY <1>1, <1>4, <3>1, Changes
  <2>4. CASE id \notin Page(l)
    <3>1. ~ LastPage(l) /\ greatest \in Nat /\ greatest < id
      BY <2>1, <2>2, <2>4, PageAndMarker DEF greatest
    <3>2. PageTells(l) = "walk"
      BY <2>4, <3>1 DEF PageTells
    <3>3. QED
      BY <1>1, <1>2, <3>1, <3>2, IdsPositive, Changes
  <2>5. QED
    BY <2>3, <2>4
<1>5. CASE holder[id] # owner
  <2>1. PageTells(l) \in {"walk", "denied"}
    BY <1>3, <1>5 DEF PageTells
  <2>2. QED
    BY <1>1, <1>5, <2>1, Changes
<1>6. QED
  BY <1>4, <1>5

LEMMA SetupStep == SetupInv /\ [SetupNext]_setupVars => SetupInv'
<1> SUFFICES ASSUME SetupInv, [SetupNext]_setupVars PROVE SetupInv'
  OBVIOUS
<1>1. CASE Scripts
  BY <1>1, StartStep, KeepWalletStep, AskFaucetStep, WriteSeedStep, MintStep, WriteIdStep,
     WriteOwnerStep, DieStep DEF Scripts
<1>2. CASE \E l \in Lookups : LookUp(l)
  BY <1>2, ReadConfigStep, BeginStep, WalkPageStep, PageFailsStep DEF LookUp
<1>3. CASE UNCHANGED setupVars
  <2>1. UNCHANGED <<wallets, holder, seed, nft, script, lookup, losses>>
    BY <1>3 DEF setupVars
  <2>2. WalkInv' /\ LookupTyped'
    BY <2>1, WalkKept
  <2>3. QED
    BY <2>1, <2>2, LookupStep
<1>4. QED
  BY <1>1, <1>2, <1>3 DEF SetupNext

LEMMA SetupInvariant == SetupSpec => []SetupInv
BY InitSetup, SetupStep, PTL DEF SetupSpec

\* A look-up finds the NFT exactly if the owner that it is configured with holds it,
\* unless a request fails: however many pages the owner's NFTs fill, and whatever
\* is minted before and behind the marker meanwhile.
THEOREM LookupTellsTruthCorrect == SetupSpec => []LookupTellsTruth
<1>1. SetupInv => LookupTellsTruth
  BY DEF SetupInv, WalkInv, LookupTellsTruth
<1>2. QED
  BY <1>1, SetupInvariant, PTL

\* The wallets that are neither in .env nor in memory are not more than the
\* failed attempts, deaths and forced replacements, over any number of runs.
THEOREM WalletsKeptCorrect == SetupSpec => []WalletsKept
<1>1. SetupInv => WalletsKept
  BY DEF SetupInv
<1>2. QED
  BY <1>1, SetupInvariant, PTL
===============================================================================
