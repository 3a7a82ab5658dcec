# AgentLevy inference service: a TLA+ model

An agent buys a completion from an inference server. The server answers `402`
with a price and a *request address* (the hash of model, prompt, temperature
and hour); the agent pays on the XRP Ledger with that address in a memo; the
server verifies the payment, answers from its memo of completions or runs the
model, and pays a royalty to the owner of the model NFT. Around it are a
dashboard that shows and starts demo batches, clients of two other services,
scripts that set the demo up, and signed documents that can be anchored. This
directory specifies all that in TLA+: what the components do, what they
promise, runs of TLC on small instances, and proofs that TLAPS checks for every
instance.

Paths below are relative to `src/agentlevy/inference/`, and those of scripts and of
`README.md` to `src/scripts/` and `src/`.

## 1. The system

| component | source | state | operations |
|---|---|---|---|
| Completion handler | `server.py` | one frame per call, event log, royalty threads | `handle_complete`, `_run_inference`, `_dispatch_royalty_best_effort`, `_do_royalty`, `_render_completion` |
| Cert store | `cert_store.py` | address → entry with `hit_count`, in memory | `get`, `put`, `has`, `peek`, `clear` |
| Payment | `payment.py` | none; reads and writes the ledger | `pay_rlusd`, `verify_rlusd_payment`, `parse_uor_memo` |
| Royalty | `royalty.py` | none | `compute_split`, `dispatch_royalty` |
| Paying agent | `agent.py` | where it is in `complete()`, its transaction | quote, pay, retry |
| Request addressing | `canonical.py` | none, but it reads the clock | `hour_bucket_for`, `compute_request_address` |
| Receipt | `receipt.py` | certificate objects, their settlement metadata | `build_inference_cert`, `attach_settlement_metadata` |
| Mirror file | `server.py`, `mcp_server.py` | two paths on disk | `_dump_mirror`, `load_cert`, `inference_status` |
| Event feed | `dashboard.py`, `static/dashboard.js` | event log, polls in flight, `lastSeq`, timers | `push`, `build_state`, `primeSeqAndStart`, `pollOnce`, `onState` |
| Balance cache | `dashboard.py` | wallet → balances and the time of fetching | `get`, `_fetch`, `_attach_balances` |
| Demo batch guard | `dashboard.py` | one flag under a lock, one thread | `demo_run`, `_run_batch` |
| Demo runner | `scripts/run_inference_demo.py` | none shared with the dashboard | `main`, `run_agent` |
| UOR MCP client | `mcp_client.py`, `server.py` | HTTP connection, session id | `open`, `close`, `_post_tool`, the fetch of a receipt |
| Model NFT lookup | `nft.py` | a configuration read from `.env` as the process starts; reads the ledger page by page | `from_env`, `verify_owner_holds_nft` |
| Setup scripts | `scripts/` | `.env`, the ledger | wallets, mint; trust lines, migration |
| Wallets, configuration | `wallets.py` | keychain | lookups |
| Signed primitives | `agentlevy/primitives/` | `TaskSpec`, `DerivationCert` as mutable objects | assign, sign, verify, anchor |
| Hedera anchor | `agentlevy/hedera_layer/` | a topic; a mirror node behind it | `submit_anchor`, `verify_anchor` |
| LLM client and cache | `agentlevy/llm/` | recorded answers, one file per request | `complete_structured`, `get`, `put` |
| PRISM triad | `agentlevy/prism_layer/` | none | wrapper of vendored code |

How they interact:

* FastAPI runs the synchronous handler in a thread pool. Handlers share the
  cert store, the certificate *objects* in it, the event log and the mirror
  path. Only single operations of store and log are locked.
* A served call starts a daemon thread for its royalty, which outlives the
  call and dies with the process.
* Agent and server meet over HTTP and over the ledger, not otherwise. The server
  keeps nothing between the quote and the retry.
* The MCP server is another process. It sees the mirror file only.
* The dashboard polls the server on a timer without waiting for answers. Its
  `/api/state` handlers share the balance cache, and ask the ledger outside the
  cache's lock.
* `/demo/run` starts a thread whose two agents call the same server over HTTP.
  The command line runner does the same from another process: the flag of the
  dashboard does not see it, nor a handler whose agent has timed out.
* A handler opens an MCP session of its own for each receipt, and goes on
  without one. The receipt is an embellishment of the answer.
* The setup scripts write `.env`; a process reads it once, as it starts. The server
  pays royalties to the owner that was written there then: it looks the recipient up
  with `verify_live=False` (server.py:482-485). Who passes `verify_live=True` walks the
  pages of the owner's NFTs, while the ledger changes.
* Recording and replaying processes share nothing but the files of `LLMCache`.

What is hard here: interleavings around one early look at the store (`is_hit`,
server.py:261) that prices, verifies and routes the call; two handlers that run the
model for one address; an address that depends on the clock; restarts that empty the
store while payments stay on the ledger; payments and royalties that raise although
they were applied; one temporary file for all writers; answers of polls that
overtake each other; balances fetched by two threads and written back in the other
order; a batch that raises, or runs beside a runner that no flag stops; a client
that half opened; `.env` between two writes; files written in place; objects that
change after they were signed. The hazards are listed one by one, each at its line,
in `PROJECT.json`.

What makes each component correct:

* handler: whatever is served or stored is backed by a transaction that names the
  right price and is bound to its own address; all answers for an address agree;
* store: no overwriting, no lost hit, whoever else holds its objects;
* payment and royalty: a royalty is for a call whose payment names at least twice as
  much, no call pays it twice, and it never comes back as a payment;
* agent: a paid quote is honoured, and a completion is settled as quoted;
* mirror: a reader never finds half a document;
* event feed: no event is animated twice, and every one is animated while its server
  process lives and no answer of the former process is on its way;
* balance cache: no balance older than its TTL and one time-out, and the final
  ones in the end;
* demo batch: one at a time, the flag freed by every batch that was started, the
  model paid for once per hour, metrics that fit the payments;
* MCP client: tools are called in confirmed sessions, and a fetch always ends;
* LLM cache: a replay is what the model said to this request;
* signed documents: signatures and receipts confirm the present content;
* setup and look-up: no wallet is lost but where the docs say so, and a look-up
  whose requests succeed tells whether its owner holds its NFT.

## 2. Modules

| module | models | kind |
|---|---|---|
| `Payment` | `payment.py`, `royalty.py`, prices | operators |
| `CertStore` | `cert_store.py` | state machine, instantiated by `InferenceServer` |
| `CompletionMemo` | what the service promises its clients | abstract specification |
| `InferenceServer` | `server.py` with ledger, clock and restarts | state machine |
| `PaidInference` | `agent.py`, composed with `InferenceServer` | composition |
| `MirrorDump` | `_dump_mirror` and its reader | state machine |
| `EventFeed` | event log, `/api/state`, `dashboard.js` | state machine |
| `BalanceCache` | the dashboard's balances, its readers, the ledger | state machine |
| `DemoBatch` | `/demo/run`, the command line runner, what their calls do to memo and metrics | state machine |
| `McpSession` | `mcp_client.py` and the handler that uses it | state machine |
| `LlmReplay` | `llm/client.py`, `llm/cache.py` | state machine |
| `WorkCert` | `TaskSpec`, `DerivationCert`, the Hedera topic | state machine |
| `DemoSetup` | scripts that fund wallets and mint the NFT, `nft.py` beside them | state machine |
| `MC*` | instances for TLC | |
| `InferenceServerProofs` | invariants of `InferenceServer`, its refinement of `CompletionMemo` | proofs |
| `PaymentProofs` | what the server pays out; the agents, on top of the server's invariants | proofs |
| `ClientProofs` | `McpSession` and `LlmReplay` | proofs |
| `WalletProofs` | `BalanceCache` and `DemoSetup` | proofs |
| `MirrorDumpProofs`, `EventFeedProofs`, `DemoBatchProofs`, `WorkCertProofs` | the module of the same name | proofs |

**InferenceServer.** `call[c]` is the frame of one run of `handle_complete`: its
position, request address, presented transaction, `is_hit`, completion,
certificate, and the process (`epoch`) it runs in. Each access to shared state
is an action of its own, in the order of the code: `Receive` (258, reads the
clock), `Peek` (261), `Quote` or `AcceptPayment`/`RejectPayment`/`LookupFails`,
then on a hit `ServeHit` (`get()`), `LogHit`, and on a miss `RunInference`,
`MintCert`, `AnchorCert`/`AnchorFails`, `StoreCert` or `AdoptExisting` (the
`ValueError` of `put`), `AttachMetadata`; then `DispatchRoyalty`, `Respond`. A
royalty thread has `RoyaltySkip`, `RoyaltySubmit`, `RoyaltyLog`, `RoyaltyFails`.
An address is the pair of request and hour. A certificate is an object, named by
the call that minted it; `meta` is the attribute that `AttachMetadata` stamps on
it, so aliasing between handlers and store is kept. `Restart` loses the store,
the frames, the threads and the log, and keeps the ledger and the topic.

**Payment.** A transaction is a record of what `verify_rlusd_payment` reads, and of
what it does not: `value` is the amount that the transaction names, `delivered` what
it moved. The two differ for a partial payment, and the verifier compares the first
(payment.py:430), so that is what the properties say: `Backs` is a successful payment
to the server, in the settlement asset, that *names* the price and is bound to the
address. Amounts count 0.0001 RLUSD, the quantum of `compute_split`. `XrpFallback` is
the mode in which both sides settle in XRP.

**PaidInference.** Each agent makes two of the server's calls, `<<a, "quote">>`
and `<<a, "paid">>`, and one payment. It may time out while the handler goes on,
and its payment may raise although it was applied.

**MirrorDump.** Files are inodes; `open(tmp, "w")` makes or empties one,
`os.replace` moves the name, and blocks reach the open file at the writer's own
offset. A document of n entries is n blocks that say n: anything else does not
parse. Failed writes leave the temporary file behind. A reader opens the mirror
and reads it later.

**EventFeed.** An event is its process and number. `build_state` copies the log
(`ReadEvents`) and reads `latest_seq` later (`ReadLatest`). The page primes
itself with one request and then polls on a timer; answers come in any order.
`setTimeout` at `idx * 700` ms is modelled by which timers can overtake which:
a timer set no later for a slot no later fires first; nothing else is ordered.
A restarted server numbers its events anew while the page keeps `lastSeq`: an answer
of the former process that comes late takes `lastSeq` past events of the new one,
which are then never shown. `EveryEventShown` speaks of the events of each process
apart, and excludes just this case (`Current`).

**BalanceCache.** A wallet's balances are named by the number of payments that
have touched it. `get` is `GetCached` or `GetExpired` under the lock, then
`FetchXrp` and `FetchRlusd` without it, then `StoreBalance`, which overwrites
what is there. A failed request is an answer (`None`) and is cached like one.
Time passes in `Tick`s while frames wait; a frame lives no longer than `Timeout`.
`since` remembers when each balance ceased to be true.

**DemoBatch.** `run[r]` is a batch, of a POST or of the script, from the check of
its total over setting the flag, starting the thread (which may fail, outside the
`try`), quote, payment and answer of each call to the `finally` clause;
`handler[r]` is the server's side of its last paid call, which goes on if the
agent gives up. The server is reduced to what the one prompt of the demo can
tell apart: the hours in its memo and the sums of its log. `PaidInference` has
the calls in full. `raced` records that something ran beside a batch that no
flag keeps apart.

**McpSession.** A client is a connection and a session id, with its place in a
method. The Foundation's server opens sessions, knows which are confirmed, and
may forget one. Bodies are sequences of lines, of which `_parse_sse_response`
takes the first that is JSON. A handler enters its client with `with`, so that an
exception of `open` leaves it before `__exit__` can close it; users keep a client
and call its methods in any order. Handlers catch, users see the exception.

**LlmReplay.** A file is a sequence of blocks, opened with truncation and written
block by block at the writer's offset. `put` precedes validation, as in
`complete_structured`. Replay changes nothing and is the operator `Replayed`.

**WorkCert.** A content address is the content. `Renegotiate`, `Rework` and
`Refer` assign fields of objects that may be signed and anchored already.
`AnchorLive` may raise after its message was taken, and `AnchorRefused` is a receipt
that is not a success, which `_submit_live` returns like any other; the mirror node
shows a prefix of the topic; `VerifyAnchor` is the side effect of `verify_anchor`.

**DemoSetup.** `generate_wallet_with_retry` (three tries, an outcome that may be
unknown), `set_key`, the mint with its separate writes to `.env`, `--force`, and
the death of a script anywhere. A seed that is set may be invalid, and is replaced.
Beside them a process reads `.env` as it starts (`ReadConfig`), and each of its
`lookup_royalty_recipient` with `verify_live` (`Begin`) walks the pages of
`account_nfts`, which fail (`PageFails`) with the same error as an NFT that is gone.

Log texts, JSON layout, signatures and hashing are left out. SHA-256 and JCS are
taken as injective. The operators marked *Faulty* or *A mutant* are used by no
specification; each states a mistake one could make in the definition after it, and
shows that some property would notice.

## 3. What TLC checks

| run | instance | shows |
|---|---|---|
| `server_race` | 3 calls, 3 transactions, 2 texts, 1 address, 1 restart | `TypeOK`, `Agreement`, `HitCountExact`, `HitAfterMint`, `RoyaltyAtMostOnce`; refinement of `CompletionMemo` |
| `server_hours` | 2 calls, 2 transactions, 2 hours, 1 restart, anchoring; payments that failed, delivered a part, or have a wrong asset, destination or memo; the server's wallet owns the NFT | `ServedIsBound`, `StoreIsBound`, `HitIsServable`, `NoSelfFunding` |
| `server_liveness` | 2 calls, XRP mode, anchoring, 1 restart | `RoyaltyIsBacked`, `EveryCallEnds`, `EveryRoyaltyEnds` |
| `agents_pair` | 2 agents, 2 hours, 1 restart | `AgentTypeOK`, `QuoteHonoured`, `DoneIsSettled` |
| `mirror_overlap` | 2 dumpers, 2 entries, 1 crash, a reader | `TypeOK`, `WholeUntilOverlap`, `SoloDumpRepairs` |
| `feed` | 2 polls in flight, 2 events per process, 1 restart, 1 failure | `TypeOK`, `ShownOnce`, `HistoryNotReplayed`, `EveryEventShown` |
| `panel` | 2 readers, 1 wallet, TTL of 2 ticks, time-out of 1, 2 payments, 1 failure | `BalanceTypeOK`, `ServedIsRecent`, `PanelSettles` |
| `demo` | 2 POSTs, 1 script, totals below, in and above the range, 2 hours, 1 failure of a call, an agent or a thread | `OneBatch`, `MintedOnce`, `MetricsAddUp`, `GuardFreed` |
| `mcp` | 1 handler, 1 user, 3 sessions | `McpTypeOK`, `CallsInSession`, `EveryFetchEnds` |
| `replay` | 2 recorders, 1 prompt at 2 temperatures, 3 answers, 1 failure | `ReplayTypeOK`, `ReplayFaithful` |
| `certs` | 2 terms, 2 outputs, 2 messages, 2 edits | `SignatureExact`, `AnchorExact` |
| `setup` | 2 roles, 4 wallets, 3 NFTs on pages of 1, 5 script runs, 1 look-up | `LookupTellsTruth`, `WalletsKept` |

Bounds. A race needs two calls that miss; a third is a hit on what they left,
or a rival of both. Two hours are enough for a quote and a retry to fall apart,
and one restart for a frame, a thread or a payment to survive its process; later
ones repeat the first, since nothing but ledger and topic crosses a restart.
Three transactions are two payments and a royalty; two are enough where no royalty
is sent (`server_hours`) or for one call with its royalty. Two texts tell completions
apart. In the mirror, two overlapping dumps with different lengths mix in every
way that two writers can. In the feed, two events make a
batch, and two answers that overlap in one event and not in the other.
In the panel, two readers are what it takes to store an older answer over a newer
one, and a TTL above the time-out keeps entries alive while a frame is slow. Two
POSTs and a script are all pairs that the flag does and does not keep apart, and
a total of 2 makes a miss and a hit. In `mcp`, 3 sessions let a client open, lose
its session and open again. Two answers of two blocks mix in every way, a third
repairs what they left. Two edits are an edit and its undoing. In `setup`, 4
wallets and 5 runs are a first run, one with `--force`, a mint that dies, the
mint after it and one more; three pages put new NFTs before and behind a marker.
`Calls`, `TxIds`, `Texts`, `Agents`, `Dumpers` and `Files` are used up to
permutation, in runs without liveness only.

`CHECK_DEADLOCK FALSE` stands where the bounded system stops: all calls are
answered or over, and the clock, the crashes, the runs or the hash supply are
used up. `EventFeed`, `BalanceCache` and `WorkCert` always have a step and are
checked for deadlock.

Fairness. In `InferenceServer` the handler and the royalty thread of each call
are weakly fair: a thread that can go on does, because each external call has a
timeout and no lock is held while one is made. Nothing is assumed of clients,
ledger, clock or process. In `EventFeed` the server answers what it is asked and
timers fire; requests fail at most `MaxFails` times, so that nothing is assumed
of the network. `EveryEventShown` speaks of events beyond `lastSeq`, of a
process whose former one has no answer on its way.
In `BalanceCache` threads go on (their ledger client has time-outs), pages keep
polling for every wallet, and time passes; strong fairness of `Tick` and of the
polls, because a busy thread disables both again and again. Payments owe
nothing. In `DemoBatch` the server and the threads of batches go on; that a call
fails or an agent gives up is never assumed. In `McpSession` only the handlers'
own steps are weakly fair: each post is answered or times out (`httpx` has a
timeout). Users and the Foundation's sessions owe nothing.

### Disagreements between the documents and the code

Met while modelling. The models do what the code does, and the properties
state what is true of it.

| the text says | the code does |
|---|---|
| README.md:22, royalty.py:11: the royalty is atomic with the payment | a daemon thread pays it after the answer, or never |
| cert_store.py:130: provenance is not silently lost | the loser of a race stamps its own transaction on the winner's certificate (server.py:419) |
| payment.py:385: paying less than the price is not allowed | a successful partial payment may deliver less than it names: line 430 compares `DeliverMax` or `Amount`, and nothing reads `meta.delivered_amount` or `tfPartialPayment`; it unlocks a completion and a royalty |
| README.md:15: every inference request triggers one real transaction | a transaction stays valid for its address: any number of calls may present it (server.py:318), each is answered, and each pays a royalty |
| nft.py:5, 30: the server reads the NFT's owner from the ledger | it pays the owner that `.env` named when it started (server.py:482-485). `mint_model_nft.py` writes the id (167) before the owner (168): after a death in between the pair is torn, and nothing repairs it |
| nft.py:195: the NFT is not held by the owner | the same error ends a look-up of which one `account_nfts` request failed (133-139) |
| agent.py:10: the retry is answered 200 | the retry has a new address when the hour changed: 402, and the payment is kept |
| server.py:438: write-then-rename is atomic | all handlers share one temporary path |
| dashboard.js:548: priming skips pre-existing events | it skips up to a `latest_seq` that was read after the snapshot (dashboard.py:371) |
| dashboard.js:499: events are processed strictly in order | a batch is spread over time, the next poll's event is not |
| server.py:222: the receipt attests the address the server computed | the address in the answer is never compared with it |
| run_inference_demo.py:8: confirms that the wallets are funded | it does not look |
| check_inference_balances.py:105: ready for the demo | printed without regard to missing seeds (65) and to the lines of server and model owner |
| setup_rlusd_trust_lines.py:142: trust lines ready | printed whatever failed before |

Smaller ones, and cases that no text speaks of: `demo_run` sets its flag at
dashboard.py:448 and starts the thread that resets it at 473, so that no batch runs any
more if the start fails; after a restart of the server the page drops events up to the
old `lastSeq` (dashboard.js:505); `_submit_live` does not look at `receipt.status`
(anchor.py:191-203), so that a certificate may bear a receipt which confirms nothing;
server.py:27-41 describes the HCS anchor as a background path, line
388 waits for it; server.py:545 refers callers to `/cert/<addr>` for a final
royalty transaction that nothing sets; royalty.py:92 gives the rounding remainder
to the server, whose share is rounded down too; `max_tokens` is not part of the
request address; `open` of the MCP client returns without a handshake after an
`open` that failed (mcp_client.py:207), so that the calls that follow go out
without a session; run_inference_demo.py:84 takes any server's `/health`
for its own; migrate_seeds_to_keychain.py:119 derives with the default algorithm,
`get_wallet` with one that depends on the seed (wallets.py:119). A mock receipt
confirms whatever the certificate has become, as its docstring says.

## 4. What is proved

The proofs hold for every number of calls, agents, hours, restarts, texts,
transactions and accounts, and both settlement modes. They rest on the named
assumptions of `Payment` and `InferenceServer`: the two assets differ, `None` is
none of the values (calls, texts, entries, transactions), clients do not sign
for the server's wallet, and what agents pay is among the payments of clients
(`AgentAssumption`, which also keeps the calls of different agents apart). The
other modules have assumptions of their own, on the kinds of their constants:
`MirrorAssumption` (there are inodes enough for all writers), `BalanceAssumption`
(the server has threads, finitely many; the TTL and the time-out are positive),
`DemoAssumption` (POSTs and scripts are different runs), `McpAssumption` (so are
handlers and users), `CertAssumption` (`None` is no content), `FeedAssumption`
(the lengths of the log and of an answer), `ReplayAssumption` (there are requests)
and `SetupAssumption` (the model owner is one of the roles).

* `TypeCorrect`: `TypeOK`, with `TypeInv`, which says what a frame holds at each
  position (a call that verifies has a transaction, one that holds a
  certificate has a text).
* `AgreementCorrect`, `HitIsServableCorrect`, `ServedIsBoundCorrect`. These are
  not inductive alone. `Agreement` is about answers; a step can break it only
  if a call holds a completion that is not the stored one. So `HoldInv` says
  that, from `attach` or `log_hit` on, a call of the living process holds what
  the store has for its address; it needs `HitInv` (a hit finds its entry, which
  nothing but a restart removes), `EpochInv` (running calls and store belong to
  the living process) and `PathInv` (hit and miss paths do not mix). `PayInv`
  carries the accepted payment along the frame: ledger entries never change.
* `StoreIsBoundCorrect`: with `StoredInv` (each stored certificate was minted by a
  full-price call of its address) and `MetaInv` (a stamp is the payment of a `Stamper`,
  a call that missed at this address and holds this certificate, although two such
  calls may stamp one object, the later over the earlier).
* `HitAfterMintCorrect`: an entry is stored by a call that logged its mint first
  (`MintedInv`), and a logged hit belongs to a call of this process that holds
  the stored entry (`LoggedInv`, `StoredInv`, `HoldInv`).
* `HitCountExactCorrect`: `CountInv` equates the counter with the number of calls
  of this process that were handed the entry, also those whose hit is not
  logged yet. Only leaving `get` adds a call and a count.
* `SplitIsBounded`: for every price, fraction and quantum the shares do not
  exceed the price and leave less than one quantum.
* `NoSelfFundingCorrect`: the server's own transactions go elsewhere (`SentInv`),
  since a royalty to the server's own wallet is skipped.
* `RoyaltyIsBackedCorrect`: each royalty is for a call whose thread has run, at most
  half of the price it was charged, and its payment names that price. A started thread
  belongs to an accepted call (`StartedInv`) that is past its handler's dispatch
  (`DispatchedInv`); a thread that has run stays so (`RanKept`).
* `RoyaltyAtMostOnceCorrect`: a thread is started by a handler that is about to
  respond (`DispatchedInv`), runs once and submits once, so that the royalties for
  an address are no more than its threads that ran (`OnceInv`). Calls may be
  infinite in number, so finiteness of both sides is part of it.
* `AgentTypeCorrect`, `SystemImplementsServer`, `QuoteHonouredCorrect`,
  `DoneIsSettledCorrect`: agents and server together are a server with some
  clients, so that all theorems above hold of them. `AgentInv` says that what an
  agent paid is on the ledger as it was quoted; `KnownInv` that a hit seen by
  this process stays in its store; with `PriceInv`, an entry that made the quote
  cheap makes the paid call cheap, so that only a new hour or a restart refuses it.
* `MemoImplemented`: the server implements `CompletionMemo`. The memo is the store's
  texts, an answer is a served call; most steps stutter, `StoreCert` maps to `Learn`
  and `Respond` to `Answer`. It needs the invariants above: the served text is the
  stored one.
* `DumpIsAtomic`: until two dumps overlap, the mirror and what is read from it
  are whole, for all handlers, sizes, failures and crashes. `MirrorInv` says that
  at most one thread dumps, that the temporary file is never the mirror or the
  file a reader has open, and that it holds a prefix of one document. The premise
  is needed: two dumps that overlap do tear the file.
* `MirrorTypeCorrect`, `SoloDumpRepairsCorrect`: with overlaps too. A dump that
  begins alone and stays alone finds its own blocks and no others in the
  temporary file (`SoloInv`), so that its rename repairs what was torn.
* `BalanceTypeCorrect`, `ServedIsRecentCorrect`: for any readers, wallets,
  payments, TTL and time-out. `EntrySound`: an entry of age n ceased to be true at
  most n and one time-out ago, although a slow reader may have written it over a
  newer one; `ReaderSound`: what a frame has fetched was true after it began.
* `DemoTypeCorrect`, `OneBatchCorrect`, `MintedOnceCorrect`: for any number of
  POSTs, scripts, hours and failures. `OneBatch` needs `PlaceInv` (only a
  dashboard's batch has a `finally` clause, so nobody else resets the flag) and
  `CountInv` (the flag is set only while a POST holds it: with a batch that runs, or
  a thread that could not be started).
  `MintedOnce` needs `Exclusive` (without a race at most one batch is active or
  has a handler that can still mint), `HandlerInv` (a handler works only for a
  batch that waits for it or has ended) and `MintInv` (a minted hour is in the
  memo or about to be stored, and nobody infers it meanwhile).
* `MetricsAddUpCorrect`: `MetricsInv` counts, beside hits and misses, the handlers
  that have been paid and have not logged yet: together they are the payments, or
  fewer once one has failed.
* `FeedTypeCorrect`, `ShownOnceCorrect`, `HistoryNotReplayedCorrect`: for any number
  of polls, events, restarts and any lengths. `RequestInv`: no request asks for
  what is beyond `lastSeq`, so that a late answer holds everything the page still
  wants, and its filter leaves exactly the events after `lastSeq`; and
  `latest_seq`, read last, is no less than the newest event of the answer, so that
  priming (`ListedInv`) covers what was listed.
* `McpTypeCorrect`, `CallsInSessionCorrect`: `ClientSound` says, for each place in a
  method, whether the client has a connection (`Connected`) and whether its session
  is confirmed (`Confirmed`); a handler's client is gone once `open` has failed
  (`HandlerSound`), which is what users cannot rely on.
* `ReplayTypeCorrect`, `ReplayFaithfulCorrect`: for any number of recording
  processes. `BlockInv`: each block in a file is a gap or of an answer to the
  file's request, so that a whole file is one answer or does not parse;
  `CleanInv`: without an overlap or a failure since, a file is what its one writer
  has written so far, or the last recording.
* `CertTypeCorrect`, `SignatureExactCorrect`, `AnchorExactCorrect`: for any terms,
  outputs, edits and messages. `SigInv` says that a signature is over what its
  party saw; `ReceiptInv` that the message a live receipt points to, if it has a
  number, is what its certificate was, since a topic only grows.
* `LookupTellsTruthCorrect`: for any page size. `ConfigInv`: what `.env` names was
  minted, though after a torn mint not for the owner it names. `WalkInv`: if the
  owner of a look-up holds its NFT, that lies behind the marker. `PageAndMarker` is the
  step: a page holds the first of what is left, so that a page without the NFT is not
  the last one and its marker is before the NFT.
* `WalletsKeptCorrect`: `MemoryInv` says which wallet a script holds that is not in
  `.env` yet, and that only a forced run holds one for a role that has a seed.
* `NoHandlerStuck`: a handler that runs can always take its next step; a hit finds
  the entry it looked for, a put the entry that came first. `SomeTimerFires`: timers
  of several batches never wait for each other (`SlotInv` says that no two have the
  same batch and slot, so that the one with the least sum of both is due).

### Liveness

The six liveness properties are theorems about the fair specifications, with one
hypothesis each. The provers know of ENABLED nothing but the word, while WF and SF
are about it. So each theorem has the form `FairSpec /\ []Open => Property`, where
`Open` (`GuardsOpen`, `FetchOpen`, `BatchOpen`, `FeedOpen`, `BalanceOpen`) says for
each fair action: where this guard holds, `ENABLED <<A>>_vars`. The guards are
spelled out, are those of the actions in the model, and no more is put into the
hypothesis: that a guard holds when the argument needs it is proved. That each
`Open` follows from the meaning of ENABLED and the module's invariant is not proved,
and no run lists it: in the runs TLC evaluates ENABLED itself, for the same fair
specifications and properties. The rest of an argument is a rank that falls, and
induction over it. The library's induction theorems take an operator and cannot be
used; `NumberInduction` takes a function of numbers, which for a temporal formula
that speaks of n is its truth in the behaviour at hand as a function of n. TLA+ lets
a proof name such a function (`Named`) but not apply it; the lemma does.

* `EveryCallEndsCorrect`, `EveryRoyaltyEndsCorrect`: a handler's position has a
  bounded distance to its end, no step of another call changes it, a restart ends
  it; `NoHandlerStuck` gives the guard.
* `EveryFetchEndsCorrect`: the distance to the answer over the places of `open`,
  `call_tool` and `close`; at its end the receipt is set and stays (`FetchInv`).
* `GuardFreedCorrect`: what the batch has left (`BatchLeft`: nine positions for
  each of its calls, the current one counted by position) is bounded by the largest
  total and falls with each step of the batch or of its handler; only a thread that
  could not be started ends it otherwise.
* `EveryEventShownCorrect`: first the page leaves its priming; then one request comes
  through and takes `lastSeq` past the event (`PassLeft` falls with each of its
  steps, and a lost one counts more steps than a request has; other requests take
  nothing back); then timers fire, and each lowers the number of events that are
  not animated yet.
* `PanelSettlesCorrect`: the clock is held up by each reader for a while only
  (`ClockIsFree`: readers are finite in number, and counted). With no failure left,
  each reader stores an older answer at most once (`OldAnswersEnd`), then the entry
  expires (its age is the rank) or shows the balances, an expired entry is asked
  for by the next poll, and the answer stays. A request that fails starts this
  over; they are bounded (`SettlesBy`, by induction on those left).

Every property that the runs check is thus a theorem, the liveness ones under the
hypothesis about ENABLED. Theorems that take an operator as a
parameter, such as induction over the naturals, are out of the provers' reach: where
a proof needs a least element or an induction (`LeastNumber`, `NumberInduction`), it
is stated about sets and functions and rests on `WFMin`.

## 5. Not modelled

* Pure functions of bytes: canonical form (`canonical.py`, JCS), Ed25519 and
  SHA-256, fingerprints, glyphs. They are taken as injective.
* Rendering: what the page draws, the pitch pages, CSS.
* Prompts and schemas of the LLM client; PRISM and the vendored ontology, pure
  wrappers and third-party code.
* Keychain look-ups (`wallets.py`), the migration of seeds, the trust line and
  balance scripts: straight-line code over services outside the repository, with
  no state of their own. What is wrong with them is under Disagreements.
* Of modelled parts: how the runner starts its server and prints its summary; the
  flags `--only`, `--no-write` and `--owner-seed` of the setup scripts;
  `force_refresh` of the balance cache, which nothing passes; the MCP server's
  quote and verification tools, pure functions of the mirror that was read.

After a restart the mirror lists entries that the new process does not have; no
text promises otherwise, so no property is stated. `/api/events` can lose events
for a client that resumes from `latest_seq`; no client in the repository does.

## 6. Plan

Every component with state of its own has a module, a run, and a proof of its
properties. What would come next:

1. the keychain of `wallets.py` and `migrate_seeds_to_keychain.py`, once a second
   process reads seeds while they are moved;
2. `/api/events`, once a client resumes from its `latest_seq`;
3. a composition of `DemoBatch` with `PaidInference`, so that the batch's calls are
   the agents of the one and not an abstraction of them.
