------------------------------ MODULE DemoSetup ------------------------------
(* The scripts that prepare a demo on the Testnet, and the look-up of the     *)
(* model NFT that relies on what they leave behind: setup_inference_demo.py   *)
(* makes the wallets, mint_model_nft.py mints the NFT, and                    *)
(* lookup_royalty_recipient (nft.py) checks on the ledger that the owner      *)
(* named in .env holds it.                                                    *)
(*                                                                            *)
(* The operator runs one script at a time. A script may raise or be killed at *)
(* any step, and leaves what it has done to the ledger and to .env. Processes *)
(* that look the NFT up run beside them; each reads .env once, as it starts.  *)
(* Wallets are numbered as the faucet funds them, and NFTs bear numbers in    *)
(* the order of the owner's pages, not of their minting. Nobody transfers the *)
(* NFT, as the docstring of verify_owner_holds_nft has it.                    *)
EXTENDS Integers, Sequences, FiniteSets

CONSTANTS Roles,      \* the roles in the order of ROLES
          ModelOwner, \* the one of them that owns the NFT
          Lookups,    \* processes that look the NFT up, each time anew
          MaxWallets, \* bound: wallets that the faucet funds
          Ids,        \* numbers of NFTs
          PageSize,   \* NFTs in a page of account_nfts
          MaxRuns     \* bound: runs of scripts

ASSUME SetupAssumption == /\ Roles \in Seq(STRING) /\ MaxWallets \in Nat
                          /\ ModelOwner \in {Roles[i] : i \in DOMAIN Roles}
                          /\ Ids \subseteq Nat \ {0} /\ PageSize \in Nat \ {0}

VARIABLES
    wallets,  \* how many wallets the faucet has funded
    holder,   \* per NFT: the wallet that holds it, NoWallet if not minted
    seed,     \* .env, per role: its wallet, NoWallet, or BadSeed
    nft,      \* .env: MODEL_NFT_ID, and MODEL_NFT_OWNER_ADDRESS as a wallet
    script,   \* what runs: its name, step, role and what it holds in memory
    lookup,   \* per process: what it read from .env, its marker, its outcome
    runs,
    losses    \* history: wallets that failed attempts, crashes, --force lost

setupVars == <<wallets, holder, seed, nft, script, lookup, runs, losses>>

NoWallet == 0
BadSeed == -1                      \* it is set, but no wallet can be made of it
Useless == {NoWallet, BadSeed}
NoId == 0
RoleSet == {Roles[i] : i \in DOMAIN Roles}
NoScript == [name |-> "none", at |-> "end", role |-> 1, force |-> FALSE, tries |-> 0,
             wallet |-> NoWallet, id |-> NoId]
Asleep == [at |-> "asleep", id |-> NoId, owner |-> NoWallet, marker |-> 0,
           failed |-> FALSE]

SetupInit ==
    /\ wallets = 0 /\ holder = [i \in Ids |-> NoWallet]
    /\ seed \in [RoleSet -> Useless] /\ nft = [id |-> NoId, owner |-> NoWallet]
    /\ script = NoScript /\ lookup = [l \in Lookups |-> Asleep]
    /\ runs = 0 /\ losses = 0

Running(name, at) == script.name = name /\ script.at = at
RoleNow == Roles[script.role]
Ledger == <<wallets, holder>>
Env == <<seed, nft>>

\* main of each script. Without a wallet of the model owner, minting raises.
Start(name, force) ==
    /\ script = NoScript /\ runs < MaxRuns /\ runs' = runs + 1
    /\ name = "mint" => seed[ModelOwner] \notin Useless
    /\ script' = [NoScript EXCEPT !.name = name, !.force = force, !.at = "role",
                                  !.wallet = IF name = "mint" THEN seed[ModelOwner] ELSE @]
    /\ UNCHANGED <<Ledger, Env, lookup, losses>>

\* The loop over the roles.
NextRole == script' = IF script.role = Len(Roles) THEN NoScript
                      ELSE [script EXCEPT !.role = @ + 1, !.at = "role", !.tries = 0,
                                          !.wallet = NoWallet]

\* A mutant: a wallet is made whether or not the role has one.
Anew(r) == TRUE

\* maybe_generate_wallet: a seed in .env that makes a wallet is kept, unless the
\* run is forced.
Wanted(r) == seed[r] \in Useless \/ script.force

KeepWallet ==
    /\ Running("wallets", "role") /\ ~ Wanted(RoleNow)
    /\ NextRole /\ UNCHANGED <<Ledger, Env, lookup, runs, losses>>

\* generate_wallet_with_retry: the faucet funds a wallet, and says so or not.
\* After three failures the script ends, without the roles that follow.
AskFaucet ==
    /\ Running("wallets", "role") /\ Wanted(RoleNow)
    /\ \/ /\ wallets < MaxWallets /\ wallets' = wallets + 1
          /\ script' = [script EXCEPT !.at = "write", !.wallet = wallets']
          /\ UNCHANGED losses
       \/ /\ script' = IF script.tries = 2 THEN NoScript
                       ELSE [script EXCEPT !.tries = @ + 1]
          /\ \/ UNCHANGED <<wallets, losses>>
             \/ /\ wallets < MaxWallets /\ wallets' = wallets + 1
                /\ losses' = losses + 1
    /\ UNCHANGED <<holder, Env, lookup, runs>>

\* set_key of the role's seed.
WriteSeed ==
    /\ Running("wallets", "write")
    /\ seed' = [seed EXCEPT ![RoleNow] = script.wallet]
    /\ losses' = IF script.force /\ seed[RoleNow] \notin Useless THEN losses + 1 ELSE losses
    /\ NextRole
    /\ UNCHANGED <<Ledger, nft, lookup, runs>>

\* NFTokenMint, for the wallet whose seed was read at the start. If it raises,
\* the NFT may have been minted.
Mint ==
    /\ Running("mint", "role")
    /\ \E i \in {j \in Ids : holder[j] = NoWallet} :
         /\ holder' = [holder EXCEPT ![i] = script.wallet]
         /\ \/ script' = [script EXCEPT !.at = "write id", !.id = i]
            \/ script' = NoScript
    /\ UNCHANGED <<wallets, Env, lookup, runs, losses>>

\* Two of the four set_key: which NFT, and whose.
WriteId ==
    /\ Running("mint", "write id")
    /\ nft' = [nft EXCEPT !.id = script.id]
    /\ script' = [script EXCEPT !.at = "write owner"]
    /\ UNCHANGED <<Ledger, seed, lookup, runs, losses>>

WriteOwner ==
    /\ Running("mint", "write owner")
    /\ nft' = [nft EXCEPT !.owner = script.wallet]
    /\ script' = NoScript
    /\ UNCHANGED <<Ledger, seed, lookup, runs, losses>>

\* The script is killed, or a call of it raises.
Die ==
    /\ script # NoScript
    /\ script' = NoScript
    /\ losses' = IF Running("wallets", "write") THEN losses + 1 ELSE losses
    /\ UNCHANGED <<Ledger, Env, lookup, runs>>

\* A process starts: ModelNFTConfig.from_env, which raises without an id and an
\* owner. A script may be between the two writes, or may have died there.
ReadConfig(l) ==
    /\ lookup[l].at = "asleep" /\ nft.id # NoId /\ nft.owner # NoWallet
    /\ lookup' = [lookup EXCEPT ![l] = [Asleep EXCEPT !.at = "ready", !.id = nft.id,
                                                     !.owner = nft.owner]]
    /\ UNCHANGED <<Ledger, Env, script, runs, losses>>

\* lookup_royalty_recipient with verify_live, and the configuration it has.
Begin(l) ==
    /\ lookup[l].at \notin {"asleep", "walk"}
    /\ lookup' = [lookup EXCEPT ![l].at = "walk", ![l].marker = 0, ![l].failed = FALSE]
    /\ UNCHANGED <<Ledger, Env, script, runs, losses>>

\* account_nfts: the next page of the owner's NFTs, up to PageSize of them.
Rest(l) == {i \in Ids : holder[i] = lookup[l].owner /\ i > lookup[l].marker}
Page(l) == {i \in Rest(l) : Cardinality({j \in Rest(l) : j < i}) < PageSize}

\* A mutant: one page is all there is.
OnePage(l) == TRUE

\* There is no marker in the last page.
LastPage(l) == Rest(l) = Page(l)

\* What a page tells: the NFT is in it, there is a next page, or it is "denied":
\* the RuntimeError that the owner does not hold it.
PageTells(l) == CASE lookup[l].id \in Page(l) -> "held"
                  [] lookup[l].id \notin Page(l) /\ ~ LastPage(l) -> "walk"
                  [] OTHER -> "denied"

\* verify_owner_holds_nft: a page, and the next one until there is no marker.
WalkPage(l) ==
    /\ lookup[l].at = "walk"
    /\ lookup' = [lookup EXCEPT ![l].at = PageTells(l),
                     ![l].marker = IF PageTells(l) # "walk" THEN @
                                   ELSE CHOOSE i \in Page(l) : \A j \in Page(l) : j <= i]
    /\ UNCHANGED <<Ledger, Env, script, runs, losses>>

\* A request that is answered without success ends in the same RuntimeError; one
\* that raises, in another.
PageFails(l) ==
    /\ lookup[l].at = "walk"
    /\ \E out \in {"denied", "raised"} :
         lookup' = [lookup EXCEPT ![l].at = out, ![l].failed = TRUE]
    /\ UNCHANGED <<Ledger, Env, script, runs, losses>>

LookUp(l) == ReadConfig(l) \/ Begin(l) \/ WalkPage(l) \/ PageFails(l)

Scripts == \/ KeepWallet \/ AskFaucet \/ WriteSeed
           \/ Mint \/ WriteId \/ WriteOwner \/ Die
           \/ \E name \in {"wallets", "mint"}, force \in BOOLEAN :
                 (force => name = "wallets") /\ Start(name, force)
SetupNext == Scripts \/ \E l \in Lookups : LookUp(l)
SetupSpec == SetupInit /\ [][SetupNext]_setupVars

----------------------------------------------------------------------------
(* Properties.                                                                *)

\* A look-up tells the truth of its configuration: the owner has the NFT if it
\* finds it, and has not if it denies it and no request failed, though the owner's
\* new NFTs appear before and behind its marker meanwhile. A failed request ends
\* in the same RuntimeError, also of an NFT that is held (nft.py 133-139).
LookupTellsTruth ==
    \A l \in Lookups : LET k == lookup[l] IN
        /\ k.at = "held" => holder[k.id] = k.owner
        /\ k.at = "denied" /\ ~ k.failed => holder[k.id] # k.owner

\* Every funded wallet is in .env or in the memory of the script, but for one
\* per failed attempt or death between funding and writing, and one per seed
\* that a run with --force replaced: running the script again keeps the seeds
\* that it finds (setup_inference_demo.py 124).
WalletsKept ==
    Cardinality((1..wallets) \ ({seed[r] : r \in RoleSet} \union {script.wallet})) <= losses
=============================================================================
