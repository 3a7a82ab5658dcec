------------------------------- MODULE Payment -------------------------------
(***************************************************************************)
(* Settlement on the XRP Ledger, as agentlevy/inference/payment.py and     *)
(* royalty.py use it: what a transaction says, which Payment the server    *)
(* accepts for a completion, and how one price is split with the owner of  *)
(* the model NFT.  Amounts are whole numbers of 0.0001 RLUSD, the quantum  *)
(* of royalty.compute_split.                                               *)
(***************************************************************************)
EXTENDS Integers, Sequences

CONSTANTS
    ServerWallet,  \* classic address of the inference server
    Rlusd,         \* the asset <<currency_hex, issuer>> of RLUSDConfig
    Xrp,           \* the native asset (an Amount that is a string of drops)
    XrpFallback,   \* INFERENCE_USE_XRP_FALLBACK: settle in Xrp, not in Rlusd
    NoAddress      \* a memo that is not a readable uor-addr-1 memo

ASSUME AssetAssumption == Rlusd # Xrp /\ XrpFallback \in BOOLEAN

(* cert_store.price_for: 0.010 RLUSD for a miss, 0.001 for a hit.          *)
FullPrice == 100
HitPrice == 10
PriceFor(isHit) == IF isHit THEN HitPrice ELSE FullPrice

(* The asset that both the payers and the verifier settle in.              *)
SettlementAsset == IF XrpFallback THEN Xrp ELSE Rlusd

(* What Tx(transaction=txid) returns for a validated transaction.  value   *)
(* is the amount that the transaction names, in DeliverMax or Amount;      *)
(* delivered is what it moved, the metadata's delivered_amount.  They      *)
(* differ if it failed, or if its sender allowed a partial payment.        *)
Transactions(accounts, addresses) ==
    {tx \in [type: {"Payment", "Other"}, result: {"tesSUCCESS", "tecFAILED"},
              account: accounts, destination: accounts, asset: {Rlusd, Xrp},
              value: Nat, delivered: Nat, memos: Seq(addresses \cup {NoAddress})] :
       /\ tx.delivered <= tx.value
       /\ tx.result = "tesSUCCESS" \/ tx.delivered = 0}

(* build_rlusd_payment / build_xrp_payment, signed, submitted and applied: *)
(* neither allows a partial payment.                                       *)
PaymentTx(from, to, amount, addr) ==
    [type |-> "Payment", result |-> "tesSUCCESS", account |-> from,
     destination |-> to, asset |-> SettlementAsset, value |-> amount,
     delivered |-> amount, memos |-> <<addr>>]

(* m is the first memo of tx that parse_uor_memo can read, and it is addr. *)
FirstUorMemoIs(tx, addr) ==
    \E i \in DOMAIN tx.memos :
        /\ tx.memos[i] = addr
        /\ addr # NoAddress
        /\ \A j \in 1..(i - 1) : tx.memos[j] = NoAddress

(* Faulty checks: the memo is not read; the result is not read; only the   *)
(* exact price is taken.                                                   *)
VerifiedAnyMemo(tx, amount, addr) ==
    /\ tx.result = "tesSUCCESS" /\ tx.type = "Payment"
    /\ tx.destination = ServerWallet /\ tx.asset = SettlementAsset
    /\ tx.value >= amount
VerifiedAnyResult(tx, amount, addr) ==
    /\ tx.type = "Payment"
    /\ tx.destination = ServerWallet /\ tx.asset = SettlementAsset
    /\ tx.value >= amount /\ FirstUorMemoIs(tx, addr)
VerifiedExactly(tx, amount, addr) ==
    /\ tx.result = "tesSUCCESS" /\ tx.type = "Payment"
    /\ tx.destination = ServerWallet /\ tx.asset = SettlementAsset
    /\ tx.value = amount /\ FirstUorMemoIs(tx, addr)

(* verify_rlusd_payment with expected_from=None: all of its checks pass.   *)
(* It compares the amount named and reads no delivered_amount.             *)
Verified(tx, amount, addr) ==
    /\ tx.result = "tesSUCCESS"
    /\ tx.type = "Payment"
    /\ tx.destination = ServerWallet
    /\ tx.asset = SettlementAsset
    /\ tx.value >= amount
    /\ FirstUorMemoIs(tx, addr)

-----------------------------------------------------------------------------
(* royalty.compute_split for a total counted in 1/q quanta and a fraction  *)
(* num/den: both shares are rounded down to whole quanta.                  *)
RoyaltyQuanta(total, num, den, q) == (total * num) \div (den * q)
ServerQuanta(total, num, den, q) ==
    (total - RoyaltyQuanta(total, num, den, q) * q) \div q

(* ROYALTY_FRACTION = 0.5 of a price that is a whole number of quanta.     *)
RoyaltyShare(price) == RoyaltyQuanta(price, 1, 2, 1)
MinRoyalty == 1

(* Faulty: a royalty may be paid to the server's own wallet.               *)
PayableToAnyone(recipient, amount) == amount >= MinRoyalty

(* dispatch_royalty sends nothing to the server itself, and no dust.       *)
RoyaltyPayable(recipient, amount) ==
    /\ recipient # ServerWallet
    /\ amount >= MinRoyalty
=============================================================================
