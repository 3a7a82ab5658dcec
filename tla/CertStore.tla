------------------------------ MODULE CertStore ------------------------------
(***************************************************************************)
(* agentlevy/inference/cert_store.py: the in-process memo of completions,  *)
(* keyed by request UOR address.  Every method holds the store's RLock, so *)
(* each operation is one atomic action.                                    *)
(***************************************************************************)
EXTENDS Integers

CONSTANTS
    Address,   \* request UOR addresses
    CertId,    \* certificate objects
    Text,      \* completion texts
    Absent     \* what a lookup returns for a missing address

VARIABLE entries

Entry == [cert: CertId, text: Text, hits: Nat]

StoreTypeOK == entries \in [Address -> Entry \cup {Absent}]

StoreInit == entries = [a \in Address |-> Absent]

Has(a) == entries[a] # Absent

(* get(): the lookup that counts a hit.                                    *)
Get(a) ==
    /\ Has(a)
    /\ entries' = [entries EXCEPT ![a].hits = @ + 1]

(* put() of an address that is not there yet.  The other branch raises     *)
(* ValueError and changes nothing.                                         *)
Put(a, cert, text) ==
    /\ ~ Has(a)
    /\ entries' = [entries EXCEPT
                     ![a] = [cert |-> cert, text |-> text, hits |-> 0]]

(* A new process, or clear(): the dict is empty again.                     *)
Reset == entries' = [a \in Address |-> Absent]

StoreNext ==
    \/ \E a \in Address : Get(a)
    \/ \E a \in Address, cert \in CertId, text \in Text : Put(a, cert, text)
    \/ Reset

StoreSpec == StoreInit /\ [][StoreNext]_entries
=============================================================================
