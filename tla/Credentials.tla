----------------------------- MODULE Credentials ------------------------------
(***************************************************************************)
(* Where the keys of the providers are kept: the keyring of the operating  *)
(* system, and a file that StoreCredential falls back to.  The terminal    *)
(* interface stores and loads keys in goroutines of its own; "orchestra    *)
(* auth" is another process, which knows the keyring only.                 *)
(*                                                                         *)
(* A keyring call and the replacement of the file (written beside it and   *)
(* renamed) are one step each.  Whether the keyring answers is the         *)
(* environment's choice (keyringUp) and may change at any time, and one    *)
(* that is read may refuse a key that is to be stored.                     *)
(***************************************************************************)
EXTENDS Naturals

CONSTANTS
    Providers,          \* KeyName of each provider of the catalog
    Keys,               \* the keys the user may enter
    NoKey,              \* none, or blank
    Familiar            \* the providers that may have a key already

ASSUME KeysAssumption == NoKey \notin Keys

VARIABLES
    keyring, file,      \* the two stores
    keyringUp,          \* does the keyring answer?
    latest              \* history: the key last written, or none if it was removed

credentials == <<keyring, file, keyringUp, latest>>

Entries == [Providers -> Keys \cup {NoKey}]

CredentialsTypeOK ==
    /\ keyring \in Entries /\ file \in Entries /\ latest \in Entries
    /\ keyringUp \in BOOLEAN

(* Earlier sessions may have left keys of the providers in Familiar in     *)
(* either store, one of them the latest.                                   *)
CredentialsInit ==
    /\ keyringUp \in BOOLEAN
    /\ keyring \in Entries
    /\ file \in Entries
    /\ \A p \in Providers \ Familiar : keyring[p] = NoKey /\ file[p] = NoKey
    /\ latest \in Entries
    /\ \A p \in Providers :
        /\ keyring[p] = NoKey => latest[p] = file[p]
        /\ file[p] = NoKey => latest[p] = keyring[p]
        /\ latest[p] \in {keyring[p], file[p]}

(* LoadCredential: an entry of the keyring comes before one of the file.   *)
Load(p) == IF keyringUp /\ keyring[p] # NoKey THEN keyring[p] ELSE file[p]

(* Faulty variant: a keyring that refuses the key is not noticed.          *)
StoreInKeyringOnly(p, k) ==
    /\ \/ keyringUp /\ keyring' = [keyring EXCEPT ![p] = k]
       \/ UNCHANGED keyring
    /\ latest' = [latest EXCEPT ![p] = k]
    /\ UNCHANGED <<file, keyringUp>>

(* StoreCredential returns nil: the keyring took the key, or the file did. *)
Store(p, k) ==
    /\ \/ keyringUp /\ keyring' = [keyring EXCEPT ![p] = k] /\ UNCHANGED file
       \/ file' = [file EXCEPT ![p] = k] /\ UNCHANGED keyring
    /\ latest' = [latest EXCEPT ![p] = k]
    /\ UNCHANGED keyringUp

(* StoreCredential returns an error: the keyring refused the key and the   *)
(* file could not be written, or was replaced before its mode was set.     *)
StoreFails(p, k) ==
    /\ \/ UNCHANGED <<file, latest>>
       \/ /\ file' = [file EXCEPT ![p] = k]
          /\ latest' = [latest EXCEPT ![p] = k]
    /\ UNCHANGED <<keyring, keyringUp>>

(* orchestra auth set.                                                     *)
AuthSet(p, k) ==
    /\ keyringUp
    /\ keyring' = [keyring EXCEPT ![p] = k]
    /\ latest' = [latest EXCEPT ![p] = k]
    /\ UNCHANGED <<file, keyringUp>>

(* orchestra auth remove.                                                  *)
AuthRemove(p) ==
    /\ keyringUp /\ keyring[p] # NoKey
    /\ keyring' = [keyring EXCEPT ![p] = NoKey]
    /\ latest' = [latest EXCEPT ![p] = NoKey]
    /\ UNCHANGED <<file, keyringUp>>

(* The keyring service starts, stops, is locked or unlocked.               *)
KeyringChange ==
    /\ keyringUp' = ~keyringUp
    /\ UNCHANGED <<keyring, file, latest>>

-----------------------------------------------------------------------------
(* The key that a provider client loads is the one that was written last,  *)
(* whichever of the two stores took it, whichever process removed it and   *)
(* however often the keyring starts, stops or refuses (README.md:207,      *)
(* "reused on next launch"), with three exceptions: the keyring holds a    *)
(* key and does not answer, it holds one beside a key of the file, or it   *)
(* held one that was removed beside a key of the file.                     *)
StoredKeyIsUsed == \A p \in Providers :
    \/ Load(p) = latest[p]
    \/ keyring[p] # NoKey /\ (~keyringUp \/ file[p] # NoKey)
    \/ latest[p] = NoKey /\ file[p] # NoKey
=============================================================================
