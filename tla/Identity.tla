------------------------------ MODULE Identity ------------------------------
(* The device's long-term identity key (useIdentity, crypto/identity-store): *)
(* sealed under a passphrase in the storage that all tabs share, opened by   *)
(* each tab for itself, with an await between a press and its effect.        *)
EXTENDS Naturals

CONSTANTS
    Tabs,
    Passphrases,
    Legacy,     \* a tab that still holds a key of the old kind, for its session
    MaxKeys     \* bound: keys generated, after that old one, which is key 1

ASSUME IdentityConstants == Legacy \in Tabs /\ MaxKeys \in Nat

None == [key |-> 0, pass |-> CHOOSE p \in Passphrases : TRUE]

VARIABLES
    blob,       \* the stored identity: a key sealed under a passphrase
    sessionKey, \* the old kind, in the session storage of each tab
    hook,       \* the state of each tab's useIdentity
    job,        \* what each tab is waiting for: kind, and the sealed key it read or makes
    nextKey,
    retired     \* ghost: keys whose stored copy was replaced or forgotten

identityVars == <<blob, sessionKey, hook, job, nextKey, retired>>

Idle == [kind |-> "none", sealed |-> None, pass |-> None.pass]

\* hasLongTermIdentity and detectSessionIdentity, when the page is loaded.
Loaded(t) == [exists |-> blob # None, migratable |-> sessionKey[t] # 0, identity |-> 0,
              busy |-> FALSE, error |-> "none"]

\* submit: what the button does depends on what the tab believes is stored.
Starts(t, kind, sealed, pass) ==
    /\ ~hook[t].busy /\ hook[t].identity = 0
    /\ job' = [job EXCEPT ![t] = [kind |-> kind, sealed |-> sealed, pass |-> pass]]
    /\ hook' = [hook EXCEPT ![t].busy = TRUE, ![t].error = "none"]
    /\ UNCHANGED <<blob, sessionKey, retired>>

unlock(t, pass) == /\ hook[t].exists /\ Starts(t, "unlock", blob, pass)
                   /\ UNCHANGED nextKey

promote(t, pass) ==
    /\ ~hook[t].exists /\ hook[t].migratable
    /\ Starts(t, "promote", [key |-> sessionKey[t], pass |-> pass], pass)
    /\ UNCHANGED nextKey

create(t, pass) ==
    /\ ~hook[t].exists /\ ~hook[t].migratable /\ nextKey <= MaxKeys
    /\ Starts(t, "create", [key |-> nextKey, pass |-> pass], pass)
    /\ nextKey' = nextKey + 1

adopt(t, key) == [hook EXCEPT ![t] = [exists |-> TRUE, migratable |-> FALSE, identity |-> key,
                                      busy |-> FALSE, error |-> "none"]]
failed(t, error) == [hook EXCEPT ![t].busy = FALSE, ![t].error = error]

Replaced(sealed) == IF blob = None \/ blob.key = sealed.key THEN retired ELSE retired \cup {blob.key}

\* unlockLongTermIdentity: nothing stored and a wrong passphrase look the same.
Opens(t) ==
    /\ job[t].kind = "unlock"
    /\ hook' = IF job[t].sealed # None /\ job[t].sealed.pass = job[t].pass
               THEN adopt(t, job[t].sealed.key) ELSE failed(t, "Wrong passphrase")
    /\ UNCHANGED <<blob, retired>>

\* persistLongTerm: over whatever is stored by now.
Persists(t) ==
    /\ job[t].kind \in {"create", "promote"}
    /\ blob' = job[t].sealed /\ retired' = Replaced(job[t].sealed)
    /\ hook' = adopt(t, job[t].sealed.key)

\* The storage refuses: create reports it, promote only stops waiting.
Bug_StorageFull(t) ==
    /\ job[t].kind \in {"create", "promote"}
    /\ hook' = adopt(t, job[t].sealed.key)
    /\ UNCHANGED <<blob, retired>>
StorageFull(t) ==
    /\ job[t].kind \in {"create", "promote"}
    /\ hook' = failed(t, IF job[t].kind = "create" THEN "Could not create identity" ELSE "none")
    /\ UNCHANGED <<blob, retired>>

Done(t) == /\ Opens(t) \/ Persists(t) \/ StorageFull(t)
           /\ job' = [job EXCEPT ![t] = Idle]
           /\ UNCHANGED <<sessionKey, nextKey>>

\* Offered where the identity is open.  Other tabs are not told.
forget(t) ==
    /\ hook[t].identity # 0
    /\ blob' = None /\ retired' = Replaced(None)
    /\ hook' = [hook EXCEPT ![t].identity = 0, ![t].exists = FALSE,
                            ![t].migratable = sessionKey[t] # 0]
    /\ UNCHANGED <<sessionKey, job, nextKey>>

\* The page is loaded again: what it waited for is lost.
ReloadTab(t) ==
    /\ hook' = [hook EXCEPT ![t] = Loaded(t)] /\ job' = [job EXCEPT ![t] = Idle]
    /\ UNCHANGED <<blob, sessionKey, nextKey, retired>>

IdentityInit ==
    /\ blob = None
    /\ sessionKey = [t \in Tabs |-> IF t = Legacy THEN 1 ELSE 0]
    /\ hook = [t \in Tabs |-> Loaded(t)]
    /\ job = [t \in Tabs |-> Idle]
    /\ nextKey = 2 /\ retired = {}

IdentityNext ==
    \E t \in Tabs : \/ Done(t) \/ forget(t) \/ ReloadTab(t)
                    \/ \E p \in Passphrases : unlock(t, p) \/ promote(t, p) \/ create(t, p)

IdentitySpec == IdentityInit /\ [][IdentityNext]_identityVars

\* A tab shows a long-term key as active only if that key is the stored one, which
\* the next start can open, or some tab has since forgotten or replaced it: a
\* failed write, a reload in the middle and other tabs' answers make none active.
ActiveIsDurable ==
    \A t \in Tabs : hook[t].identity # 0 => hook[t].identity \in retired \cup {blob.key}
==============================================================================
