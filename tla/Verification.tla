---------------------------- MODULE Verification ----------------------------
(* The fingerprints a user has compared out of band (contact-verification,   *)
(* useContactVerification): pins kept on the device for all its tabs, each   *)
(* tab with its own copy and its own vault.                                  *)
EXTENDS FiniteSets

CONSTANTS
    Vaults,     \* each open in one tab of the browser
    Contacts,   \* peer ids
    Prints,     \* fingerprints of identity keys
    NoPrint     \* no key, or no pin

ASSUME NoPrintIsNone == NoPrint \notin Prints

VARIABLES
    storedPins, \* qb-verified-contacts
    pins,       \* of each tab: its state, loaded when the page was
    live,       \* fingerprints: of the peers whose channel is ready
    compared    \* ghost: <<vault, peer, print>> the user has ever confirmed

verification == <<storedPins, pins, live, compared>>

\* A pin belongs to the vault it was made in: identity keys do, unless long-term.
Bug_contactKey(v, p) == <<CHOOSE w \in Vaults : TRUE, p>>
contactKey(v, p) == <<v, p>>
Keys == Vaults \X Contacts
NoPins == [k \in Keys |-> NoPrint]

contactStatus(pin, current) ==
    IF NoPrint \in {pin, current} THEN "unverified"
    ELSE IF pin = current THEN "verified" ELSE "changed"

status(v, p) == contactStatus(pins[v][contactKey(v, p)], live[v][p])

\* A tab saves its own copy over what the others have saved.
setPins(v, next) == /\ pins' = [pins EXCEPT ![v] = next] /\ storedPins' = next

\* A handshake ends, with the key of before or another; the peer leaves.
refreshCrypto(v, p) ==
    /\ \E f \in Prints \cup {NoPrint} : f # live[v][p] /\ live' = [live EXCEPT ![v][p] = f]
    /\ UNCHANGED <<storedPins, pins, compared>>

\* Offered beside every key that is shown, and in the warning that it changed.
verify(v, p) ==
    /\ live[v][p] # NoPrint /\ status(v, p) # "verified"
    /\ setPins(v, [pins[v] EXCEPT ![contactKey(v, p)] = live[v][p]])
    /\ compared' = compared \cup {<<v, p, live[v][p]>>}
    /\ UNCHANGED live

unverify(v, p) ==
    /\ status(v, p) # "unverified"
    /\ setPins(v, [pins[v] EXCEPT ![contactKey(v, p)] = NoPrint])
    /\ UNCHANGED <<live, compared>>

\* Channels and burner keys go with the page; the pins are read again.
Reload(v) ==
    /\ pins' = [pins EXCEPT ![v] = storedPins]
    /\ live' = [live EXCEPT ![v] = [p \in Contacts |-> NoPrint]]
    /\ UNCHANGED <<storedPins, compared>>

VerificationInit ==
    /\ storedPins = NoPins
    /\ pins = [v \in Vaults |-> NoPins]
    /\ live = [v \in Vaults |-> [p \in Contacts |-> NoPrint]]
    /\ compared = {}

VerificationNext ==
    \E v \in Vaults : \/ Reload(v)
                      \/ \E p \in Contacts : refreshCrypto(v, p) \/ verify(v, p) \/ unverify(v, p)

VerificationSpec == VerificationInit /\ [][VerificationNext]_verification

\* A peer is shown as verified only under a key that the user has confirmed for
\* this very peer in this very vault, although tabs save their copies over each
\* other, undone pins come back with a reload and peers change their keys.
VerifiedWasCompared ==
    \A v \in Vaults : \A p \in Contacts :
        status(v, p) = "verified" => <<v, p, live[v][p]>> \in compared
==============================================================================
