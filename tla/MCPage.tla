------------------------------- MODULE MCPage -------------------------------
(* What a page keeps beside its sockets: the conversation, the whitelist, the *)
(* compared fingerprints, the identity key, the voice recorder, the wallet of *)
(* membership tokens, the paced queue.  They share no variable and call one   *)
(* another at most to read a key that no longer changes, so that every        *)
(* reachable state of one is reached with the others at rest: a behaviour     *)
(* exercises one of them.                                                     *)
EXTENDS Talk, Whitelist, Verification, Identity, Recording, Membership, Pacing

VARIABLE part   \* the one that this behaviour exercises

talk == vars
Parts == {"talk", "whitelist", "verification", "identity", "recording", "membership", "pacing"}

PageInit == /\ part \in Parts
            /\ Init /\ WhitelistInit /\ VerificationInit
            /\ IdentityInit /\ RecordingInit /\ MembershipInit /\ PacingInit
            \* what only tells the other parts apart
            /\ part # "talk" => ~link /\ terminals = {}
            /\ part # "whitelist" => vault = Met

PageNext ==
    /\ UNCHANGED part
    /\ \/ /\ part = "talk" /\ Next
          /\ UNCHANGED <<whitelist, verification, identityVars, recording, membership, pacing>>
       \/ /\ part = "whitelist" /\ WhitelistNext
          /\ UNCHANGED <<talk, verification, identityVars, recording, membership, pacing>>
       \/ /\ part = "verification" /\ VerificationNext
          /\ UNCHANGED <<talk, whitelist, identityVars, recording, membership, pacing>>
       \/ /\ part = "identity" /\ IdentityNext
          /\ UNCHANGED <<talk, whitelist, verification, recording, membership, pacing>>
       \/ /\ part = "recording" /\ RecordingNext
          /\ UNCHANGED <<talk, whitelist, verification, identityVars, membership, pacing>>
       \/ /\ part = "membership" /\ MembershipNext
          /\ UNCHANGED <<talk, whitelist, verification, identityVars, recording, pacing>>
       \/ /\ part = "pacing" /\ PacingNext
          /\ UNCHANGED <<talk, whitelist, verification, identityVars, recording, membership>>

PageSpec == PageInit /\ [][PageNext]_<<talk, whitelist, verification, identityVars, recording,
                                       membership, pacing, part>>
=============================================================================
