----------------------------- MODULE Membership -----------------------------
(* The stateless whitelist: host-signed tokens in the wallet of a member's   *)
(* device, the proofs of possession it signs at each join, and the relay's   *)
(* check that none is used twice (shared/membership, membership-store,       *)
(* useMembership, ws.transport).  Signatures are those of their keys.  Time  *)
(* is counted in units of a minute: that of the relay, from which a member's *)
(* clock differs.                                                            *)
EXTENDS Integers, Sequences, FiniteSets

CONSTANTS
    Sids,           \* vaults
    Wallets,        \* tabs of the member's browser
    TOLERANCE,      \* JOIN_PROOF_TOLERANCE_MS
    CONN_WINDOW,    \* RELAY_LIMITS.CONN_WINDOW_MS
    CACHE_MAX,      \* RELAY_LIMITS.NONCE_CACHE_MAX
    MaxSkew,        \* how far the member's clock may be off
    Ttl,            \* how long a token is good for
    MaxProofs,      \* bound: proofs signed
    MaxTime         \* bound: the time

ASSUME MembershipConstants ==
    /\ {TOLERANCE, CONN_WINDOW, CACHE_MAX, MaxSkew, Ttl, MaxProofs, MaxTime} \subseteq Nat
    /\ CACHE_MAX > 0

VARIABLES
    time,
    stored,     \* qb-membership-tokens: when the token for each vault expires, 0 for none
    wallet,     \* the same, in the state of each tab's useMembership
    joins,      \* join frames sent, whose copies may reach the relay at any time
    nonces,     \* usedProofNonces, oldest first
    admitted,   \* how often each proof has let a socket in, 2 for more than once
    evicted     \* ghost: a nonce had to make room for another

membership == <<time, stored, wallet, joins, nonces, admitted, evicted>>

(* ------------------------------ the member ------------------------------- *)

Passes == /\ time < MaxTime /\ time' = time + 1
          /\ UNCHANGED <<stored, wallet, joins, nonces, admitted, evicted>>

issueMembershipToken == time + Ttl

\* loadTokens: what has expired is dropped, from the storage too.
loadTokens == [v \in Sids |-> IF stored[v] > time THEN stored[v] ELSE 0]

\* A tab writes its own wallet over the stored one.
persistTokens(t, next) == wallet' = [wallet EXCEPT ![t] = next] /\ stored' = next

saveToken(t, v) ==
    /\ persistTokens(t, [wallet[t] EXCEPT ![v] = issueMembershipToken])
    /\ UNCHANGED <<time, joins, nonces, admitted, evicted>>

\* The page of a tab is loaded.
LoadWallet(t) ==
    /\ wallet' = [wallet EXCEPT ![t] = loadTokens] /\ stored' = loadTokens
    /\ UNCHANGED <<time, joins, nonces, admitted, evicted>>

createJoinProof(v, expires, clock) ==
    [nonce |-> Cardinality(joins) + 1, sid |-> v, exp |-> expires, timestamp |-> clock]

\* buildJoinCredentials: every dial signs a fresh proof.
JoinsWith(v) ==
    /\ Cardinality(joins) < MaxProofs /\ loadTokens[v] # 0
    /\ stored' = loadTokens
    /\ \E s \in -MaxSkew..MaxSkew : joins' = joins \cup {createJoinProof(v, loadTokens[v], time + s)}
    /\ UNCHANGED <<time, wallet, nonces, admitted, evicted>>

(* ------------------------------- the relay ------------------------------- *)

Within(a, b) == a - b <= TOLERANCE /\ b - a <= TOLERANCE
verifyMembership(j) == j.exp >= time /\ Within(time, j.timestamp)

Used(j) == \E i \in DOMAIN nonces : nonces[i].nonce = j.nonce

\* consumeProofNonce: a full cache forgets the oldest.
Remember(j) ==
    LET full == Len(nonces) >= CACHE_MAX IN
    /\ nonces' = Append(IF full THEN Tail(nonces) ELSE nonces, [nonce |-> j.nonce, at |-> time])
    /\ evicted' = (evicted \/ full)

\* The frame, or a copy of it, is there: let in without the host, or refused.
HandlesMembership(j) ==
    /\ IF verifyMembership(j) /\ ~Used(j)
       THEN Remember(j) /\ admitted' = [admitted EXCEPT ![j.nonce] = IF @ = 0 THEN 1 ELSE 2]
       ELSE UNCHANGED <<nonces, admitted, evicted>>
    /\ UNCHANGED <<time, stored, wallet, joins>>

Bug_Stale(n) == time - n.at > CONN_WINDOW
Stale(n) == time - n.at > CONN_WINDOW * 2
\* The oldest nonces come first, and so do the stale ones.
pruneStaleCounters ==
    /\ \E k \in 0..Len(nonces) :
          /\ \A i \in DOMAIN nonces : Stale(nonces[i]) <=> i <= k
          /\ nonces' = SubSeq(nonces, k + 1, Len(nonces))
    /\ UNCHANGED <<time, stored, wallet, joins, admitted, evicted>>

MembershipInit ==
    /\ time = 1
    /\ stored = [v \in Sids |-> 0] /\ wallet = [t \in Wallets |-> stored]
    /\ joins = {} /\ nonces = <<>>
    /\ admitted = [n \in 1..MaxProofs |-> 0]
    /\ evicted = FALSE

MembershipNext ==
    \/ Passes \/ pruneStaleCounters
    \/ \E t \in Wallets : \/ LoadWallet(t)
                          \/ \E v \in Sids : saveToken(t, v)
    \/ \E v \in Sids : JoinsWith(v)
    \/ \E j \in joins : HandlesMembership(j)

MembershipSpec == MembershipInit /\ [][MembershipNext]_membership

\* A proof lets its member in at most once, whenever its copies arrive, however
\* far the member's clock is off and whenever the cache is pruned: a nonce is kept
\* for as long as its proof is accepted.  Only a full cache may forget it earlier.
ProofAdmitsOnce == ~evicted => \A n \in 1..MaxProofs : admitted[n] <= 1
==============================================================================
