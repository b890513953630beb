------------------------------- MODULE Ratchet ------------------------------
(* The double ratchet of one channel, as operators on the state of one end. *)
(* Keys are symbolic.  A root key is the sequence of the Diffie-Hellman     *)
(* results it was derived from; a chain key is named by the root key it     *)
(* was derived with; a message key is a chain and a position in it.         *)
EXTENDS Integers, Sequences, FiniteSets

CONSTANTS MAX_SKIP,         \* the longest gap that is bridged
          MAX_SKIPPED_KEYS  \* the most keys kept for messages not yet read

ASSUME SkipBounds == MAX_SKIP \in Nat /\ MAX_SKIPPED_KEYS \in Nat

Null == <<>>   \* a chain that does not exist yet

sharedKey(a, b) == {a, b}
kdfRK(rk, dh) == Append(rk, dh)
kdfCK(ck, n) == <<ck, n>>

\* The key pair owner k has generated, the k-th of its own.
KeyPair(owner, k) == <<owner, k>>

initAlice(own, remote) ==
    LET rk == kdfRK(<<>>, sharedKey(KeyPair(own, 0), KeyPair(remote, 0))) IN
    [RK |-> rk, CKs |-> rk, CKr |-> Null, DHs |-> KeyPair(own, 0),
     DHr |-> KeyPair(remote, 0), Ns |-> 0, Nr |-> 0, PN |-> 0, MKSKIPPED |-> <<>>]

initBob(own, remote) ==
    [initAlice(own, remote) EXCEPT !.CKs = Null,
        !.CKr = kdfRK(<<>>, sharedKey(KeyPair(own, 0), KeyPair(remote, 0)))]

generateKeyPair(s) == KeyPair(s.DHs[1], s.DHs[2] + 1)

dhRatchet(s, newDHr) ==
    LET rk1 == kdfRK(s.RK, sharedKey(s.DHs, newDHr))
        dhs == generateKeyPair(s)
        rk2 == kdfRK(rk1, sharedKey(dhs, newDHr)) IN
    [s EXCEPT !.PN = s.Ns, !.Ns = 0, !.Nr = 0, !.DHr = newDHr,
              !.RK = rk2, !.CKr = rk1, !.CKs = rk2, !.DHs = dhs]

(* ------------------------------ skipped keys ----------------------------- *)

TooFar(s, until) == s.CKr # Null /\ until - s.Nr > MAX_SKIP

\* The oldest stranded keys go first when there are too many.
Evict(keys) == IF Len(keys) <= MAX_SKIPPED_KEYS THEN keys
               ELSE SubSeq(keys, Len(keys) - MAX_SKIPPED_KEYS + 1, Len(keys))

Bug_skipMessageKeys(s, until, dh) ==
    IF s.CKr = Null \/ s.Nr >= until THEN s ELSE [s EXCEPT !.Nr = until]
skipMessageKeys(s, until, dh) ==
    IF s.CKr = Null \/ s.Nr >= until THEN s
    ELSE [s EXCEPT !.MKSKIPPED = Evict(@ \o
              [i \in 1..(until - s.Nr) |->
                  [dh |-> dh, n |-> s.Nr + i - 1, mk |-> kdfCK(s.CKr, s.Nr + i - 1)]]),
                   !.Nr = until]

(* --------------------------- encrypt and decrypt ------------------------- *)

\* The responder that sends first makes its own ratchet step.
SendReady(s) ==
    IF s.CKs # Null THEN s
    ELSE LET dhs == generateKeyPair(s)
             rk == kdfRK(s.RK, sharedKey(dhs, s.DHr)) IN
         [s EXCEPT !.PN = s.Ns, !.Ns = 0, !.DHs = dhs, !.RK = rk, !.CKs = rk]

Slot(s) == LET r == SendReady(s) IN
    [dh |-> r.DHs, n |-> r.Ns, pn |-> r.PN, mk |-> kdfCK(r.CKs, r.Ns)]
Advanced(s) == [SendReady(s) EXCEPT !.Ns = @ + 1]

Forget(keys, i) == SubSeq(keys, 1, i - 1) \o SubSeq(keys, i + 1, Len(keys))

Bug_decrypt(s, h) ==
    LET hits == {i \in DOMAIN s.MKSKIPPED : s.MKSKIPPED[i].dh = h.dh /\ s.MKSKIPPED[i].n = h.n}
        turns == h.dh # s.DHr
        s1 == IF turns THEN dhRatchet(skipMessageKeys(s, h.pn, s.DHr), h.dh) ELSE s
        s2 == skipMessageKeys(s1, h.n, h.dh) IN
    IF hits # {} THEN
        LET i == CHOOSE j \in hits : TRUE IN
        [ok |-> s.MKSKIPPED[i].mk = h.mk, s |-> s]
    ELSE IF (turns /\ TooFar(s, h.pn)) \/ TooFar(s1, h.n) \/ s2.CKr = Null
            \/ kdfCK(s2.CKr, s2.Nr) # h.mk
         THEN [ok |-> FALSE, s |-> s]
         ELSE [ok |-> TRUE, s |-> [s2 EXCEPT !.Nr = @ + 1]]

\* The key a skipped message was given is used once; any other frame advances
\* a copy of the state, kept only when the frame authenticates.
decrypt(s, h) ==
    LET hits == {i \in DOMAIN s.MKSKIPPED : s.MKSKIPPED[i].dh = h.dh /\ s.MKSKIPPED[i].n = h.n}
        turns == h.dh # s.DHr
        s1 == IF turns THEN dhRatchet(skipMessageKeys(s, h.pn, s.DHr), h.dh) ELSE s
        s2 == skipMessageKeys(s1, h.n, h.dh) IN
    IF hits # {} THEN
        LET i == CHOOSE j \in hits : TRUE IN
        IF s.MKSKIPPED[i].mk = h.mk
        THEN [ok |-> TRUE, s |-> [s EXCEPT !.MKSKIPPED = Forget(@, i)]]
        ELSE [ok |-> FALSE, s |-> s]
    ELSE IF (turns /\ TooFar(s, h.pn)) \/ TooFar(s1, h.n) \/ s2.CKr = Null
            \/ kdfCK(s2.CKr, s2.Nr) # h.mk
         THEN [ok |-> FALSE, s |-> s]
         ELSE [ok |-> TRUE, s |-> [s2 EXCEPT !.Nr = @ + 1]]
=============================================================================
