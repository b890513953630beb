----------------------- MODULE SessionLifecycle_proofs -----------------------
(***************************************************************************)
(* Theorems about SessionLifecycle, for every number of pages and every    *)
(* value of the limits.                                                    *)
(***************************************************************************)
EXTENDS SessionLifecycle, FiniteSetTheorems, TLAPS

LEMMA PresentCount ==
  ASSUME NEW st
  PROVE  /\ Cardinality(Present(st)) \in Nat
         /\ Present(st) = {} <=> Cardinality(Present(st)) = 0
<1>1. IsFiniteSet(Present(st))
  BY LifecycleAssumption, FS_Subset DEF Present
<1> QED
  BY <1>1, FS_CardinalityType, FS_EmptySet

LEMMA SyncType ==
  ASSUME NEW v \in Vault, NEW st, now \in Nat
  PROVE  /\ syncPresence(v, st) \in Vault
         /\ syncPresence(v, st).createdAt = v.createdAt
         /\ syncPresence(v, st).expiresAt = v.expiresAt
         /\ syncPresence(v, st).lastActivityAt = v.lastActivityAt
         /\ syncPresence(v, st).count = Cardinality(Present(st))
         /\ Present(st) # {} => syncPresence(v, st).emptySince = NoTime
         /\ Present(st) = {} => syncPresence(v, st).emptySince =
                                  IF v.emptySince = NoTime THEN now ELSE v.emptySince
BY PresentCount DEF syncPresence, Vault, Times

LEMMA RefreshedType ==
  ASSUME NEW v \in Vault, now \in Nat
  PROVE  /\ refreshed(v) \in Vault
         /\ refreshed(v).createdAt = v.createdAt
         /\ refreshed(v).expiresAt = Minimum(now + DefaultTtl, v.createdAt + MaxTtl)
         /\ refreshed(v).lastActivityAt = now
         /\ refreshed(v).count = v.count
         /\ refreshed(v).emptySince = v.emptySince
<1>1. Minimum(now + DefaultTtl, v.createdAt + MaxTtl) \in Nat
  BY LifecycleAssumption DEF Minimum, Vault
<1> QED
  BY <1>1 DEF refreshed, Vault

-----------------------------------------------------------------------------
(* Type correctness.                                                       *)

LEMMA NextTypeOK == TypeOK /\ [Next]_vars => TypeOK'
<1> SUFFICES ASSUME TypeOK, [Next]_vars PROVE TypeOK'
  OBVIOUS
<1> USE LifecycleAssumption
<1>1. ASSUME NEW ttl \in Ttls, Create(ttl) PROVE TypeOK'
  BY <1>1 DEF Create, TypeOK, Vault, Times, Minimum
<1>2. CASE Destroy
  BY <1>2 DEF Destroy, Removed, TypeOK
<1>3. CASE Tick
  BY <1>3 DEF Tick, TypeOK
<1>4. CASE Sweep
  BY <1>4 DEF Sweep, Removed, TypeOK
<1>5. ASSUME NEW c \in Clients, Open(c) PROVE TypeOK'
  <2>1. vault \in Vault
    BY <1>5 DEF Open, TypeOK
  <2> QED
    BY <1>5, <2>1 DEF Open, TypeOK, Vault
<1>6. ASSUME NEW c \in Clients, Wait(c) PROVE TypeOK'
  BY <1>6 DEF Wait, TypeOK
<1>7. ASSUME NEW c \in Clients, Relay(c) PROVE TypeOK'
  BY <1>7 DEF Relay, TypeOK, Vault, Times
<1>8. ASSUME NEW c \in Clients, NEW b \in BOOLEAN, Refresh(c, b) PROVE TypeOK'
  <2>1. CASE MayRefresh(c)
    <3>1. vault \in Vault
      BY <2>1 DEF MayRefresh, TypeOK
    <3>2. vault' = refreshed(vault) /\ vault' \in Vault
      BY <1>8, <2>1, <3>1, RefreshedType DEF Refresh, TypeOK
    <3>3. vault'.expiresAt \in Nat
      BY <3>2 DEF Vault
    <3>4. timer' \in [Clients -> Nat]
      BY <1>8, <2>1, <3>3 DEF Refresh, TypeOK
    <3> QED
      BY <1>8, <3>2, <3>4 DEF Refresh, TypeOK
  <2>2. CASE ~MayRefresh(c)
    BY <1>8, <2>2 DEF Refresh, TypeOK
  <2> QED
    BY <2>1, <2>2
<1>9. ASSUME NEW c \in Clients, NEW b \in BOOLEAN, Leave(c, b) PROVE TypeOK'
  <2>1. vault \in Vault
    BY <1>9 DEF Leave, TypeOK
  <2>2. vault' \in Vault
    BY <1>9, <2>1, SyncType DEF Leave, TypeOK
  <2> QED
    BY <1>9, <2>2 DEF Leave, TypeOK, Times
<1>10. ASSUME NEW c \in Clients, NEW gone \in SUBSET Clients, Admit(c, gone)
       PROVE  TypeOK'
  <2>1. vault \in Vault
    BY <1>10 DEF Admit, TypeOK
  <2>2. vault' \in Vault
    BY <1>10, <2>1, SyncType DEF Admit, TypeOK
  <2> QED
    BY <1>10, <2>2 DEF Admit, TypeOK, Times
<1>11. CASE UNCHANGED vars
  BY <1>11 DEF vars, TypeOK
<1> QED
  BY <1>1, <1>2, <1>3, <1>4, <1>5, <1>6, <1>7, <1>8, <1>9, <1>10, <1>11 DEF Next

LEMMA InitTypeOK == Init => TypeOK
BY LifecycleAssumption DEF Init, TypeOK, Times

\* Times stay natural numbers, the store holds a session or none.
THEOREM TypeCorrect == Spec => []TypeOK
BY InitTypeOK, NextTypeOK, PTL DEF Spec

-----------------------------------------------------------------------------
(* The hard limit.                                                         *)

\* The sweep's countdown measures how late a removal can still be.
HardLimit ==
  vault # NoVault =>
    /\ vault.expiresAt <= vault.createdAt + MaxTtl
    /\ now + sweepIn <= vault.createdAt + MaxTtl + SweepEvery

\* A step that leaves the clock and the two times of the session alone.
LEMMA HardLimitKept ==
  ASSUME HardLimit, UNCHANGED <<now, sweepIn>>,
         vault' # NoVault => /\ vault # NoVault
                             /\ vault'.createdAt = vault.createdAt
                             /\ vault'.expiresAt = vault.expiresAt
  PROVE  HardLimit'
BY DEF HardLimit

LEMMA NextHardLimit == TypeOK /\ HardLimit /\ [Next]_vars => HardLimit'
<1> SUFFICES ASSUME TypeOK, HardLimit, [Next]_vars PROVE HardLimit'
  OBVIOUS
<1> USE LifecycleAssumption
<1>1. ASSUME NEW ttl \in Ttls, Create(ttl) PROVE HardLimit'
  <2>1. vault'.expiresAt = now + Minimum(ttl, MaxTtl) /\ vault'.createdAt = now
        /\ UNCHANGED <<now, sweepIn>>
    BY <1>1 DEF Create
  <2>2. ttl \in Nat
    OBVIOUS
  <2> QED
    BY <2>1, <2>2 DEF HardLimit, TypeOK, Minimum
<1>2. CASE Destroy
  BY <1>2 DEF Destroy, Removed, HardLimit
<1>3. CASE Tick
  <2>1. CASE vault # NoVault
    <3>1. vault \in Vault
      BY <2>1 DEF TypeOK
    <3> QED
      BY <1>3, <2>1, <3>1 DEF Tick, HardLimit, TypeOK, Vault
  <2> QED
    BY <1>3, <2>1 DEF Tick, HardLimit
<1>4. CASE Sweep
  <2>1. CASE vault # NoVault /\ ~Reapable(vault)
    <3>1. vault \in Vault /\ UNCHANGED <<vault, now>> /\ sweepIn' = SweepEvery
      BY <1>4, <2>1 DEF Sweep, TypeOK
    <3>2. now <= vault.expiresAt
      BY <2>1, <3>1 DEF Reapable, Vault, TypeOK
    <3> QED
      BY <2>1, <3>1, <3>2 DEF HardLimit, Vault, TypeOK
  <2>2. CASE ~(vault # NoVault /\ ~Reapable(vault))
    BY <1>4, <2>2 DEF Sweep, Removed, HardLimit
  <2> QED
    BY <2>1, <2>2
<1>5. ASSUME NEW c \in Clients, Open(c) \/ Wait(c) PROVE HardLimit'
  BY <1>5, HardLimitKept DEF Open, Wait
<1>6. ASSUME NEW c \in Clients, Relay(c) PROVE HardLimit'
  <2>1. vault \in Vault /\ vault # NoVault
    BY <1>6 DEF Relay, TypeOK
  <2>2. vault'.createdAt = vault.createdAt /\ vault'.expiresAt = vault.expiresAt
    BY <1>6, <2>1 DEF Relay, Vault
  <2> QED
    BY <1>6, <2>1, <2>2, HardLimitKept DEF Relay
<1>7. ASSUME NEW c \in Clients, NEW b \in BOOLEAN, Refresh(c, b) PROVE HardLimit'
  <2>1. CASE MayRefresh(c)
    <3>1. vault \in Vault /\ vault # NoVault /\ vault' = refreshed(vault)
          /\ UNCHANGED <<now, sweepIn>>
      BY <1>7, <2>1 DEF Refresh, MayRefresh, TypeOK
    <3>2. /\ vault'.createdAt = vault.createdAt
          /\ vault'.expiresAt = Minimum(now + DefaultTtl, vault.createdAt + MaxTtl)
      BY <3>1, RefreshedType DEF TypeOK
    <3>3. vault.createdAt \in Nat
      BY <3>1 DEF Vault
    <3> QED
      BY <3>1, <3>2, <3>3 DEF HardLimit, TypeOK, Minimum
  <2>2. CASE ~MayRefresh(c)
    BY <1>7, <2>2, HardLimitKept DEF Refresh
  <2> QED
    BY <2>1, <2>2
<1>8. ASSUME NEW c \in Clients, NEW b \in BOOLEAN, NEW gone \in SUBSET Clients,
             Leave(c, b) \/ Admit(c, gone)
      PROVE  HardLimit'
  <2>1. /\ vault \in Vault /\ vault # NoVault /\ vault' = syncPresence(vault, status')
        /\ UNCHANGED <<now, sweepIn>>
    BY <1>8 DEF Leave, Admit, TypeOK
  <2> QED
    BY <2>1, SyncType, HardLimitKept DEF TypeOK
<1>9. CASE UNCHANGED vars
  BY <1>9, HardLimitKept DEF vars
<1> QED
  BY <1>1, <1>2, <1>3, <1>4, <1>5, <1>6, <1>7, <1>8, <1>9 DEF Next

\* No sequence of refreshes keeps a vault longer than MAX_TTL and one sweep.
THEOREM LifetimesBounded == Spec => []LifetimeBounded
<1>1. Init => HardLimit
  BY DEF Init, HardLimit
<1>2. TypeOK /\ HardLimit => LifetimeBounded
  <2> SUFFICES ASSUME TypeOK, HardLimit, vault # NoVault
               PROVE  now <= vault.createdAt + MaxTtl + SweepEvery
    BY DEF LifetimeBounded
  <2>1. vault \in Vault
    BY DEF TypeOK
  <2> QED
    BY <2>1, LifecycleAssumption DEF HardLimit, TypeOK, Vault
<1> QED
  BY <1>1, <1>2, NextHardLimit, TypeCorrect, PTL DEF Spec

-----------------------------------------------------------------------------
(* Abandoned vaults.                                                       *)

\* While everybody is gone, emptySince is when the last one left, and the
\* sweep is never further away than its interval.
Abandonment ==
  vault # NoVault =>
    /\ Present(status) # {} => vault.emptySince = NoTime /\ leftAt = NoTime
    /\ leftAt # NoTime => /\ vault.count = 0 /\ vault.emptySince = leftAt
                          /\ now + sweepIn <= leftAt + EmptyTtl + SweepEvery

LEMMA AbandonmentKept ==
  ASSUME Abandonment, UNCHANGED <<now, sweepIn, status, leftAt>>,
         vault' # NoVault => /\ vault # NoVault
                             /\ vault'.count = vault.count
                             /\ vault'.emptySince = vault.emptySince
  PROVE  Abandonment'
BY DEF Abandonment, Present

LEMMA NextAbandonment == TypeOK /\ Abandonment /\ [Next]_vars => Abandonment'
<1> SUFFICES ASSUME TypeOK, Abandonment, [Next]_vars PROVE Abandonment'
  OBVIOUS
<1> USE LifecycleAssumption
<1>1. ASSUME NEW ttl \in Ttls, Create(ttl) PROVE Abandonment'
  BY <1>1 DEF Create, Abandonment
<1>2. CASE Destroy
  BY <1>2 DEF Destroy, Removed, Abandonment
<1>3. CASE Tick
  <2>1. now' + sweepIn' = now + sweepIn
    BY <1>3 DEF Tick, TypeOK
  <2>2. UNCHANGED <<vault, status, leftAt>> /\ Present(status') = Present(status)
    BY <1>3 DEF Tick, Present
  <2> QED
    BY <2>1, <2>2 DEF Abandonment
<1>4. CASE Sweep
  <2>1. CASE vault # NoVault /\ ~Reapable(vault)
    <3>1. /\ vault \in Vault /\ UNCHANGED <<vault, status, now, leftAt>>
          /\ sweepIn' = SweepEvery
      BY <1>4, <2>1 DEF Sweep, TypeOK
    <3>2. leftAt # NoTime => now <= leftAt + EmptyTtl
      BY <2>1, <3>1 DEF Abandonment, Reapable, TypeOK, Times
    <3>3. leftAt # NoTime => now + sweepIn' <= leftAt + EmptyTtl + SweepEvery
      BY <3>1, <3>2 DEF TypeOK, Times
    <3> QED
      BY <2>1, <3>1, <3>3 DEF Abandonment, Present
  <2>2. CASE ~(vault # NoVault /\ ~Reapable(vault))
    BY <1>4, <2>2 DEF Sweep, Removed, Abandonment
  <2> QED
    BY <2>1, <2>2
<1>5. ASSUME NEW c \in Clients, Open(c) PROVE Abandonment'
  BY <1>5, AbandonmentKept DEF Open
<1>6. ASSUME NEW c \in Clients, Wait(c) PROVE Abandonment'
  <2>1. Present(status') = Present(status)
    BY <1>6 DEF Wait, Present, TypeOK
  <2> QED
    BY <1>6, <2>1 DEF Wait, Abandonment
<1>7. ASSUME NEW c \in Clients, Relay(c) PROVE Abandonment'
  <2>1. vault \in Vault /\ vault # NoVault
    BY <1>7 DEF Relay, TypeOK
  <2>2. vault'.count = vault.count /\ vault'.emptySince = vault.emptySince
    BY <1>7, <2>1 DEF Relay, Vault
  <2> QED
    BY <1>7, <2>1, <2>2, AbandonmentKept DEF Relay
<1>8. ASSUME NEW c \in Clients, NEW b \in BOOLEAN, Refresh(c, b) PROVE Abandonment'
  <2>1. CASE MayRefresh(c)
    <3>1. vault \in Vault /\ vault # NoVault /\ vault' = refreshed(vault)
      BY <1>8, <2>1 DEF Refresh, MayRefresh, TypeOK
    <3>2. vault'.count = vault.count /\ vault'.emptySince = vault.emptySince
      BY <3>1, RefreshedType DEF TypeOK
    <3> QED
      BY <1>8, <3>1, <3>2, AbandonmentKept DEF Refresh
  <2>2. CASE ~MayRefresh(c)
    BY <1>8, <2>2, AbandonmentKept DEF Refresh
  <2> QED
    BY <2>1, <2>2
<1>9. ASSUME NEW c \in Clients, NEW b \in BOOLEAN, Leave(c, b) PROVE Abandonment'
  <2>1. /\ vault \in Vault /\ vault # NoVault /\ vault' = syncPresence(vault, status')
        /\ status' = [status EXCEPT ![c] = "away"] /\ UNCHANGED <<now, sweepIn>>
        /\ leftAt' = IF Present(status) # {} /\ Present(status') = {} THEN now ELSE leftAt
    BY <1>9 DEF Leave, TypeOK
  <2>2. Present(status') \subseteq Present(status)
    BY <2>1 DEF Present, TypeOK
  <2>3. now \in Nat /\ sweepIn \in 0 .. SweepEvery
    BY DEF TypeOK
  <2>4. CASE Present(status') # {}
    BY <2>1, <2>2, <2>3, <2>4, SyncType DEF Abandonment
  <2>5. CASE Present(status') = {}
    <3>0. PICK st : st = status'
      OBVIOUS
    <3>1. vault'.count = 0
      <4>1. Cardinality(Present(st)) = 0
        BY <2>5, <3>0, PresentCount
      <4> QED BY <2>1, <2>3, <3>0, <4>1, SyncType
    <3>2. vault'.emptySince = IF vault.emptySince = NoTime THEN now ELSE vault.emptySince
      BY <2>1, <2>3, <2>5, SyncType
    <3>3. CASE Present(status) # {}
      <4>1. leftAt' = now /\ vault'.emptySince = now
        BY <2>1, <2>5, <3>2, <3>3 DEF Abandonment
      <4>2. now + sweepIn <= now + EmptyTtl + SweepEvery
        BY <2>3
      <4> QED
        BY <2>1, <2>5, <3>1, <4>1, <4>2 DEF Abandonment
    <3>4. CASE Present(status) = {}
      BY <2>1, <2>5, <3>1, <3>2, <3>4 DEF Abandonment
    <3> QED
      BY <3>3, <3>4
  <2> QED
    BY <2>4, <2>5
<1>10. ASSUME NEW c \in Clients, NEW gone \in SUBSET Clients, Admit(c, gone)
       PROVE  Abandonment'
  <2>1. /\ vault \in Vault /\ vault # NoVault /\ vault' = syncPresence(vault, status')
        /\ leftAt' = NoTime
    BY <1>10 DEF Admit, TypeOK
  <2>2. c \in Present(status')
    BY <1>10 DEF Admit, Present, TypeOK
  <2> QED
    BY <2>1, <2>2, SyncType DEF Abandonment, TypeOK
<1>11. CASE UNCHANGED vars
  BY <1>11, AbandonmentKept DEF vars
<1> QED
  BY <1>1, <1>2, <1>3, <1>4, <1>5, <1>6, <1>7, <1>8, <1>9, <1>10, <1>11 DEF Next

\* A vault its last participant has left is gone after EMPTY_SESSION_TTL and
\* one sweep interval, for all values of the two and all guests that wait.
THEOREM AbandonedAreReaped == Spec => []AbandonedReaped
<1>1. Init => Abandonment
  BY DEF Init, Abandonment
<1>2. TypeOK /\ Abandonment => AbandonedReaped
  BY LifecycleAssumption DEF AbandonedReaped, Abandonment, TypeOK, Times
<1> QED
  BY <1>1, <1>2, NextAbandonment, TypeCorrect, PTL DEF Spec

-----------------------------------------------------------------------------
(* Countdowns.                                                             *)

\* Every vault starts with the default lifetime, as the app creates them, and
\* the default fits in the other limits.
AppVaults == Ttls = {DefaultTtl} /\ DefaultTtl <= MaxTtl /\ DefaultTtl <= InactivityTtl

\* No page shows more time than the session has, and the session never has
\* more than the default lifetime left, counted from now or from its last
\* activity; so a refresh cannot shorten it.
Countdowns ==
  /\ \A c \in Clients : timer[c] <= now + DefaultTtl
  /\ vault # NoVault =>
       /\ \A c \in Clients : timer[c] <= vault.expiresAt
       /\ vault.expiresAt <= now + DefaultTtl
       /\ vault.expiresAt <= vault.lastActivityAt + DefaultTtl
       /\ Present(status) # {} => vault.count # 0

LEMMA CountdownsKept ==
  ASSUME Countdowns, UNCHANGED <<now, timer, status>>,
         vault' # NoVault => /\ vault # NoVault
                             /\ vault'.expiresAt = vault.expiresAt
                             /\ vault'.lastActivityAt = vault.lastActivityAt
                             /\ vault'.count = vault.count
  PROVE  Countdowns'
BY DEF Countdowns, Present

LEMMA NextCountdowns ==
  ASSUME AppVaults, TypeOK, HardLimit, Countdowns, [Next]_vars
  PROVE  Countdowns'
<1> USE LifecycleAssumption
<1>0. now \in Nat /\ timer \in [Clients -> Nat]
  BY DEF TypeOK
<1>1. ASSUME NEW ttl \in Ttls, Create(ttl) PROVE Countdowns'
  <2>1. ttl = DefaultTtl /\ Minimum(ttl, MaxTtl) = DefaultTtl
    BY DEF AppVaults, Minimum
  <2>2. /\ vault'.expiresAt = now + DefaultTtl /\ vault'.lastActivityAt = now
        /\ vault'.count = 1
        /\ timer' = [timer EXCEPT ![Host] = now + DefaultTtl] /\ UNCHANGED now
    BY <1>1, <2>1 DEF Create
  <2> QED
    BY <1>0, <2>2 DEF Countdowns
<1>2. CASE Destroy
  <2>1. \A c \in Clients : timer'[c] <= timer[c]
    BY <1>0, <1>2 DEF Destroy
  <2>2. timer' \in [Clients -> Nat]
    BY <1>0, <1>2 DEF Destroy
  <2>3. \A c \in Clients : timer'[c] <= now + DefaultTtl
    BY <1>0, <2>1, <2>2 DEF Countdowns
  <2> QED
    BY <1>2, <2>3 DEF Destroy, Removed, Countdowns
<1>3. CASE Tick
  <2>1. now' = now + 1 /\ UNCHANGED <<vault, status>>
        /\ \A c \in Clients : timer'[c] = timer[c] \/ timer'[c] = 0
    BY <1>3 DEF Tick
  <2>2. CASE vault = NoVault
    BY <1>0, <2>1, <2>2 DEF Countdowns
  <2>3. CASE vault # NoVault
    <3>1. vault \in Vault
      BY <2>3 DEF TypeOK
    <3> QED
      BY <1>0, <2>1, <2>3, <3>1 DEF Countdowns, Vault, Present
  <2> QED
    BY <2>2, <2>3
<1>4. CASE Sweep
  <2>1. CASE vault # NoVault /\ Reapable(vault)
    BY <1>4, <2>1 DEF Sweep, Removed, Countdowns
  <2>2. CASE ~(vault # NoVault /\ Reapable(vault))
    BY <1>4, <2>2, CountdownsKept DEF Sweep
  <2> QED
    BY <2>1, <2>2
<1>5. ASSUME NEW c \in Clients, Open(c) PROVE Countdowns'
  <2>1. vault \in Vault /\ vault # NoVault
    BY <1>5 DEF Open, TypeOK
  <2>2. \A d \in Clients : timer'[d] = timer[d] \/ timer'[d] = vault.expiresAt
                           \/ timer'[d] = 0
    BY <1>0, <1>5 DEF Open
  <2> QED
    BY <1>0, <1>5, <2>1, <2>2 DEF Open, Countdowns, Vault
<1>6. ASSUME NEW c \in Clients, Wait(c) PROVE Countdowns'
  <2>1. Present(status') = Present(status)
    BY <1>6 DEF Wait, Present, TypeOK
  <2> QED
    BY <1>6, <2>1 DEF Wait, Countdowns
<1>7. ASSUME NEW c \in Clients, Relay(c) PROVE Countdowns'
  <2>1. vault \in Vault /\ vault # NoVault
    BY <1>7 DEF Relay, TypeOK
  <2>2. /\ vault'.expiresAt = vault.expiresAt /\ vault'.lastActivityAt = now
        /\ vault'.count = vault.count
    BY <1>7, <2>1 DEF Relay, Vault
  <2> QED
    BY <1>7, <2>1, <2>2 DEF Relay, Countdowns
<1>8. ASSUME NEW c \in Clients, NEW b \in BOOLEAN, Refresh(c, b) PROVE Countdowns'
  <2>1. CASE MayRefresh(c)
    <3>1. /\ vault \in Vault /\ vault # NoVault /\ vault' = refreshed(vault)
          /\ UNCHANGED <<now, status>>
      BY <1>8, <2>1 DEF Refresh, MayRefresh, TypeOK
    <3>2. /\ vault'.expiresAt = Minimum(now + DefaultTtl, vault.createdAt + MaxTtl)
          /\ vault'.lastActivityAt = now /\ vault'.count = vault.count
      BY <1>0, <3>1, RefreshedType
    <3>3. /\ vault.expiresAt <= vault'.expiresAt /\ vault'.expiresAt <= now + DefaultTtl
          /\ vault'.expiresAt \in Nat /\ vault.expiresAt \in Nat
      BY <1>0, <3>1, <3>2 DEF HardLimit, Countdowns, Minimum, Vault
    <3>4. \A d \in Clients : timer'[d] = timer[d] \/ timer'[d] = vault'.expiresAt
      BY <1>0, <1>8, <2>1 DEF Refresh
    <3>5. \A d \in Clients : timer'[d] <= vault'.expiresAt
      BY <1>0, <3>1, <3>3, <3>4 DEF Countdowns
    <3>6. \A d \in Clients : timer'[d] <= now + DefaultTtl
      BY <1>0, <3>3, <3>4 DEF Countdowns
    <3> QED
      BY <3>1, <3>2, <3>3, <3>5, <3>6 DEF Countdowns, Present
  <2>2. CASE ~MayRefresh(c)
    BY <1>8, <2>2, CountdownsKept DEF Refresh
  <2> QED
    BY <2>1, <2>2
<1>9. ASSUME NEW c \in Clients, NEW b \in BOOLEAN, NEW gone \in SUBSET Clients,
             Leave(c, b) \/ Admit(c, gone)
      PROVE  Countdowns'
  <2>1. /\ vault \in Vault /\ vault # NoVault /\ vault' = syncPresence(vault, status')
        /\ UNCHANGED now
    BY <1>9 DEF Leave, Admit, TypeOK
  <2>2. /\ vault'.expiresAt = vault.expiresAt
        /\ vault'.lastActivityAt = vault.lastActivityAt
        /\ Present(status') # {} => vault'.count # 0
    BY <1>0, <2>1, SyncType, PresentCount
  <2>3. \A d \in Clients : timer'[d] = timer[d] \/ timer'[d] = 0
    BY <1>0, <1>9 DEF Leave, Admit
  <2> QED
    BY <1>0, <2>1, <2>2, <2>3 DEF Countdowns, Vault
<1>10. CASE UNCHANGED vars
  BY <1>10, CountdownsKept DEF vars
<1> QED
  BY <1>1, <1>2, <1>3, <1>4, <1>5, <1>6, <1>7, <1>8, <1>9, <1>10 DEF Next

\* In the app's vaults no refresh, lost answer or idle conversation lets the
\* sweep take a vault from a connected participant with time left on its page.
THEOREM ParticipantsNotCutOff == AppVaults => (Spec => NoCutOff)
<1> SUFFICES ASSUME AppVaults PROVE Spec => NoCutOff
  OBVIOUS
<1>1. Init => HardLimit /\ Countdowns
  BY LifecycleAssumption DEF Init, HardLimit, Countdowns
<1>2. TypeOK /\ HardLimit /\ Countdowns /\ [Next]_vars => (HardLimit /\ Countdowns)'
  BY NextHardLimit, NextCountdowns
<1>3. TypeOK /\ Countdowns /\ [Next]_vars =>
        [Sweep /\ vault # NoVault /\ vault' = NoVault =>
           \A c \in Present(status) : timer[c] <= now]_vars
  <2> SUFFICES ASSUME TypeOK, Countdowns, Sweep, vault # NoVault, vault' = NoVault,
                      NEW c \in Present(status)
               PROVE  timer[c] <= now
    OBVIOUS
  <2>1. /\ vault \in Vault /\ c \in Clients /\ now \in Nat /\ timer[c] \in Nat
        /\ Present(status) # {}
    BY DEF TypeOK, Present
  <2>2. Reapable(vault)
    BY DEF Sweep
  <2>3. /\ timer[c] <= vault.expiresAt /\ vault.count # 0
        /\ vault.expiresAt <= vault.lastActivityAt + DefaultTtl
    BY <2>1 DEF Countdowns
  <2> QED
    BY <2>1, <2>2, <2>3, LifecycleAssumption DEF Reapable, Vault, AppVaults
<1> QED
  BY <1>1, <1>2, <1>3, TypeCorrect, PTL DEF Spec, NoCutOff
=============================================================================
