-------------------------- MODULE SessionLifecycle --------------------------
(***************************************************************************)
(* The life of one vault in the relay's store, by the clock: creation,     *)
(* refresh, activity, presence, the host's DELETE and the cleanup sweep    *)
(* (server.ts, create- and cleanup-sessions, in-memory-session.store), and *)
(* the countdowns of the pages that keep it alive (useSession).            *)
(*                                                                         *)
(* Time is a number of ticks.  A page's timer runs every second, so a tick *)
(* does not pass before every countdown inside its refresh window has had  *)
(* a request served; the answer to it may be lost.  The sweep runs when    *)
(* its interval is over, before the next tick.  Who is admitted and why is *)
(* VaultAdmission's matter; here a participant comes and goes.             *)
(***************************************************************************)
EXTENDS Naturals, FiniteSets

CONSTANTS
  Clients, Host,   \* pages; Host holds the recovery token
  DefaultTtl,      \* SESSION_LIMITS.DEFAULT_TTL_MS
  MaxTtl,          \* SESSION_LIMITS.MAX_TTL_MS
  InactivityTtl,   \* SESSION_LIMITS.INACTIVITY_TTL_MS
  EmptyTtl,        \* SESSION_LIMITS.EMPTY_SESSION_TTL_MS
  SweepEvery,      \* CLEANUP_INTERVAL_MS
  Window,          \* useSession refreshes with less than this left
  Ttls,            \* the values of expiresInSeconds that are asked for
  ApiCallers,      \* TRUE: programs other than the app refresh when they like
  MaxNow,          \* bound on the clock
  NoTime, NoVault

ASSUME LifecycleAssumption ==
  /\ IsFiniteSet(Clients) /\ Host \in Clients
  /\ DefaultTtl \in Nat /\ MaxTtl \in Nat /\ InactivityTtl \in Nat
  /\ EmptyTtl \in Nat /\ SweepEvery \in Nat \ {0} /\ Window \in Nat
  /\ Ttls \subseteq Nat \ {0} /\ ApiCallers \in BOOLEAN /\ MaxNow \in Nat
  /\ NoTime \notin Nat

VARIABLES
  now,
  sweepIn,      \* ticks until setInterval runs the sweep
  vault,        \* the session in the store, or NoVault
  slots,        \* clients with a slot (and so a token) in session.peers
  status,       \* each client's socket: away, waiting for the host, or in
  timer,        \* each page's countdown: its copy of expiresAt, 0 when it shows none
  served,       \* pages whose refresh has been served during this tick
  leftAt,       \* history: since when everybody has been gone
  lastMessage   \* history: when a message was last relayed

vars == <<now, sweepIn, vault, slots, status, timer, served, leftAt, lastMessage>>

Times == Nat \cup {NoTime}

Vault == [createdAt: Nat, expiresAt: Nat, lastActivityAt: Nat, count: Nat,
          emptySince: Times]

TypeOK ==
  /\ now \in Nat /\ sweepIn \in 0 .. SweepEvery
  /\ vault = NoVault \/ vault \in Vault
  /\ slots \subseteq Clients /\ served \subseteq Clients
  /\ status \in [Clients -> {"away", "waiting", "in"}]
  /\ timer \in [Clients -> Nat]
  /\ leftAt \in Times /\ lastMessage \in Times

-----------------------------------------------------------------------------

Minimum(a, b) == IF a <= b THEN a ELSE b

Present(st) == {c \in Clients : st[c] = "in"}

\* emptySince keeps the moment the vault became empty: `emptySince ?? now'.
Bug_EmptyRestarts(v, st) ==
  [v EXCEPT !.count = Cardinality(Present(st)),
            !.emptySince = IF Present(st) = {} THEN now ELSE NoTime]
syncPresence(v, st) ==
  [v EXCEPT !.count = Cardinality(Present(st)),
            !.emptySince = IF Present(st) # {} THEN NoTime
                           ELSE IF @ = NoTime THEN now ELSE @]

Bug_NoHardCap(v) ==
  [v EXCEPT !.expiresAt = now + DefaultTtl, !.lastActivityAt = now]
Bug_RefreshIsNoActivity(v) ==
  [v EXCEPT !.expiresAt = Minimum(now + DefaultTtl, v.createdAt + MaxTtl)]
\* POST /refresh, past its checks.
refreshed(v) ==
  [v EXCEPT !.expiresAt = Minimum(now + DefaultTtl, v.createdAt + MaxTtl),
            !.lastActivityAt = now]

\* One session's verdict in InMemorySessionStore.cleanup.
Reapable(v) ==
  \/ v.expiresAt < now
  \/ now - v.lastActivityAt > InactivityTtl
  \/ v.count = 0 /\ v.emptySince # NoTime /\ now - v.emptySince > EmptyTtl

Init ==
  /\ now = 0 /\ sweepIn = SweepEvery
  /\ vault = NoVault /\ slots = {} /\ served = {}
  /\ status = [c \in Clients |-> "away"]
  /\ timer = [c \in Clients |-> 0]
  /\ leftAt = NoTime /\ lastMessage = NoTime

-----------------------------------------------------------------------------
(* HTTP requests.                                                          *)

\* CreateSession: the host counts as present before its socket is there.
Create(ttl) ==
  /\ vault = NoVault
  /\ LET expires == now + Minimum(ttl, MaxTtl)
     IN  /\ vault' = [createdAt |-> now, expiresAt |-> expires,
                      lastActivityAt |-> now, count |-> 1, emptySince |-> NoTime]
         /\ timer' = [timer EXCEPT ![Host] = expires]
  /\ slots' = {Host}
  /\ leftAt' = NoTime /\ lastMessage' = NoTime
  /\ UNCHANGED <<now, sweepIn, status, served>>

\* GET /api/sessions/:id starts (or restarts) a page's countdown.
Open(c) ==
  /\ vault # NoVault
  /\ timer' = [timer EXCEPT ![c] = IF vault.expiresAt > now THEN vault.expiresAt ELSE 0]
  /\ UNCHANGED <<now, sweepIn, vault, slots, status, served, leftAt, lastMessage>>

Due(c) == timer[c] > now /\ timer[c] - now < Window

\* The participant check and the 409 of /refresh.
MayRefresh(c) == vault # NoVault /\ (c = Host \/ c \in slots) /\ vault.count > 0

\* The page's auto-refresh is served; heard says whether the answer arrives.
Refresh(c, heard) ==
  /\ Due(c) \/ (ApiCallers /\ timer[c] > now)
  /\ c \notin served
  /\ served' = served \cup {c}
  /\ IF MayRefresh(c)
     THEN /\ vault' = refreshed(vault)
          /\ timer' = IF heard THEN [timer EXCEPT ![c] = vault'.expiresAt] ELSE timer
     ELSE UNCHANGED <<vault, timer>>
  /\ UNCHANGED <<now, sweepIn, slots, status, leftAt, lastMessage>>

\* What removing the vault from the store does, with disconnectSession.
Removed ==
  /\ vault' = NoVault
  /\ slots' = {}
  /\ status' = [c \in Clients |-> "away"]

\* DELETE by the host, whose page leaves the vault.
Destroy ==
  /\ vault # NoVault
  /\ Removed
  /\ timer' = [timer EXCEPT ![Host] = 0]
  /\ UNCHANGED <<now, sweepIn, served, leftAt, lastMessage>>

-----------------------------------------------------------------------------
(* Sockets.                                                                *)

\* A page's socket is admitted: the host by its token, a slot holder by
\* rejoining, a waiting guest by the host.  Absent slots may be reclaimed.
Admit(c, gone) ==
  /\ vault # NoVault /\ status[c] # "in"
  /\ c = Host \/ c \in slots \/ (status[c] = "waiting" /\ status[Host] = "in")
  /\ gone \subseteq {d \in slots \ {c, Host} : status[d] # "in"}
  /\ status' = [status EXCEPT ![c] = "in"]
  /\ slots' = (slots \ gone) \cup {c}
  /\ vault' = syncPresence(vault, status')
  /\ served' = served \ {c}
  /\ leftAt' = NoTime
  /\ UNCHANGED <<now, sweepIn, timer, lastMessage>>

Wait(c) ==
  /\ vault # NoVault /\ status[c] = "away" /\ c \notin slots \cup {Host}
  /\ status[Host] = "in"
  /\ status' = [status EXCEPT ![c] = "waiting"]
  /\ UNCHANGED <<now, sweepIn, vault, slots, timer, served, leftAt, lastMessage>>

\* handleClose; the page may be closed too, or stay and reconnect.
Leave(c, page) ==
  /\ vault # NoVault /\ status[c] # "away"
  /\ status' = [status EXCEPT ![c] = "away"]
  /\ vault' = syncPresence(vault, status')
  /\ timer' = IF page THEN timer ELSE [timer EXCEPT ![c] = 0]
  /\ leftAt' = IF Present(status) # {} /\ Present(status') = {} THEN now ELSE leftAt
  /\ UNCHANGED <<now, sweepIn, slots, served, lastMessage>>

\* A message reaches somebody: RelayMessage touches the session.
Relay(c) ==
  /\ vault # NoVault /\ status[c] = "in" /\ Present(status) # {c}
  /\ vault' = [vault EXCEPT !.lastActivityAt = now]
  /\ lastMessage' = now
  /\ UNCHANGED <<now, sweepIn, slots, status, timer, served, leftAt>>

-----------------------------------------------------------------------------
(* The clock and the sweep.                                                *)

Tick ==
  /\ now < MaxNow /\ sweepIn > 0
  /\ \A c \in Clients : Due(c) => c \in served
  /\ now' = now + 1
  /\ sweepIn' = sweepIn - 1
  \* a countdown that reaches zero shows EXPIRED and clears its interval
  /\ timer' = [c \in Clients |-> IF timer[c] > now' THEN timer[c] ELSE 0]
  /\ served' = {}
  /\ UNCHANGED <<vault, slots, status, leftAt, lastMessage>>

Sweep ==
  /\ sweepIn = 0
  /\ sweepIn' = SweepEvery
  /\ IF vault # NoVault /\ Reapable(vault) THEN Removed
     ELSE UNCHANGED <<vault, slots, status>>
  /\ UNCHANGED <<now, timer, served, leftAt, lastMessage>>

Next ==
  \/ \E ttl \in Ttls : Create(ttl)
  \/ Destroy \/ Tick \/ Sweep
  \/ \E c \in Clients : Open(c) \/ Wait(c) \/ Relay(c)
  \/ \E c \in Clients, b \in BOOLEAN : Refresh(c, b) \/ Leave(c, b)
  \/ \E c \in Clients, gone \in SUBSET Clients : Admit(c, gone)

Spec == Init /\ [][Next]_vars

-----------------------------------------------------------------------------

\* No participant is cut off early: the sweep never removes a vault in which a
\* connected participant's own countdown still shows time left, however the
\* refreshes of several pages, their lost answers and presence interleave.
NoCutOff ==
  [][Sweep /\ vault # NoVault /\ vault' = NoVault =>
       \A c \in Present(status) : timer[c] <= now]_vars

\* Refreshing cannot keep a vault past its hard limit: it is gone one sweep
\* interval after createdAt + MAX_TTL at the latest.
LifetimeBounded ==
  vault # NoVault => now <= vault.createdAt + MaxTtl + SweepEvery

\* A vault that everybody has left is gone after EMPTY_SESSION_TTL and one
\* sweep, even if waiting guests come and go in the meantime.
AbandonedReaped ==
  vault # NoVault /\ leftAt # NoTime => now - leftAt <= EmptyTtl + SweepEvery

-----------------------------------------------------------------------------
(* What the repository's documents say, and the code does not do: TLC finds  *)
(* these two violated (README, "Disagreements").                            *)

\* docs/backend.md on POST /refresh: "Extends the session TTL".
RefreshExtends ==
  [][(\E c \in Clients, b \in BOOLEAN : Refresh(c, b)) /\ vault # NoVault
       => vault'.expiresAt >= vault.expiresAt]_vars

\* docs/security.md: sessions do not linger, they expire after "30-minute
\* inactivity (no messages relayed)".  One sweep interval is granted.
QuietVaultsReaped ==
  vault # NoVault =>
    LET since == IF lastMessage = NoTime THEN vault.createdAt ELSE lastMessage
    IN  now - since <= InactivityTtl + SweepEvery
=============================================================================
