--------------------------- MODULE VaultAdmission ---------------------------
(***************************************************************************)
(* Admission and presence in one vault of the relay.                       *)
(*                                                                         *)
(* The module models WebSocketTransport (ws.transport.ts) together with    *)
(* the in-memory session store, the create / delete HTTP handlers and the  *)
(* cleanup sweep, for ONE vault id.  A vault id may be destroyed and       *)
(* created again, so the session OBJECTS that have carried the id are      *)
(* numbered 1 .. made; `store' is the one the store's map holds now.       *)
(*                                                                         *)
(* Every handler is an async function.  It is split at its awaits: a task  *)
(* "got" has been handed a session by store.get and runs its body next; a  *)
(* task "saved" has called store.save and has its replies left to send.    *)
(* AwaitYields chooses how much may happen at an await:                    *)
(*   FALSE  the build as it is: the store's promises are already resolved, *)
(*          so only more frames of the same socket can come in between;    *)
(*   TRUE   every await is a scheduling point for every actor, which is    *)
(*          all that the ISessionStore port promises.                      *)
(*                                                                         *)
(* Abstractions: tokens are the set of credentials that match; time is     *)
(* the event GraceElapses; of the frames, `joined' and the last roster are *)
(* kept for each socket.  A client sends one join per socket, as useRelay  *)
(* and the CLI do.  Definitions named Bug_... are wrong variants of the     *)
(* definition after them; no specification uses them.                      *)
(***************************************************************************)
EXTENDS Naturals, FiniteSets

CONSTANTS
  HostIds,      \* peer ids the host's devices use (they hold the recovery token)
  Guests,       \* peer ids of everyone else
  Members,      \* the guests that hold a membership token for this vault
  Sockets,      \* WebSocket objects
  MaxPeers,     \* session.maxPeers
  MaxPending,   \* SESSION_LIMITS.MAX_PENDING_PEERS
  MaxVaults,    \* bound: session objects created under the vault id
  MaxTasks,     \* bound: handlers in flight at once
  AwaitYields,  \* see above
  NoPeer, NoSocket

Peers == HostIds \cup Guests

ASSUME VaultAssumption ==
  /\ IsFiniteSet(Peers) /\ HostIds # {}
  /\ Members \subseteq Guests
  /\ MaxPeers \in Nat \ {0, 1}          \* clampPeers: at least 2
  /\ MaxPending \in Nat
  /\ MaxVaults \in Nat /\ MaxTasks \in Nat
  /\ AwaitYields \in BOOLEAN
  /\ NoPeer \notin Peers /\ NoSocket \notin Sockets

VARIABLES
  made,       \* number of session objects created so far
  vault,      \* the session objects
  store,      \* the object under the id in InMemorySessionStore.sessions, or 0
  deleted,    \* InMemorySessionStore.deleted
  conn,       \* connections: peer id -> socket
  connected,  \* sessionPeers of this vault
  sock,       \* each socket: readyState, bound identity, last frames sent to it
  tasks,      \* handlers suspended at an await
  owner       \* history: the socket that registered last under each peer id

vars == <<made, vault, store, deleted, conn, connected, sock, tasks, owner>>

Ids == 1 .. MaxVaults

Credentials == SUBSET {"recovery", "peerToken", "member"}

Vault == [hostId: Peers, peers: SUBSET Peers, pending: SUBSET Peers,
          old: SUBSET Peers, count: Nat, empty: BOOLEAN,
          isGroup: BOOLEAN, active: BOOLEAN]

Socket == [st: {"closed", "open", "closing"}, peer: Peers \cup {NoPeer},
           joined: BOOLEAN, view: SUBSET Peers]

SocketTasks == [op: {"join", "accept", "reject", "kick", "close"},
                at: {"got", "saved", "asked"}, s: Sockets, obj: 0 .. MaxVaults, p: Peers,
                cred: Credentials]
StoreTasks == [op: {"create", "teardown"}, at: {"got"}]

\* One type invariant for the module.
TypeOK ==
  /\ made \in 0 .. MaxVaults
  /\ vault \in [Ids -> Vault]
  /\ store \in 0 .. made
  /\ deleted \subseteq 1 .. made
  /\ conn \in [Peers -> Sockets \cup {NoSocket}]
  /\ connected \subseteq Peers
  /\ sock \in [Sockets -> Socket]
  /\ tasks \subseteq SocketTasks \cup StoreTasks
  /\ \A t \in tasks : t \in SocketTasks => t.obj \in 0 .. made
  /\ owner \in [Peers -> Sockets \cup {NoSocket}]

-----------------------------------------------------------------------------
(* The session object and what the transport's helpers do to it.           *)

\* `old' holds the ids whose lastSeenAt is past the reconnect grace window.
NewVault(h) ==
  [hostId |-> h, peers |-> {h}, pending |-> {}, old |-> {}, count |-> 1,
   empty |-> FALSE, isGroup |-> FALSE, active |-> FALSE]

admittedPeers(v, c) == c \cap v.peers

stalePeerIds(v, c) == {p \in v.peers \cap v.old : p # v.hostId /\ p \notin c}

Remove(v, ids) == [v EXCEPT !.peers = @ \ ids, !.old = @ \ ids]

reclaimStaleSlots(v, c) == Remove(v, stalePeerIds(v, c))

syncPresence(v, c) ==
  [v EXCEPT !.count = Cardinality(admittedPeers(v, c)),
            !.empty = admittedPeers(v, c) = {}]

Bug_NoCapacityCheck(v, c, p) == TRUE
HasRoom(v, c, p) ==
  LET r == reclaimStaleSlots(v, c)
  IN  p \in r.peers \/ Cardinality(r.peers) < MaxPeers

Bug_AdmitCountsUp(v, c, p) ==
  LET r == reclaimStaleSlots(v, c)
  IN  [r EXCEPT !.peers = @ \cup {p}, !.old = @ \ {p}, !.active = TRUE,
                !.count = @ + 1, !.empty = FALSE, !.isGroup = @ \/ r.count > 1]
\* Past the capacity check of admitPeer (HasRoom), the slot is taken.
admitPeer(v, c, p) ==
  LET r == reclaimStaleSlots(v, c)
      w == syncPresence([r EXCEPT !.peers = @ \cup {p}, !.old = @ \ {p},
                                  !.active = TRUE], c)
  IN  [w EXCEPT !.isGroup = @ \/ w.count > 2]

Bug_CloseKeepsPending(v, c, p) == syncPresence([v EXCEPT !.old = @ \ {p}], c)
\* What handleClose records: no pending slot, a fresh lastSeenAt, presence.
afterClose(v, c, p) ==
  syncPresence([v EXCEPT !.pending = @ \ {p}, !.old = @ \ {p}], c)

\* Host recovery: authority moves to the id the recovery token came with.
TakeHost(v, p) ==
  IF v.hostId = p THEN v ELSE [Remove(v, {v.hostId}) EXCEPT !.hostId = p]

Bug_SaveAnyway(obj) == obj
\* InMemorySessionStore.save: an object that was deleted is not put back.
Save(obj) == IF obj \in deleted THEN store ELSE obj

IsOpen(s) == s # NoSocket /\ sock[s].st = "open"

Bug_RosterOfSlots(v, c, cn, sk) ==
  [s \in Sockets |->
     IF sk[s].st = "open" /\ \E p \in admittedPeers(v, c) : cn[p] = s
     THEN [sk[s] EXCEPT !.view = v.peers] ELSE sk[s]]
\* broadcastPeerUpdate: every admitted peer with an open socket is sent the
\* roster; sk is the socket table the frame is written to.
broadcastPeerUpdate(v, c, cn, sk) ==
  [s \in Sockets |->
     IF sk[s].st = "open" /\ \E p \in admittedPeers(v, c) : cn[p] = s
     THEN [sk[s] EXCEPT !.view = admittedPeers(v, c)]
     ELSE sk[s]]

\* ws.close() on an open socket: the close event is still to come.
CloseSocket(r) == IF r.st = "open" THEN [r EXCEPT !.st = "closing"] ELSE r

-----------------------------------------------------------------------------
(* Scheduling.                                                             *)

\* A new event may start when nothing is in flight, or when awaits yield.
Idle == tasks = {} \/ (AwaitYields /\ Cardinality(tasks) < MaxTasks)

\* Frames of one socket can arrive in one chunk and are dispatched in a row.
SameSocket(s) == /\ Cardinality(tasks) < MaxTasks
                 /\ \A t \in tasks : t \in SocketTasks /\ t.s = s

Referenced(s) == \/ \E t \in tasks : t \in SocketTasks /\ t.s = s
                 \/ \E p \in Peers : conn[p] = s

Start(t) == t \notin tasks /\ tasks' = tasks \cup {t}
Finish(t) == tasks' = tasks \ {t}
Suspend(t, at) == tasks' = (tasks \ {t}) \cup {[t EXCEPT !.at = at]}

Running(t, op, at) == t \in tasks /\ t.op = op /\ t.at = at

Blank == [st |-> "closed", peer |-> NoPeer, joined |-> FALSE, view |-> {}]

\* A `joined' frame; to a socket that is no longer open it goes nowhere.
SendJoined(r) == IF r.st = "open" THEN [r EXCEPT !.joined = TRUE] ELSE r

registerConnection(p, s) ==
  /\ conn' = [conn EXCEPT ![p] = s]
  /\ connected' = connected \cup {p}
  /\ owner' = [owner EXCEPT ![p] = s]

-----------------------------------------------------------------------------
(* The vault id in the store: POST /api/sessions, DELETE and the sweep.    *)

CreateVault ==
  /\ Idle /\ store = 0 /\ made < MaxVaults
  /\ Start([op |-> "create", at |-> "got"])
  /\ UNCHANGED <<made, vault, store, deleted, conn, connected, sock, owner>>

CreateSaved(t) ==
  /\ Running(t, "create", "got")
  /\ made < MaxVaults
  /\ \E h \in HostIds : vault' = [vault EXCEPT ![made + 1] = NewVault(h)]
  /\ made' = made + 1
  /\ store' = made + 1
  /\ Finish(t)
  /\ UNCHANGED <<deleted, conn, connected, sock, owner>>

\* The host's DELETE, or cleanup() finding the vault expired, inactive or
\* empty for too long (SessionLifecycle models the clock those rules read).
RemoveVault ==
  /\ Idle /\ store # 0
  /\ deleted' = deleted \cup {store}
  /\ store' = 0
  /\ Start([op |-> "teardown", at |-> "got"])
  /\ UNCHANGED <<made, vault, conn, connected, sock, owner>>

disconnectSession(t) ==
  /\ Running(t, "teardown", "got")
  /\ sock' = [s \in Sockets |->
                IF \E p \in connected : conn[p] = s
                THEN CloseSocket(sock[s]) ELSE sock[s]]
  /\ conn' = [p \in Peers |-> IF p \in connected THEN NoSocket ELSE conn[p]]
  /\ connected' = {}
  /\ Finish(t)
  /\ UNCHANGED <<made, vault, store, deleted, owner>>

\* A peer's lastSeenAt falls behind the reconnect grace window.  Only the age
\* of an absent guest's slot is ever read, so only that is tracked.
GraceElapses(p) ==
  /\ Idle /\ store # 0
  /\ p \in vault[store].peers \ (vault[store].old \cup connected)
  /\ p # vault[store].hostId
  /\ vault' = [vault EXCEPT ![store].old = @ \cup {p}]
  /\ UNCHANGED <<made, store, deleted, conn, connected, sock, tasks, owner>>

-----------------------------------------------------------------------------
(* The join frame.                                                         *)

\* What the client behind p can present.  A host device keeps its recovery
\* token in localStorage; one that lost it still knows the vault's host id.
Presentable(p) ==
  IF p \in HostIds
  THEN {{"recovery"}} \cup (IF store # 0 /\ p = vault[store].hostId THEN {{}} ELSE {})
  ELSE IF p \in Members THEN {{"member"}, {"member", "peerToken"}}
  ELSE {{}, {"peerToken"}}

JoinFrame(s, p, cred) ==
  /\ Idle
  /\ sock[s].st = "closed" /\ ~Referenced(s)
  /\ cred \in Presentable(p)
  /\ sock' = [sock EXCEPT ![s] = [Blank EXCEPT !.st = "open"]]
  /\ owner' = [q \in Peers |-> IF owner[q] = s THEN NoSocket ELSE owner[q]]
  /\ Start([op |-> "join", at |-> "got", s |-> s, obj |-> store, p |-> p,
            cred |-> cred])
  /\ UNCHANGED <<made, vault, store, deleted, conn, connected>>

\* The early returns of the join branch, in their order; v has had its stale
\* slots reclaimed.
JoinVerdict(v, p, cred) ==
  IF Cardinality(v.peers) >= MaxPeers /\ p \notin v.peers THEN "full"
  ELSE IF "recovery" \in cred THEN "host"
  ELSE IF p = v.hostId THEN "badHost"
  ELSE IF p \in v.peers
       THEN IF "peerToken" \notin cred /\ IsOpen(conn[p]) THEN "badToken"
            ELSE "rejoin"
  ELSE IF "member" \in cred THEN "member"
  ELSE IF ~IsOpen(conn[v.hostId]) THEN "hostOffline"
  ELSE IF p \in v.pending THEN "rebind"
  ELSE IF Cardinality(v.pending) >= MaxPending THEN "pendingFull"
  ELSE "ask"

JoinNotFound(t) ==
  /\ Running(t, "join", "got") /\ t.obj = 0
  /\ Finish(t)
  /\ UNCHANGED <<made, vault, store, deleted, conn, connected, sock, owner>>

JoinRefused(t) ==
  /\ Running(t, "join", "got") /\ t.obj # 0
  /\ LET v == reclaimStaleSlots(vault[t.obj], connected)
         verdict == JoinVerdict(v, t.p, t.cred)
     IN  /\ verdict \in {"full", "badHost", "badToken", "hostOffline", "pendingFull"}
         /\ vault' = [vault EXCEPT ![t.obj] = v]
         /\ sock' = IF verdict \in {"badHost", "badToken"}
                     THEN [sock EXCEPT ![t.s] = CloseSocket(@)] ELSE sock
  /\ Finish(t)
  /\ UNCHANGED <<made, store, deleted, conn, connected, owner>>

\* Host recovery, rejoin of an admitted identity, and membership admission
\* share one ending: bind, register, admitPeer, save.
JoinAdmitted(t) ==
  /\ Running(t, "join", "got") /\ t.obj # 0
  /\ LET v == reclaimStaleSlots(vault[t.obj], connected)
         verdict == JoinVerdict(v, t.p, t.cred)
         w == IF verdict = "host" THEN TakeHost(v, t.p) ELSE v
         c == connected \cup {t.p}
     IN  /\ verdict \in {"host", "rejoin", "member"}
         /\ sock' = [sock EXCEPT ![t.s].peer = t.p]
         /\ registerConnection(t.p, t.s)
         /\ IF HasRoom(w, c, t.p)
            THEN /\ vault' = [vault EXCEPT ![t.obj] = admitPeer(w, c, t.p)]
                 /\ store' = Save(t.obj)
                 /\ Suspend(t, "saved")
            ELSE /\ vault' = [vault EXCEPT ![t.obj] = reclaimStaleSlots(w, c)]
                 /\ Finish(t)
                 /\ UNCHANGED store
  /\ UNCHANGED <<made, deleted>>

JoinDone(t) ==
  /\ Running(t, "join", "saved")
  /\ sock' = broadcastPeerUpdate(vault[t.obj], connected, conn,
                                 [sock EXCEPT ![t.s] = SendJoined(@)])
  /\ Finish(t)
  /\ UNCHANGED <<made, vault, store, deleted, conn, connected, owner>>

\* A guest that is already pending only moves to its new socket.
JoinRebound(t) ==
  /\ Running(t, "join", "got") /\ t.obj # 0
  /\ LET v == reclaimStaleSlots(vault[t.obj], connected)
     IN  /\ JoinVerdict(v, t.p, t.cred) = "rebind"
         /\ vault' = [vault EXCEPT ![t.obj] = v]
  /\ registerConnection(t.p, t.s)
  /\ sock' = [sock EXCEPT ![t.s].peer = t.p]
  /\ Finish(t)
  /\ UNCHANGED <<made, store, deleted>>

JoinAsks(t) ==
  /\ Running(t, "join", "got") /\ t.obj # 0
  /\ LET v == reclaimStaleSlots(vault[t.obj], connected)
     IN  /\ JoinVerdict(v, t.p, t.cred) = "ask"
         /\ vault' = [vault EXCEPT ![t.obj] = [v EXCEPT !.pending = @ \cup {t.p}]]
  /\ store' = Save(t.obj)
  /\ Suspend(t, "asked")
  /\ UNCHANGED <<made, deleted, conn, connected, sock, owner>>

\* The pending guest's socket is registered only after the save.
JoinAsked(t) ==
  /\ Running(t, "join", "asked")
  /\ registerConnection(t.p, t.s)
  /\ sock' = [sock EXCEPT ![t.s].peer = t.p]
  /\ Finish(t)
  /\ UNCHANGED <<made, vault, store, deleted>>

-----------------------------------------------------------------------------
(* The host's control frames.                                              *)

\* The host's client offers accept / reject for a pending guest and kick for
\* a roster entry; frames of one socket may arrive back to back.
HostFrame(s, op, p) ==
  /\ Idle \/ SameSocket(s)
  /\ store # 0
  /\ sock[s].st = "open" /\ sock[s].peer \in HostIds
  /\ p \in (IF op = "kick" THEN vault[store].peers ELSE vault[store].pending)
  /\ Start([op |-> op, at |-> "got", s |-> s, obj |-> store, p |-> p,
            cred |-> {}])
  /\ UNCHANGED <<made, vault, store, deleted, conn, connected, sock, owner>>

\* The sender is still the host and the target still where the frame says.
Allowed(t) ==
  /\ t.obj # 0
  /\ vault[t.obj].hostId = sock[t.s].peer
  /\ IF t.op = "kick"
     THEN /\ vault[t.obj].isGroup
          /\ t.p \in vault[t.obj].peers \ {vault[t.obj].hostId}
     ELSE t.p \in vault[t.obj].pending

FrameIgnored(t) ==
  /\ \E op \in {"accept", "reject", "kick"} : Running(t, op, "got")
  /\ ~Allowed(t)
  /\ Finish(t)
  /\ UNCHANGED <<made, vault, store, deleted, conn, connected, sock, owner>>

AcceptJoin(t) ==
  /\ Running(t, "accept", "got") /\ Allowed(t)
  /\ HasRoom(vault[t.obj], connected, t.p)
  /\ vault' = [vault EXCEPT ![t.obj] =
       [admitPeer(vault[t.obj], connected, t.p) EXCEPT !.pending = @ \ {t.p}]]
  /\ store' = Save(t.obj)
  /\ Suspend(t, "saved")
  /\ UNCHANGED <<made, deleted, conn, connected, sock, owner>>

\* admitPeer found no room: the guest stays pending.
AcceptNoRoom(t) ==
  /\ Running(t, "accept", "got") /\ Allowed(t)
  /\ ~HasRoom(vault[t.obj], connected, t.p)
  /\ vault' = [vault EXCEPT ![t.obj] = reclaimStaleSlots(@, connected)]
  /\ Finish(t)
  /\ UNCHANGED <<made, store, deleted, conn, connected, sock, owner>>

AcceptDone(t) ==
  /\ Running(t, "accept", "saved")
  /\ sock' = broadcastPeerUpdate(vault[t.obj], connected, conn,
               [s \in Sockets |-> IF s = conn[t.p] THEN SendJoined(sock[s])
                                  ELSE sock[s]])
  /\ Finish(t)
  /\ UNCHANGED <<made, vault, store, deleted, conn, connected, owner>>

RejectJoin(t) ==
  /\ Running(t, "reject", "got") /\ Allowed(t)
  /\ vault' = [vault EXCEPT ![t.obj].pending = @ \ {t.p}]
  /\ store' = Save(t.obj)
  /\ Suspend(t, "saved")
  /\ UNCHANGED <<made, deleted, conn, connected, sock, owner>>

\* The target's socket, if there is one, is told and closed.
ShutOut(p) ==
  [s \in Sockets |-> IF s = conn[p] THEN CloseSocket(sock[s])
                     ELSE sock[s]]

RejectDone(t) ==
  /\ Running(t, "reject", "saved")
  /\ sock' = ShutOut(t.p)
  /\ conn' = [conn EXCEPT ![t.p] = NoSocket]
  /\ Finish(t)
  /\ UNCHANGED <<made, vault, store, deleted, connected, owner>>

KickPeer(t) ==
  /\ Running(t, "kick", "got") /\ Allowed(t)
  /\ connected' = connected \ {t.p}
  /\ vault' = [vault EXCEPT ![t.obj] = syncPresence(Remove(@, {t.p}), connected')]
  /\ store' = Save(t.obj)
  /\ Suspend(t, "saved")
  /\ UNCHANGED <<made, deleted, conn, sock, owner>>

KickDone(t) ==
  /\ Running(t, "kick", "saved")
  /\ conn' = [conn EXCEPT ![t.p] = NoSocket]
  /\ sock' = broadcastPeerUpdate(vault[t.obj], connected, conn', ShutOut(t.p))
  /\ Finish(t)
  /\ UNCHANGED <<made, vault, store, deleted, connected, owner>>

-----------------------------------------------------------------------------
(* Sockets going away.                                                     *)

\* The peer closes, the network drops it, or the join timeout fires on a
\* socket that never got an identity.
SocketDrops(s) ==
  /\ tasks = {} \/ AwaitYields
  /\ sock[s].st = "open"
  /\ sock' = [sock EXCEPT ![s].st = "closing"]
  /\ UNCHANGED <<made, vault, store, deleted, conn, connected, tasks, owner>>

\* A closed socket no handler holds any more is garbage.
Closed(s) == IF \E t \in tasks : t \in SocketTasks /\ t.s = s
             THEN [sock[s] EXCEPT !.st = "closed"] ELSE Blank

Bug_CloseIgnoresOwner(s) == sock[s].peer # NoPeer
OwnsKey(s) == sock[s].peer # NoPeer /\ conn[sock[s].peer] = s

\* handleClose of a socket that no longer owns its connection key (it never
\* joined, was shut out, or was replaced by a reconnect).
CloseStale(s) ==
  /\ tasks = {} \/ AwaitYields
  /\ sock[s].st = "closing"
  /\ ~OwnsKey(s)
  /\ sock' = [sock EXCEPT ![s] = Closed(s)]
  /\ UNCHANGED <<made, vault, store, deleted, conn, connected, tasks, owner>>

CloseOwner(s) ==
  /\ Idle
  /\ sock[s].st = "closing"
  /\ OwnsKey(s)
  /\ sock' = [sock EXCEPT ![s] = Closed(s)]
  /\ LET p == sock[s].peer
     IN  /\ conn' = [conn EXCEPT ![p] = NoSocket]
         /\ connected' = connected \ {p}
         /\ Start([op |-> "close", at |-> "got", s |-> s, obj |-> store, p |-> p,
                   cred |-> {}])
  /\ UNCHANGED <<made, vault, store, deleted, owner>>

CloseNoSession(t) ==
  /\ Running(t, "close", "got") /\ t.obj = 0
  /\ Finish(t)
  /\ UNCHANGED <<made, vault, store, deleted, conn, connected, sock, owner>>

CloseRecorded(t) ==
  /\ Running(t, "close", "got") /\ t.obj # 0
  /\ vault' = [vault EXCEPT ![t.obj] =
                 afterClose(@, connected, t.p)]
  /\ store' = Save(t.obj)
  /\ Suspend(t, "saved")
  /\ UNCHANGED <<made, deleted, conn, connected, sock, owner>>

CloseDone(t) ==
  /\ Running(t, "close", "saved")
  /\ sock' = broadcastPeerUpdate(vault[t.obj], connected, conn, sock)
  /\ Finish(t)
  /\ UNCHANGED <<made, vault, store, deleted, conn, connected, owner>>

-----------------------------------------------------------------------------

Init ==
  /\ made = 0 /\ store = 0 /\ deleted = {}
  /\ vault = [i \in Ids |-> NewVault(CHOOSE h \in HostIds : TRUE)]
  /\ conn = [p \in Peers |-> NoSocket]
  /\ connected = {}
  /\ sock = [s \in Sockets |-> Blank]
  /\ tasks = {}
  /\ owner = [p \in Peers |-> NoSocket]

StoreStep(t) == CreateSaved(t) \/ disconnectSession(t)
JoinStep(t) == \/ JoinNotFound(t) \/ JoinRefused(t) \/ JoinAdmitted(t)
               \/ JoinDone(t) \/ JoinRebound(t) \/ JoinAsks(t) \/ JoinAsked(t)
HostStep(t) == \/ FrameIgnored(t) \/ AcceptJoin(t) \/ AcceptNoRoom(t) \/ AcceptDone(t)
               \/ RejectJoin(t) \/ RejectDone(t) \/ KickPeer(t) \/ KickDone(t)
CloseStep(t) == CloseNoSession(t) \/ CloseRecorded(t) \/ CloseDone(t)

Next ==
  \/ CreateVault \/ RemoveVault
  \/ \E p \in Peers : GraceElapses(p)
  \/ \E s \in Sockets, p \in Peers, cred \in Credentials : JoinFrame(s, p, cred)
  \/ \E s \in Sockets, op \in {"accept", "reject", "kick"}, p \in Peers :
       HostFrame(s, op, p)
  \/ \E s \in Sockets : SocketDrops(s) \/ CloseStale(s) \/ CloseOwner(s)
  \/ \E t \in tasks : StoreStep(t) \/ JoinStep(t) \/ HostStep(t) \/ CloseStep(t)

Spec == Init /\ [][Next]_vars

-----------------------------------------------------------------------------
(* Properties that hold wherever an await yields.                          *)

\* The roster of a vault never outgrows maxPeers, whichever of host recovery,
\* rejoin, membership and accept_join admits, and whatever runs at the awaits
\* between the join path's capacity check and the accept's.
Capacity == \A i \in 1 .. made : Cardinality(vault[i].peers) <= MaxPeers

\* A vault that was destroyed or reaped is never in the store again, although
\* handlers suspended across the removal save the object they still hold.
NoResurrection == store \notin deleted

\* The socket that registered last under a peer id keeps the connection key as
\* long as it is open: a late close event, a reject, a kick or a teardown of
\* an earlier socket never orphans the reconnect that replaced it.
LatestSocketKept ==
  \A p \in Peers : IsOpen(owner[p]) => conn[p] = owner[p]

-----------------------------------------------------------------------------
(* Properties of the settled states, in which no handler is in flight.     *)

Settled == tasks = {} /\ store # 0

Present == admittedPeers(vault[store], connected)

\* participantCount is the number of admitted peers with a registered socket
\* from the first admission on, and emptySince is set exactly while it is 0:
\* the sweep's empty rule can neither reap a vault in use nor miss an
\* abandoned one because of a drifted count.
PresenceExact ==
  Settled /\ vault[store].active =>
    /\ vault[store].count = Cardinality(Present)
    /\ vault[store].empty <=> Present = {}

\* Whoever counts as present can be reached, and knows: there is a connection
\* under the id, and while that socket is open it has been sent `joined' and
\* its last peer_update is the roster.
RosterAgreement ==
  Settled => \A p \in Present :
    /\ conn[p] # NoSocket
    /\ IsOpen(conn[p]) => /\ sock[conn[p]].joined
                          /\ sock[conn[p]].view = Present

\* A pending slot belongs to a guest that holds a registered socket, whose
\* close will free it: the pending queue cannot fill up with guests that left.
PendingHasSocket ==
  Settled => \A p \in vault[store].pending : conn[p] # NoSocket /\ p \in connected

-----------------------------------------------------------------------------
(* What comments and docs of the repository say.                           *)

\* useSession: the recovery token re-binds host authority, "so a fresh random
\* id is always safe to use".  Read: a join that carries the token, while the
\* former host's socket is gone, is never answered "Session full".
RecoveryNeverFull ==
  \A t \in tasks :
    /\ Running(t, "join", "got") /\ t.obj # 0
    /\ "recovery" \in t.cred
    /\ conn[vault[t.obj].hostId] = NoSocket
    => JoinVerdict(reclaimStaleSlots(vault[t.obj], connected), t.p, t.cred) # "full"
=============================================================================
