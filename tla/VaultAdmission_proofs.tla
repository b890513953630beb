----------------------- MODULE VaultAdmission_proofs -----------------------
(***************************************************************************)
(* Theorems about VaultAdmission, for every set of peers and sockets and   *)
(* every limit.  The first four hold under both readings of an await; the  *)
(* last three, about the states in which nothing is in flight, for the     *)
(* build as it is, in which only frames of one socket overlap.             *)
(***************************************************************************)
EXTENDS VaultAdmission, FiniteSetTheorems, TLAPS

-----------------------------------------------------------------------------
(* What the helpers of the transport keep.                                 *)

LEMMA SubsetCardinality ==
  ASSUME NEW S, NEW T, IsFiniteSet(T), S \subseteq T
  PROVE  /\ IsFiniteSet(S) /\ Cardinality(S) \in Nat /\ Cardinality(T) \in Nat
         /\ Cardinality(S) <= Cardinality(T)
BY FS_Subset, FS_CardinalityType

LEMMA PeersFinite ==
  ASSUME NEW S \in SUBSET Peers
  PROVE  IsFiniteSet(S) /\ Cardinality(S) \in Nat
BY VaultAssumption, SubsetCardinality

LEMMA RemoveType ==
  ASSUME NEW v \in Vault, NEW ids
  PROVE  Remove(v, ids) \in Vault /\ Remove(v, ids).peers \subseteq v.peers
BY DEF Remove, Vault

LEMMA ReclaimType ==
  ASSUME NEW v \in Vault, NEW c
  PROVE  /\ reclaimStaleSlots(v, c) \in Vault
         /\ reclaimStaleSlots(v, c).peers \subseteq v.peers
         /\ reclaimStaleSlots(v, c).hostId = v.hostId
         /\ reclaimStaleSlots(v, c).pending = v.pending
BY RemoveType DEF reclaimStaleSlots, Remove, Vault

LEMMA SyncType ==
  ASSUME NEW v \in Vault, NEW c
  PROVE  syncPresence(v, c) \in Vault /\ syncPresence(v, c).peers = v.peers
<1>1. admittedPeers(v, c) \in SUBSET Peers
  BY DEF admittedPeers, Vault
<1>2. Cardinality(admittedPeers(v, c)) \in Nat
  BY <1>1, PeersFinite
<1> QED
  BY <1>1, <1>2 DEF syncPresence, Vault

LEMMA AdmitType ==
  ASSUME NEW v \in Vault, NEW c, NEW p \in Peers
  PROVE  /\ admitPeer(v, c, p) \in Vault
         /\ admitPeer(v, c, p).peers = reclaimStaleSlots(v, c).peers \cup {p}
<1> DEFINE r == reclaimStaleSlots(v, c)
           x == [r EXCEPT !.peers = @ \cup {p}, !.old = @ \ {p}, !.active = TRUE]
<1>1. r \in Vault
  BY ReclaimType
<1>2. x \in Vault /\ x.peers = r.peers \cup {p}
  BY <1>1 DEF Vault
<1> DEFINE w == syncPresence(x, c)
<1>3. w \in Vault /\ w.peers = x.peers
  BY <1>2, SyncType
<1>4. admitPeer(v, c, p) = [w EXCEPT !.isGroup = @ \/ w.count > 2]
  BY DEF admitPeer
<1> HIDE DEF w
<1> QED
  BY <1>2, <1>3, <1>4 DEF Vault

\* A vault within its limit stays within it when admitPeer found room.
LEMMA AdmitBound ==
  ASSUME NEW v \in Vault, NEW c, NEW p \in Peers, HasRoom(v, c, p),
         Cardinality(v.peers) <= MaxPeers
  PROVE  Cardinality(admitPeer(v, c, p).peers) <= MaxPeers
<1> DEFINE R == reclaimStaleSlots(v, c).peers
<1>1. R \subseteq v.peers /\ R \in SUBSET Peers /\ v.peers \in SUBSET Peers
  BY ReclaimType DEF Vault
<1>2. IsFiniteSet(R) /\ Cardinality(R) \in Nat /\ Cardinality(R) <= Cardinality(v.peers)
      /\ Cardinality(v.peers) \in Nat
  BY <1>1, PeersFinite, SubsetCardinality
<1>3. admitPeer(v, c, p).peers = R \cup {p}
  BY AdmitType
<1>4. CASE p \in R
  <2>1. R \cup {p} = R
    BY <1>4
  <2> QED
    BY <1>2, <1>3, <2>1, VaultAssumption
<1>5. CASE p \notin R
  <2>1. Cardinality(R) < MaxPeers
    BY <1>5 DEF HasRoom
  <2>2. Cardinality(R \cup {p}) = Cardinality(R) + 1
    BY <1>2, <1>5, FS_AddElement
  <2> QED
    BY <1>2, <1>3, <2>1, <2>2, VaultAssumption
<1> QED
  BY <1>4, <1>5

LEMMA TakeHostType ==
  ASSUME NEW v \in Vault, NEW p \in Peers
  PROVE  TakeHost(v, p) \in Vault /\ TakeHost(v, p).peers \subseteq v.peers
<1>1. CASE v.hostId = p
  BY <1>1 DEF TakeHost
<1>2. CASE v.hostId # p
  <2>1. Remove(v, {v.hostId}) \in Vault /\ Remove(v, {v.hostId}).peers \subseteq v.peers
    BY RemoveType
  <2>2. TakeHost(v, p) = [Remove(v, {v.hostId}) EXCEPT !.hostId = p]
    BY <1>2 DEF TakeHost
  <2> QED
    BY <2>1, <2>2 DEF Vault
<1> QED
  BY <1>1, <1>2

LEMMA AfterCloseType ==
  ASSUME NEW v \in Vault, NEW c, NEW p
  PROVE  afterClose(v, c, p) \in Vault /\ afterClose(v, c, p).peers = v.peers
<1> DEFINE x == [v EXCEPT !.pending = @ \ {p}, !.old = @ \ {p}]
<1>1. x \in Vault /\ x.peers = v.peers
  BY DEF Vault
<1> QED
  BY <1>1, SyncType DEF afterClose

LEMMA NewVaultType ==
  ASSUME NEW h \in Peers
  PROVE  NewVault(h) \in Vault /\ Cardinality(NewVault(h).peers) <= MaxPeers
<1>1. Cardinality({h}) = 1
  BY FS_Singleton
<1> QED
  BY <1>1, VaultAssumption DEF NewVault, Vault

LEMMA BroadcastType ==
  ASSUME NEW v, NEW c \in SUBSET Peers, NEW cn, NEW sk \in [Sockets -> Socket]
  PROVE  /\ broadcastPeerUpdate(v, c, cn, sk) \in [Sockets -> Socket]
         /\ \A s \in Sockets : broadcastPeerUpdate(v, c, cn, sk)[s].st = sk[s].st
BY DEF broadcastPeerUpdate, admittedPeers, Socket

LEMMA SendJoinedType ==
  ASSUME NEW r \in Socket
  PROVE  SendJoined(r) \in Socket /\ SendJoined(r).st = r.st
<1>1. [r EXCEPT !.joined = TRUE] \in Socket /\ [r EXCEPT !.joined = TRUE].st = r.st
  BY DEF Socket
<1> QED
  BY <1>1 DEF SendJoined

LEMMA CloseSocketType ==
  ASSUME NEW r \in Socket
  PROVE  CloseSocket(r) \in Socket /\ CloseSocket(r).st # "open"
BY DEF CloseSocket, Socket

-----------------------------------------------------------------------------
(* Type correctness.                                                       *)

\* The handlers in flight, when m objects have been created.
TasksOK(ts, m) ==
  /\ ts \subseteq SocketTasks \cup StoreTasks
  /\ \A t \in ts : t \in SocketTasks => t.obj \in 0 .. m

LEMMA RunningSocketTask ==
  ASSUME TypeOK, NEW t, NEW op, NEW at, Running(t, op, at),
         op \in {"join", "accept", "reject", "kick", "close"}
  PROVE  /\ t \in tasks /\ t \in SocketTasks /\ t.obj \in 0 .. made
         /\ t.obj \in Nat /\ made \in Nat /\ made <= MaxVaults
         /\ t.obj # 0 => t.obj \in 1 .. made /\ t.obj \in Ids /\ vault[t.obj] \in Vault
         /\ t.s \in Sockets /\ t.p \in Peers
<1>1. t \in SocketTasks \cup StoreTasks /\ t.op = op
  BY DEF Running, TypeOK
<1>2. t \in SocketTasks
  BY <1>1 DEF StoreTasks
<1>3. t.obj \in 0 .. made /\ made \in 0 .. MaxVaults /\ MaxVaults \in Nat
  BY <1>2, VaultAssumption DEF Running, TypeOK
<1>4. t.s \in Sockets /\ t.p \in Peers
  BY <1>2 DEF SocketTasks
<1> QED
  BY <1>2, <1>3, <1>4 DEF Running, TypeOK, Ids

LEMMA FinishTasks ==
  ASSUME TypeOK, NEW t, Finish(t), made' = made
  PROVE  TasksOK(tasks', made')
BY DEF TypeOK, TasksOK, Finish

LEMMA SuspendTasks ==
  ASSUME TypeOK, NEW t \in tasks, t \in SocketTasks,
         NEW at \in {"saved", "asked"}, Suspend(t, at), made' = made
  PROVE  TasksOK(tasks', made')
<1> DEFINE u == [t EXCEPT !.at = at]
<1>1. u \in SocketTasks /\ u.obj = t.obj
  BY DEF SocketTasks
<1>2. tasks' = (tasks \ {t}) \cup {u}
  BY DEF Suspend
<1> HIDE DEF u
<1> QED
  BY <1>1, <1>2 DEF TypeOK, TasksOK

LEMMA StartTasks ==
  ASSUME TypeOK, NEW u, Start(u), made' = made,
         \/ u \in SocketTasks /\ u.obj \in 0 .. made
         \/ u \in StoreTasks /\ u \notin SocketTasks
  PROVE  TasksOK(tasks', made')
BY DEF TypeOK, TasksOK, Start

LEMMA SaveType ==
  ASSUME TypeOK, NEW obj \in 0 .. made
  PROVE  Save(obj) \in 0 .. made
BY DEF TypeOK, Save

LEMMA VaultUpdate ==
  ASSUME TypeOK, NEW i, NEW v \in Vault
  PROVE  [vault EXCEPT ![i] = v] \in [Ids -> Vault]
BY DEF TypeOK

LEMMA SockUpdate ==
  ASSUME TypeOK, NEW s, NEW r \in Socket
  PROVE  [sock EXCEPT ![s] = r] \in [Sockets -> Socket]
BY DEF TypeOK

LEMMA RegisterType ==
  ASSUME TypeOK, NEW p \in Peers, NEW s \in Sockets, registerConnection(p, s)
  PROVE  /\ conn' \in [Peers -> Sockets \cup {NoSocket}]
         /\ connected' \subseteq Peers
         /\ owner' \in [Peers -> Sockets \cup {NoSocket}]
BY DEF TypeOK, registerConnection

LEMMA BindType ==
  ASSUME TypeOK, NEW s \in Sockets, NEW p \in Peers
  PROVE  [sock EXCEPT ![s].peer = p] \in [Sockets -> Socket]
<1>1. [sock[s] EXCEPT !.peer = p] \in Socket
  BY DEF TypeOK, Socket
<1> QED
  BY <1>1 DEF TypeOK

\* The store, the transport's maps and the tasks, to be put together.
LEMMA TypeParts ==
  ASSUME made' \in 0 .. MaxVaults, vault' \in [Ids -> Vault],
         store' \in 0 .. made', deleted' \subseteq 1 .. made',
         conn' \in [Peers -> Sockets \cup {NoSocket}], connected' \subseteq Peers,
         sock' \in [Sockets -> Socket], TasksOK(tasks', made'),
         owner' \in [Peers -> Sockets \cup {NoSocket}]
  PROVE  TypeOK'
BY DEF TypeOK, TasksOK

LEMMA InitTypeOK == Init => TypeOK
<1> SUFFICES ASSUME Init PROVE TypeOK
  OBVIOUS
<1>1. (CHOOSE h \in HostIds : TRUE) \in Peers
  BY VaultAssumption DEF Peers
<1>2. vault \in [Ids -> Vault]
  BY <1>1, NewVaultType DEF Init
<1>3. sock \in [Sockets -> Socket]
  BY DEF Init, Blank, Socket, Credentials
<1> QED
  BY <1>2, <1>3, VaultAssumption DEF Init, TypeOK

LEMMA StoreStepTypeOK ==
  ASSUME TypeOK, NEW t, StoreStep(t)
  PROVE  TypeOK'
<1>1. CASE CreateSaved(t)
  <2>1. PICK h \in HostIds : vault' = [vault EXCEPT ![made + 1] = NewVault(h)]
    BY <1>1 DEF CreateSaved
  <2>2. vault' \in [Ids -> Vault]
    BY <2>1, NewVaultType, VaultUpdate DEF Peers
  <2>3. made' \in 0 .. MaxVaults /\ store' \in 0 .. made' /\ deleted' \subseteq 1 .. made'
        /\ made' = made + 1 /\ made \in Nat
    BY <1>1, VaultAssumption DEF CreateSaved, TypeOK
  <2>4. TasksOK(tasks', made')
    <3>1. \A u \in tasks' : u \in tasks
      BY <1>1 DEF CreateSaved, Finish
    <3>2. \A i \in 0 .. made : i \in 0 .. made'
      BY <2>3
    <3> QED
      BY <3>1, <3>2 DEF TasksOK, TypeOK
  <2>5. /\ conn' \in [Peers -> Sockets \cup {NoSocket}]
        /\ connected' \subseteq Peers
        /\ sock' \in [Sockets -> Socket]
        /\ owner' \in [Peers -> Sockets \cup {NoSocket}]
    BY <1>1 DEF CreateSaved, TypeOK
  <2> QED
    BY <2>2, <2>3, <2>4, <2>5, TypeParts
<1>2. CASE disconnectSession(t)
  <2>1. sock' \in [Sockets -> Socket]
    BY <1>2, CloseSocketType DEF disconnectSession, TypeOK
  <2>2. TasksOK(tasks', made')
    BY <1>2, FinishTasks DEF disconnectSession
  <2>3. conn' \in [Peers -> Sockets \cup {NoSocket}] /\ connected' \subseteq Peers
    BY <1>2 DEF disconnectSession, TypeOK
  <2>4. UNCHANGED <<made, vault, store, deleted, owner>>
    BY <1>2 DEF disconnectSession
  <2> QED
    BY <2>1, <2>2, <2>3, <2>4, TypeParts DEF TypeOK
<1> QED
  BY <1>1, <1>2 DEF StoreStep

\* The steps of a handler that leave the maps of the transport alone.
LEMMA JoinStepTypeOK ==
  ASSUME TypeOK, NEW t, JoinStep(t)
  PROVE  TypeOK'
<1> DEFINE v == reclaimStaleSlots(vault[t.obj], connected)
<1>1. CASE JoinNotFound(t)
  <2>1. TasksOK(tasks', made') /\ UNCHANGED <<made, vault, store, deleted, conn,
                                              connected, sock, owner>>
    BY <1>1, FinishTasks DEF JoinNotFound
  <2> QED
    BY <2>1, TypeParts DEF TypeOK
<1>2. CASE JoinRefused(t)
  <2>1. t.obj \in Ids /\ vault[t.obj] \in Vault /\ t.s \in Sockets
    BY <1>2, RunningSocketTask DEF JoinRefused
  <2>2. vault' = [vault EXCEPT ![t.obj] = v] /\ v \in Vault
    BY <1>2, <2>1, ReclaimType DEF JoinRefused
  <2>3. vault' \in [Ids -> Vault]
    BY <2>2, VaultUpdate
  <2>4. sock' = sock \/ sock' = [sock EXCEPT ![t.s] = CloseSocket(@)]
    BY <1>2 DEF JoinRefused
  <2>5. sock' \in [Sockets -> Socket]
    BY <2>1, <2>4, CloseSocketType, SockUpdate DEF TypeOK
  <2>6. TasksOK(tasks', made') /\ UNCHANGED <<made, store, deleted, conn, connected, owner>>
    BY <1>2, FinishTasks DEF JoinRefused
  <2> QED
    BY <2>3, <2>5, <2>6, TypeParts DEF TypeOK
<1>3. CASE JoinAdmitted(t)
  <2> DEFINE w == IF JoinVerdict(v, t.p, t.cred) = "host" THEN TakeHost(v, t.p) ELSE v
             c == connected \cup {t.p}
  <2>1. /\ t \in tasks /\ t \in SocketTasks /\ t.obj \in 0 .. made
        /\ t.obj \in Ids /\ vault[t.obj] \in Vault /\ t.s \in Sockets /\ t.p \in Peers
    BY <1>3, RunningSocketTask DEF JoinAdmitted
  <2>2. w \in Vault
    BY <2>1, ReclaimType, TakeHostType
  <2>3. admitPeer(w, c, t.p) \in Vault /\ reclaimStaleSlots(w, c) \in Vault
    BY <2>1, <2>2, AdmitType, ReclaimType
  <2>4. /\ sock' = [sock EXCEPT ![t.s].peer = t.p]
        /\ registerConnection(t.p, t.s)
        /\ UNCHANGED <<made, deleted>>
        /\ \/ /\ vault' = [vault EXCEPT ![t.obj] = admitPeer(w, c, t.p)]
              /\ store' = Save(t.obj)
              /\ Suspend(t, "saved")
           \/ /\ vault' = [vault EXCEPT ![t.obj] = reclaimStaleSlots(w, c)]
              /\ Finish(t)
              /\ UNCHANGED store
    BY <1>3 DEF JoinAdmitted
  <2> HIDE DEF w, c
  <2>5. vault' \in [Ids -> Vault]
    BY <2>3, <2>4, VaultUpdate
  <2>6. sock' \in [Sockets -> Socket]
    BY <2>1, <2>4, BindType
  <2>7. TasksOK(tasks', made')
    BY <2>1, <2>4, FinishTasks, SuspendTasks
  <2>8. store' \in 0 .. made' /\ made' \in 0 .. MaxVaults /\ deleted' \subseteq 1 .. made'
    BY <2>1, <2>4, SaveType DEF TypeOK
  <2> QED
    BY <2>1, <2>4, <2>5, <2>6, <2>7, <2>8, RegisterType, TypeParts
<1>4. CASE JoinDone(t)
  <2> DEFINE sk == [sock EXCEPT ![t.s] = SendJoined(@)]
  <2>1. t.s \in Sockets
    BY <1>4, RunningSocketTask DEF JoinDone
  <2>2. SendJoined(sock[t.s]) \in Socket
    BY <2>1, SendJoinedType DEF TypeOK
  <2>3. sk \in [Sockets -> Socket]
    BY <2>2, SockUpdate
  <2>4. sock' = broadcastPeerUpdate(vault[t.obj], connected, conn, sk)
    BY <1>4 DEF JoinDone
  <2> HIDE DEF sk
  <2>5. sock' \in [Sockets -> Socket]
    BY <2>3, <2>4, BroadcastType DEF TypeOK
  <2>6. TasksOK(tasks', made') /\ UNCHANGED <<made, vault, store, deleted, conn,
                                              connected, owner>>
    BY <1>4, FinishTasks DEF JoinDone
  <2> QED
    BY <2>5, <2>6, TypeParts DEF TypeOK
<1>5. CASE JoinRebound(t)
  <2>1. /\ t.obj \in Ids /\ vault[t.obj] \in Vault /\ t.s \in Sockets /\ t.p \in Peers
    BY <1>5, RunningSocketTask DEF JoinRebound
  <2>2. vault' = [vault EXCEPT ![t.obj] = v] /\ v \in Vault
    BY <1>5, <2>1, ReclaimType DEF JoinRebound
  <2>3. vault' \in [Ids -> Vault]
    BY <2>2, VaultUpdate
  <2>4. sock' \in [Sockets -> Socket] /\ registerConnection(t.p, t.s)
    BY <1>5, <2>1, BindType DEF JoinRebound
  <2>5. TasksOK(tasks', made') /\ UNCHANGED <<made, store, deleted>>
    BY <1>5, FinishTasks DEF JoinRebound
  <2> QED
    BY <2>1, <2>3, <2>4, <2>5, RegisterType, TypeParts DEF TypeOK
<1>6. CASE JoinAsks(t)
  <2>1. /\ t \in tasks /\ t \in SocketTasks /\ t.obj \in 0 .. made
        /\ t.obj \in Ids /\ vault[t.obj] \in Vault /\ t.p \in Peers
    BY <1>6, RunningSocketTask DEF JoinAsks
  <2>2. v \in Vault
    BY <2>1, ReclaimType
  <2> DEFINE w == [v EXCEPT !.pending = @ \cup {t.p}]
  <2>3. vault' = [vault EXCEPT ![t.obj] = w]
    BY <1>6 DEF JoinAsks
  <2>4. w \in Vault
    BY <2>1, <2>2 DEF Vault
  <2>5. store' = Save(t.obj) /\ Suspend(t, "asked")
        /\ UNCHANGED <<made, deleted, conn, connected, sock, owner>>
    BY <1>6 DEF JoinAsks
  <2> HIDE DEF w
  <2>6. vault' \in [Ids -> Vault]
    BY <2>3, <2>4, VaultUpdate
  <2>7. store' \in 0 .. made' /\ TasksOK(tasks', made')
    BY <2>1, <2>5, SaveType, SuspendTasks
  <2> QED
    BY <2>5, <2>6, <2>7, TypeParts DEF TypeOK
<1>7. CASE JoinAsked(t)
  <2>1. t.s \in Sockets /\ t.p \in Peers
    BY <1>7, RunningSocketTask DEF JoinAsked
  <2>2. sock' \in [Sockets -> Socket] /\ registerConnection(t.p, t.s)
    BY <1>7, <2>1, BindType DEF JoinAsked
  <2>3. TasksOK(tasks', made') /\ UNCHANGED <<made, vault, store, deleted>>
    BY <1>7, FinishTasks DEF JoinAsked
  <2> QED
    BY <2>1, <2>2, <2>3, RegisterType, TypeParts DEF TypeOK
<1> QED
  BY <1>1, <1>2, <1>3, <1>4, <1>5, <1>6, <1>7 DEF JoinStep

LEMMA ShutOutType ==
  ASSUME TypeOK, NEW p
  PROVE  /\ ShutOut(p) \in [Sockets -> Socket]
         /\ \A s \in Sockets : /\ ShutOut(p)[s].st = "open" => sock[s].st = "open"
                               /\ s = conn[p] => ShutOut(p)[s].st # "open"
BY CloseSocketType DEF ShutOut, CloseSocket, TypeOK, Socket

LEMMA HostStepTypeOK ==
  ASSUME TypeOK, NEW t, HostStep(t)
  PROVE  TypeOK'
<1>1. CASE FrameIgnored(t)
  <2>1. TasksOK(tasks', made') /\ UNCHANGED <<made, vault, store, deleted, conn,
                                              connected, sock, owner>>
    BY <1>1, FinishTasks DEF FrameIgnored
  <2> QED
    BY <2>1, TypeParts DEF TypeOK
<1>2. CASE AcceptJoin(t)
  <2>1. /\ t \in tasks /\ t \in SocketTasks /\ t.obj \in 0 .. made
        /\ t.obj \in Ids /\ vault[t.obj] \in Vault /\ t.p \in Peers
    BY <1>2, RunningSocketTask DEF AcceptJoin, Allowed
  <2> DEFINE a == admitPeer(vault[t.obj], connected, t.p)
             w == [a EXCEPT !.pending = @ \ {t.p}]
  <2>2. a \in Vault
    BY <2>1, AdmitType
  <2>3. vault' = [vault EXCEPT ![t.obj] = w]
    BY <1>2 DEF AcceptJoin
  <2> HIDE DEF a
  <2>4. w \in Vault
    BY <2>2 DEF Vault
  <2> HIDE DEF w
  <2>5. vault' \in [Ids -> Vault]
    BY <2>3, <2>4, VaultUpdate
  <2>6. store' = Save(t.obj) /\ Suspend(t, "saved")
        /\ UNCHANGED <<made, deleted, conn, connected, sock, owner>>
    BY <1>2 DEF AcceptJoin
  <2>7. store' \in 0 .. made' /\ TasksOK(tasks', made')
    BY <2>1, <2>6, SaveType, SuspendTasks
  <2> QED
    BY <2>5, <2>6, <2>7, TypeParts DEF TypeOK
<1>3. CASE AcceptNoRoom(t)
  <2>1. t.obj \in Ids /\ vault[t.obj] \in Vault
    BY <1>3, RunningSocketTask DEF AcceptNoRoom, Allowed
  <2>2. vault' \in [Ids -> Vault]
    BY <1>3, <2>1, ReclaimType, VaultUpdate DEF AcceptNoRoom
  <2>3. TasksOK(tasks', made') /\ UNCHANGED <<made, store, deleted, conn, connected,
                                              sock, owner>>
    BY <1>3, FinishTasks DEF AcceptNoRoom
  <2> QED
    BY <2>2, <2>3, TypeParts DEF TypeOK
<1>4. CASE AcceptDone(t)
  <2> DEFINE sk == [s \in Sockets |-> IF s = conn[t.p] THEN SendJoined(sock[s])
                                      ELSE sock[s]]
  <2>1. sk \in [Sockets -> Socket]
    BY SendJoinedType DEF TypeOK
  <2>2. sock' = broadcastPeerUpdate(vault[t.obj], connected, conn, sk)
    BY <1>4 DEF AcceptDone
  <2> HIDE DEF sk
  <2>3. sock' \in [Sockets -> Socket]
    BY <2>1, <2>2, BroadcastType DEF TypeOK
  <2>4. TasksOK(tasks', made') /\ UNCHANGED <<made, vault, store, deleted, conn,
                                              connected, owner>>
    BY <1>4, FinishTasks DEF AcceptDone
  <2> QED
    BY <2>3, <2>4, TypeParts DEF TypeOK
<1>5. CASE RejectJoin(t)
  <2>1. /\ t \in tasks /\ t \in SocketTasks /\ t.obj \in 0 .. made
        /\ t.obj \in Ids /\ vault[t.obj] \in Vault
    BY <1>5, RunningSocketTask DEF RejectJoin, Allowed
  <2> DEFINE w == [vault[t.obj] EXCEPT !.pending = @ \ {t.p}]
  <2>2. w \in Vault
    BY <2>1 DEF Vault
  <2>3. vault' = [vault EXCEPT ![t.obj] = w]
    BY <1>5, <2>1 DEF RejectJoin, TypeOK
  <2> HIDE DEF w
  <2>4. vault' \in [Ids -> Vault]
    BY <2>2, <2>3, VaultUpdate
  <2>5. store' = Save(t.obj) /\ Suspend(t, "saved")
        /\ UNCHANGED <<made, deleted, conn, connected, sock, owner>>
    BY <1>5 DEF RejectJoin
  <2>6. store' \in 0 .. made' /\ TasksOK(tasks', made')
    BY <2>1, <2>5, SaveType, SuspendTasks
  <2> QED
    BY <2>4, <2>5, <2>6, TypeParts DEF TypeOK
<1>6. CASE RejectDone(t)
  <2>1. sock' \in [Sockets -> Socket]
    BY <1>6, ShutOutType DEF RejectDone
  <2>2. conn' \in [Peers -> Sockets \cup {NoSocket}]
    BY <1>6 DEF RejectDone, TypeOK
  <2>3. TasksOK(tasks', made') /\ UNCHANGED <<made, vault, store, deleted, connected, owner>>
    BY <1>6, FinishTasks DEF RejectDone
  <2> QED
    BY <2>1, <2>2, <2>3, TypeParts DEF TypeOK
<1>7. CASE KickPeer(t)
  <2>1. /\ t \in tasks /\ t \in SocketTasks /\ t.obj \in 0 .. made
        /\ t.obj \in Ids /\ vault[t.obj] \in Vault
    BY <1>7, RunningSocketTask DEF KickPeer, Allowed
  <2> DEFINE w == syncPresence(Remove(vault[t.obj], {t.p}), connected')
  <2>2. w \in Vault
    BY <2>1, RemoveType, SyncType
  <2>3. vault' = [vault EXCEPT ![t.obj] = w]
    BY <1>7 DEF KickPeer
  <2> HIDE DEF w
  <2>4. vault' \in [Ids -> Vault]
    BY <2>2, <2>3, VaultUpdate
  <2>5. store' = Save(t.obj) /\ Suspend(t, "saved") /\ connected' = connected \ {t.p}
        /\ UNCHANGED <<made, deleted, conn, sock, owner>>
    BY <1>7 DEF KickPeer
  <2>6. store' \in 0 .. made' /\ TasksOK(tasks', made')
    BY <2>1, <2>5, SaveType, SuspendTasks
  <2> QED
    BY <2>4, <2>5, <2>6, TypeParts DEF TypeOK
<1>8. CASE KickDone(t)
  <2>1. conn' \in [Peers -> Sockets \cup {NoSocket}]
    BY <1>8 DEF KickDone, TypeOK
  <2>2. sock' \in [Sockets -> Socket]
    BY <1>8, ShutOutType, BroadcastType DEF KickDone, TypeOK
  <2>3. TasksOK(tasks', made') /\ UNCHANGED <<made, vault, store, deleted, connected, owner>>
    BY <1>8, FinishTasks DEF KickDone
  <2> QED
    BY <2>1, <2>2, <2>3, TypeParts DEF TypeOK
<1> QED
  BY <1>1, <1>2, <1>3, <1>4, <1>5, <1>6, <1>7, <1>8 DEF HostStep

LEMMA CloseStepTypeOK ==
  ASSUME TypeOK, NEW t, CloseStep(t)
  PROVE  TypeOK'
<1>1. CASE CloseNoSession(t)
  <2>1. TasksOK(tasks', made') /\ UNCHANGED <<made, vault, store, deleted, conn,
                                              connected, sock, owner>>
    BY <1>1, FinishTasks DEF CloseNoSession
  <2> QED
    BY <2>1, TypeParts DEF TypeOK
<1>2. CASE CloseRecorded(t)
  <2>1. /\ t \in tasks /\ t \in SocketTasks /\ t.obj \in 0 .. made
        /\ t.obj \in Ids /\ vault[t.obj] \in Vault
    BY <1>2, RunningSocketTask DEF CloseRecorded
  <2>2. vault' \in [Ids -> Vault]
    BY <1>2, <2>1, AfterCloseType, VaultUpdate DEF CloseRecorded
  <2>3. store' = Save(t.obj) /\ Suspend(t, "saved")
        /\ UNCHANGED <<made, deleted, conn, connected, sock, owner>>
    BY <1>2 DEF CloseRecorded
  <2>4. store' \in 0 .. made' /\ TasksOK(tasks', made')
    BY <2>1, <2>3, SaveType, SuspendTasks
  <2> QED
    BY <2>2, <2>3, <2>4, TypeParts DEF TypeOK
<1>3. CASE CloseDone(t)
  <2>1. sock' \in [Sockets -> Socket]
    BY <1>3, BroadcastType DEF CloseDone, TypeOK
  <2>2. TasksOK(tasks', made') /\ UNCHANGED <<made, vault, store, deleted, conn,
                                              connected, owner>>
    BY <1>3, FinishTasks DEF CloseDone
  <2> QED
    BY <2>1, <2>2, TypeParts DEF TypeOK
<1> QED
  BY <1>1, <1>2, <1>3 DEF CloseStep

\* The events that start a handler or move a socket.
Event ==
  \/ CreateVault \/ RemoveVault
  \/ \E p \in Peers : GraceElapses(p)
  \/ \E s \in Sockets, p \in Peers, cred \in Credentials : JoinFrame(s, p, cred)
  \/ \E s \in Sockets, op \in {"accept", "reject", "kick"}, p \in Peers :
       HostFrame(s, op, p)
  \/ \E s \in Sockets : SocketDrops(s) \/ CloseStale(s) \/ CloseOwner(s)

LEMMA BlankType == Blank \in Socket
BY DEF Blank, Socket

LEMMA ClosedType ==
  ASSUME TypeOK, NEW s \in Sockets
  PROVE  Closed(s) \in Socket /\ Closed(s).st = "closed"
<1>1. [sock[s] EXCEPT !.st = "closed"] \in Socket
  BY DEF TypeOK, Socket
<1> QED
  BY <1>1, BlankType DEF Closed, Blank, Socket

LEMMA EventTypeOK ==
  ASSUME TypeOK, Event
  PROVE  TypeOK'
<1>0. /\ made \in 0 .. MaxVaults /\ made \in Nat /\ store \in 0 .. made
      /\ store \in 0 .. MaxVaults
      /\ store # 0 => store \in Ids /\ vault[store] \in Vault
      /\ sock \in [Sockets -> Socket]
  BY VaultAssumption DEF TypeOK, Ids
<1>1. CASE CreateVault
  <2>1. [op |-> "create", at |-> "got"] \in StoreTasks
        /\ [op |-> "create", at |-> "got"] \notin SocketTasks
    BY DEF StoreTasks, SocketTasks
  <2>2. TasksOK(tasks', made') /\ UNCHANGED <<made, vault, store, deleted, conn,
                                              connected, sock, owner>>
    BY <1>1, <2>1, StartTasks DEF CreateVault
  <2> QED
    BY <2>2, TypeParts DEF TypeOK
<1>2. CASE RemoveVault
  <2>1. [op |-> "teardown", at |-> "got"] \in StoreTasks
        /\ [op |-> "teardown", at |-> "got"] \notin SocketTasks
    BY DEF StoreTasks, SocketTasks
  <2>2. TasksOK(tasks', made') /\ UNCHANGED <<made, vault, conn, connected, sock, owner>>
    BY <1>2, <2>1, StartTasks DEF RemoveVault
  <2>3. store' \in 0 .. made' /\ deleted' \subseteq 1 .. made'
    BY <1>0, <1>2 DEF RemoveVault, TypeOK
  <2> QED
    BY <2>2, <2>3, TypeParts DEF TypeOK
<1>3. ASSUME NEW p \in Peers, GraceElapses(p) PROVE TypeOK'
  <2> DEFINE w == [vault[store] EXCEPT !.old = @ \cup {p}]
  <2>1. store \in Ids /\ vault[store] \in Vault
    BY <1>0, <1>3 DEF GraceElapses
  <2>2. w \in Vault
    BY <2>1 DEF Vault
  <2>3. vault' = [vault EXCEPT ![store] = w]
    BY <1>3, <2>1 DEF GraceElapses, TypeOK
  <2> HIDE DEF w
  <2>4. vault' \in [Ids -> Vault]
    BY <2>2, <2>3, VaultUpdate
  <2>5. UNCHANGED <<made, store, deleted, conn, connected, sock, tasks, owner>>
    BY <1>3 DEF GraceElapses
  <2> QED
    BY <2>4, <2>5 DEF TypeOK
<1>4. ASSUME NEW s \in Sockets, NEW p \in Peers, NEW cred \in Credentials,
             JoinFrame(s, p, cred)
      PROVE  TypeOK'
  <2> DEFINE u == [op |-> "join", at |-> "got", s |-> s, obj |-> store, p |-> p,
                   cred |-> cred]
             r == [Blank EXCEPT !.st = "open"]
  <2>1. u \in SocketTasks /\ u.obj = store
    BY <1>0 DEF SocketTasks
  <2>2. r \in Socket
    BY BlankType DEF Socket
  <2>3. sock' \in [Sockets -> Socket]
    BY <1>4, <2>2, SockUpdate DEF JoinFrame
  <2>4. owner' \in [Peers -> Sockets \cup {NoSocket}]
    BY <1>4 DEF JoinFrame, TypeOK
  <2>5. Start(u) /\ UNCHANGED <<made, vault, store, deleted, conn, connected>>
    BY <1>4 DEF JoinFrame
  <2> HIDE DEF u
  <2>6. TasksOK(tasks', made')
    BY <1>0, <2>1, <2>5, StartTasks
  <2> QED
    BY <2>3, <2>4, <2>5, <2>6, TypeParts DEF TypeOK
<1>5. ASSUME NEW s \in Sockets, NEW op \in {"accept", "reject", "kick"},
             NEW p \in Peers, HostFrame(s, op, p)
      PROVE  TypeOK'
  <2> DEFINE u == [op |-> op, at |-> "got", s |-> s, obj |-> store, p |-> p,
                   cred |-> {}]
  <2>1. u \in SocketTasks /\ u.obj = store
    BY <1>0 DEF SocketTasks, Credentials
  <2>2. Start(u) /\ UNCHANGED <<made, vault, store, deleted, conn, connected, sock, owner>>
    BY <1>5 DEF HostFrame
  <2> HIDE DEF u
  <2>3. TasksOK(tasks', made')
    BY <1>0, <2>1, <2>2, StartTasks
  <2> QED
    BY <2>2, <2>3, TypeParts DEF TypeOK
<1>6. ASSUME NEW s \in Sockets, SocketDrops(s) PROVE TypeOK'
  <2>1. [sock[s] EXCEPT !.st = "closing"] \in Socket
    BY <1>0 DEF Socket
  <2>2. sock' \in [Sockets -> Socket]
    BY <1>0, <1>6, <2>1 DEF SocketDrops
  <2> QED
    BY <1>6, <2>2 DEF SocketDrops, TypeOK
<1>7. ASSUME NEW s \in Sockets, CloseStale(s) PROVE TypeOK'
  <2>1. sock' \in [Sockets -> Socket]
    BY <1>7, ClosedType, SockUpdate DEF CloseStale
  <2> QED
    BY <1>7, <2>1 DEF CloseStale, TypeOK
<1>8. ASSUME NEW s \in Sockets, CloseOwner(s) PROVE TypeOK'
  <2> DEFINE p == sock[s].peer
             u == [op |-> "close", at |-> "got", s |-> s, obj |-> store, p |-> p,
                   cred |-> {}]
  <2>1. p \in Peers
    BY <1>0, <1>8 DEF CloseOwner, OwnsKey, Socket
  <2>2. u \in SocketTasks /\ u.obj = store
    BY <1>0, <2>1 DEF SocketTasks, Credentials
  <2>3. /\ conn' = [conn EXCEPT ![p] = NoSocket]
        /\ connected' = connected \ {p}
        /\ Start(u)
        /\ UNCHANGED <<made, vault, store, deleted, owner>>
    BY <1>8 DEF CloseOwner
  <2>4. sock' \in [Sockets -> Socket]
    BY <1>8, ClosedType, SockUpdate DEF CloseOwner
  <2> HIDE DEF p, u
  <2>5. TasksOK(tasks', made')
    BY <1>0, <2>2, <2>3, StartTasks
  <2> QED
    BY <2>3, <2>4, <2>5, TypeParts DEF TypeOK
<1> QED
  BY <1>1, <1>2, <1>3, <1>4, <1>5, <1>6, <1>7, <1>8 DEF Event

LEMMA NextSplit ==
  ASSUME [Next]_vars
  PROVE  \/ Event
         \/ \E t \in tasks : StoreStep(t) \/ JoinStep(t) \/ HostStep(t) \/ CloseStep(t)
         \/ UNCHANGED vars
BY DEF Next, Event

LEMMA NextTypeOK == TypeOK /\ [Next]_vars => TypeOK'
<1> SUFFICES ASSUME TypeOK, [Next]_vars PROVE TypeOK'
  OBVIOUS
<1>1. CASE UNCHANGED vars
  BY <1>1 DEF vars, TypeOK
<1> QED
  BY <1>1, NextSplit, EventTypeOK, StoreStepTypeOK, JoinStepTypeOK, HostStepTypeOK,
     CloseStepTypeOK

\* Every state of the relay's vault has the declared types: the store's object
\* exists, handlers hold objects that exist, counts are natural numbers.
THEOREM TypeCorrect == Spec => []TypeOK
BY InitTypeOK, NextTypeOK, PTL DEF Spec

-----------------------------------------------------------------------------
(* A destroyed vault stays destroyed.                                      *)

LEMMA NextNoResurrection == TypeOK /\ NoResurrection /\ [Next]_vars => NoResurrection'
<1> SUFFICES ASSUME TypeOK, NoResurrection, [Next]_vars PROVE NoResurrection'
  OBVIOUS
<1>1. CASE Event
  <2>1. 0 \notin deleted \cup {store} \/ store = 0
    BY DEF TypeOK
  <2>2. CASE RemoveVault
    BY <2>1, <2>2 DEF RemoveVault, NoResurrection, TypeOK
  <2>3. CASE ~RemoveVault
    <3>1. UNCHANGED <<store, deleted>>
      BY <1>1, <2>3 DEF Event, CreateVault, GraceElapses, JoinFrame, HostFrame,
                        SocketDrops, CloseStale, CloseOwner
    <3> QED
      BY <3>1 DEF NoResurrection
  <2> QED
    BY <2>2, <2>3
<1>2. ASSUME NEW t \in tasks, StoreStep(t) PROVE NoResurrection'
  <2>1. CASE CreateSaved(t)
    \* deleted only holds objects created so far
    BY <2>1 DEF CreateSaved, NoResurrection, TypeOK
  <2>2. CASE disconnectSession(t)
    BY <2>2 DEF disconnectSession, NoResurrection
  <2> QED
    BY <1>2, <2>1, <2>2 DEF StoreStep
<1>3. ASSUME NEW t \in tasks, JoinStep(t) PROVE NoResurrection'
  <2>1. CASE JoinAdmitted(t)
    <3>1. UNCHANGED deleted /\ (store' = Save(t.obj) \/ UNCHANGED store)
      BY <2>1 DEF JoinAdmitted
    <3> QED
      BY <3>1 DEF Save, NoResurrection
  <2>2. CASE JoinAsks(t)
    BY <2>2 DEF JoinAsks, Save, NoResurrection
  <2>3. CASE JoinNotFound(t) \/ JoinRefused(t) \/ JoinDone(t) \/ JoinRebound(t)
             \/ JoinAsked(t)
    <3>1. UNCHANGED <<store, deleted>>
      BY <2>3 DEF JoinNotFound, JoinRefused, JoinDone, JoinRebound, JoinAsked
    <3> QED
      BY <3>1 DEF NoResurrection
  <2> QED
    BY <1>3, <2>1, <2>2, <2>3 DEF JoinStep
<1>4. ASSUME NEW t \in tasks, HostStep(t) PROVE NoResurrection'
  <2>1. UNCHANGED deleted /\ (store' = Save(t.obj) \/ UNCHANGED store)
    BY <1>4 DEF HostStep, FrameIgnored, AcceptJoin, AcceptNoRoom, AcceptDone, RejectJoin,
                RejectDone, KickPeer, KickDone
  <2> QED
    BY <2>1 DEF Save, NoResurrection
<1>5. ASSUME NEW t \in tasks, CloseStep(t) PROVE NoResurrection'
  <2>1. UNCHANGED deleted /\ (store' = Save(t.obj) \/ UNCHANGED store)
    BY <1>5 DEF CloseStep, CloseNoSession, CloseRecorded, CloseDone
  <2> QED
    BY <2>1 DEF Save, NoResurrection
<1>6. CASE UNCHANGED vars
  BY <1>6 DEF vars, NoResurrection
<1> QED
  BY <1>1, <1>2, <1>3, <1>4, <1>5, <1>6, NextSplit

\* However handlers interleave at their awaits, none of them puts a vault back
\* that the host's DELETE or the sweep has removed.
THEOREM NeverResurrected == Spec => []NoResurrection
<1>1. Init => NoResurrection
  BY DEF Init, NoResurrection
<1> QED
  BY <1>1, NextNoResurrection, TypeCorrect, PTL DEF Spec

-----------------------------------------------------------------------------
(* The roster never outgrows maxPeers.                                     *)

LEMMA CapacityUpdate ==
  ASSUME TypeOK, Capacity, NEW i \in Ids, NEW w, Cardinality(w.peers) <= MaxPeers,
         vault' = [vault EXCEPT ![i] = w], UNCHANGED made
  PROVE  Capacity'
BY DEF TypeOK, Capacity

LEMMA CapacitySame ==
  ASSUME Capacity, UNCHANGED <<made, vault>>
  PROVE  Capacity'
BY DEF Capacity

\* Giving up slots cannot break the limit.
LEMMA FewerPeers ==
  ASSUME TypeOK, Capacity, NEW i \in 1 .. made, NEW w \in Vault,
         w.peers \subseteq vault[i].peers
  PROVE  Cardinality(w.peers) <= MaxPeers
<1>1. vault[i].peers \in SUBSET Peers /\ Cardinality(vault[i].peers) <= MaxPeers
  <2>1. i \in Ids
    BY VaultAssumption DEF TypeOK, Ids
  <2> QED
    BY <2>1 DEF TypeOK, Capacity, Vault
<1>2. IsFiniteSet(vault[i].peers)
  BY <1>1, PeersFinite
<1> QED
  BY <1>1, <1>2, SubsetCardinality, VaultAssumption

LEMMA JoinStepCapacity ==
  ASSUME TypeOK, Capacity, NEW t, JoinStep(t)
  PROVE  Capacity'
<1> DEFINE v == reclaimStaleSlots(vault[t.obj], connected)
<1>1. CASE JoinNotFound(t) \/ JoinDone(t) \/ JoinAsked(t)
  BY <1>1, CapacitySame DEF JoinNotFound, JoinDone, JoinAsked
<1>2. CASE JoinRefused(t) \/ JoinRebound(t)
  <2>1. t.obj \in 1 .. made /\ t.obj \in Ids /\ vault[t.obj] \in Vault
    BY <1>2, RunningSocketTask DEF JoinRefused, JoinRebound
  <2>2. v \in Vault /\ Cardinality(v.peers) <= MaxPeers
    BY <2>1, ReclaimType, FewerPeers
  <2> QED
    BY <1>2, <2>1, <2>2, CapacityUpdate DEF JoinRefused, JoinRebound
<1>3. CASE JoinAdmitted(t)
  <2> DEFINE w == IF JoinVerdict(v, t.p, t.cred) = "host" THEN TakeHost(v, t.p) ELSE v
             c == connected \cup {t.p}
  <2>1. /\ t.obj \in 1 .. made /\ t.obj \in Ids /\ vault[t.obj] \in Vault
        /\ t.p \in Peers
    BY <1>3, RunningSocketTask DEF JoinAdmitted
  <2>2. v \in Vault /\ v.peers \subseteq vault[t.obj].peers
    BY <2>1, ReclaimType
  <2>3. w \in Vault /\ w.peers \subseteq v.peers
    BY <2>1, <2>2, TakeHostType
  <2>4. Cardinality(w.peers) <= MaxPeers
    BY <2>1, <2>2, <2>3, FewerPeers
  <2>5. UNCHANGED made
        /\ \/ /\ HasRoom(w, c, t.p)
              /\ vault' = [vault EXCEPT ![t.obj] = admitPeer(w, c, t.p)]
           \/ vault' = [vault EXCEPT ![t.obj] = reclaimStaleSlots(w, c)]
    BY <1>3 DEF JoinAdmitted
  <2> HIDE DEF w, c
  <2>6. CASE HasRoom(w, c, t.p) /\ vault' = [vault EXCEPT ![t.obj] = admitPeer(w, c, t.p)]
    BY <2>1, <2>3, <2>4, <2>5, <2>6, AdmitBound, CapacityUpdate
  <2>7. CASE vault' = [vault EXCEPT ![t.obj] = reclaimStaleSlots(w, c)]
    <3>1. /\ reclaimStaleSlots(w, c) \in Vault
          /\ reclaimStaleSlots(w, c).peers \subseteq vault[t.obj].peers
      BY <2>2, <2>3, ReclaimType
    <3> QED
      BY <2>1, <2>5, <2>7, <3>1, FewerPeers, CapacityUpdate
  <2> QED
    BY <2>5, <2>6, <2>7
<1>4. CASE JoinAsks(t)
  <2>1. t.obj \in 1 .. made /\ t.obj \in Ids /\ vault[t.obj] \in Vault
    BY <1>4, RunningSocketTask DEF JoinAsks
  <2>2. v \in Vault /\ Cardinality(v.peers) <= MaxPeers
    BY <2>1, ReclaimType, FewerPeers
  <2> DEFINE w == [v EXCEPT !.pending = @ \cup {t.p}]
  <2>3. w.peers = v.peers
    BY <2>2 DEF Vault
  <2>4. vault' = [vault EXCEPT ![t.obj] = w] /\ UNCHANGED made
    BY <1>4 DEF JoinAsks
  <2> HIDE DEF w
  <2> QED
    BY <2>1, <2>2, <2>3, <2>4, CapacityUpdate
<1> QED
  BY <1>1, <1>2, <1>3, <1>4 DEF JoinStep

LEMMA HostStepCapacity ==
  ASSUME TypeOK, Capacity, NEW t, HostStep(t)
  PROVE  Capacity'
<1>1. CASE FrameIgnored(t) \/ AcceptDone(t) \/ RejectDone(t) \/ KickDone(t)
  BY <1>1, CapacitySame DEF FrameIgnored, AcceptDone, RejectDone, KickDone
<1>2. CASE ~(FrameIgnored(t) \/ AcceptDone(t) \/ RejectDone(t) \/ KickDone(t))
  <2>0. AcceptJoin(t) \/ AcceptNoRoom(t) \/ RejectJoin(t) \/ KickPeer(t)
    BY <1>2 DEF HostStep
  <2>1. /\ t.obj \in 1 .. made /\ t.obj \in Ids /\ vault[t.obj] \in Vault
        /\ t.p \in Peers /\ Cardinality(vault[t.obj].peers) <= MaxPeers
    BY <2>0, RunningSocketTask DEF AcceptJoin, AcceptNoRoom, RejectJoin, KickPeer, Allowed,
                                   Capacity
  <2>2. CASE AcceptJoin(t)
    <3> DEFINE a == admitPeer(vault[t.obj], connected, t.p)
               w == [a EXCEPT !.pending = @ \ {t.p}]
    <3>1. a \in Vault /\ Cardinality(a.peers) <= MaxPeers
      BY <2>1, <2>2, AdmitType, AdmitBound DEF AcceptJoin
    <3>2. vault' = [vault EXCEPT ![t.obj] = w] /\ UNCHANGED made
      BY <2>2 DEF AcceptJoin
    <3> HIDE DEF a
    <3>3. w.peers = a.peers
      BY <3>1 DEF Vault
    <3> HIDE DEF w
    <3> QED
      BY <2>1, <3>1, <3>2, <3>3, CapacityUpdate
  <2>3. CASE AcceptNoRoom(t)
    <3> DEFINE w == reclaimStaleSlots(vault[t.obj], connected)
    <3>1. Cardinality(w.peers) <= MaxPeers
      BY <2>1, ReclaimType, FewerPeers
    <3> QED
      BY <2>1, <2>3, <3>1, CapacityUpdate DEF AcceptNoRoom
  <2>4. CASE RejectJoin(t)
    <3> DEFINE w == [vault[t.obj] EXCEPT !.pending = @ \ {t.p}]
    <3>1. w.peers = vault[t.obj].peers
      BY <2>1 DEF Vault
    <3>2. vault' = [vault EXCEPT ![t.obj] = w] /\ UNCHANGED made
      BY <2>1, <2>4 DEF RejectJoin, TypeOK
    <3> HIDE DEF w
    <3> QED
      BY <2>1, <3>1, <3>2, CapacityUpdate
  <2>5. CASE KickPeer(t)
    <3> DEFINE r == Remove(vault[t.obj], {t.p})
               w == syncPresence(r, connected')
    <3>1. r \in Vault /\ r.peers \subseteq vault[t.obj].peers
      BY <2>1, RemoveType
    <3>2. w.peers = r.peers
      BY <3>1, SyncType
    <3>3. Cardinality(w.peers) <= MaxPeers
      BY <2>1, <3>1, <3>2, FewerPeers
    <3>4. vault' = [vault EXCEPT ![t.obj] = w] /\ UNCHANGED made
      BY <2>5 DEF KickPeer
    <3> HIDE DEF w
    <3> QED
      BY <2>1, <3>3, <3>4, CapacityUpdate
  <2> QED
    BY <2>0, <2>2, <2>3, <2>4, <2>5
<1> QED
  BY <1>1, <1>2

LEMMA NextCapacity == TypeOK /\ Capacity /\ [Next]_vars => Capacity'
<1> SUFFICES ASSUME TypeOK, Capacity, [Next]_vars PROVE Capacity'
  OBVIOUS
<1>1. CASE Event
  <2>1. ASSUME NEW p \in Peers, GraceElapses(p) PROVE Capacity'
    <3> DEFINE w == [vault[store] EXCEPT !.old = @ \cup {p}]
    <3>1. store \in 1 .. made /\ store \in Ids /\ vault[store] \in Vault
      BY <2>1, VaultAssumption DEF GraceElapses, TypeOK, Ids
    <3>2. w.peers = vault[store].peers
      BY <3>1 DEF Vault
    <3>3. vault' = [vault EXCEPT ![store] = w] /\ UNCHANGED made
      BY <2>1, <3>1 DEF GraceElapses, TypeOK
    <3> HIDE DEF w
    <3> QED
      BY <3>1, <3>2, <3>3, CapacityUpdate DEF Capacity
  <2>2. CASE ~\E p \in Peers : GraceElapses(p)
    BY <1>1, <2>2, CapacitySame DEF Event, CreateVault, RemoveVault, JoinFrame, HostFrame,
                                    SocketDrops, CloseStale, CloseOwner
  <2> QED
    BY <2>1, <2>2
<1>2. ASSUME NEW t \in tasks, StoreStep(t) PROVE Capacity'
  <2>1. CASE CreateSaved(t)
    <3>1. PICK h \in Peers : vault' = [vault EXCEPT ![made + 1] = NewVault(h)]
      BY <2>1 DEF CreateSaved, Peers
    <3>2. made' = made + 1 /\ made \in Nat /\ made + 1 \in Ids
      BY <2>1, VaultAssumption DEF CreateSaved, TypeOK, Ids
    <3>3. Cardinality(NewVault(h).peers) <= MaxPeers
      BY NewVaultType
    <3>4. ASSUME NEW i \in 1 .. made' PROVE Cardinality(vault'[i].peers) <= MaxPeers
      <4>1. CASE i = made + 1
        BY <3>1, <3>2, <3>3, <4>1 DEF TypeOK
      <4>2. CASE i # made + 1
        <5>1. i \in 1 .. made /\ vault'[i] = vault[i]
          BY <3>1, <3>2, <4>2 DEF TypeOK
        <5> QED
          BY <5>1 DEF Capacity
      <4> QED
        BY <4>1, <4>2
    <3> QED
      BY <3>4 DEF Capacity
  <2>2. CASE disconnectSession(t)
    BY <2>2, CapacitySame DEF disconnectSession
  <2> QED
    BY <1>2, <2>1, <2>2 DEF StoreStep
<1>3. ASSUME NEW t \in tasks, JoinStep(t) PROVE Capacity'
  BY <1>3, JoinStepCapacity
<1>4. ASSUME NEW t \in tasks, HostStep(t) PROVE Capacity'
  BY <1>4, HostStepCapacity
<1>5. ASSUME NEW t \in tasks, CloseStep(t) PROVE Capacity'
  <2>1. CASE CloseNoSession(t) \/ CloseDone(t)
    BY <2>1, CapacitySame DEF CloseNoSession, CloseDone
  <2>2. CASE CloseRecorded(t)
    <3>1. t.obj \in 1 .. made /\ t.obj \in Ids /\ vault[t.obj] \in Vault
      BY <2>2, RunningSocketTask DEF CloseRecorded
    <3> DEFINE w == afterClose(vault[t.obj], connected, t.p)
    <3>2. w.peers = vault[t.obj].peers
      BY <3>1, AfterCloseType
    <3>3. vault' = [vault EXCEPT ![t.obj] = w] /\ UNCHANGED made
      BY <2>2 DEF CloseRecorded
    <3> HIDE DEF w
    <3> QED
      BY <3>1, <3>2, <3>3, CapacityUpdate DEF Capacity
  <2> QED
    BY <1>5, <2>1, <2>2 DEF CloseStep
<1>6. CASE UNCHANGED vars
  BY <1>6, CapacitySame DEF vars
<1> QED
  BY <1>1, <1>2, <1>3, <1>4, <1>5, <1>6, NextSplit

\* No vault, live or destroyed, ever has more admitted peers than maxPeers,
\* for every capacity and every interleaving of joins, accepts and recoveries.
THEOREM RosterBounded == Spec => []Capacity
<1>1. Init => Capacity
  BY DEF Init, Capacity
<1> QED
  BY <1>1, NextCapacity, TypeCorrect, PTL DEF Spec

-----------------------------------------------------------------------------
(* The latest socket of a peer keeps its connection key.                   *)

\* A step that registers nothing, opens nothing and unbinds no open socket.
LEMMA OwnersKept ==
  ASSUME TypeOK, LatestSocketKept, UNCHANGED owner,
         \A s \in Sockets : sock'[s].st = "open" => sock[s].st = "open",
         \A p \in Peers : \/ conn'[p] = conn[p]
                          \/ conn[p] \notin Sockets
                          \/ sock'[conn[p]].st # "open"
  PROVE  LatestSocketKept'
<1> SUFFICES ASSUME NEW p \in Peers, owner'[p] # NoSocket,
                    sock'[owner'[p]].st = "open"
             PROVE  conn'[p] = owner'[p]
  BY DEF LatestSocketKept, IsOpen
<1>1. owner'[p] = owner[p] /\ owner[p] \in Sockets
  BY DEF TypeOK
<1>2. sock'[owner[p]].st = "open" /\ sock[owner[p]].st = "open"
  BY <1>1
<1>3. conn[p] = owner[p]
  BY <1>1, <1>2 DEF LatestSocketKept, IsOpen
<1> QED
  BY <1>1, <1>2, <1>3

\* A step that binds p to s and leaves every ready state alone.
LEMMA OwnerRegistered ==
  ASSUME TypeOK, LatestSocketKept, NEW p \in Peers, NEW s \in Sockets,
         registerConnection(p, s),
         sock' = [sock EXCEPT ![s].peer = p]
  PROVE  LatestSocketKept'
<1> SUFFICES ASSUME NEW q \in Peers, owner'[q] # NoSocket,
                    sock'[owner'[q]].st = "open"
             PROVE  conn'[q] = owner'[q]
  BY DEF LatestSocketKept, IsOpen
<1>1. CASE q = p
  BY <1>1 DEF registerConnection, TypeOK
<1>2. CASE q # p
  <2>1. owner'[q] = owner[q] /\ conn'[q] = conn[q] /\ owner[q] \in Sockets
    BY <1>2 DEF registerConnection, TypeOK
  <2>2. sock[owner[q]].st = "open"
    BY <2>1 DEF TypeOK, Socket
  <2> QED
    BY <2>1, <2>2 DEF LatestSocketKept, IsOpen
<1> QED
  BY <1>1, <1>2

LEMMA EventOwners ==
  ASSUME TypeOK, LatestSocketKept, Event
  PROVE  LatestSocketKept'
<1>1. CASE \/ CreateVault \/ RemoveVault
           \/ \E p \in Peers : GraceElapses(p)
           \/ \E s \in Sockets, op \in {"accept", "reject", "kick"}, p \in Peers :
                HostFrame(s, op, p)
  <2>1. UNCHANGED <<conn, sock, owner>>
    BY <1>1 DEF CreateVault, RemoveVault, GraceElapses, HostFrame
  <2> QED
    BY <2>1, OwnersKept
<1>2. ASSUME NEW s \in Sockets, NEW p \in Peers, NEW cred \in Credentials,
             JoinFrame(s, p, cred)
      PROVE  LatestSocketKept'
  <2> SUFFICES ASSUME NEW q \in Peers, owner'[q] # NoSocket,
                      sock'[owner'[q]].st = "open"
               PROVE  conn'[q] = owner'[q]
    BY DEF LatestSocketKept, IsOpen
  <2>1. owner'[q] = owner[q] /\ owner[q] # s /\ owner[q] \in Sockets
    BY <1>2 DEF JoinFrame, TypeOK
  <2>2. sock'[owner[q]] = sock[owner[q]] /\ conn' = conn
    BY <1>2, <2>1 DEF JoinFrame, TypeOK
  <2> QED
    BY <2>1, <2>2 DEF LatestSocketKept, IsOpen
<1>3. ASSUME NEW s \in Sockets, SocketDrops(s) PROVE LatestSocketKept'
  <2>1. \A x \in Sockets : sock'[x].st = "open" => sock[x].st = "open"
    BY <1>3 DEF SocketDrops, TypeOK, Socket
  <2> QED
    BY <1>3, <2>1, OwnersKept DEF SocketDrops
<1>4. ASSUME NEW s \in Sockets, CloseStale(s) \/ CloseOwner(s) PROVE LatestSocketKept'
  <2>1. Closed(s).st = "closed" /\ sock' = [sock EXCEPT ![s] = Closed(s)]
        /\ UNCHANGED owner /\ sock[s].st = "closing"
    BY <1>4 DEF CloseStale, CloseOwner, Closed, Blank, TypeOK, Socket
  <2>2. /\ sock'[s].st = "closed"
        /\ \A x \in Sockets : sock'[x].st = "open" => sock[x].st = "open"
    BY <2>1 DEF TypeOK
  <2>3. CASE CloseStale(s)
    BY <2>1, <2>2, <2>3, OwnersKept DEF CloseStale
  <2>4. CASE CloseOwner(s)
    <3>1. conn[sock[s].peer] = s
          /\ \A p \in Peers : p # sock[s].peer => conn'[p] = conn[p]
      BY <2>4 DEF CloseOwner, OwnsKey, TypeOK
    <3>2. \A p \in Peers : conn'[p] = conn[p] \/ sock'[conn[p]].st # "open"
      BY <2>2, <3>1
    <3> QED
      BY <2>1, <2>2, <3>2, OwnersKept
  <2> QED
    BY <1>4, <2>3, <2>4
<1> QED
  BY <1>1, <1>2, <1>3, <1>4 DEF Event

\* Sockets only change their last frames.
LEMMA FramesOnly ==
  ASSUME TypeOK, LatestSocketKept, UNCHANGED <<conn, owner>>,
         \A s \in Sockets : sock'[s].st = sock[s].st
  PROVE  LatestSocketKept'
BY OwnersKept

\* Shutting p out before its key is dropped orphans no open socket.
LEMMA ShutOutOwners ==
  ASSUME TypeOK, LatestSocketKept, NEW p \in Peers, UNCHANGED owner,
         conn' = [conn EXCEPT ![p] = NoSocket],
         \A s \in Sockets : sock'[s].st = ShutOut(p)[s].st
  PROVE  LatestSocketKept'
<1>1. \A s \in Sockets : ShutOut(p)[s].st = "open" => sock[s].st = "open" /\ s # conn[p]
  BY CloseSocketType DEF ShutOut, TypeOK
<1>2. \A q \in Peers : \/ conn'[q] = conn[q]
                       \/ conn[q] \notin Sockets
                       \/ sock'[conn[q]].st # "open"
  <2> SUFFICES ASSUME NEW q \in Peers, conn'[q] # conn[q], conn[q] \in Sockets
               PROVE  sock'[conn[q]].st # "open"
    OBVIOUS
  <2>1. q = p
    BY DEF TypeOK
  <2> QED
    BY <1>1, <2>1
<1> QED
  BY <1>1, <1>2, OwnersKept

LEMMA NextOwners == TypeOK /\ LatestSocketKept /\ [Next]_vars => LatestSocketKept'
<1> SUFFICES ASSUME TypeOK, LatestSocketKept, [Next]_vars PROVE LatestSocketKept'
  OBVIOUS
<1>1. ASSUME NEW t \in tasks, StoreStep(t) PROVE LatestSocketKept'
  <2>1. CASE CreateSaved(t)
    BY <2>1, OwnersKept DEF CreateSaved
  <2>2. CASE disconnectSession(t)
    <3>1. \A s \in Sockets : sock'[s].st = "open" =>
            sock[s].st = "open" /\ ~\E p \in connected : conn[p] = s
      BY <2>2, CloseSocketType DEF disconnectSession, TypeOK
    <3>2. \A p \in Peers : p \in connected \/ conn'[p] = conn[p]
      BY <2>2 DEF disconnectSession
    <3>3. \A p \in Peers : \/ conn'[p] = conn[p]
                           \/ conn[p] \notin Sockets
                           \/ sock'[conn[p]].st # "open"
      BY <3>1, <3>2
    <3> QED
      BY <2>2, <3>1, <3>3, OwnersKept DEF disconnectSession
  <2> QED
    BY <1>1, <2>1, <2>2 DEF StoreStep
<1>2. ASSUME NEW t \in tasks, JoinStep(t) PROVE LatestSocketKept'
  <2>1. CASE JoinAdmitted(t)
    BY <2>1, OwnerRegistered, RunningSocketTask DEF JoinAdmitted
  <2>2. CASE JoinRebound(t)
    BY <2>2, OwnerRegistered, RunningSocketTask DEF JoinRebound
  <2>3. CASE JoinAsked(t)
    BY <2>3, OwnerRegistered, RunningSocketTask DEF JoinAsked
  <2>4. CASE JoinNotFound(t) \/ JoinAsks(t)
    BY <2>4, FramesOnly DEF JoinNotFound, JoinAsks
  <2>5. CASE JoinRefused(t)
    <3>1. UNCHANGED <<conn, owner>>
          /\ (sock' = [sock EXCEPT ![t.s] = CloseSocket(@)] \/ UNCHANGED sock)
      BY <2>5 DEF JoinRefused
    <3>2. \A s \in Sockets : sock'[s].st = "open" => sock[s].st = "open"
      BY <3>1, CloseSocketType DEF TypeOK
    <3> QED
      BY <3>1, <3>2, OwnersKept
  <2>6. CASE JoinDone(t)
    <3> DEFINE sk == [sock EXCEPT ![t.s] = SendJoined(@)]
    <3>1. sk \in [Sockets -> Socket] /\ \A s \in Sockets : sk[s].st = sock[s].st
      BY SendJoinedType DEF TypeOK
    <3>2. sock' = broadcastPeerUpdate(vault[t.obj], connected, conn, sk)
          /\ UNCHANGED <<conn, owner>>
      BY <2>6 DEF JoinDone
    <3> HIDE DEF sk
    <3>3. \A s \in Sockets : sock'[s].st = sk[s].st
      BY <3>1, <3>2 DEF broadcastPeerUpdate, Socket
    <3> QED
      BY <3>1, <3>2, <3>3, FramesOnly
  <2> QED
    BY <1>2, <2>1, <2>2, <2>3, <2>4, <2>5, <2>6 DEF JoinStep
<1>3. ASSUME NEW t \in tasks, HostStep(t) PROVE LatestSocketKept'
  <2>1. CASE FrameIgnored(t) \/ AcceptJoin(t) \/ AcceptNoRoom(t) \/ RejectJoin(t)
             \/ KickPeer(t)
    BY <2>1, FramesOnly DEF FrameIgnored, AcceptJoin, AcceptNoRoom, RejectJoin, KickPeer
  <2>2. CASE AcceptDone(t)
    <3> DEFINE sk == [s \in Sockets |-> IF s = conn[t.p] THEN SendJoined(sock[s])
                                        ELSE sock[s]]
    <3>1. sk \in [Sockets -> Socket] /\ \A s \in Sockets : sk[s].st = sock[s].st
      BY SendJoinedType DEF TypeOK
    <3>2. sock' = broadcastPeerUpdate(vault[t.obj], connected, conn, sk)
          /\ UNCHANGED <<conn, owner>>
      BY <2>2 DEF AcceptDone
    <3> HIDE DEF sk
    <3>3. \A s \in Sockets : sock'[s].st = sk[s].st
      BY <3>1, <3>2 DEF broadcastPeerUpdate, Socket
    <3> QED
      BY <3>1, <3>2, <3>3, FramesOnly
  <2>3. CASE RejectDone(t)
    BY <2>3, ShutOutOwners, RunningSocketTask DEF RejectDone
  <2>4. CASE KickDone(t)
    <3> DEFINE sk == ShutOut(t.p)
    <3>1. sk \in [Sockets -> Socket]
      BY <2>4, RunningSocketTask, ShutOutType DEF KickDone
    <3>2. sock' = broadcastPeerUpdate(vault[t.obj], connected, conn', sk)
          /\ conn' = [conn EXCEPT ![t.p] = NoSocket] /\ UNCHANGED owner /\ t.p \in Peers
      BY <2>4, RunningSocketTask DEF KickDone
    <3> HIDE DEF sk
    <3>3. \A s \in Sockets : sock'[s].st = sk[s].st
      BY <3>1, <3>2 DEF broadcastPeerUpdate, Socket
    <3> USE DEF sk
    <3> QED
      BY <3>2, <3>3, ShutOutOwners
  <2> QED
    BY <1>3, <2>1, <2>2, <2>3, <2>4 DEF HostStep
<1>4. ASSUME NEW t \in tasks, CloseStep(t) PROVE LatestSocketKept'
  <2>1. CASE CloseNoSession(t) \/ CloseRecorded(t)
    BY <2>1, FramesOnly DEF CloseNoSession, CloseRecorded
  <2>2. CASE CloseDone(t)
    <3>1. UNCHANGED <<conn, owner>> /\ \A s \in Sockets : sock'[s].st = sock[s].st
      BY <2>2 DEF CloseDone, broadcastPeerUpdate, TypeOK, Socket
    <3> QED
      BY <3>1, FramesOnly
  <2> QED
    BY <1>4, <2>1, <2>2 DEF CloseStep
<1>5. CASE UNCHANGED vars
  BY <1>5, FramesOnly DEF vars
<1> QED
  BY <1>1, <1>2, <1>3, <1>4, <1>5, EventOwners, NextSplit

\* However closes, rejects, kicks, teardowns and reconnects interleave, the
\* newest open socket of a peer is the one frames for that peer go to.
THEOREM LatestSocketKeeps == Spec => []LatestSocketKept
<1>1. Init => LatestSocketKept
  BY DEF Init, LatestSocketKept, IsOpen
<1> QED
  BY <1>1, NextOwners, TypeCorrect, PTL DEF Spec

-----------------------------------------------------------------------------
(* The settled states of the build as it is (AwaitYields = FALSE).         *)
(*                                                                         *)
(* What holds when nothing is in flight is established by handlers that    *)
(* were in flight, so the inductive invariant `Settling' says at every     *)
(* step which of it is already true and which handler still owes the rest. *)


\* Handlers nothing overlaps: only the host's frames may follow each other,
\* the first of them while the host's own join sends its replies.
Alone(t) == \/ t.op \in {"create", "teardown", "close"}
            \/ t.op = "join" /\ t.at # "saved"

\* Who may be in flight together, and what they hold: the session object of
\* every socket task is still the one in the store.
Serial ==
  \A t \in tasks : /\ Alone(t) => tasks = {t}
                   /\ t \in SocketTasks => t.obj = store
                   /\ t \in StoreTasks => store = 0
                   /\ t.at # "got" => store # 0
                   /\ \A u \in tasks : {t, u} \subseteq SocketTasks => u.s = t.s

\* A host device shows the recovery token or names the host id; a member
\* shows its membership token.
Presented(t) ==
  /\ "recovery" \in t.cred => t.p \in HostIds
  /\ "member" \in t.cred => t.p \in Members \ HostIds
  /\ t.p \in Members \ HostIds => "member" \in t.cred
  /\ t.p \in HostIds /\ store # 0 => "recovery" \in t.cred \/ t.p = vault[store].hostId

\* What each suspended handler still finds when it resumes.
Rely(t) ==
  /\ Running(t, "join", "got") => sock[t.s].peer = NoPeer /\ Presented(t)
  /\ Running(t, "join", "asked") =>
       sock[t.s].peer = NoPeer /\ t.p \in vault[store].pending
  /\ Running(t, "join", "saved") =>
       /\ sock[t.s].peer = t.p /\ conn[t.p] = t.s
       /\ t.p \in vault[store].peers \cap connected
  /\ t.op = "close" => sock[t.s].st = "closed"
  /\ t.op \in {"reject", "kick"} /\ t.at = "saved" =>
       t.p \notin vault[store].peers \cup vault[store].pending

Relied == \A t \in tasks : Rely(t)

\* Connection keys lead to sockets bound to the peer, and without a vault (or
\* a teardown still to come) nobody is connected.
Bound == /\ \A p \in Peers : conn[p] # NoSocket => sock[conn[p]].peer = p
         /\ store = 0 /\ (\A t \in tasks : t.op # "teardown") => connected = {}

\* A pending guest is registered, or a handler is about to register it or to
\* free its slot.
Waiting(p) ==
  \/ conn[p] # NoSocket /\ p \in connected
  \/ \E t \in tasks : /\ Running(t, "close", "got") \/ Running(t, "join", "asked")
                      /\ t.p = p

Queue ==
  store # 0 => \A p \in vault[store].pending :
    p \notin vault[store].peers \cup HostIds \cup Members /\ Waiting(p)

\* Presence is exact unless a close has removed the socket and not yet saved.
Counted ==
  store # 0 /\ vault[store].active /\ (\A t \in tasks : ~Running(t, "close", "got")) =>
    /\ vault[store].count = Cardinality(Present)
    /\ vault[store].empty <=> Present = {}

\* The handler that still has to send p its `joined'; handlers that still
\* have a roster to send.
Telling(t, p) == t.op \in {"join", "accept"} /\ t.at = "saved" /\ t.p = p
Told(p) == sock[conn[p]].joined \/ \E t \in tasks : Telling(t, p)
Informs(t) == \/ t.op \in {"join", "accept", "kick", "close"} /\ t.at = "saved"
              \/ t.op = "close" /\ t.at = "got"

\* Present peers have a connection, are told or about to be, and hold the
\* current roster unless one is about to be sent.
Roster ==
  store # 0 => \A p \in Present :
    /\ conn[p] # NoSocket
    /\ IsOpen(conn[p]) =>
         /\ Told(p)
         /\ (\A t \in tasks : ~Informs(t)) => sock[conn[p]].view = Present

Settling == Serial /\ Relied /\ Bound /\ Queue /\ Counted /\ Roster

Runs == TypeOK /\ NoResurrection /\ AwaitYields = FALSE /\ Settling

\* The fields the helpers leave alone and the presence they record.

LEMMA ReclaimFields ==
  ASSUME NEW v \in Vault, NEW c
  PROVE  LET r == reclaimStaleSlots(v, c) IN
         /\ r \in Vault
         /\ r.peers \subseteq v.peers /\ v.peers \cap c \subseteq r.peers
         /\ admittedPeers(r, c) = admittedPeers(v, c)
         /\ r.hostId = v.hostId /\ r.pending = v.pending /\ r.count = v.count
         /\ r.empty = v.empty /\ r.isGroup = v.isGroup /\ r.active = v.active
<1> DEFINE r == reclaimStaleSlots(v, c)
<1>1. r = [v EXCEPT !.peers = @ \ stalePeerIds(v, c), !.old = @ \ stalePeerIds(v, c)]
  BY DEF reclaimStaleSlots, Remove
<1>2. \A p \in stalePeerIds(v, c) : p \notin c
  BY DEF stalePeerIds
<1>3. /\ r.hostId = v.hostId /\ r.pending = v.pending /\ r.count = v.count
      /\ r.empty = v.empty /\ r.isGroup = v.isGroup /\ r.active = v.active
      /\ r.peers = v.peers \ stalePeerIds(v, c)
  BY <1>1 DEF Vault
<1>4. r \in Vault
  BY ReclaimType
<1> QED
  BY <1>2, <1>3, <1>4 DEF admittedPeers

LEMMA SyncFields ==
  ASSUME NEW v \in Vault, NEW c
  PROVE  LET w == syncPresence(v, c) IN
         /\ w \in Vault
         /\ w.peers = v.peers /\ admittedPeers(w, c) = admittedPeers(v, c)
         /\ w.hostId = v.hostId /\ w.pending = v.pending
         /\ w.isGroup = v.isGroup /\ w.active = v.active
         /\ w.count = Cardinality(admittedPeers(w, c))
         /\ w.empty <=> admittedPeers(w, c) = {}
<1> DEFINE w == syncPresence(v, c)
<1>1. w = [v EXCEPT !.count = Cardinality(admittedPeers(v, c)),
                    !.empty = admittedPeers(v, c) = {}]
  BY DEF syncPresence
<1>2. /\ w.hostId = v.hostId /\ w.pending = v.pending /\ w.peers = v.peers
      /\ w.isGroup = v.isGroup /\ w.active = v.active
      /\ w.count = Cardinality(admittedPeers(v, c))
      /\ w.empty = (admittedPeers(v, c) = {})
  BY <1>1 DEF Vault
<1>3. w \in Vault
  BY SyncType
<1>4. admittedPeers(w, c) = admittedPeers(v, c)
  BY <1>2 DEF admittedPeers
<1> HIDE DEF w
<1>5. w.empty <=> admittedPeers(w, c) = {}
  BY <1>2, <1>4, Zenon
<1> QED
  BY <1>2, <1>3, <1>4, <1>5 DEF w

LEMMA AdmitFields ==
  ASSUME NEW v \in Vault, NEW c, NEW p \in Peers
  PROVE  LET a == admitPeer(v, c, p) IN
         /\ a \in Vault
         /\ a.peers \subseteq v.peers \cup {p} /\ p \in a.peers
         /\ v.peers \cap c \subseteq a.peers
         /\ a.hostId = v.hostId /\ a.pending = v.pending
         /\ a.count = Cardinality(admittedPeers(a, c))
         /\ a.empty <=> admittedPeers(a, c) = {}
<1> DEFINE r == reclaimStaleSlots(v, c)
           x == [r EXCEPT !.peers = @ \cup {p}, !.old = @ \ {p}, !.active = TRUE]
           w == syncPresence(x, c)
           a == [w EXCEPT !.isGroup = @ \/ w.count > 2]
<1>1. /\ r \in Vault /\ r.peers \subseteq v.peers /\ v.peers \cap c \subseteq r.peers
      /\ r.hostId = v.hostId /\ r.pending = v.pending
  BY ReclaimFields
<1> HIDE DEF r
<1>2. /\ x \in Vault /\ x.peers = r.peers \cup {p}
      /\ x.hostId = r.hostId /\ x.pending = r.pending
  BY <1>1 DEF Vault
<1> HIDE DEF x
<1>3. /\ w \in Vault /\ w.peers = x.peers
      /\ w.hostId = x.hostId /\ w.pending = x.pending
      /\ w.count = Cardinality(admittedPeers(w, c))
      /\ w.empty <=> admittedPeers(w, c) = {}
  BY <1>2, SyncFields
<1> HIDE DEF w
<1>4. /\ a.peers = w.peers /\ a.hostId = w.hostId /\ a.pending = w.pending
      /\ a.count = w.count /\ a.empty = w.empty
  BY <1>3 DEF Vault
<1>5. a \in Vault
  BY <1>3 DEF Vault
<1>6. admittedPeers(a, c) = admittedPeers(w, c)
  BY <1>4 DEF admittedPeers
<1>7. admitPeer(v, c, p) = a
  BY DEF admitPeer, r, x, w
<1> HIDE DEF a
<1>8. a.empty <=> admittedPeers(a, c) = {}
  BY <1>3, <1>4, <1>6, Zenon
<1> QED
  BY <1>1, <1>2, <1>3, <1>4, <1>5, <1>6, <1>7, <1>8

LEMMA TakeHostFields ==
  ASSUME NEW v \in Vault, NEW p \in Peers
  PROVE  LET w == TakeHost(v, p) IN
         /\ w \in Vault /\ w.peers \subseteq v.peers
         /\ w.hostId = p /\ w.pending = v.pending
         /\ p \in v.peers => p \in w.peers
<1>1. CASE v.hostId = p
  BY <1>1 DEF TakeHost
<1>2. CASE v.hostId # p
  <2> DEFINE r == [v EXCEPT !.peers = @ \ {v.hostId}, !.old = @ \ {v.hostId}]
  <2>1. r.peers = v.peers \ {v.hostId} /\ r.pending = v.pending /\ r \in Vault
    BY DEF Vault
  <2>2. TakeHost(v, p) = [r EXCEPT !.hostId = p]
    BY <1>2 DEF TakeHost, Remove
  <2> HIDE DEF r
  <2> QED
    BY <1>2, <2>1, <2>2 DEF Vault
<1> QED
  BY <1>1, <1>2

\* The parts of the invariant, and the session object the store holds.
LEMMA Holds ==
  ASSUME Runs
  PROVE  /\ TypeOK /\ NoResurrection /\ Serial /\ Relied /\ Bound /\ Queue /\ Counted /\ Roster
         /\ AwaitYields = FALSE
         /\ store # 0 => /\ store \in Ids /\ vault[store] \in Vault
                         /\ Present \subseteq vault[store].peers /\ Present \subseteq connected
                         /\ vault[store].peers \subseteq Peers /\ vault[store].pending \subseteq Peers
         /\ Save(store) = store
<1>1. TypeOK /\ NoResurrection /\ Settling /\ AwaitYields = FALSE
  BY DEF Runs
<1>2. store # 0 => store \in Ids /\ vault[store] \in Vault
  BY <1>1, VaultAssumption DEF TypeOK, Ids
<1>3. Save(store) = store
  BY <1>1 DEF Save
<1>4. Present = connected \cap vault[store].peers
  BY DEF Present, admittedPeers
<1> QED
  BY <1>1, <1>2, <1>3, <1>4 DEF Settling, Vault

\* Steps that send no roster and take nobody's `joined' away.
LEMMA RosterFrame ==
  ASSUME Roster, store' = store, store # 0 => Present' \subseteq Present,
         store # 0 /\ (\A t \in tasks : ~Informs(t)) => Present' = Present,
         store # 0 => \A p \in Present' :
                        /\ conn'[p] = conn[p]
                        /\ sock'[conn[p]].joined = sock[conn[p]].joined
                        /\ sock'[conn[p]].view = sock[conn[p]].view
                        /\ sock'[conn[p]].st = "open" => sock[conn[p]].st = "open",
         \A t \in tasks, p \in Peers : Telling(t, p) => \E u \in tasks' : Telling(u, p),
         (\E t \in tasks : Informs(t)) => \E t \in tasks' : Informs(t),
         store # 0 => Present' \subseteq Peers
  PROVE  Roster'
<1> SUFFICES ASSUME store' # 0, NEW p \in Present'
             PROVE  /\ conn'[p] # NoSocket
                    /\ sock'[conn'[p]].st = "open" =>
                         /\ sock'[conn'[p]].joined \/ \E t \in tasks' : Telling(t, p)
                         /\ (\A t \in tasks' : ~Informs(t)) => sock'[conn'[p]].view = Present'
  BY DEF Roster, IsOpen, Told, Telling, Informs, Running
<1>1. /\ store # 0 /\ p \in Peers /\ p \in Present
      /\ conn'[p] = conn[p]
      /\ sock'[conn[p]].joined = sock[conn[p]].joined
      /\ sock'[conn[p]].view = sock[conn[p]].view
  OBVIOUS
<1>2. sock'[conn[p]].st = "open" => sock[conn[p]].st = "open"
  OBVIOUS
<1>3. /\ conn[p] # NoSocket
      /\ sock[conn[p]].st = "open" =>
           /\ sock[conn[p]].joined \/ \E t \in tasks : Telling(t, p)
           /\ (\A t \in tasks : ~Informs(t)) => sock[conn[p]].view = Present
  BY <1>1 DEF Roster, IsOpen, Told
<1>4. (\E t \in tasks : Telling(t, p)) => \E t \in tasks' : Telling(t, p)
  BY <1>1
<1>5. (\A t \in tasks' : ~Informs(t)) => \A t \in tasks : ~Informs(t)
  OBVIOUS
<1> QED
  BY <1>1, <1>2, <1>3, <1>4, <1>5

\* A handler that has done nothing yet is dropped.
LEMMA Dropped ==
  ASSUME Runs, NEW t \in tasks, t \in SocketTasks, t.at = "got", t.op # "close",
         UNCHANGED <<vault, store, conn, connected, sock>>, tasks' = tasks \ {t}
  PROVE  Settling'
<1> USE Holds
<1>1. \A u \in tasks' : u \in tasks
  OBVIOUS
<1>2. Serial'
  BY DEF Serial, Alone
<1>3. Relied'
  BY DEF Relied, Rely, Running, Presented
<1>4. t.op # "teardown" /\ ~Informs(t) /\ \A p \in Peers : ~Telling(t, p)
  BY DEF SocketTasks, Telling, Informs
<1>5. Bound'
  BY <1>4 DEF Bound
<1>6. \A p : Waiting(p) => Waiting(p)'
  BY DEF Waiting, Running
<1>7. Queue'
  BY <1>6 DEF Queue
<1>8. Present' = Present
  BY DEF Present, admittedPeers
<1>9. Counted'
  BY <1>8 DEF Counted, Running
<1>10. Roster'
  <2>1. \A u \in tasks, p \in Peers : Telling(u, p) => \E x \in tasks' : Telling(x, p)
    BY <1>4
  <2>2. (\E u \in tasks : Informs(u)) => \E u \in tasks' : Informs(u)
    BY <1>4
  <2> QED
    BY <1>8, <2>1, <2>2, RosterFrame
<1> QED
  BY <1>2, <1>3, <1>5, <1>7, <1>9, <1>10 DEF Settling

LEMMA QueueFrame ==
  ASSUME Queue, store' = store,
         store # 0 => /\ vault'[store].pending \subseteq vault[store].pending
                      /\ \A p \in vault'[store].pending :
                           /\ p \in vault'[store].peers => p \in vault[store].peers
                           /\ Waiting(p) => Waiting(p)'
  PROVE  Queue'
BY DEF Queue

LEMMA CountedFrame ==
  ASSUME Counted, store' = store,
         store # 0 => /\ Present' = Present
                      /\ vault'[store].count = vault[store].count
                      /\ vault'[store].empty = vault[store].empty
                      /\ vault'[store].active = vault[store].active,
         (\E t \in tasks : Running(t, "close", "got")) =>
           \E t \in tasks' : Running(t, "close", "got")'
  PROVE  Counted'
<1> SUFFICES ASSUME store' # 0, vault'[store'].active,
                    \A t \in tasks' : ~Running(t, "close", "got")'
             PROVE  /\ vault'[store'].count = Cardinality(Present')
                    /\ vault'[store'].empty <=> Present' = {}
  BY DEF Counted
<1>1. \A t \in tasks : ~Running(t, "close", "got")
  OBVIOUS
<1> QED
  BY <1>1 DEF Counted

\* Sockets and maps as they were, nothing in flight before or after.
LEMMA StoreEvents ==
  ASSUME Runs, CreateVault \/ RemoveVault
  PROVE  Settling'
<1>1. tasks = {} /\ connected = connected' /\ conn' = conn /\ sock' = sock /\ store' = 0
  BY Holds DEF CreateVault, RemoveVault, Idle
<1>2. store = 0 => connected = {}
  BY <1>1, Holds DEF Bound
<1>3. PICK u \in StoreTasks : tasks' = {u} /\ (u.op = "create" => store = 0)
  <2>1. CASE CreateVault
    <3> DEFINE x == [op |-> "create", at |-> "got"]
    <3>1. x \in StoreTasks
      BY DEF StoreTasks
    <3>2. tasks' = {x} /\ store = 0
      BY <1>1, <2>1 DEF CreateVault, Start
    <3> QED
      BY <3>1, <3>2
  <2>2. CASE RemoveVault
    <3> DEFINE x == [op |-> "teardown", at |-> "got"]
    <3>1. x \in StoreTasks /\ x.op # "create"
      BY DEF StoreTasks
    <3>2. tasks' = {x}
      BY <1>1, <2>2 DEF RemoveVault, Start
    <3> QED
      BY <3>1, <3>2
  <2> QED
    BY <2>1, <2>2
<1>4. u \notin SocketTasks /\ u.at = "got" /\ u.op \in {"create", "teardown"}
  BY DEF StoreTasks, SocketTasks
<1>5. Serial'
  BY <1>1, <1>3, <1>4 DEF Serial, Alone
<1>6. Relied'
  BY <1>3, <1>4 DEF Relied, Rely, Running
<1>7. Bound'
  <2>1. \A p \in Peers : conn'[p] # NoSocket => sock'[conn'[p]].peer = p
    BY <1>1, Holds DEF Bound
  <2> QED
    BY <1>1, <1>2, <1>3, <1>4, <2>1 DEF Bound
<1>8. Queue' /\ Counted' /\ Roster'
  BY <1>1 DEF Queue, Counted, Roster
<1> QED
  BY <1>5, <1>6, <1>7, <1>8 DEF Settling

LEMMA GraceStep ==
  ASSUME Runs, NEW p \in Peers, GraceElapses(p)
  PROVE  Settling'
<1> DEFINE w == [vault[store] EXCEPT !.old = @ \cup {p}]
<1>1. /\ tasks = {} /\ UNCHANGED <<store, conn, connected, sock, tasks>> /\ store # 0
      /\ store \in Ids /\ vault[store] \in Vault
  BY Holds DEF GraceElapses, Idle
<1>2. vault'[store] = w
  BY <1>1, Holds DEF GraceElapses, TypeOK
<1>3. /\ w.hostId = vault[store].hostId /\ w.peers = vault[store].peers
      /\ w.pending = vault[store].pending /\ w.count = vault[store].count
      /\ w.empty = vault[store].empty /\ w.active = vault[store].active
  BY <1>1 DEF Vault
<1> HIDE DEF w
<1>4. Present' = Present
  BY <1>1, <1>2, <1>3 DEF Present, admittedPeers
<1>5. Serial' /\ Relied' /\ Bound'
  BY <1>1, Holds DEF Serial, Relied, Bound
<1>6. Queue'
  BY <1>1, <1>2, <1>3, Holds DEF Queue, Waiting, Running
<1>7. Counted'
  BY <1>1, <1>2, <1>3, <1>4, Holds, CountedFrame
<1>8. Roster'
  <2>1. Present' \subseteq Peers
    BY <1>1, <1>4, Holds
  <2> QED
    BY <1>1, <1>4, <2>1, Holds, RosterFrame
<1> QED
  BY <1>5, <1>6, <1>7, <1>8 DEF Settling

LEMMA JoinFrameStep ==
  ASSUME Runs, NEW s \in Sockets, NEW p \in Peers, NEW cred \in Credentials,
         JoinFrame(s, p, cred)
  PROVE  Settling'
<1>u. PICK u : u = [op |-> "join", at |-> "got", s |-> s, obj |-> store, p |-> p,
                    cred |-> cred]
  OBVIOUS
<1>1. /\ tasks = {} /\ UNCHANGED <<vault, store, conn, connected>> /\ tasks' = {u}
      /\ cred \in Presentable(p) /\ ~Referenced(s)
      /\ sock' = [sock EXCEPT ![s] = [Blank EXCEPT !.st = "open"]]
  BY <1>u, Holds DEF JoinFrame, Idle, Start
<1>2. /\ u.op = "join" /\ u.at = "got" /\ u.s = s /\ u.obj = store /\ u.p = p /\ u.cred = cred
      /\ u \notin StoreTasks
  BY <1>u DEF StoreTasks
<1>3. sock'[s].peer = NoPeer /\ \A x \in Sockets : x # s => sock'[x] = sock[x]
  BY <1>1, Holds DEF TypeOK, Blank
<1>4. \A q \in Peers : conn[q] # s
  BY <1>1 DEF Referenced
<1>5. Serial'
  BY <1>1, <1>2, Holds DEF Serial, Alone
<1>6. Presented(u)'
  <2>1. CASE p \in HostIds
    BY <1>1, <1>2, <2>1 DEF Presented, Presentable
  <2>2. CASE p \in Members \ HostIds
    BY <1>1, <1>2, <2>2 DEF Presented, Presentable
  <2>3. CASE p \notin Members /\ p \notin HostIds
    BY <1>1, <1>2, <2>3 DEF Presented, Presentable
  <2> QED
    BY <2>1, <2>2, <2>3
<1>7. Relied'
  <2>1. Rely(u)'
    BY <1>2, <1>3, <1>6 DEF Rely, Running
  <2> QED
    BY <1>1, <2>1 DEF Relied
<1>8. \A q \in Peers : conn[q] # NoSocket => sock'[conn[q]] = sock[conn[q]]
  BY <1>3, <1>4, Holds DEF TypeOK
<1>9. Bound'
  BY <1>1, <1>2, <1>8, Holds DEF Bound
<1>10. Queue'
  BY <1>1, <1>2, Holds DEF Queue, Waiting, Running
<1>11. Present' = Present
  BY <1>1 DEF Present, admittedPeers
<1>12. Counted'
  BY <1>1, <1>2, <1>11, Holds, CountedFrame
<1>13. Roster'
  <2>1. store # 0 => Present \subseteq Peers /\ \A q \in Present : conn[q] # NoSocket
    BY Holds DEF Roster
  <2>2. store # 0 => \A q \in Present : sock'[conn[q]] = sock[conn[q]]
    BY <1>8, <2>1
  <2> QED
    BY <1>1, <1>11, <2>1, <2>2, Holds, RosterFrame
<1> QED
  BY <1>5, <1>7, <1>9, <1>10, <1>12, <1>13 DEF Settling


\* What a handler finds when it resumes.

LEMMA TaskFacts ==
  ASSUME Runs, NEW t \in tasks
  PROVE  /\ Alone(t) => tasks = {t}
         /\ t.op \in {"join", "accept", "reject", "kick", "close"} =>
              /\ t \in SocketTasks /\ t.obj = store /\ t.p \in Peers /\ t.s \in Sockets
              /\ \A u \in tasks : u \in SocketTasks => u.s = t.s
         /\ t.op \in {"create", "teardown"} => tasks = {t} /\ store = 0 /\ t.at = "got"
         /\ t.at # "got" => store # 0
         /\ Rely(t)
<1>1. t \in SocketTasks \/ t \in StoreTasks
  BY Holds DEF TypeOK
<1> QED
  BY <1>1, Holds DEF Serial, Relied, Alone, SocketTasks, StoreTasks

LEMMA NextTask ==
  ASSUME NEW t \in SocketTasks, NEW a \in {"got", "saved", "asked"}
  PROVE  /\ [t EXCEPT !.at = a] \in SocketTasks
         /\ [t EXCEPT !.at = a].op = t.op /\ [t EXCEPT !.at = a].at = a
         /\ [t EXCEPT !.at = a].s = t.s /\ [t EXCEPT !.at = a].obj = t.obj
         /\ [t EXCEPT !.at = a].p = t.p
BY DEF SocketTasks

LEMMA SerialLess ==
  ASSUME Serial, store' = store, tasks' \subseteq tasks
  PROVE  Serial'
BY DEF Serial, Alone

LEMMA SerialNext ==
  ASSUME Runs, NEW t \in tasks, t \in SocketTasks, NEW a \in {"saved", "asked"},
         store' = store, store # 0, Suspend(t, a),
         a = "asked" => tasks = {t}
  PROVE  Serial'
<1>1. PICK u : u = [t EXCEPT !.at = a]
  OBVIOUS
<1>2. /\ u \in SocketTasks /\ u.op = t.op /\ u.at = a /\ u.s = t.s /\ u.obj = t.obj
      /\ u \notin StoreTasks
  BY <1>1, NextTask DEF StoreTasks, SocketTasks
<1>3. tasks' = (tasks \ {t}) \cup {u}
  BY <1>1 DEF Suspend
<1>4. Alone(u) => tasks = {t}
  BY <1>2, TaskFacts DEF Alone
<1>5. \A x \in tasks \ {t} : ~Alone(x)
  BY TaskFacts
<1>6. \A x \in tasks \ {t} : /\ x \in SocketTasks => x.obj = store /\ x.s = u.s
                             /\ x \notin StoreTasks
  BY <1>2, Holds DEF Serial
<1>7. u.obj = store
  BY <1>2, Holds DEF Serial
<1>8. tasks' = {u} \/ ~Alone(u)
  BY <1>3, <1>4
<1> QED
  <2> SUFFICES ASSUME NEW x \in tasks'
               PROVE  /\ Alone(x) => tasks' = {x}
                      /\ x \in SocketTasks => x.obj = store
                      /\ x \notin StoreTasks
                      /\ \A y \in tasks' : {x, y} \subseteq SocketTasks => y.s = x.s
    BY DEF Serial, Alone
  <2>1. CASE x = u
    BY <2>1, <1>2, <1>3, <1>6, <1>7, <1>8
  <2>2. CASE x \in tasks \ {t}
    BY <2>2, <1>2, <1>3, <1>5, <1>6
  <2> QED
    BY <2>1, <2>2, <1>3

\* No connection key names a socket without an identity.
LEMMA Unkeyed ==
  ASSUME Runs, NEW s \in Sockets, sock[s].peer = NoPeer
  PROVE  \A q \in Peers : conn[q] # s
<1> SUFFICES ASSUME NEW q \in Peers, conn[q] = s
             PROVE  FALSE
  OBVIOUS
<1>1. sock[s].peer = q
  BY VaultAssumption, Holds DEF Bound
<1> QED
  BY <1>1, VaultAssumption

LEMMA BroadcastFields ==
  ASSUME NEW v, NEW c, NEW cn, NEW sk \in [Sockets -> Socket], NEW s \in Sockets,
         v \in Vault
  PROVE  LET b == broadcastPeerUpdate(v, c, cn, sk) IN
         /\ b[s].st = sk[s].st /\ b[s].peer = sk[s].peer /\ b[s].joined = sk[s].joined
         /\ \A p \in admittedPeers(v, c) :
              cn[p] = s /\ sk[s].st = "open" => b[s].view = admittedPeers(v, c)
BY DEF broadcastPeerUpdate, Socket

LEMMA BroadcastFrame ==
  ASSUME Runs, NEW t \in tasks, NEW sk \in [Sockets -> Socket], NEW cn, store # 0,
         sock' = broadcastPeerUpdate(vault[store], connected, cn, sk), conn' = cn,
         UNCHANGED <<vault, store, connected>>, Finish(t),
         \A q \in Present :
           /\ cn[q] = conn[q]
           /\ sk[conn[q]].st = "open" =>
                /\ sock[conn[q]].st = "open"
                /\ sock[conn[q]].joined \/ Telling(t, q) => sk[conn[q]].joined
  PROVE  Roster'
<1>1. Present' = Present
  BY DEF Present, admittedPeers
<1> SUFFICES ASSUME NEW q \in Present
             PROVE  /\ conn[q] # NoSocket
                    /\ sock'[conn[q]].st = "open" =>
                         /\ sock'[conn[q]].joined \/ \E x \in tasks' : Telling(x, q)
                         /\ sock'[conn[q]].view = Present
  BY <1>1 DEF Roster, IsOpen, Told, Telling, Informs, Running
<1>2. conn[q] # NoSocket /\ q \in Peers
  BY Holds DEF Roster
<1>3. conn[q] \in Sockets
  BY <1>2, Holds DEF TypeOK
<1>4. vault[store] \in Vault /\ q \in admittedPeers(vault[store], connected)
      /\ Present = admittedPeers(vault[store], connected)
  BY Holds DEF Present
<1>5. /\ sock'[conn[q]].st = sk[conn[q]].st /\ sock'[conn[q]].joined = sk[conn[q]].joined
      /\ sk[conn[q]].st = "open" => sock'[conn[q]].view = Present
  BY <1>3, <1>4, BroadcastFields
<1>6. sock[conn[q]].st = "open" => sock[conn[q]].joined \/ \E x \in tasks : Telling(x, q)
  BY <1>2, Holds DEF Roster, IsOpen, Told
<1> QED
  BY <1>2, <1>5, <1>6 DEF Finish

\* --- events that leave the vault object alone

LEMMA HostFrameStep ==
  ASSUME Runs, NEW s \in Sockets, NEW op \in {"accept", "reject", "kick"}, NEW p \in Peers,
         HostFrame(s, op, p)
  PROVE  Settling'
<1>1. PICK u : u = [op |-> op, at |-> "got", s |-> s, obj |-> store, p |-> p, cred |-> {}]
  OBVIOUS
<1>2. /\ u.op = op /\ u.at = "got" /\ u.s = s /\ u.obj = store /\ u.p = p
      /\ u \notin StoreTasks
  BY <1>1 DEF StoreTasks
<1>3. /\ UNCHANGED <<vault, store, conn, connected, sock>> /\ tasks' = tasks \cup {u}
      /\ store # 0 /\ sock[s].st = "open" /\ sock[s].peer \in HostIds
      /\ \A t \in tasks : t \in SocketTasks /\ t.s = s
  BY <1>1, Holds DEF HostFrame, Idle, Start, SameSocket
<1>4. sock[s].peer # NoPeer
  BY <1>3, VaultAssumption DEF Peers
<1>5. \A t \in tasks : ~Alone(t)
  BY <1>3, <1>4, TaskFacts DEF Alone, Rely, Running, SocketTasks
<1>6. Serial'
  BY <1>2, <1>3, <1>5, Holds DEF Serial, Alone
<1>7. Relied'
  BY <1>2, <1>3, Holds DEF Relied, Rely, Running, Presented
<1>8. Bound'
  BY <1>3, Holds DEF Bound
<1>9. Queue'
  BY <1>3, Holds DEF Queue, Waiting, Running
<1>10. Present' = Present
  BY <1>3 DEF Present, admittedPeers
<1>11. Counted'
  BY <1>2, <1>3, <1>10, Holds DEF Counted, Running
<1>12. Roster'
  BY <1>3, <1>10, Holds, RosterFrame
<1> QED
  BY <1>6, <1>7, <1>8, <1>9, <1>11, <1>12 DEF Settling

LEMMA SocketDropsStep ==
  ASSUME Runs, NEW s \in Sockets, SocketDrops(s) \/ CloseStale(s)
  PROVE  Settling'
<1>1. /\ tasks = {} /\ UNCHANGED <<vault, store, conn, connected, tasks>>
  BY Holds DEF SocketDrops, CloseStale
<1>2. \A q \in Peers : conn[q] # NoSocket =>
        /\ conn[q] \in Sockets
        /\ sock'[conn[q]].peer = sock[conn[q]].peer
        /\ sock'[conn[q]].joined = sock[conn[q]].joined
        /\ sock'[conn[q]].view = sock[conn[q]].view
        /\ sock'[conn[q]].st = "open" => sock[conn[q]].st = "open"
  <2> SUFFICES ASSUME NEW q \in Peers, conn[q] # NoSocket
               PROVE  /\ conn[q] \in Sockets
                      /\ sock'[conn[q]].peer = sock[conn[q]].peer
                      /\ sock'[conn[q]].joined = sock[conn[q]].joined
                      /\ sock'[conn[q]].view = sock[conn[q]].view
                      /\ sock'[conn[q]].st = "open" => sock[conn[q]].st = "open"
    OBVIOUS
  <2>1. conn[q] \in Sockets /\ sock[conn[q]].peer = q /\ q # NoPeer
        /\ sock \in [Sockets -> Socket]
    BY VaultAssumption, Holds DEF TypeOK, Bound
  <2>2. CASE SocketDrops(s)
    BY <2>1, <2>2 DEF SocketDrops, Socket
  <2>3. CASE CloseStale(s)
    BY <2>1, <2>3 DEF CloseStale, OwnsKey
  <2> QED
    BY <2>2, <2>3
<1>3. Serial' /\ Relied' /\ Queue'
  BY <1>1, Holds DEF Serial, Relied, Queue, Waiting, Running
<1>4. Bound'
  BY <1>1, <1>2, Holds DEF Bound
<1>5. Present' = Present
  BY <1>1 DEF Present, admittedPeers
<1>6. Counted'
  BY <1>1, <1>5, Holds, CountedFrame
<1>7. Roster'
  <2>1. store # 0 => Present \subseteq Peers /\ \A q \in Present : conn[q] # NoSocket
    BY Holds DEF Roster
  <2> QED
    BY <1>1, <1>2, <1>5, <2>1, Holds, RosterFrame
<1> QED
  BY <1>3, <1>4, <1>6, <1>7 DEF Settling

LEMMA CloseOwnerStep ==
  ASSUME Runs, NEW s \in Sockets, CloseOwner(s)
  PROVE  Settling'
<1>1. PICK p \in Peers : p = sock[s].peer /\ conn[p] = s
  BY Holds DEF CloseOwner, OwnsKey, TypeOK, Socket
<1>2. PICK u : u = [op |-> "close", at |-> "got", s |-> s, obj |-> store, p |-> p, cred |-> {}]
  OBVIOUS
<1>3. /\ u.op = "close" /\ u.at = "got" /\ u.s = s /\ u.obj = store /\ u.p = p
      /\ u \notin StoreTasks
  BY <1>2 DEF StoreTasks
<1>4. /\ UNCHANGED <<vault, store>> /\ tasks = {} /\ tasks' = {u}
      /\ sock' = [sock EXCEPT ![s] = Blank]
      /\ conn' = [conn EXCEPT ![p] = NoSocket] /\ connected' = connected \ {p}
  BY <1>1, <1>2, Holds DEF CloseOwner, Idle, Start, Closed
<1>5. /\ sock'[s].st = "closed" /\ conn'[p] = NoSocket
      /\ \A q \in Peers \ {p} : conn'[q] = conn[q] /\ conn[q] # s
      /\ \A x \in Sockets \ {s} : sock'[x] = sock[x]
  BY <1>1, <1>4, VaultAssumption, Holds DEF TypeOK, Blank, Bound
<1>6. \A q \in Peers \ {p} : conn[q] # NoSocket => sock'[conn[q]] = sock[conn[q]]
  BY <1>5, Holds DEF TypeOK
<1>7. Serial'
  BY <1>3, <1>4 DEF Serial, Alone
<1>8. Relied'
  BY <1>3, <1>4, <1>5 DEF Relied, Rely, Running
<1>9. Bound'
  BY <1>4, <1>5, <1>6, Holds DEF Bound
<1>10. Queue'
  <2> SUFFICES ASSUME store # 0, NEW q \in vault[store].pending
               PROVE  Waiting(q)'
    BY <1>4, Holds DEF Queue
  <2>1. CASE q = p
    BY <2>1, <1>3, <1>4 DEF Waiting, Running
  <2>2. CASE q # p
    BY <2>2, <1>4, <1>5, Holds DEF Queue, Waiting, Running
  <2> QED
    BY <2>1, <2>2
<1>11. Counted'
  BY <1>3, <1>4 DEF Counted, Running
<1>12. Roster'
  <2>1. Present' \subseteq Present \ {p}
    BY <1>4 DEF Present, admittedPeers
  <2>2. Informs(u)
    BY <1>3 DEF Informs
  <2>3. store # 0 => Present \subseteq Peers /\ \A q \in Present : conn[q] # NoSocket
    BY Holds DEF Roster
  <2>4. store # 0 => \A q \in Present' : conn'[q] = conn[q] /\ sock'[conn[q]] = sock[conn[q]]
    BY <1>5, <1>6, <2>1, <2>3
  <2> SUFFICES ASSUME store # 0, NEW q \in Present'
               PROVE  /\ conn'[q] # NoSocket
                      /\ sock'[conn'[q]].st = "open" => sock'[conn'[q]].joined
    BY <1>4, <2>2 DEF Roster, IsOpen, Told, Informs, Telling
  <2> QED
    BY <1>4, <2>1, <2>4, Holds DEF Roster, IsOpen, Told, Telling
<1> QED
  BY <1>7, <1>8, <1>9, <1>10, <1>11, <1>12 DEF Settling


LEMMA StoreStepSettles ==
  ASSUME Runs, NEW t \in tasks, StoreStep(t)
  PROVE  Settling'
<1>1. /\ tasks = {t} /\ store = 0 /\ tasks' = {} /\ t.op \in {"create", "teardown"}
  BY TaskFacts DEF StoreStep, CreateSaved, disconnectSession, Running, Finish
<1>2. Serial' /\ Relied'
  BY <1>1 DEF Serial, Relied
<1>3. CASE CreateSaved(t)
  <2>1. PICK h \in HostIds : vault' = [vault EXCEPT ![made + 1] = NewVault(h)]
    BY <1>3 DEF CreateSaved
  <2>2. /\ store' = made + 1 /\ made + 1 \in Ids /\ vault \in [Ids -> Vault]
        /\ UNCHANGED <<conn, connected, sock>> /\ t.op # "teardown"
    BY <1>3, VaultAssumption, Holds DEF CreateSaved, TypeOK, Ids, Running
  <2>3. vault'[store'] = NewVault(h)
    BY <2>1, <2>2
  <2>4. vault'[store'].pending = {} /\ vault'[store'].active = FALSE
    BY <2>3 DEF NewVault
  <2>5. connected = {}
    BY <1>1, <2>2, Holds DEF Bound
  <2>6. Present' = {}
    BY <2>2, <2>5 DEF Present, admittedPeers
  <2>7. Bound'
    BY <2>2, <2>5, Holds DEF Bound
  <2>8. Queue' /\ Counted' /\ Roster'
    BY <2>4, <2>6 DEF Queue, Counted, Roster
  <2> QED
    BY <1>2, <2>7, <2>8 DEF Settling
<1>4. CASE disconnectSession(t)
  <2>1. store' = 0 /\ connected' = {}
    BY <1>1, <1>4 DEF disconnectSession
  <2>2. \A p \in Peers : conn'[p] # NoSocket =>
          conn'[p] = conn[p] /\ sock'[conn[p]].peer = sock[conn[p]].peer
    BY <1>4, Holds DEF disconnectSession, TypeOK, CloseSocket, Socket
  <2>3. Bound'
    BY <2>1, <2>2, Holds DEF Bound
  <2> QED
    BY <1>2, <2>1, <2>3 DEF Settling, Queue, Counted, Roster
<1> QED
  BY <1>3, <1>4 DEF StoreStep

\* --- the join frame, up to its await

LEMMA JoinStart ==
  ASSUME Runs, NEW t \in tasks, t.op = "join", t.at = "got", t.obj # 0
  PROVE  LET v == reclaimStaleSlots(vault[t.obj], connected) IN
         /\ tasks = {t} /\ t.obj = store /\ store # 0
         /\ t \in SocketTasks /\ t.p \in Peers /\ t.s \in Sockets /\ t.s # NoSocket
         /\ sock[t.s].peer = NoPeer /\ Presented(t)
         /\ \A q \in Peers : conn[q] # t.s
         /\ v \in Vault /\ v.peers \subseteq vault[store].peers
         /\ vault[store].peers \cap connected \subseteq v.peers
         /\ admittedPeers(v, connected) = Present
         /\ v.hostId = vault[store].hostId /\ v.pending = vault[store].pending
         /\ v.count = vault[store].count /\ v.empty = vault[store].empty
         /\ v.active = vault[store].active
<1>1. /\ tasks = {t} /\ t.obj = store /\ store # 0 /\ t \in SocketTasks /\ t.p \in Peers
      /\ t.s \in Sockets /\ Rely(t)
  BY TaskFacts DEF Alone
<1>2. sock[t.s].peer = NoPeer /\ Presented(t)
  BY <1>1 DEF Rely, Running
<1>3. \A q \in Peers : conn[q] # t.s
  BY <1>1, <1>2, Unkeyed
<1>4. vault[store] \in Vault
  BY <1>1, Holds
<1> QED
  BY <1>1, <1>2, <1>3, <1>4, ReclaimFields, VaultAssumption DEF Present

LEMMA VaultPut ==
  ASSUME Runs, store # 0, NEW w, vault' = [vault EXCEPT ![store] = w]
  PROVE  vault'[store] = w
BY Holds DEF TypeOK

LEMMA JoinNotFoundStep ==
  ASSUME Runs, NEW t \in tasks, JoinNotFound(t) \/ FrameIgnored(t)
  PROVE  Settling'
<1>1. /\ t.at = "got" /\ t.op \in {"join", "accept", "reject", "kick"}
      /\ UNCHANGED <<vault, store, conn, connected, sock>> /\ tasks' = tasks \ {t}
  BY DEF JoinNotFound, FrameIgnored, Running, Finish
<1> QED
  BY <1>1, TaskFacts, Dropped

LEMMA JoinRefusedStep ==
  ASSUME Runs, NEW t \in tasks, JoinRefused(t)
  PROVE  Settling'
<1> DEFINE v == reclaimStaleSlots(vault[t.obj], connected)
<1>1. /\ t.op = "join" /\ t.at = "got" /\ t.obj # 0
      /\ UNCHANGED <<store, conn, connected>> /\ tasks' = tasks \ {t}
      /\ vault' = [vault EXCEPT ![t.obj] = v]
      /\ sock' = sock \/ sock' = [sock EXCEPT ![t.s] = CloseSocket(@)]
  BY DEF JoinRefused, Running, Finish
<1>2. /\ tasks = {t} /\ t.obj = store /\ store # 0 /\ t.s \in Sockets
      /\ v.peers \subseteq vault[store].peers /\ v.pending = vault[store].pending
      /\ v.count = vault[store].count /\ v.empty = vault[store].empty
      /\ v.active = vault[store].active /\ admittedPeers(v, connected) = Present
      /\ \A q \in Peers : conn[q] # t.s
  BY <1>1, JoinStart
<1>3. vault'[store] = v
  BY <1>1, <1>2, VaultPut
<1> HIDE DEF v
<1>4. \A q \in Peers : conn[q] # NoSocket => sock'[conn[q]] = sock[conn[q]]
  BY <1>1, <1>2, Holds DEF TypeOK
<1>5. Serial' /\ Relied'
  BY <1>1, <1>2 DEF Serial, Relied
<1>6. Bound'
  BY <1>1, <1>2, <1>4, Holds DEF Bound
<1>7. Queue'
  <2>1. \A q : Waiting(q) => Waiting(q)'
    BY <1>1, <1>2 DEF Waiting, Running
  <2> QED
    BY <1>1, <1>2, <1>3, <2>1, Holds DEF Queue
<1>8. Present' = Present
  BY <1>1, <1>2, <1>3 DEF Present
<1>9. Counted'
  <2>1. ~\E x \in tasks : Running(x, "close", "got")
    BY <1>1, <1>2 DEF Running
  <2> QED
    BY <1>1, <1>2, <1>3, <1>8, <2>1, Holds, CountedFrame
<1>10. Roster'
  <2>1. Present \subseteq Peers /\ \A q \in Present : conn[q] # NoSocket
    BY <1>2, Holds DEF Roster
  <2>2. \A q \in Present : sock'[conn[q]] = sock[conn[q]]
    BY <1>4, <2>1
  <2>3. ~Informs(t) /\ \A q \in Peers : ~Telling(t, q)
    BY <1>1 DEF Informs, Telling
  <2>4. \A x \in tasks, q \in Peers : Telling(x, q) => \E y \in tasks' : Telling(y, q)
    BY <1>2, <2>3
  <2>5. (\E x \in tasks : Informs(x)) => \E x \in tasks' : Informs(x)
    BY <1>2, <2>3
  <2> QED
    BY <1>1, <1>8, <2>1, <2>2, <2>4, <2>5, Holds, RosterFrame
<1> QED
  BY <1>5, <1>6, <1>7, <1>9, <1>10 DEF Settling

\* A guest that is not admitted registers its socket: rebound or asked.
LEMMA PendingRegisters ==
  ASSUME Runs, NEW t \in tasks, tasks = {t}, tasks' = {}, store # 0, store' = store,
         t.p \in Peers, t.s \in Sockets, sock[t.s].peer = NoPeer, ~Informs(t),
         registerConnection(t.p, t.s), sock' = [sock EXCEPT ![t.s].peer = t.p],
         t.p \notin vault[store].peers, t.op # "close",
         vault'[store].peers \subseteq vault[store].peers,
         admittedPeers(vault'[store], connected) = Present,
         vault'[store].pending = vault[store].pending,
         vault'[store].count = vault[store].count,
         vault'[store].empty = vault[store].empty,
         vault'[store].active = vault[store].active
  PROVE  Settling'
<1>1. /\ conn'[t.p] = t.s /\ t.s # NoSocket /\ sock'[t.s].peer = t.p
      /\ connected' = connected \cup {t.p}
      /\ \A q \in Peers \ {t.p} : conn'[q] = conn[q]
      /\ \A q \in Peers : conn[q] # t.s
  BY VaultAssumption, Unkeyed, Holds DEF registerConnection, TypeOK, Socket
<1>2. \A q \in Peers : conn[q] # NoSocket => sock'[conn[q]] = sock[conn[q]]
  BY <1>1, Holds DEF TypeOK
<1>3. Serial' /\ Relied'
  BY DEF Serial, Relied
<1>4. Bound'
  BY <1>1, <1>2, Holds DEF Bound
<1>5. Queue'
  <2> SUFFICES ASSUME NEW q \in vault[store].pending
               PROVE  Waiting(q)'
    BY Holds DEF Queue
  <2>1. CASE q = t.p
    BY <1>1, <2>1 DEF Waiting
  <2>2. CASE q # t.p
    <3>1. q \in Peers /\ Waiting(q)
      BY Holds DEF Queue
    <3>2. conn[q] # NoSocket /\ q \in connected
      BY <2>2, <3>1 DEF Waiting
    <3> QED
      BY <1>1, <2>2, <3>1, <3>2 DEF Waiting
  <2> QED
    BY <2>1, <2>2
<1>6. Present' = Present
  BY <1>1 DEF Present, admittedPeers
<1>7. Counted'
  <2>1. ~\E x \in tasks : Running(x, "close", "got")
    BY DEF Running
  <2> QED
    BY <1>6, <2>1, Holds, CountedFrame
<1>8. Roster'
  <2>1. t.p \notin Present
    BY DEF Present, admittedPeers
  <2>2. Present \subseteq Peers /\ \A q \in Present : conn[q] # NoSocket
    BY Holds DEF Roster
  <2>3. \A q \in Present : conn'[q] = conn[q] /\ sock'[conn[q]] = sock[conn[q]]
    BY <1>1, <1>2, <2>1, <2>2
  <2>4. \A q \in Peers : ~Telling(t, q)
    BY DEF Informs, Telling
  <2>5. \A x \in tasks, q \in Peers : Telling(x, q) => \E y \in tasks' : Telling(y, q)
    BY <2>4
  <2> QED
    BY <1>6, <2>2, <2>3, <2>5, Holds, RosterFrame
<1> QED
  BY <1>3, <1>4, <1>5, <1>7, <1>8 DEF Settling

LEMMA JoinReboundStep ==
  ASSUME Runs, NEW t \in tasks, JoinRebound(t)
  PROVE  Settling'
<1> DEFINE v == reclaimStaleSlots(vault[t.obj], connected)
<1>1. /\ t.op = "join" /\ t.at = "got" /\ t.obj # 0
      /\ store' = store /\ tasks' = tasks \ {t}
      /\ vault' = [vault EXCEPT ![t.obj] = v]
      /\ registerConnection(t.p, t.s) /\ sock' = [sock EXCEPT ![t.s].peer = t.p]
      /\ t.p \in v.pending
  BY DEF JoinRebound, Running, Finish, JoinVerdict
<1>2. /\ tasks = {t} /\ t.obj = store /\ store # 0 /\ t.s \in Sockets /\ t.p \in Peers
      /\ sock[t.s].peer = NoPeer
      /\ v.peers \subseteq vault[store].peers /\ v.pending = vault[store].pending
      /\ v.count = vault[store].count /\ v.empty = vault[store].empty
      /\ v.active = vault[store].active /\ admittedPeers(v, connected) = Present
  BY <1>1, JoinStart
<1>3. vault'[store] = v
  BY <1>1, <1>2, VaultPut
<1>4. t.p \notin vault[store].peers
  BY <1>1, <1>2, Holds DEF Queue
<1>5. ~Informs(t)
  BY <1>1 DEF Informs
<1> HIDE DEF v
<1> QED
  BY <1>1, <1>2, <1>3, <1>4, <1>5, PendingRegisters

LEMMA JoinAskedStep ==
  ASSUME Runs, NEW t \in tasks, JoinAsked(t)
  PROVE  Settling'
<1>1. /\ t.op = "join" /\ t.at = "asked"
      /\ store' = store /\ tasks' = tasks \ {t} /\ vault' = vault
      /\ registerConnection(t.p, t.s) /\ sock' = [sock EXCEPT ![t.s].peer = t.p]
  BY DEF JoinAsked, Running, Finish
<1>2. /\ tasks = {t} /\ store # 0 /\ t.s \in Sockets /\ t.p \in Peers /\ Rely(t)
  BY <1>1, TaskFacts DEF Alone
<1>3. sock[t.s].peer = NoPeer /\ t.p \in vault[store].pending
  BY <1>1, <1>2 DEF Rely, Running
<1>4. t.p \notin vault[store].peers
  BY <1>2, <1>3, Holds DEF Queue
<1>5. ~Informs(t)
  BY <1>1 DEF Informs
<1>6. admittedPeers(vault'[store], connected) = Present
  BY <1>1 DEF Present
<1> QED
  BY <1>1, <1>2, <1>3, <1>4, <1>5, <1>6, PendingRegisters


LEMMA JoinAsksStep ==
  ASSUME Runs, NEW t \in tasks, JoinAsks(t)
  PROVE  Settling'
<1> DEFINE v == reclaimStaleSlots(vault[t.obj], connected)
           w == [v EXCEPT !.pending = @ \cup {t.p}]
<1>1. /\ t.op = "join" /\ t.at = "got" /\ t.obj # 0
      /\ UNCHANGED <<conn, connected, sock>>
      /\ store' = Save(t.obj) /\ Suspend(t, "asked")
      /\ vault' = [vault EXCEPT ![t.obj] = w]
      /\ JoinVerdict(v, t.p, t.cred) = "ask"
  BY DEF JoinAsks, Running
<1>2. /\ tasks = {t} /\ t.obj = store /\ store # 0 /\ t \in SocketTasks /\ t.p \in Peers
      /\ sock[t.s].peer = NoPeer /\ Presented(t) /\ v \in Vault
      /\ v.peers \subseteq vault[store].peers /\ v.pending = vault[store].pending
      /\ vault[store].peers \cap connected \subseteq v.peers
      /\ v.count = vault[store].count /\ v.empty = vault[store].empty
      /\ v.active = vault[store].active /\ admittedPeers(v, connected) = Present
      /\ v.hostId = vault[store].hostId
  BY <1>1, JoinStart
<1>3. /\ "recovery" \notin t.cred /\ "member" \notin t.cred /\ t.p # v.hostId
      /\ t.p \notin v.peers
  BY <1>1 DEF JoinVerdict
<1>4. t.p \notin HostIds \cup Members
  BY <1>2, <1>3 DEF Presented
<1>5. PICK u : u = [t EXCEPT !.at = "asked"]
  OBVIOUS
<1>6. /\ u.op = "join" /\ u.at = "asked" /\ u.s = t.s /\ u.p = t.p
      /\ tasks' = {u}
  BY <1>1, <1>2, <1>5, NextTask DEF Suspend
<1>7. /\ w.peers = v.peers /\ w.pending = vault[store].pending \cup {t.p}
      /\ w.count = vault[store].count /\ w.empty = vault[store].empty
      /\ w.active = vault[store].active
  BY <1>2 DEF Vault
<1> HIDE DEF w
<1>8. store' = store /\ vault'[store] = w
  BY <1>1, <1>2, VaultPut, Holds
<1>9. admittedPeers(w, connected) = Present
  BY <1>2, <1>7 DEF admittedPeers
<1> HIDE DEF v
<1>10. Serial'
  BY <1>1, <1>2, <1>8, SerialNext
<1>11. Relied'
  BY <1>1, <1>2, <1>6, <1>7, <1>8 DEF Relied, Rely, Running
<1>12. Bound'
  BY <1>1, <1>2, <1>8, Holds DEF Bound
<1>13. Queue'
  <2> SUFFICES ASSUME NEW q \in w.pending
               PROVE  /\ q \notin w.peers \cup HostIds \cup Members
                      /\ Waiting(q)'
    BY <1>8 DEF Queue
  <2>1. CASE q = t.p
    BY <2>1, <1>3, <1>4, <1>6, <1>7 DEF Waiting, Running
  <2>2. CASE q # t.p
    <3>1. q \in vault[store].pending
      BY <1>7, <2>2
    <3>2. q \notin vault[store].peers \cup HostIds \cup Members /\ Waiting(q)
      BY <1>2, <3>1, Holds DEF Queue
    <3>3. conn[q] # NoSocket /\ q \in connected
      BY <1>1, <1>2, <2>2, <3>2 DEF Waiting, Running
    <3> QED
      BY <1>1, <1>2, <1>7, <3>2, <3>3 DEF Waiting
  <2> QED
    BY <2>1, <2>2
<1>14. Present' = Present
  BY <1>1, <1>8, <1>9 DEF Present
<1>15. ~\E x \in tasks : Running(x, "close", "got") \/ Informs(x) \/ \E q \in Peers : Telling(x, q)
  BY <1>1, <1>2 DEF Running, Informs, Telling
<1>16. Counted'
  BY <1>7, <1>8, <1>14, <1>15, Holds, CountedFrame
<1>17. Roster'
  <2>1. Present \subseteq Peers
    BY <1>2, Holds
  <2> QED
    BY <1>1, <1>8, <1>14, <1>15, <2>1, Holds, RosterFrame
<1> QED
  BY <1>10, <1>11, <1>12, <1>13, <1>16, <1>17 DEF Settling

\* The capacity check of the join frame leaves room for whoever passes it.
LEMMA RoomToAdmit ==
  ASSUME NEW v \in Vault, NEW c, NEW p \in Peers, IsFiniteSet(v.peers), p \in c,
         p \in v.peers \/ ~(Cardinality(v.peers) >= MaxPeers)
  PROVE  HasRoom(v, c, p)
<1>1. PICK r : r = reclaimStaleSlots(v, c)
  OBVIOUS
<1>2. r.peers \subseteq v.peers /\ v.peers \cap c \subseteq r.peers
  BY <1>1, ReclaimFields
<1>3. CASE p \in v.peers
  BY <1>1, <1>2, <1>3 DEF HasRoom
<1>4. CASE ~(Cardinality(v.peers) >= MaxPeers)
  <2>1. IsFiniteSet(r.peers) /\ Cardinality(r.peers) <= Cardinality(v.peers)
        /\ Cardinality(r.peers) \in Nat /\ Cardinality(v.peers) \in Nat
    BY <1>2, FS_Subset, FS_CardinalityType
  <2>2. Cardinality(r.peers) < MaxPeers
    BY <1>4, <2>1, VaultAssumption
  <2> QED
    BY <1>1, <2>2 DEF HasRoom
<1> QED
  BY <1>3, <1>4

LEMMA JoinAdmittedStep ==
  ASSUME Runs, NEW t \in tasks, JoinAdmitted(t)
  PROVE  Settling'
<1> DEFINE v == reclaimStaleSlots(vault[t.obj], connected)
           verdict == JoinVerdict(v, t.p, t.cred)
           w == IF verdict = "host" THEN TakeHost(v, t.p) ELSE v
           c == connected \cup {t.p}
           a == admitPeer(w, c, t.p)
<1>1. /\ t.op = "join" /\ t.at = "got" /\ t.obj # 0
      /\ verdict \in {"host", "rejoin", "member"}
      /\ sock' = [sock EXCEPT ![t.s].peer = t.p]
      /\ registerConnection(t.p, t.s)
      /\ HasRoom(w, c, t.p) => /\ vault' = [vault EXCEPT ![t.obj] = a]
                               /\ store' = Save(t.obj) /\ Suspend(t, "saved")
  BY DEF JoinAdmitted, Running
<1>2. /\ tasks = {t} /\ t.obj = store /\ store # 0 /\ t \in SocketTasks /\ t.p \in Peers
      /\ t.s \in Sockets /\ t.s # NoSocket
      /\ sock[t.s].peer = NoPeer /\ Presented(t) /\ v \in Vault
      /\ v.peers \subseteq vault[store].peers /\ v.pending = vault[store].pending
      /\ \A q \in Peers : conn[q] # t.s
  BY <1>1, JoinStart
<1>3. \/ t.p \in v.peers \/ ~(Cardinality(v.peers) >= MaxPeers)
  BY <1>1 DEF JoinVerdict
<1>4. t.p \in HostIds \cup Members \cup v.peers
  BY <1>1, <1>2 DEF JoinVerdict, Presented
<1> HIDE DEF v, verdict
<1>5. /\ w \in Vault /\ w.peers \subseteq v.peers /\ w.pending = v.pending
      /\ t.p \in v.peers => t.p \in w.peers
  BY <1>2, TakeHostFields
<1> HIDE DEF w
<1>6. IsFiniteSet(v.peers) /\ IsFiniteSet(w.peers)
      /\ Cardinality(w.peers) <= Cardinality(v.peers)
      /\ Cardinality(w.peers) \in Nat /\ Cardinality(v.peers) \in Nat
  BY <1>2, <1>5, VaultAssumption, FS_Subset, FS_CardinalityType DEF Vault
<1>7. t.p \in w.peers \/ ~(Cardinality(w.peers) >= MaxPeers)
  BY <1>3, <1>5, <1>6, VaultAssumption
<1>8. HasRoom(w, c, t.p)
  BY <1>2, <1>5, <1>6, <1>7, RoomToAdmit
<1>9. /\ a \in Vault /\ a.peers \subseteq w.peers \cup {t.p} /\ t.p \in a.peers
      /\ a.pending = w.pending
      /\ a.count = Cardinality(admittedPeers(a, c))
      /\ a.empty <=> admittedPeers(a, c) = {}
  <2>1. a \in Vault /\ a.peers \subseteq w.peers \cup {t.p} /\ t.p \in a.peers
    BY <1>2, <1>5, AdmitFields
  <2>2. a.pending = w.pending /\ a.count = Cardinality(admittedPeers(a, c))
    BY <1>2, <1>5, AdmitFields
  <2>3. a.empty <=> admittedPeers(a, c) = {}
    <3> HIDE DEF c
    <3>1. t.p \in Peers /\ w \in Vault
      BY <1>2, <1>5
    <3> QED
      BY <3>1, AdmitFields
  <2> QED
    BY <2>1, <2>2, <2>3
<1> HIDE DEF a
<1>10. store' = store /\ vault'[store] = a /\ Suspend(t, "saved")
  BY <1>1, <1>2, <1>8, VaultPut, Holds
<1>11. PICK u : u = [t EXCEPT !.at = "saved"]
  OBVIOUS
<1>12. /\ u.op = "join" /\ u.at = "saved" /\ u.s = t.s /\ u.p = t.p
       /\ tasks' = {u}
  BY <1>1, <1>2, <1>10, <1>11, NextTask DEF Suspend
<1>13. /\ conn'[t.p] = t.s /\ connected' = c /\ sock'[t.s].peer = t.p
       /\ \A q \in Peers \ {t.p} : conn'[q] = conn[q]
  BY <1>1, <1>2, Holds DEF registerConnection, TypeOK, Socket
<1>14. \A q \in Peers : conn[q] # NoSocket => sock'[conn[q]] = sock[conn[q]]
  BY <1>1, <1>2, Holds DEF TypeOK
<1>15. Serial'
  BY <1>2, <1>10, SerialNext
<1>16. Relied'
  BY <1>9, <1>10, <1>12, <1>13 DEF Relied, Rely, Running
<1>17. Bound'
  BY <1>2, <1>10, <1>13, <1>14, Holds DEF Bound
<1>18. Queue'
  <2> SUFFICES ASSUME NEW q \in a.pending
               PROVE  /\ q \notin a.peers \cup HostIds \cup Members
                      /\ Waiting(q)'
    BY <1>10 DEF Queue
  <2>1. q \in vault[store].pending /\ q \in Peers
    BY <1>2, <1>5, <1>9, Holds
  <2>2. q \notin vault[store].peers \cup HostIds \cup Members /\ Waiting(q)
    BY <1>2, <2>1, Holds DEF Queue
  <2>3. q # t.p
    BY <1>2, <1>4, <2>2
  <2>4. conn[q] # NoSocket /\ q \in connected
    BY <1>1, <1>2, <2>2 DEF Waiting, Running
  <2>5. Waiting(q)'
    BY <1>13, <2>1, <2>3, <2>4 DEF Waiting
  <2> QED
    BY <1>2, <1>5, <1>9, <2>2, <2>3, <2>5
<1>19. Present' = admittedPeers(a, c)
  BY <1>10, <1>13 DEF Present
<1>20. Counted'
  BY <1>9, <1>10, <1>19 DEF Counted
<1>21. Roster'
  <2>1. Telling(u, t.p) /\ Informs(u)
    BY <1>12 DEF Telling, Informs
  <2> SUFFICES ASSUME NEW q \in Present'
               PROVE  /\ conn'[q] # NoSocket
                      /\ sock'[conn'[q]].st = "open" =>
                           sock'[conn'[q]].joined \/ Telling(u, q)
    BY <1>12, <2>1 DEF Roster, IsOpen, Told, Informs, Telling
  <2>2. CASE q = t.p
    BY <2>1, <2>2, <1>2, <1>13
  <2>3. CASE q # t.p
    <3>1. q \in Present
      BY <1>2, <1>5, <1>9, <1>19, <2>3 DEF admittedPeers, Present
    <3>2. q \in Peers /\ conn[q] # NoSocket /\ (IsOpen(conn[q]) => Told(q))
      BY <1>2, <3>1, Holds DEF Roster
    <3>3. sock[conn[q]].st = "open" => sock[conn[q]].joined
      BY <1>1, <1>2, <3>2 DEF IsOpen, Told, Telling
    <3>4. conn'[q] = conn[q] /\ sock'[conn[q]] = sock[conn[q]]
      BY <1>13, <1>14, <2>3, <3>2
    <3> QED
      BY <3>2, <3>3, <3>4
  <2> QED
    BY <2>2, <2>3
<1> QED
  BY <1>15, <1>16, <1>17, <1>18, <1>20, <1>21 DEF Settling

\* --- what follows every broadcast: the vault and the keys are as they were

LEMMA DoneFrame ==
  ASSUME Runs, NEW t \in tasks, Finish(t), store # 0, UNCHANGED <<vault, store, connected>>,
         t \in SocketTasks, t.at = "saved",
         conn' = conn \/ (/\ conn' = [conn EXCEPT ![t.p] = NoSocket]
                          /\ t.p \notin vault[store].peers \cup vault[store].pending),
         \A s \in Sockets : /\ sock'[s].peer = sock[s].peer
                            /\ sock[s].st = "closed" => sock'[s].st = "closed"
  PROVE  Serial' /\ Relied' /\ Bound' /\ Queue' /\ Counted'
<1>1. /\ tasks' = tasks \ {t} /\ t.p \in Peers
      /\ \A x \in tasks' : x \in SocketTasks => x.s \in Sockets /\ x.p \in Peers
  BY DEF Finish, SocketTasks
<1>2. Serial'
  BY <1>1, Holds, SerialLess
<1>3. \A q \in vault[store].peers \cup vault[store].pending : conn'[q] = conn[q]
  BY Holds DEF TypeOK
<1>4. \A q \in Peers : conn'[q] # NoSocket => conn'[q] = conn[q] /\ conn[q] \in Sockets
  BY Holds DEF TypeOK
<1>5. Relied'
  <2> SUFFICES ASSUME NEW x \in tasks, x # t
               PROVE  Rely(x)'
    BY <1>1 DEF Relied
  <2>1. x.op \in {"join", "reject", "kick", "close"} => x \in SocketTasks /\ x.s \in Sockets
        /\ x.p \in Peers
    BY TaskFacts
  <2>2. Rely(x)
    BY Holds DEF Relied
  <2> QED
    BY <1>3, <2>1, <2>2 DEF Rely, Running, Presented
<1>6. Bound'
  BY <1>4, Holds DEF Bound
<1>7. Queue'
  <2>1. ~Running(t, "close", "got") /\ ~Running(t, "join", "asked")
    BY DEF Running
  <2>2. \A q \in vault[store].pending : Waiting(q) => Waiting(q)'
    BY <1>1, <1>3, <2>1 DEF Waiting, Running
  <2> QED
    BY <2>2, Holds DEF Queue
<1>8. Present' = Present
  BY DEF Present, admittedPeers
<1>9. Counted'
  BY <1>1, <1>8, Holds DEF Counted, Running
<1> QED
  BY <1>2, <1>5, <1>6, <1>7, <1>9


LEMMA SavedFacts ==
  ASSUME Runs, NEW t \in tasks, t.op \in {"join", "accept", "reject", "kick", "close"},
         t.at = "saved"
  PROVE  /\ t \in SocketTasks /\ t.obj = store /\ store # 0 /\ vault[store] \in Vault
         /\ t.p \in Peers /\ t.s \in Sockets /\ Rely(t)
         /\ Present \subseteq Peers /\ Present \subseteq vault[store].peers
         /\ \A q \in Present : conn[q] \in Sockets /\ sock[conn[q]].peer = q
         /\ sock \in [Sockets -> Socket]
<1>1. /\ t \in SocketTasks /\ t.obj = store /\ store # 0 /\ vault[store] \in Vault
      /\ t.p \in Peers /\ t.s \in Sockets /\ Rely(t)
      /\ Present \subseteq Peers /\ Present \subseteq vault[store].peers
      /\ sock \in [Sockets -> Socket] /\ conn \in [Peers -> Sockets \cup {NoSocket}]
  BY TaskFacts, Holds DEF TypeOK
<1>2. \A q \in Present : conn[q] # NoSocket
  BY <1>1, Holds DEF Roster
<1>3. \A q \in Present : conn[q] \in Sockets /\ sock[conn[q]].peer = q
  BY <1>1, <1>2, Holds DEF Bound
<1> QED
  BY <1>1, <1>3

LEMMA JoinedFields ==
  ASSUME NEW r \in Socket
  PROVE  LET x == SendJoined(r) IN
         /\ x \in Socket /\ x.st = r.st /\ x.peer = r.peer
         /\ r.joined \/ x.st = "open" => x.joined
BY DEF SendJoined, Socket

LEMMA JoinDoneStep ==
  ASSUME Runs, NEW t \in tasks, JoinDone(t)
  PROVE  Settling'
<1>1. PICK sk : sk = [sock EXCEPT ![t.s] = SendJoined(@)]
  OBVIOUS
<1>2. /\ t.op = "join" /\ t.at = "saved" /\ Finish(t)
      /\ UNCHANGED <<vault, store, connected, conn>>
      /\ sock' = broadcastPeerUpdate(vault[t.obj], connected, conn, sk)
  BY <1>1 DEF JoinDone, Running
<1>3. /\ t \in SocketTasks /\ t.obj = store /\ store # 0 /\ vault[store] \in Vault
      /\ t.p \in Peers /\ t.s \in Sockets /\ Rely(t)
      /\ Present \subseteq Peers
      /\ \A q \in Present : conn[q] \in Sockets
      /\ sock \in [Sockets -> Socket]
  BY <1>2, SavedFacts
<1>4. conn[t.p] = t.s
  BY <1>2, <1>3 DEF Rely, Running
<1>5. /\ sk \in [Sockets -> Socket]
      /\ \A s \in Sockets : /\ sk[s].st = sock[s].st /\ sk[s].peer = sock[s].peer
                            /\ sock[s].joined => sk[s].joined
      /\ sk[t.s].st = "open" => sk[t.s].joined
  BY <1>1, <1>3, JoinedFields
<1>6. \A s \in Sockets : sock'[s].peer = sock[s].peer /\ sock'[s].st = sock[s].st
  BY <1>2, <1>3, <1>5, BroadcastFields
<1>7. Serial' /\ Relied' /\ Bound' /\ Queue' /\ Counted'
  BY <1>2, <1>3, <1>6, DoneFrame
<1>8. \A q \in Present :
        sk[conn[q]].st = "open" =>
          /\ sock[conn[q]].st = "open"
          /\ sock[conn[q]].joined \/ Telling(t, q) => sk[conn[q]].joined
  BY <1>3, <1>4, <1>5 DEF Telling
<1>9. Roster'
  BY <1>2, <1>3, <1>5, <1>8, BroadcastFrame
<1> QED
  BY <1>7, <1>9 DEF Settling

LEMMA AcceptDoneStep ==
  ASSUME Runs, NEW t \in tasks, AcceptDone(t)
  PROVE  Settling'
<1>1. PICK sk : sk = [s \in Sockets |-> IF s = conn[t.p] THEN SendJoined(sock[s])
                                        ELSE sock[s]]
  OBVIOUS
<1>2. /\ t.op = "accept" /\ t.at = "saved" /\ Finish(t)
      /\ UNCHANGED <<vault, store, connected, conn>>
      /\ sock' = broadcastPeerUpdate(vault[t.obj], connected, conn, sk)
  BY <1>1 DEF AcceptDone, Running
<1>3. /\ t \in SocketTasks /\ t.obj = store /\ store # 0 /\ vault[store] \in Vault
      /\ t.p \in Peers /\ t.s \in Sockets
      /\ Present \subseteq Peers
      /\ \A q \in Present : conn[q] \in Sockets
      /\ sock \in [Sockets -> Socket]
  BY <1>2, SavedFacts
<1>5. /\ sk \in [Sockets -> Socket]
      /\ \A s \in Sockets : /\ sk[s].st = sock[s].st /\ sk[s].peer = sock[s].peer
                            /\ sock[s].joined => sk[s].joined
                            /\ s = conn[t.p] /\ sk[s].st = "open" => sk[s].joined
  BY <1>1, <1>3, JoinedFields
<1>6. \A s \in Sockets : sock'[s].peer = sock[s].peer /\ sock'[s].st = sock[s].st
  BY <1>2, <1>3, <1>5, BroadcastFields
<1>7. Serial' /\ Relied' /\ Bound' /\ Queue' /\ Counted'
  BY <1>2, <1>3, <1>6, DoneFrame
<1>8. \A q \in Present :
        sk[conn[q]].st = "open" =>
          /\ sock[conn[q]].st = "open"
          /\ sock[conn[q]].joined \/ Telling(t, q) => sk[conn[q]].joined
  BY <1>3, <1>5 DEF Telling
<1>9. Roster'
  BY <1>2, <1>3, <1>5, <1>8, BroadcastFrame
<1> QED
  BY <1>7, <1>9 DEF Settling

LEMMA RejectDoneStep ==
  ASSUME Runs, NEW t \in tasks, RejectDone(t)
  PROVE  Settling'
<1>1. /\ t.op = "reject" /\ t.at = "saved" /\ Finish(t)
      /\ UNCHANGED <<vault, store, connected>>
      /\ conn' = [conn EXCEPT ![t.p] = NoSocket] /\ sock' = ShutOut(t.p)
  BY DEF RejectDone, Running
<1>2. /\ t \in SocketTasks /\ store # 0 /\ t.p \in Peers /\ Rely(t)
      /\ Present \subseteq Peers /\ Present \subseteq vault[store].peers
      /\ \A q \in Present : conn[q] \in Sockets
      /\ sock \in [Sockets -> Socket]
  BY <1>1, SavedFacts
<1>3. t.p \notin vault[store].peers \cup vault[store].pending
  BY <1>1, <1>2 DEF Rely
<1>4. \A s \in Sockets : /\ sock'[s].peer = sock[s].peer /\ sock'[s].joined = sock[s].joined
                         /\ sock'[s].view = sock[s].view
                         /\ sock'[s].st = "open" => sock[s].st = "open"
                         /\ sock[s].st = "closed" => sock'[s].st = "closed"
  BY <1>1, <1>2 DEF ShutOut, CloseSocket, Socket
<1>5. Serial' /\ Relied' /\ Bound' /\ Queue' /\ Counted'
  BY <1>1, <1>2, <1>3, <1>4, DoneFrame
<1>6. Present' = Present
  BY <1>1 DEF Present, admittedPeers
<1>7. \A q \in Present : conn'[q] = conn[q]
  BY <1>1, <1>2, <1>3, Holds DEF TypeOK
<1>8. \A x \in tasks, q \in Peers : Telling(x, q) => \E y \in tasks' : Telling(y, q)
  BY <1>1 DEF Telling, Finish
<1>9. (\E x \in tasks : Informs(x)) => \E x \in tasks' : Informs(x)
  BY <1>1 DEF Informs, Finish
<1>10. Roster'
  BY <1>1, <1>2, <1>4, <1>6, <1>7, <1>8, <1>9, Holds, RosterFrame
<1> QED
  BY <1>5, <1>10 DEF Settling

LEMMA KickDoneStep ==
  ASSUME Runs, NEW t \in tasks, KickDone(t)
  PROVE  Settling'
<1>1. PICK sk : sk = ShutOut(t.p)
  OBVIOUS
<1>2. /\ t.op = "kick" /\ t.at = "saved" /\ Finish(t)
      /\ UNCHANGED <<vault, store, connected>>
      /\ conn' = [conn EXCEPT ![t.p] = NoSocket]
      /\ sock' = broadcastPeerUpdate(vault[t.obj], connected, conn', sk)
  BY <1>1 DEF KickDone, Running
<1>3. /\ t \in SocketTasks /\ t.obj = store /\ store # 0 /\ vault[store] \in Vault
      /\ t.p \in Peers /\ Rely(t)
      /\ Present \subseteq Peers /\ Present \subseteq vault[store].peers
      /\ \A q \in Present : conn[q] \in Sockets
      /\ sock \in [Sockets -> Socket]
  BY <1>2, SavedFacts
<1>4. t.p \notin vault[store].peers \cup vault[store].pending
  BY <1>2, <1>3 DEF Rely
<1>5. /\ sk \in [Sockets -> Socket]
      /\ \A s \in Sockets : /\ sk[s].peer = sock[s].peer /\ sk[s].joined = sock[s].joined
                            /\ sk[s].st = "open" => sock[s].st = "open"
                            /\ sock[s].st = "closed" => sk[s].st = "closed"
  BY <1>1, <1>3 DEF ShutOut, CloseSocket, Socket
<1>6. \A s \in Sockets : sock'[s].peer = sk[s].peer /\ sock'[s].st = sk[s].st
  <2>1. PICK cn : cn = conn'
    OBVIOUS
  <2>2. sock' = broadcastPeerUpdate(vault[store], connected, cn, sk)
    BY <1>2, <1>3, <2>1
  <2> QED
    BY <1>3, <1>5, <2>2, BroadcastFields
<1>7. Serial' /\ Relied' /\ Bound' /\ Queue' /\ Counted'
  <2>1. \A s \in Sockets : /\ sock'[s].peer = sock[s].peer
                           /\ sock[s].st = "closed" => sock'[s].st = "closed"
    BY <1>5, <1>6
  <2> QED
    BY <1>2, <1>3, <1>4, <2>1, DoneFrame
<1>8. \A q \in Present :
        /\ conn'[q] = conn[q]
        /\ sk[conn[q]].st = "open" =>
             /\ sock[conn[q]].st = "open"
             /\ sock[conn[q]].joined \/ Telling(t, q) => sk[conn[q]].joined
  BY <1>2, <1>3, <1>4, <1>5, Holds DEF Telling, TypeOK
<1>9. Roster'
  <2>1. PICK cn : cn = conn'
    OBVIOUS
  <2>2. sock' = broadcastPeerUpdate(vault[store], connected, cn, sk)
    BY <1>2, <1>3, <2>1
  <2>3. \A q \in Present :
          /\ cn[q] = conn[q]
          /\ sk[conn[q]].st = "open" =>
               /\ sock[conn[q]].st = "open"
               /\ sock[conn[q]].joined \/ Telling(t, q) => sk[conn[q]].joined
    BY <1>8, <2>1
  <2>4. UNCHANGED <<vault, store, connected>> /\ Finish(t) /\ store # 0
    BY <1>2, <1>3
  <2> QED
    BY <1>5, <2>1, <2>2, <2>3, <2>4, BroadcastFrame
<1> QED
  BY <1>7, <1>9 DEF Settling

LEMMA CloseDoneStep ==
  ASSUME Runs, NEW t \in tasks, CloseDone(t)
  PROVE  Settling'
<1>1. /\ t.op = "close" /\ t.at = "saved" /\ Finish(t)
      /\ UNCHANGED <<vault, store, connected, conn>>
      /\ sock' = broadcastPeerUpdate(vault[t.obj], connected, conn, sock)
  BY DEF CloseDone, Running
<1>2. /\ t \in SocketTasks /\ t.obj = store /\ store # 0 /\ vault[store] \in Vault
      /\ \A q \in Present : conn[q] \in Sockets
      /\ sock \in [Sockets -> Socket]
  BY <1>1, SavedFacts
<1>3. \A s \in Sockets : sock'[s].peer = sock[s].peer /\ sock'[s].st = sock[s].st
  BY <1>1, <1>2, BroadcastFields
<1>4. Serial' /\ Relied' /\ Bound' /\ Queue' /\ Counted'
  BY <1>1, <1>2, <1>3, DoneFrame
<1>5. \A q : ~Telling(t, q)
  BY <1>1 DEF Telling
<1>6. Roster'
  BY <1>1, <1>2, <1>5, BroadcastFrame
<1> QED
  BY <1>4, <1>6 DEF Settling


LEMMA HostStart ==
  ASSUME Runs, NEW t \in tasks, t.op \in {"accept", "reject", "kick"}, t.at = "got",
         Allowed(t)
  PROVE  /\ t \in SocketTasks /\ t.obj = store /\ store # 0 /\ vault[store] \in Vault
         /\ t.p \in Peers /\ t.s \in Sockets
         /\ \A x \in tasks : ~Alone(x)
         /\ \A x \in tasks : x \in SocketTasks /\ x.s = t.s /\ Rely(x)
         /\ t.op # "kick" =>
              /\ t.p \in vault[store].pending /\ t.p \notin vault[store].peers
              /\ conn[t.p] # NoSocket /\ t.p \in connected
         /\ t.op = "kick" =>
              /\ t.p \in vault[store].peers /\ t.p \notin vault[store].pending
              /\ \A x \in tasks : Running(x, "join", "saved") => x.p # t.p
<1>1. /\ t \in SocketTasks /\ t.obj = store /\ store # 0 /\ vault[store] \in Vault
      /\ t.p \in Peers /\ t.s \in Sockets
  BY TaskFacts, Holds DEF Allowed
<1>2. \A x \in tasks : ~Alone(x)
  <2>1. \A x \in tasks : Alone(x) => tasks = {x}
    BY TaskFacts
  <2>2. ~Alone(t)
    BY DEF Alone
  <2> QED
    BY <2>1, <2>2
<1>3. \A x \in tasks : x \in SocketTasks /\ x.s = t.s /\ Rely(x)
  <2> SUFFICES ASSUME NEW x \in tasks
               PROVE  x \in SocketTasks /\ x.s = t.s /\ Rely(x)
    OBVIOUS
  <2>1. x \in SocketTasks
    BY <1>2, Holds DEF TypeOK, StoreTasks, Alone
  <2>2. Rely(x)
    BY TaskFacts
  <2>3. x.s = t.s
    BY <1>1, <2>1, Holds DEF Serial
  <2> QED
    BY <2>1, <2>2, <2>3
<1>4. ASSUME t.op # "kick"
      PROVE  /\ t.p \in vault[store].pending /\ t.p \notin vault[store].peers
             /\ conn[t.p] # NoSocket /\ t.p \in connected
  <2>1. t.p \in vault[store].pending
    BY <1>1, <1>4 DEF Allowed
  <2>2. t.p \notin vault[store].peers /\ Waiting(t.p)
    BY <1>1, <2>1, Holds DEF Queue
  <2> QED
    BY <1>2, <2>1, <2>2 DEF Waiting, Running, Alone
<1>5. ASSUME t.op = "kick"
      PROVE  /\ t.p \in vault[store].peers /\ t.p \notin vault[store].pending
             /\ \A x \in tasks : Running(x, "join", "saved") => x.p # t.p
  <2>1. t.p \in vault[store].peers /\ t.p # vault[store].hostId
        /\ vault[store].hostId = sock[t.s].peer
    BY <1>1, <1>5 DEF Allowed
  <2>2. t.p \notin vault[store].pending
    BY <1>1, <2>1, Holds DEF Queue
  <2> QED
    BY <1>3, <2>1, <2>2 DEF Rely, Running
<1> QED
  BY <1>1, <1>2, <1>3, <1>4, <1>5

LEMMA AcceptJoinStep ==
  ASSUME Runs, NEW t \in tasks, AcceptJoin(t)
  PROVE  Settling'
<1> DEFINE a == admitPeer(vault[store], connected, t.p)
           w == [a EXCEPT !.pending = @ \ {t.p}]
<1>1. t.op = "accept" /\ t.at = "got" /\ Allowed(t)
  BY DEF AcceptJoin, Running
<1>2. /\ t \in SocketTasks /\ t.obj = store /\ store # 0 /\ vault[store] \in Vault
      /\ t.p \in Peers /\ t.s \in Sockets
      /\ \A x \in tasks : ~Alone(x)
      /\ \A x \in tasks : x \in SocketTasks /\ x.s = t.s /\ Rely(x)
      /\ t.p \in vault[store].pending /\ t.p \notin vault[store].peers
      /\ conn[t.p] # NoSocket /\ t.p \in connected
  BY <1>1, HostStart
<1>3. UNCHANGED <<conn, connected, sock>> /\ store' = store /\ vault'[store] = w
      /\ Suspend(t, "saved")
  BY <1>2, Holds, VaultPut DEF AcceptJoin
<1>4. /\ a \in Vault /\ a.peers \subseteq vault[store].peers \cup {t.p} /\ t.p \in a.peers
      /\ vault[store].peers \cap connected \subseteq a.peers
      /\ a.pending = vault[store].pending
      /\ a.count = Cardinality(admittedPeers(a, connected))
      /\ a.empty <=> admittedPeers(a, connected) = {}
  BY <1>2, AdmitFields
<1> HIDE DEF a
<1>5. /\ w.peers = a.peers /\ w.pending = a.pending \ {t.p} /\ w.count = a.count
      /\ w.empty = a.empty
  BY <1>4 DEF Vault
<1> HIDE DEF w
<1>6. PICK u : u = [t EXCEPT !.at = "saved"]
  OBVIOUS
<1>7. u.op = "accept" /\ u.at = "saved" /\ u.p = t.p /\ tasks' = (tasks \ {t}) \cup {u}
  BY <1>1, <1>2, <1>3, <1>6, NextTask DEF Suspend
<1>8. Serial'
  BY <1>2, <1>3, SerialNext
<1>9. Relied'
  <2> SUFFICES ASSUME NEW x \in tasks'
               PROVE  Rely(x)'
    BY DEF Relied
  <2>1. CASE x = u
    BY <1>7, <2>1 DEF Rely, Running
  <2>2. CASE x \in tasks /\ x # t
    BY <1>2, <1>3, <1>4, <1>5, <2>2 DEF Rely, Running, Alone
  <2> QED
    BY <1>7, <2>1, <2>2
<1>10. Bound'
  BY <1>2, <1>3, Holds DEF Bound
<1>11. Queue'
  <2> SUFFICES ASSUME NEW q \in w.pending
               PROVE  /\ q \notin w.peers \cup HostIds \cup Members
                      /\ Waiting(q)'
    BY <1>3 DEF Queue
  <2>1. q \in vault[store].pending /\ q # t.p
    BY <1>4, <1>5
  <2>2. q \notin vault[store].peers \cup HostIds \cup Members /\ Waiting(q)
    BY <1>2, <2>1, Holds DEF Queue
  <2>3. conn[q] # NoSocket /\ q \in connected
    BY <1>2, <2>2 DEF Waiting, Running, Alone
  <2> QED
    BY <1>3, <1>4, <1>5, <2>1, <2>2, <2>3 DEF Waiting
<1>12. Present' = admittedPeers(a, connected)
  BY <1>3, <1>5 DEF Present, admittedPeers
<1>13. Counted'
  <2>1. w.empty <=> admittedPeers(a, connected) = {}
    BY <1>4, <1>5, Zenon
  <2> QED
    BY <1>3, <1>4, <1>5, <1>12, <2>1 DEF Counted
<1>14. Roster'
  <2>1. Telling(u, t.p) /\ Informs(u) /\ u \in tasks'
    BY <1>7 DEF Telling, Informs
  <2> SUFFICES ASSUME NEW q \in Present'
               PROVE  /\ conn[q] # NoSocket
                      /\ sock[conn[q]].st = "open" =>
                           sock[conn[q]].joined \/ \E x \in tasks' : Telling(x, q)
    BY <1>3, <2>1 DEF Roster, IsOpen, Told, Informs, Telling
  <2>2. CASE q = t.p
    BY <2>1, <2>2, <1>2
  <2>3. CASE q # t.p
    <3>1. q \in Present
      BY <1>4, <1>12, <2>3 DEF admittedPeers, Present
    <3>2. conn[q] # NoSocket /\ (IsOpen(conn[q]) => Told(q))
      BY <1>2, <3>1, Holds DEF Roster
    <3>3. ~Telling(t, q)
      BY <1>1 DEF Telling
    <3>4. (\E x \in tasks : Telling(x, q)) => \E x \in tasks' : Telling(x, q)
      BY <1>7, <3>3
    <3> QED
      BY <3>2, <3>4 DEF IsOpen, Told
  <2> QED
    BY <2>2, <2>3
<1> QED
  BY <1>8, <1>9, <1>10, <1>11, <1>13, <1>14 DEF Settling

LEMMA AcceptNoRoomStep ==
  ASSUME Runs, NEW t \in tasks, AcceptNoRoom(t)
  PROVE  Settling'
<1> DEFINE v == reclaimStaleSlots(vault[store], connected)
<1>1. t.op = "accept" /\ t.at = "got" /\ Allowed(t)
  BY DEF AcceptNoRoom, Running
<1>2. /\ t \in SocketTasks /\ t.obj = store /\ store # 0 /\ vault[store] \in Vault
      /\ \A x \in tasks : ~Alone(x) /\ x \in SocketTasks /\ Rely(x)
  BY <1>1, HostStart
<1>3. /\ UNCHANGED <<store, conn, connected, sock>> /\ vault'[store] = v
      /\ tasks' = tasks \ {t}
  BY <1>2, Holds, VaultPut DEF AcceptNoRoom, Finish
<1>4. /\ v.peers \subseteq vault[store].peers /\ v.pending = vault[store].pending
      /\ vault[store].peers \cap connected \subseteq v.peers
      /\ v.count = vault[store].count /\ v.empty = vault[store].empty
      /\ v.active = vault[store].active
      /\ admittedPeers(v, connected) = admittedPeers(vault[store], connected)
  BY <1>2, ReclaimFields
<1> HIDE DEF v
<1>5. Serial'
  BY <1>3, Holds, SerialLess
<1>6. Relied'
  BY <1>2, <1>3, <1>4 DEF Relied, Rely, Running, Alone
<1>7. Bound'
  BY <1>2, <1>3, Holds DEF Bound
<1>8. Queue'
  <2>1. \A q : Waiting(q) => Waiting(q)'
    BY <1>1, <1>3 DEF Waiting, Running
  <2> QED
    BY <1>2, <1>3, <1>4, <2>1, Holds DEF Queue
<1>9. Present' = Present
  BY <1>3, <1>4 DEF Present
<1>10. Counted'
  <2>1. ~\E x \in tasks : Running(x, "close", "got")
    BY <1>2 DEF Running, Alone
  <2> QED
    BY <1>3, <1>4, <1>9, <2>1, Holds, CountedFrame
<1>11. Roster'
  <2>1. ~Informs(t) /\ \A q \in Peers : ~Telling(t, q)
    BY <1>1 DEF Informs, Telling
  <2>2. \A x \in tasks, q \in Peers : Telling(x, q) => \E y \in tasks' : Telling(y, q)
    BY <1>3, <2>1
  <2>3. (\E x \in tasks : Informs(x)) => \E x \in tasks' : Informs(x)
    BY <1>3, <2>1
  <2>4. Present \subseteq Peers
    BY <1>2, Holds
  <2> QED
    BY <1>3, <1>9, <2>2, <2>3, <2>4, Holds, RosterFrame
<1> QED
  BY <1>5, <1>6, <1>7, <1>8, <1>10, <1>11 DEF Settling

LEMMA RejectJoinStep ==
  ASSUME Runs, NEW t \in tasks, RejectJoin(t)
  PROVE  Settling'
<1> DEFINE w == [vault[store] EXCEPT !.pending = @ \ {t.p}]
<1>1. t.op = "reject" /\ t.at = "got" /\ Allowed(t)
  BY DEF RejectJoin, Running
<1>2. /\ t \in SocketTasks /\ t.obj = store /\ store # 0 /\ vault[store] \in Vault
      /\ t.p \in Peers
      /\ \A x \in tasks : ~Alone(x) /\ x \in SocketTasks /\ Rely(x)
      /\ t.p \in vault[store].pending /\ t.p \notin vault[store].peers
  BY <1>1, HostStart
<1>3. UNCHANGED <<conn, connected, sock>> /\ store' = store /\ vault'[store] = w
      /\ Suspend(t, "saved")
  BY <1>2, Holds DEF RejectJoin, TypeOK
<1>4. /\ w.peers = vault[store].peers /\ w.pending = vault[store].pending \ {t.p}
      /\ w.count = vault[store].count /\ w.empty = vault[store].empty
      /\ w.active = vault[store].active
  BY <1>2 DEF Vault
<1> HIDE DEF w
<1>5. PICK u : u = [t EXCEPT !.at = "saved"]
  OBVIOUS
<1>6. u.op = "reject" /\ u.at = "saved" /\ u.p = t.p /\ tasks' = (tasks \ {t}) \cup {u}
  BY <1>1, <1>2, <1>3, <1>5, NextTask DEF Suspend
<1>7. Serial'
  BY <1>2, <1>3, SerialNext
<1>8. Relied'
  <2> SUFFICES ASSUME NEW x \in tasks'
               PROVE  Rely(x)'
    BY DEF Relied
  <2>1. CASE x = u
    BY <1>2, <1>3, <1>4, <1>6, <2>1 DEF Rely, Running
  <2>2. CASE x \in tasks /\ x # t
    BY <1>2, <1>3, <1>4, <2>2 DEF Rely, Running, Alone
  <2> QED
    BY <1>6, <2>1, <2>2
<1>9. Bound'
  BY <1>2, <1>3, Holds DEF Bound
<1>10. \A q : Waiting(q) => Waiting(q)'
  BY <1>1, <1>3, <1>6 DEF Waiting, Running
<1>11. Queue'
  BY <1>3, <1>4, <1>10, Holds, QueueFrame
<1>12. Present' = Present
  BY <1>3, <1>4 DEF Present, admittedPeers
<1>13. Counted'
  <2>1. ~\E x \in tasks : Running(x, "close", "got")
    BY <1>2 DEF Running, Alone
  <2> QED
    BY <1>3, <1>4, <1>12, <2>1, Holds, CountedFrame
<1>14. Roster'
  <2>1. ~Informs(t) /\ \A q \in Peers : ~Telling(t, q)
    BY <1>1 DEF Informs, Telling
  <2>2. \A x \in tasks, q \in Peers : Telling(x, q) => \E y \in tasks' : Telling(y, q)
    BY <1>6, <2>1
  <2>3. (\E x \in tasks : Informs(x)) => \E x \in tasks' : Informs(x)
    BY <1>6, <2>1
  <2>4. Present \subseteq Peers
    BY <1>2, Holds
  <2> QED
    BY <1>3, <1>12, <2>2, <2>3, <2>4, Holds, RosterFrame
<1> QED
  BY <1>7, <1>8, <1>9, <1>11, <1>13, <1>14 DEF Settling


LEMMA KickPeerStep ==
  ASSUME Runs, NEW t \in tasks, KickPeer(t)
  PROVE  Settling'
<1> DEFINE c == connected \ {t.p}
           v == Remove(vault[store], {t.p})
           w == syncPresence(v, c)
<1>1. t.op = "kick" /\ t.at = "got" /\ Allowed(t)
  BY DEF KickPeer, Running
<1>2. /\ t \in SocketTasks /\ t.obj = store /\ store # 0 /\ vault[store] \in Vault
      /\ t.p \in Peers
      /\ \A x \in tasks : ~Alone(x) /\ x \in SocketTasks /\ Rely(x)
      /\ t.p \in vault[store].peers /\ t.p \notin vault[store].pending
      /\ \A x \in tasks : Running(x, "join", "saved") => x.p # t.p
  BY <1>1, HostStart
<1>3. UNCHANGED <<conn, sock>> /\ store' = store /\ vault'[store] = w /\ connected' = c
      /\ Suspend(t, "saved")
  BY <1>2, Holds DEF KickPeer, TypeOK
<1>4. v \in Vault /\ v.peers = vault[store].peers \ {t.p} /\ v.pending = vault[store].pending
  BY <1>2 DEF Remove, Vault
<1> HIDE DEF v, c
<1>5. /\ w.peers = v.peers /\ w.pending = v.pending
      /\ w.count = Cardinality(admittedPeers(w, c))
      /\ w.empty <=> admittedPeers(w, c) = {}
  BY <1>4, SyncFields
<1> HIDE DEF w
<1>6. PICK u : u = [t EXCEPT !.at = "saved"]
  OBVIOUS
<1>7. u.op = "kick" /\ u.at = "saved" /\ u.p = t.p /\ tasks' = (tasks \ {t}) \cup {u}
  BY <1>1, <1>2, <1>3, <1>6, NextTask DEF Suspend
<1>8. Serial'
  BY <1>2, <1>3, SerialNext
<1>9. Relied'
  <2> SUFFICES ASSUME NEW x \in tasks'
               PROVE  Rely(x)'
    BY DEF Relied
  <2>1. CASE x = u
    BY <1>2, <1>3, <1>4, <1>5, <1>7, <2>1 DEF Rely, Running
  <2>2. CASE x \in tasks /\ x # t
    BY <1>2, <1>3, <1>4, <1>5, <2>2 DEF Rely, Running, Alone, c
  <2> QED
    BY <1>7, <2>1, <2>2
<1>10. Bound'
  BY <1>2, <1>3, Holds DEF Bound
<1>11. Queue'
  <2> SUFFICES ASSUME NEW q \in vault[store].pending
               PROVE  /\ q \notin w.peers \cup HostIds \cup Members
                      /\ Waiting(q)'
    BY <1>3, <1>4, <1>5 DEF Queue
  <2>1. q \notin vault[store].peers \cup HostIds \cup Members /\ Waiting(q) /\ q # t.p
    BY <1>2, Holds DEF Queue
  <2>2. conn[q] # NoSocket /\ q \in connected
    BY <1>2, <2>1 DEF Waiting, Running, Alone
  <2> QED
    BY <1>3, <1>4, <1>5, <2>1, <2>2 DEF Waiting, c
<1>12. Present' = admittedPeers(w, c)
  BY <1>3 DEF Present
<1>13. Counted'
  BY <1>3, <1>5, <1>12 DEF Counted
<1>14. Roster'
  <2>1. Informs(u) /\ u \in tasks'
    BY <1>7 DEF Informs
  <2> SUFFICES ASSUME NEW q \in Present'
               PROVE  /\ conn[q] # NoSocket
                      /\ sock[conn[q]].st = "open" =>
                           sock[conn[q]].joined \/ \E x \in tasks' : Telling(x, q)
    BY <1>3, <2>1 DEF Roster, IsOpen, Told, Informs, Telling
  <2>2. q \in Present
    BY <1>4, <1>5, <1>12 DEF admittedPeers, Present, c
  <2>3. conn[q] # NoSocket /\ (IsOpen(conn[q]) => Told(q))
    BY <1>2, <2>2, Holds DEF Roster
  <2>4. ~Telling(t, q)
    BY <1>1 DEF Telling
  <2>5. (\E x \in tasks : Telling(x, q)) => \E x \in tasks' : Telling(x, q)
    BY <1>7, <2>4
  <2> QED
    BY <2>3, <2>5 DEF IsOpen, Told
<1> QED
  BY <1>8, <1>9, <1>10, <1>11, <1>13, <1>14 DEF Settling

LEMMA CloseNoSessionStep ==
  ASSUME Runs, NEW t \in tasks, CloseNoSession(t)
  PROVE  Settling'
<1>1. /\ t.op = "close" /\ tasks' = tasks \ {t} /\ store = 0
      /\ UNCHANGED <<vault, store, conn, connected, sock>>
  BY TaskFacts DEF CloseNoSession, Running, Finish
<1>2. tasks = {t}
  BY <1>1, TaskFacts DEF Alone
<1>3. Serial' /\ Relied' /\ Queue' /\ Counted' /\ Roster'
  BY <1>1, <1>2 DEF Serial, Relied, Queue, Counted, Roster
<1>4. Bound'
  BY <1>1, <1>2, Holds DEF Bound
<1> QED
  BY <1>3, <1>4 DEF Settling

LEMMA CloseRecordedStep ==
  ASSUME Runs, NEW t \in tasks, CloseRecorded(t)
  PROVE  Settling'
<1> DEFINE v == [vault[store] EXCEPT !.pending = @ \ {t.p}, !.old = @ \ {t.p}]
           w == syncPresence(v, connected)
<1>1. t.op = "close" /\ t.at = "got" /\ t.obj # 0 /\ Suspend(t, "saved")
  BY DEF CloseRecorded, Running
<1>2. /\ t \in SocketTasks /\ t.obj = store /\ store # 0 /\ vault[store] \in Vault
      /\ tasks = {t} /\ sock[t.s].st = "closed" /\ t.p \in Peers
  BY <1>1, TaskFacts, Holds DEF Alone, Rely
<1>3. UNCHANGED <<conn, connected, sock>> /\ store' = store /\ vault'[store] = w
  BY <1>2, Holds DEF CloseRecorded, TypeOK, afterClose
<1>4. v \in Vault /\ v.peers = vault[store].peers
      /\ v.pending = vault[store].pending \ {t.p}
  BY <1>2 DEF Vault
<1> HIDE DEF v
<1>5. /\ w.peers = v.peers /\ w.pending = v.pending
      /\ w.count = Cardinality(admittedPeers(w, connected))
      /\ w.empty <=> admittedPeers(w, connected) = {}
  BY <1>4, SyncFields
<1> HIDE DEF w
<1>6. PICK u : u = [t EXCEPT !.at = "saved"]
  OBVIOUS
<1>7. u.op = "close" /\ u.at = "saved" /\ u.s = t.s /\ u.p = t.p /\ tasks' = {u}
  BY <1>1, <1>2, <1>6, NextTask DEF Suspend
<1>8. Serial'
  BY <1>1, <1>2, <1>3, SerialNext
<1>9. Relied'
  BY <1>2, <1>3, <1>7 DEF Relied, Rely, Running
<1>10. Bound'
  BY <1>2, <1>3, Holds DEF Bound
<1>11. Queue'
  <2> SUFFICES ASSUME NEW q \in w.pending
               PROVE  /\ q \notin w.peers \cup HostIds \cup Members
                      /\ Waiting(q)'
    BY <1>3 DEF Queue
  <2>1. q \in vault[store].pending /\ q # t.p
    BY <1>4, <1>5
  <2>2. q \notin vault[store].peers \cup HostIds \cup Members /\ Waiting(q)
    BY <1>2, <2>1, Holds DEF Queue
  <2>3. conn[q] # NoSocket /\ q \in connected
    BY <1>2, <2>1, <2>2 DEF Waiting
  <2> QED
    BY <1>3, <1>4, <1>5, <2>2, <2>3 DEF Waiting
<1>12. Present' = admittedPeers(w, connected) /\ Present' = Present
  BY <1>3, <1>4, <1>5 DEF Present, admittedPeers
<1>13. Counted'
  BY <1>3, <1>5, <1>12 DEF Counted
<1>14. Roster'
  <2>1. Informs(t) /\ Informs(u)
    BY <1>1, <1>7 DEF Informs
  <2>2. \A q \in Peers : ~Telling(t, q)
    BY <1>1 DEF Telling
  <2>3. \A x \in tasks, q \in Peers : Telling(x, q) => \E y \in tasks' : Telling(y, q)
    BY <1>2, <2>2
  <2>4. \E x \in tasks' : Informs(x)
    BY <1>7, <2>1
  <2>5. Present \subseteq Peers
    BY <1>2, Holds
  <2> QED
    BY <1>3, <1>12, <2>3, <2>4, <2>5, Holds, RosterFrame
<1> QED
  BY <1>8, <1>9, <1>10, <1>11, <1>13, <1>14 DEF Settling

LEMMA SettlingInit == Init => Settling
<1> SUFFICES ASSUME Init
             PROVE  Settling
  OBVIOUS
<1>1. tasks = {} /\ store = 0 /\ connected = {} /\ \A p \in Peers : conn[p] = NoSocket
  BY DEF Init
<1> QED
  BY <1>1 DEF Settling, Serial, Relied, Bound, Queue, Counted, Roster

LEMMA SettlingNext ==
  Runs /\ [Next]_vars => Settling'
<1> SUFFICES ASSUME Runs, [Next]_vars
             PROVE  Settling'
  OBVIOUS
<1>1. CASE CreateVault \/ RemoveVault
  BY <1>1, StoreEvents
<1>2. CASE \E p \in Peers : GraceElapses(p)
  BY <1>2, GraceStep
<1>3. CASE \E s \in Sockets, p \in Peers, cred \in Credentials : JoinFrame(s, p, cred)
  BY <1>3, JoinFrameStep
<1>4. CASE \E s \in Sockets, op \in {"accept", "reject", "kick"}, p \in Peers :
             HostFrame(s, op, p)
  BY <1>4, HostFrameStep
<1>5. CASE \E s \in Sockets : SocketDrops(s) \/ CloseStale(s) \/ CloseOwner(s)
  BY <1>5, SocketDropsStep, CloseOwnerStep
<1>6. CASE \E t \in tasks : StoreStep(t) \/ JoinStep(t) \/ HostStep(t) \/ CloseStep(t)
  <2>1. PICK t \in tasks : StoreStep(t) \/ JoinStep(t) \/ HostStep(t) \/ CloseStep(t)
    BY <1>6
  <2>2. CASE StoreStep(t)
    BY <2>2, StoreStepSettles
  <2>3. CASE JoinStep(t)
    BY <2>3, JoinNotFoundStep, JoinRefusedStep, JoinAdmittedStep, JoinDoneStep,
       JoinReboundStep, JoinAsksStep, JoinAskedStep DEF JoinStep
  <2>4. CASE HostStep(t)
    BY <2>4, JoinNotFoundStep, AcceptJoinStep, AcceptNoRoomStep, AcceptDoneStep,
       RejectJoinStep, RejectDoneStep, KickPeerStep, KickDoneStep DEF HostStep
  <2>5. CASE CloseStep(t)
    BY <2>5, CloseNoSessionStep, CloseRecordedStep, CloseDoneStep DEF CloseStep
  <2> QED
    BY <2>1, <2>2, <2>3, <2>4, <2>5
<1>7. CASE UNCHANGED vars
  <2>1. UNCHANGED <<vault, store, conn, connected, sock, tasks>>
    BY <1>7 DEF vars
  <2>2. Serial /\ Relied /\ Bound /\ Queue /\ Counted /\ Roster
    BY Holds
  <2> QED
    BY <2>1, <2>2 DEF Settling, Serial, Relied, Rely, Presented, Bound, Queue, Counted, Roster,
       Waiting, Running, Present, IsOpen, Told
<1> QED
  BY <1>1, <1>2, <1>3, <1>4, <1>5, <1>6, <1>7 DEF Next

\* The inductive invariant holds of every run of the build as it is.
LEMMA Settles ==
  ASSUME AwaitYields = FALSE
  PROVE  Spec => []Settling
<1>1. TypeOK /\ NoResurrection /\ Settling /\ [Next]_vars => Settling'
  BY SettlingNext DEF Runs
<1> QED
  BY <1>1, SettlingInit, TypeCorrect, NeverResurrected, PTL DEF Spec

\* Whatever sequence of joins, recoveries, accepts, kicks, drops, reconnects
\* and removals led there: when nothing is in flight the participant count is
\* the number of admitted peers with a registered socket, and the vault is
\* marked empty exactly when there is none.
THEOREM PresenceIsExact ==
  ASSUME AwaitYields = FALSE
  PROVE  Spec => []PresenceExact
<1>1. Settling => PresenceExact
  BY DEF Settling, Counted, PresenceExact, Settled, Running
<1> QED
  BY <1>1, Settles, PTL

\* When nothing is in flight, every present peer has a connection; if that
\* socket is open it has been sent `joined' and its last peer_update is the
\* set of present peers.
THEOREM RosterAgrees ==
  ASSUME AwaitYields = FALSE
  PROVE  Spec => []RosterAgreement
<1>1. Settling => RosterAgreement
  BY DEF Settling, Roster, RosterAgreement, Settled, Told
<1> QED
  BY <1>1, Settles, PTL

\* When nothing is in flight, every pending guest has a registered socket,
\* whose close will free the slot.
THEOREM PendingHoldsSocket ==
  ASSUME AwaitYields = FALSE
  PROVE  Spec => []PendingHasSocket
<1>1. Settling => PendingHasSocket
  BY DEF Settling, Queue, PendingHasSocket, Settled, Waiting
<1> QED
  BY <1>1, Settles, PTL
=============================================================================
