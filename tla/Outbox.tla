-------------------------------- MODULE Outbox --------------------------------
(*****************************************************************************)
(* A message on its way from one peer of a one-to-one vault to the other:    *)
(* the sender's sealed offline queue (src/outbox-store.ts) and the code that *)
(* fills and flushes it (src/useRelay.ts), the relay's replay cache          *)
(* (relay-message.use-case.ts), the direct data channel, the recipient's     *)
(* deduplication and its jittered receipt.                                   *)
(*                                                                           *)
(* "A" writes, "B" reads; both were admitted to the vault, so connecting     *)
(* means the relay's "joined" frame.  A message is its nonce; nonces are     *)
(* numbered in the order of their timestamps.  An encrypted frame is the     *)
(* nonce it carries and whether the recipient's present channel opens it.    *)
(*                                                                           *)
(* The Noise handshake appears as its three visible steps: both channels are *)
(* renewed, the initiator's is ready, the responder's is ready.              *)
(*****************************************************************************)
EXTENDS Naturals, Sequences

CONSTANTS MaxMessages,      \* messages A writes (bound)
          MaxFaults,        \* lost sockets, reloads, throttled frames (bound)
          SenderInitiates   \* A has the smaller id and speaks first

ASSUME OutboxAssumption ==
  /\ MaxMessages \in Nat
  /\ MaxFaults \in Nat
  /\ SenderInitiates \in BOOLEAN

Nonces == 1..MaxMessages
Peers == {"A", "B"}
Frame == [n : Nonces, ok : BOOLEAN]
Idle == [on |-> FALSE, todo |-> {}, putting |-> FALSE]

VARIABLES
  typed,      \* messages A's user has sent off
  box,        \* outboxRef.current is set: the at-rest key has been derived
  sealing,    \* enqueue() called, the sealed record not yet in IndexedDB
  db,         \* IndexedDB: survives a reload
  drain,      \* the running drain(): its snapshot, and the entry being re-put
  flushDue,   \* the flush effect has been scheduled and has not run
  sees,       \* A's activePeers contains B
  peersDue,   \* peer_update frames on their way to A: is B in them
  up,         \* whose socket is joined to the vault
  ready,      \* whose PeerChannels entry for the other is 'ready'
  hs,         \* the handshake under way
  paired,     \* both ratchets come from the same handshake
  direct,     \* the data channel is open
  toRelay,    \* chat frames A -> relay
  toB,        \* chat frames relay -> B
  wire,       \* chat frames on the data channel
  seen,       \* the relay's seenNonces, for A's messages
  refused,    \* messages a copy of which the relay refused as a replay
  list,       \* B's message list
  shown,      \* messages that have ever been on B's screen
  ackDue,     \* receipts waiting for their jitter
  acks,       \* receipts on their way to A
  acked,      \* messages A holds a receipt for
  sent,       \* messages A has put on the wire
  faults

sender == <<typed, box, sealing, db, drain, flushDue>>
links  == <<sees, peersDue, up, ready, hs, paired, direct>>
frames == <<toRelay, toB, wire>>
relay  == <<seen, refused>>
reader == <<list, shown, ackDue>>
acking == <<acks, acked>>
vars == <<sender, links, frames, relay, reader, acking, sent, faults>>

Entries(q) == {q[i] : i \in DOMAIN q}
Oldest(S) == {n \in S : \A k \in S : n <= k}

TypeOK ==
  /\ typed \subseteq Nonces /\ box \in BOOLEAN
  /\ sealing \subseteq Nonces /\ db \subseteq Nonces
  /\ drain \in [on : BOOLEAN, todo : SUBSET Nonces, putting : BOOLEAN]
  /\ flushDue \in BOOLEAN /\ sees \in BOOLEAN /\ peersDue \in Seq(BOOLEAN)
  /\ up \in [Peers -> BOOLEAN] /\ ready \in [Peers -> BOOLEAN]
  /\ hs \in {"idle", "started", "half"}
  /\ paired \in BOOLEAN /\ direct \in BOOLEAN
  /\ toRelay \in Seq(Frame) /\ toB \in Seq(Frame) /\ wire \in Seq(Frame)
  /\ seen \subseteq Nonces /\ refused \subseteq Nonces
  /\ list \in Seq(Nonces) /\ shown \subseteq Nonces
  /\ ackDue \subseteq Nonces /\ acks \subseteq Nonces /\ acked \subseteq Nonces
  /\ sent \subseteq Nonces
  /\ faults \in 0..MaxFaults

-------------------------------------------------------------------------------
\* setSecured(mgr.allReady(activePeers)), for the one other peer.
Secured == sees /\ ready["A"]

\* The flush effect runs again when its dependencies have changed to a secured
\* channel with somebody there.
Rearm == flushDue' = (flushDue \/ (~Secured /\ Secured'))

\* The frames under way were sealed for a channel that is no more.
Spoiled(q) == [i \in DOMAIN q |-> [q[i] EXCEPT !.ok = FALSE]]
SpoilFrames ==
  /\ toRelay' = Spoiled(toRelay)
  /\ toB' = Spoiled(toB)
  /\ wire' = Spoiled(wire)

\* dispatch(): over the data channel when it is open and takes the frame, else
\* over the socket, where sendRaw does nothing unless the socket is open.
Dispatch(n) ==
  LET f == [n |-> n, ok |-> paired \/ hs = "half"] IN
  /\ \/ direct /\ wire' = Append(wire, f) /\ UNCHANGED toRelay
     \/ /\ toRelay' = IF up["A"] THEN Append(toRelay, f) ELSE toRelay
        /\ UNCHANGED wire
  /\ sent' = sent \cup {n}
  /\ UNCHANGED toB

Init ==
  /\ typed = {} /\ box = FALSE /\ sealing = {} /\ db = {} /\ drain = Idle
  /\ flushDue = FALSE /\ sees = FALSE /\ peersDue = <<>>
  /\ up = [p \in Peers |-> FALSE] /\ ready = [p \in Peers |-> FALSE]
  /\ hs = "idle" /\ paired = FALSE /\ direct = FALSE
  /\ toRelay = <<>> /\ toB = <<>> /\ wire = <<>>
  /\ seen = {} /\ refused = {}
  /\ list = <<>> /\ shown = {} /\ ackDue = {}
  /\ acks = {} /\ acked = {} /\ sent = {}
  /\ faults = 0

-------------------------------------------------------------------------------
(* The sender's screen. *)

\* sendMessage() with nobody there or no secure channel.  Without an open
\* outbox the optional call enqueues nothing.
TypeOffline(n) ==
  /\ n \notin typed
  /\ ~Secured
  /\ typed' = typed \cup {n}
  /\ sealing' = IF box THEN sealing \cup {n} ELSE sealing
  /\ UNCHANGED <<box, db, drain, flushDue, links, frames, relay, reader,
                 acking, sent, faults>>

\* sendMessage() to a present, secured peer: never queued.
TypeLive(n) ==
  /\ n \notin typed
  /\ Secured
  /\ typed' = typed \cup {n}
  /\ Dispatch(n)
  /\ UNCHANGED <<box, sealing, db, drain, flushDue, links, relay, reader,
                 acking, faults>>

Type(n) ==
  /\ \A k \in Nonces : k < n => k \in typed
  /\ TypeOffline(n) \/ TypeLive(n)

\* The awaited half of enqueue().
Put(n) ==
  /\ n \in sealing
  /\ sealing' = sealing \ {n}
  /\ db' = db \cup {n}
  /\ UNCHANGED <<typed, box, drain, flushDue, links, frames, relay, reader,
                 acking, sent, faults>>

\* MessageOutbox.open() resolves; nothing asks for a flush.
OpenBox ==
  /\ ~box
  /\ box' = TRUE
  /\ UNCHANGED <<typed, sealing, db, drain, flushDue, links, frames, relay,
                 reader, acking, sent, faults>>

\* The flush effect: no outbox, or a drain already running, and the request is
\* forgotten; otherwise drain() takes its snapshot.
Flush ==
  /\ flushDue
  /\ flushDue' = FALSE
  /\ drain' = IF box /\ ~drain.on
              THEN [Idle EXCEPT !.on = TRUE, !.todo = db]
              ELSE drain
  /\ UNCHANGED <<typed, box, sealing, db, links, frames, relay, reader,
                 acking, sent, faults>>

\* One turn of drain()'s loop up to its put: the oldest entry of the snapshot,
\* whether or not it is still stored.
DrainSend ==
  /\ drain.on /\ ~drain.putting /\ drain.todo # {} /\ Secured
  /\ \E n \in Oldest(drain.todo) : Dispatch(n)
  /\ drain' = [drain EXCEPT !.putting = TRUE]
  /\ UNCHANGED <<typed, box, sealing, db, flushDue, links, relay, reader,
                 acking, faults>>

\* Bug: drain() removes what it has sent instead of putting it back.
Bug_DrainRemoves ==
  /\ drain.on /\ drain.putting
  /\ \E n \in Oldest(drain.todo) :
       /\ db' = db \ {n}
       /\ drain' = [Idle EXCEPT !.on = TRUE, !.todo = drain.todo \ {n}]
  /\ UNCHANGED <<typed, box, sealing, flushDue, links, frames, relay, reader,
                 acking, sent, faults>>

\* Bug: the loop over the snapshot ends after its first entry.
Bug_OneEntry ==
  /\ drain.on /\ drain.putting
  /\ \E n \in Oldest(drain.todo) : db' = db \cup {n}
  /\ drain' = [Idle EXCEPT !.on = TRUE]
  /\ UNCHANGED <<typed, box, sealing, flushDue, links, frames, relay, reader,
                 acking, sent, faults>>

\* The sealed record with one more attempt is written back.
DrainPut ==
  /\ drain.on /\ drain.putting
  /\ \E n \in Oldest(drain.todo) :
       /\ db' = db \cup {n}
       /\ drain' = [Idle EXCEPT !.on = TRUE, !.todo = drain.todo \ {n}]
  /\ UNCHANGED <<typed, box, sealing, flushDue, links, frames, relay, reader,
                 acking, sent, faults>>

\* Nothing left, or sendQueued() returned false.
DrainEnd ==
  /\ drain.on /\ ~drain.putting
  /\ drain.todo = {} \/ ~Secured
  /\ drain' = Idle
  /\ UNCHANGED <<typed, box, sealing, db, flushDue, links, frames, relay,
                 reader, acking, sent, faults>>

\* markDelivered().  The record can only be reached through an open outbox.
ReceiveAck(n) ==
  /\ n \in acks
  /\ acks' = acks \ {n}
  /\ acked' = acked \cup {n}
  /\ db' = IF box THEN db \ {n} ELSE db
  /\ UNCHANGED <<typed, box, sealing, drain, flushDue, links, frames, relay,
                 reader, sent, faults>>

-------------------------------------------------------------------------------
(* The relay. *)

\* RelayMessage.execute: the nonce is recorded before anyone knows whether the
\* recipient is connected.
RelayHandles ==
  /\ toRelay # <<>>
  /\ LET f == Head(toRelay) IN
     IF f.n \in seen
     THEN /\ refused' = refused \cup {f.n}
          /\ UNCHANGED <<seen, toB>>
     ELSE /\ seen' = seen \cup {f.n}
          /\ toB' = IF up["B"] THEN Append(toB, f) ELSE toB
          /\ UNCHANGED refused
  /\ toRelay' = Tail(toRelay)
  /\ UNCHANGED <<sender, links, wire, reader, acking, sent, faults>>

\* checkMessageLimit() refuses the frame before it reaches execute().
RelayThrottles ==
  /\ toRelay # <<>> /\ faults < MaxFaults
  /\ toRelay' = Tail(toRelay)
  /\ faults' = faults + 1
  /\ UNCHANGED <<sender, links, toB, wire, relay, reader, acking, sent>>

-------------------------------------------------------------------------------
(* The recipient. *)

\* Bug: a receipt before the frame has been opened.
Bug_AckUnread(f) ==
  IF ready["B"] /\ f.ok
  THEN /\ list' = IF f.n \in Entries(list) THEN list ELSE Append(list, f.n)
       /\ shown' = shown \cup {f.n}
       /\ ackDue' = ackDue \cup {f.n}
  ELSE ackDue' = ackDue \cup {f.n} /\ UNCHANGED <<list, shown>>

\* Bug: no deduplication by nonce.
Bug_NoDedup(f) ==
  IF ready["B"] /\ f.ok
  THEN /\ list' = Append(list, f.n)
       /\ shown' = shown \cup {f.n}
       /\ ackDue' = ackDue \cup {f.n}
  ELSE UNCHANGED reader

\* handleEnvelope() for a chat frame: dropped silently if it cannot be opened;
\* listed unless it already is; receipted either way.
Read(f) ==
  IF ready["B"] /\ f.ok
  THEN /\ list' = IF f.n \in Entries(list) THEN list ELSE Append(list, f.n)
       /\ shown' = shown \cup {f.n}
       /\ ackDue' = ackDue \cup {f.n}
  ELSE UNCHANGED reader

ReceiveRelayed ==
  /\ toB # <<>>
  /\ Read(Head(toB))
  /\ toB' = Tail(toB)
  /\ UNCHANGED <<sender, links, toRelay, wire, relay, acking, sent, faults>>

ReceiveDirect ==
  /\ wire # <<>>
  /\ Read(Head(wire))
  /\ wire' = Tail(wire)
  /\ UNCHANGED <<sender, links, toRelay, toB, relay, acking, sent, faults>>

Receive == ReceiveRelayed \/ ReceiveDirect

\* The jitter is over: the receipt goes out over whatever is there, once.
SendAck(n) ==
  /\ n \in ackDue
  /\ ackDue' = ackDue \ {n}
  /\ acks' = IF direct \/ (up["A"] /\ up["B"]) THEN acks \cup {n} ELSE acks
  /\ UNCHANGED <<sender, links, frames, relay, list, shown, acked, sent,
                 faults>>

-------------------------------------------------------------------------------
(* Connections, peer lists and channels. *)

Join(p) ==
  /\ ~up[p]
  /\ up' = [up EXCEPT ![p] = TRUE]
  /\ peersDue' = IF up'["A"] THEN Append(peersDue, up'["B"]) ELSE peersDue
  /\ LET alone == p = "B" /\ ~up["A"]       \* B's first list: removePeer(A)
     IN /\ paired' = (paired /\ ~alone)
        /\ direct' = (direct /\ ~alone)
        /\ wire' = IF alone THEN <<>> ELSE wire
  /\ UNCHANGED <<sender, sees, ready, hs, toRelay, toB, relay, reader,
                 acking, sent, faults>>

\* A's socket is lost, or its page reloaded.  B hears of it if it is connected
\* and removes the peer; A itself keeps its view until it is back.
LoseA(reload) ==
  /\ up["A"] /\ faults < MaxFaults
  /\ faults' = faults + 1
  /\ up' = [up EXCEPT !["A"] = FALSE]
  /\ peersDue' = <<>> /\ toRelay' = <<>> /\ hs' = "idle"
  /\ paired' = (paired /\ ~up["B"] /\ ~reload)
  /\ direct' = (direct /\ ~up["B"] /\ ~reload)
  /\ wire' = IF direct' THEN wire ELSE <<>>
  /\ acks' = IF direct' THEN acks ELSE {}
  /\ IF reload
     THEN /\ box' = FALSE /\ sealing' = {} /\ drain' = Idle
          /\ flushDue' = FALSE /\ sees' = FALSE
          /\ ready' = [ready EXCEPT !["A"] = FALSE]
     ELSE UNCHANGED <<box, sealing, drain, flushDue, sees, ready>>
  /\ UNCHANGED <<typed, db, toB, relay, reader, acked, sent>>

LoseB(reload) ==
  /\ up["B"] /\ faults < MaxFaults
  /\ faults' = faults + 1
  /\ up' = [up EXCEPT !["B"] = FALSE]
  /\ peersDue' = IF up["A"] THEN Append(peersDue, FALSE) ELSE peersDue
  /\ toB' = <<>> /\ hs' = "idle"
  /\ paired' = (paired /\ ~reload)
  /\ direct' = (direct /\ ~reload)
  /\ wire' = IF direct' THEN wire ELSE <<>>
  /\ IF reload
     THEN /\ list' = <<>> /\ ackDue' = {}
          /\ ready' = [ready EXCEPT !["B"] = FALSE]
     ELSE UNCHANGED <<list, ackDue, ready>>
  /\ UNCHANGED <<sender, sees, toRelay, relay, shown, acking, sent>>

\* peer_update at A: a peer that left takes its channel and its mesh entry.
ReceivePeers ==
  /\ peersDue # <<>>
  /\ peersDue' = Tail(peersDue)
  /\ sees' = Head(peersDue)
  /\ IF sees /\ ~sees'
     THEN /\ ready' = [ready EXCEPT !["A"] = FALSE]
          /\ hs' = "idle" /\ paired' = FALSE /\ direct' = FALSE /\ wire' = <<>>
     ELSE UNCHANGED <<ready, hs, paired, direct, wire>>
  /\ Rearm
  /\ UNCHANGED <<typed, box, sealing, db, drain, up, toRelay, toB, relay,
                 reader, acking, sent, faults>>

\* ensureChannel / onRestartRequest / message 1: both sides start afresh.  The
\* handshake frames travel behind the chat frames already on the sockets.
Rekey ==
  /\ up["A"] /\ up["B"] /\ sees /\ peersDue = <<>>
  /\ hs = "idle" /\ ~paired
  /\ toRelay = <<>> /\ toB = <<>>
  /\ hs' = "started"
  /\ ready' = [p \in Peers |-> FALSE]
  /\ wire' = Spoiled(wire)
  /\ UNCHANGED <<sender, sees, peersDue, up, paired, direct, toRelay, toB,
                 relay, reader, acking, sent, faults>>

\* The initiator is ready when it has written message 3, which waits in the
\* paced queue that chat frames do not enter; the responder when it reads it.
Finalize ==
  LET second == hs = "half"
      p == IF second = SenderInitiates THEN "B" ELSE "A" IN
  /\ hs \in {"started", "half"}
  /\ ready' = [ready EXCEPT ![p] = TRUE]
  /\ hs' = IF second THEN "idle" ELSE "half"
  /\ paired' = second
  /\ UNCHANGED <<typed, box, sealing, db, drain, sees, peersDue, up, direct,
                 frames, relay, reader, acking, sent, faults>>
  /\ Rearm

OpenDirect ==
  /\ ~direct /\ paired /\ sees /\ up["A"] /\ up["B"]
  /\ direct' = TRUE
  /\ UNCHANGED <<sender, sees, peersDue, up, ready, hs, paired, frames, relay,
                 reader, acking, sent, faults>>

CloseDirect ==
  /\ direct /\ faults < MaxFaults
  /\ faults' = faults + 1
  /\ direct' = FALSE /\ wire' = <<>>
  /\ acks' \in {acks, {}}
  /\ UNCHANGED <<sender, sees, peersDue, up, ready, hs, paired, toRelay, toB,
                 relay, reader, acked, sent>>

Link ==
  \/ \E p \in Peers : Join(p)
  \/ \E reload \in BOOLEAN : LoseA(reload) \/ LoseB(reload)
  \/ ReceivePeers \/ Rekey \/ Finalize \/ OpenDirect \/ CloseDirect

Next ==
  \/ \E n \in Nonces : Type(n) \/ Put(n) \/ ReceiveAck(n) \/ SendAck(n)
  \/ OpenBox \/ Flush \/ DrainSend \/ DrainPut \/ DrainEnd
  \/ RelayHandles \/ RelayThrottles \/ Receive
  \/ Link

Spec == Init /\ [][Next]_vars

\* The event loop runs what is scheduled, IndexedDB and the socket complete,
\* and a client that lost its socket dials again.  Nothing makes a fault, a
\* data channel or a user's message happen.
Fairness ==
  /\ WF_vars(OpenBox) /\ WF_vars(Flush)
  /\ WF_vars(DrainSend) /\ WF_vars(DrainPut) /\ WF_vars(DrainEnd)
  /\ WF_vars(RelayHandles) /\ WF_vars(ReceiveRelayed) /\ WF_vars(ReceiveDirect)
  /\ \A n \in Nonces : WF_vars(Put(n)) /\ WF_vars(SendAck(n))
                       /\ WF_vars(ReceiveAck(n))
  /\ \A p \in Peers : WF_vars(Join(p))
  /\ WF_vars(ReceivePeers) /\ WF_vars(Rekey) /\ WF_vars(Finalize)

FairSpec == Spec /\ Fairness

-------------------------------------------------------------------------------
(* Properties. *)

\* The whole path - queue, flush, relay or data channel, deduplication and
\* receipt - implements a delivery that never shows what was not written, and
\* never reports as delivered what the recipient has not seen.
Delivery == INSTANCE AbstractDelivery
              WITH submitted <- typed, shown <- shown, settled <- acked
ImplementsDelivery == Delivery!Spec

\* An entry leaves the offline queue only after the recipient has seen it,
\* through lost sockets, reloads, refused frames and interrupted drains.
StoredUntilShown == [][\A n \in db \ db' : n \in shown]_vars

\* However many copies arrive, and by whichever route, B's list holds one.
ShownOnce == \A i, j \in DOMAIN list : list[i] = list[j] => i = j

\* Once connections have stopped failing, a flush that starts over a settled
\* channel gets every entry it finds, and the relay has not seen, to the reader.
FlushDelivers ==
  \A n \in Nonces :
    (/\ faults = MaxFaults /\ up["A"] /\ up["B"] /\ peersDue = <<>>
     /\ paired /\ Secured /\ box /\ flushDue /\ ~drain.on /\ n \in db \ seen)
    ~> n \in shown

\* What the comments say, and the code does not do: TLC finds the next two
\* violated (README, "Disagreements").

\* outbox-store.ts: "a flushed-but-unacked entry survives and is retried, while
\* the recipient's nonce dedup discards any duplicate it already saw".  The
\* relay discards a retry only if the recipient has its copy, or soon will.
RetriesReachTheReader ==
  refused \subseteq shown \cup {f.n : f \in Entries(toB)}

\* outbox-store.ts: queued messages "are re-sent over the live relay/P2P path
\* once both peers are online together".  With both online, secured, and no
\* flush asked for or running, nothing stored is still unsent.
NothingLeftBehind ==
  (/\ paired /\ Secured /\ up["A"] /\ up["B"] /\ peersDue = <<>>
   /\ box /\ ~flushDue /\ ~drain.on)
  => db \subseteq sent
===============================================================================
