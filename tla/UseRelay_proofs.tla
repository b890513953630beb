--------------------------- MODULE UseRelay_proofs ---------------------------
(* What is proved of the two protocols that pages run with one another in the *)
(* hook useRelay: how a message is kept, sent and acknowledged (Outbox), and  *)
(* who has pinned whom (Whitelist).  A section for each.                      *)
EXTENDS Outbox, Whitelist, FiniteSetTheorems, SequenceTheorems, TLAPS

-----------------------------------------------------------------------------
(* Outbox.tla.  The inductive invariant is that every copy of a message,      *)
(* wherever it is on its way, is one the user wrote, that every receipt,      *)
(* wherever it is on its way, is for a message the reader has seen, and that  *)
(* the reader's list holds no message twice.                                  *)

USE DEF Peers, Idle

\* The frames of a queue carry messages of a set.
Within(q, S) == \A i \in DOMAIN q : q[i].n \in S

Provenance ==
  /\ sealing \subseteq typed /\ db \subseteq typed /\ drain.todo \subseteq typed
  /\ Within(toRelay, typed) /\ Within(toB, typed) /\ Within(wire, typed)
  /\ shown \subseteq typed

Receipted ==
  /\ ackDue \subseteq shown /\ acks \subseteq shown /\ acked \subseteq shown

IInv == TypeOK /\ Provenance /\ Receipted /\ ShownOnce

-------------------------------------------------------------------------------
(* Lemmas about frame queues. *)

\* Spoiling the frames of a queue changes neither their number nor the
\* messages they carry.
LEMMA SpoiledFrames ==
  ASSUME NEW q \in Seq(Frame)
  PROVE  /\ Spoiled(q) \in Seq(Frame)
         /\ DOMAIN Spoiled(q) = DOMAIN q
         /\ \A i \in DOMAIN q : Spoiled(q)[i].n = q[i].n
<1>1. Len(q) \in Nat /\ DOMAIN q = 1..Len(q)
  OBVIOUS
<1>2. \A i \in DOMAIN q : q[i] \in Frame
  BY <1>1
<1>3. \A i \in DOMAIN q : [q[i] EXCEPT !.ok = FALSE] \in Frame
  BY <1>2 DEF Frame
<1>4. \A i \in DOMAIN q : [q[i] EXCEPT !.ok = FALSE].n = q[i].n
  BY <1>2 DEF Frame
<1>5. Spoiled(q) = [i \in 1..Len(q) |-> [q[i] EXCEPT !.ok = FALSE]]
  BY <1>1 DEF Spoiled
<1>6. Spoiled(q) \in [1..Len(q) -> Frame]
  BY <1>1, <1>3, <1>5
<1>7. Spoiled(q) \in Seq(Frame)
  BY <1>1, <1>6, SeqDef
<1>8. DOMAIN Spoiled(q) = DOMAIN q
  BY <1>1, <1>5
<1>9. \A i \in DOMAIN q : Spoiled(q)[i].n = q[i].n
  BY <1>1, <1>4, <1>5
<1> QED
  BY <1>7, <1>8, <1>9

\* The frames of a queue's tail are frames of the queue.
LEMMA TailFrames ==
  ASSUME NEW S, NEW q \in Seq(S), q # <<>>
  PROVE  /\ Head(q) \in S
         /\ Tail(q) \in Seq(S)
         /\ 1 \in DOMAIN q /\ Head(q) = q[1]
         /\ \A i \in DOMAIN Tail(q) : i + 1 \in DOMAIN q /\ Tail(q)[i] = q[i + 1]
  OBVIOUS

\* What a reader takes from a queue of frames.
LEMMA HeadFrame ==
  ASSUME NEW q \in Seq(Frame), q # <<>>
  PROVE  Head(q) \in Frame /\ Head(q).n \in Nonces /\ Tail(q) \in Seq(Frame)
<1>1. Head(q) \in Frame /\ Tail(q) \in Seq(Frame)
  BY TailFrames
<1> QED
  BY <1>1 DEF Frame

\* Appending adds one element and keeps the others.
LEMMA AppendFrames ==
  ASSUME NEW S, NEW q \in Seq(S), NEW f \in S
  PROVE  /\ Append(q, f) \in Seq(S)
         /\ \A i \in DOMAIN Append(q, f) :
              \/ i \in DOMAIN q /\ Append(q, f)[i] = q[i]
              \/ i = Len(q) + 1 /\ i \notin DOMAIN q /\ Append(q, f)[i] = f
  OBVIOUS

\* The messages of a queue stay within a set: larger sets, tails, additions.
LEMMA WithinMore ==
  ASSUME NEW q, NEW S, NEW T, S \subseteq T, Within(q, S)
  PROVE  Within(q, T)
  BY DEF Within

LEMMA TailWithin ==
  ASSUME NEW q \in Seq(Frame), q # <<>>, NEW S, Within(q, S)
  PROVE  Head(q).n \in S /\ Within(Tail(q), S)
  BY TailFrames DEF Within

LEMMA AppendWithin ==
  ASSUME NEW q \in Seq(Frame), NEW f \in Frame, NEW S, f.n \in S, Within(q, S)
  PROVE  Within(Append(q, f), S)
  BY AppendFrames DEF Within

LEMMA EmptyWithin == \A S : Within(<<>>, S)
  BY DEF Within

LEMMA SpoiledWithin ==
  ASSUME NEW q \in Seq(Frame), NEW S, Within(q, S)
  PROVE  Within(Spoiled(q), S)
  BY SpoiledFrames DEF Within

-------------------------------------------------------------------------------
(* What dispatch() does to the frame queues. *)

\* Whatever route a frame takes, queues stay queues of frames and gain none
\* but a frame of the dispatched message.
LEMMA Dispatching ==
  ASSUME TypeOK, NEW n \in Nonces, Dispatch(n)
  PROVE  /\ toRelay' \in Seq(Frame) /\ wire' \in Seq(Frame) /\ toB' = toB
         /\ sent' \subseteq Nonces
         /\ \A S : n \in S /\ Within(toRelay, S) /\ Within(wire, S)
                   => Within(toRelay', S) /\ Within(wire', S)
<1> DEFINE f == [n |-> n, ok |-> (paired \/ hs = "half")]
<1>1. f \in Frame /\ f.n = n
  BY DEF TypeOK, Frame
<1>2. toB' = toB /\ sent' \subseteq Nonces
  BY DEF TypeOK, Dispatch
<1>3. toRelay \in Seq(Frame) /\ wire \in Seq(Frame)
  BY DEF TypeOK
<1>4. \/ wire' = Append(wire, f) /\ toRelay' = toRelay
      \/ wire' = wire /\ (toRelay' = Append(toRelay, f) \/ toRelay' = toRelay)
  BY DEF Dispatch
<1> HIDE DEF f
<1>5. toRelay' \in Seq(Frame) /\ wire' \in Seq(Frame)
  <2>1. Append(toRelay, f) \in Seq(Frame) /\ Append(wire, f) \in Seq(Frame)
    BY <1>1, <1>3, AppendFrames
  <2> QED
    BY <1>3, <1>4, <2>1
<1>6. ASSUME NEW S, n \in S, Within(toRelay, S), Within(wire, S)
      PROVE  Within(toRelay', S) /\ Within(wire', S)
  <2>1. Within(Append(toRelay, f), S) /\ Within(Append(wire, f), S)
    BY <1>1, <1>3, <1>6, AppendWithin
  <2> QED
    BY <1>4, <1>6, <2>1
<1> QED
  BY <1>2, <1>5, <1>6

-------------------------------------------------------------------------------
(* Type correctness. *)

\* The type invariant in two parts, for the provers: queues, and the rest.
Queues ==
  /\ peersDue \in Seq(BOOLEAN) /\ list \in Seq(Nonces)
  /\ toRelay \in Seq(Frame) /\ toB \in Seq(Frame) /\ wire \in Seq(Frame)

Simple ==
  /\ typed \subseteq Nonces /\ box \in BOOLEAN
  /\ sealing \subseteq Nonces /\ db \subseteq Nonces
  /\ drain \in [on : BOOLEAN, todo : SUBSET Nonces, putting : BOOLEAN]
  /\ flushDue \in BOOLEAN /\ sees \in BOOLEAN
  /\ up \in [Peers -> BOOLEAN] /\ ready \in [Peers -> BOOLEAN]
  /\ hs \in {"idle", "started", "half"}
  /\ paired \in BOOLEAN /\ direct \in BOOLEAN
  /\ seen \subseteq Nonces /\ refused \subseteq Nonces
  /\ shown \subseteq Nonces
  /\ ackDue \subseteq Nonces /\ acks \subseteq Nonces /\ acked \subseteq Nonces
  /\ sent \subseteq Nonces
  /\ faults \in 0..MaxFaults

LEMMA TypeParts == TypeOK <=> Queues /\ Simple
  BY DEF TypeOK, Queues, Simple

LEMMA QueuesStep ==
  ASSUME TypeOK, [Next]_vars
  PROVE  Queues'
<1> USE DEF sender, links, frames, relay, reader, acking
<1>1. ASSUME NEW n \in Nonces, TypeOffline(n)
      PROVE  Queues'
  BY <1>1, TypeParts DEF Queues, TypeOffline
<1>2. ASSUME NEW n \in Nonces, TypeLive(n)
      PROVE  Queues'
  <2>1. toRelay' \in Seq(Frame) /\ wire' \in Seq(Frame) /\ toB' = toB
         /\ sent' \subseteq Nonces
    BY <1>2, Dispatching DEF TypeLive
  <2> QED
    BY <1>2, TypeParts, <2>1 DEF Queues, TypeLive
<1>3. ASSUME NEW n \in Nonces, Put(n)
      PROVE  Queues'
  BY <1>3, TypeParts DEF Queues, Put
<1>4. ASSUME NEW n \in Nonces, ReceiveAck(n)
      PROVE  Queues'
  BY <1>4, TypeParts DEF Queues, ReceiveAck
<1>5. ASSUME NEW n \in Nonces, SendAck(n)
      PROVE  Queues'
  BY <1>5, TypeParts DEF Queues, SendAck
<1>6. ASSUME OpenBox
      PROVE  Queues'
  BY <1>6, TypeParts DEF Queues, OpenBox
<1>7. ASSUME Flush
      PROVE  Queues'
  BY <1>7, TypeParts DEF Queues, Flush
<1>8. ASSUME DrainSend
      PROVE  Queues'
  <2>1. toRelay' \in Seq(Frame) /\ wire' \in Seq(Frame) /\ toB' = toB
         /\ sent' \subseteq Nonces
    BY <1>8, TypeParts, Dispatching DEF DrainSend, Simple, Oldest
  <2> QED
    BY <1>8, TypeParts, <2>1 DEF Queues, DrainSend
<1>9. ASSUME DrainPut
      PROVE  Queues'
  BY <1>9, TypeParts DEF Queues, DrainPut
<1>10. ASSUME DrainEnd
      PROVE  Queues'
  BY <1>10, TypeParts DEF Queues, DrainEnd
<1>11. ASSUME RelayHandles
      PROVE  Queues'
  <2>1. Head(toRelay) \in Frame /\ Head(toRelay).n \in Nonces /\ Tail(toRelay) \in Seq(Frame)
    BY <1>11, TypeParts, HeadFrame DEF Queues, RelayHandles
  <2>2. Append(toB, Head(toRelay)) \in Seq(Frame)
    BY <2>1, TypeParts, AppendFrames DEF Queues
  <2> QED
    BY <1>11, TypeParts, <2>1, <2>2 DEF Queues, RelayHandles
<1>12. ASSUME RelayThrottles
      PROVE  Queues'
  <2>1. Head(toRelay) \in Frame /\ Head(toRelay).n \in Nonces /\ Tail(toRelay) \in Seq(Frame)
    BY <1>12, TypeParts, HeadFrame DEF Queues, RelayThrottles
  <2> QED
    BY <1>12, TypeParts, <2>1 DEF Queues, RelayThrottles
<1>13. ASSUME ReceiveRelayed
      PROVE  Queues'
  <2>1. Head(toB) \in Frame /\ Head(toB).n \in Nonces /\ Tail(toB) \in Seq(Frame)
    BY <1>13, TypeParts, HeadFrame DEF Queues, ReceiveRelayed
  <2>2. Append(list, Head(toB).n) \in Seq(Nonces)
    BY <2>1, TypeParts, AppendFrames DEF Queues
  <2> QED
    BY <1>13, TypeParts, <2>1, <2>2 DEF Queues, ReceiveRelayed, Read
<1>14. ASSUME ReceiveDirect
      PROVE  Queues'
  <2>1. Head(wire) \in Frame /\ Head(wire).n \in Nonces /\ Tail(wire) \in Seq(Frame)
    BY <1>14, TypeParts, HeadFrame DEF Queues, ReceiveDirect
  <2>2. Append(list, Head(wire).n) \in Seq(Nonces)
    BY <2>1, TypeParts, AppendFrames DEF Queues
  <2> QED
    BY <1>14, TypeParts, <2>1, <2>2 DEF Queues, ReceiveDirect, Read
<1>15. ASSUME NEW p \in Peers, Join(p)
      PROVE  Queues'
  <2>1. up'["B"] \in BOOLEAN
    BY <1>15, TypeParts DEF Join, Simple
  <2>2. Append(peersDue, up'["B"]) \in Seq(BOOLEAN)
    BY <2>1, TypeParts, AppendFrames DEF Queues
  <2>3. <<>> \in Seq(Frame)
    BY SMT
  <2> QED
    BY <1>15, TypeParts, <2>1, <2>2, <2>3 DEF Queues, Join
<1>16. ASSUME NEW reload \in BOOLEAN, LoseA(reload)
      PROVE  Queues'
  <2>1. <<>> \in Seq(BOOLEAN) /\ <<>> \in Seq(Frame)
    BY SMT
  <2> QED
    BY <1>16, TypeParts, <2>1 DEF Queues, LoseA
<1>17. ASSUME NEW reload \in BOOLEAN, LoseB(reload)
      PROVE  Queues'
  <2>1. <<>> \in Seq(Nonces) /\ <<>> \in Seq(Frame)
    BY SMT
  <2>2. Append(peersDue, FALSE) \in Seq(BOOLEAN)
    BY TypeParts, AppendFrames DEF Queues
  <2> QED
    BY <1>17, TypeParts, <2>1, <2>2 DEF Queues, LoseB
<1>18. ASSUME ReceivePeers
      PROVE  Queues'
  <2>1. <<>> \in Seq(Frame)
    BY SMT
  <2>2. Tail(peersDue) \in Seq(BOOLEAN)
    BY <1>18, TypeParts, TailFrames DEF Queues, ReceivePeers
  <2> QED
    BY <1>18, TypeParts, <2>1, <2>2 DEF Queues, ReceivePeers
<1>19. ASSUME Rekey
      PROVE  Queues'
  <2>1. Spoiled(wire) \in Seq(Frame)
    BY TypeParts, SpoiledFrames DEF Queues
  <2> QED
    BY <1>19, TypeParts, <2>1 DEF Queues, Rekey
<1>20. ASSUME Finalize
      PROVE  Queues'
  BY <1>20, TypeParts DEF Queues, Finalize
<1>21. ASSUME OpenDirect
      PROVE  Queues'
  BY <1>21, TypeParts DEF Queues, OpenDirect
<1>22. ASSUME CloseDirect
      PROVE  Queues'
  BY <1>22, TypeParts DEF Queues, CloseDirect
<1>23. CASE UNCHANGED vars
  BY TypeParts, <1>23 DEF Queues, vars
<1> QED
  BY <1>1, <1>2, <1>3, <1>4, <1>5, <1>6, <1>7, <1>8, <1>9, <1>10, <1>11, <1>12, <1>13, <1>14, <1>15, <1>16, <1>17, <1>18, <1>19, <1>20, <1>21, <1>22, <1>23 DEF Next, Type, Receive, Link

LEMMA SimpleStep ==
  ASSUME TypeOK, [Next]_vars
  PROVE  Simple'
<1> USE DEF sender, links, frames, relay, reader, acking
<1>1. ASSUME NEW n \in Nonces, TypeOffline(n)
      PROVE  Simple'
  BY <1>1, TypeParts DEF Simple, TypeOffline
<1>2. ASSUME NEW n \in Nonces, TypeLive(n)
      PROVE  Simple'
  <2>1. toRelay' \in Seq(Frame) /\ wire' \in Seq(Frame) /\ toB' = toB
         /\ sent' \subseteq Nonces
    BY <1>2, Dispatching DEF TypeLive
  <2> QED
    BY <1>2, TypeParts, <2>1 DEF Simple, TypeLive
<1>3. ASSUME NEW n \in Nonces, Put(n)
      PROVE  Simple'
  BY <1>3, TypeParts DEF Simple, Put
<1>4. ASSUME NEW n \in Nonces, ReceiveAck(n)
      PROVE  Simple'
  BY <1>4, TypeParts DEF Simple, ReceiveAck
<1>5. ASSUME NEW n \in Nonces, SendAck(n)
      PROVE  Simple'
  BY <1>5, TypeParts DEF Simple, SendAck
<1>6. ASSUME OpenBox
      PROVE  Simple'
  BY <1>6, TypeParts DEF Simple, OpenBox
<1>7. ASSUME Flush
      PROVE  Simple'
  BY <1>7, TypeParts DEF Simple, Flush
<1>8. ASSUME DrainSend
      PROVE  Simple'
  <2>1. toRelay' \in Seq(Frame) /\ wire' \in Seq(Frame) /\ toB' = toB
         /\ sent' \subseteq Nonces
    BY <1>8, TypeParts, Dispatching DEF Simple, DrainSend, Oldest
  <2> QED
    BY <1>8, TypeParts, <2>1 DEF Simple, DrainSend
<1>9. ASSUME DrainPut
      PROVE  Simple'
  BY <1>9, TypeParts DEF Simple, DrainPut, Oldest
<1>10. ASSUME DrainEnd
      PROVE  Simple'
  BY <1>10, TypeParts DEF Simple, DrainEnd
<1>11. ASSUME RelayHandles
      PROVE  Simple'
  <2>1. Head(toRelay) \in Frame /\ Head(toRelay).n \in Nonces /\ Tail(toRelay) \in Seq(Frame)
    BY <1>11, TypeParts, HeadFrame DEF Queues, RelayHandles
  <2> QED
    BY <1>11, TypeParts, <2>1 DEF Simple, RelayHandles
<1>12. ASSUME RelayThrottles
      PROVE  Simple'
  <2>1. faults' \in 0..MaxFaults
    BY <1>12, TypeParts, OutboxAssumption DEF Simple, RelayThrottles
  <2> QED
    BY <1>12, TypeParts, <2>1 DEF Simple, RelayThrottles
<1>13. ASSUME ReceiveRelayed
      PROVE  Simple'
  <2>1. Head(toB) \in Frame /\ Head(toB).n \in Nonces /\ Tail(toB) \in Seq(Frame)
    BY <1>13, TypeParts, HeadFrame DEF Queues, ReceiveRelayed
  <2> QED
    BY <1>13, TypeParts, <2>1 DEF Simple, ReceiveRelayed, Read
<1>14. ASSUME ReceiveDirect
      PROVE  Simple'
  <2>1. Head(wire) \in Frame /\ Head(wire).n \in Nonces /\ Tail(wire) \in Seq(Frame)
    BY <1>14, TypeParts, HeadFrame DEF Queues, ReceiveDirect
  <2> QED
    BY <1>14, TypeParts, <2>1 DEF Simple, ReceiveDirect, Read
<1>15. ASSUME NEW p \in Peers, Join(p)
      PROVE  Simple'
  BY <1>15, TypeParts DEF Simple, Join
<1>16. ASSUME NEW reload \in BOOLEAN, LoseA(reload)
      PROVE  Simple'
  <2>1. faults' \in 0..MaxFaults
    BY <1>16, TypeParts, OutboxAssumption DEF Simple, LoseA
  <2>2. paired' \in BOOLEAN /\ direct' \in BOOLEAN
    BY <1>16, TypeParts, Zenon DEF Simple, LoseA
  <2>3. up' \in [Peers -> BOOLEAN] /\ ready' \in [Peers -> BOOLEAN]
    BY <1>16, TypeParts DEF Simple, LoseA
  <2>4. drain' = Idle \/ drain' = drain
    BY <1>16 DEF LoseA
  <2>5. Idle \in [on : BOOLEAN, todo : SUBSET Nonces, putting : BOOLEAN]
    BY SMT
  <2>6. drain \in [on : BOOLEAN, todo : SUBSET Nonces, putting : BOOLEAN]
    BY TypeParts DEF Simple
  <2>7. drain' \in [on : BOOLEAN, todo : SUBSET Nonces, putting : BOOLEAN]
    BY <2>4, <2>5, <2>6
  <2>8. box' \in BOOLEAN /\ flushDue' \in BOOLEAN /\ sees' \in BOOLEAN
    BY <1>16, TypeParts, Zenon DEF Simple, LoseA
  <2>9. sealing' \subseteq Nonces /\ acks' \subseteq Nonces
    BY <1>16, TypeParts DEF Simple, LoseA
  <2> QED
    BY <1>16, TypeParts, <2>1, <2>2, <2>3, <2>4, <2>5, <2>6, <2>7, <2>8, <2>9 DEF Simple, LoseA
<1>17. ASSUME NEW reload \in BOOLEAN, LoseB(reload)
      PROVE  Simple'
  <2>1. faults' \in 0..MaxFaults
    BY <1>17, TypeParts, OutboxAssumption DEF Simple, LoseB
  <2>2. paired' \in BOOLEAN /\ direct' \in BOOLEAN
    BY <1>17, TypeParts, Zenon DEF Simple, LoseB
  <2> QED
    BY <1>17, TypeParts, <2>1, <2>2 DEF Simple, LoseB
<1>18. ASSUME ReceivePeers
      PROVE  Simple'
  <2>1. Head(peersDue) \in BOOLEAN
    BY <1>18, TypeParts, TailFrames DEF Queues, ReceivePeers
  <2> QED
    BY <1>18, TypeParts, <2>1 DEF Simple, ReceivePeers, Rearm, Secured
<1>19. ASSUME Rekey
      PROVE  Simple'
  BY <1>19, TypeParts DEF Simple, Rekey
<1>20. ASSUME Finalize
      PROVE  Simple'
  BY <1>20, TypeParts DEF Simple, Finalize, Rearm, Secured
<1>21. ASSUME OpenDirect
      PROVE  Simple'
  BY <1>21, TypeParts DEF Simple, OpenDirect
<1>22. ASSUME CloseDirect
      PROVE  Simple'
  <2>1. faults' \in 0..MaxFaults
    BY <1>22, TypeParts, OutboxAssumption DEF Simple, CloseDirect
  <2> QED
    BY <1>22, TypeParts, <2>1 DEF Simple, CloseDirect
<1>23. CASE UNCHANGED vars
  BY TypeParts, <1>23 DEF Simple, vars
<1> QED
  BY <1>1, <1>2, <1>3, <1>4, <1>5, <1>6, <1>7, <1>8, <1>9, <1>10, <1>11, <1>12, <1>13, <1>14, <1>15, <1>16, <1>17, <1>18, <1>19, <1>20, <1>21, <1>22, <1>23 DEF Next, Type, Receive, Link

-------------------------------------------------------------------------------
(* Where copies and receipts come from. *)

\* No step invents a message.
LEMMA ProvenanceStep ==
  ASSUME TypeOK, Provenance, [Next]_vars
  PROVE  Provenance'
<1> USE DEF sender, links, frames, relay, reader, acking
<1>1. ASSUME NEW n \in Nonces, TypeOffline(n)
      PROVE  Provenance'
  <2>1. Within(toRelay, typed') /\ Within(toB, typed') /\ Within(wire, typed')
    BY <1>1, WithinMore DEF Provenance, TypeOffline
  <2> QED
    BY <1>1, TypeParts, <2>1 DEF Provenance, TypeOffline
<1>2. ASSUME NEW n \in Nonces, TypeLive(n)
      PROVE  Provenance'
  <2>1. typed \subseteq typed' /\ n \in typed'
    BY <1>2 DEF TypeLive
  <2>2. Within(toRelay, typed') /\ Within(toB, typed') /\ Within(wire, typed')
    BY <2>1, WithinMore DEF Provenance
  <2>3. Within(toRelay', typed') /\ Within(wire', typed') /\ toB' = toB
    BY <1>2, <2>1, <2>2, Dispatching DEF TypeLive
  <2> QED
    BY <1>2, TypeParts, <2>1, <2>2, <2>3 DEF Provenance, TypeLive
<1>3. ASSUME NEW n \in Nonces, Put(n)
      PROVE  Provenance'
  BY <1>3, TypeParts DEF Provenance, Put
<1>4. ASSUME NEW n \in Nonces, ReceiveAck(n)
      PROVE  Provenance'
  BY <1>4, TypeParts DEF Provenance, ReceiveAck
<1>5. ASSUME NEW n \in Nonces, SendAck(n)
      PROVE  Provenance'
  BY <1>5, TypeParts DEF Provenance, SendAck
<1>6. ASSUME OpenBox
      PROVE  Provenance'
  BY <1>6, TypeParts DEF Provenance, OpenBox
<1>7. ASSUME Flush
      PROVE  Provenance'
  BY <1>7, TypeParts DEF Provenance, Simple, Flush
<1>8. ASSUME DrainSend
      PROVE  Provenance'
  <2>1. PICK n \in Oldest(drain.todo) : Dispatch(n)
    BY <1>8 DEF DrainSend
  <2>2. n \in Nonces /\ n \in typed
    BY TypeParts, <2>1 DEF Simple, Provenance, Oldest
  <2>3. Within(toRelay', typed) /\ Within(wire', typed) /\ toB' = toB
    BY <2>1, <2>2, Dispatching DEF Provenance
  <2> QED
    BY <1>8, TypeParts, <2>1, <2>2, <2>3 DEF Provenance, Simple, DrainSend
<1>9. ASSUME DrainPut
      PROVE  Provenance'
  BY <1>9, TypeParts DEF Provenance, Simple, Oldest, DrainPut
<1>10. ASSUME DrainEnd
      PROVE  Provenance'
  BY <1>10, TypeParts DEF Provenance, DrainEnd
<1>11. ASSUME RelayHandles
      PROVE  Provenance'
  <2>1. Head(toRelay).n \in typed /\ Within(Tail(toRelay), typed)
    BY <1>11, TypeParts, TailWithin DEF Queues, Provenance, RelayHandles
  <2>2. Head(toRelay) \in Frame
    BY <1>11, TypeParts, HeadFrame DEF Queues, RelayHandles
  <2>3. Within(Append(toB, Head(toRelay)), typed)
    BY TypeParts, <2>1, <2>2, AppendWithin DEF Queues, Provenance
  <2> QED
    BY <1>11, TypeParts, <2>1, <2>2, <2>3 DEF Provenance, RelayHandles
<1>12. ASSUME RelayThrottles
      PROVE  Provenance'
  <2>1. Head(toRelay).n \in typed /\ Within(Tail(toRelay), typed)
    BY <1>12, TypeParts, TailWithin DEF Queues, Provenance, RelayThrottles
  <2> QED
    BY <1>12, TypeParts, <2>1 DEF Provenance, RelayThrottles
<1>13. ASSUME ReceiveRelayed
      PROVE  Provenance'
  <2>1. Head(toB).n \in typed /\ Within(Tail(toB), typed)
    BY <1>13, TypeParts, TailWithin DEF Queues, Provenance, ReceiveRelayed
  <2> QED
    BY <1>13, TypeParts, <2>1 DEF Provenance, ReceiveRelayed, Read
<1>14. ASSUME ReceiveDirect
      PROVE  Provenance'
  <2>1. Head(wire).n \in typed /\ Within(Tail(wire), typed)
    BY <1>14, TypeParts, TailWithin DEF Queues, Provenance, ReceiveDirect
  <2> QED
    BY <1>14, TypeParts, <2>1 DEF Provenance, ReceiveDirect, Read
<1>15. ASSUME NEW p \in Peers, Join(p)
      PROVE  Provenance'
  <2>1. Within(<<>>, typed)
    BY EmptyWithin
  <2> QED
    BY <1>15, TypeParts, <2>1 DEF Provenance, Join
<1>16. ASSUME NEW reload \in BOOLEAN, LoseA(reload)
      PROVE  Provenance'
  <2>1. toRelay' = <<>> /\ toB' = toB /\ (wire' = wire \/ wire' = <<>>)
    BY <1>16 DEF LoseA
  <2>2. sealing' \subseteq sealing /\ db' = db /\ shown' = shown /\ typed' = typed
    BY <1>16 DEF LoseA
  <2>3. drain'.todo \subseteq drain.todo
    BY <1>16 DEF LoseA
  <2> QED
    BY <1>16, <2>1, <2>2, <2>3, <2>1, <2>2, <2>3, EmptyWithin DEF Provenance, vars
<1>17. ASSUME NEW reload \in BOOLEAN, LoseB(reload)
      PROVE  Provenance'
  <2>1. Within(<<>>, typed)
    BY EmptyWithin
  <2> QED
    BY <1>17, TypeParts, <2>1 DEF Provenance, LoseB
<1>18. ASSUME ReceivePeers
      PROVE  Provenance'
  <2>1. Within(<<>>, typed)
    BY EmptyWithin
  <2> QED
    BY <1>18, TypeParts, <2>1 DEF Provenance, ReceivePeers
<1>19. ASSUME Rekey
      PROVE  Provenance'
  <2>1. Within(Spoiled(wire), typed)
    BY TypeParts, SpoiledWithin DEF Queues, Provenance
  <2> QED
    BY <1>19, TypeParts, <2>1 DEF Provenance, Rekey
<1>20. ASSUME Finalize
      PROVE  Provenance'
  BY <1>20, TypeParts DEF Provenance, Finalize
<1>21. ASSUME OpenDirect
      PROVE  Provenance'
  BY <1>21, TypeParts DEF Provenance, OpenDirect
<1>22. ASSUME CloseDirect
      PROVE  Provenance'
  <2>1. Within(<<>>, typed)
    BY EmptyWithin
  <2> QED
    BY <1>22, TypeParts, <2>1 DEF Provenance, CloseDirect
<1>23. CASE UNCHANGED vars
  BY TypeParts, <1>23 DEF Provenance, vars
<1> QED
  BY <1>1, <1>2, <1>3, <1>4, <1>5, <1>6, <1>7, <1>8, <1>9, <1>10, <1>11, <1>12, <1>13, <1>14, <1>15, <1>16, <1>17, <1>18, <1>19, <1>20, <1>21, <1>22, <1>23 DEF Next, Type, Receive, Link

\* A receipt is written when, and only when, the message has been shown.
LEMMA ReceiptedStep ==
  ASSUME TypeOK, Receipted, [Next]_vars
  PROVE  Receipted'
<1> USE DEF sender, links, frames, relay, reader, acking
<1>1. ASSUME NEW n \in Nonces, TypeOffline(n)
      PROVE  Receipted'
  BY <1>1, TypeParts DEF Receipted, TypeOffline
<1>2. ASSUME NEW n \in Nonces, TypeLive(n)
      PROVE  Receipted'
  BY <1>2, TypeParts DEF Receipted, TypeLive, Dispatch
<1>3. ASSUME NEW n \in Nonces, Put(n)
      PROVE  Receipted'
  BY <1>3, TypeParts DEF Receipted, Put
<1>4. ASSUME NEW n \in Nonces, ReceiveAck(n)
      PROVE  Receipted'
  BY <1>4, TypeParts DEF Receipted, ReceiveAck
<1>5. ASSUME NEW n \in Nonces, SendAck(n)
      PROVE  Receipted'
  BY <1>5, TypeParts DEF Receipted, SendAck
<1>6. ASSUME OpenBox
      PROVE  Receipted'
  BY <1>6, TypeParts DEF Receipted, OpenBox
<1>7. ASSUME Flush
      PROVE  Receipted'
  BY <1>7, TypeParts DEF Receipted, Flush
<1>8. ASSUME DrainSend
      PROVE  Receipted'
  BY <1>8, TypeParts DEF Receipted, DrainSend, Dispatch
<1>9. ASSUME DrainPut
      PROVE  Receipted'
  BY <1>9, TypeParts DEF Receipted, DrainPut
<1>10. ASSUME DrainEnd
      PROVE  Receipted'
  BY <1>10, TypeParts DEF Receipted, DrainEnd
<1>11. ASSUME RelayHandles
      PROVE  Receipted'
  BY <1>11, TypeParts DEF Receipted, RelayHandles
<1>12. ASSUME RelayThrottles
      PROVE  Receipted'
  BY <1>12, TypeParts DEF Receipted, RelayThrottles
<1>13. ASSUME ReceiveRelayed
      PROVE  Receipted'
  BY <1>13, TypeParts DEF Receipted, ReceiveRelayed, Read
<1>14. ASSUME ReceiveDirect
      PROVE  Receipted'
  BY <1>14, TypeParts DEF Receipted, ReceiveDirect, Read
<1>15. ASSUME NEW p \in Peers, Join(p)
      PROVE  Receipted'
  BY <1>15, TypeParts DEF Receipted, Join
<1>16. ASSUME NEW reload \in BOOLEAN, LoseA(reload)
      PROVE  Receipted'
  BY <1>16, TypeParts DEF Receipted, LoseA
<1>17. ASSUME NEW reload \in BOOLEAN, LoseB(reload)
      PROVE  Receipted'
  BY <1>17, TypeParts DEF Receipted, LoseB
<1>18. ASSUME ReceivePeers
      PROVE  Receipted'
  BY <1>18, TypeParts DEF Receipted, ReceivePeers
<1>19. ASSUME Rekey
      PROVE  Receipted'
  BY <1>19, TypeParts DEF Receipted, Rekey
<1>20. ASSUME Finalize
      PROVE  Receipted'
  BY <1>20, TypeParts DEF Receipted, Finalize
<1>21. ASSUME OpenDirect
      PROVE  Receipted'
  BY <1>21, TypeParts DEF Receipted, OpenDirect
<1>22. ASSUME CloseDirect
      PROVE  Receipted'
  BY <1>22, TypeParts DEF Receipted, CloseDirect
<1>23. CASE UNCHANGED vars
  BY TypeParts, <1>23 DEF Receipted, vars
<1> QED
  BY <1>1, <1>2, <1>3, <1>4, <1>5, <1>6, <1>7, <1>8, <1>9, <1>10, <1>11, <1>12, <1>13, <1>14, <1>15, <1>16, <1>17, <1>18, <1>19, <1>20, <1>21, <1>22, <1>23 DEF Next, Type, Receive, Link

\* Appending what a sequence does not hold keeps its elements distinct.
LEMMA AppendOnce ==
  ASSUME NEW q \in Seq(Nonces), NEW n \in Nonces, n \notin Entries(q),
         \A i, j \in DOMAIN q : q[i] = q[j] => i = j
  PROVE  \A i, j \in DOMAIN Append(q, n) :
           Append(q, n)[i] = Append(q, n)[j] => i = j
  BY AppendFrames DEF Entries

\* The reader's list grows only by what it does not hold, and is emptied whole.
LEMMA ShownOnceStep ==
  ASSUME TypeOK, ShownOnce, [Next]_vars
  PROVE  ShownOnce'
<1> USE DEF sender, links, frames, relay, reader, acking
<1>1. ASSUME NEW n \in Nonces, TypeOffline(n)
      PROVE  ShownOnce'
  BY <1>1, TypeParts DEF ShownOnce, TypeOffline
<1>2. ASSUME NEW n \in Nonces, TypeLive(n)
      PROVE  ShownOnce'
  BY <1>2, TypeParts DEF ShownOnce, TypeLive, Dispatch
<1>3. ASSUME NEW n \in Nonces, Put(n)
      PROVE  ShownOnce'
  BY <1>3, TypeParts DEF ShownOnce, Put
<1>4. ASSUME NEW n \in Nonces, ReceiveAck(n)
      PROVE  ShownOnce'
  BY <1>4, TypeParts DEF ShownOnce, ReceiveAck
<1>5. ASSUME NEW n \in Nonces, SendAck(n)
      PROVE  ShownOnce'
  BY <1>5, TypeParts DEF ShownOnce, SendAck
<1>6. ASSUME OpenBox
      PROVE  ShownOnce'
  BY <1>6, TypeParts DEF ShownOnce, OpenBox
<1>7. ASSUME Flush
      PROVE  ShownOnce'
  BY <1>7, TypeParts DEF ShownOnce, Flush
<1>8. ASSUME DrainSend
      PROVE  ShownOnce'
  BY <1>8, TypeParts DEF ShownOnce, DrainSend, Dispatch
<1>9. ASSUME DrainPut
      PROVE  ShownOnce'
  BY <1>9, TypeParts DEF ShownOnce, DrainPut
<1>10. ASSUME DrainEnd
      PROVE  ShownOnce'
  BY <1>10, TypeParts DEF ShownOnce, DrainEnd
<1>11. ASSUME RelayHandles
      PROVE  ShownOnce'
  BY <1>11, TypeParts DEF ShownOnce, RelayHandles
<1>12. ASSUME RelayThrottles
      PROVE  ShownOnce'
  BY <1>12, TypeParts DEF ShownOnce, RelayThrottles
<1>13. ASSUME ReceiveRelayed
      PROVE  ShownOnce'
  <2>1. Head(toB) \in Frame /\ Head(toB).n \in Nonces /\ Tail(toB) \in Seq(Frame)
    BY <1>13, TypeParts, HeadFrame DEF Queues, ReceiveRelayed
  <2>2. list \in Seq(Nonces)
    BY TypeParts DEF Queues
  <2>3. list' = list \/ (list' = Append(list, Head(toB).n) /\ Head(toB).n \notin Entries(list))
    BY <1>13 DEF ReceiveRelayed, Read, reader
  <2>4. Head(toB).n \notin Entries(list) => \A i, j \in DOMAIN Append(list, Head(toB).n) : Append(list, Head(toB).n)[i] = Append(list, Head(toB).n)[j] => i = j
    BY <2>1, <2>2, AppendOnce DEF ShownOnce
  <2> QED
    BY <1>13, <2>1, <2>2, <2>3, <2>4 DEF ShownOnce, ShownOnce
<1>14. ASSUME ReceiveDirect
      PROVE  ShownOnce'
  <2>1. Head(wire) \in Frame /\ Head(wire).n \in Nonces /\ Tail(wire) \in Seq(Frame)
    BY <1>14, TypeParts, HeadFrame DEF Queues, ReceiveDirect
  <2>2. list \in Seq(Nonces)
    BY TypeParts DEF Queues
  <2>3. list' = list \/ (list' = Append(list, Head(wire).n) /\ Head(wire).n \notin Entries(list))
    BY <1>14 DEF ReceiveDirect, Read, reader
  <2>4. Head(wire).n \notin Entries(list) => \A i, j \in DOMAIN Append(list, Head(wire).n) : Append(list, Head(wire).n)[i] = Append(list, Head(wire).n)[j] => i = j
    BY <2>1, <2>2, AppendOnce DEF ShownOnce
  <2> QED
    BY <1>14, <2>1, <2>2, <2>3, <2>4 DEF ShownOnce, ShownOnce
<1>15. ASSUME NEW p \in Peers, Join(p)
      PROVE  ShownOnce'
  BY <1>15, TypeParts DEF ShownOnce, Join
<1>16. ASSUME NEW reload \in BOOLEAN, LoseA(reload)
      PROVE  ShownOnce'
  BY <1>16, TypeParts DEF ShownOnce, LoseA
<1>17. ASSUME NEW reload \in BOOLEAN, LoseB(reload)
      PROVE  ShownOnce'
  BY <1>17, TypeParts DEF ShownOnce, LoseB
<1>18. ASSUME ReceivePeers
      PROVE  ShownOnce'
  BY <1>18, TypeParts DEF ShownOnce, ReceivePeers
<1>19. ASSUME Rekey
      PROVE  ShownOnce'
  BY <1>19, TypeParts DEF ShownOnce, Rekey
<1>20. ASSUME Finalize
      PROVE  ShownOnce'
  BY <1>20, TypeParts DEF ShownOnce, Finalize
<1>21. ASSUME OpenDirect
      PROVE  ShownOnce'
  BY <1>21, TypeParts DEF ShownOnce, OpenDirect
<1>22. ASSUME CloseDirect
      PROVE  ShownOnce'
  BY <1>22, TypeParts DEF ShownOnce, CloseDirect
<1>23. CASE UNCHANGED vars
  BY TypeParts, <1>23 DEF ShownOnce, vars
<1> QED
  BY <1>1, <1>2, <1>3, <1>4, <1>5, <1>6, <1>7, <1>8, <1>9, <1>10, <1>11, <1>12, <1>13, <1>14, <1>15, <1>16, <1>17, <1>18, <1>19, <1>20, <1>21, <1>22, <1>23 DEF Next, Type, Receive, Link

-------------------------------------------------------------------------------
(* The theorems. *)

LEMMA Invariance == Spec => []IInv
<1>1. Init => IInv
  <2>1. Init => Queues
    BY DEF Init, Queues
  <2>2. Init => Simple
    <3> SUFFICES ASSUME Init PROVE Simple
      OBVIOUS
    <3>1. 0 \in 0..MaxFaults
      BY OutboxAssumption
    <3>2. Idle \in [on : BOOLEAN, todo : SUBSET Nonces, putting : BOOLEAN]
      OBVIOUS
    <3>3. drain \in [on : BOOLEAN, todo : SUBSET Nonces, putting : BOOLEAN]
      BY <3>2 DEF Init
    <3> QED
      BY <3>1, <3>3 DEF Init, Simple
  <2>3. Init => Provenance
    BY EmptyWithin DEF Init, Provenance
  <2>4. Init => Receipted /\ ShownOnce
    BY DEF Init, Receipted, ShownOnce
  <2> QED
    BY <2>1, <2>2, <2>3, <2>4, TypeParts DEF IInv
<1>2. IInv /\ [Next]_vars => IInv'
  <2> SUFFICES ASSUME IInv, [Next]_vars PROVE IInv'
    OBVIOUS
  <2>1. TypeOK /\ Provenance /\ Receipted /\ ShownOnce
    BY DEF IInv
  <2>2. TypeOK'
    <3>1. Queues' /\ Simple'
      BY <2>1, QueuesStep, SimpleStep
    <3> QED
      BY <3>1 DEF TypeOK, Queues, Simple
  <2>3. Provenance' /\ Receipted' /\ ShownOnce'
    BY <2>1, ProvenanceStep, ReceiptedStep, ShownOnceStep
  <2> QED
    BY <2>2, <2>3 DEF IInv
<1> QED
  BY <1>1, <1>2, PTL DEF Spec

\* Every variable keeps its type.
THEOREM TypeCorrect == Spec => []TypeOK
<1>1. IInv => TypeOK
  BY DEF IInv
<1> QED
  BY <1>1, Invariance, PTL

\* The reader never sees a message twice, whatever the number of copies the
\* relay, the data channel and the flushes bring it.
THEOREM NoDuplicates == Spec => []ShownOnce
<1>1. IInv => ShownOnce
  BY DEF IInv
<1> QED
  BY <1>1, Invariance, PTL

\* A message leaves the sender's offline queue only when the reader has seen it.
THEOREM KeptUntilShown == Spec => StoredUntilShown
<1>1. IInv /\ [Next]_vars => [\A n \in db \ db' : n \in shown]_vars
  <2> SUFFICES ASSUME IInv, Next PROVE \A n \in db \ db' : n \in shown
    OBVIOUS
  <2> USE DEF sender, links, frames, relay, reader, acking
  <2>1. CASE \E n \in Nonces : ReceiveAck(n)
    BY <2>1 DEF IInv, Receipted, ReceiveAck
  <2>2. CASE \E n \in Nonces : Type(n) \/ Put(n) \/ SendAck(n)
    BY <2>2 DEF Type, TypeOffline, TypeLive, Put, SendAck
  <2>3. CASE OpenBox \/ Flush \/ DrainSend \/ DrainPut \/ DrainEnd
    BY <2>3 DEF OpenBox, Flush, DrainSend, DrainPut, DrainEnd
  <2>4. CASE RelayHandles \/ RelayThrottles \/ Receive
    BY <2>4 DEF RelayHandles, RelayThrottles, Receive, ReceiveRelayed,
                ReceiveDirect
  <2>5. CASE Link
    BY <2>5 DEF Link, Join, LoseA, LoseB, ReceivePeers, Rekey, Finalize,
                OpenDirect, CloseDirect
  <2> QED
    BY <2>1, <2>2, <2>3, <2>4, <2>5 DEF Next
<1> QED
  BY <1>1, Invariance, PTL DEF Spec, StoredUntilShown

\* What an action does to the three sets the abstract delivery is about: one
\* message is typed, or one already typed is shown, or one already shown is
\* receipted, or nothing of this changes.
LEMMA StepEffect ==
  ASSUME IInv, Next
  PROVE  \/ \E n \in Nonces :
              \/ n \notin typed /\ typed' = typed \cup {n}
                 /\ UNCHANGED <<shown, acked>>
              \/ n \in typed /\ shown' = shown \cup {n}
                 /\ UNCHANGED <<typed, acked>>
              \/ n \in shown /\ acked' = acked \cup {n}
                 /\ UNCHANGED <<typed, shown>>
         \/ UNCHANGED <<typed, shown, acked>>
<1> USE DEF sender, links, frames, relay, reader, acking
<1>0. Queues
  BY TypeParts DEF IInv
<1>1. CASE \E n \in Nonces : Type(n)
  BY <1>1 DEF Type, TypeOffline, TypeLive
<1>2. CASE \E n \in Nonces : ReceiveAck(n)
  BY <1>2 DEF IInv, Receipted, ReceiveAck
<1>3. CASE ReceiveRelayed
  <2>1. Head(toB).n \in typed /\ Head(toB).n \in Nonces
    BY <1>0, <1>3, HeadFrame, TailWithin
       DEF IInv, Provenance, Queues, ReceiveRelayed
  <2> QED
    BY <1>3, <2>1 DEF ReceiveRelayed, Read
<1>4. CASE ReceiveDirect
  <2>1. Head(wire).n \in typed /\ Head(wire).n \in Nonces
    BY <1>0, <1>4, HeadFrame, TailWithin
       DEF IInv, Provenance, Queues, ReceiveDirect
  <2> QED
    BY <1>4, <2>1 DEF ReceiveDirect, Read
<1>5. CASE \E n \in Nonces : Put(n) \/ SendAck(n)
  BY <1>5 DEF Put, SendAck
<1>6. CASE OpenBox \/ Flush \/ DrainSend \/ DrainPut \/ DrainEnd
  BY <1>6 DEF OpenBox, Flush, DrainSend, DrainPut, DrainEnd
<1>7. CASE RelayHandles \/ RelayThrottles
  BY <1>7 DEF RelayHandles, RelayThrottles
<1>8. CASE Link
  BY <1>8 DEF Link, Join, LoseA, LoseB, ReceivePeers, Rekey, Finalize,
              OpenDirect, CloseDirect
<1> QED
  BY <1>1, <1>2, <1>3, <1>4, <1>5, <1>6, <1>7, <1>8 DEF Next, Receive

\* The queue, the flush, the relay, the data channel, the deduplication and the
\* receipts together implement AbstractDelivery: nothing unwritten is shown,
\* and nothing unseen is reported delivered.
THEOREM DeliveryImplemented == Spec => ImplementsDelivery
<1>1. Init => Delivery!Init
  BY DEF Init, Delivery!Init
<1>2. IInv /\ [Next]_vars => [Delivery!Next]_(Delivery!vars)
  <2> SUFFICES ASSUME IInv, [Next]_vars
               PROVE  [Delivery!Next]_(Delivery!vars)
    OBVIOUS
  <2>1. CASE UNCHANGED vars
    BY <2>1 DEF vars, sender, reader, acking, Delivery!vars
  <2>2. CASE Next
    BY <2>2, StepEffect
       DEF Delivery!Next, Delivery!vars, Delivery!Submit, Delivery!Show,
           Delivery!Settle
  <2> QED
    BY <2>1, <2>2
<1> QED
  BY <1>1, <1>2, Invariance, PTL DEF Spec, ImplementsDelivery, Delivery!Spec

-----------------------------------------------------------------------------
(* Whitelist.tla.  That a page pins only what its user wants, and that the  *)
(* pages agree on who is mutual, for any number of pages.                   *)

WlFrameKinds == {"wl-id", "wl-state", "request", "accept", "decline", "peers"}
WlFrames == [from : Members, kind : WlFrameKinds, to : Members, pinned : SUBSET Members]

\* WlFrames that may be on their way to p: of the handshake only what names p, a
\* request whose sender wants p, an acceptance by a page that p wants.
Due(p, w) == {f \in WlFrames :
    /\ f.kind \in {"request", "accept", "decline"} => f.to = p
    /\ f.kind = "request" => p \in w[f.from]
    /\ f.kind = "accept" => f.from \in w[p]}

\* What the effects last ran with does not matter here.
PageViews(i, s) ==
    [peers : SUBSET Members, keys : SUBSET Members, theirs : [Members -> SUBSET Members],
     mine : SUBSET Members, requests : SUBSET Members, dirty : BOOLEAN,
     idRan : {i}, stateRan : {s}]
IsView(v) == \E i, s : v \in PageViews(i, s)

WhitelistType ==
    /\ vault \subseteq Members /\ here \subseteq Members
    /\ book \in [Members -> SUBSET Members]
    /\ wanted \in [Members -> SUBSET Members]
    /\ view = [p \in Members |-> view[p]]
    /\ \A p \in Members : IsView(view[p])

WhitelistInv ==
    /\ WhitelistType
    /\ inbox \in [Members -> Seq(WlFrames)]
    /\ \A p \in Members : /\ inbox[p] \in Seq(Due(p, wanted))
                          /\ \A q \in view[p].requests : p \in wanted[q]
                          /\ book[p] \subseteq wanted[p]

\* What is due stays due while the users only come to want more.
LEMMA DueGrows ==
  ASSUME NEW w \in [Members -> SUBSET Members], NEW x \in [Members -> SUBSET Members],
         \A p \in Members : w[p] \subseteq x[p], NEW p \in Members,
         NEW s \in Seq(Due(p, w))
  PROVE  s \in Seq(Due(p, x))
<1>1. Due(p, w) \subseteq Due(p, x)
  BY DEF Due, WlFrames
<1> QED
  BY <1>1, SeqMonotonic

LEMMA WlFrameType ==
  ASSUME NEW p \in Members
  PROVE  /\ \A q \in Members, a \in {"request", "accept", "decline"} :
              /\ Action(p, q, a) \in WlFrames
              /\ Action(p, q, a).from = p /\ Action(p, q, a).to = q /\ Action(p, q, a).kind = a
         /\ wlId(p) \in WlFrames /\ wlId(p).kind = "wl-id"
         /\ \A s \in SUBSET Members :
              /\ wlState(p, s) \in WlFrames /\ wlState(p, s).kind = "wl-state"
              /\ peer_update(p, s) \in WlFrames /\ peer_update(p, s).kind = "peers"
              /\ peer_update(p, s).pinned = s
BY DEF Action, wlId, wlState, peer_update, WlFrame, WlFrames, WlFrameKinds

\* A frame without consequence for the whitelist is due everywhere.
LEMMA PlainDue ==
  ASSUME NEW p \in Members, NEW w, NEW f \in WlFrames, f.kind \in {"wl-id", "wl-state", "peers"}
  PROVE  f \in Due(p, w)
BY DEF Due

\* Whatever is due to a page is a frame.
LEMMA InboxOf ==
  ASSUME NEW mail, DOMAIN mail = Members, mail = [p \in Members |-> mail[p]],
         NEW w, \A q \in Members : mail[q] \in Seq(Due(q, w))
  PROVE  mail \in [Members -> Seq(WlFrames)]
<1>1. \A q \in Members : Due(q, w) \subseteq WlFrames
  BY DEF Due
<1>2. \A q \in Members : mail[q] \in Seq(WlFrames)
  BY <1>1, SeqMonotonic
<1> QED
  BY <1>2

LEMMA BroadcastDue ==
  ASSUME WhitelistInv, NEW p \in Members, NEW w \in [Members -> SUBSET Members],
         \A q \in Members : wanted[q] \subseteq w[q],
         NEW last \in Seq(WlFrames), NEW after \in Seq(WlFrames),
         \A q \in Members : /\ PassedOn(q, last) \in Seq(Due(q, w))
                            /\ PassedOn(q, after) \in Seq(Due(q, w)),
         inbox' = Broadcast(p, last, after)
  PROVE  /\ \A q \in Members : inbox'[q] \in Seq(Due(q, w))
         /\ inbox' \in [Members -> Seq(WlFrames)]
<1>1. ASSUME NEW q \in Members
      PROVE  inbox'[q] \in Seq(Due(q, w))
  <2>1. inbox[q] \in Seq(Due(q, w))
    BY DueGrows DEF WhitelistInv, WhitelistType
  <2> QED
    BY <2>1, ConcatProperties DEF Broadcast
<1>2. inbox' \in [Members -> Seq(WlFrames)]
  BY <1>1, InboxOf DEF Broadcast
<1> QED
  BY <1>1, <1>2

LEMMA PlainSequence ==
  ASSUME NEW p \in Members, NEW w, NEW f \in WlFrames, f.kind \in {"wl-id", "wl-state", "peers"}
  PROVE  PassedOn(p, <<f>>) \in Seq(Due(p, w)) /\ PassedOn(p, <<>>) \in Seq(Due(p, w))
<1>1. f \in Due(p, w)
  BY PlainDue
<1> QED
  BY <1>1 DEF PassedOn

LEMMA RenderedView ==
  ASSUME NEW v, IsView(v), NEW w,
         \E mine \in SUBSET Members : \E i, s :
            w = [v EXCEPT !.mine = mine, !.dirty = FALSE, !.idRan = i, !.stateRan = s]
  PROVE  IsView(w) /\ w.requests = v.requests
<1>4. PICK mine \in SUBSET Members : \E j, t :
         w = [v EXCEPT !.mine = mine, !.dirty = FALSE, !.idRan = j, !.stateRan = t]
  OBVIOUS
<1>1. PICK j, t : w = [v EXCEPT !.mine = mine, !.dirty = FALSE, !.idRan = j, !.stateRan = t]
  BY <1>4
<1>2. PICK i, s : v \in PageViews(i, s)
  BY DEF IsView
<1>3. w \in PageViews(j, t) /\ w.requests = v.requests
  BY <1>1, <1>2 DEF PageViews
<1> QED
  BY <1>3 DEF IsView

LEMMA ChangedView ==
  ASSUME NEW v, IsView(v), NEW w,
         \/ \E r \in SUBSET Members : w = [v EXCEPT !.requests = r]
         \/ w = [v EXCEPT !.dirty = TRUE]
         \/ \E r \in SUBSET Members : w = [v EXCEPT !.peers = r, !.dirty = TRUE]
         \/ \E r \in SUBSET Members, d \in BOOLEAN : w = [v EXCEPT !.keys = r, !.dirty = d]
         \/ \E q \in Members, r \in SUBSET Members : w = [v EXCEPT !.theirs[q] = r]
  PROVE  /\ IsView(w)
         /\ \/ w.requests = v.requests
            \/ \E r \in SUBSET Members : w = [v EXCEPT !.requests = r]
<1>1. PICK i, s : v \in PageViews(i, s)
  BY DEF IsView
<1>2. CASE \E r \in SUBSET Members : w = [v EXCEPT !.requests = r]
  <2>1. w \in PageViews(i, s)
    BY <1>1, <1>2 DEF PageViews
  <2> QED
    BY <1>2, <2>1 DEF IsView
<1>3. CASE w = [v EXCEPT !.dirty = TRUE]
  <2>1. w \in PageViews(i, s) /\ w.requests = v.requests
    BY <1>1, <1>3 DEF PageViews
  <2> QED
    BY <2>1 DEF IsView
<1>4. CASE \E r \in SUBSET Members : w = [v EXCEPT !.peers = r, !.dirty = TRUE]
  <2>1. w \in PageViews(i, s) /\ w.requests = v.requests
    BY <1>1, <1>4 DEF PageViews
  <2> QED
    BY <2>1 DEF IsView
<1>5. CASE \E r \in SUBSET Members, d \in BOOLEAN : w = [v EXCEPT !.keys = r, !.dirty = d]
  <2>1. w \in PageViews(i, s) /\ w.requests = v.requests
    BY <1>1, <1>5 DEF PageViews
  <2> QED
    BY <2>1 DEF IsView
<1>6. CASE \E q \in Members, r \in SUBSET Members : w = [v EXCEPT !.theirs[q] = r]
  <2>1. PICK q \in Members, r \in SUBSET Members : w = [v EXCEPT !.theirs[q] = r]
    BY <1>6
  <2>2. v.theirs \in [Members -> SUBSET Members]
    BY <1>1 DEF PageViews
  <2>3. PICK th \in [Members -> SUBSET Members] : th = [v.theirs EXCEPT ![q] = r]
    BY <2>2
  <2>4. w = [v EXCEPT !.theirs = th]
    BY <2>1, <2>3
  <2>5. w \in PageViews(i, s) /\ w.requests = v.requests
    BY <1>1, <2>4 DEF PageViews
  <2> QED
    BY <2>5 DEF IsView
<1> QED
  BY <1>2, <1>3, <1>4, <1>5, <1>6

LEMMA NewIsView == IsView(NewView) /\ NewView.requests = {}
<1>1. PICK i, s : i = <<FALSE, 0>> /\ s = <<FALSE, 0, {}>>
  OBVIOUS
<1>2. PICK th \in [Members -> SUBSET Members] : th = [q \in Members |-> {}]
  OBVIOUS
<1>3. PICK n : n = [peers |-> {}, keys |-> {}, theirs |-> th, mine |-> {}, requests |-> {},
                    dirty |-> TRUE, idRan |-> i, stateRan |-> s]
  OBVIOUS
<1>4. n \in PageViews(i, s) /\ n.requests = {}
  BY <1>3 DEF PageViews
<1>5. n = NewView
  BY <1>1, <1>2, <1>3 DEF NewView
<1> QED
  BY <1>4, <1>5 DEF IsView

LEMMA WhitelistStarts == WhitelistInit => WhitelistInv
<1> SUFFICES ASSUME WhitelistInit
             PROVE  WhitelistInv
  OBVIOUS
<1>1. /\ vault \subseteq Members /\ here \subseteq Members
      /\ book \in [Members -> SUBSET Members] /\ wanted = book
      /\ inbox \in [Members -> Seq(WlFrames)] /\ \A p \in Members : inbox[p] = <<>>
  BY MetArePages DEF WhitelistInit
<1>2. ASSUME NEW p \in Members
      PROVE  IsView(Introduced(p)) /\ Introduced(p).requests = {}
  <2>1. PICK of : of = [q \in Members |-> IF q \in Met THEN Met \ {q} ELSE {}]
    OBVIOUS
  <2>2. of \in [Members -> SUBSET Members] /\ of[p] \in SUBSET Members
    BY <2>1, MetArePages
  <2>3. PICK th \in [Members -> SUBSET Members] :
           th = [q \in Members |-> IF q = p THEN {} ELSE of[q]]
    BY <2>2
  <2>4. PICK i, s : i = <<TRUE, Cardinality(vault)>> /\ s = <<TRUE, Cardinality(vault), of[p]>>
    OBVIOUS
  <2>5. Introduced(p) =
          [NewView EXCEPT !.peers = vault, !.keys = vault \ {p}, !.mine = of[p], !.dirty = FALSE,
             !.theirs = th, !.idRan = i, !.stateRan = s]
    BY <2>1, <2>3, <2>4 DEF Introduced
  <2>6. PICK j, t : NewView \in PageViews(j, t) /\ NewView.requests = {}
    BY NewIsView DEF IsView
  <2>7. PICK n : n = NewView
    OBVIOUS
  <2>8. PICK m : m = [n EXCEPT !.peers = vault, !.keys = vault \ {p}, !.mine = of[p],
                        !.dirty = FALSE, !.theirs = th, !.idRan = i, !.stateRan = s]
    OBVIOUS
  <2>9. m \in PageViews(i, s) /\ m.requests = {}
    BY <1>1, <2>2, <2>6, <2>7, <2>8 DEF PageViews
  <2>10. Introduced(p) = m
    BY <2>5, <2>7, <2>8
  <2> QED
    BY <2>9, <2>10 DEF IsView
<1>3. \A p \in Members : view[p] = Introduced(p)
  BY DEF WhitelistInit
<1>4. view = [p \in Members |-> view[p]]
  BY DEF WhitelistInit
<1> QED
  BY <1>1, <1>2, <1>3, <1>4 DEF WhitelistInv, WhitelistType

LEMMA RenderKeeps ==
  ASSUME WhitelistInv, NEW p \in vault, Render(p)
  PROVE  WhitelistInv'
<1> DEFINE v == view[p]
           alone == p \notin here \/ Cardinality(v.peers) <= 1
           id == IF alone \/ v.idRan = IdDeps(p, v) THEN <<>> ELSE <<wlId(p)>>
           state == IF alone \/ v.stateRan = StateDeps(p, v) THEN <<>>
                    ELSE <<wlState(p, v.mine)>>
           mine == IF v.dirty THEN Pinned(p, v) ELSE v.mine
           w == [v EXCEPT !.mine = mine, !.dirty = FALSE, !.idRan = IdDeps(p, v),
                          !.stateRan = StateDeps(p, v)]
<1>1. /\ inbox' = Broadcast(p, id, state) /\ view' = [view EXCEPT ![p] = w]
      /\ UNCHANGED <<vault, here, book, wanted>>
  BY DEF Render
<1>2. p \in Members /\ IsView(v)
  BY DEF WhitelistInv, WhitelistType
<1>3. v.mine \in SUBSET Members /\ v.peers \in SUBSET Members
  BY <1>2 DEF IsView, PageViews
<1>4. wlId(p) \in WlFrames /\ wlState(p, v.mine) \in WlFrames
      /\ wlId(p).kind = "wl-id" /\ wlState(p, v.mine).kind = "wl-state"
  BY <1>2, <1>3, WlFrameType
<1>5. id \in Seq(WlFrames) /\ state \in Seq(WlFrames)
  BY <1>4
<1>6. \A q \in Members : /\ PassedOn(q, id) \in Seq(Due(q, wanted))
                         /\ PassedOn(q, state) \in Seq(Due(q, wanted))
  BY <1>4, PlainSequence
<1>7. mine \in SUBSET Members
  BY <1>3 DEF Pinned
<1> HIDE DEF id, state, mine
<1>8. \E m \in SUBSET Members : \E i, s :
         w = [v EXCEPT !.mine = m, !.dirty = FALSE, !.idRan = i, !.stateRan = s]
  BY <1>7
<1> HIDE DEF w, v
<1>11. IsView(w) /\ w.requests = v.requests
  BY <1>2, <1>8, RenderedView
<1>9. /\ \A q \in Members : inbox'[q] \in Seq(Due(q, wanted))
      /\ inbox' \in [Members -> Seq(WlFrames)]
  BY <1>1, <1>2, <1>5, <1>6, BroadcastDue DEF WhitelistInv, WhitelistType
<1>10. /\ view' = [q \in Members |-> view'[q]] /\ view'[p] = w
       /\ \A q \in Members \ {p} : view'[q] = view[q]
  BY <1>1, <1>2 DEF WhitelistInv, WhitelistType
<1> QED
  BY <1>1, <1>2, <1>11, <1>9, <1>10 DEF WhitelistInv, WhitelistType, v

\* What the relay passes on of one handshake frame.
LEMMA HandshakeSequence ==
  ASSUME NEW p \in Members, NEW q \in Members, NEW a \in {"request", "accept", "decline"},
         NEW r \in Members, NEW w,
         a = "request" => q \in w[p], a = "accept" => p \in w[q]
  PROVE  PassedOn(r, <<Action(p, q, a)>>) \in Seq(Due(r, w))
<1>1. PICK f : f = Action(p, q, a)
  OBVIOUS
<1>2. f \in WlFrames /\ f.from = p /\ f.to = q /\ f.kind = a
  BY <1>1, WlFrameType
<1>3. ASSUME Matters(r, f)
      PROVE  f \in Due(r, w)
  BY <1>2, <1>3 DEF Matters, ForMe, Due
<1>4. <<f>>[1] = f /\ <<f>> # <<>>
  OBVIOUS
<1>5. PassedOn(r, <<f>>) \in Seq(Due(r, w))
  BY <1>3, <1>4 DEF PassedOn
<1> QED
  BY <1>1, <1>5

LEMMA WantsGrow ==
  ASSUME WhitelistInv, NEW p \in Members, NEW q \in Members, Wants(p, q)
  PROVE  /\ wanted' \in [Members -> SUBSET Members] /\ q \in wanted'[p]
         /\ \A r \in Members : wanted[r] \subseteq wanted'[r]
BY DEF WhitelistInv, WhitelistType, Wants

\* The handshake of two pages, as the others have it in their queues afterwards.
LEMMA HandshakeDue ==
  ASSUME WhitelistInv, NEW p \in Members, NEW q \in Members,
         NEW a \in {"request", "accept", "decline"}, NEW w \in [Members -> SUBSET Members],
         \A r \in Members : wanted[r] \subseteq w[r],
         a = "request" => q \in w[p], a = "accept" => p \in w[q],
         inbox' = Broadcast(p, <<Action(p, q, a)>>, <<>>)
  PROVE  /\ \A r \in Members : inbox'[r] \in Seq(Due(r, w))
         /\ inbox' \in [Members -> Seq(WlFrames)]
<1>1. <<Action(p, q, a)>> \in Seq(WlFrames) /\ <<>> \in Seq(WlFrames)
  BY WlFrameType
<1>2. \A r \in Members : /\ PassedOn(r, <<Action(p, q, a)>>) \in Seq(Due(r, w))
                         /\ PassedOn(r, <<>>) \in Seq(Due(r, w))
  BY HandshakeSequence DEF PassedOn
<1> QED
  BY <1>1, <1>2, BroadcastDue

\* A page's view is replaced by one whose requests are wanted.
LEMMA ViewChanges ==
  ASSUME WhitelistInv, NEW p \in Members, NEW w, IsView(w),
         NEW x \in [Members -> SUBSET Members],
         \A r \in Members : wanted[r] \subseteq x[r],
         \A q \in w.requests : p \in x[q], w.requests \subseteq Members,
         view' = [view EXCEPT ![p] = w]
  PROVE  /\ view' = [r \in Members |-> view'[r]] /\ \A r \in Members : IsView(view'[r])
         /\ \A r \in Members : \A q \in view'[r].requests : r \in x[q]
<1>1. view'[p] = w /\ \A r \in Members \ {p} : view'[r] = view[r]
  BY DEF WhitelistInv, WhitelistType
<1>2. view' = [r \in Members |-> view'[r]]
  BY DEF WhitelistInv, WhitelistType
<1>3. \A r \in Members : view[r].requests \subseteq Members
  BY DEF WhitelistInv, WhitelistType, IsView, PageViews
<1>4. ASSUME NEW r \in Members, NEW q \in view'[r].requests
      PROVE  r \in x[q]
  BY <1>1, <1>3, <1>4 DEF WhitelistInv
<1> QED
  BY <1>1, <1>2, <1>4 DEF WhitelistInv, WhitelistType

LEMMA ViewsStay ==
  ASSUME WhitelistInv, view' = view, NEW x \in [Members -> SUBSET Members],
         \A r \in Members : wanted[r] \subseteq x[r]
  PROVE  /\ view' = [r \in Members |-> view'[r]] /\ \A r \in Members : IsView(view'[r])
         /\ \A r \in Members : \A q \in view'[r].requests : r \in x[q]
<1>1. \A r \in Members : view[r].requests \subseteq Members
  BY DEF WhitelistInv, WhitelistType, IsView, PageViews
<1> QED
  BY <1>1 DEF WhitelistInv, WhitelistType

LEMMA WlFrameKeeps ==
  ASSUME WhitelistInv, NEW p \in vault, onFrame(p)
  PROVE  WhitelistInv'
<1>1. p \in Members /\ inbox[p] # <<>> /\ inbox[p] \in Seq(Due(p, wanted))
  BY DEF WhitelistInv, WhitelistType, onFrame
<1>2. PICK f : f = Head(inbox[p])
  OBVIOUS
<1>3. f \in Due(p, wanted) /\ Tail(inbox[p]) \in Seq(Due(p, wanted))
  BY <1>1, <1>2, HeadTailProperties
<1>4. f \in WlFrames /\ f.from \in Members /\ f.pinned \subseteq Members
  BY <1>3 DEF Due, WlFrames
<1>5. inbox' = [inbox EXCEPT ![p] = Tail(@)] /\ UNCHANGED <<vault, here, wanted>>
  BY DEF onFrame
<1>6. \A r \in Members : inbox'[r] \in Seq(Due(r, wanted))
  BY <1>1, <1>3, <1>5 DEF WhitelistInv
<1>7. inbox' \in [Members -> Seq(WlFrames)]
  <2>1. DOMAIN inbox' = Members /\ inbox' = [r \in Members |-> inbox'[r]]
    BY <1>5 DEF WhitelistInv
  <2> QED
    BY <1>6, <2>1, InboxOf
<1>8. PICK v : v = view[p]
  OBVIOUS
<1>9. IsView(v) /\ v.requests \subseteq Members /\ v.keys \subseteq Members
      /\ v.dirty \in BOOLEAN /\ \A q \in v.requests : p \in wanted[q]
  BY <1>1, <1>8 DEF WhitelistInv, WhitelistType, IsView, PageViews
<1>10. PICK w : /\ view' = [view EXCEPT ![p] = w]
                /\ \/ w = [v EXCEPT !.peers = f.pinned, !.dirty = TRUE] /\ book' = book
                   \/ w = [v EXCEPT !.keys = @ \cup {f.from}, !.dirty = @ \/ f.from \notin v.keys]
                      /\ book' = book
                   \/ w = [v EXCEPT !.theirs[f.from] = f.pinned] /\ book' = book
                   \/ f.kind = "request" /\ w = [v EXCEPT !.requests = @ \cup {f.from}]
                      /\ book' = book
                   \/ f.kind = "accept" /\ w = [v EXCEPT !.dirty = TRUE]
                      /\ book' = [book EXCEPT ![p] = @ \cup {f.from}]
                   \/ w = [v EXCEPT !.requests = @ \ {f.from}] /\ book' = book
  BY <1>2, <1>8 DEF onFrame, whitelistFrame, upsertContact
<1>11. IsView(w) /\ w.requests \subseteq Members /\ \A q \in w.requests : p \in wanted[q]
  <2>1. CASE w = [v EXCEPT !.peers = f.pinned, !.dirty = TRUE]
    <3>1. IsView(w)
      BY <1>4, <1>9, <2>1, ChangedView
    <3>2. w.requests = v.requests
      BY <1>9, <2>1 DEF IsView, PageViews
    <3> QED
      BY <1>9, <3>1, <3>2
  <2>2. CASE w = [v EXCEPT !.keys = @ \cup {f.from}, !.dirty = @ \/ f.from \notin v.keys]
    <3>1. \E r \in SUBSET Members, d \in BOOLEAN : w = [v EXCEPT !.keys = r, !.dirty = d]
      BY <1>4, <1>9, <2>2
    <3>2. IsView(w)
      BY <1>9, <3>1, ChangedView
    <3>3. w.requests = v.requests
      BY <1>9, <3>1 DEF IsView, PageViews
    <3> QED
      BY <1>9, <3>2, <3>3
  <2>3. CASE w = [v EXCEPT !.theirs[f.from] = f.pinned]
    <3>1. IsView(w)
      BY <1>4, <1>9, <2>3, ChangedView
    <3>2. w.requests = v.requests
      BY <1>9, <2>3 DEF IsView, PageViews
    <3> QED
      BY <1>9, <3>1, <3>2
  <2>4. CASE f.kind = "request" /\ w = [v EXCEPT !.requests = @ \cup {f.from}]
    <3>1. v.requests \cup {f.from} \in SUBSET Members
      BY <1>4, <1>9
    <3>2. IsView(w)
      BY <1>9, <2>4, <3>1, ChangedView
    <3>3. w.requests = v.requests \cup {f.from}
      BY <1>9, <2>4 DEF IsView, PageViews
    <3>4. p \in wanted[f.from]
      BY <1>3, <2>4 DEF Due
    <3> QED
      BY <1>9, <3>1, <3>2, <3>3, <3>4
  <2>5. CASE w = [v EXCEPT !.dirty = TRUE]
    <3>1. IsView(w)
      BY <1>9, <2>5, ChangedView
    <3>2. w.requests = v.requests
      BY <1>9, <2>5 DEF IsView, PageViews
    <3> QED
      BY <1>9, <3>1, <3>2
  <2>6. CASE w = [v EXCEPT !.requests = @ \ {f.from}]
    <3>1. v.requests \ {f.from} \in SUBSET Members
      BY <1>9
    <3>2. IsView(w)
      BY <1>9, <2>6, <3>1, ChangedView
    <3>3. w.requests = v.requests \ {f.from}
      BY <1>9, <2>6 DEF IsView, PageViews
    <3> QED
      BY <1>9, <3>1, <3>2, <3>3
  <2> QED
    BY <1>10, <2>1, <2>2, <2>3, <2>4, <2>5, <2>6
<1>12. /\ view' = [r \in Members |-> view'[r]] /\ \A r \in Members : IsView(view'[r])
       /\ \A r \in Members : \A q \in view'[r].requests : r \in wanted[q]
  BY <1>1, <1>10, <1>11, ViewChanges DEF WhitelistInv, WhitelistType
<1>13. book' \in [Members -> SUBSET Members] /\ \A r \in Members : book'[r] \subseteq wanted[r]
  <2>1. f.kind = "accept" => f.from \in wanted[p]
    BY <1>3 DEF Due
  <2>2. book \in [Members -> SUBSET Members] /\ \A r \in Members : book[r] \subseteq wanted[r]
    BY DEF WhitelistInv, WhitelistType
  <2>3. book' = book \/ (f.kind = "accept" /\ book' = [book EXCEPT ![p] = @ \cup {f.from}])
    BY <1>10
  <2> QED
    BY <1>1, <1>4, <2>1, <2>2, <2>3
<1> QED
  BY <1>5, <1>6, <1>7, <1>12, <1>13 DEF WhitelistInv, WhitelistType

LEMMA RequestKeeps ==
  ASSUME WhitelistInv, NEW p \in vault, NEW q \in vault \ {p}, requestWhitelist(p, q)
  PROVE  WhitelistInv'
<1>1. p \in Members /\ q \in Members
  BY DEF WhitelistInv, WhitelistType
<1>2. /\ inbox' = Broadcast(p, <<Action(p, q, "request")>>, <<>>) /\ Wants(p, q)
      /\ UNCHANGED <<vault, here, book, view>>
  BY DEF requestWhitelist
<1>3. PICK x : x = wanted'
  OBVIOUS
<1>4. x \in [Members -> SUBSET Members] /\ q \in x[p] /\ \A r \in Members : wanted[r] \subseteq x[r]
  BY <1>1, <1>2, <1>3, WantsGrow
<1>5. \A r \in Members : inbox'[r] \in Seq(Due(r, x))
  BY <1>1, <1>2, <1>4, HandshakeDue
<1>6. inbox' \in [Members -> Seq(WlFrames)]
  BY <1>1, <1>2, <1>4, HandshakeDue
<1>7. /\ view' = [r \in Members |-> view'[r]] /\ \A r \in Members : IsView(view'[r])
      /\ \A r \in Members : \A s \in view'[r].requests : r \in x[s]
  BY <1>2, <1>4, ViewsStay
<1>8. book' \in [Members -> SUBSET Members] /\ \A r \in Members : book'[r] \subseteq x[r]
  BY <1>2, <1>4 DEF WhitelistInv, WhitelistType
<1> QED
  BY <1>2, <1>3, <1>4, <1>5, <1>6, <1>7, <1>8 DEF WhitelistInv, WhitelistType

LEMMA AcceptKeeps ==
  ASSUME WhitelistInv, NEW p \in vault, NEW q \in vault \ {p}, acceptWhitelist(p, q)
  PROVE  WhitelistInv'
<1>1. p \in Members /\ q \in Members
  BY DEF WhitelistInv, WhitelistType
<1>2. /\ inbox' = Broadcast(p, <<Action(p, q, "accept")>>, <<>>) /\ Wants(p, q)
      /\ book' = [book EXCEPT ![p] = @ \cup {q}] /\ q \in view[p].requests
      /\ view' = [view EXCEPT ![p].requests = @ \ {q}, ![p].dirty = TRUE]
      /\ UNCHANGED <<vault, here>>
  BY DEF acceptWhitelist, upsertContact
<1>3. PICK x : x = wanted'
  OBVIOUS
<1>4. x \in [Members -> SUBSET Members] /\ q \in x[p] /\ \A r \in Members : wanted[r] \subseteq x[r]
  BY <1>1, <1>2, <1>3, WantsGrow
<1>5. p \in x[q]
  BY <1>1, <1>2, <1>4 DEF WhitelistInv
<1>6. \A r \in Members : inbox'[r] \in Seq(Due(r, x))
  BY <1>1, <1>2, <1>4, <1>5, HandshakeDue
<1>7. inbox' \in [Members -> Seq(WlFrames)]
  BY <1>1, <1>2, <1>4, <1>5, HandshakeDue
<1>8. PICK v : v = view[p]
  OBVIOUS
<1>9. PICK u : u = [v EXCEPT !.requests = @ \ {q}]
  OBVIOUS
<1>10. PICK w : w = [u EXCEPT !.dirty = TRUE]
  OBVIOUS
<1>11. view' = [view EXCEPT ![p] = w]
  <2>1. view = [r \in Members |-> view[r]]
    BY DEF WhitelistInv, WhitelistType
  <2> QED
    BY <1>1, <1>2, <1>8, <1>9, <1>10, <2>1
<1>12. IsView(v) /\ v.requests \subseteq Members /\ \A s \in v.requests : p \in wanted[s]
  BY <1>1, <1>8 DEF WhitelistInv, WhitelistType, IsView, PageViews
<1>13. IsView(u)
  <2>1. v.requests \ {q} \in SUBSET Members
    BY <1>12
  <2> QED
    BY <1>9, <1>12, <2>1, ChangedView
<1>14. IsView(w)
  BY <1>10, <1>13, ChangedView
<1>15. w.requests = v.requests \ {q}
  <2>1. u.requests = v.requests \ {q}
    BY <1>9, <1>12 DEF IsView, PageViews
  <2>2. w.requests = u.requests
    BY <1>10, <1>13 DEF IsView, PageViews
  <2> QED
    BY <2>1, <2>2
<1>16. w.requests \subseteq Members /\ \A s \in w.requests : p \in x[s]
  BY <1>4, <1>12, <1>15
<1>17. /\ view' = [r \in Members |-> view'[r]] /\ \A r \in Members : IsView(view'[r])
       /\ \A r \in Members : \A s \in view'[r].requests : r \in x[s]
  BY <1>1, <1>4, <1>11, <1>14, <1>16, ViewChanges
<1>18. book' \in [Members -> SUBSET Members] /\ \A r \in Members : book'[r] \subseteq x[r]
  BY <1>1, <1>2, <1>4 DEF WhitelistInv, WhitelistType
<1> QED
  BY <1>2, <1>3, <1>4, <1>6, <1>7, <1>17, <1>18 DEF WhitelistInv, WhitelistType

LEMMA DeclineKeeps ==
  ASSUME WhitelistInv, NEW p \in vault, NEW q \in vault \ {p}, declineWhitelist(p, q)
  PROVE  WhitelistInv'
<1>1. p \in Members /\ q \in Members /\ wanted \in [Members -> SUBSET Members]
  BY DEF WhitelistInv, WhitelistType
<1>2. /\ inbox' = Broadcast(p, <<Action(p, q, "decline")>>, <<>>)
      /\ view' = [view EXCEPT ![p].requests = @ \ {q}]
      /\ UNCHANGED <<vault, here, book, wanted>>
  BY DEF declineWhitelist
<1>3. /\ \A r \in Members : inbox'[r] \in Seq(Due(r, wanted))
      /\ inbox' \in [Members -> Seq(WlFrames)]
  BY <1>1, <1>2, HandshakeDue
<1>4. PICK v : v = view[p]
  OBVIOUS
<1>5. PICK w : w = [v EXCEPT !.requests = @ \ {q}]
  OBVIOUS
<1>6. view' = [view EXCEPT ![p] = w]
  BY <1>1, <1>2, <1>4, <1>5 DEF WhitelistInv, WhitelistType
<1>7. IsView(v) /\ v.requests \subseteq Members /\ \A s \in v.requests : p \in wanted[s]
  BY <1>1, <1>4 DEF WhitelistInv, WhitelistType, IsView, PageViews
<1>8. IsView(w)
  <2>1. v.requests \ {q} \in SUBSET Members
    BY <1>7
  <2> QED
    BY <1>5, <1>7, <2>1, ChangedView
<1>9. w.requests = v.requests \ {q}
  BY <1>5, <1>7 DEF IsView, PageViews
<1>10. /\ view' = [r \in Members |-> view'[r]] /\ \A r \in Members : IsView(view'[r])
       /\ \A r \in Members : \A s \in view'[r].requests : r \in wanted[s]
  BY <1>1, <1>6, <1>7, <1>8, <1>9, ViewChanges
<1> QED
  BY <1>2, <1>3, <1>10 DEF WhitelistInv, WhitelistType

LEMMA PinKeeps ==
  ASSUME WhitelistInv, NEW p \in vault, NEW q \in vault \ {p},
         pinFromTrustLink(p, q) \/ revokeContact(p, q)
  PROVE  WhitelistInv'
<1>1. p \in Members /\ q \in Members
  BY DEF WhitelistInv, WhitelistType
<1>2. UNCHANGED <<vault, here, inbox, view>>
  BY DEF pinFromTrustLink, revokeContact
<1>3. PICK x : x = wanted'
  OBVIOUS
<1>4. /\ x \in [Members -> SUBSET Members] /\ \A r \in Members : wanted[r] \subseteq x[r]
      /\ book' \in [Members -> SUBSET Members] /\ \A r \in Members : book'[r] \subseteq x[r]
  <2>1. CASE pinFromTrustLink(p, q)
    BY <1>1, <1>3, <2>1, WantsGrow
       DEF pinFromTrustLink, upsertContact, WhitelistInv, WhitelistType
  <2>2. CASE revokeContact(p, q)
    BY <1>1, <1>3, <2>2 DEF revokeContact, WhitelistInv, WhitelistType
  <2> QED
    BY <2>1, <2>2
<1>5. \A r \in Members : inbox'[r] \in Seq(Due(r, x))
  BY <1>2, <1>4, DueGrows DEF WhitelistInv, WhitelistType
<1>6. inbox' \in [Members -> Seq(WlFrames)]
  BY <1>2 DEF WhitelistInv
<1>7. /\ view' = [r \in Members |-> view'[r]] /\ \A r \in Members : IsView(view'[r])
      /\ \A r \in Members : \A s \in view'[r].requests : r \in x[s]
  BY <1>2, <1>4, ViewsStay
<1> QED
  BY <1>2, <1>3, <1>4, <1>5, <1>6, <1>7 DEF WhitelistInv, WhitelistType

\* The relay tells everyone present who is there.
LEMMA ToldDue ==
  ASSUME NEW mail \in [Members -> Seq(WlFrames)], NEW present \in SUBSET Members,
         NEW w, \A r \in Members : mail[r] \in Seq(Due(r, w)),
         inbox' = Told(mail, present)
  PROVE  /\ \A r \in Members : inbox'[r] \in Seq(Due(r, w))
         /\ inbox' \in [Members -> Seq(WlFrames)]
<1>1. ASSUME NEW r \in Members
      PROVE  inbox'[r] \in Seq(Due(r, w))
  <2>1. peer_update(r, present) \in Due(r, w)
    BY WlFrameType, PlainDue
  <2>2. Append(mail[r], peer_update(r, present)) \in Seq(Due(r, w))
    BY <2>1, AppendProperties
  <2> QED
    BY <2>2 DEF Told
<1>2. inbox' = [r \in Members |-> inbox'[r]] /\ DOMAIN inbox' = Members
  BY DEF Told
<1> QED
  BY <1>1, <1>2, InboxOf

LEMMA PageLeaves ==
  ASSUME WhitelistInv, NEW p \in vault, Leave(p)
  PROVE  WhitelistInv'
<1>1. p \in Members /\ wanted \in [Members -> SUBSET Members]
  BY DEF WhitelistInv, WhitelistType
<1>2. PICK h : h = here'
  OBVIOUS
<1>3. PICK mail : mail = [inbox EXCEPT ![p] = <<>>]
  OBVIOUS
<1>4. /\ h = here \ {p} /\ inbox' = Told(mail, h)
      /\ UNCHANGED <<vault, book, wanted>>
      /\ view' = view \/ view' = [view EXCEPT ![p] = NewView]
  BY <1>2, <1>3 DEF Leave
<1>5. h \in SUBSET Members
  BY <1>4 DEF WhitelistInv, WhitelistType
<1>6. mail \in [Members -> Seq(WlFrames)] /\ \A r \in Members : mail[r] \in Seq(Due(r, wanted))
  BY <1>1, <1>3 DEF WhitelistInv
<1>7. /\ \A r \in Members : inbox'[r] \in Seq(Due(r, wanted))
      /\ inbox' \in [Members -> Seq(WlFrames)]
  BY <1>4, <1>5, <1>6, ToldDue
<1>8. /\ view' = [r \in Members |-> view'[r]] /\ \A r \in Members : IsView(view'[r])
      /\ \A r \in Members : \A s \in view'[r].requests : r \in wanted[s]
  <2>1. CASE view' = view
    BY <1>1, <2>1, ViewsStay
  <2>2. CASE view' = [view EXCEPT ![p] = NewView]
    <3>1. \A q \in NewView.requests : p \in wanted[q]
      BY NewIsView
    <3>2. NewView.requests \subseteq Members
      BY NewIsView
    <3> QED
      BY <1>1, <2>2, <3>1, <3>2, NewIsView, ViewChanges
  <2> QED
    BY <1>4, <2>1, <2>2
<1> QED
  BY <1>2, <1>4, <1>5, <1>7, <1>8 DEF WhitelistInv, WhitelistType

LEMMA PageJoins ==
  ASSUME WhitelistInv, NEW p \in vault, Rejoin(p)
  PROVE  WhitelistInv'
<1>1. p \in Members /\ wanted \in [Members -> SUBSET Members]
  BY DEF WhitelistInv, WhitelistType
<1>2. PICK h : h = here'
  OBVIOUS
<1>3. /\ h = here \cup {p} /\ inbox' = Told(inbox, h)
      /\ UNCHANGED <<vault, book, view, wanted>>
  BY <1>2 DEF Rejoin
<1>4. h \in SUBSET Members
  BY <1>1, <1>3 DEF WhitelistInv, WhitelistType
<1>5. /\ \A r \in Members : inbox'[r] \in Seq(Due(r, wanted))
      /\ inbox' \in [Members -> Seq(WlFrames)]
  BY <1>3, <1>4, ToldDue DEF WhitelistInv
<1> QED
  BY <1>2, <1>3, <1>4, <1>5 DEF WhitelistInv, WhitelistType

LEMMA WhitelistKeeps == WhitelistInv /\ [WhitelistNext]_whitelist => WhitelistInv'
<1> SUFFICES ASSUME WhitelistInv, [WhitelistNext]_whitelist
             PROVE  WhitelistInv'
  OBVIOUS
<1>1. CASE \E p \in vault : Render(p) \/ onFrame(p) \/ Leave(p) \/ Rejoin(p)
  BY <1>1, RenderKeeps, WlFrameKeeps, PageLeaves, PageJoins
<1>2. CASE \E p \in vault : \E q \in vault \ {p} :
          \/ requestWhitelist(p, q) \/ acceptWhitelist(p, q) \/ declineWhitelist(p, q)
          \/ pinFromTrustLink(p, q) \/ revokeContact(p, q)
  BY <1>2, RequestKeeps, AcceptKeeps, DeclineKeeps, PinKeeps
<1>3. CASE UNCHANGED whitelist
  BY <1>3 DEF whitelist, WhitelistInv, WhitelistType
<1> QED
  BY <1>1, <1>2, <1>3 DEF WhitelistNext

\* PinsAreWanted: no reordering of requests, reloads and answers makes a page pin
\* a key its user did not want (useRelay's whitelist handlers, contacts-store).
THEOREM OnlyWantedPinned == WhitelistSpec => []PinsAreWanted
<1>1. WhitelistInv => PinsAreWanted
  BY DEF WhitelistInv, PinsAreWanted
<1> QED
  BY <1>1, WhitelistStarts, WhitelistKeeps, PTL DEF WhitelistSpec

(* What mutual is: two pages come to know what the other has pinned *)

Rosters == {f \in WlFrames : f.kind = "peers"}
StatesOf(q) == {f \in WlFrames : f.kind = "wl-state" /\ f.from = q}

\* Whoever knows k and reads s knows x then: the last frame of s in T says it.
LastIs(s, T, k, x) ==
    \/ k = x /\ \A i \in 1..Len(s) : s[i] \notin T
    \/ \E i \in 1..Len(s) : /\ s[i] \in T /\ s[i].pinned = x
                            /\ \A j \in 1..Len(s) : j > i => s[j] \notin T

\* Of the rosters that the page shows and will show, one has not n pages.
Differs(s, peers, n) ==
    \/ Cardinality(peers) # n
    \/ \E i \in 1..Len(s) : s[i].kind = "peers" /\ Cardinality(s[i].pinned) # n
Keyed(s, keys, q) ==
    q \in keys \/ \E i \in 1..Len(s) : s[i].kind = "wl-id" /\ s[i].from = q

\* A page announces itself when it comes to be there and when the number of the
\* others changes: box and v are its queue and view, ran the effect's dependencies.
Again(mail, v, ran) == ran[1] # TRUE \/ Differs(mail, v.peers, ran[2])

\* What q announced last is known to a page with queue mail and view v, or is on its
\* way, or q will announce it again.
HeardBy(q, mail, v, itsBox, w) ==
    /\ Again(itsBox, w, w.stateRan) \/ LastIs(mail, StatesOf(q), v.theirs[q], w.stateRan[3])
    /\ Again(itsBox, w, w.idRan) \/ Keyed(mail, v.keys, q)
Heard(p, q) == HeardBy(q, inbox[p], view[p], inbox[q], view[q])

RostersTrue == \A p \in here : LastIs(inbox[p], Rosters, view[p].peers, here)
Stated == \A p, q \in Members : \E x : LastIs(inbox[p], StatesOf(q), view[p].theirs[q], x)
AllHeard == \A p \in here : \A q \in here \ {p} : Heard(p, q)
MineTrue == ~elsewhere => \A p \in vault : ~view[p].dirty => view[p].mine = Pinned(p, view[p])

MutualInv == here \subseteq vault /\ RostersTrue /\ Stated /\ AllHeard /\ MineTrue

LEMMA AppendedFrame ==
  ASSUME NEW s \in Seq(WlFrames), NEW f \in WlFrames
  PROVE  \E t \in Seq(WlFrames) : /\ t = Append(s, f) /\ Len(t) = Len(s) + 1 /\ t[Len(s) + 1] = f
                                  /\ \A i \in 1..Len(s) : t[i] = s[i]
<1>1. PICK t : t = Append(s, f)
  OBVIOUS
<1>2. t \in Seq(WlFrames) /\ Len(t) = Len(s) + 1 /\ t[Len(s) + 1] = f
  BY <1>1
<1>3. \A i \in 1..Len(s) : t[i] = s[i]
  BY <1>1
<1> QED
  BY <1>1, <1>2, <1>3

LEMMA ReadFrame ==
  ASSUME NEW s \in Seq(WlFrames), s # <<>>
  PROVE  \E t \in Seq(WlFrames), f \in WlFrames :
            /\ t = Tail(s) /\ f = Head(s) /\ f = s[1]
            /\ Len(s) \in Nat /\ Len(s) >= 1 /\ Len(t) = Len(s) - 1
            /\ \A i \in 1..Len(t) : t[i] = s[i + 1]
<1>1. /\ Head(s) \in WlFrames /\ Tail(s) \in Seq(WlFrames) /\ Len(Tail(s)) = Len(s) - 1
      /\ \A i \in 1..Len(Tail(s)) : Tail(s)[i] = s[i + 1]
  BY HeadTailProperties
<1>2. Head(s) = s[1] /\ Len(s) \in Nat /\ Len(s) >= 1
  BY EmptySeq
<1> QED
  BY <1>1, <1>2

LEMMA LastAppended ==
  ASSUME NEW s \in Seq(WlFrames), NEW f \in WlFrames, NEW T, NEW k, NEW x
  PROVE  /\ f \in T => LastIs(Append(s, f), T, k, f.pinned)
         /\ f \notin T /\ LastIs(s, T, k, x) => LastIs(Append(s, f), T, k, x)
<1>1. PICK t \in Seq(WlFrames) : /\ t = Append(s, f) /\ Len(t) = Len(s) + 1 /\ t[Len(s) + 1] = f
                                 /\ \A i \in 1..Len(s) : t[i] = s[i]
  BY AppendedFrame
<1>2. Len(s) \in Nat
  OBVIOUS
<1>3. ASSUME f \in T
      PROVE  LastIs(t, T, k, f.pinned)
  <2>1. Len(s) + 1 \in 1..Len(t) /\ \A j \in 1..Len(t) : ~(j > Len(s) + 1)
    BY <1>1, <1>2
  <2> QED
    BY <1>1, <1>3, <2>1 DEF LastIs
<1>4. ASSUME f \notin T, LastIs(s, T, k, x)
      PROVE  LastIs(t, T, k, x)
  <2>1. CASE k = x /\ \A i \in 1..Len(s) : s[i] \notin T
    <3>1. \A i \in 1..Len(t) : t[i] \notin T
      BY <1>1, <1>2, <1>4, <2>1
    <3> QED
      BY <2>1, <3>1 DEF LastIs
  <2>2. CASE \E i \in 1..Len(s) : /\ s[i] \in T /\ s[i].pinned = x
                                  /\ \A j \in 1..Len(s) : j > i => s[j] \notin T
    <3>1. PICK i \in 1..Len(s) : /\ s[i] \in T /\ s[i].pinned = x
                                 /\ \A j \in 1..Len(s) : j > i => s[j] \notin T
      BY <2>2
    <3>2. i \in 1..Len(t) /\ t[i] = s[i]
      BY <1>1, <1>2
    <3>3. \A j \in 1..Len(t) : j > i => t[j] \notin T
      BY <1>1, <1>2, <1>4, <3>1
    <3> QED
      BY <3>1, <3>2, <3>3 DEF LastIs
  <2> QED
    BY <1>4, <2>1, <2>2 DEF LastIs
<1> QED
  BY <1>1, <1>3, <1>4

LEMMA LastRead ==
  ASSUME NEW s \in Seq(WlFrames), s # <<>>, NEW T, NEW k, NEW x, LastIs(s, T, k, x)
  PROVE  LastIs(Tail(s), T, IF Head(s) \in T THEN Head(s).pinned ELSE k, x)
<1>1. PICK t \in Seq(WlFrames), f \in WlFrames :
            /\ t = Tail(s) /\ f = Head(s) /\ f = s[1]
            /\ Len(s) \in Nat /\ Len(s) >= 1 /\ Len(t) = Len(s) - 1
            /\ \A i \in 1..Len(t) : t[i] = s[i + 1]
  BY ReadFrame
<1>2. PICK l : l = IF f \in T THEN f.pinned ELSE k
  OBVIOUS
<1>3. LastIs(t, T, l, x)
  <2>1. CASE k = x /\ \A i \in 1..Len(s) : s[i] \notin T
    <3>1. l = x
      BY <1>1, <1>2, <2>1
    <3>2. \A i \in 1..Len(t) : t[i] \notin T
      BY <1>1, <2>1
    <3> QED
      BY <3>1, <3>2 DEF LastIs
  <2>2. CASE \E i \in 1..Len(s) : /\ s[i] \in T /\ s[i].pinned = x
                                  /\ \A j \in 1..Len(s) : j > i => s[j] \notin T
    <3>1. PICK i \in 1..Len(s) : /\ s[i] \in T /\ s[i].pinned = x
                                 /\ \A j \in 1..Len(s) : j > i => s[j] \notin T
      BY <2>2
    <3>2. CASE i = 1
      <4>1. l = x
        BY <1>1, <1>2, <3>1, <3>2
      <4>2. \A j \in 1..Len(t) : t[j] \notin T
        BY <1>1, <3>1, <3>2
      <4> QED
        BY <4>1, <4>2 DEF LastIs
    <3>3. CASE i > 1
      <4>1. i - 1 \in 1..Len(t) /\ t[i - 1] = s[i]
        BY <1>1, <3>3
      <4>2. \A j \in 1..Len(t) : j > i - 1 => t[j] \notin T
        BY <1>1, <3>1, <3>3
      <4> QED
        BY <3>1, <4>1, <4>2 DEF LastIs
    <3> QED
      BY <1>1, <3>2, <3>3
  <2> QED
    BY <2>1, <2>2 DEF LastIs
<1> QED
  BY <1>1, <1>2, <1>3

LEMMA MoreAwaited ==
  ASSUME NEW s \in Seq(WlFrames), NEW f \in WlFrames
  PROVE  /\ \A peers, n : Differs(s, peers, n) => Differs(Append(s, f), peers, n)
         /\ \A keys, q : Keyed(s, keys, q) => Keyed(Append(s, f), keys, q)
         /\ \A keys : f.kind = "wl-id" => Keyed(Append(s, f), keys, f.from)
<1>1. PICK t \in Seq(WlFrames) : /\ t = Append(s, f) /\ Len(t) = Len(s) + 1 /\ t[Len(s) + 1] = f
                                 /\ \A i \in 1..Len(s) : t[i] = s[i]
  BY AppendedFrame
<1>2. Len(s) \in Nat
  OBVIOUS
<1>3. \A i \in 1..Len(s) : i \in 1..Len(t)
  BY <1>1, <1>2
<1>4. ASSUME NEW peers, NEW n, Differs(s, peers, n)
      PROVE  Differs(t, peers, n)
  BY <1>1, <1>3, <1>4 DEF Differs
<1>5. ASSUME NEW keys, NEW q, Keyed(s, keys, q)
      PROVE  Keyed(t, keys, q)
  BY <1>1, <1>3, <1>5 DEF Keyed
<1>6. Len(t) \in 1..Len(t)
  BY <1>1, <1>2
<1>7. ASSUME NEW keys, f.kind = "wl-id"
      PROVE  Keyed(t, keys, f.from)
  BY <1>1, <1>6, <1>7 DEF Keyed
<1> QED
  BY <1>1, <1>4, <1>5, <1>7

\* The page shows the roster it reads and knows the key it reads.
LEMMA ReadOn ==
  ASSUME NEW s \in Seq(WlFrames), s # <<>>
  PROVE  /\ \A peers, n :
              Differs(s, peers, n) /\ Cardinality(peers) = n
                => Differs(Tail(s), IF Head(s).kind = "peers" THEN Head(s).pinned ELSE peers, n)
         /\ \A keys, q :
              Keyed(s, keys, q)
                => Keyed(Tail(s), IF Head(s).kind = "wl-id" THEN keys \cup {Head(s).from} ELSE keys, q)
<1>1. PICK t \in Seq(WlFrames), f \in WlFrames :
            /\ t = Tail(s) /\ f = Head(s) /\ f = s[1]
            /\ Len(s) \in Nat /\ Len(s) >= 1 /\ Len(t) = Len(s) - 1
            /\ \A i \in 1..Len(t) : t[i] = s[i + 1]
  BY ReadFrame
<1>2. \A i \in 1..Len(s) : i # 1 => i - 1 \in 1..Len(t) /\ t[i - 1] = s[i]
  BY <1>1
<1>3. ASSUME NEW peers, NEW n, Differs(s, peers, n), Cardinality(peers) = n
      PROVE  Differs(t, IF f.kind = "peers" THEN f.pinned ELSE peers, n)
  <2>1. PICK i \in 1..Len(s) : s[i].kind = "peers" /\ Cardinality(s[i].pinned) # n
    BY <1>3 DEF Differs
  <2>2. PICK now : now = IF f.kind = "peers" THEN f.pinned ELSE peers
    OBVIOUS
  <2>3. CASE i = 1
    <3>1. now = f.pinned /\ Cardinality(f.pinned) # n
      BY <1>1, <2>1, <2>2, <2>3
    <3> QED
      BY <2>2, <3>1 DEF Differs
  <2>4. CASE i # 1
    <3>1. i - 1 \in 1..Len(t) /\ t[i - 1] = s[i]
      BY <1>2, <2>4
    <3> QED
      BY <2>1, <3>1 DEF Differs
  <2> QED
    BY <2>3, <2>4
<1>4. ASSUME NEW keys, NEW q, Keyed(s, keys, q)
      PROVE  Keyed(t, IF f.kind = "wl-id" THEN keys \cup {f.from} ELSE keys, q)
  <2>1. PICK now : now = IF f.kind = "wl-id" THEN keys \cup {f.from} ELSE keys
    OBVIOUS
  <2>2. CASE q \in keys
    BY <2>1, <2>2 DEF Keyed
  <2>3. CASE q \notin keys
    <3>1. PICK i \in 1..Len(s) : s[i].kind = "wl-id" /\ s[i].from = q
      BY <1>4, <2>3 DEF Keyed
    <3>2. CASE i = 1
      <4>1. q \in now
        BY <1>1, <2>1, <3>1, <3>2
      <4> QED
        BY <2>1, <4>1 DEF Keyed
    <3>3. CASE i # 1
      <4>1. i - 1 \in 1..Len(t) /\ t[i - 1] = s[i]
        BY <1>2, <3>3
      <4> QED
        BY <3>1, <4>1 DEF Keyed
    <3> QED
      BY <3>2, <3>3
  <2> QED
    BY <2>2, <2>3
<1> QED
  BY <1>1, <1>3, <1>4

\* A page that will show n pages, and whose effect ran with another number.
LEMMA WillDiffer ==
  ASSUME NEW s, NEW peers, NEW now, LastIs(s, Rosters, peers, now), NEW n, Cardinality(now) # n
  PROVE  Differs(s, peers, n)
<1>1. CASE peers = now
  BY <1>1 DEF Differs
<1>2. CASE \E i \in 1..Len(s) : s[i] \in Rosters /\ s[i].pinned = now
  BY <1>2 DEF Differs, Rosters
<1> QED
  BY <1>1, <1>2 DEF LastIs

\* A frame that comes to a queue, if any, is none in T.
Grown(mail, after, T) == \/ after = mail
                        \/ \E f \in WlFrames : f \notin T /\ after = Append(mail, f)
SameSight(v, w) == /\ w.peers = v.peers /\ w.keys = v.keys /\ w.theirs = v.theirs
                   /\ w.idRan = v.idRan /\ w.stateRan = v.stateRan

LEMMA LastGrown ==
  ASSUME NEW s \in Seq(WlFrames), NEW t, NEW T, Grown(s, t, T), NEW k, NEW x, LastIs(s, T, k, x)
  PROVE  LastIs(t, T, k, x)
BY LastAppended DEF Grown

LEMMA HeardGrown ==
  ASSUME NEW q, NEW b \in Seq(WlFrames), NEW c, NEW v, NEW w, NEW d \in Seq(WlFrames), NEW e,
         NEW x, NEW y, HeardBy(q, b, v, d, x), Grown(b, c, StatesOf(q)), w.keys = v.keys,
         w.theirs = v.theirs, Grown(d, e, StatesOf(q)), SameSight(x, y)
  PROVE  HeardBy(q, c, w, e, y)
<1>1. \A ran : Again(d, x, ran) => Again(e, y, ran)
  <2>1. \A n : Differs(d, x.peers, n) => Differs(e, y.peers, n)
    BY MoreAwaited DEF Grown, SameSight
  <2> QED
    BY <2>1 DEF Again
<1>2. \A z : LastIs(b, StatesOf(q), v.theirs[q], z) => LastIs(c, StatesOf(q), w.theirs[q], z)
  BY LastGrown
<1>3. Keyed(b, v.keys, q) => Keyed(c, w.keys, q)
  BY MoreAwaited DEF Grown
<1> QED
  BY <1>1, <1>2, <1>3 DEF HeardBy, SameSight

LEMMA WillKnowLast ==
  ASSUME NEW p \in Members, NEW q \in Members, NEW x, inbox[p] \in Seq(WlFrames),
         LastIs(inbox[p], StatesOf(q), view[p].theirs[q], x)
  PROVE  WillKnow(p, q) = x
<1> DEFINE Tells(i) == inbox[p][i].kind = "wl-state" /\ inbox[p][i].from = q
           last == {i \in DOMAIN inbox[p] : /\ Tells(i)
                                           /\ \A j \in DOMAIN inbox[p] : Tells(j) => j <= i}
<1>1. /\ DOMAIN inbox[p] = 1..Len(inbox[p]) /\ Len(inbox[p]) \in Nat
      /\ \A i \in 1..Len(inbox[p]) : Tells(i) <=> inbox[p][i] \in StatesOf(q)
  BY ElementOfSeq, LenProperties DEF StatesOf
<1>2. WillKnow(p, q) = IF last = {} THEN view[p].theirs[q] ELSE inbox[p][CHOOSE i \in last : TRUE].pinned
  BY DEF WillKnow
<1>3. CASE view[p].theirs[q] = x /\ \A i \in 1..Len(inbox[p]) : inbox[p][i] \notin StatesOf(q)
  <2>1. last = {}
    BY <1>1, <1>3
  <2> QED
    BY <1>2, <1>3, <2>1
<1>4. CASE \E i \in 1..Len(inbox[p]) :
              /\ inbox[p][i] \in StatesOf(q) /\ inbox[p][i].pinned = x
              /\ \A j \in 1..Len(inbox[p]) : j > i => inbox[p][j] \notin StatesOf(q)
  <2>1. PICK i \in 1..Len(inbox[p]) :
              /\ inbox[p][i] \in StatesOf(q) /\ inbox[p][i].pinned = x
              /\ \A j \in 1..Len(inbox[p]) : j > i => inbox[p][j] \notin StatesOf(q)
    BY <1>4
  <2>2. i \in last
    BY <1>1, <2>1
  <2>3. \A j \in last : j = i
    BY <1>1, <2>1, <2>2
  <2>4. (CHOOSE j \in last : TRUE) = i
    <3> HIDE DEF last
    <3> QED
      BY <2>2, <2>3
  <2> QED
    BY <1>2, <2>1, <2>2, <2>4
<1> QED
  BY <1>3, <1>4 DEF LastIs

LEMMA PassedBox ==
  ASSUME NEW b \in Seq(WlFrames), NEW q
  PROVE  /\ \A f \in WlFrames : b \o PassedOn(q, <<f>>) = IF Matters(q, f) THEN Append(b, f) ELSE b
         /\ b \o PassedOn(q, <<>>) = b
<1>1. b \o <<>> = b
  BY ConcatEmptySeq
<1>2. ASSUME NEW f \in WlFrames
      PROVE  b \o PassedOn(q, <<f>>) = IF Matters(q, f) THEN Append(b, f) ELSE b
  <2>1. <<f>>[1] = f /\ <<f>> # <<>>
    OBVIOUS
  <2>2. b \o <<f>> = Append(b, f)
    BY AppendIsConcat
  <2>3. PassedOn(q, <<f>>) = IF Matters(q, f) THEN <<f>> ELSE <<>>
    BY <2>1 DEF PassedOn
  <2> QED
    BY <1>1, <2>2, <2>3
<1> QED
  BY <1>1, <1>2 DEF PassedOn

\* A step that tells nobody who is there or what is pinned.
LEMMA QuietStep ==
  ASSUME WhitelistInv, here \subseteq vault, RostersTrue, Stated, AllHeard,
         here' = here, vault' = vault,
         \A r \in Members : /\ SameSight(view[r], view'[r])
                            /\ Grown(inbox[r], inbox'[r], Rosters)
                            /\ \A q \in Members : Grown(inbox[r], inbox'[r], StatesOf(q))
  PROVE  here' \subseteq vault' /\ RostersTrue' /\ Stated' /\ AllHeard'
<1>1. here \subseteq Members /\ \A r \in Members : inbox[r] \in Seq(WlFrames)
  BY DEF WhitelistInv, WhitelistType
<1>2. ASSUME NEW p \in here
      PROVE  LastIs(inbox'[p], Rosters, view'[p].peers, here)
  <2>1. view'[p].peers = view[p].peers /\ LastIs(inbox[p], Rosters, view[p].peers, here)
    BY <1>1 DEF RostersTrue, SameSight
  <2> QED
    BY <1>1, <2>1, LastGrown
<1>3. ASSUME NEW p \in Members, NEW q \in Members
      PROVE  \E x : LastIs(inbox'[p], StatesOf(q), view'[p].theirs[q], x)
  <2>1. PICK x : LastIs(inbox[p], StatesOf(q), view[p].theirs[q], x)
    BY DEF Stated
  <2>2. view'[p].theirs[q] = view[p].theirs[q]
    BY DEF SameSight
  <2>3. inbox[p] \in Seq(WlFrames) /\ Grown(inbox[p], inbox'[p], StatesOf(q))
    BY <1>1
  <2>4. LastIs(inbox'[p], StatesOf(q), view[p].theirs[q], x)
    BY ONLY <2>1, <2>3, LastGrown
  <2>5. LastIs(inbox'[p], StatesOf(q), view'[p].theirs[q], x)
    BY <2>2, <2>4
  <2> QED
    BY <2>5
<1>4. ASSUME NEW p \in here, NEW q \in here \ {p}
      PROVE  Heard(p, q)'
  <2>1. HeardBy(q, inbox[p], view[p], inbox[q], view[q])
    BY DEF AllHeard, Heard
  <2>2. p \in Members /\ q \in Members
    BY <1>1
  <2>3. HeardBy(q, inbox'[p], view'[p], inbox'[q], view'[q])
    BY <1>1, <2>1, <2>2, HeardGrown DEF SameSight
  <2> QED
    BY <2>3 DEF Heard
<1> QED
  BY <1>2, <1>3, <1>4 DEF RostersTrue, Stated, AllHeard

LEMMA HandshakeGrows ==
  ASSUME WhitelistInv, NEW p \in Members, NEW q \in Members,
         NEW a \in {"request", "accept", "decline"},
         inbox' = Broadcast(p, <<Action(p, q, a)>>, <<>>)
  PROVE  \A r \in Members : /\ Grown(inbox[r], inbox'[r], Rosters)
                            /\ \A s \in Members : Grown(inbox[r], inbox'[r], StatesOf(s))
<1>1. PICK f \in WlFrames : f = Action(p, q, a) /\ f.kind = a
  BY WlFrameType
<1>2. f \notin Rosters /\ \A s : f \notin StatesOf(s)
  BY <1>1 DEF Rosters, StatesOf
<1>3. ASSUME NEW r \in Members
      PROVE  inbox'[r] = inbox[r] \/ inbox'[r] = Append(inbox[r], f)
  <2>1. inbox[r] \in Seq(WlFrames)
    BY DEF WhitelistInv
  <2>2. inbox[r] \o PassedOn(r, <<f>>) \in {inbox[r], Append(inbox[r], f)}
    BY <2>1, PassedBox
  <2>3. PICK b : b = inbox[r] \o PassedOn(r, <<f>>)
    OBVIOUS
  <2>4. b \in Seq(WlFrames)
    <3>1. Append(inbox[r], f) \in Seq(WlFrames)
      BY <2>1
    <3> QED
      BY <2>1, <2>2, <2>3, <3>1
  <2>5. b \o PassedOn(r, <<>>) = b
    BY <2>4, PassedBox
  <2>6. inbox'[r] = IF r \in here \ {p} THEN b \o PassedOn(r, <<>>) ELSE inbox[r]
    BY <1>1, <2>3 DEF Broadcast
  <2> QED
    BY <2>2, <2>3, <2>5, <2>6
<1> QED
  BY <1>2, <1>3 DEF Grown

LEMMA Announcement ==
  ASSUME NEW p \in Members, NEW s \in SUBSET Members
  PROVE  /\ wlId(p) \in WlFrames /\ wlId(p).kind = "wl-id" /\ wlId(p).from = p
         /\ wlState(p, s) \in WlFrames /\ wlState(p, s).kind = "wl-state"
         /\ wlState(p, s).from = p /\ wlState(p, s).pinned = s
BY DEF wlId, wlState, WlFrame, WlFrames, WlFrameKinds

\* What the two effects of p add to the queue of r.
Gains(p, r, i, s, id, state, now) ==
    \E b \in Seq(WlFrames) :
        /\ b = inbox[r] \/ b = Append(inbox[r], i)
        /\ now = b \/ now = Append(b, s)
        /\ r \notin here \ {p} => now = inbox[r]
        /\ r \in here \ {p} /\ id = <<i>> => p \in view[r].keys \/ b = Append(inbox[r], i)
        /\ r \in here \ {p} /\ state = <<s>>
              => s.pinned = WillKnow(r, p) \/ now = Append(b, s)

LEMMA AnnounceGrows ==
  ASSUME WhitelistInv, NEW p \in Members, NEW i \in WlFrames, NEW s \in WlFrames,
         NEW id \in {<<>>, <<i>>}, NEW state \in {<<>>, <<s>>},
         i.kind = "wl-id", i.from = p, s.kind = "wl-state", s.from = p,
         inbox' = Broadcast(p, id, state), NEW r \in Members
  PROVE  Gains(p, r, i, s, id, state, inbox'[r])
<1>1. inbox[r] \in Seq(WlFrames)
  BY DEF WhitelistInv
<1>2. CASE r \notin here \ {p}
  <2>1. inbox'[r] = inbox[r]
    BY <1>2 DEF Broadcast
  <2> QED
    BY <1>1, <1>2, <2>1 DEF Gains
<1>3. CASE r \in here \ {p}
  <2>1. PICK b : b = inbox[r] \o PassedOn(r, id)
    OBVIOUS
  <2>2. inbox'[r] = b \o PassedOn(r, state)
    BY <1>3, <2>1 DEF Broadcast
  <2>3. /\ b = inbox[r] \/ b = Append(inbox[r], i)
        /\ id = <<i>> => p \in view[r].keys \/ b = Append(inbox[r], i)
    <3>1. CASE id = <<>>
      <4>1. b = inbox[r]
        BY <1>1, <2>1, <3>1, PassedBox
      <4>2. <<i>> # <<>>
        OBVIOUS
      <4> QED
        BY <3>1, <4>1, <4>2
    <3>2. CASE id = <<i>>
      <4>1. b = IF Matters(r, i) THEN Append(inbox[r], i) ELSE inbox[r]
        BY <1>1, <2>1, <3>2, PassedBox
      <4>2. Matters(r, i) \/ p \in view[r].keys
        BY DEF Matters
      <4> QED
        BY <4>1, <4>2
    <3> QED
      BY <3>1, <3>2
  <2>4. b \in Seq(WlFrames)
    <3>1. Append(inbox[r], i) \in Seq(WlFrames)
      BY <1>1
    <3> QED
      BY <1>1, <2>3, <3>1
  <2>5. /\ inbox'[r] = b \/ inbox'[r] = Append(b, s)
        /\ state = <<s>> => s.pinned = WillKnow(r, p) \/ inbox'[r] = Append(b, s)
    <3>1. CASE state = <<>>
      <4>1. inbox'[r] = b
        BY <2>2, <2>4, <3>1, PassedBox
      <4>2. <<s>> # <<>>
        OBVIOUS
      <4> QED
        BY <3>1, <4>1, <4>2
    <3>2. CASE state = <<s>>
      <4>1. inbox'[r] = IF Matters(r, s) THEN Append(b, s) ELSE b
        BY <2>2, <2>4, <3>2, PassedBox
      <4>2. Matters(r, s) \/ s.pinned = WillKnow(r, p)
        BY DEF Matters
      <4> QED
        BY <4>1, <4>2
    <3> QED
      BY <3>1, <3>2
  <2> QED
    BY <1>3, <2>3, <2>4, <2>5 DEF Gains
<1> QED
  BY <1>2, <1>3

LEMMA CountPages ==
  ASSUME NEW S \in SUBSET Members
  PROVE  /\ Cardinality(S) \in Nat
         /\ \A p, q \in S : p # q => Cardinality(S) > 1
         /\ \A p \in Members \ S : Cardinality(S \cup {p}) = Cardinality(S) + 1
<1>1. IsFiniteSet(S)
  BY FewPages, FS_Subset
<1>2. Cardinality(S) \in Nat /\ (Cardinality(S) = 0 <=> S = {})
  BY <1>1, FS_CardinalityType, FS_EmptySet
<1>3. Cardinality(S) = 1 => \E x : S = {x}
  BY <1>1, FS_Singleton
<1>4. \A p \in Members \ S : Cardinality(S \cup {p}) = Cardinality(S) + 1
  BY <1>1, FS_AddElement
<1> QED
  BY <1>2, <1>3, <1>4

\* A page that is not alone although its roster says so will show another.
LEMMA AloneAwaits ==
  ASSUME WhitelistInv, RostersTrue, NEW p \in here, NEW r \in here, r # p,
         Cardinality(view[p].peers) <= 1
  PROVE  Differs(inbox[p], view[p].peers, Cardinality(view[p].peers))
<1>1. here \in SUBSET Members /\ p \in Members
  BY DEF WhitelistInv, WhitelistType
<1>2. view[p].peers \in SUBSET Members
  BY <1>1 DEF WhitelistInv, WhitelistType, IsView, PageViews
<1>3. Cardinality(here) > 1 /\ Cardinality(here) \in Nat /\ Cardinality(view[p].peers) \in Nat
  BY <1>1, <1>2, CountPages
<1>4. LastIs(inbox[p], Rosters, view[p].peers, here)
  BY DEF RostersTrue
<1>5. Cardinality(here) # Cardinality(view[p].peers)
  BY <1>3
<1> QED
  BY <1>4, <1>5, WillDiffer

\* After the effects have run, what they announced is known, on its way, or will be
\* announced again.
LEMMA RenderHeard ==
  ASSUME WhitelistInv, MutualInv, NEW p \in vault, Render(p)
  PROVE  MutualInv'
<1> DEFINE idd == <<p \in here, Cardinality(view[p].peers)>>
           std == <<p \in here, Cardinality(view[p].peers), view[p].mine>>
           alone == p \notin here \/ Cardinality(view[p].peers) <= 1
           mine == IF view[p].dirty THEN Pinned(p, view[p]) ELSE view[p].mine
<1>1. PICK v : v = view[p]
  OBVIOUS
<1>2. /\ p \in Members /\ here \in SUBSET Members /\ here \subseteq vault /\ vault \subseteq Members
      /\ \A r \in Members : IsView(view[r]) /\ inbox[r] \in Seq(WlFrames)
  BY DEF WhitelistInv, WhitelistType, MutualInv
<1>3. IsView(v) /\ v.mine \in SUBSET Members /\ v.peers \in SUBSET Members
  BY <1>1, <1>2 DEF IsView, PageViews
<1>4. PICK fi \in WlFrames, fs \in WlFrames :
         /\ fi = wlId(p) /\ fi.kind = "wl-id" /\ fi.from = p
         /\ fs = wlState(p, v.mine) /\ fs.kind = "wl-state" /\ fs.from = p /\ fs.pinned = v.mine
  BY <1>2, <1>3, Announcement
<1>5. \E id \in {<<>>, <<fi>>}, state \in {<<>>, <<fs>>} : \E w :
         /\ id = IF alone \/ v.idRan = idd THEN <<>> ELSE <<fi>>
         /\ state = IF alone \/ v.stateRan = std THEN <<>> ELSE <<fs>>
         /\ w = [v EXCEPT !.mine = mine, !.dirty = FALSE, !.idRan = idd, !.stateRan = std]
         /\ inbox' = Broadcast(p, id, state)
         /\ view' = [view EXCEPT ![p] = w] /\ UNCHANGED <<vault, here, book, elsewhere>>
  BY <1>1, <1>4 DEF Render, IdDeps, StateDeps
<1>5a. PICK id \in {<<>>, <<fi>>}, state \in {<<>>, <<fs>>} : \E w :
         /\ id = IF alone \/ v.idRan = idd THEN <<>> ELSE <<fi>>
         /\ state = IF alone \/ v.stateRan = std THEN <<>> ELSE <<fs>>
         /\ w = [v EXCEPT !.mine = mine, !.dirty = FALSE, !.idRan = idd, !.stateRan = std]
         /\ inbox' = Broadcast(p, id, state)
         /\ view' = [view EXCEPT ![p] = w] /\ UNCHANGED <<vault, here, book, elsewhere>>
  BY <1>5
<1>5b. PICK w :
         /\ id = IF alone \/ v.idRan = idd THEN <<>> ELSE <<fi>>
         /\ state = IF alone \/ v.stateRan = std THEN <<>> ELSE <<fs>>
         /\ w = [v EXCEPT !.mine = mine, !.dirty = FALSE, !.idRan = idd, !.stateRan = std]
         /\ inbox' = Broadcast(p, id, state)
         /\ view' = [view EXCEPT ![p] = w] /\ UNCHANGED <<vault, here, book, elsewhere>>
  BY <1>5a
<1>6. PICK m : m = mine
  OBVIOUS
<1> HIDE DEF mine
<1>7. /\ w.peers = v.peers /\ w.keys = v.keys /\ w.theirs = v.theirs
      /\ w.mine = m /\ ~w.dirty /\ w.idRan = idd /\ w.stateRan = std
  <2>1. PICK a, b : a = idd /\ b = std
    OBVIOUS
  <2>2. w = [v EXCEPT !.mine = m, !.dirty = FALSE, !.idRan = a, !.stateRan = b]
    BY <1>5b, <1>6, <2>1
  <2>3. IsView(v)
    BY <1>3
  <2>4. /\ w.peers = v.peers /\ w.keys = v.keys /\ w.theirs = v.theirs
        /\ w.mine = m /\ ~w.dirty /\ w.idRan = a /\ w.stateRan = b
    <3>1. PICK j, t : v \in PageViews(j, t)
      BY <2>3 DEF IsView
    <3> QED
      BY ONLY <2>2, <3>1 DEF PageViews
  <2> QED
    BY <2>1, <2>4
<1>8. view'[p] = w /\ \A r \in Members : r # p => view'[r] = view[r]
  BY <1>2, <1>5b DEF WhitelistInv, WhitelistType
<1>9. \A r \in Members : /\ view'[r].peers = view[r].peers /\ view'[r].keys = view[r].keys
                         /\ view'[r].theirs = view[r].theirs
  BY <1>1, <1>7, <1>8
<1>10. ASSUME NEW r \in Members
       PROVE  Gains(p, r, fi, fs, id, state, inbox'[r])
  <2>1. inbox' = Broadcast(p, id, state)
    BY <1>5b
  <2>2. p \in Members
    BY <1>2
  <2>3. fi.kind = "wl-id" /\ fi.from = p /\ fs.kind = "wl-state" /\ fs.from = p
    BY <1>4
  <2>4. id \in {<<>>, <<fi>>} /\ state \in {<<>>, <<fs>>}
    OBVIOUS
  <2> QED
    BY <2>1, <2>2, <2>3, <2>4, AnnounceGrows, Zenon
<1>11. /\ fi \notin Rosters /\ fs \notin Rosters /\ fs \in StatesOf(p)
       /\ \A q : fi \notin StatesOf(q) /\ (q # p => fs \notin StatesOf(q))
  BY <1>4 DEF Rosters, StatesOf
<1>12. RostersTrue'
  <2>1. ASSUME NEW r \in here
        PROVE  LastIs(inbox'[r], Rosters, view'[r].peers, here)
    <3>1. r \in Members /\ LastIs(inbox[r], Rosters, view[r].peers, here)
      BY <1>2 DEF MutualInv, RostersTrue
    <3>2. PICK b \in Seq(WlFrames) : /\ b = inbox[r] \/ b = Append(inbox[r], fi)
                                     /\ inbox'[r] = b \/ inbox'[r] = Append(b, fs)
      BY <1>10, <3>1 DEF Gains
    <3>3. LastIs(b, Rosters, view[r].peers, here)
      <4>1. inbox[r] \in Seq(WlFrames) /\ Grown(inbox[r], b, Rosters)
        BY <1>2, <1>11, <3>1, <3>2 DEF Grown
      <4> QED
        BY <3>1, <4>1, LastGrown
    <3>4. LastIs(inbox'[r], Rosters, view[r].peers, here)
      <4>1. Grown(b, inbox'[r], Rosters)
        BY <1>11, <3>2 DEF Grown
      <4> QED
        BY <3>3, <4>1, LastGrown
    <3> QED
      BY <1>9, <3>1, <3>4
  <2> QED
    BY <1>5b, <2>1 DEF RostersTrue
<1>13. Stated'
  <2>1. ASSUME NEW r \in Members, NEW q \in Members
        PROVE  \E x : LastIs(inbox'[r], StatesOf(q), view'[r].theirs[q], x)
    <3>1. PICK x : LastIs(inbox[r], StatesOf(q), view[r].theirs[q], x)
      BY DEF MutualInv, Stated
    <3>2. PICK b \in Seq(WlFrames) : /\ b = inbox[r] \/ b = Append(inbox[r], fi)
                                     /\ inbox'[r] = b \/ inbox'[r] = Append(b, fs)
      BY <1>10 DEF Gains
    <3>3. LastIs(b, StatesOf(q), view[r].theirs[q], x)
      <4>1. inbox[r] \in Seq(WlFrames) /\ Grown(inbox[r], b, StatesOf(q))
        BY <1>2, <1>11, <3>2 DEF Grown
      <4> QED
        BY <3>1, <4>1, LastGrown
    <3>4. \E y : LastIs(inbox'[r], StatesOf(q), view[r].theirs[q], y)
      BY <3>2, <3>3, LastAppended
    <3> QED
      BY <1>9, <3>4
  <2> QED
    BY <2>1 DEF Stated
<1>14. ASSUME NEW r \in here, NEW q \in here \ {r}, q # p
       PROVE  Heard(r, q)'
  <2>1. r \in Members /\ q \in Members /\ HeardBy(q, inbox[r], view[r], inbox[q], view[q])
    BY <1>2 DEF MutualInv, AllHeard, Heard
  <2>2. PICK b \in Seq(WlFrames) : /\ b = inbox[r] \/ b = Append(inbox[r], fi)
                                   /\ inbox'[r] = b \/ inbox'[r] = Append(b, fs)
    BY <1>10, <2>1 DEF Gains
  <2>3. PICK c \in Seq(WlFrames) : /\ c = inbox[q] \/ c = Append(inbox[q], fi)
                                   /\ inbox'[q] = c \/ inbox'[q] = Append(c, fs)
    BY <1>10, <2>1 DEF Gains
  <2>4. /\ Grown(inbox[r], b, StatesOf(q)) /\ Grown(b, inbox'[r], StatesOf(q))
        /\ Grown(inbox[q], c, StatesOf(q)) /\ Grown(c, inbox'[q], StatesOf(q))
    BY <1>11, <1>14, <2>2, <2>3 DEF Grown
  <2>5. SameSight(view[q], view[q]) /\ view'[q] = view[q]
    BY <1>8, <1>14, <2>1 DEF SameSight
  <2>6. HeardBy(q, b, view[r], c, view[q])
    BY <1>2, <2>1, <2>4, <2>5, HeardGrown
  <2>7. HeardBy(q, inbox'[r], view'[r], inbox'[q], view[q])
    BY <1>9, <2>1, <2>4, <2>5, <2>6, HeardGrown
  <2> QED
    BY <2>5, <2>7 DEF Heard
<1>15. ASSUME NEW r \in here, r # p, p \in here
       PROVE  Heard(r, p)'
  <2>1. /\ r \in Members /\ r \in here \ {p} /\ inbox'[p] = inbox[p]
        /\ HeardBy(p, inbox[r], view[r], inbox[p], v)
    BY <1>1, <1>2, <1>10, <1>15 DEF Gains, MutualInv, AllHeard, Heard
  <2>2. PICK b \in Seq(WlFrames) :
           /\ b = inbox[r] \/ b = Append(inbox[r], fi)
           /\ inbox'[r] = b \/ inbox'[r] = Append(b, fs)
           /\ id = <<fi>> => p \in view[r].keys \/ b = Append(inbox[r], fi)
           /\ state = <<fs>> => v.mine = WillKnow(r, p) \/ inbox'[r] = Append(b, fs)
    BY <1>4, <1>10, <2>1 DEF Gains
  <2>3. PICK n : n = Cardinality(v.peers) /\ idd = <<TRUE, n>> /\ std = <<TRUE, n, v.mine>>
    BY <1>1, <1>15
  <2>4. /\ <<TRUE, n>>[1] = TRUE /\ <<TRUE, n>>[2] = n /\ <<TRUE, n, v.mine>>[1] = TRUE
        /\ <<TRUE, n, v.mine>>[2] = n /\ <<TRUE, n, v.mine>>[3] = v.mine
    OBVIOUS
  <2>5. n <= 1 => Differs(inbox[p], v.peers, n)
    BY <1>1, <1>15, <2>3, AloneAwaits DEF MutualInv
  <2>6. Again(inbox'[p], w, w.idRan) \/ Keyed(inbox'[r], view'[r].keys, p)
    <3>1. Keyed(inbox[r], view[r].keys, p) => Keyed(inbox'[r], view'[r].keys, p)
      <4>1. inbox[r] \in Seq(WlFrames) /\ view'[r].keys = view[r].keys
        BY <1>2, <1>9, <2>1
      <4>2. Keyed(inbox[r], view[r].keys, p) => Keyed(b, view[r].keys, p)
        BY <2>2, <4>1, MoreAwaited
      <4>3. Keyed(b, view[r].keys, p) => Keyed(inbox'[r], view[r].keys, p)
        BY <2>2, MoreAwaited
      <4> QED
        BY <4>1, <4>2, <4>3
    <3>2. CASE n <= 1
      BY <1>7, <2>1, <2>3, <2>4, <2>5, <3>2 DEF Again
    <3>3. CASE v.idRan = idd
      BY <1>7, <2>1, <3>1, <3>3 DEF HeardBy, Again
    <3>4. CASE ~(n <= 1) /\ v.idRan # idd
      <4>1. id = <<fi>>
        BY <1>1, <1>5b, <1>15, <2>3, <3>4
      <4>2. p \in view[r].keys \/ b = Append(inbox[r], fi)
        BY <2>2, <4>1
      <4>3. Keyed(b, view[r].keys, p)
        BY <1>2, <1>4, <2>1, <2>2, <4>2, MoreAwaited DEF Keyed
      <4> QED
        BY <1>9, <2>1, <2>2, <4>3, MoreAwaited
    <3> QED
      BY <3>2, <3>3, <3>4
  <2>7. Again(inbox'[p], w, w.stateRan) \/ LastIs(inbox'[r], StatesOf(p), view'[r].theirs[p], w.stateRan[3])
    <3>1. PICK k : k = view[r].theirs[p] /\ k = view'[r].theirs[p]
      BY <1>9, <2>1
    <3>2. ASSUME NEW x, LastIs(inbox[r], StatesOf(p), k, x)
          PROVE  LastIs(b, StatesOf(p), k, x)
      <4>1. CASE b = inbox[r]
        BY <3>2, <4>1
      <4>2. CASE b = Append(inbox[r], fi)
        <5>1. inbox[r] \in Seq(WlFrames) /\ fi \notin StatesOf(p)
          BY <1>2, <1>11, <2>1
        <5>2. LastIs(Append(inbox[r], fi), StatesOf(p), k, x)
          BY ONLY <3>2, <5>1, fi \in WlFrames, LastAppended
        <5> QED
          BY <4>2, <5>2
      <4> QED
        BY <2>2, <4>1, <4>2
    <3>3. CASE n <= 1
      BY <1>7, <2>1, <2>3, <2>4, <2>5, <3>3 DEF Again
    <3>4. CASE v.stateRan = std
      <4>1. Again(inbox[p], v, std) \/ LastIs(inbox[r], StatesOf(p), k, v.mine)
        BY <2>1, <2>3, <2>4, <3>1, <3>4 DEF HeardBy
      <4>2. LastIs(inbox[r], StatesOf(p), k, v.mine) => LastIs(inbox'[r], StatesOf(p), k, v.mine)
        <5>1. LastIs(b, StatesOf(p), k, v.mine) => LastIs(inbox'[r], StatesOf(p), k, v.mine)
          <6>1. LastIs(Append(b, fs), StatesOf(p), k, v.mine)
            BY ONLY b \in Seq(WlFrames), fs \in WlFrames, <1>4, <1>11, LastAppended
          <6> QED
            BY <2>2, <6>1
        <5> QED
          BY <3>2, <5>1
      <4>3. Again(inbox[p], v, std) => Again(inbox'[p], w, w.stateRan)
        BY <1>7, <2>1 DEF Again
      <4> QED
        BY <1>7, <2>3, <2>4, <3>1, <4>1, <4>2, <4>3
    <3>5. CASE ~(n <= 1) /\ v.stateRan # std
      <4>1. state = <<fs>>
        BY <1>1, <1>5b, <1>15, <2>3, <3>5
      <4>2. PICK x : LastIs(inbox[r], StatesOf(p), k, x)
        BY <1>2, <2>1, <3>1 DEF MutualInv, Stated
      <4>3. WillKnow(r, p) = x
        BY <1>2, <2>1, <3>1, <4>2, WillKnowLast
      <4>4. LastIs(b, StatesOf(p), k, x)
        BY <3>2, <4>2
      <4>5. LastIs(Append(b, fs), StatesOf(p), k, v.mine)
        BY <1>4, <1>11, LastAppended
      <4>6. LastIs(inbox'[r], StatesOf(p), k, v.mine)
        BY <2>2, <4>1, <4>3, <4>4, <4>5
      <4> QED
        BY <1>7, <2>3, <2>4, <3>1, <4>6
    <3> QED
      BY <3>3, <3>4, <3>5
  <2> QED
    BY <1>8, <2>6, <2>7 DEF Heard, HeardBy
<1>16. AllHeard'
  BY <1>5b, <1>14, <1>15 DEF AllHeard
<1>17. MineTrue'
  <2>1. \A r \in vault : r # p => Pinned(r, view[r])' = Pinned(r, view[r]) /\ view'[r] = view[r]
    BY <1>2, <1>5b, <1>8 DEF Pinned
  <2>2. ~elsewhere => view'[p].mine = Pinned(p, view[p])'
    <3>1. Pinned(p, view[p])' = Pinned(p, v)
      BY <1>5b, <1>7, <1>8 DEF Pinned
    <3>2. ~elsewhere => m = Pinned(p, v)
      BY <1>1, <1>6 DEF mine, MutualInv, MineTrue
    <3> QED
      BY <1>7, <1>8, <3>1, <3>2
  <2> QED
    BY <1>5b, <2>1, <2>2 DEF MineTrue, MutualInv
<1> QED
  BY <1>2, <1>5b, <1>12, <1>13, <1>16, <1>17 DEF MutualInv

\* What a page holds when it has read a frame.
Reads(v, f, w) ==
    \/ f.kind = "peers" /\ w = [v EXCEPT !.peers = f.pinned, !.dirty = TRUE]
    \/ /\ f.kind = "wl-id"
       /\ w = [v EXCEPT !.keys = @ \cup {f.from}, !.dirty = @ \/ f.from \notin v.keys]
    \/ f.kind = "wl-state" /\ w = [v EXCEPT !.theirs[f.from] = f.pinned]
    \/ f.kind \in {"request", "decline"} /\ \E r : w = [v EXCEPT !.requests = r]
    \/ f.kind = "accept" /\ w = [v EXCEPT !.dirty = TRUE]

LEMMA ReadSight ==
  ASSUME NEW v, IsView(v), NEW f \in WlFrames, NEW w,
         Reads(v, f, w)
  PROVE  /\ w.peers = IF f.kind = "peers" THEN f.pinned ELSE v.peers
         /\ w.keys = IF f.kind = "wl-id" THEN v.keys \cup {f.from} ELSE v.keys
         /\ \A q \in Members : w.theirs[q] = IF f \in StatesOf(q) THEN f.pinned ELSE v.theirs[q]
         /\ w.idRan = v.idRan /\ w.stateRan = v.stateRan /\ w.mine = v.mine
         /\ ~w.dirty => w.peers = v.peers /\ w.keys = v.keys
         /\ f.kind = "accept" => w.dirty
<1>1. PICK i, s : v \in PageViews(i, s)
  BY DEF IsView
<1>2. f.from \in Members /\ \A q : f \in StatesOf(q) <=> f.kind = "wl-state" /\ f.from = q
  BY DEF StatesOf, WlFrames
<1>3. CASE f.kind = "peers" /\ w = [v EXCEPT !.peers = f.pinned, !.dirty = TRUE]
  BY <1>1, <1>2, <1>3 DEF PageViews
<1>4. CASE /\ f.kind = "wl-id"
           /\ w = [v EXCEPT !.keys = @ \cup {f.from}, !.dirty = @ \/ f.from \notin v.keys]
  <2>1. PICK d : d = (v.dirty \/ f.from \notin v.keys)
    OBVIOUS
  <2>2. PICK k : k = v.keys \cup {f.from}
    OBVIOUS
  <2>3. w = [v EXCEPT !.keys = k, !.dirty = d]
    BY <1>4, <2>1, <2>2
  <2>4. /\ w.peers = v.peers /\ w.keys = k /\ w.theirs = v.theirs /\ w.idRan = v.idRan
        /\ w.stateRan = v.stateRan /\ w.mine = v.mine /\ w.dirty = d
    BY ONLY <1>1, <2>3 DEF PageViews
  <2>5. ~w.dirty => w.keys = v.keys
    BY <2>1, <2>2, <2>4
  <2> QED
    BY <1>2, <1>4, <2>2, <2>4, <2>5
<1>5. CASE f.kind = "wl-state" /\ w = [v EXCEPT !.theirs[f.from] = f.pinned]
  <2>1. v.theirs \in [Members -> SUBSET Members]
    BY <1>1 DEF PageViews
  <2>2. PICK th : th = [v.theirs EXCEPT ![f.from] = f.pinned]
    OBVIOUS
  <2>3. w = [v EXCEPT !.theirs = th]
    BY <1>5, <2>2
  <2>4. /\ w.peers = v.peers /\ w.keys = v.keys /\ w.theirs = th /\ w.idRan = v.idRan
        /\ w.stateRan = v.stateRan /\ w.mine = v.mine /\ w.dirty = v.dirty
    BY ONLY <1>1, <2>3 DEF PageViews
  <2>5. \A q \in Members : th[q] = IF q = f.from THEN f.pinned ELSE v.theirs[q]
    BY <2>1, <2>2
  <2>6. \A q \in Members : th[q] = IF f \in StatesOf(q) THEN f.pinned ELSE v.theirs[q]
    BY <1>2, <1>5, <2>5
  <2> QED
    BY <1>5, <2>4, <2>6
<1>6. CASE f.kind \in {"request", "decline"} /\ \E r : w = [v EXCEPT !.requests = r]
  BY <1>1, <1>2, <1>6 DEF PageViews
<1>7. CASE f.kind = "accept" /\ w = [v EXCEPT !.dirty = TRUE]
  BY <1>1, <1>2, <1>7 DEF PageViews
<1> QED
  BY <1>3, <1>4, <1>5, <1>6, <1>7 DEF Reads

\* A page that has run its effects reads a frame: it then knows what the frame says,
\* and a new roster makes its effects run.
LEMMA FrameHeard ==
  ASSUME WhitelistInv, MutualInv, NEW p \in vault, onFrame(p)
  PROVE  MutualInv'
<1>1. /\ p \in Members /\ here \in SUBSET Members /\ here \subseteq vault /\ vault \subseteq Members
      /\ \A r \in Members : IsView(view[r]) /\ inbox[r] \in Seq(WlFrames)
  BY DEF WhitelistInv, WhitelistType, MutualInv
<1>2. PICK s \in Seq(WlFrames), f \in WlFrames : s = Tail(inbox[p]) /\ f = Head(inbox[p])
  BY <1>1, ReadFrame DEF onFrame
<1>3. PICK v : v = view[p] /\ IsView(v)
  BY <1>1
<1>4. PICK w : /\ view' = [view EXCEPT ![p] = w] /\ Reads(v, f, w)
               /\ \/ book' = book
                  \/ f.kind = "accept" /\ book' = [book EXCEPT ![p] = @ \cup {f.from}]
  BY <1>2, <1>3 DEF onFrame, whitelistFrame, upsertContact, Reads
<1>5. /\ w.peers = IF f.kind = "peers" THEN f.pinned ELSE v.peers
      /\ w.keys = IF f.kind = "wl-id" THEN v.keys \cup {f.from} ELSE v.keys
      /\ \A q \in Members : w.theirs[q] = IF f \in StatesOf(q) THEN f.pinned ELSE v.theirs[q]
      /\ w.idRan = v.idRan /\ w.stateRan = v.stateRan /\ w.mine = v.mine
      /\ ~w.dirty => w.peers = v.peers /\ w.keys = v.keys
      /\ f.kind = "accept" => w.dirty
  <2>1. IsView(v) /\ Reads(v, f, w)
    BY <1>3, <1>4
  <2> QED
    BY <2>1, ReadSight, Zenon
<1>6. view'[p] = w /\ \A r \in Members : r # p => view'[r] = view[r]
  BY <1>1, <1>4 DEF WhitelistInv, WhitelistType
<1>7. inbox'[p] = s /\ \A r \in Members : r # p => inbox'[r] = inbox[r]
  BY <1>1, <1>2 DEF onFrame, WhitelistInv
<1>8. here' = here /\ vault' = vault /\ elsewhere' = elsewhere
  BY DEF onFrame
<1>9. inbox[p] \in Seq(WlFrames) /\ inbox[p] # <<>>
  BY <1>1 DEF onFrame
<1>10. f \in Rosters <=> f.kind = "peers"
  BY DEF Rosters
<1>11. RostersTrue'
  <2>1. ASSUME p \in here
        PROVE  LastIs(s, Rosters, w.peers, here)
    <3>1. LastIs(inbox[p], Rosters, v.peers, here)
      BY <1>3, <2>1 DEF MutualInv, RostersTrue
    <3>2. LastIs(s, Rosters, IF f \in Rosters THEN f.pinned ELSE v.peers, here)
      BY <1>2, <1>9, <3>1, LastRead
    <3> QED
      BY <1>5, <1>10, <3>2
  <2>2. ASSUME NEW r \in here
        PROVE  LastIs(inbox'[r], Rosters, view'[r].peers, here)
    BY <1>1, <1>6, <1>7, <2>1 DEF MutualInv, RostersTrue
  <2> QED
    BY <1>8, <2>2 DEF RostersTrue
<1>12. ASSUME NEW q \in Members, NEW x, LastIs(inbox[p], StatesOf(q), v.theirs[q], x)
       PROVE  LastIs(s, StatesOf(q), w.theirs[q], x)
  <2>1. LastIs(s, StatesOf(q), IF f \in StatesOf(q) THEN f.pinned ELSE v.theirs[q], x)
    BY <1>2, <1>9, <1>12, LastRead
  <2> QED
    BY <1>5, <2>1
<1>13. Stated'
  <2>1. ASSUME NEW r \in Members, NEW q \in Members
        PROVE  \E x : LastIs(inbox'[r], StatesOf(q), view'[r].theirs[q], x)
    <3>1. PICK x : LastIs(inbox[r], StatesOf(q), view[r].theirs[q], x)
      BY DEF MutualInv, Stated
    <3>2. CASE r = p
      BY <1>3, <1>6, <1>7, <1>12, <3>1, <3>2
    <3>3. CASE r # p
      BY <1>6, <1>7, <3>1, <3>3
    <3> QED
      BY <3>2, <3>3
  <2> QED
    BY <2>1 DEF Stated
<1>14. ASSUME p \in here
       PROVE  \A ran : ran \in {v.idRan, v.stateRan} /\ Again(inbox[p], v, ran) => Again(s, w, ran)
  <2>1. PICK n : n = Cardinality(v.peers)
    OBVIOUS
  <2>2. v.idRan = <<TRUE, n>> /\ v.stateRan = <<TRUE, n, v.mine>>
    BY <1>3, <1>14, <2>1 DEF onFrame, Rendered, IdDeps, StateDeps
  <2>3. v.idRan[1] = TRUE /\ v.idRan[2] = n /\ v.stateRan[1] = TRUE /\ v.stateRan[2] = n
    BY <2>2
  <2>4. Differs(inbox[p], v.peers, n) => Differs(s, w.peers, n)
    <3>1. Differs(inbox[p], v.peers, n)
            => Differs(s, IF f.kind = "peers" THEN f.pinned ELSE v.peers, n)
      BY <1>2, <1>9, <2>1, ReadOn
    <3> QED
      BY <1>5, <3>1
  <2> QED
    BY <2>3, <2>4 DEF Again
<1>15. ASSUME NEW r \in here, NEW q \in here \ {r}
       PROVE  HeardBy(q, inbox'[r], view'[r], inbox'[q], view'[q])
  <2>1. r \in Members /\ q \in Members /\ HeardBy(q, inbox[r], view[r], inbox[q], view[q])
    BY <1>1 DEF MutualInv, AllHeard, Heard
  <2>2. CASE r # p /\ q # p
    BY <1>6, <1>7, <2>1, <2>2
  <2>3. CASE r = p
    <3>1. inbox'[q] = inbox[q] /\ view'[q] = view[q]
      BY <1>6, <1>7, <2>1, <2>3
    <3>2. \A x : LastIs(inbox[p], StatesOf(q), v.theirs[q], x) => LastIs(s, StatesOf(q), w.theirs[q], x)
      BY <1>12, <2>1
    <3>3. Keyed(inbox[p], v.keys, q) => Keyed(s, w.keys, q)
      <4>1. Keyed(inbox[p], v.keys, q)
               => Keyed(s, IF f.kind = "wl-id" THEN v.keys \cup {f.from} ELSE v.keys, q)
        BY <1>2, <1>9, ReadOn
      <4> QED
        BY <1>5, <4>1
    <3>4. HeardBy(q, inbox[p], v, inbox[q], view[q])
      BY <1>3, <2>1, <2>3
    <3>5. HeardBy(q, s, w, inbox[q], view[q])
      BY <3>2, <3>3, <3>4 DEF HeardBy
    <3> QED
      BY <1>6, <1>7, <2>3, <3>1, <3>5
  <2>4. CASE q = p
    <3>1. inbox'[r] = inbox[r] /\ view'[r] = view[r] /\ p \in here
      BY <1>6, <1>7, <2>1, <2>4
    <3>2. HeardBy(p, inbox[r], view[r], inbox[p], v)
      BY <1>3, <2>1, <2>4
    <3>3. /\ Again(inbox[p], v, v.idRan) => Again(s, w, v.idRan)
          /\ Again(inbox[p], v, v.stateRan) => Again(s, w, v.stateRan)
      BY <1>14, <3>1
    <3>4. HeardBy(p, inbox[r], view[r], s, w)
      BY <1>5, <3>2, <3>3 DEF HeardBy
    <3> QED
      BY <1>6, <1>7, <2>4, <3>1, <3>4
  <2> QED
    BY <2>2, <2>3, <2>4
<1>16. AllHeard'
  BY <1>8, <1>15 DEF AllHeard, Heard
<1>17. MineTrue'
  <2>1. ASSUME ~elsewhere, NEW r \in vault, ~view'[r].dirty
        PROVE  view'[r].mine = {q \in view'[r].peers \ {r} : q \in view'[r].keys /\ q \in book'[r]}
    <3>1. r \in Members
      BY <1>1
    <3>2. CASE r # p
      <4>1. view'[r] = view[r] /\ book'[r] = book[r]
        BY <1>1, <1>4, <1>6, <3>1, <3>2 DEF WhitelistInv, WhitelistType
      <4> QED
        BY <2>1, <4>1 DEF MutualInv, MineTrue, Pinned
    <3>3. CASE r = p
      <4>1. ~v.dirty /\ v.mine = Pinned(p, v)
        BY <1>3, <2>1 DEF MutualInv, MineTrue, onFrame, Rendered
      <4>2. w.peers = v.peers /\ w.keys = v.keys /\ w.mine = v.mine /\ f.kind # "accept"
        BY <1>5, <1>6, <2>1, <3>3
      <4>3. book' = book
        BY <1>4, <4>2
      <4> QED
        BY <1>6, <3>3, <4>1, <4>2, <4>3 DEF Pinned
    <3> QED
      BY <3>2, <3>3
  <2> QED
    BY <1>8, <2>1 DEF MineTrue, Pinned
<1> QED
  BY <1>1, <1>8, <1>11, <1>13, <1>16, <1>17 DEF MutualInv

LEMMA ToldBox ==
  ASSUME NEW mail \in [Members -> Seq(WlFrames)], NEW present \in SUBSET Members,
         inbox' = Told(mail, present), NEW r \in Members
  PROVE  /\ r \notin present => inbox'[r] = mail[r]
         /\ r \in present => \E f \in Rosters : f.pinned = present /\ inbox'[r] = Append(mail[r], f)
         /\ \A q : Grown(mail[r], inbox'[r], StatesOf(q))
<1>1. PICK f \in Rosters : f = peer_update(r, present) /\ f.pinned = present
  BY WlFrameType DEF Rosters
<1>2. f \in WlFrames /\ \A q : f \notin StatesOf(q)
  BY DEF Rosters, StatesOf
<1>3. inbox'[r] = IF r \in present THEN Append(mail[r], f) ELSE mail[r]
  BY <1>1 DEF Told
<1>4. \A q : Grown(mail[r], inbox'[r], StatesOf(q))
  BY <1>2, <1>3 DEF Grown
<1> QED
  BY <1>1, <1>3, <1>4

\* Whoever is told the roster last will show it.
LEMMA RosterTold ==
  ASSUME NEW mail \in [Members -> Seq(WlFrames)], NEW present \in SUBSET Members,
         inbox' = Told(mail, present), NEW r \in present, NEW k
  PROVE  LastIs(inbox'[r], Rosters, k, present)
<1>1. PICK f \in Rosters : f.pinned = present /\ inbox'[r] = Append(mail[r], f)
  BY ToldBox
<1>2. f \in WlFrames /\ mail[r] \in Seq(WlFrames)
  BY DEF Rosters
<1> QED
  BY <1>1, <1>2, LastAppended

LEMMA SightStays == \A v : SameSight(v, v)
BY DEF SameSight

LEMMA LeaveHeard ==
  ASSUME WhitelistInv, MutualInv, NEW p \in vault, Leave(p)
  PROVE  MutualInv'
<1>1. /\ p \in Members /\ here \in SUBSET Members /\ here \subseteq vault /\ vault \subseteq Members
      /\ \A r \in Members : inbox[r] \in Seq(WlFrames)
  BY DEF WhitelistInv, WhitelistType, MutualInv
<1>2. PICK h : h = here'
  OBVIOUS
<1>3. PICK mail : mail = [inbox EXCEPT ![p] = <<>>]
  OBVIOUS
<1>4. /\ h = here \ {p} /\ inbox' = Told(mail, h)
      /\ vault' = vault /\ book' = book /\ elsewhere' = elsewhere
      /\ view' = view \/ view' = [view EXCEPT ![p] = NewView]
  BY <1>2, <1>3 DEF Leave
<1>5. h \in SUBSET Members /\ h \subseteq vault
  BY <1>1, <1>4
<1>6. /\ mail \in [Members -> Seq(WlFrames)] /\ mail[p] = <<>>
      /\ \A r \in Members : r # p => mail[r] = inbox[r]
  BY <1>1, <1>3 DEF WhitelistInv
<1>7. \A r \in Members : r # p => view'[r] = view[r]
  BY <1>4 DEF WhitelistInv, WhitelistType
<1>7a. \A r \in Members : r # p => \A q : Grown(inbox[r], inbox'[r], StatesOf(q))
  <2>1. \A r \in Members : \A q : Grown(mail[r], inbox'[r], StatesOf(q))
    BY <1>4, <1>5, <1>6, ToldBox
  <2> QED
    BY <1>6, <2>1
<1>8. RostersTrue'
  BY <1>2, <1>4, <1>5, <1>6, RosterTold DEF RostersTrue
<1>9. Stated'
  <2>1. ASSUME NEW r \in Members, NEW q \in Members
        PROVE  \E x : LastIs(inbox'[r], StatesOf(q), view'[r].theirs[q], x)
    <3>1. CASE r = p
      <4>1. inbox'[p] = <<>>
        <5>1. p \notin h /\ p \in Members
          BY <1>1, <1>4
        <5> QED
          BY <1>4, <1>5, <1>6, <5>1, ToldBox
      <4>2. \A i \in 1..Len(inbox'[p]) : FALSE
        BY <4>1
      <4> QED
        BY <3>1, <4>2 DEF LastIs
    <3>2. CASE r # p
      <4>1. PICK x : LastIs(inbox[r], StatesOf(q), view[r].theirs[q], x)
        BY DEF MutualInv, Stated
      <4>2. Grown(inbox[r], inbox'[r], StatesOf(q))
        BY <1>7a, <3>2
      <4>3. LastIs(inbox'[r], StatesOf(q), view[r].theirs[q], x)
        BY <1>1, <4>1, <4>2, LastGrown
      <4> QED
        BY <1>7, <3>2, <4>3
    <3> QED
      BY <3>1, <3>2
  <2> QED
    BY <2>1 DEF Stated
<1>10. ASSUME NEW r \in h, NEW q \in h \ {r}
       PROVE  HeardBy(q, inbox'[r], view'[r], inbox'[q], view'[q])
  <2>1. r \in Members /\ q \in Members /\ HeardBy(q, inbox[r], view[r], inbox[q], view[q])
    BY <1>1, <1>4 DEF MutualInv, AllHeard, Heard
  <2>2. view'[r] = view[r] /\ view'[q] = view[q]
    BY <1>4, <1>7, <2>1
  <2>3. Grown(inbox[r], inbox'[r], StatesOf(q)) /\ Grown(inbox[q], inbox'[q], StatesOf(q))
    BY <1>4, <1>7a, <2>1
  <2>4. HeardBy(q, inbox'[r], view[r], inbox'[q], view[q])
    BY <1>1, <2>1, <2>3, SightStays, HeardGrown
  <2> QED
    BY <2>2, <2>4
<1>11. AllHeard'
  BY <1>2, <1>10 DEF AllHeard, Heard
<1>12. MineTrue'
  <2>1. ASSUME ~elsewhere, NEW r \in vault, ~view'[r].dirty
        PROVE  view'[r].mine = {q \in view'[r].peers \ {r} : q \in view'[r].keys /\ q \in book[r]}
    <3>1. CASE view'[r] = view[r]
      BY <2>1, <3>1 DEF MutualInv, MineTrue, Pinned
    <3>2. CASE view' = [view EXCEPT ![p] = NewView] /\ r = p
      <4>1. view'[p] = NewView
        BY <1>1, <3>2 DEF WhitelistInv, WhitelistType
      <4>2. NewView.dirty
        BY DEF NewView
      <4> QED
        BY <2>1, <3>2, <4>1, <4>2
    <3> QED
      BY <1>1, <1>4, <1>7, <3>1, <3>2
  <2> QED
    BY <1>4, <2>1 DEF MineTrue, Pinned
<1> QED
  BY <1>2, <1>4, <1>5, <1>8, <1>9, <1>11, <1>12 DEF MutualInv

\* Nobody who is there has announced itself to as many as there are now.
LEMMA MoreAreHere ==
  ASSUME WhitelistInv, RostersTrue, NEW p \in Members \ here, inbox' = Told(inbox, here \cup {p}),
         NEW q \in here, NEW ran
  PROVE  Again(inbox'[q], view[q], ran)
<1>1. here \in SUBSET Members /\ q \in Members /\ inbox \in [Members -> Seq(WlFrames)]
  BY DEF WhitelistInv, WhitelistType
<1>2. PICK h \in SUBSET Members : h = here \cup {p}
  BY <1>1
<1>3. Cardinality(h) = Cardinality(here) + 1 /\ Cardinality(here) \in Nat
  BY <1>1, <1>2, CountPages
<1>4. PICK f \in Rosters : f.pinned = h /\ inbox'[q] = Append(inbox[q], f)
  <2>1. inbox' = Told(inbox, h) /\ q \in h /\ inbox \in [Members -> Seq(WlFrames)]
    BY <1>1, <1>2
  <2> QED
    BY <1>1, <2>1, ToldBox
<1>5. LastIs(inbox'[q], Rosters, view[q].peers, h)
  BY <1>1, <1>2, RosterTold
<1>6. CASE Cardinality(h) # ran[2]
  BY <1>5, <1>6, WillDiffer DEF Again
<1>7. CASE Cardinality(h) = ran[2]
  <2>1. Cardinality(here) # ran[2]
    BY <1>3, <1>7
  <2>2. LastIs(inbox[q], Rosters, view[q].peers, here)
    BY DEF RostersTrue
  <2>3. Differs(inbox[q], view[q].peers, ran[2])
    BY <2>1, <2>2, WillDiffer
  <2>4. inbox[q] \in Seq(WlFrames) /\ f \in WlFrames
    BY <1>1 DEF Rosters
  <2>5. Differs(Append(inbox[q], f), view[q].peers, ran[2])
    BY <2>3, <2>4, MoreAwaited
  <2> QED
    BY <1>4, <2>5 DEF Again
<1> QED
  BY <1>6, <1>7

LEMMA JoinHeard ==
  ASSUME WhitelistInv, MutualInv, NEW p \in vault, Rejoin(p)
  PROVE  MutualInv'
<1>1. /\ p \in Members \ here /\ here \in SUBSET Members /\ here \subseteq vault
      /\ vault \subseteq Members /\ inbox \in [Members -> Seq(WlFrames)]
      /\ \A r \in Members : inbox[r] \in Seq(WlFrames)
  BY DEF WhitelistInv, WhitelistType, MutualInv, Rejoin
<1>2. PICK h : h = here'
  OBVIOUS
<1>3. /\ h = here \cup {p} /\ inbox' = Told(inbox, h)
      /\ vault' = vault /\ book' = book /\ elsewhere' = elsewhere /\ view' = view
  BY <1>2 DEF Rejoin
<1>4. h \in SUBSET Members /\ h \subseteq vault
  BY <1>1, <1>3
<1>5. RostersTrue'
  BY <1>1, <1>2, <1>3, <1>4, RosterTold DEF RostersTrue
<1>6. \A r, q \in Members : Grown(inbox[r], inbox'[r], StatesOf(q))
  BY <1>1, <1>3, <1>4, ToldBox
<1>7. Stated'
  <2>1. ASSUME NEW r \in Members, NEW q \in Members
        PROVE  \E x : LastIs(inbox'[r], StatesOf(q), view[r].theirs[q], x)
    <3>1. PICK x : LastIs(inbox[r], StatesOf(q), view[r].theirs[q], x)
      BY DEF MutualInv, Stated
    <3>2. LastIs(inbox'[r], StatesOf(q), view[r].theirs[q], x)
      BY <1>1, <1>6, <3>1, LastGrown
    <3> QED
      BY <3>2
  <2> QED
    BY <1>3, <2>1 DEF Stated
<1>8. ASSUME NEW r \in h, NEW q \in h \ {r}
      PROVE  HeardBy(q, inbox'[r], view[r], inbox'[q], view[q])
  <2>1. r \in Members /\ q \in Members
    BY <1>4
  <2>2. CASE q = p
    <3>1. PICK n : n = Cardinality(view[p].peers)
      OBVIOUS
    <3>2. PICK b : b = (p \in here)
      OBVIOUS
    <3>3. b # TRUE
      <4>1. p \notin here
        BY <1>1
      <4> QED
        BY <3>2, <4>1, Zenon
    <3>4. view[p].idRan = <<b, n>> /\ view[p].stateRan = <<b, n, view[p].mine>>
      BY <3>1, <3>2, Zenon DEF Rejoin, Rendered, IdDeps, StateDeps
    <3>5. <<b, n>>[1] = b /\ <<b, n, view[p].mine>>[1] = b
      OBVIOUS
    <3>6. view[p].idRan[1] # TRUE /\ view[p].stateRan[1] # TRUE
      BY <3>3, <3>4, <3>5, Zenon
    <3> QED
      BY <2>2, <3>6 DEF HeardBy, Again
  <2>3. CASE q # p /\ r = p
    <3>1. q \in here
      BY <1>3, <2>3
    <3>2. \A ran : Again(inbox'[q], view[q], ran)
      BY <1>1, <1>3, <3>1, MoreAreHere DEF MutualInv
    <3> QED
      BY <3>2 DEF HeardBy
  <2>4. CASE q # p /\ r # p
    <3>1. HeardBy(q, inbox[r], view[r], inbox[q], view[q])
      BY <1>3, <2>4 DEF MutualInv, AllHeard, Heard
    <3> QED
      BY <1>1, <1>6, <2>1, <3>1, SightStays, HeardGrown
  <2> QED
    BY <2>2, <2>3, <2>4
<1>9. AllHeard'
  BY <1>2, <1>3, <1>8 DEF AllHeard, Heard
<1>10. MineTrue'
  BY <1>3 DEF MutualInv, MineTrue, Pinned
<1> QED
  BY <1>2, <1>3, <1>4, <1>5, <1>7, <1>9, <1>10 DEF MutualInv

\* A user's step, here or in another tab, leaves what is announced as it is.
LEMMA UserHeard ==
  ASSUME WhitelistInv, MutualInv, NEW p \in vault, NEW q \in vault \ {p},
         \/ requestWhitelist(p, q) \/ acceptWhitelist(p, q) \/ declineWhitelist(p, q)
         \/ pinFromTrustLink(p, q) \/ revokeContact(p, q)
  PROVE  MutualInv'
<1>1. p \in Members /\ q \in Members /\ vault \subseteq Members
  BY DEF WhitelistInv, WhitelistType
<1>2. here' = here /\ vault' = vault
  BY DEF requestWhitelist, acceptWhitelist, declineWhitelist, pinFromTrustLink, revokeContact
<1>3. \A r \in Members : /\ Grown(inbox[r], inbox'[r], Rosters)
                         /\ \A s \in Members : Grown(inbox[r], inbox'[r], StatesOf(s))
  <2>1. CASE inbox' = inbox
    BY <2>1 DEF Grown
  <2>2. CASE \E a \in {"request", "accept", "decline"} :
                inbox' = Broadcast(p, <<Action(p, q, a)>>, <<>>)
    BY <1>1, <2>2, HandshakeGrows
  <2> QED
    BY <2>1, <2>2
       DEF requestWhitelist, acceptWhitelist, declineWhitelist, pinFromTrustLink, revokeContact
<1>4. PICK v : v = view[p] /\ IsView(v)
  BY <1>1 DEF WhitelistInv, WhitelistType
<1>5. \E w : /\ view' = [view EXCEPT ![p] = w]
             /\ SameSight(v, w) /\ w.mine = v.mine
             /\ \/ elsewhere'
                \/ elsewhere' = elsewhere /\ w.dirty = v.dirty /\ book' = book
                \/ elsewhere' = elsewhere /\ w.dirty /\ book' = [book EXCEPT ![p] = @ \cup {q}]
  <2>1. PICK i, t : v \in PageViews(i, t)
    BY <1>4 DEF IsView
  <2>2. view = [r \in Members |-> view[r]]
    BY DEF WhitelistInv, WhitelistType
  <2>3. CASE UNCHANGED view /\ (elsewhere' \/ UNCHANGED <<elsewhere, book>>)
    <3>1. view' = [view EXCEPT ![p] = v]
      BY <1>1, <1>4, <2>2, <2>3
    <3> QED
      BY <2>3, <3>1 DEF SameSight
  <2>4. CASE acceptWhitelist(p, q)
    <3>1. PICK r : r = v.requests \ {q}
      OBVIOUS
    <3>2. PICK u : u = [v EXCEPT !.requests = r]
      OBVIOUS
    <3>3. PICK w : w = [u EXCEPT !.dirty = TRUE]
      OBVIOUS
    <3>4. view' = [view EXCEPT ![p] = w]
      BY <1>1, <1>4, <2>2, <2>4, <3>1, <3>2, <3>3 DEF acceptWhitelist
    <3>5. SameSight(v, w) /\ w.mine = v.mine /\ w.dirty
      BY <2>1, <3>2, <3>3 DEF PageViews, SameSight
    <3> QED
      BY <2>4, <3>4, <3>5 DEF acceptWhitelist, upsertContact
  <2>5. CASE declineWhitelist(p, q)
    <3>1. PICK r : r = v.requests \ {q}
      OBVIOUS
    <3>2. PICK w : w = [v EXCEPT !.requests = r]
      OBVIOUS
    <3>3. view' = [view EXCEPT ![p] = w]
      BY <1>1, <1>4, <2>2, <2>5, <3>1, <3>2 DEF declineWhitelist
    <3>4. SameSight(v, w) /\ w.mine = v.mine /\ w.dirty = v.dirty
      BY <2>1, <3>2 DEF PageViews, SameSight
    <3> QED
      BY <2>5, <3>3, <3>4 DEF declineWhitelist
  <2> QED
    BY <2>3, <2>4, <2>5 DEF requestWhitelist, pinFromTrustLink, revokeContact
<1>6. PICK w : /\ view' = [view EXCEPT ![p] = w]
               /\ SameSight(v, w) /\ w.mine = v.mine
               /\ \/ elsewhere'
                  \/ elsewhere' = elsewhere /\ w.dirty = v.dirty /\ book' = book
                  \/ elsewhere' = elsewhere /\ w.dirty /\ book' = [book EXCEPT ![p] = @ \cup {q}]
  BY <1>5
<1>7. view'[p] = w /\ \A r \in Members : r # p => view'[r] = view[r]
  BY <1>1, <1>6 DEF WhitelistInv, WhitelistType
<1>8. \A r \in Members : SameSight(view[r], view'[r])
  BY <1>4, <1>6, <1>7, SightStays
<1>9. here' \subseteq vault' /\ RostersTrue' /\ Stated' /\ AllHeard'
  BY <1>2, <1>3, <1>8, QuietStep DEF MutualInv
<1>10. MineTrue'
  <2>1. ASSUME ~elsewhere', NEW r \in vault, ~view'[r].dirty
        PROVE  view'[r].mine = {s \in view'[r].peers \ {r} : s \in view'[r].keys /\ s \in book'[r]}
    <3>1. ~elsewhere /\ r \in Members
      BY <1>1, <1>6, <2>1
    <3>2. CASE r = p
      <4>1. ~v.dirty /\ book' = book
        BY <1>6, <1>7, <2>1, <3>2
      <4>2. v.mine = Pinned(p, v)
        BY <1>4, <3>1, <4>1 DEF MutualInv, MineTrue
      <4> QED
        BY <1>6, <1>7, <3>2, <4>1, <4>2 DEF Pinned, SameSight
    <3>3. CASE r # p
      <4>1. book'[r] = book[r]
        BY <1>6, <2>1, <3>1, <3>3 DEF WhitelistInv, WhitelistType
      <4>2. view'[r] = view[r]
        BY <1>7, <3>1, <3>3
      <4> QED
        BY <2>1, <3>1, <4>1, <4>2 DEF MutualInv, MineTrue, Pinned
    <3> QED
      BY <3>2, <3>3
  <2> QED
    BY <1>2, <2>1 DEF MineTrue, Pinned
<1> QED
  BY <1>9, <1>10 DEF MutualInv

LEMMA MutualStarts == WhitelistInit => MutualInv
<1> SUFFICES ASSUME WhitelistInit
             PROVE  MutualInv
  OBVIOUS
<1> DEFINE Of(q) == IF q \in Met THEN Met \ {q} ELSE {}
<1>1. /\ here = vault /\ Met \subseteq vault /\ vault \subseteq Members
      /\ \A r \in Members : inbox[r] = <<>> /\ book[r] = Of(r)
  BY MetArePages DEF WhitelistInit
<1>2. ASSUME NEW r \in Members
      PROVE  /\ view[r].peers = vault /\ view[r].keys = vault \ {r} /\ view[r].mine = Of(r)
             /\ view[r].theirs = [q \in Members |-> IF q = r THEN {} ELSE Of(q)]
             /\ view[r].idRan = <<TRUE, Cardinality(vault)>>
             /\ view[r].stateRan = <<TRUE, Cardinality(vault), Of(r)>>
  <2>1. PICK k, m, th, i, s :
           /\ k = vault \ {r} /\ m = Of(r) /\ th = [q \in Members |-> IF q = r THEN {} ELSE Of(q)]
           /\ i = <<TRUE, Cardinality(vault)>> /\ s = <<TRUE, Cardinality(vault), Of(r)>>
    OBVIOUS
  <2>2. view[r] = [NewView EXCEPT !.peers = vault, !.keys = k, !.mine = m, !.dirty = FALSE,
                     !.theirs = th, !.idRan = i, !.stateRan = s]
    BY <2>1 DEF WhitelistInit, Introduced
  <2>3. PICK n, j, t : n = NewView /\ n \in PageViews(j, t)
    BY NewIsView DEF IsView
  <2>4. PICK w : w = [n EXCEPT !.peers = vault, !.keys = k, !.mine = m, !.dirty = FALSE,
                     !.theirs = th, !.idRan = i, !.stateRan = s]
    OBVIOUS
  <2>5. /\ w.peers = vault /\ w.keys = k /\ w.mine = m /\ w.theirs = th /\ w.idRan = i
        /\ w.stateRan = s
    BY ONLY <2>3, <2>4 DEF PageViews
  <2>6. view[r] = w
    BY <2>2, <2>3, <2>4
  <2> QED
    BY <2>1, <2>5, <2>6
<1>3. \A T, k : LastIs(<<>>, T, k, k)
  BY DEF LastIs
<1>3a. ASSUME NEW r \in vault
      PROVE  /\ r \in Members /\ inbox[r] = <<>> /\ view[r].peers = vault
             /\ view[r].mine = Of(r) /\ book[r] = Of(r) /\ view[r].stateRan[3] = Of(r)
             /\ \A q \in vault \ {r} : view[r].theirs[q] = Of(q) /\ q \in view[r].keys
  <2>1. r \in Members
    BY <1>1
  <2>2. <<TRUE, Cardinality(vault), Of(r)>>[3] = Of(r)
    OBVIOUS
  <2>3. view[r].stateRan[3] = Of(r)
    BY <1>2, <2>1, <2>2
  <2>4. \A q \in vault \ {r} : view[r].theirs[q] = Of(q)
    BY <1>1, <1>2, <2>1
  <2> QED
    BY <1>1, <1>2, <2>1, <2>3, <2>4
<1>3b. \A r : Of(r) = IF r \in Met THEN Met \ {r} ELSE {}
  OBVIOUS
<1> HIDE DEF Of
<1>4. RostersTrue
  BY <1>1, <1>3, <1>3a DEF RostersTrue
<1>5. Stated
  BY <1>1, <1>3 DEF Stated
<1>6. ASSUME NEW r \in here, NEW q \in here \ {r}
      PROVE  Heard(r, q)
  <2>1. view[r].theirs[q] = Of(q) /\ view[q].stateRan[3] = Of(q) /\ q \in view[r].keys
    BY <1>1, <1>3a
  <2>2. LastIs(inbox[r], StatesOf(q), view[r].theirs[q], view[q].stateRan[3])
    BY <1>1, <1>3, <1>3a, <2>1
  <2> QED
    BY <2>1, <2>2 DEF Heard, HeardBy, Keyed
<1>7. AllHeard
  BY <1>6 DEF AllHeard
<1>8. MineTrue
  <2>1. ASSUME NEW r \in vault
        PROVE  view[r].mine = Pinned(r, view[r])
    <3>1. Pinned(r, view[r]) = {q \in vault \ {r} : q \in Of(r)}
      BY <1>3a DEF Pinned
    <3>2. Of(r) = {q \in vault \ {r} : q \in Of(r)}
      BY <1>1, <1>3b
    <3> QED
      BY <1>3a, <3>1, <3>2
  <2> QED
    BY <2>1 DEF MineTrue
<1> QED
  BY <1>1, <1>4, <1>5, <1>7, <1>8 DEF MutualInv

LEMMA MutualKeeps == WhitelistInv /\ MutualInv /\ [WhitelistNext]_whitelist => MutualInv'
<1> SUFFICES ASSUME WhitelistInv, MutualInv, [WhitelistNext]_whitelist
             PROVE  MutualInv'
  OBVIOUS
<1>1. CASE \E p \in vault : Render(p) \/ onFrame(p) \/ Leave(p) \/ Rejoin(p)
  BY <1>1, RenderHeard, FrameHeard, LeaveHeard, JoinHeard
<1>2. CASE \E p \in vault : \E q \in vault \ {p} :
          \/ requestWhitelist(p, q) \/ acceptWhitelist(p, q) \/ declineWhitelist(p, q)
          \/ pinFromTrustLink(p, q) \/ revokeContact(p, q)
  BY <1>2, UserHeard
<1>3. CASE UNCHANGED whitelist
  <2>1. /\ vault' = vault /\ here' = here /\ inbox' = inbox /\ book' = book /\ view' = view
        /\ elsewhere' = elsewhere
    BY <1>3 DEF whitelist
  <2>2. RostersTrue' /\ Stated' /\ here' \subseteq vault'
    BY <2>1 DEF MutualInv, RostersTrue, Stated
  <2>3. AllHeard'
    BY <2>1 DEF MutualInv, AllHeard, Heard
  <2>4. MineTrue'
    BY <2>1 DEF MutualInv, MineTrue, Pinned
  <2> QED
    BY <2>2, <2>3, <2>4 DEF MutualInv
<1> QED
  BY <1>1, <1>2, <1>3 DEF WhitelistNext

\* Once nothing is on its way each page knows what each other one has pinned.
LEMMA SettledKnows ==
  ASSUME WhitelistInv, MutualInv, Settled, NEW p \in vault
  PROVE  /\ p \in Members /\ view[p].peers = vault
         /\ ~elsewhere => view[p].mine \ {p} = (book[p] \cap vault) \ {p}
         /\ \A q \in vault \ {p} : view[p].theirs[q] = view[q].mine
<1>1. /\ here = vault /\ vault \subseteq Members
      /\ \A r \in vault : inbox[r] = <<>> /\ Rendered(r)
  BY DEF Settled, WhitelistInv, WhitelistType
<1>2. \A T, k, x : LastIs(<<>>, T, k, x) => k = x
  BY DEF LastIs
<1>3. \A r \in vault : view[r].peers = vault
  BY <1>1, <1>2 DEF MutualInv, RostersTrue
<1>4. ASSUME NEW r \in vault
      PROVE  /\ view[r].stateRan[3] = view[r].mine
             /\ ~Again(inbox[r], view[r], view[r].stateRan) /\ ~Again(inbox[r], view[r], view[r].idRan)
  <2>1. PICK n : n = Cardinality(view[r].peers)
    OBVIOUS
  <2>2. view[r].idRan = <<TRUE, n>> /\ view[r].stateRan = <<TRUE, n, view[r].mine>>
    BY <1>1, <2>1 DEF Rendered, IdDeps, StateDeps
  <2>3. /\ view[r].idRan[1] = TRUE /\ view[r].idRan[2] = n /\ view[r].stateRan[1] = TRUE
        /\ view[r].stateRan[2] = n /\ view[r].stateRan[3] = view[r].mine
    BY <2>2
  <2>4. ~Differs(inbox[r], view[r].peers, n)
    <3>1. inbox[r] = <<>>
      BY <1>1
    <3> QED
      BY <2>1, <3>1 DEF Differs
  <2> QED
    BY <2>3, <2>4 DEF Again
<1>5. ASSUME NEW q \in vault \ {p}
      PROVE  view[p].theirs[q] = view[q].mine /\ q \in view[p].keys
  <2>1. HeardBy(q, <<>>, view[p], inbox[q], view[q])
    BY <1>1 DEF MutualInv, AllHeard, Heard
  <2>2. LastIs(<<>>, StatesOf(q), view[p].theirs[q], view[q].mine) /\ Keyed(<<>>, view[p].keys, q)
    BY <1>4, <2>1 DEF HeardBy
  <2> QED
    BY <1>2, <2>2 DEF Keyed
<1>6. ~elsewhere => view[p].mine = (book[p] \cap vault) \ {p}
  <2>1. ASSUME ~elsewhere
        PROVE  view[p].mine = Pinned(p, view[p])
    BY <1>1, <2>1 DEF MutualInv, MineTrue, Rendered
  <2> QED
    BY <1>3, <1>5, <2>1 DEF Pinned
<1> QED
  BY <1>1, <1>3, <1>5, <1>6

LEMMA SettledAgrees ==
  ASSUME WhitelistInv, MutualInv, Settled
  PROVE  MutualIsShared
<1>1. \A p \in vault :
         /\ view[p].peers = vault
         /\ ~elsewhere => view[p].mine \ {p} = (book[p] \cap vault) \ {p}
         /\ \A q \in vault \ {p} : view[p].theirs[q] = view[q].mine
  BY SettledKnows
<1>2. \A p \in vault : \A q \in vault \ {p} :
         isMutual(p, q) <=> q \in view[p].mine /\ p \in view[q].mine
  BY <1>1 DEF isMutual
<1>3. ASSUME NEW p \in vault, NEW q \in vault \ {p}
      PROVE  /\ isMutual(p, q) = isMutual(q, p)
             /\ ~elsewhere => (isMutual(p, q) <=> q \in book[p] /\ p \in book[q])
  <2>1. q \in vault /\ p \in vault \ {q}
    BY <1>3
  <2>2. isMutual(p, q) <=> isMutual(q, p)
    BY <1>2, <2>1
  <2>3. isMutual(p, q) = isMutual(q, p)
    BY <2>2, Zenon DEF isMutual
  <2>4. ASSUME ~elsewhere
        PROVE  isMutual(p, q) <=> q \in book[p] /\ p \in book[q]
    <3>1. q \in view[p].mine <=> q \in book[p]
      BY <1>1, <2>1, <2>4
    <3>2. p \in view[q].mine <=> p \in book[q]
      BY <1>1, <2>1, <2>4
    <3> QED
      BY <1>2, <3>1, <3>2
  <2> QED
    BY <2>3, <2>4
<1>4. ASSUME NEW p \in vault, NEW q \in vault \ {p},
             inWhitelistGroup(p, q), inWhitelistGroup(q, p)
      PROVE  myMutual(p) \cup {p} \subseteq myMutual(q) \cup {q}
  <2>1. q \in vault /\ p \in vault \ {q} /\ isMutual(p, q) /\ isMutual(q, p)
    BY <1>4 DEF inWhitelistGroup
  <2>2. ASSUME NEW m \in myMutual(p), m # q
        PROVE  m \in myMutual(q)
    <3>1. m \in vault \ {p} /\ pairMutual(p, m, q)
      BY <1>1, <1>4, <2>2 DEF inWhitelistGroup, myMutual
    <3>2. q \in view[m].mine /\ m \in view[q].mine
      BY <1>1, <3>1 DEF pairMutual
    <3> QED
      BY <1>1, <1>2, <2>1, <2>2, <3>1, <3>2 DEF myMutual
  <2>3. p \in myMutual(q)
    BY <1>1, <2>1 DEF myMutual
  <2> QED
    BY <2>2, <2>3
<1> QED
  BY <1>3, <1>4 DEF MutualIsShared

\* MutualIsShared: once everyone is there and nothing is on its way, any two pages agree
\* on whether they are mutual and on their group, and mutual is what the contact books
\* say, whoever left, was reloaded and came back (useRelay's announcing effects).
THEOREM MutualShared == WhitelistSpec => []MutualIsShared
<1>1. WhitelistInv /\ MutualInv => MutualIsShared
  BY SettledAgrees DEF MutualIsShared
<1> QED
  BY <1>1, WhitelistStarts, WhitelistKeeps, MutualStarts, MutualKeeps, PTL DEF WhitelistSpec
=============================================================================
