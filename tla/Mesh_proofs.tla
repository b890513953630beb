---------------------------- MODULE Mesh_proofs ----------------------------
(* Mesh.tla for any number of faults: a page never holds a connection to a  *)
(* peer that its roster does not name, and never shows one that is not open. *)
EXTENDS Mesh, SequenceTheorems, TLAPS

(* -------------------------- the inductive invariant ---------------------- *)

Entries == [state : MeshStates, sig : {"stable", "offered", "remote", "closed"},
            offer : Nat, agreed : Nat, up : Nat,
            remoteReady : BOOLEAN, restarted : BOOLEAN,
            timer : BOOLEAN, flushTimer : BOOLEAN,
            offering : Nat, answering : Nat,
            reason : {"none", "signaling-error", "no-route", "timeout", "peer-left"}]

FromPeer(f) == f.kind # "roster"

\* In a stream read by a page whose roster is r, each frame of the peer comes
\* when the page has last been told that the peer is there.
Grounded(s, r) ==
    /\ s # <<>> /\ FromPeer(s[1]) => r
    /\ \A i \in 2..Len(s) : FromPeer(s[i]) /\ ~FromPeer(s[i - 1]) => s[i - 1].n = 1

\* Once it has read everything it will believe that the peer is there.
Believes(s, r) == IF s = <<>> THEN r ELSE FromPeer(s[Len(s)]) \/ s[Len(s)].n = 1

Streams ==
    /\ \A p \in Pages : Grounded(inbox[p], roster[p])
    /\ \A p \in Pages : online[p] /\ online[Other(p)] => Believes(inbox[p], roster[p])
    /\ \A p \in Pages : \A i \in 1..Len(held[p]) : FromPeer(held[p][i])

Links ==
    /\ \A p \in Pages : (ui[p] = "absent") <=> ~roster[p]
    /\ \A p \in Pages : ~roster[p] => entry[p] = NoEntry
    /\ \A p \in Pages : ui[p] = "connected" => entry[p].state = "connected"

MeshInv == TypeOK /\ Streams /\ Links

(* ------------------------------- streams --------------------------------- *)

LEMMA AppendFromPeer ==
  ASSUME NEW s \in Seq(Frames), NEW r \in BOOLEAN, NEW f \in Frames,
         Grounded(s, r), Believes(s, r), FromPeer(f)
  PROVE  Grounded(Append(s, f), r) /\ Believes(Append(s, f), r)
<1> DEFINE t == Append(s, f)
<1>1. /\ t \in Seq(Frames) /\ Len(t) = Len(s) + 1 /\ t[Len(s) + 1] = f /\ t # <<>>
      /\ \A i \in 1..Len(s) : t[i] = s[i]
  OBVIOUS
<1>2. Len(s) \in Nat /\ (s = <<>> <=> Len(s) = 0)
  OBVIOUS
<1> HIDE DEF t
<1>3. FromPeer(t[1]) => r
  <2>1. CASE s = <<>>
    BY <2>1, <1>1, <1>2 DEF Believes
  <2>2. CASE s # <<>>
    BY <2>2, <1>1, <1>2 DEF Grounded
  <2> QED BY <2>1, <2>2
<1>4. ASSUME NEW i \in 2..Len(t), FromPeer(t[i]), ~FromPeer(t[i - 1])
      PROVE  t[i - 1].n = 1
  <2>1. CASE i = Len(s) + 1
    <3>1. i - 1 = Len(s) /\ s # <<>> /\ t[i - 1] = s[Len(s)]
      BY <2>1, <1>1, <1>2, <1>4
    <3> QED BY <3>1, <1>4 DEF Believes
  <2>2. CASE i # Len(s) + 1
    <3>1. i \in 2..Len(s) /\ i \in 1..Len(s) /\ i - 1 \in 1..Len(s)
      BY <2>2, <1>1, <1>2, <1>4
    <3>2. t[i] = s[i] /\ t[i - 1] = s[i - 1]
      BY <3>1, <1>1
    <3> QED BY <3>1, <3>2, <1>4 DEF Grounded
  <2> QED BY <2>1, <2>2
<1>5. Grounded(t, r)
  BY <1>3, <1>4 DEF Grounded
<1>6. Believes(t, r)
  BY <1>1 DEF Believes
<1> QED
  BY <1>5, <1>6 DEF t

LEMMA AppendRoster ==
  ASSUME NEW s \in Seq(Frames), NEW r \in BOOLEAN, NEW f \in Frames,
         Grounded(s, r), ~FromPeer(f)
  PROVE  Grounded(Append(s, f), r) /\ (f.n = 1 => Believes(Append(s, f), r))
<1> DEFINE t == Append(s, f)
<1>1. /\ t \in Seq(Frames) /\ Len(t) = Len(s) + 1 /\ t[Len(s) + 1] = f /\ t # <<>>
      /\ \A i \in 1..Len(s) : t[i] = s[i]
  OBVIOUS
<1>2. Len(s) \in Nat /\ (s = <<>> <=> Len(s) = 0)
  OBVIOUS
<1> HIDE DEF t
<1>3. FromPeer(t[1]) => r
  <2>1. CASE s = <<>>
    BY <2>1, <1>1, <1>2
  <2>2. CASE s # <<>>
    BY <2>2, <1>1, <1>2 DEF Grounded
  <2> QED BY <2>1, <2>2
<1>4. ASSUME NEW i \in 2..Len(t), FromPeer(t[i]), ~FromPeer(t[i - 1])
      PROVE  t[i - 1].n = 1
  <2>1. i # Len(s) + 1
    BY <1>4, <1>1
  <2>2. i \in 2..Len(s) /\ i \in 1..Len(s) /\ i - 1 \in 1..Len(s)
    BY <2>1, <1>1, <1>2, <1>4
  <2>3. t[i] = s[i] /\ t[i - 1] = s[i - 1]
    BY <2>2, <1>1
  <2> QED BY <2>2, <2>3, <1>4 DEF Grounded
<1>5. Grounded(t, r)
  BY <1>3, <1>4 DEF Grounded
<1>6. f.n = 1 => Believes(t, r)
  BY <1>1 DEF Believes
<1> QED
  BY <1>5, <1>6 DEF t

\* The frames a page has held are sent when it has joined.
LEMMA AppendHeld ==
  ASSUME NEW s \in Seq(Frames), NEW r \in BOOLEAN, NEW h \in Seq(Frames),
         Grounded(s, r), Believes(s, r), \A i \in 1..Len(h) : FromPeer(h[i])
  PROVE  Grounded(s \o h, r) /\ Believes(s \o h, r)
<1> DEFINE t == s \o h
<1>1. /\ t \in Seq(Frames) /\ Len(t) = Len(s) + Len(h)
      /\ \A i \in 1..Len(s) : t[i] = s[i]
      /\ \A i \in Len(s) + 1..Len(t) : i - Len(s) \in 1..Len(h) /\ t[i] = h[i - Len(s)]
  <2>1. \A i \in 1..Len(s) + Len(h) : t[i] = IF i <= Len(s) THEN s[i] ELSE h[i - Len(s)]
    BY ConcatProperties
  <2> QED BY <2>1, ConcatProperties
<1>2. /\ Len(s) \in Nat /\ (s = <<>> <=> Len(s) = 0)
      /\ Len(h) \in Nat /\ Len(t) \in Nat /\ (t = <<>> <=> Len(t) = 0)
  BY <1>1
<1> HIDE DEF t
<1>3. \A i \in Len(s) + 1..Len(t) : FromPeer(t[i])
  BY <1>1
<1>4. t # <<>> /\ FromPeer(t[1]) => r
  <2>1. CASE s = <<>>
    BY <2>1 DEF Believes
  <2>2. CASE s # <<>>
    BY <2>2, <1>1, <1>2 DEF Grounded
  <2> QED BY <2>1, <2>2
<1>5. ASSUME NEW i \in 2..Len(t), FromPeer(t[i]), ~FromPeer(t[i - 1])
      PROVE  t[i - 1].n = 1
  <2>1. i - 1 \in 1..Len(s)
    BY <1>5, <1>3, <1>2
  <2>2. CASE i = Len(s) + 1
    <3>1. i - 1 = Len(s) /\ s # <<>> /\ t[i - 1] = s[Len(s)]
      BY <2>1, <2>2, <1>1, <1>2
    <3> QED BY <3>1, <1>5 DEF Believes
  <2>3. CASE i # Len(s) + 1
    <3>1. i \in 2..Len(s) /\ i \in 1..Len(s)
      BY <2>1, <2>3, <1>2, <1>5
    <3>2. t[i] = s[i] /\ t[i - 1] = s[i - 1]
      BY <3>1, <2>1, <1>1
    <3> QED BY <3>1, <3>2, <1>5 DEF Grounded
  <2> QED BY <2>2, <2>3
<1>6. Grounded(t, r)
  BY <1>4, <1>5 DEF Grounded
<1>7. Believes(t, r)
  <2>1. CASE h = <<>>
    <3>1. t = s
      BY <2>1 DEF t
    <3> QED BY <3>1
  <2>2. CASE h # <<>>
    <3>1. Len(h) > 0 /\ Len(t) \in Len(s) + 1..Len(t) /\ t # <<>>
      BY <2>2, <1>1, <1>2
    <3> QED BY <3>1, <1>3 DEF Believes
  <2> QED BY <2>1, <2>2
<1> QED
  BY <1>6, <1>7 DEF t

\* What is read is applied: a roster sets r, a frame of the peer finds it set.
LEMMA ReadHead ==
  ASSUME NEW s \in Seq(Frames), NEW r \in BOOLEAN, NEW q \in BOOLEAN,
         Grounded(s, r), s # <<>>,
         FromPeer(Head(s)) => q = r,
         ~FromPeer(Head(s)) => (q <=> Head(s).n = 1)
  PROVE  Grounded(Tail(s), q) /\ (Believes(s, r) => Believes(Tail(s), q))
<1> DEFINE t == Tail(s)
<1>1. /\ t \in Seq(Frames) /\ Len(t) = Len(s) - 1 /\ Head(s) = s[1]
      /\ \A i \in 1..Len(t) : t[i] = s[i + 1]
  <2>1. /\ t \in Seq(Frames) /\ Len(t) = Len(s) - 1
        /\ \A i \in 1..Len(t) : t[i] = s[i + 1]
    BY HeadTailProperties
  <2>2. Head(s) = s[1]
    OBVIOUS
  <2> QED BY <2>1, <2>2
<1>2. Len(s) \in Nat /\ Len(s) > 0
  OBVIOUS
<1> HIDE DEF t
<1>2a. Len(t) \in Nat /\ (t = <<>> <=> Len(t) = 0)
  BY <1>1
<1>3. ASSUME t # <<>>, FromPeer(t[1]) PROVE q
  <2>0. Len(t) >= 1 /\ 1 \in 1..Len(t)
    BY <1>3, <1>2a
  <2>1. 2 \in 2..Len(s) /\ 2 - 1 = 1 /\ t[1] = s[2]
    <3>1. t[1] = s[1 + 1]
      BY <2>0, <1>1
    <3>2. Len(s) >= 2
      BY <2>0, <1>1, <1>2, <1>2a
    <3> QED BY <3>1, <3>2
  <2>2. ~FromPeer(s[1]) => s[1].n = 1
    BY <2>1, <1>3 DEF Grounded
  <2>3. FromPeer(s[1]) => r
    BY DEF Grounded
  <2> QED BY <2>2, <2>3, <1>1
<1>4. ASSUME NEW i \in 2..Len(t), FromPeer(t[i]), ~FromPeer(t[i - 1])
      PROVE  t[i - 1].n = 1
  <2>1. i \in 1..Len(t) /\ i - 1 \in 1..Len(t) /\ i + 1 \in 2..Len(s) /\ (i - 1) + 1 = (i + 1) - 1
    BY <1>1, <1>2, <1>2a, <1>4
  <2>2. t[i] = s[i + 1] /\ t[i - 1] = s[(i + 1) - 1]
    BY <2>1, <1>1
  <2> QED BY <2>1, <2>2, <1>4 DEF Grounded
<1>5. Grounded(t, q)
  BY <1>3, <1>4 DEF Grounded
<1>6. Believes(s, r) => Believes(t, q)
  <2>1. CASE t = <<>>
    <3>1. Len(s) = 1
      BY <2>1, <1>1, <1>2, <1>2a
    <3>2. FromPeer(s[1]) => r
      BY DEF Grounded
    <3> QED BY <3>1, <3>2, <2>1, <1>1 DEF Believes
  <2>2. CASE t # <<>>
    <3>1. Len(t) \in 1..Len(t) /\ t[Len(t)] = s[Len(s)]
      BY <2>2, <1>1, <1>2, <1>2a
    <3> QED BY <3>1, <2>2 DEF Believes
  <2> QED BY <2>1, <2>2
<1> QED
  BY <1>5, <1>6 DEF t

LEMMA NothingRead ==
  ASSUME NEW r \in BOOLEAN, NEW f \in Frames, ~FromPeer(f)
  PROVE  /\ Grounded(<<>>, r)
         /\ Grounded(<<f>>, r) /\ (f.n = 1 => Believes(<<f>>, r))
BY DEF Grounded, Believes

(* --------------------------------- types --------------------------------- *)

Streamed == /\ online \in [Pages -> BOOLEAN]
            /\ inbox \in [Pages -> Seq(Frames)]
            /\ held \in [Pages -> Seq(Frames)]
            /\ roster \in [Pages -> BOOLEAN]
Linked == /\ entry \in [Pages -> Entries]
          /\ ui \in [Pages -> UiStates]

LEMMA TypeParts == TypeOK <=> Streamed /\ Linked /\ offers \in Nat /\ faults \in 0..MaxFaults
BY DEF TypeOK, Streamed, Linked, Entries

LEMMA PageFacts == /\ \A p \in Pages : Other(p) \in Pages /\ Other(p) # p
                   /\ \A p, q \in Pages : q = p \/ q = Other(p)
BY PeersDiffer DEF Pages, Other

LEMMA NoEntryType == NoEntry \in Entries
BY DEF NoEntry, Entries, MeshStates

LEMMA NewEntryType == \A p : NewEntry(p) \in Entries /\ NewEntry(p).state = "connecting"
BY DEF NewEntry, NoEntry, Entries, MeshStates

LEMMA ClosePcType ==
  ASSUME NEW e \in Entries
  PROVE  ClosePc(e) \in Entries /\ ClosePc(e).state = e.state
BY DEF ClosePc, Entries

LEMMA releaseType ==
  ASSUME NEW e \in Entries
  PROVE  releaseTransport(e) \in Entries /\ releaseTransport(e).state = e.state
BY ClosePcType DEF releaseTransport, Entries

\* An entry that is given the state s has it, and stays an entry.
LEMMA StateType ==
  ASSUME NEW e \in Entries, NEW s \in MeshStates
  PROVE  [e EXCEPT !.state = s] \in Entries /\ [e EXCEPT !.state = s].state = s
BY DEF Entries

Reasons == {"none", "signaling-error", "no-route", "timeout", "peer-left"}

LEMMA StateReasonType ==
  ASSUME NEW e \in Entries, NEW s \in MeshStates, NEW r \in Reasons
  PROVE  /\ [e EXCEPT !.state = s, !.reason = r] \in Entries
         /\ [e EXCEPT !.state = s, !.reason = r].state = s
BY DEF Entries, Reasons

LEMMA markFailedType ==
  ASSUME NEW e \in Entries, NEW why \in Reasons
  PROVE  /\ markFailed(e, why) \in Entries
         /\ e.state = "connected" => markFailed(e, why).state = "connected"
<1>1. "failed" \in MeshStates
  BY DEF MeshStates
<1>2. PICK d \in Entries : d = releaseTransport(e)
  BY releaseType
<1>3. [d EXCEPT !.state = "failed", !.reason = why] \in Entries
  BY <1>1, StateReasonType
<1> QED BY <1>2, <1>3 DEF markFailed

LEMMA markDroppedType ==
  ASSUME NEW e \in Entries
  PROVE  /\ markDropped(e) \in Entries
         /\ e.state = "connected" => markDropped(e).state = "dropped"
<1>1. "dropped" \in MeshStates /\ "peer-left" \in Reasons
  BY DEF MeshStates, Reasons
<1>2. PICK d \in Entries : d = releaseTransport(e)
  BY releaseType
<1>3. /\ [d EXCEPT !.state = "dropped", !.reason = "peer-left"] \in Entries
      /\ [d EXCEPT !.state = "dropped", !.reason = "peer-left"].state = "dropped"
  BY <1>1, StateReasonType
<1> QED BY <1>2, <1>3 DEF markDropped

LEMMA onIceTroubleType ==
  ASSUME NEW p, NEW e \in Entries
  PROVE  /\ onIceTrouble(p, e) \in Entries
         /\ e.state = "connected" => onIceTrouble(p, e).state = "dropped"
<1>1. CASE e.state = "connected"
  BY <1>1, markDroppedType DEF onIceTrouble
<1>2. CASE e.state # "connected" /\ e.restarted
  BY <1>2, markFailedType DEF onIceTrouble, Reasons
<1>3. CASE e.state # "connected" /\ ~e.restarted
  <2>1. e.offering + (IF p = Offerer THEN 1 ELSE 0) \in Nat
    BY DEF Entries
  <2>2. PICK n \in Nat : n = e.offering + (IF p = Offerer THEN 1 ELSE 0)
    BY <2>1
  <2>3. onIceTrouble(p, e) = [e EXCEPT !.restarted = TRUE, !.timer = TRUE, !.offering = n]
    BY <1>3, <2>2 DEF onIceTrouble
  <2>4. [e EXCEPT !.restarted = TRUE, !.timer = TRUE, !.offering = n] \in Entries
    BY DEF Entries
  <2> QED BY <1>3, <2>3, <2>4
<1> QED BY <1>1, <1>2, <1>3

LEMMA syncType ==
  ASSUME NEW u \in UiStates, NEW s \in MeshStates
  PROVE  /\ sync(u, s) \in UiStates
         /\ sync(u, s) = "absent" <=> u = "absent"
         /\ sync(u, s) = "connected" =>
               s = "connected" \/ (u = "connected" /\ s \notin {"dropped", "closed"})
BY DEF sync, p2pReducer, meshStateToEvent, UiStates, MeshStates

(* ------------------------- a change of one entry ------------------------- *)

\* What the mesh may make of an entry that is connected.
Settled(e, f) == e.state = "connected" => f.state \in {"connected", "dropped", "closed"}

LEMMA SetKeeps ==
  ASSUME Linked, Links, NEW p \in Pages, roster[p], NEW e \in Entries,
         Settled(entry[p], e), Set(p, e), roster' = roster
  PROVE  Linked' /\ Links'
<1>1. ui[p] \in UiStates /\ e.state \in MeshStates /\ entry[p] \in Entries
  BY DEF Linked, Entries
<1>2. /\ entry' = [entry EXCEPT ![p] = e]
      /\ ui' = [ui EXCEPT ![p] = sync(ui[p], e.state)]
  BY DEF Set
<1>3. /\ entry' \in [Pages -> Entries] /\ entry'[p] = e
      /\ ui' \in [Pages -> UiStates] /\ ui'[p] = sync(ui[p], e.state)
      /\ \A q \in Pages : q # p => entry'[q] = entry[q] /\ ui'[q] = ui[q]
  BY <1>1, <1>2, syncType DEF Linked
<1>4. ui'[p] # "absent"
  BY <1>1, <1>3, syncType DEF Links
<1>5. ui'[p] = "connected" => e.state = "connected"
  <2>1. ui[p] = "connected" => entry[p].state = "connected"
    BY DEF Links
  <2>2. sync(ui[p], e.state) = "connected" =>
           e.state = "connected" \/ (ui[p] = "connected" /\ e.state \notin {"dropped", "closed"})
    BY <1>1, syncType
  <2> QED BY <2>1, <2>2, <1>3 DEF Settled
<1>6. ASSUME NEW q \in Pages
      PROVE  /\ (ui'[q] = "absent") <=> ~roster'[q]
             /\ ~roster'[q] => entry'[q] = NoEntry
             /\ ui'[q] = "connected" => entry'[q].state = "connected"
  <2>1. CASE q = p
    BY <2>1, <1>3, <1>4, <1>5
  <2>2. CASE q # p
    BY <2>2, <1>3 DEF Links
  <2> QED BY <2>1, <2>2
<1> QED
  BY <1>3, <1>6 DEF Linked, Links

\* A change of the entry that the interface is not told of.
LEMMA QuietChange ==
  ASSUME Linked, Links, NEW p \in Pages, roster[p], NEW e \in Entries,
         e.state = entry[p].state, entry' = [entry EXCEPT ![p] = e],
         UNCHANGED <<ui, roster>>
  PROVE  Linked' /\ Links'
<1>1. /\ entry' \in [Pages -> Entries] /\ entry'[p] = e
      /\ \A q \in Pages : q # p => entry'[q] = entry[q]
  BY DEF Linked
<1> QED
  BY <1>1 DEF Linked, Links

\* An entry that is not in its initial state belongs to a peer of the roster.
LEMMA HasRoster ==
  ASSUME Linked, Links, NEW p \in Pages,
         \/ Alive(entry[p]) \/ entry[p].state # "none"
         \/ entry[p].offering > 0 \/ entry[p].answering > 0
         \/ entry[p].timer \/ entry[p].flushTimer
  PROVE  roster[p] /\ entry[p] \in Entries
BY NoEntryType DEF Linked, Links, NoEntry, Alive

LEMMA ensuredType ==
  ASSUME Linked, NEW p \in Pages
  PROVE  ensured(p) \in Entries /\ (entry[p].state = "connected" => ensured(p) = entry[p])
         /\ ensured(p).state # "none"
BY NewEntryType DEF ensured, Linked

(* ------------------- what the two streams are changed by ------------------ *)

LEMMA StreamsRest ==
  ASSUME Streamed, Streams, UNCHANGED <<online, inbox, held, roster>>
  PROVE  Streamed' /\ Streams'
BY DEF Streamed, Streams

LEMMA SendKeeps ==
  ASSUME Streamed, Streams, NEW p \in Pages, NEW f \in Frames, FromPeer(f),
         Send(p, f), UNCHANGED <<online, roster>>
  PROVE  Streamed' /\ Streams'
<1> DEFINE o == Other(p)
<1>0. o \in Pages /\ o # p /\ Other(o) = p
  BY PageFacts
<1>1. CASE ~online[p]
  <2>1. /\ inbox' = inbox /\ held' = [held EXCEPT ![p] = Append(held[p], f)]
    BY <1>1 DEF Send
  <2>2. /\ held' \in [Pages -> Seq(Frames)] /\ held'[p] = Append(held[p], f)
        /\ \A q \in Pages : q # p => held'[q] = held[q]
    BY <2>1 DEF Streamed
  <2>3. \A i \in 1..Len(held'[p]) : FromPeer(held'[p][i])
    <3>1. held[p] \in Seq(Frames) /\ \A i \in 1..Len(held[p]) : FromPeer(held[p][i])
      BY DEF Streamed, Streams
    <3>2. PICK h \in Seq(Frames) : h = held[p]
      BY <3>1
    <3>3. \A i \in 1..Len(Append(h, f)) : Append(h, f)[i] = f \/ (i \in 1..Len(h) /\ Append(h, f)[i] = h[i])
      OBVIOUS
    <3> QED BY <3>1, <3>2, <3>3, <2>2
  <2> QED BY <2>1, <2>2, <2>3 DEF Streamed, Streams
<1>2. CASE online[p] /\ ~online[o]
  BY <1>2, StreamsRest DEF Send
<1>3. CASE online[p] /\ online[o]
  <2>1. held' = held /\ inbox' = [inbox EXCEPT ![o] = Append(inbox[o], f)]
    BY <1>3 DEF Send
  <2>2. /\ inbox[o] \in Seq(Frames) /\ roster[o] \in BOOLEAN
        /\ Grounded(inbox[o], roster[o]) /\ Believes(inbox[o], roster[o])
    BY <1>0, <1>3 DEF Streamed, Streams
  <2>3. Grounded(Append(inbox[o], f), roster[o]) /\ Believes(Append(inbox[o], f), roster[o])
    BY <2>2, AppendFromPeer
  <2>4. /\ inbox' \in [Pages -> Seq(Frames)] /\ inbox'[o] = Append(inbox[o], f)
        /\ \A q \in Pages : q # o => inbox'[q] = inbox[q]
    BY <2>1, <2>2, <1>0 DEF Streamed
  <2>5. ASSUME NEW q \in Pages
        PROVE  Grounded(inbox'[q], roster'[q]) /\ (online'[q] /\ online'[Other(q)] => Believes(inbox'[q], roster'[q]))
    BY <2>3, <2>4 DEF Streams
  <2> QED BY <2>1, <2>4, <2>5 DEF Streamed, Streams
<1> QED BY <1>1, <1>2, <1>3

LEMMA ReadKeeps ==
  ASSUME Streamed, Streams, NEW p \in Pages, inbox[p] # <<>>, inbox' = Read(p),
         UNCHANGED <<online, held>>, roster' \in [Pages -> BOOLEAN],
         \A q \in Pages : q # p => roster'[q] = roster[q],
         FromPeer(Head(inbox[p])) => roster'[p] = roster[p],
         ~FromPeer(Head(inbox[p])) => (roster'[p] <=> Head(inbox[p]).n = 1)
  PROVE  Streamed' /\ Streams'
<1>1. /\ inbox[p] \in Seq(Frames) /\ roster[p] \in BOOLEAN /\ roster'[p] \in BOOLEAN
      /\ Grounded(inbox[p], roster[p]) /\ Tail(inbox[p]) \in Seq(Frames)
  BY DEF Streamed, Streams
<1>2. /\ Grounded(Tail(inbox[p]), roster'[p])
      /\ Believes(inbox[p], roster[p]) => Believes(Tail(inbox[p]), roster'[p])
  BY <1>1, ReadHead
<1>3. /\ inbox' \in [Pages -> Seq(Frames)] /\ inbox'[p] = Tail(inbox[p])
      /\ \A q \in Pages : q # p => inbox'[q] = inbox[q]
  BY <1>1 DEF Read, Streamed
<1>4. ASSUME NEW q \in Pages
      PROVE  Grounded(inbox'[q], roster'[q]) /\ (online'[q] /\ online'[Other(q)] => Believes(inbox'[q], roster'[q]))
  BY <1>2, <1>3 DEF Streams
<1> QED BY <1>3, <1>4 DEF Streamed, Streams

LEMMA RosterFrame == /\ Roster(TRUE) \in Frames /\ ~FromPeer(Roster(TRUE)) /\ Roster(TRUE).n = 1
                     /\ Roster(FALSE) \in Frames /\ ~FromPeer(Roster(FALSE))
BY DEF Roster, Frames, FromPeer

LEMMA OfflineKeeps ==
  ASSUME Streamed, Streams, NEW p \in Pages, GoesOffline(p),
         held' = [held EXCEPT ![p] = <<>>], roster' \in [Pages -> BOOLEAN],
         \A q \in Pages : q # p => roster'[q] = roster[q]
  PROVE  Streamed' /\ Streams'
<1> DEFINE f == Roster(FALSE)
<1>1. f \in Frames /\ ~FromPeer(f)
  BY RosterFrame
<1>2. /\ online' \in [Pages -> BOOLEAN] /\ ~online'[p]
      /\ inbox' = [q \in Pages |-> IF q = p \/ ~online[q] THEN <<>> ELSE Append(inbox[q], f)]
  BY DEF GoesOffline, Streamed
<1> HIDE DEF f
<1>3. ASSUME NEW q \in Pages
      PROVE  inbox'[q] \in Seq(Frames) /\ Grounded(inbox'[q], roster'[q])
  <2>1. CASE q = p \/ ~online[q]
    <3>1. inbox'[q] = <<>>
      BY <2>1, <1>2
    <3> QED BY <3>1 DEF Grounded
  <2>2. CASE q # p /\ online[q]
    <3>1. inbox'[q] = Append(inbox[q], f) /\ roster'[q] = roster[q]
      BY <2>2, <1>2
    <3>2. inbox[q] \in Seq(Frames) /\ roster[q] \in BOOLEAN /\ Grounded(inbox[q], roster[q])
      BY DEF Streamed, Streams
    <3>3. Append(inbox[q], f) \in Seq(Frames)
      BY <3>2, <1>1
    <3> QED BY <3>1, <3>2, <3>3, <1>1, AppendRoster
  <2> QED BY <2>1, <2>2
<1>4. inbox' \in [Pages -> Seq(Frames)]
  <2>1. inbox' = [q \in Pages |-> inbox'[q]]
    BY <1>2
  <2> QED BY <2>1, <1>3
<1>5. held' \in [Pages -> Seq(Frames)] /\ \A q \in Pages : \A i \in 1..Len(held'[q]) : FromPeer(held'[q][i])
  BY DEF Streamed, Streams
<1>6. \A q \in Pages : ~(online'[q] /\ online'[Other(q)])
  BY <1>2, PageFacts
<1> QED BY <1>2, <1>3, <1>4, <1>5, <1>6 DEF Streamed, Streams

LEMMA JoinKeeps ==
  ASSUME Streamed, Streams, NEW p \in Pages, Join(p)
  PROVE  Streamed' /\ Streams'
<1>1. /\ ~online[p] /\ roster' = roster
      /\ online' = [online EXCEPT ![p] = TRUE]
      /\ held' = [held EXCEPT ![p] = <<>>]
      /\ inbox' = [q \in Pages |->
           IF q = p THEN <<Roster(online[Other(p)])>>
           ELSE IF online[q] THEN inbox[q] \o <<Roster(TRUE)>> \o held[p] ELSE inbox[q]]
  BY DEF Join
<1>2. PICK b \in BOOLEAN : b = online[Other(p)]
  BY PageFacts DEF Streamed
<1>3. /\ online' \in [Pages -> BOOLEAN] /\ online'[Other(p)] = b
      /\ \A q \in Pages : q # p => online'[q] = online[q]
  BY <1>1, <1>2, PageFacts DEF Streamed
<1>4. held' \in [Pages -> Seq(Frames)] /\ \A q \in Pages : \A i \in 1..Len(held'[q]) : FromPeer(held'[q][i])
  BY <1>1 DEF Streamed, Streams
<1>5. ASSUME NEW q \in Pages
      PROVE  /\ inbox'[q] \in Seq(Frames) /\ Grounded(inbox'[q], roster'[q])
             /\ online'[q] /\ online'[Other(q)] => Believes(inbox'[q], roster'[q])
  <2>1. inbox[q] \in Seq(Frames) /\ roster[q] \in BOOLEAN /\ Grounded(inbox[q], roster[q])
    BY DEF Streamed, Streams
  <2>2. CASE q = p
    <3>1. inbox'[q] = <<Roster(b)>>
      BY <2>2, <1>1, <1>2
    <3>2. Roster(b) \in Frames /\ ~FromPeer(Roster(b)) /\ (b => Roster(b).n = 1)
      <4>1. CASE b = TRUE
        BY <4>1, RosterFrame
      <4>2. CASE b = FALSE
        BY <4>2, RosterFrame
      <4> QED BY <4>1, <4>2
    <3>3. <<Roster(b)>> \in Seq(Frames)
      BY <3>2
    <3> QED BY <3>1, <3>2, <3>3, <2>1, <2>2, <1>1, <1>3, NothingRead
  <2>3. CASE q # p /\ ~online[q]
    BY <2>1, <2>3, <1>1, <1>3
  <2>4. CASE q # p /\ online[q]
    <3>1. PICK f \in Frames : f = Roster(TRUE) /\ ~FromPeer(f) /\ f.n = 1
      BY RosterFrame
    <3>2. /\ Append(inbox[q], f) \in Seq(Frames)
          /\ inbox[q] \o <<f>> = Append(inbox[q], f)
      BY <2>1
    <3>3. Grounded(Append(inbox[q], f), roster[q]) /\ Believes(Append(inbox[q], f), roster[q])
      BY <3>1, <2>1, AppendRoster
    <3>4. held[p] \in Seq(Frames) /\ \A i \in 1..Len(held[p]) : FromPeer(held[p][i])
      BY DEF Streamed, Streams
    <3>5. inbox'[q] = Append(inbox[q], f) \o held[p]
      BY <3>1, <3>2, <2>4, <1>1
    <3>6. Append(inbox[q], f) \o held[p] \in Seq(Frames)
      BY <3>2, <3>4
    <3>7. /\ Grounded(Append(inbox[q], f) \o held[p], roster[q])
          /\ Believes(Append(inbox[q], f) \o held[p], roster[q])
      BY <3>2, <3>3, <3>4, <2>1, AppendHeld
    <3> QED BY <3>5, <3>6, <3>7, <1>1
  <2> QED BY <2>2, <2>3, <2>4
<1>6. inbox' \in [Pages -> Seq(Frames)]
  <2>1. inbox' = [q \in Pages |-> inbox'[q]]
    BY <1>1
  <2> QED BY <2>1, <1>5
<1> QED BY <1>1, <1>3, <1>4, <1>5, <1>6 DEF Streamed, Streams

(* ------------------------------ each step -------------------------------- *)

LEMMA FrameTypes ==
  /\ \A n \in Nat : /\ [kind |-> "offer", n |-> n] \in Frames /\ FromPeer([kind |-> "offer", n |-> n])
                    /\ [kind |-> "answer", n |-> n] \in Frames /\ FromPeer([kind |-> "answer", n |-> n])
  /\ [kind |-> "candidates", n |-> 0] \in Frames /\ FromPeer([kind |-> "candidates", n |-> 0])
BY DEF Frames, FromPeer

\* A frame of the peer that is about to be read, for a page that knows it.
LEMMA PeerFrameRead ==
  ASSUME Streamed, Streams, NEW p \in Pages, inbox[p] # <<>>, FromPeer(Head(inbox[p]))
  PROVE  roster[p] /\ Head(inbox[p]) \in Frames
<1>1. inbox[p] \in Seq(Frames) /\ Grounded(inbox[p], roster[p])
  BY DEF Streamed, Streams
<1>2. PICK s \in Seq(Frames) : s = inbox[p]
  BY <1>1
<1>3. Head(s) = s[1] /\ Head(s) \in Frames
  BY <1>2
<1> QED BY <1>1, <1>2, <1>3 DEF Grounded

LEMMA ReadAndSet ==
  ASSUME Streamed, Streams, Linked, Links, NEW p \in Pages, NEW kind,
         kind # "roster", Reads(p, kind), inbox' = Read(p), NEW e \in Entries,
         Settled(entry[p], e), Set(p, e), UNCHANGED <<online, held, roster>>
  PROVE  Streamed' /\ Streams' /\ Linked' /\ Links'
<1>1. inbox[p] # <<>> /\ FromPeer(Head(inbox[p]))
  BY DEF Reads, FromPeer
<1>2. roster[p]
  BY <1>1, PeerFrameRead
<1>3. roster' \in [Pages -> BOOLEAN] /\ \A q \in Pages : roster'[q] = roster[q]
  BY DEF Streamed
<1>4. Streamed' /\ Streams'
  BY <1>1, <1>3, ReadKeeps
<1> QED BY <1>2, <1>4, SetKeeps

LEMMA OfferStep ==
  ASSUME Streamed, Streams, Linked, Links, NEW p \in Pages, ReceivesOffer(p)
  PROVE  Streamed' /\ Streams' /\ Linked' /\ Links'
<1> DEFINE d == ensured(p)
           f == IF Alive(d) /\ d.sig \in {"stable", "remote"}
                THEN [d EXCEPT !.sig = "remote", !.offer = Head(inbox[p]).n,
                               !.remoteReady = TRUE, !.answering = d.answering + 1]
                ELSE markFailed(d, "signaling-error")
<1>1. PICK e \in Entries : e = d
  BY ensuredType
<1>2. Reads(p, "offer") /\ inbox' = Read(p) /\ Set(p, f) /\ UNCHANGED <<online, held, roster>>
  BY DEF ReceivesOffer
<1>3. Head(inbox[p]).n \in Nat
  BY <1>2, PeerFrameRead DEF Reads, FromPeer, Frames
<1>4. f \in Entries /\ (e.state = "connected" => f.state = "connected")
  <2>1. CASE Alive(d) /\ d.sig \in {"stable", "remote"}
    <3>1. PICK n \in Nat : n = Head(inbox[p]).n
      BY <1>3
    <3>2. PICK a \in Nat : a = e.answering + 1
      BY DEF Entries
    <3>3. f = [e EXCEPT !.sig = "remote", !.offer = n, !.remoteReady = TRUE, !.answering = a]
      BY <2>1, <1>1, <3>1, <3>2
    <3> HIDE DEF f
    <3> QED BY <3>3 DEF Entries
  <2>2. CASE ~(Alive(d) /\ d.sig \in {"stable", "remote"})
    BY <2>2, <1>1, markFailedType DEF Reasons
  <2> QED BY <2>1, <2>2
<1>5. Settled(entry[p], f)
  BY <1>1, <1>4, ensuredType DEF Settled
<1> HIDE DEF f
<1>6. "offer" # "roster"
  OBVIOUS
<1> QED BY <1>2, <1>4, <1>5, <1>6, ReadAndSet

LEMMA AnswerStep ==
  ASSUME Streamed, Streams, Linked, Links, NEW p \in Pages, ReceivesAnswer(p)
  PROVE  Streamed' /\ Streams' /\ Linked' /\ Links'
<1> DEFINE d == ensured(p)
           n == Head(inbox[p]).n
           f == IF Alive(d) /\ d.sig = "offered"
                THEN [d EXCEPT !.sig = "stable", !.agreed = IF n = d.offer THEN n ELSE 0,
                               !.remoteReady = TRUE]
                ELSE markFailed(d, "signaling-error")
<1>1. PICK e \in Entries : e = d
  BY ensuredType
<1>2. Reads(p, "answer") /\ inbox' = Read(p) /\ Set(p, f) /\ UNCHANGED <<online, held, roster>>
  BY DEF ReceivesAnswer
<1>3. n \in Nat
  BY <1>2, PeerFrameRead DEF Reads, FromPeer, Frames
<1>4. f \in Entries /\ (e.state = "connected" => f.state = "connected")
  <2>1. CASE Alive(d) /\ d.sig = "offered"
    <3>1. PICK a \in Nat : a = IF n = d.offer THEN n ELSE 0
      BY <1>3
    <3>2. f = [e EXCEPT !.sig = "stable", !.agreed = a, !.remoteReady = TRUE]
      BY <2>1, <1>1, <3>1
    <3> HIDE DEF f
    <3> QED BY <3>2 DEF Entries
  <2>2. CASE ~(Alive(d) /\ d.sig = "offered")
    BY <2>2, <1>1, markFailedType DEF Reasons
  <2> QED BY <2>1, <2>2
<1>5. Settled(entry[p], f)
  BY <1>1, <1>4, ensuredType DEF Settled
<1> HIDE DEF f
<1>6. "answer" # "roster"
  OBVIOUS
<1> QED BY <1>2, <1>4, <1>5, <1>6, ReadAndSet

LEMMA CandidatesStep ==
  ASSUME Streamed, Streams, Linked, Links, NEW p \in Pages, ReceivesCandidates(p)
  PROVE  Streamed' /\ Streams' /\ Linked' /\ Links'
<1> DEFINE d == ensured(p)
           f == IF d.remoteReady /\ ~Alive(d) THEN markFailed(d, "signaling-error") ELSE d
<1>1. PICK e \in Entries : e = d
  BY ensuredType
<1>2. Reads(p, "candidates") /\ inbox' = Read(p) /\ Set(p, f) /\ UNCHANGED <<online, held, roster>>
  BY DEF ReceivesCandidates
<1>4. f \in Entries /\ (e.state = "connected" => f.state = "connected")
  BY <1>1, markFailedType DEF Reasons
<1>5. Settled(entry[p], f)
  BY <1>1, <1>4, ensuredType DEF Settled
<1> HIDE DEF f
<1>6. "candidates" # "roster"
  OBVIOUS
<1> QED BY <1>2, <1>4, <1>5, <1>6, ReadAndSet

\* A roster that names the peer, or no longer does.
LEMMA RosterStep ==
  ASSUME Streamed, Streams, Linked, Links, NEW p \in Pages, ensurePeer(p) \/ removePeer(p)
  PROVE  Streamed' /\ Streams' /\ Linked' /\ Links'
<1>1. /\ inbox[p] # <<>> /\ ~FromPeer(Head(inbox[p])) /\ inbox' = Read(p)
      /\ UNCHANGED <<online, held>>
  BY DEF ensurePeer, removePeer, Reads, FromPeer
<1>2. /\ roster' \in [Pages -> BOOLEAN]
      /\ \A q \in Pages : q # p => roster'[q] = roster[q]
  BY DEF Streamed, ensurePeer, removePeer
<1>3. (roster'[p] <=> Head(inbox[p]).n = 1)
  <2>1. CASE ensurePeer(p)
    <3>1. Head(inbox[p]).n = 1 /\ roster' = [roster EXCEPT ![p] = TRUE]
      BY <2>1 DEF ensurePeer, Reads
    <3>2. roster'[p] = TRUE
      BY <3>1 DEF Streamed
    <3> QED BY <3>1, <3>2
  <2>2. CASE removePeer(p)
    <3>1. Head(inbox[p]).n = 0 /\ roster' = [roster EXCEPT ![p] = FALSE]
      BY <2>2 DEF removePeer, Reads
    <3>2. roster'[p] = FALSE
      BY <3>1 DEF Streamed
    <3> QED BY <3>1, <3>2
  <2> QED BY <2>1, <2>2
<1>4. Streamed' /\ Streams'
  BY <1>1, <1>2, <1>3, ReadKeeps
<1>5. CASE ensurePeer(p)
  <2>1. PICK e \in Entries : /\ e = ensured(p) /\ (entry[p].state = "connected" => e = entry[p])
    BY ensuredType
  <2>2. PICK v : v = p2pReducer(IF ui[p] = "absent" THEN "idle" ELSE ui[p], "ensure")
    OBVIOUS
  <2>3. v \in UiStates /\ v # "absent" /\ (v = "connected" => ui[p] = "connected")
    BY <2>2 DEF p2pReducer, UiStates, Linked
  <2>4. /\ entry' = [entry EXCEPT ![p] = e] /\ ui' = [ui EXCEPT ![p] = v]
        /\ roster' = [roster EXCEPT ![p] = TRUE]
    BY <1>5, <2>1, <2>2 DEF ensurePeer
  <2>5. /\ entry' \in [Pages -> Entries] /\ entry'[p] = e
        /\ ui' \in [Pages -> UiStates] /\ ui'[p] = v /\ roster'[p]
        /\ \A q \in Pages : q # p => entry'[q] = entry[q] /\ ui'[q] = ui[q] /\ roster'[q] = roster[q]
    BY <2>3, <2>4 DEF Linked, Streamed
  <2>6. v = "connected" => e.state = "connected"
    BY <2>1, <2>3 DEF Links
  <2>7. ASSUME NEW q \in Pages
        PROVE  /\ (ui'[q] = "absent") <=> ~roster'[q]
               /\ ~roster'[q] => entry'[q] = NoEntry
               /\ ui'[q] = "connected" => entry'[q].state = "connected"
    <3>1. CASE q = p
      BY <3>1, <2>3, <2>5, <2>6
    <3>2. CASE q # p
      BY <3>2, <2>5 DEF Links
    <3> QED BY <3>1, <3>2
  <2> QED BY <2>5, <2>7, <1>4 DEF Linked, Links
<1>6. CASE removePeer(p)
  <2>1. /\ roster' = [roster EXCEPT ![p] = FALSE]
        /\ entry' = [entry EXCEPT ![p] = NoEntry]
        /\ ui' = [ui EXCEPT ![p] = "absent"]
    <3>1. CASE roster[p]
      BY <1>6, <3>1 DEF removePeer
    <3>2. CASE ~roster[p]
      <4>1. entry[p] = NoEntry /\ ui[p] = "absent"
        BY <3>2 DEF Links
      <4> QED BY <1>6, <3>2, <4>1 DEF removePeer, Linked
    <3> QED BY <3>1, <3>2
  <2>2. /\ entry' \in [Pages -> Entries] /\ entry'[p] = NoEntry
        /\ ui' \in [Pages -> UiStates] /\ ui'[p] = "absent" /\ ~roster'[p]
        /\ \A q \in Pages : q # p => entry'[q] = entry[q] /\ ui'[q] = ui[q] /\ roster'[q] = roster[q]
    BY <2>1, NoEntryType DEF Linked, Streamed, UiStates
  <2>3. ASSUME NEW q \in Pages
        PROVE  /\ (ui'[q] = "absent") <=> ~roster'[q]
               /\ ~roster'[q] => entry'[q] = NoEntry
               /\ ui'[q] = "connected" => entry'[q].state = "connected"
    <3>1. CASE q = p
      BY <3>1, <2>2
    <3>2. CASE q # p
      BY <3>2, <2>2 DEF Links
    <3> QED BY <3>1, <3>2
  <2> QED BY <2>2, <2>3, <1>4 DEF Linked, Links
<1> QED BY <1>5, <1>6

\* A step of page p alone that the interface is told of.
LEMMA OwnSet ==
  ASSUME Streamed, Streams, Linked, Links, NEW p \in Pages, entry[p].state # "none",
         NEW e \in Entries, Settled(entry[p], e), Set(p, e),
         UNCHANGED <<online, inbox, held, roster>>
  PROVE  Streamed' /\ Streams' /\ Linked' /\ Links'
BY HasRoster, SetKeeps, StreamsRest

LEMMA makeOfferStep ==
  ASSUME TypeOK, Streams, Links, NEW p \in Pages, makeOffer(p)
  PROVE  Streamed' /\ Streams' /\ Linked' /\ Links'
<1>1. Streamed /\ Linked /\ offers \in Nat /\ entry[p].offering > 0
  BY TypeParts DEF makeOffer
<1>2. roster[p]
  BY <1>1, HasRoster
<1>3. PICK e \in Entries : e = entry[p]
  BY <1>1 DEF Linked
<1>4. PICK m \in Nat : m = e.offering - 1
  BY <1>1, <1>3 DEF Entries
<1>5. PICK n \in Nat : n = offers + 1
  BY <1>1
<1>6. PICK f : f = [e EXCEPT !.offering = m, !.sig = "offered", !.offer = n]
  OBVIOUS
<1>7. f \in Entries /\ f.state = e.state
  BY <1>6 DEF Entries
<1>8. entry' = [entry EXCEPT ![p] = f]
  BY <1>3, <1>4, <1>5, <1>6, <1>1 DEF makeOffer, Linked
<1>9. Linked' /\ Links'
  BY <1>1, <1>2, <1>3, <1>7, <1>8, QuietChange DEF makeOffer
<1>10. /\ [kind |-> "offer", n |-> n] \in Frames /\ FromPeer([kind |-> "offer", n |-> n])
       /\ Send(p, [kind |-> "offer", n |-> n]) /\ UNCHANGED <<online, roster>>
  BY <1>5, FrameTypes DEF makeOffer
<1> QED BY <1>1, <1>9, <1>10, SendKeeps

LEMMA makeAnswerStep ==
  ASSUME Streamed, Streams, Linked, Links, NEW p \in Pages, makeAnswer(p)
  PROVE  Streamed' /\ Streams' /\ Linked' /\ Links'
<1>1. entry[p].answering > 0 /\ UNCHANGED <<online, roster>>
  BY DEF makeAnswer
<1>2. roster[p]
  BY <1>1, HasRoster
<1>3. PICK o \in Entries : o = entry[p]
  BY DEF Linked
<1>4. PICK m \in Nat : m = o.answering - 1
  BY <1>1, <1>3 DEF Entries
<1>5. PICK e : e = [o EXCEPT !.answering = m]
  OBVIOUS
<1>6. e \in Entries /\ e.state = o.state
  BY <1>5 DEF Entries
<1>7. e = [entry[p] EXCEPT !.answering = @ - 1]
  BY <1>3, <1>4, <1>5
<1>8. CASE e.sig = "remote"
  <2>1. PICK n \in Nat : n = e.offer
    BY <1>6 DEF Entries
  <2>2. PICK f : f = [e EXCEPT !.sig = "stable", !.agreed = n]
    OBVIOUS
  <2>3. f \in Entries /\ f.state = e.state
    BY <2>2, <1>6 DEF Entries
  <2>4. Set(p, f) /\ Send(p, [kind |-> "answer", n |-> n])
    BY <1>7, <1>8, <2>1, <2>2 DEF makeAnswer
  <2>5. Linked' /\ Links'
    BY <1>1, <1>2, <1>3, <1>6, <2>3, <2>4, SetKeeps DEF Settled
  <2>6. [kind |-> "answer", n |-> n] \in Frames /\ FromPeer([kind |-> "answer", n |-> n])
    BY FrameTypes
  <2> QED BY <1>1, <2>4, <2>5, <2>6, SendKeeps
<1>9. CASE e.sig # "remote"
  <2>1. Set(p, markFailed(e, "signaling-error")) /\ UNCHANGED <<inbox, held>>
    BY <1>7, <1>9 DEF makeAnswer
  <2>2. /\ markFailed(e, "signaling-error") \in Entries
        /\ e.state = "connected" => markFailed(e, "signaling-error").state = "connected"
    BY <1>6, markFailedType DEF Reasons
  <2>3. Settled(entry[p], markFailed(e, "signaling-error"))
    BY <2>2, <1>3, <1>6 DEF Settled
  <2> QED BY <1>1, <1>2, <2>1, <2>2, <2>3, SetKeeps, StreamsRest
<1> QED BY <1>8, <1>9

LEMMA CandidateSteps ==
  ASSUME Streamed, Streams, Linked, Links, NEW p \in Pages,
         queueCandidate(p) \/ flushOutboundCandidates(p)
  PROVE  Streamed' /\ Streams' /\ Linked' /\ Links'
<1>1. roster[p]
  BY HasRoster DEF queueCandidate, flushOutboundCandidates
<1>2. PICK o \in Entries : o = entry[p]
  BY DEF Linked
<1>3. PICK b \in BOOLEAN : entry' = [entry EXCEPT ![p] = [o EXCEPT !.flushTimer = b]]
  <2>1. CASE queueCandidate(p)
    <3>1. entry' = [entry EXCEPT ![p] = [o EXCEPT !.flushTimer = TRUE]]
      BY <2>1, <1>2 DEF queueCandidate, Linked
    <3> QED BY <3>1
  <2>2. CASE flushOutboundCandidates(p)
    <3>1. entry' = [entry EXCEPT ![p] = [o EXCEPT !.flushTimer = FALSE]]
      BY <2>2, <1>2 DEF flushOutboundCandidates, Linked
    <3> QED BY <3>1
  <2> QED BY <2>1, <2>2
<1>4. PICK e : e = [o EXCEPT !.flushTimer = b]
  OBVIOUS
<1>5. e \in Entries /\ e.state = o.state
  BY <1>4 DEF Entries
<1>6. UNCHANGED <<ui, roster, online>>
  BY DEF queueCandidate, flushOutboundCandidates
<1>7. Linked' /\ Links'
  BY <1>1, <1>2, <1>3, <1>4, <1>5, <1>6, QuietChange
<1>8. CASE queueCandidate(p)
  BY <1>7, <1>8, StreamsRest DEF queueCandidate
<1>9. CASE flushOutboundCandidates(p)
  <2>1. /\ Send(p, [kind |-> "candidates", n |-> 0])
        /\ [kind |-> "candidates", n |-> 0] \in Frames
        /\ FromPeer([kind |-> "candidates", n |-> 0])
    BY <1>9, FrameTypes DEF flushOutboundCandidates
  <2> QED BY <1>6, <1>7, <2>1, SendKeeps
<1> QED BY <1>8, <1>9

LEMMA TimeoutStep ==
  ASSUME Streamed, Streams, Linked, Links, NEW p \in Pages, Timeout(p)
  PROVE  Streamed' /\ Streams' /\ Linked' /\ Links'
<1>1. entry[p].timer /\ UNCHANGED <<online, inbox, held, roster>>
  BY DEF Timeout
<1>2. roster[p]
  BY <1>1, HasRoster
<1>3. PICK o \in Entries : o = entry[p]
  BY DEF Linked
<1>4. PICK e : e = [o EXCEPT !.timer = FALSE]
  OBVIOUS
<1>5. e \in Entries /\ e.state = o.state
  BY <1>4 DEF Entries
<1>6. PICK f : f = IF e.state # "connecting" THEN e
                   ELSE IF ~e.restarted THEN onIceTrouble(p, e)
                   ELSE markFailed(e, IF e.remoteReady THEN "no-route" ELSE "timeout")
  OBVIOUS
<1>7. f \in Entries /\ (e.state = "connected" => f = e)
  BY <1>5, <1>6, onIceTroubleType, markFailedType DEF Reasons
<1>8. Set(p, f)
  BY <1>3, <1>4, <1>6 DEF Timeout
<1>9. Settled(entry[p], f)
  BY <1>3, <1>5, <1>7 DEF Settled
<1> QED BY <1>1, <1>2, <1>7, <1>8, <1>9, SetKeeps, StreamsRest

LEMMA ChannelSteps ==
  ASSUME Streamed, Streams, Linked, Links, NEW p \in Pages,
         DcOpens(p) \/ DcCloses(p) \/ OwnDcCloses(p) \/ IceFails(p) \/ DcErrs(p)
  PROVE  Streamed' /\ Streams' /\ Linked' /\ Links'
<1>1. PICK o \in Entries : o = entry[p]
  BY DEF Linked
<1>2. o.state # "none" /\ UNCHANGED <<online, inbox, held, roster>>
  BY <1>1 DEF DcOpens, DcCloses, OwnDcCloses, IceFails, DcErrs, Alive
<1>3. CASE DcOpens(p)
  <2>1. PICK e : e = [o EXCEPT !.state = "connected", !.reason = "none", !.timer = FALSE]
    OBVIOUS
  <2>2. e \in Entries /\ e.state = "connected"
    BY <2>1 DEF Entries, MeshStates
  <2>3. Set(p, e)
    BY <1>3, <2>1, <1>1 DEF DcOpens
  <2> QED BY <1>1, <1>2, <2>2, <2>3, OwnSet DEF Settled
<1>4. CASE DcCloses(p)
  <2>1. "closed" \in MeshStates
    BY DEF MeshStates
  <2>2. PICK e : e = [releaseTransport(o) EXCEPT !.state = "closed"]
    OBVIOUS
  <2>3. e \in Entries /\ e.state = "closed"
    BY <2>1, <2>2, releaseType, StateType
  <2>4. Set(p, e)
    BY <1>4, <2>2, <1>1 DEF DcCloses
  <2> QED BY <1>1, <1>2, <2>3, <2>4, OwnSet DEF Settled
<1>5. CASE OwnDcCloses(p)
  <2>1. "closed" \in MeshStates
    BY DEF MeshStates
  <2>2. PICK e : e = IF o.state = "failed" THEN o ELSE [o EXCEPT !.state = "closed"]
    OBVIOUS
  <2>3. e \in Entries
    BY <2>1, <2>2, StateType
  <2>4. Set(p, e) /\ o.state # "connected"
    BY <1>5, <2>2, <1>1 DEF OwnDcCloses
  <2> QED BY <1>1, <1>2, <2>3, <2>4, OwnSet DEF Settled
<1>6. CASE IceFails(p)
  <2>1. Set(p, onIceTrouble(p, o))
    BY <1>6, <1>1 DEF IceFails
  <2>2. onIceTrouble(p, o) \in Entries /\ Settled(o, onIceTrouble(p, o))
    BY onIceTroubleType DEF Settled
  <2> QED BY <1>1, <1>2, <2>1, <2>2, OwnSet
<1>7. CASE DcErrs(p)
  <2>1. PICK e : e = IF o.state = "connected" THEN markDropped(o) ELSE markFailed(o, "no-route")
    OBVIOUS
  <2>2. Set(p, e)
    BY <1>7, <2>1, <1>1 DEF DcErrs
  <2>3. e \in Entries /\ Settled(o, e)
    BY <2>1, markDroppedType, markFailedType DEF Settled, Reasons
  <2> QED BY <1>1, <1>2, <2>2, <2>3, OwnSet
<1> QED BY <1>3, <1>4, <1>5, <1>6, <1>7

LEMMA EstablishStep ==
  ASSUME Streamed, Streams, Linked, Links, Establish
  PROVE  Streamed' /\ Streams' /\ Linked' /\ Links'
<1>1. PICK n \in Nat : n = entry[Offerer].agreed
  BY DEF Linked, Entries, Pages
<1>2. /\ entry' = [entry EXCEPT ![Offerer].up = n, ![Answerer].up = n]
      /\ Alive(entry[Offerer]) /\ Alive(entry[Answerer])
      /\ UNCHANGED <<online, inbox, held, roster, ui>>
  BY <1>1 DEF Establish
<1>3. \A p \in Pages : roster[p]
  BY <1>2, HasRoster DEF Pages
<1>4. \A p \in Pages : entry'[p] = [entry[p] EXCEPT !.up = n]
  BY <1>2, PeersDiffer DEF Pages, Linked
<1>5. \A p \in Pages : entry'[p] \in Entries /\ entry'[p].state = entry[p].state
  <2>1. ASSUME NEW e \in Entries
        PROVE  [e EXCEPT !.up = n] \in Entries /\ [e EXCEPT !.up = n].state = e.state
    BY DEF Entries
  <2> QED BY <2>1, <1>4 DEF Linked
<1>6. entry' \in [Pages -> Entries]
  <2>1. entry' = [p \in Pages |-> entry'[p]]
    BY <1>2 DEF Linked
  <2> QED BY <2>1, <1>5
<1>7. Linked' /\ Links'
  BY <1>2, <1>3, <1>5, <1>6 DEF Linked, Links
<1> QED BY <1>2, <1>7, StreamsRest

LEMMA FaultSteps ==
  ASSUME Streamed, Streams, Linked, Links, NEW p \in Pages, SocketDrops(p) \/ reset(p)
  PROVE  Streamed' /\ Streams' /\ Linked' /\ Links'
<1>1. CASE SocketDrops(p)
  <2>1. /\ GoesOffline(p) /\ held' = [held EXCEPT ![p] = <<>>]
        /\ UNCHANGED <<roster, entry, ui>>
    BY <1>1 DEF SocketDrops
  <2>2. Streamed' /\ Streams'
    BY <2>1, OfflineKeeps DEF Streamed
  <2> QED BY <2>1, <2>2 DEF Linked, Links
<1>2. CASE reset(p)
  <2>1. /\ GoesOffline(p) /\ held' = [held EXCEPT ![p] = <<>>]
        /\ roster' = [roster EXCEPT ![p] = FALSE]
        /\ entry' = [entry EXCEPT ![p] = NoEntry]
        /\ ui' = [ui EXCEPT ![p] = "absent"]
    BY <1>2 DEF reset
  <2>2. /\ roster' \in [Pages -> BOOLEAN] /\ ~roster'[p]
        /\ entry' \in [Pages -> Entries] /\ entry'[p] = NoEntry
        /\ ui' \in [Pages -> UiStates] /\ ui'[p] = "absent"
        /\ \A q \in Pages : q # p => entry'[q] = entry[q] /\ ui'[q] = ui[q] /\ roster'[q] = roster[q]
    BY <2>1, NoEntryType DEF Linked, Streamed, UiStates
  <2>3. Streamed' /\ Streams'
    BY <2>1, <2>2, OfflineKeeps
  <2>4. ASSUME NEW q \in Pages
        PROVE  /\ (ui'[q] = "absent") <=> ~roster'[q]
               /\ ~roster'[q] => entry'[q] = NoEntry
               /\ ui'[q] = "connected" => entry'[q].state = "connected"
    <3>1. CASE q = p
      BY <3>1, <2>2
    <3>2. CASE q # p
      BY <3>2, <2>2 DEF Links
    <3> QED BY <3>1, <3>2
  <2> QED BY <2>2, <2>3, <2>4 DEF Linked, Links
<1> QED BY <1>1, <1>2

(* ------------------------------- theorems -------------------------------- *)

LEMMA MeshStarts == Init => MeshInv
<1> SUFFICES ASSUME Init PROVE MeshInv
  OBVIOUS
<1>1. TypeOK
  <2>1. Streamed
    BY DEF Init, Streamed
  <2>2. Linked
    BY NoEntryType DEF Init, Linked, UiStates
  <2>3. offers \in Nat /\ faults \in 0..MaxFaults
    BY FaultBound DEF Init
  <2> QED BY <2>1, <2>2, <2>3, TypeParts
<1>2. Streams
  BY DEF Init, Streams, Grounded
<1>3. Links
  BY DEF Init, Links
<1> QED BY <1>1, <1>2, <1>3 DEF MeshInv

LEMMA CountersStep ==
  ASSUME TypeOK, Next
  PROVE  offers' \in Nat /\ faults' \in 0..MaxFaults
<1>1. offers \in Nat /\ faults \in 0..MaxFaults
  BY DEF TypeOK
<1>2. CASE Establish
  BY <1>1, <1>2, FaultBound DEF Establish
<1>3. CASE \E p \in Pages : Page(p) \/ Join(p) \/ SocketDrops(p) \/ reset(p) \/ queueCandidate(p)
                            \/ Timeout(p) \/ DcOpens(p) \/ DcCloses(p) \/ OwnDcCloses(p)
                            \/ IceFails(p) \/ DcErrs(p)
  <2>1. PICK p \in Pages :
           Page(p) \/ Join(p) \/ SocketDrops(p) \/ reset(p) \/ queueCandidate(p)
           \/ Timeout(p) \/ DcOpens(p) \/ DcCloses(p) \/ OwnDcCloses(p) \/ IceFails(p) \/ DcErrs(p)
    BY <1>3
  <2>2. CASE \/ ensurePeer(p) \/ removePeer(p) \/ ReceivesOffer(p) \/ ReceivesAnswer(p)
             \/ ReceivesCandidates(p)
    BY <1>1, <2>2, FaultBound DEF ensurePeer, removePeer, ReceivesOffer, ReceivesAnswer,
       ReceivesCandidates
  <2>3. CASE makeOffer(p) \/ makeAnswer(p) \/ flushOutboundCandidates(p)
    BY <1>1, <2>3, FaultBound DEF makeOffer, makeAnswer, flushOutboundCandidates
  <2>4. CASE Join(p) \/ queueCandidate(p)
    <3>1. offers' = offers /\ faults' = faults
      BY <2>4 DEF Join, queueCandidate
    <3> QED BY <1>1, <3>1
  <2>7. CASE SocketDrops(p) \/ reset(p)
    <3>1. offers' = offers /\ faults < MaxFaults /\ faults' = faults + 1
      BY <2>7 DEF SocketDrops, reset, Fault
    <3> QED BY <1>1, <3>1, FaultBound
  <2>5. CASE Timeout(p) \/ DcOpens(p) \/ DcCloses(p)
    BY <1>1, <2>5, FaultBound DEF Timeout, DcOpens, DcCloses, Fault
  <2>6. CASE OwnDcCloses(p) \/ IceFails(p) \/ DcErrs(p)
    BY <1>1, <2>6, FaultBound DEF OwnDcCloses, IceFails, DcErrs, Fault
  <2> QED BY <2>1, <2>2, <2>3, <2>4, <2>5, <2>6, <2>7 DEF Page
<1> QED BY <1>2, <1>3 DEF Next

LEMMA MeshStep == MeshInv /\ [Next]_vars => MeshInv'
<1> SUFFICES ASSUME MeshInv, [Next]_vars PROVE MeshInv'
  OBVIOUS
<1>1. TypeOK /\ Streams /\ Links /\ Streamed /\ Linked
  BY TypeParts DEF MeshInv
<1>2. CASE UNCHANGED vars
  BY <1>1, <1>2 DEF vars, MeshInv, TypeOK, Streams, Links
<1>3. CASE Next
  <2>1. ASSUME NEW p \in Pages,
               \/ Page(p) \/ Join(p) \/ SocketDrops(p) \/ reset(p)
               \/ queueCandidate(p) \/ Timeout(p)
               \/ DcOpens(p) \/ DcCloses(p) \/ OwnDcCloses(p)
               \/ IceFails(p) \/ DcErrs(p)
        PROVE  Streamed' /\ Streams' /\ Linked' /\ Links'
    <3>1. CASE ensurePeer(p) \/ removePeer(p)
      BY <1>1, <3>1, RosterStep
    <3>2. CASE ReceivesOffer(p)
      BY <1>1, <3>2, OfferStep
    <3>3. CASE ReceivesAnswer(p)
      BY <1>1, <3>3, AnswerStep
    <3>4. CASE ReceivesCandidates(p)
      BY <1>1, <3>4, CandidatesStep
    <3>5. CASE makeOffer(p)
      BY <1>1, <3>5, makeOfferStep
    <3>6. CASE makeAnswer(p)
      BY <1>1, <3>6, makeAnswerStep
    <3>7. CASE queueCandidate(p) \/ flushOutboundCandidates(p)
      BY <1>1, <3>7, CandidateSteps
    <3>8. CASE Join(p)
      <4>1. Streamed' /\ Streams'
        BY <1>1, <3>8, JoinKeeps
      <4> QED BY <4>1, <1>1, <3>8 DEF Join, Linked, Links
    <3>9. CASE SocketDrops(p) \/ reset(p)
      BY <1>1, <3>9, FaultSteps
    <3>10. CASE Timeout(p)
      BY <1>1, <3>10, TimeoutStep
    <3>11. CASE DcOpens(p) \/ DcCloses(p) \/ OwnDcCloses(p) \/ IceFails(p) \/ DcErrs(p)
      BY <1>1, <3>11, ChannelSteps
    <3> QED
      BY <2>1, <3>1, <3>2, <3>3, <3>4, <3>5, <3>6, <3>7, <3>8, <3>9, <3>10, <3>11 DEF Page
  <2>2. ASSUME Establish PROVE Streamed' /\ Streams' /\ Linked' /\ Links'
    BY <1>1, <2>2, EstablishStep
  <2>3. Streamed' /\ Streams' /\ Linked' /\ Links'
    BY <1>3, <2>1, <2>2 DEF Next
  <2>4. offers' \in Nat /\ faults' \in 0..MaxFaults
    BY <1>1, <1>3, CountersStep
  <2>5. TypeOK'
    BY <2>3, <2>4 DEF TypeOK, Streamed, Linked, Entries
  <2> QED BY <2>3, <2>5 DEF MeshInv
<1> QED BY <1>2, <1>3

\* The invariant of the mesh, its streams and what the interface shows of it is
\* inductive: useP2P, WebRTCMesh and the relay's order of rosters and frames.
THEOREM MeshInvariant == Spec => []MeshInv
BY MeshStarts, MeshStep, PTL DEF Spec

\* TypeOK: every variable of the mesh keeps its type, for any number of faults.
THEOREM TypeCorrect == Spec => []TypeOK
<1>1. MeshInv => TypeOK
  BY DEF MeshInv
<1> QED BY <1>1, MeshInvariant, PTL

\* ShownIsConnected: the header never shows a link that the mesh would not send
\* on (useP2P.sync, p2pReducer).
THEOREM ShownLinksAreOpen == Spec => []ShownIsConnected
<1>1. MeshInv => ShownIsConnected
  BY DEF MeshInv, Links, ShownIsConnected, connectedPeers, isConnected
<1> QED BY <1>1, MeshInvariant, PTL

\* NoGhostEntry: no frame that was in flight when a peer left, came back or lost
\* its socket leaves an entry that no roster will remove (onSignal, ensurePeer).
THEOREM NoGhosts == Spec => []NoGhostEntry
<1>1. MeshInv => NoGhostEntry
  BY DEF MeshInv, Links, NoGhostEntry, NoEntry
<1> QED BY <1>1, MeshInvariant, PTL
=============================================================================
