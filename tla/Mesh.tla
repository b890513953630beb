-------------------------------- MODULE Mesh --------------------------------
(* The direct link between two pages of one session: WebRTCMesh (the       *)
(* negotiation, its ICE restart, its timer, the data channel), the state   *)
(* the interface shows (useP2P and p2p-policy), and the relay that carries *)
(* the offers and answers.  Each page reads one ordered stream from the    *)
(* relay, in which rosters and frames are interleaved as they were sent.   *)
(* Operations of an RTCPeerConnection are asynchronous: the continuation   *)
(* of createOffer or createAnswer is a later step, and it never runs once  *)
(* the connection was closed.                                              *)
EXTENDS Integers, Sequences, FiniteSets

CONSTANTS
    Offerer,    \* the page with the smaller id: it makes the offers
    Answerer,
    MaxFaults   \* bound: socket drops, reloads and network faults

ASSUME PeersDiffer == Offerer # Answerer
ASSUME FaultBound == MaxFaults \in Nat

VARIABLES
    online,   \* the page's socket is admitted to the session
    inbox,    \* what the relay has sent to the page and it has not read
    held,     \* frames the page queued while its socket was down
    roster,   \* the page's list of active peers names the other page
    entry,    \* the mesh's MeshPeer for the other page
    ui,       \* peerStates of useP2P; "absent" when it has no key
    offers,   \* offers made so far, to number them
    faults    \* faults so far (bounded by MaxFaults)

vars == <<online, inbox, held, roster, entry, ui, offers, faults>>

Pages == {Offerer, Answerer}
Other(p) == IF p = Offerer THEN Answerer ELSE Offerer
MeshStates == {"none", "connecting", "connected", "failed", "dropped", "closed"}
UiStates == {"absent", "idle", "connecting", "connected", "failed", "dropped", "closed"}
Frames == [kind : {"offer", "answer", "candidates", "roster"}, n : Nat]

(* ------------------------- one entry of the mesh ------------------------ *)

\* offer: the last offer made or applied; agreed: the offer both descriptions
\* are for, 0 while they do not match; up: the offer the transport came up on.
NoEntry == [state |-> "none", sig |-> "stable", offer |-> 0, agreed |-> 0, up |-> 0,
            remoteReady |-> FALSE, restarted |-> FALSE, timer |-> FALSE,
            flushTimer |-> FALSE, offering |-> 0, answering |-> 0,
            reason |-> "none"]

NewEntry(p) == [NoEntry EXCEPT !.state = "connecting", !.timer = TRUE,
                               !.offering = IF p = Offerer THEN 1 ELSE 0]

Alive(e) == e.state \in {"connecting", "connected"}

ClosePc(e) == [e EXCEPT !.sig = "closed", !.offer = 0, !.agreed = 0,
                        !.offering = 0, !.answering = 0]

releaseTransport(e) == [ClosePc(e) EXCEPT !.timer = FALSE, !.flushTimer = FALSE]

markFailed(e, why) ==
    IF e.state \in {"none", "connected"} THEN e
    ELSE [releaseTransport(e) EXCEPT !.state = "failed", !.reason = why]

markDropped(e) ==
    IF e.state = "connected"
    THEN [releaseTransport(e) EXCEPT !.state = "dropped", !.reason = "peer-left"]
    ELSE e

Bug_onIceTrouble(p, e) ==
    IF e.state = "connected" THEN markDropped(e)
    ELSE IF e.restarted THEN markFailed(e, "no-route")
    ELSE [e EXCEPT !.restarted = TRUE, !.offering = @ + (IF p = Offerer THEN 1 ELSE 0)]
\* inferReason tells three causes of a failed ICE check apart; here "no-route".
onIceTrouble(p, e) ==
    IF e.state = "connected" THEN markDropped(e)
    ELSE IF e.restarted THEN markFailed(e, "no-route")
    ELSE [e EXCEPT !.restarted = TRUE, !.timer = TRUE,
                   !.offering = @ + (IF p = Offerer THEN 1 ELSE 0)]

(* ------------------------- what the page displays ----------------------- *)

meshStateToEvent == [connecting |-> "ensure", connected |-> "open", failed |-> "fail",
                     dropped |-> "drop", closed |-> "close"]

Bug_p2pReducer(u, event) ==
    CASE event = "ensure" -> IF u = "connected" THEN u ELSE "connecting"
      [] event = "open"   -> "connected"
      [] event = "fail"   -> IF u = "connected" THEN u ELSE "failed"
      [] event = "drop"   -> u
      [] event = "close"  -> IF u = "connected" THEN "closed" ELSE u
p2pReducer(u, event) ==
    CASE event = "ensure" -> IF u = "connected" THEN u ELSE "connecting"
      [] event = "open"   -> "connected"
      [] event = "fail"   -> IF u = "connected" THEN u ELSE "failed"
      [] event = "drop"   -> IF u = "connected" THEN "dropped" ELSE u
      [] event = "close"  -> IF u = "connected" THEN "closed" ELSE u

sync(u, s) == IF u = "absent" \/ s = "none" THEN u ELSE p2pReducer(u, meshStateToEvent[s])

\* Whether the mesh writes to the data channel, which routes chat and files;
\* what the header reads instead.
isConnected(p) == entry[p].state = "connected"
connectedPeers(p) == ui[p] = "connected"

\* The mesh changes the entry of page p and reports it.
Set(p, e) == /\ entry' = [entry EXCEPT ![p] = e]
             /\ ui' = [ui EXCEPT ![p] = sync(@, e.state)]

(* ------------------------------- the relay ------------------------------ *)

\* A frame from p: to the other page's stream when both are joined, kept by
\* p's paused queue while p is not, lost when only the other is gone.
Send(p, f) ==
    IF ~online[p] THEN /\ held' = [held EXCEPT ![p] = Append(@, f)]
                       /\ UNCHANGED inbox
    ELSE /\ inbox' = IF online[Other(p)] THEN [inbox EXCEPT ![Other(p)] = Append(@, f)]
                     ELSE inbox
         /\ UNCHANGED held

Roster(here) == [kind |-> "roster", n |-> IF here THEN 1 ELSE 0]

Bug_Join(p) ==
    /\ ~online[p]
    /\ online' = [online EXCEPT ![p] = TRUE]
    /\ inbox' = [q \in Pages |->
           IF q = p THEN <<Roster(online[Other(p)])>>
           ELSE IF online[q] THEN inbox[q] \o held[p] \o <<Roster(TRUE)>> ELSE inbox[q]]
    /\ held' = [held EXCEPT ![p] = <<>>]
    /\ UNCHANGED <<roster, entry, ui, offers, faults>>
\* The relay admits the page and sends both sides the roster; the queue resumes.
Join(p) ==
    /\ ~online[p]
    /\ online' = [online EXCEPT ![p] = TRUE]
    /\ inbox' = [q \in Pages |->
           IF q = p THEN <<Roster(online[Other(p)])>>
           ELSE IF online[q] THEN inbox[q] \o <<Roster(TRUE)>> \o held[p] ELSE inbox[q]]
    /\ held' = [held EXCEPT ![p] = <<>>]
    /\ UNCHANGED <<roster, entry, ui, offers, faults>>

Fault == /\ faults < MaxFaults
         /\ faults' = faults + 1

GoesOffline(p) ==
    /\ online[p]
    /\ online' = [online EXCEPT ![p] = FALSE]
    /\ inbox' = [q \in Pages |-> IF q = p \/ ~online[q] THEN <<>>
                                 ELSE Append(inbox[q], Roster(FALSE))]

\* The socket closes; the queue drops its transient frames and pauses.
SocketDrops(p) ==
    /\ Fault
    /\ GoesOffline(p)
    /\ held' = [held EXCEPT ![p] = <<>>]
    /\ UNCHANGED <<roster, entry, ui, offers>>

\* Unmounting (a reload, a session switch) also resets the mesh.
reset(p) ==
    /\ Fault
    /\ GoesOffline(p)
    /\ held' = [held EXCEPT ![p] = <<>>]
    /\ roster' = [roster EXCEPT ![p] = FALSE]
    /\ entry' = [entry EXCEPT ![p] = NoEntry]
    /\ ui' = [ui EXCEPT ![p] = "absent"]
    /\ UNCHANGED offers

(* --------------------- what the page reads from the relay ---------------- *)

ensured(p) == IF entry[p].state = "none" THEN NewEntry(p) ELSE entry[p]

Reads(p, kind) == /\ inbox[p] # <<>>
                  /\ Head(inbox[p]).kind = kind
Read(p) == [inbox EXCEPT ![p] = Tail(@)]

ensurePeer(p) ==
    /\ Reads(p, "roster") /\ Head(inbox[p]).n = 1
    /\ inbox' = Read(p)
    /\ roster' = [roster EXCEPT ![p] = TRUE]
    /\ entry' = [entry EXCEPT ![p] = ensured(p)]
    /\ ui' = [ui EXCEPT ![p] = p2pReducer(IF @ = "absent" THEN "idle" ELSE @, "ensure")]
    /\ UNCHANGED <<online, held, offers, faults>>

removePeer(p) ==
    /\ Reads(p, "roster") /\ Head(inbox[p]).n = 0
    /\ inbox' = Read(p)
    /\ roster' = [roster EXCEPT ![p] = FALSE]
    /\ entry' = [entry EXCEPT ![p] = IF roster[p] THEN NoEntry ELSE @]
    /\ ui' = [ui EXCEPT ![p] = IF roster[p] THEN "absent" ELSE @]
    /\ UNCHANGED <<online, held, offers, faults>>

\* setRemoteDescription(offer); the answer is a later step.
ReceivesOffer(p) ==
    /\ Reads(p, "offer")
    /\ LET e == ensured(p) IN
       Set(p, IF Alive(e) /\ e.sig \in {"stable", "remote"}
              THEN [e EXCEPT !.sig = "remote", !.offer = Head(inbox[p]).n,
                             !.remoteReady = TRUE, !.answering = @ + 1]
              ELSE markFailed(e, "signaling-error"))
    /\ inbox' = Read(p)
    /\ UNCHANGED <<online, held, roster, offers, faults>>

\* setRemoteDescription(answer): rejected unless an offer is outstanding.
ReceivesAnswer(p) ==
    /\ Reads(p, "answer")
    /\ LET e == ensured(p)
           n == Head(inbox[p]).n IN
       Set(p, IF Alive(e) /\ e.sig = "offered"
              THEN [e EXCEPT !.sig = "stable", !.agreed = IF n = e.offer THEN n ELSE 0,
                             !.remoteReady = TRUE]
              ELSE markFailed(e, "signaling-error"))
    /\ inbox' = Read(p)
    /\ UNCHANGED <<online, held, roster, offers, faults>>

\* addIceCandidate rejects on a closed connection; before the remote
\* description candidates are only kept (they are data here).
ReceivesCandidates(p) ==
    /\ Reads(p, "candidates")
    /\ LET e == ensured(p) IN
       Set(p, IF e.remoteReady /\ ~Alive(e) THEN markFailed(e, "signaling-error") ELSE e)
    /\ inbox' = Read(p)
    /\ UNCHANGED <<online, held, roster, offers, faults>>

(* ----------------------- what the page does by itself -------------------- *)

\* createOffer and setLocalDescription have resolved.
makeOffer(p) ==
    /\ entry[p].offering > 0
    /\ offers' = offers + 1
    /\ entry' = [entry EXCEPT ![p].offering = @ - 1, ![p].sig = "offered",
                              ![p].offer = offers + 1]
    /\ Send(p, [kind |-> "offer", n |-> offers + 1])
    /\ UNCHANGED <<online, roster, ui, faults>>

\* createAnswer and setLocalDescription: rejected when another offer's answer
\* was applied meanwhile.
makeAnswer(p) ==
    /\ entry[p].answering > 0
    /\ LET e == [entry[p] EXCEPT !.answering = @ - 1] IN
       IF e.sig = "remote"
       THEN /\ Set(p, [e EXCEPT !.sig = "stable", !.agreed = e.offer])
            /\ Send(p, [kind |-> "answer", n |-> e.offer])
       ELSE /\ Set(p, markFailed(e, "signaling-error"))
            /\ UNCHANGED <<inbox, held>>
    /\ UNCHANGED <<online, roster, offers, faults>>

\* Bound: one batch of candidates of p is under way at a time.
NoBatchUnderWay(p) ==
    \A s \in {inbox[Other(p)], held[p]} : \A i \in DOMAIN s : s[i].kind # "candidates"

queueCandidate(p) ==
    /\ Alive(entry[p]) /\ entry[p].sig \in {"offered", "remote"} /\ ~entry[p].flushTimer
    /\ NoBatchUnderWay(p)
    /\ entry' = [entry EXCEPT ![p].flushTimer = TRUE]
    /\ UNCHANGED <<online, inbox, held, roster, ui, offers, faults>>

flushOutboundCandidates(p) ==
    /\ entry[p].flushTimer
    /\ entry' = [entry EXCEPT ![p].flushTimer = FALSE]
    /\ Send(p, [kind |-> "candidates", n |-> 0])
    /\ UNCHANGED <<online, roster, ui, offers, faults>>

Timeout(p) ==
    /\ entry[p].timer
    /\ LET e == [entry[p] EXCEPT !.timer = FALSE] IN
       Set(p, IF e.state # "connecting" THEN e
              ELSE IF ~e.restarted THEN onIceTrouble(p, e)
              ELSE markFailed(e, IF e.remoteReady THEN "no-route" ELSE "timeout"))
    /\ UNCHANGED <<online, inbox, held, roster, offers, faults>>

(* --------------------- the transport between the pages ------------------- *)

\* ICE found a pair: both descriptions are for the same offer.
Establish ==
    LET a == entry[Offerer]  b == entry[Answerer] IN
    /\ Alive(a) /\ Alive(b) /\ a.up = 0 /\ b.up = 0
    /\ a.agreed # 0 /\ a.agreed = b.agreed
    /\ entry' = [entry EXCEPT ![Offerer].up = a.agreed, ![Answerer].up = a.agreed]
    /\ UNCHANGED <<online, inbox, held, roster, ui, offers, faults>>

OtherEndAlive(p) == LET e == entry[Other(p)] IN Alive(e) /\ e.up = entry[p].up

DcOpens(p) ==
    /\ entry[p].state = "connecting" /\ entry[p].up # 0
    /\ Set(p, [entry[p] EXCEPT !.state = "connected", !.reason = "none", !.timer = FALSE])
    /\ UNCHANGED <<online, inbox, held, roster, offers, faults>>

Bug_DcCloses(p) ==
    /\ Alive(entry[p]) /\ entry[p].up # 0
    /\ entry[p].state = "connecting" /\ ~OtherEndAlive(p)
    /\ Set(p, [releaseTransport(entry[p]) EXCEPT !.state = "closed"])
    /\ UNCHANGED <<online, inbox, held, roster, offers, faults>>
\* The other end closed its connection: dc.onclose.
DcCloses(p) ==
    /\ Alive(entry[p]) /\ entry[p].up # 0 /\ ~OtherEndAlive(p)
    /\ Set(p, [releaseTransport(entry[p]) EXCEPT !.state = "closed"])
    /\ UNCHANGED <<online, inbox, held, roster, offers, faults>>

\* A browser may report the close of a channel the page itself closed.
OwnDcCloses(p) ==
    /\ entry[p].state \in {"failed", "dropped"} /\ entry[p].up # 0
    /\ Set(p, IF entry[p].state = "failed" THEN entry[p] ELSE [entry[p] EXCEPT !.state = "closed"])
    /\ UNCHANGED <<online, inbox, held, roster, offers, faults>>

\* The network fails under the connection: connectionState or dc.onerror.
IceFails(p) ==
    /\ Fault
    /\ Alive(entry[p]) /\ entry[p].agreed # 0
    /\ Set(p, onIceTrouble(p, entry[p]))
    /\ UNCHANGED <<online, inbox, held, roster, offers>>

DcErrs(p) ==
    /\ Fault
    /\ Alive(entry[p]) /\ entry[p].up # 0
    /\ Set(p, IF entry[p].state = "connected" THEN markDropped(entry[p])
              ELSE markFailed(entry[p], "no-route"))
    /\ UNCHANGED <<online, inbox, held, roster, offers>>

(* ------------------------------ specification ---------------------------- *)

Init == /\ online = [p \in Pages |-> FALSE]
        /\ inbox = [p \in Pages |-> <<>>]
        /\ held = [p \in Pages |-> <<>>]
        /\ roster = [p \in Pages |-> FALSE]
        /\ entry = [p \in Pages |-> NoEntry]
        /\ ui = [p \in Pages |-> "absent"]
        /\ offers = 0
        /\ faults = 0

\* What the page does as soon as it can.
Page(p) == \/ ensurePeer(p) \/ removePeer(p)
           \/ ReceivesOffer(p) \/ ReceivesAnswer(p) \/ ReceivesCandidates(p)
           \/ makeOffer(p) \/ makeAnswer(p) \/ flushOutboundCandidates(p)

Next == \/ \E p \in Pages : Page(p) \/ Join(p) \/ SocketDrops(p) \/ reset(p)
                            \/ queueCandidate(p) \/ Timeout(p)
                            \/ DcOpens(p) \/ DcCloses(p) \/ OwnDcCloses(p)
                            \/ IceFails(p) \/ DcErrs(p)
        \/ Establish

\* The event loop runs callbacks that are ready, and an armed timer fires.
\* Nothing makes a page join again, ICE succeed or a fault happen.
Fairness == \A p \in Pages : /\ WF_vars(Page(p))
                             /\ WF_vars(Timeout(p))
                             /\ WF_vars(DcOpens(p))
                             /\ WF_vars(DcCloses(p))

Spec == Init /\ [][Next]_vars /\ Fairness

(* ------------------------------- properties ------------------------------ *)

\* Types of the variables (the mesh's and the hook's state).
TypeOK == /\ online \in [Pages -> BOOLEAN]
          /\ inbox \in [Pages -> Seq(Frames)]
          /\ held \in [Pages -> Seq(Frames)]
          /\ roster \in [Pages -> BOOLEAN]
          /\ entry \in [Pages -> [state : MeshStates, sig : {"stable", "offered", "remote", "closed"},
                                  offer : Nat, agreed : Nat, up : Nat,
                                  remoteReady : BOOLEAN, restarted : BOOLEAN,
                                  timer : BOOLEAN, flushTimer : BOOLEAN,
                                  offering : Nat, answering : Nat,
                                  reason : {"none", "signaling-error", "no-route",
                                            "timeout", "peer-left"}]]
          /\ ui \in [Pages -> UiStates]
          /\ offers \in Nat
          /\ faults \in 0..MaxFaults

\* A link the interface shows as connected is one the mesh will send on:
\* allConnected, which routes chat and files, reads the mesh, the header
\* reads peerStates (useP2P.sync and p2pReducer keep the two together).
ShownIsConnected ==
    \A p \in Pages : connectedPeers(p) => isConnected(p)

\* A page holds a connection only for a peer its roster names: a frame that
\* was in flight when the peer left must not bring back an entry nobody will
\* ever remove (onSignal calls ensurePeer for any sender).
NoGhostEntry == \A p \in Pages : entry[p].state # "none" => roster[p] /\ ui[p] # "absent"

\* Every attempt ends: connected, or failed with a reason, or removed, even
\* when frames are lost and when the one ICE restart fails too.
AttemptEnds == \A p \in Pages :
    entry[p].state = "connecting" ~> entry[p].state # "connecting"

\* A link that is up on one side only does not last: the other side opens too
\* or this side learns that it is gone.
HalfOpenEnds == \A p \in Pages :
    isConnected(p) /\ ~isConnected(Other(p)) ~> ~isConnected(p) \/ isConnected(Other(p))

\* What the comment says, and the code does not do (README, "Disagreements"):
\* "terminal states can be revived by a fresh `ensure` (renegotiation when a
\* peer re-joins)" (p2p-policy.ts:75-77): what is shown as connecting is being
\* connected.
EnsureRevives == \A p \in Pages : ui[p] = "connecting" => entry[p].state = "connecting"
=============================================================================
