----------------------------- MODULE PeerChannels -----------------------------
(*****************************************************************************)
(* The pairwise Noise XX handshake of two admitted peers                     *)
(* (src/crypto/peer-channels.ts, noise-xx.ts) over sockets that get lost:    *)
(* its frames wait in the NOISE lane of the paced queue                      *)
(* (src/transport/send-queue.ts), cross the relay, and race the peer_update  *)
(* frames by which useRelay.ts makes and drops channels.                     *)
(*                                                                           *)
(* "I" has the smaller peer id and is the initiator.  A key pair is the      *)
(* number of the draw that made it; a transcript is the initiator's and the  *)
(* responder's ephemeral key, and an encrypted handshake message opens only  *)
(* over the transcript it was written over.  The root of a channel is its    *)
(* transcript.  The other lanes of the queue, tokens and time are left out:  *)
(* the lane is drained at any pace.                                          *)
(*****************************************************************************)
EXTENDS Naturals, Sequences

CONSTANT MaxFaults      \* lost sockets, reloads, throttled frames (bound)

ASSUME MaxFaultsAssumption == MaxFaults \in Nat

Clients == {"I", "R"}
Other(x) == IF x = "I" THEN "R" ELSE "I"

VARIABLES
  page,      \* each client's page: its channel, NOISE lane, pacer, peer list
  open,      \* whose WebSocket is open, as the page sees it
  present,   \* whose connection the relay holds
  uplink,    \* frames on their way from a client to the relay
  downlink,  \* frames on their way from the relay to a client
  drawn,     \* ephemeral key pairs generated so far
  faults,
  clean      \* history: every fault found the pair at rest, and no roster that
             \* the relay sent named a peer whose socket was dead

vars == <<page, open, present, uplink, downlink, drawn, faults, clean>>

-----------------------------------------------------------------------------
(* Frames and channels.                                                      *)

Frame(kind, step, i, r) == [kind |-> kind, step |-> step, i |-> i, r |-> r]
Noise(step, i, r) == Frame("noise", step, i, r)
Joined == Frame("joined", 0, 0, 0)
\* A peer_update, reduced to whether the other peer is in it.
PeerUpdate(other) == Frame(IF other THEN "here" ELSE "gone", 0, 0, 0)

\* `idx' is the message index of the HandshakeState, 3 when it is complete.
Channel == [phase : {"none", "handshaking", "ready", "failed"}, idx : 0..3,
            i : Nat, r : Nat]
Chan(phase, idx, i, r) == [phase |-> phase, idx |-> idx, i |-> i, r |-> r]
NoChannel == Chan("none", 0, 0, 0)
newChannel == Chan("handshaking", 0, 0, 0)

FreshPage == [chan |-> NoChannel, lane |-> <<>>, paused |-> FALSE, sees |-> FALSE]

\* sendNoise: sendSignal queues the frame, with the socket down as well.
Sending(p, c, f) == [p EXCEPT !.chan = c, !.lane = Append(@, f)]

-----------------------------------------------------------------------------
(* PeerChannels of one page; k is the key pair it draws if it needs one.     *)

Bug_NoRestartRequest(x, p, k) ==
  IF p.chan.phase # "none" THEN p
  ELSE IF x = "I"
       THEN Sending(p, Chan("handshaking", 1, k, 0), Noise(1, k, 0))
       ELSE [p EXCEPT !.chan = newChannel]
\* The initiator speaks first; a responder without a channel can only ask.
ensureChannel(x, p, k) ==
  IF p.chan.phase # "none" THEN p
  ELSE IF x = "I"
       THEN Sending(p, Chan("handshaking", 1, k, 0), Noise(1, k, 0))
       ELSE Sending(p, newChannel, Noise(0, 0, 0))

Bug_RestartAnyTime(x, p, k) ==
  IF x = "I" THEN ensureChannel(x, [p EXCEPT !.chan = NoChannel], k) ELSE p
\* A restart request is honoured unless the own handshake is under way.
onRestartRequest(x, p, k) ==
  IF x = "I" /\ p.chan.phase # "handshaking"
  THEN ensureChannel(x, [p EXCEPT !.chan = NoChannel], k)
  ELSE p

Bug_AnyTranscript(c, f) == c.idx = f.step - 1
\* readMessage succeeds: it is the next message, over the same transcript.
Opens(c, f) ==
  /\ c.idx = f.step - 1
  /\ f.i = c.i
  /\ f.step = 3 => f.r = c.r

\* What a readMessage that throws leaves behind.  Message 2 has been mixed
\* into the transcript when its key fails to open: nothing opens after that.
\* Message 3 fails before anything of it is mixed.
Failed(c, f) ==
  IF c.idx = 2 THEN Chan("failed", 2, c.i, c.r)
  ELSE Chan("failed", IF c.idx = 0 THEN 1 ELSE c.idx, 0, 0)

\* Message 1 at the responder: always a fresh handshake.
ReadMessage1(p, f, k) ==
  Sending(p, Chan("handshaking", 2, f.i, k), Noise(2, f.i, k))

\* The channel a message 2 or 3 is read with.
ChannelFor(p) == IF p.chan.phase = "none" THEN newChannel ELSE p.chan

\* Message 2 at the initiator: it answers with message 3 and finalises.
ReadMessage2(p, f) ==
  LET c == ChannelFor(p)
  IN  IF Opens(c, f)
      THEN Sending(p, Chan("ready", 3, f.i, f.r), Noise(3, f.i, f.r))
      ELSE [p EXCEPT !.chan = Failed(c, f)]

\* Message 3 at the responder.  A HandshakeState that has read nothing takes
\* it for a message 1, which is not encrypted, and stays incomplete.
ReadMessage3(p, f) ==
  LET c == ChannelFor(p)
  IN  [p EXCEPT !.chan = IF Opens(c, f) THEN Chan("ready", 3, f.i, f.r)
                         ELSE IF c.idx = 0 THEN Chan(c.phase, 1, c.i, c.r)
                         ELSE Failed(c, f)]

\* The initiator sends messages 1 and 3, the responder 0 and 2.
onSignal(x, p, f, k) ==
  IF f.step = 0 THEN onRestartRequest(x, p, k)
  ELSE IF f.step = 1 THEN ReadMessage1(p, f, k)
  ELSE IF f.step = 2 THEN ReadMessage2(p, f)
  ELSE ReadMessage3(p, f)

\* useRelay's onmessage.  A peer_update makes or drops the channel; `joined'
\* resumes the pacer.
onmessage(x, p, f, k) ==
  IF f.kind = "joined" THEN [p EXCEPT !.paused = FALSE]
  ELSE IF f.kind = "here" THEN ensureChannel(x, [p EXCEPT !.sees = TRUE], k)
  ELSE IF f.kind = "gone"
       THEN IF p.sees THEN [p EXCEPT !.sees = FALSE, !.chan = NoChannel] ELSE p
  ELSE onSignal(x, p, f, k)

-----------------------------------------------------------------------------
Init ==
  /\ page = [x \in Clients |-> FreshPage]
  /\ open = [x \in Clients |-> FALSE]
  /\ present = [x \in Clients |-> FALSE]
  /\ uplink = [x \in Clients |-> <<>>]
  /\ downlink = [x \in Clients |-> <<>>]
  /\ drawn = 0
  /\ faults = 0
  /\ clean = TRUE

\* The relay writes f to x: it must hold a connection, and one that is dead
\* swallows what is written.
Reaches(x) == present[x] /\ open[x]

\* The page dials and the relay admits it again, in place of an older socket
\* it may still hold.  `joined' first, then the roster to everyone present.
Join(x) ==
  /\ ~open[x]
  /\ open' = [open EXCEPT ![x] = TRUE]
  /\ present' = [present EXCEPT ![x] = TRUE]
  /\ uplink' = [uplink EXCEPT ![x] = <<>>]
  /\ downlink' = [y \in Clients |->
       IF y = x THEN <<Joined, PeerUpdate(present[Other(x)])>>
       ELSE IF Reaches(y) THEN Append(downlink[y], PeerUpdate(TRUE))
       ELSE downlink[y]]
  /\ clean' = (clean /\ (present[Other(x)] => open[Other(x)]))
  /\ UNCHANGED <<page, drawn, faults>>

\* The relay notices that a socket is gone before a new one replaces it.
RelayClose(x) ==
  LET y == Other(x)
  IN  /\ ~open[x] /\ present[x] /\ uplink[x] = <<>>
      /\ present' = [present EXCEPT ![x] = FALSE]
      /\ downlink' = IF Reaches(y)
                     THEN [downlink EXCEPT ![y] = Append(@, PeerUpdate(FALSE))]
                     ELSE downlink
      /\ UNCHANGED <<page, open, uplink, drawn, faults, clean>>

\* The relay forwards a frame.  One for a peer that has left is lost, and its
\* sender will be told; one for a socket the relay takes for alive just is lost.
Relay(x) ==
  LET y == Other(x)
  IN  /\ present[x] /\ uplink[x] # <<>>
      /\ uplink' = [uplink EXCEPT ![x] = Tail(@)]
      /\ downlink' = IF Reaches(y)
                     THEN [downlink EXCEPT ![y] = Append(@, Head(uplink[x]))]
                     ELSE downlink
      /\ UNCHANGED <<page, open, present, drawn, faults, clean>>

Bug_PumpLastFirst(x) ==
  LET lane == page[x].lane
  IN  /\ open[x] /\ ~page[x].paused /\ lane # <<>>
      /\ uplink' = [uplink EXCEPT ![x] = Append(@, lane[Len(lane)])]
      /\ page' = [page EXCEPT ![x].lane = SubSeq(lane, 1, Len(lane) - 1)]
      /\ UNCHANGED <<open, present, downlink, drawn, faults, clean>>
\* The pacer has a token for the first frame of the lane.
Pump(x) ==
  /\ open[x] /\ ~page[x].paused /\ page[x].lane # <<>>
  /\ uplink' = [uplink EXCEPT ![x] = Append(@, Head(page[x].lane))]
  /\ page' = [page EXCEPT ![x].lane = Tail(@)]
  /\ UNCHANGED <<open, present, downlink, drawn, faults, clean>>

\* The page handles the next frame of its socket.
Receive(x) ==
  LET k == drawn + 1
      p == onmessage(x, page[x], Head(downlink[x]), k)
  IN  /\ open[x] /\ downlink[x] # <<>>
      /\ page' = [page EXCEPT ![x] = p]
      /\ downlink' = [downlink EXCEPT ![x] = Tail(@)]
      /\ drawn' = IF k \in {p.chan.i, p.chan.r} THEN k ELSE drawn
      /\ UNCHANGED <<open, present, uplink, faults, clean>>

-----------------------------------------------------------------------------
(* Faults.                                                                   *)

\* Nothing is on its way, no handshake is under way, and the relay has noticed
\* every socket that is gone.
AtRest ==
  \A x \in Clients : /\ page[x].chan.phase \in {"none", "ready"}
                     /\ page[x].lane = <<>> /\ uplink[x] = <<>> /\ downlink[x] = <<>>
                     /\ present[x] => open[x]

Fault ==
  /\ faults < MaxFaults
  /\ faults' = faults + 1
  /\ clean' = (clean /\ AtRest)

\* x's socket dies: the relay still reads some of what was sent, and what
\* was on its way to x is lost.
LoseSocket(x) ==
  /\ open' = [open EXCEPT ![x] = FALSE]
  /\ \E n \in 0..Len(uplink[x]) :
       uplink' = [uplink EXCEPT ![x] = SubSeq(@, 1, n)]
  /\ downlink' = [downlink EXCEPT ![x] = <<>>]

\* onclose.  Until the pause, timers and clearTransient go on pumping into the
\* socket that is closing, as far as tokens have come back: sendRaw drops
\* those frames.
Drop(x) ==
  /\ open[x]
  /\ LoseSocket(x)
  /\ \E n \in 0..Len(page[x].lane) :
       /\ n > 0 => ~page[x].paused
       /\ page' = [page EXCEPT ![x].lane = SubSeq(@, n + 1, Len(@)),
                               ![x].paused = TRUE]
  /\ Fault
  /\ UNCHANGED <<present, drawn>>

\* The tab reloads: the peer id and its token survive, the page does not.
Reload(x) ==
  /\ LoseSocket(x)
  /\ page' = [page EXCEPT ![x] = FreshPage]
  /\ Fault
  /\ UNCHANGED <<present, drawn>>

\* The relay's limits (messages per second, bytes buffered) drop a frame.
Throttle(x) ==
  /\ present[x] /\ uplink[x] # <<>>
  /\ uplink' = [uplink EXCEPT ![x] = Tail(@)]
  /\ Fault
  /\ UNCHANGED <<page, open, present, downlink, drawn>>

Next ==
  \E x \in Clients : \/ Join(x) \/ RelayClose(x) \/ Relay(x) \/ Pump(x) \/ Receive(x)
                     \/ Drop(x) \/ Reload(x) \/ Throttle(x)

Spec == Init /\ [][Next]_vars

\* The page re-dials until it is joined, TCP delivers, the pacer's tokens come
\* back, the event loop turns.  No fault, and no close event, need happen.
Fairness ==
  \A x \in Clients : /\ WF_vars(Join(x))
                     /\ WF_vars(Relay(x))
                     /\ WF_vars(Pump(x))
                     /\ WF_vars(Receive(x))

FairSpec == Spec /\ Fairness

-----------------------------------------------------------------------------
(* Properties.                                                               *)

Ready(x) == page[x].chan.phase = "ready"

Frames == [kind : {"noise", "joined", "here", "gone"}, step : 0..3, i : Nat, r : Nat]
Page == [chan : Channel, lane : Seq(Frames), paused : BOOLEAN, sees : BOOLEAN]

\* The variables have their types.
TypeOK ==
  /\ page \in [Clients -> Page]
  /\ open \in [Clients -> BOOLEAN]
  /\ present \in [Clients -> BOOLEAN]
  /\ uplink \in [Clients -> Seq(Frames)]
  /\ downlink \in [Clients -> Seq(Frames)]
  /\ drawn \in Nat
  /\ faults \in Nat
  /\ clean \in BOOLEAN

\* Two channels that are ready come from the same handshake: chat is never
\* encrypted under a root the other side has already left, whatever was lost,
\* reloaded or replayed on the way (peer-channels.ts finalize).
SameRoot ==
  Ready("I") /\ Ready("R") =>
    /\ page["I"].chan.i = page["R"].chan.i
    /\ page["I"].chan.r = page["R"].chan.r

\* While every fault finds the pair at rest, no handshake fails: restart requests, message 1
\* sent anew and channels dropped at a peer_update never meet a frame of an
\* older attempt (peer-channels.ts onSignal's catch).
NoFailedHandshake ==
  clean => \A x \in Clients : page[x].chan.phase # "failed"

\* A ready channel is left for a new handshake or dropped, but no frame, late
\* or repeated, turns it into a failed one, which neither side would retry.
ReadyNeverFails ==
  [][\A x \in Clients : Ready(x) => page'[x].chan.phase # "failed"]_vars

\* When every fault has hit a pair at rest, however many sockets and pages
\* were lost and in whatever order the relay noticed, both sides end up ready
\* for good (docs/events.md, Noise Handshake: a lost channel is rebuilt).
Recovers ==
  []clean => <>[](\A x \in Clients : Ready(x) /\ page[x].sees)

\* docs/events.md: while the initiator "is still `handshaking`, the message 1
\* it already sent is in flight and restarting would invalidate the reply
\* before it lands".  Read: when it turns a restart request down, its message
\* 1 or the reply to it is still on its way.
MessageOneInFlight ==
  LET c == page["I"].chan
      Carries(s, step) == \E n \in 1..Len(s) :
                            s[n].kind = "noise" /\ s[n].step = step /\ s[n].i = c.i
  IN  /\ downlink["I"] # <<>> /\ Head(downlink["I"]) = Noise(0, 0, 0)
      /\ c.phase = "handshaking"
      => \/ \E s \in {page["I"].lane, uplink["I"], downlink["R"]} : Carries(s, 1)
         \/ \E s \in {page["R"].lane, uplink["R"], downlink["I"]} : Carries(s, 2)
=============================================================================
