-------------------------- MODULE PeerChannels_proofs --------------------------
(*****************************************************************************)
(* Proofs about PeerChannels.                                                *)
(*                                                                           *)
(* SameRoot uses no order of frames: keys are drawn from a counter, and IInv *)
(* says what a pair of keys that was confirmed by a message 3 excludes about *)
(* the pairs that were offered in a message 2 later.                         *)
(*                                                                           *)
(* ReadyNeverFails needs the order: lane, uplink and downlink are one line   *)
(* of frames, and OInv says which handshake frames may stand behind which    *)
(* and what that leaves under way for a channel that is ready.               *)
(*                                                                           *)
(* NoFailedHandshake adds CInv: while every fault finds the pair at rest,    *)
(* each message finds the channel it is for, nothing happens while a socket  *)
(* is closed, and a `gone' reaches a page that is at rest.                   *)
(*                                                                           *)
(* The parts are stated about values, the two channels and the sets of       *)
(* frames either side has under way, so that most lemmas are about a single  *)
(* handler or queue and mention no variable.                                 *)
(*****************************************************************************)
EXTENDS PeerChannels, SequenceTheorems, TLAPS

USE DEF Clients

NoiseFrames == [kind : {"noise"}, step : 0..3, i : Nat, r : Nat]

\* The handshake frames in a queue.
NoiseIn(q) == {f \in NoiseFrames : \E n \in DOMAIN q : q[n] = f}

\* The handshake frames x has under way: queued, sent and forwarded.
Sent(x) == NoiseIn(page[x].lane) \cup NoiseIn(uplink[x]) \cup NoiseIn(downlink[Other(x)])

\* Pairs of keys that a message 2, or a channel, holds ...
Offered(a, b, FR, i, r) ==
  \/ Noise(2, i, r) \in FR
  \/ b.r # 0 /\ b.i = i /\ b.r = r
  \/ a.phase = "ready" /\ a.i = i /\ a.r = r

\* ... and pairs that the initiator has confirmed with a message 3.
Confirmed(b, FI, i, r) ==
  \/ Noise(3, i, r) \in FI
  \/ b.phase = "ready" /\ b.i = i /\ b.r = r

\* a and b are the channels of I and R, FI and FR their frames under way, d
\* the keys drawn.
Shapes(a, b, d) ==
  /\ a.i <= d /\ a.r <= d /\ b.i <= d /\ b.r <= d
  /\ a.phase = "ready" => a.idx = 3 /\ a.i # 0
  /\ b.phase = "ready" => b.idx = 3 /\ b.i # 0 /\ b.r # 0
  /\ b.idx = 0 => b.i = 0 /\ b.r = 0

Roles(FI, FR, d) ==
  /\ \A f \in FI : f.step \in {1, 3} /\ f.i \in 1..d /\ (f.step = 3 => f.r \in 1..d)
  /\ \A f \in FR : f.step \in {0, 2} /\ (f.step = 2 => f.i \in 1..d /\ f.r \in 1..d)

\* The initiator's present key is the newest of its own ...
NewestI(a, b, FI, FR) ==
  a.i # 0 => /\ \A f \in FI : f.i <= a.i
             /\ \A i, r \in Nat : Offered(a, b, FR, i, r) => i <= a.i

\* ... and so is the responder's.
NewestR(a, b, FR) ==
  b.r # 0 => \A i, r \in Nat : Offered(a, b, FR, i, r) => r <= b.r

\* A confirmed pair of the initiator's present key is its present transcript,
\* and whatever is offered for a later key has a later key in it.
Confirms(a, b, FI, FR) ==
  \A i, r \in Nat : Confirmed(b, FI, i, r) =>
    /\ a.i = i => a.idx = 3 /\ a.r = r
    /\ \A j, s \in Nat : Offered(a, b, FR, j, s) /\ j > i => s > r

Sound(a, b, FI, FR, d) ==
  /\ Shapes(a, b, d)
  /\ Roles(FI, FR, d)
  /\ NewestI(a, b, FI, FR)
  /\ NewestR(a, b, FR)
  /\ Confirms(a, b, FI, FR)

IInv == /\ TypeOK
        /\ Sound(page["I"].chan, page["R"].chan, Sent("I"), Sent("R"), drawn)

-----------------------------------------------------------------------------
(* Lemmas about queues. *)

\* What a queue, or part of it, contributes to the frames under way.
LEMMA EmptyNoise == NoiseIn(<<>>) = {}
BY DEF NoiseIn

LEMMA TailNoise ==
  ASSUME NEW q \in Seq(Frames), q # <<>>
  PROVE  /\ Head(q) \in Frames /\ Tail(q) \in Seq(Frames)
         /\ NoiseIn(Tail(q)) \subseteq NoiseIn(q)
         /\ Head(q).kind = "noise" => Head(q) \in NoiseIn(q)
<1>1. /\ Head(q) \in Frames /\ Tail(q) \in Seq(Frames)
      /\ 1 \in DOMAIN q /\ Head(q) = q[1]
      /\ \A n \in DOMAIN Tail(q) : n + 1 \in DOMAIN q /\ Tail(q)[n] = q[n + 1]
  OBVIOUS
<1>2. NoiseIn(Tail(q)) \subseteq NoiseIn(q)
  BY <1>1 DEF NoiseIn
<1>3. ASSUME Head(q).kind = "noise" PROVE Head(q) \in NoiseIn(q)
  <2>1. Head(q) \in NoiseFrames
    BY <1>1, <1>3 DEF Frames, NoiseFrames
  <2> QED
    BY <1>1, <2>1 DEF NoiseIn
<1> QED
  BY <1>1, <1>2, <1>3

LEMMA AppendNoise ==
  ASSUME NEW q \in Seq(Frames), NEW f \in Frames
  PROVE  /\ Append(q, f) \in Seq(Frames)
         /\ NoiseIn(Append(q, f)) \subseteq NoiseIn(q) \cup {f}
         /\ f.kind # "noise" => NoiseIn(Append(q, f)) \subseteq NoiseIn(q)
<1>1. /\ Append(q, f) \in Seq(Frames)
      /\ \A n \in DOMAIN Append(q, f) :
           (n \in DOMAIN q /\ Append(q, f)[n] = q[n]) \/ Append(q, f)[n] = f
  OBVIOUS
<1>2. NoiseIn(Append(q, f)) \subseteq NoiseIn(q) \cup {f}
  BY <1>1 DEF NoiseIn
<1>3. f \in NoiseFrames => f.kind = "noise"
  BY DEF NoiseFrames
<1> QED
  BY <1>1, <1>2, <1>3 DEF NoiseIn

LEMMA PartNoise ==
  ASSUME NEW q \in Seq(Frames), NEW m \in 1..(Len(q) + 1), NEW n \in 0..Len(q)
  PROVE  /\ SubSeq(q, m, n) \in Seq(Frames)
         /\ NoiseIn(SubSeq(q, m, n)) \subseteq NoiseIn(q)
<1>1. /\ SubSeq(q, m, n) \in Seq(Frames)
      /\ \A k \in DOMAIN SubSeq(q, m, n) :
           k + m - 1 \in DOMAIN q /\ SubSeq(q, m, n)[k] = q[k + m - 1]
  OBVIOUS
<1> QED
  BY <1>1 DEF NoiseIn

\* A new connection starts with control frames.
LEMMA ControlFrames ==
  /\ Joined \in Frames /\ Joined.kind # "noise"
  /\ \A x \in BOOLEAN : PeerUpdate(x) \in Frames /\ PeerUpdate(x).kind # "noise"
BY DEF Joined, PeerUpdate, Frame, Frames

LEMMA GreetingNoise ==
  ASSUME NEW x \in BOOLEAN
  PROVE  /\ <<Joined, PeerUpdate(x)>> \in Seq(Frames)
         /\ NoiseIn(<<Joined, PeerUpdate(x)>>) = {}
<1> DEFINE q == <<Joined, PeerUpdate(x)>>
<1>1. Joined \in Frames /\ PeerUpdate(x) \in Frames
  BY ControlFrames
<1>2. q \in Seq(Frames) /\ \A n \in DOMAIN q : q[n] = Joined \/ q[n] = PeerUpdate(x)
  BY <1>1
<1>3. Joined \notin NoiseFrames /\ PeerUpdate(x) \notin NoiseFrames
  BY ControlFrames DEF NoiseFrames
<1> QED
  BY <1>2, <1>3 DEF NoiseIn

-----------------------------------------------------------------------------
(* Lemmas about single handlers, in terms of Sound. *)

LEMMA NoiseFields ==
  \A step, i, r : /\ Noise(step, i, r).kind = "noise"
                  /\ Noise(step, i, r).step = step
                  /\ Noise(step, i, r).i = i /\ Noise(step, i, r).r = r
BY DEF Noise, Frame

LEMMA NoChannelFields ==
  /\ NoChannel \in Channel /\ newChannel \in Channel
  /\ NoChannel.phase = "none" /\ newChannel.phase = "handshaking"
  /\ \A c \in {NoChannel, newChannel} : c.idx = 0 /\ c.i = 0 /\ c.r = 0
BY DEF NoChannel, newChannel, Chan, Channel

\* Frames get lost and channels are forgotten: a channel c is left for one
\* without keys that is not ready, or fails on a message 3 and keeps its own.
Forgets(c, e) ==
  \/ e = c
  \/ e.phase # "ready" /\ e.i = 0 /\ e.r = 0
  \/ c.idx = 2 /\ e.phase = "failed" /\ e.idx = 2 /\ e.i = c.i /\ e.r = c.r

LEMMA Losing ==
  ASSUME NEW a \in Channel, NEW b \in Channel, NEW FI, NEW FR, NEW d \in Nat,
         Sound(a, b, FI, FR, d),
         NEW a2 \in Channel, NEW b2 \in Channel, Forgets(a, a2), Forgets(b, b2),
         NEW GI \in SUBSET FI, NEW GR \in SUBSET FR
  PROVE  Sound(a2, b2, GI, GR, d)
<1>1. \A i, r \in Nat : Offered(a2, b2, GR, i, r) => Offered(a, b, FR, i, r)
  BY DEF Offered, Forgets
<1>2. \A i, r \in Nat : Confirmed(b2, GI, i, r) => Confirmed(b, FI, i, r)
  BY DEF Confirmed, Forgets
<1>3. Shapes(a2, b2, d)
  BY DEF Sound, Shapes, Forgets, Channel
<1>4. Roles(GI, GR, d)
  BY DEF Sound, Roles
<1>5. NewestI(a2, b2, GI, GR)
  BY <1>1 DEF Sound, NewestI, Forgets
<1>6. NewestR(a2, b2, GR)
  BY <1>1 DEF Sound, NewestR, Forgets
<1>7. \A i, r \in Nat : Confirmed(b2, GI, i, r) => i # 0
  BY <1>2, NoiseFields DEF Confirmed, Sound, Shapes, Roles
<1>8. Confirms(a2, b2, GI, GR)
  BY <1>1, <1>2, <1>7 DEF Sound, Confirms, Forgets
<1> QED
  BY <1>3, <1>4, <1>5, <1>6, <1>8 DEF Sound

\* The initiator draws a key and sends message 1.
LEMMA Starting ==
  ASSUME NEW a \in Channel, NEW b \in Channel, NEW FI, NEW FR, NEW d \in Nat,
         Sound(a, b, FI, FR, d),
         NEW e \in Channel, e.phase = "handshaking", e.idx = 1, e.i = d + 1, e.r = 0
  PROVE  Sound(e, b, FI \cup {Noise(1, d + 1, 0)}, FR, d + 1)
<1> DEFINE GI == FI \cup {Noise(1, d + 1, 0)}
<1>1. \A i, r \in Nat : Offered(e, b, FR, i, r) => Offered(a, b, FR, i, r) /\ i <= d
  BY NoiseFields DEF Offered, Sound, Shapes, Roles
<1>2. \A i, r \in Nat : Confirmed(b, GI, i, r) => Confirmed(b, FI, i, r) /\ i <= d
  BY NoiseFields DEF Confirmed, Sound, Shapes, Roles
<1>3. Shapes(e, b, d + 1)
  BY DEF Sound, Shapes, Channel
<1>4. Roles(GI, FR, d + 1)
  BY NoiseFields DEF Sound, Roles
<1>5. NewestI(e, b, GI, FR)
  BY <1>1, NoiseFields DEF Sound, Roles, NewestI
<1>6. NewestR(e, b, FR)
  BY <1>1 DEF Sound, NewestR
<1>7. Confirms(e, b, GI, FR)
  BY <1>1, <1>2 DEF Sound, Confirms
<1> QED
  BY <1>3, <1>4, <1>5, <1>6, <1>7 DEF Sound

\* The responder asks for a handshake.
LEMMA Asking ==
  ASSUME NEW a \in Channel, NEW b \in Channel, NEW FI, NEW FR, NEW d \in Nat,
         Sound(a, b, FI, FR, d)
  PROVE  Sound(a, newChannel, FI, FR \cup {Noise(0, 0, 0)}, d)
<1> DEFINE GR == FR \cup {Noise(0, 0, 0)}
<1>1. \A i, r \in Nat : Offered(a, newChannel, GR, i, r) => Offered(a, b, FR, i, r)
  BY NoiseFields, NoChannelFields DEF Offered
<1>2. \A i, r \in Nat : Confirmed(newChannel, FI, i, r) => Confirmed(b, FI, i, r)
  BY NoChannelFields DEF Confirmed
<1>3. Shapes(a, newChannel, d)
  BY NoChannelFields DEF Sound, Shapes
<1>4. Roles(FI, GR, d)
  BY NoiseFields DEF Sound, Roles
<1>5. NewestI(a, newChannel, FI, GR)
  BY <1>1 DEF Sound, NewestI
<1>6. NewestR(a, newChannel, GR)
  BY NoChannelFields DEF NewestR
<1>7. Confirms(a, newChannel, FI, GR)
  BY <1>1, <1>2 DEF Sound, Confirms
<1> QED
  BY <1>3, <1>4, <1>5, <1>6, <1>7 DEF Sound

\* The responder answers a message 1 with a key of its own.
LEMMA Answering ==
  ASSUME NEW a \in Channel, NEW b \in Channel, NEW FI, NEW FR, NEW d \in Nat,
         Sound(a, b, FI, FR, d), NEW f \in FI, f.i \in Nat,
         NEW e \in Channel, e.phase = "handshaking", e.idx = 2,
         e.i = f.i, e.r = d + 1
  PROVE  Sound(a, e, FI, FR \cup {Noise(2, f.i, d + 1)}, d + 1)
<1> DEFINE GR == FR \cup {Noise(2, f.i, d + 1)}
<1>1. \A i, r \in Nat : Offered(a, e, GR, i, r)
                          => (Offered(a, b, FR, i, r) /\ r <= d) \/ (i = f.i /\ r = d + 1)
  <2>1. \A i, r \in Nat : Noise(2, i, r) \in GR
                            => (Noise(2, i, r) \in FR /\ r <= d) \/ (i = f.i /\ r = d + 1)
    BY NoiseFields DEF Sound, Roles
  <2>2. a.r <= d \/ a.phase # "ready"
    BY DEF Sound, Shapes
  <2> QED
    BY <2>1, <2>2 DEF Offered, Channel
<1>2. \A i, r \in Nat : Confirmed(e, FI, i, r) => Confirmed(b, FI, i, r) /\ r <= d
  BY NoiseFields DEF Confirmed, Sound, Roles
<1>3. Shapes(a, e, d + 1)
  BY DEF Sound, Shapes, Roles, Channel
<1>4. Roles(FI, GR, d + 1)
  BY NoiseFields DEF Sound, Roles
<1>5. NewestI(a, e, FI, GR)
  BY <1>1 DEF Sound, NewestI
<1>6. NewestR(a, e, GR)
  BY <1>1 DEF NewestR
<1>7. Confirms(a, e, FI, GR)
  <2> SUFFICES ASSUME NEW i \in Nat, NEW r \in Nat, Confirmed(e, FI, i, r)
               PROVE  /\ a.i = i => a.idx = 3 /\ a.r = r
                      /\ \A j, s \in Nat : Offered(a, e, GR, j, s) /\ j > i => s > r
    BY DEF Confirms
  <2>1. Confirmed(b, FI, i, r) /\ r <= d
    BY <1>2
  <2>2. \A j, s \in Nat : Offered(a, b, FR, j, s) /\ j > i => s > r
    BY <2>1 DEF Sound, Confirms
  <2>3. \A j, s \in Nat : Offered(a, e, GR, j, s) /\ j > i => s > r
    BY <1>1, <2>1, <2>2
  <2>4. a.i = i => a.idx = 3 /\ a.r = r
    BY <2>1 DEF Sound, Confirms
  <2> QED
    BY <2>3, <2>4
<1> QED
  BY <1>3, <1>4, <1>5, <1>6, <1>7 DEF Sound

\* The initiator opens a message 2, confirms its pair and is ready.
LEMMA Confirming ==
  ASSUME NEW a \in Channel, NEW b \in Channel, NEW FI, NEW FR, NEW d \in Nat,
         Sound(a, b, FI, FR, d),
         NEW f \in FR, f = Noise(2, f.i, f.r), a.idx = 1, a.i = f.i,
         NEW e \in Channel, e.phase = "ready", e.idx = 3, e.i = f.i, e.r = f.r
  PROVE  Sound(e, b, FI \cup {Noise(3, f.i, f.r)}, FR, d)
<1> DEFINE GI == FI \cup {Noise(3, f.i, f.r)}
<1>0. f.i \in 1..d /\ f.r \in 1..d /\ Offered(a, b, FR, f.i, f.r)
  BY NoiseFields DEF Sound, Roles, Offered
<1>1. \A i, r \in Nat : Offered(e, b, FR, i, r) => Offered(a, b, FR, i, r)
  BY <1>0 DEF Offered
<1>2. \A i, r \in Nat : Confirmed(b, GI, i, r)
                          => Confirmed(b, FI, i, r) \/ (i = f.i /\ r = f.r)
  BY NoiseFields DEF Confirmed
<1>3. Shapes(e, b, d)
  BY <1>0 DEF Sound, Shapes, Channel
<1>4. Roles(GI, FR, d)
  BY <1>0, NoiseFields DEF Sound, Roles
<1>5. NewestI(e, b, GI, FR)
  BY <1>0, <1>1, NoiseFields DEF Sound, NewestI
<1>6. NewestR(e, b, FR)
  BY <1>1 DEF Sound, NewestR
<1>7. Confirms(e, b, GI, FR)
  <2> SUFFICES ASSUME NEW i \in Nat, NEW r \in Nat, Confirmed(b, GI, i, r)
               PROVE  /\ e.i = i => e.idx = 3 /\ e.r = r
                      /\ \A j, s \in Nat : Offered(e, b, FR, j, s) /\ j > i => s > r
    BY DEF Confirms
  <2>1. CASE i = f.i /\ r = f.r
    BY <1>0, <1>1, <2>1 DEF Sound, NewestI
  <2>2. CASE Confirmed(b, FI, i, r)
    BY <1>0, <1>1, <2>2 DEF Sound, Confirms
  <2> QED
    BY <1>2, <2>1, <2>2
<1> QED
  BY <1>3, <1>4, <1>5, <1>6, <1>7 DEF Sound

\* The responder opens a message 3 and is ready.
LEMMA Completing ==
  ASSUME NEW a \in Channel, NEW b \in Channel, NEW FI, NEW FR, NEW d \in Nat,
         Sound(a, b, FI, FR, d),
         NEW f \in FI, f = Noise(3, f.i, f.r), b.idx = 2, b.i = f.i, b.r = f.r,
         NEW e \in Channel, e.phase = "ready", e.idx = 3, e.i = b.i, e.r = b.r
  PROVE  Sound(a, e, FI, FR, d)
<1>0. f.i \in 1..d /\ f.r \in 1..d /\ Confirmed(b, FI, f.i, f.r)
  BY NoiseFields DEF Sound, Roles, Confirmed
<1>1. \A i, r \in Nat : Offered(a, e, FR, i, r) => Offered(a, b, FR, i, r)
  BY DEF Offered
<1>2. \A i, r \in Nat : Confirmed(e, FI, i, r) => Confirmed(b, FI, i, r)
  BY <1>0 DEF Confirmed
<1>3. Shapes(a, e, d)
  BY <1>0 DEF Sound, Shapes, Channel
<1>4. NewestI(a, e, FI, FR)
  BY <1>1 DEF Sound, NewestI
<1>5. NewestR(a, e, FR)
  BY <1>1 DEF Sound, NewestR
<1>6. Confirms(a, e, FI, FR)
  BY <1>1, <1>2 DEF Sound, Confirms
<1> QED
  BY <1>3, <1>4, <1>5, <1>6 DEF Sound

\* What the invariant is for.
LEMMA SoundAgrees ==
  ASSUME NEW a \in Channel, NEW b \in Channel, NEW FI, NEW FR, NEW d \in Nat,
         Sound(a, b, FI, FR, d), a.phase = "ready", b.phase = "ready"
  PROVE  a.i = b.i /\ a.r = b.r
<1>1. /\ a.i \in Nat /\ a.r \in Nat /\ b.i \in Nat /\ b.r \in Nat
      /\ a.i # 0 /\ b.r # 0
  BY DEF Channel, Sound, Shapes
<1>2. Confirmed(b, FI, b.i, b.r) /\ Offered(a, b, FR, a.i, a.r) /\ Offered(a, b, FR, b.i, b.r)
  BY <1>1 DEF Confirmed, Offered
<1>3. b.i <= a.i /\ a.r <= b.r
  BY <1>1, <1>2 DEF Sound, NewestI, NewestR
<1>4. (a.i = b.i => a.r = b.r) /\ (a.i > b.i => a.r > b.r)
  BY <1>1, <1>2 DEF Sound, Confirms
<1> QED
  BY <1>1, <1>3, <1>4

-----------------------------------------------------------------------------
(* What a page makes of a frame. *)

LEMMA NoiseIsFrame ==
  \A step \in 0..3, i, r \in Nat : Noise(step, i, r) \in Frames /\ Noise(step, i, r) \in NoiseFrames
BY DEF Noise, Frame, Frames, NoiseFrames

LEMMA PageFields ==
  ASSUME NEW p \in Page
  PROVE  /\ p.chan \in Channel /\ p.lane \in Seq(Frames)
         /\ p.paused \in BOOLEAN /\ p.sees \in BOOLEAN
         /\ p.chan.phase \in {"none", "handshaking", "ready", "failed"}
         /\ p.chan.idx \in 0..3 /\ p.chan.i \in Nat /\ p.chan.r \in Nat
BY DEF Page, Channel

\* Sending changes the channel and the lane and nothing else.
LEMMA SendingPage ==
  ASSUME NEW p \in Page, NEW c \in Channel, NEW f \in Frames
  PROVE  /\ Sending(p, c, f) \in Page
         /\ Sending(p, c, f).chan = c
         /\ Sending(p, c, f).lane = Append(p.lane, f)
<1>1. Append(p.lane, f) \in Seq(Frames)
  BY AppendNoise, PageFields
<1> QED
  BY <1>1 DEF Sending, Page

\* Changing only the channel.
LEMMA ChannelPage ==
  ASSUME NEW p \in Page, NEW c \in Channel
  PROVE  /\ [p EXCEPT !.chan = c] \in Page
         /\ [p EXCEPT !.chan = c].chan = c
         /\ [p EXCEPT !.chan = c].lane = p.lane
BY DEF Page

LEMMA ChanFields ==
  ASSUME NEW phase, NEW idx, NEW i, NEW r
  PROVE  /\ Chan(phase, idx, i, r).phase = phase /\ Chan(phase, idx, i, r).idx = idx
         /\ Chan(phase, idx, i, r).i = i /\ Chan(phase, idx, i, r).r = r
BY DEF Chan

LEMMA ChanType ==
  ASSUME NEW phase \in {"none", "handshaking", "ready", "failed"}, NEW idx \in 0..3,
         NEW i \in Nat, NEW r \in Nat
  PROVE  Chan(phase, idx, i, r) \in Channel
BY DEF Chan, Channel

\* The channel a failed message leaves.
LEMMA FailedForgets ==
  ASSUME NEW c \in Channel, NEW f
  PROVE  Failed(c, f) \in Channel /\ Forgets(c, Failed(c, f))
BY DEF Failed, Forgets, Chan, Channel

\* What may become of a page p, by what it sends.
Quiet(p, q) == q.lane = p.lane /\ Forgets(p.chan, q.chan)
Starts(p, q, k) ==
  /\ q.lane = Append(p.lane, Noise(1, k, 0))
  /\ q.chan = Chan("handshaking", 1, k, 0)
Asks(p, q) ==
  /\ q.lane = Append(p.lane, Noise(0, 0, 0))
  /\ q.chan = newChannel
Answers(p, q, f, k) ==
  /\ f.kind = "noise" /\ f.step = 1
  /\ q.lane = Append(p.lane, Noise(2, f.i, k))
  /\ q.chan = Chan("handshaking", 2, f.i, k)
Confirms2(p, q, f) ==
  /\ f.kind = "noise" /\ f.step = 2
  /\ p.chan.idx = 1 /\ p.chan.i = f.i
  /\ q.lane = Append(p.lane, Noise(3, f.i, f.r))
  /\ q.chan = Chan("ready", 3, f.i, f.r)
Completes(p, q, f) ==
  /\ f.kind = "noise" /\ f.step = 3
  /\ p.chan.idx = 2 /\ p.chan.i = f.i /\ p.chan.r = f.r
  /\ q.lane = p.lane
  /\ q.chan = Chan("ready", 3, f.i, f.r)

\* A page's answer to a peer_update that names the other peer.
LEMMA EnsuredPage ==
  ASSUME NEW x \in Clients, NEW p \in Page, NEW k \in Nat,
         NEW q, q = ensureChannel(x, p, k)
  PROVE  /\ q \in Page
         /\ q = p \/ (x = "I" /\ Starts(p, q, k)) \/ (x = "R" /\ Asks(p, q))
<1>1. CASE p.chan.phase # "none"
  BY <1>1 DEF ensureChannel
<1>2. CASE p.chan.phase = "none" /\ x = "I"
  <2>1. Noise(1, k, 0) \in Frames
    BY NoiseIsFrame
  <2>2. q = Sending(p, Chan("handshaking", 1, k, 0), Noise(1, k, 0))
    BY <1>2 DEF ensureChannel
  <2>3. Chan("handshaking", 1, k, 0) \in Channel
    BY ChanType
  <2> QED
    BY <1>2, <2>1, <2>2, <2>3, SendingPage DEF Starts
<1>3. CASE p.chan.phase = "none" /\ x = "R"
  <2>1. Noise(0, 0, 0) \in Frames
    BY NoiseIsFrame
  <2>2. q = Sending(p, newChannel, Noise(0, 0, 0))
    BY <1>3 DEF ensureChannel
  <2> QED
    BY <1>3, <2>1, <2>2, SendingPage, NoChannelFields DEF Asks
<1> QED
  BY <1>1, <1>2, <1>3

\* What peer_update and `joined' do before a channel is made or dropped.
LEMMA ControlPages ==
  ASSUME NEW p \in Page
  PROVE  /\ [p EXCEPT !.paused = FALSE] \in Page
         /\ Quiet(p, [p EXCEPT !.paused = FALSE])
         /\ [p EXCEPT !.sees = FALSE, !.chan = NoChannel] \in Page
         /\ Quiet(p, [p EXCEPT !.sees = FALSE, !.chan = NoChannel])
         /\ [p EXCEPT !.sees = TRUE] \in Page
         /\ [p EXCEPT !.sees = TRUE].chan = p.chan
         /\ [p EXCEPT !.sees = TRUE].lane = p.lane
BY NoChannelFields DEF Page, Quiet, Forgets

\* The initiator's page after a frame.
LEMMA InitiatorHandles ==
  ASSUME NEW p \in Page, NEW f \in Frames, NEW k \in Nat,
         f.kind = "noise" => f.step \in {0, 2},
         NEW q, q = onmessage("I", p, f, k)
  PROVE  /\ q \in Page
         /\ Quiet(p, q) \/ Starts(p, q, k) \/ Confirms2(p, q, f)
<1> DEFINE c == ChannelFor(p)
<1>0. c \in Channel /\ (c = p.chan \/ c = newChannel) /\ f.i \in Nat /\ f.r \in Nat
  BY PageFields, NoChannelFields DEF ChannelFor, Frames
<1>1. CASE f.kind = "joined"
  BY <1>1, ControlPages DEF onmessage
<1>2. CASE f.kind = "here"
  <2>1. q = ensureChannel("I", [p EXCEPT !.sees = TRUE], k)
    BY <1>2 DEF onmessage
  <2>2. [p EXCEPT !.sees = TRUE] \in Page
    BY ControlPages
  <2>3. q \in Page /\ (q = [p EXCEPT !.sees = TRUE] \/ Starts([p EXCEPT !.sees = TRUE], q, k))
    BY <2>1, <2>2, EnsuredPage
  <2> QED
    BY <2>3, ControlPages DEF Starts, Quiet, Forgets
<1>3. CASE f.kind = "gone"
  <2>1. q = p \/ q = [p EXCEPT !.sees = FALSE, !.chan = NoChannel]
    BY <1>3 DEF onmessage
  <2>2. Quiet(p, p)
    BY DEF Quiet, Forgets
  <2> QED
    BY <2>1, <2>2, ControlPages
<1>4. CASE f.kind = "noise" /\ f.step = 0
  <2>1. q = onRestartRequest("I", p, k)
    BY <1>4 DEF onmessage, onSignal
  <2>2. CASE p.chan.phase = "handshaking"
    BY <2>1, <2>2 DEF onRestartRequest, Quiet, Forgets
  <2>3. CASE p.chan.phase # "handshaking"
    <3> DEFINE o == [p EXCEPT !.chan = NoChannel]
    <3>1. q = ensureChannel("I", o, k)
      BY <2>1, <2>3 DEF onRestartRequest
    <3>2. o \in Page /\ o.chan = NoChannel /\ o.lane = p.lane
      BY ChannelPage, NoChannelFields
    <3> HIDE DEF o
    <3>3. q \in Page /\ (q = o \/ Starts(o, q, k))
      BY <3>1, <3>2, EnsuredPage
    <3> QED
      BY <3>2, <3>3, NoChannelFields DEF Starts, Quiet, Forgets
  <2> QED
    BY <2>2, <2>3
<1>5. CASE f.kind = "noise" /\ f.step = 2
  <2>1. q = ReadMessage2(p, f)
    BY <1>5 DEF onmessage, onSignal
  <2>2. CASE Opens(c, f)
    <3>1. p.chan.idx = 1 /\ p.chan.i = f.i
      BY <1>0, <1>5, <2>2, NoChannelFields DEF Opens
    <3>2. q = Sending(p, Chan("ready", 3, f.i, f.r), Noise(3, f.i, f.r))
      BY <2>1, <2>2 DEF ReadMessage2
    <3>3. Chan("ready", 3, f.i, f.r) \in Channel /\ Noise(3, f.i, f.r) \in Frames
      BY <1>0, NoiseIsFrame, ChanType
    <3> QED
      BY <1>5, <3>1, <3>2, <3>3, SendingPage DEF Confirms2
  <2>3. CASE ~Opens(c, f)
    <3>1. Failed(c, f) \in Channel /\ Forgets(c, Failed(c, f))
      BY <1>0, FailedForgets
    <3>2. Forgets(p.chan, Failed(c, f))
      BY <1>0, <3>1, NoChannelFields, ChanFields DEF Forgets, Failed
    <3>3. q = [p EXCEPT !.chan = Failed(c, f)]
      BY <2>1, <2>3 DEF ReadMessage2
    <3> HIDE DEF c
    <3>4. PICK e \in Channel : e = Failed(c, f)
      BY <3>1
    <3>5. q = [p EXCEPT !.chan = e]
      BY <3>3, <3>4
    <3>6. Forgets(p.chan, e)
      BY <3>2, <3>4
    <3>7. /\ [p EXCEPT !.chan = e] \in Page
          /\ [p EXCEPT !.chan = e].chan = e
          /\ [p EXCEPT !.chan = e].lane = p.lane
      BY ChannelPage
    <3>8. q \in Page /\ q.chan = e /\ q.lane = p.lane
      BY <3>5, <3>7
    <3>9. Quiet(p, q)
      BY <3>6, <3>8 DEF Quiet
    <3> QED
      BY <3>8, <3>9
  <2> QED
    BY <2>2, <2>3
<1> QED
  BY <1>1, <1>2, <1>3, <1>4, <1>5 DEF Frames

\* The responder's page after a frame.
LEMMA ResponderHandles ==
  ASSUME NEW p \in Page, NEW f \in Frames, NEW k \in Nat,
         f.kind = "noise" => f.step \in {1, 3},
         p.chan.idx = 0 => p.chan.i = 0 /\ p.chan.r = 0,
         p.chan.phase = "ready" => p.chan.idx = 3,
         NEW q, q = onmessage("R", p, f, k)
  PROVE  /\ q \in Page
         /\ Quiet(p, q) \/ Asks(p, q) \/ Answers(p, q, f, k) \/ Completes(p, q, f)
<1> DEFINE c == ChannelFor(p)
<1>0. c \in Channel /\ (c = p.chan \/ c = newChannel) /\ f.i \in Nat /\ f.r \in Nat
  BY PageFields, NoChannelFields DEF ChannelFor, Frames
<1>1. CASE f.kind = "joined"
  BY <1>1, ControlPages DEF onmessage
<1>2. CASE f.kind = "here"
  <2>1. q = ensureChannel("R", [p EXCEPT !.sees = TRUE], k)
    BY <1>2 DEF onmessage
  <2>2. [p EXCEPT !.sees = TRUE] \in Page
    BY ControlPages
  <2>3. q \in Page /\ (q = [p EXCEPT !.sees = TRUE] \/ Asks([p EXCEPT !.sees = TRUE], q))
    BY <2>1, <2>2, EnsuredPage
  <2> QED
    BY <2>3, ControlPages DEF Asks, Quiet, Forgets
<1>3. CASE f.kind = "gone"
  <2>1. q = p \/ q = [p EXCEPT !.sees = FALSE, !.chan = NoChannel]
    BY <1>3 DEF onmessage
  <2>2. Quiet(p, p)
    BY DEF Quiet, Forgets
  <2> QED
    BY <2>1, <2>2, ControlPages
<1>4. CASE f.kind = "noise" /\ f.step = 1
  <2>1. q = Sending(p, Chan("handshaking", 2, f.i, k), Noise(2, f.i, k))
    BY <1>4 DEF onmessage, onSignal, ReadMessage1
  <2>2. Chan("handshaking", 2, f.i, k) \in Channel /\ Noise(2, f.i, k) \in Frames
    BY <1>0, NoiseIsFrame, ChanType
  <2> QED
    BY <1>4, <2>1, <2>2, SendingPage DEF Answers
<1>5. CASE f.kind = "noise" /\ f.step = 3
  <2> DEFINE e == IF Opens(c, f) THEN Chan("ready", 3, f.i, f.r)
                  ELSE IF c.idx = 0 THEN Chan(c.phase, 1, c.i, c.r)
                  ELSE Failed(c, f)
  <2>1. q = [p EXCEPT !.chan = e]
    BY <1>5 DEF onmessage, onSignal, ReadMessage3
  <2>2. CASE Opens(c, f)
    <3>1. p.chan.idx = 2 /\ p.chan.i = f.i /\ p.chan.r = f.r
      BY <1>0, <1>5, <2>2, NoChannelFields DEF Opens
    <3>2. e = Chan("ready", 3, f.i, f.r)
      BY <2>2
    <3>3. e \in Channel
      BY <1>0, <3>2, ChanType
    <3> HIDE DEF e
    <3> QED
      <4>1. q \in Page /\ q.chan = e /\ q.lane = p.lane
        BY <2>1, <3>3, ChannelPage
      <4> QED
        BY <1>5, <3>1, <3>2, <4>1 DEF Completes
  <2>3. CASE ~Opens(c, f) /\ c.idx = 0
    <3>1. e = Chan(c.phase, 1, c.i, c.r)
      BY <2>3
    <3>2. c.i = 0 /\ c.r = 0 /\ c.phase # "ready"
      BY <1>0, <2>3, NoChannelFields
    <3>3. e \in Channel
      <4>1. c.phase \in {"none", "handshaking", "ready", "failed"} /\ c.i \in Nat /\ c.r \in Nat
        BY <1>0 DEF Channel
      <4> QED
        BY <3>1, <4>1, ChanType
    <3>4. Forgets(p.chan, e)
      BY <3>1, <3>2, ChanFields DEF Forgets
    <3> HIDE DEF e
    <3> QED
      BY <2>1, <3>3, <3>4, ChannelPage DEF Quiet
  <2>4. CASE ~Opens(c, f) /\ c.idx # 0
    <3>1. c = p.chan /\ e = Failed(c, f)
      BY <1>0, <2>4, NoChannelFields
    <3>2. e \in Channel /\ Forgets(p.chan, e)
      BY <1>0, <3>1, FailedForgets
    <3> HIDE DEF e
    <3> QED
      BY <2>1, <3>2, ChannelPage DEF Quiet
  <2> QED
    BY <2>2, <2>3, <2>4
<1> QED
  BY <1>1, <1>2, <1>3, <1>4, <1>5 DEF Frames
-----------------------------------------------------------------------------
(* The specification. *)

LEMMA Start == Init => IInv
<1> SUFFICES ASSUME Init PROVE IInv
  OBVIOUS
<1>1. FreshPage \in Page /\ FreshPage.chan = NoChannel /\ FreshPage.lane = <<>>
  <2>1. <<>> \in Seq(Frames)
    OBVIOUS
  <2> QED
    BY <2>1, NoChannelFields DEF FreshPage, Page
<1>2. TypeOK
  BY <1>1, EmptySeq DEF Init, TypeOK
<1>3. /\ page["I"].chan = NoChannel /\ page["R"].chan = NoChannel
      /\ Sent("I") = {} /\ Sent("R") = {} /\ drawn = 0
  BY <1>1, EmptyNoise DEF Init, Sent, Other
<1>4. Sound(NoChannel, NoChannel, {}, {}, 0)
  BY NoChannelFields DEF Sound, Shapes, Roles, NewestI, NewestR, Confirms, Confirmed, Offered
<1> QED
  BY <1>2, <1>3, <1>4 DEF IInv

\* A step that takes no frame's contents into account: it may lose frames and
\* forget channels.
LEMMA LosingStep ==
  ASSUME IInv, TypeOK', drawn' = drawn,
         \A x \in Clients : /\ Forgets(page[x].chan, page'[x].chan)
                            /\ Sent(x)' \subseteq Sent(x)
  PROVE  IInv'
<1>1. /\ page["I"].chan \in Channel /\ page["R"].chan \in Channel
      /\ page'["I"].chan \in Channel /\ page'["R"].chan \in Channel
      /\ drawn \in Nat
  BY PageFields DEF IInv, TypeOK
<1>2. Sound(page["I"].chan, page["R"].chan, Sent("I"), Sent("R"), drawn)
  BY DEF IInv
<1>3. Sound(page'["I"].chan, page'["R"].chan, Sent("I")', Sent("R")', drawn)
  BY <1>1, <1>2, Losing
<1> QED
  BY <1>3 DEF IInv

\* A step after which the channels are sound with at least the frames that
\* are under way.
LEMMA NextSound ==
  ASSUME TypeOK', NEW FI, NEW FR,
         Sound(page'["I"].chan, page'["R"].chan, FI, FR, drawn'),
         Sent("I")' \subseteq FI, Sent("R")' \subseteq FR
  PROVE  IInv'
<1>1. page'["I"].chan \in Channel /\ page'["R"].chan \in Channel /\ drawn' \in Nat
  BY PageFields DEF TypeOK
<1>2. \A c \in Channel : Forgets(c, c)
  BY DEF Forgets
<1>3. Sound(page'["I"].chan, page'["R"].chan, Sent("I")', Sent("R")', drawn')
  BY <1>1, <1>2, Losing
<1> QED
  BY <1>3 DEF IInv

LEMMA Typed ==
  ASSUME TypeOK, NEW x \in Clients
  PROVE  /\ page[x] \in Page /\ page[x].chan \in Channel /\ page[x].lane \in Seq(Frames)
         /\ uplink[x] \in Seq(Frames) /\ downlink[x] \in Seq(Frames)
         /\ open[x] \in BOOLEAN /\ present[x] \in BOOLEAN
         /\ Other(x) \in Clients /\ Other(x) # x /\ Other(Other(x)) = x
BY PageFields DEF TypeOK, Other

LEMMA JoinStep ==
  ASSUME IInv, NEW x \in Clients, Join(x)
  PROVE  IInv'
<1>1. TypeOK
  BY DEF IInv
<1>2. /\ <<>> \in Seq(Frames) /\ NoiseIn(<<>>) = {}
      /\ <<Joined, PeerUpdate(present[Other(x)])>> \in Seq(Frames)
      /\ NoiseIn(<<Joined, PeerUpdate(present[Other(x)])>>) = {}
  BY <1>1, Typed, EmptySeq, EmptyNoise, GreetingNoise
<1>3. \A y \in Clients : /\ uplink'[y] \in Seq(Frames)
                         /\ NoiseIn(uplink'[y]) \subseteq NoiseIn(uplink[y])
  BY <1>1, <1>2, Typed DEF Join, TypeOK
<1>4. \A y \in Clients : /\ downlink'[y] \in Seq(Frames)
                         /\ NoiseIn(downlink'[y]) \subseteq NoiseIn(downlink[y])
  <2> SUFFICES ASSUME NEW y \in Clients
               PROVE  /\ downlink'[y] \in Seq(Frames)
                      /\ NoiseIn(downlink'[y]) \subseteq NoiseIn(downlink[y])
    OBVIOUS
  <2>1. PeerUpdate(TRUE) \in Frames /\ PeerUpdate(TRUE).kind # "noise"
    BY ControlFrames
  <2>2. /\ Append(downlink[y], PeerUpdate(TRUE)) \in Seq(Frames)
        /\ NoiseIn(Append(downlink[y], PeerUpdate(TRUE))) \subseteq NoiseIn(downlink[y])
    BY <1>1, <2>1, Typed, AppendNoise
  <2>3. \/ downlink'[y] = <<Joined, PeerUpdate(present[Other(x)])>>
        \/ downlink'[y] = Append(downlink[y], PeerUpdate(TRUE))
        \/ downlink'[y] = downlink[y]
    BY DEF Join
  <2> QED
    BY <1>1, <1>2, <2>2, <2>3, Typed
<1>5. TypeOK'
  <2>1. uplink' \in [Clients -> Seq(Frames)] /\ downlink' \in [Clients -> Seq(Frames)]
    BY <1>1, <1>3, <1>4 DEF Join, TypeOK
  <2>2. (clean /\ (present[Other(x)] => open[Other(x)])) \in BOOLEAN
    OBVIOUS
  <2> QED
    BY <1>1, <2>1, <2>2 DEF Join, TypeOK
<1>6. \A y \in Clients : Sent(y)' \subseteq Sent(y)
  BY <1>1, <1>3, <1>4, Typed DEF Sent, Join
<1> QED
  BY <1>5, <1>6, LosingStep DEF Join, Forgets

LEMMA RelayCloseStep ==
  ASSUME IInv, NEW x \in Clients, RelayClose(x)
  PROVE  IInv'
<1>1. TypeOK
  BY DEF IInv
<1>2. PeerUpdate(FALSE) \in Frames /\ PeerUpdate(FALSE).kind # "noise"
  BY ControlFrames
<1>3. \A y \in Clients : /\ downlink'[y] \in Seq(Frames)
                         /\ NoiseIn(downlink'[y]) \subseteq NoiseIn(downlink[y])
  <2> SUFFICES ASSUME NEW y \in Clients
               PROVE  /\ downlink'[y] \in Seq(Frames)
                      /\ NoiseIn(downlink'[y]) \subseteq NoiseIn(downlink[y])
    OBVIOUS
  <2>1. /\ Append(downlink[y], PeerUpdate(FALSE)) \in Seq(Frames)
        /\ NoiseIn(Append(downlink[y], PeerUpdate(FALSE))) \subseteq NoiseIn(downlink[y])
    BY <1>1, <1>2, Typed, AppendNoise
  <2>2. \/ downlink'[y] = Append(downlink[y], PeerUpdate(FALSE))
        \/ downlink'[y] = downlink[y]
    BY <1>1 DEF RelayClose, TypeOK
  <2> QED
    BY <1>1, <2>1, <2>2, Typed
<1>4. TypeOK'
  BY <1>1, <1>3 DEF RelayClose, TypeOK
<1>5. \A y \in Clients : Sent(y)' \subseteq Sent(y)
  BY <1>1, <1>3, Typed DEF Sent, RelayClose
<1> QED
  BY <1>4, <1>5, LosingStep DEF RelayClose, Forgets

LEMMA RelayStep ==
  ASSUME IInv, NEW x \in Clients, Relay(x)
  PROVE  IInv'
<1>1. TypeOK
  BY DEF IInv
<1> DEFINE y == Other(x)
           f == Head(uplink[x])
<1>2. /\ y \in Clients /\ y # x /\ Other(y) = x
      /\ uplink[x] \in Seq(Frames) /\ uplink[x] # <<>> /\ downlink[y] \in Seq(Frames)
  BY <1>1, Typed DEF Relay
<1>3. /\ f \in Frames /\ Tail(uplink[x]) \in Seq(Frames)
      /\ NoiseIn(Tail(uplink[x])) \subseteq NoiseIn(uplink[x])
      /\ f.kind = "noise" => f \in NoiseIn(uplink[x])
  BY <1>2, TailNoise
<1>4. /\ Append(downlink[y], f) \in Seq(Frames)
      /\ NoiseIn(Append(downlink[y], f)) \subseteq NoiseIn(downlink[y]) \cup NoiseIn(uplink[x])
  BY <1>2, <1>3, AppendNoise
<1>5. /\ uplink' = [uplink EXCEPT ![x] = Tail(uplink[x])]
      /\ downlink' = [downlink EXCEPT ![y] = Append(downlink[y], f)] \/ downlink' = downlink
  BY DEF Relay
<1>6. TypeOK'
  BY <1>1, <1>2, <1>3, <1>4, <1>5 DEF Relay, TypeOK
<1>7. /\ uplink'[x] = Tail(uplink[x]) /\ uplink'[y] = uplink[y]
      /\ downlink'[x] = downlink[x]
      /\ downlink'[y] = Append(downlink[y], f) \/ downlink'[y] = downlink[y]
  BY <1>1, <1>2, <1>5 DEF TypeOK
<1> HIDE DEF y, f
<1>8. Sent(x)' = NoiseIn(page[x].lane) \cup NoiseIn(uplink'[x]) \cup NoiseIn(downlink'[y])
  BY DEF Sent, Relay, y
<1>9. Sent(x) = NoiseIn(page[x].lane) \cup NoiseIn(uplink[x]) \cup NoiseIn(downlink[y])
  BY DEF Sent, y
<1>10. Sent(x)' \subseteq Sent(x)
  BY <1>3, <1>4, <1>7, <1>8, <1>9
<1>11. Sent(y)' \subseteq Sent(y)
  BY <1>2, <1>7 DEF Sent, Relay
<1>12. \A z \in Clients : z = x \/ z = y
  BY <1>2
<1> QED
  BY <1>6, <1>10, <1>11, <1>12, LosingStep DEF Relay, Forgets

LEMMA ThrottleStep ==
  ASSUME IInv, NEW x \in Clients, Throttle(x)
  PROVE  IInv'
<1>1. TypeOK
  BY DEF IInv
<1>2. Tail(uplink[x]) \in Seq(Frames) /\ NoiseIn(Tail(uplink[x])) \subseteq NoiseIn(uplink[x])
  BY <1>1, Typed, TailNoise DEF Throttle
<1>3. uplink' = [uplink EXCEPT ![x] = Tail(uplink[x])]
  BY DEF Throttle
<1>4. \A y \in Clients : NoiseIn(uplink'[y]) \subseteq NoiseIn(uplink[y])
  BY <1>1, <1>2, <1>3 DEF TypeOK
<1>5. TypeOK'
  BY <1>1, <1>2, <1>3 DEF Throttle, Fault, TypeOK, AtRest
<1>6. \A y \in Clients : Sent(y)' \subseteq Sent(y)
  BY <1>4 DEF Sent, Throttle
<1> QED
  BY <1>5, <1>6, LosingStep DEF Throttle, Forgets

LEMMA PumpStep ==
  ASSUME IInv, NEW x \in Clients, Pump(x)
  PROVE  IInv'
<1>1. TypeOK
  BY DEF IInv
<1> DEFINE lane == page[x].lane
           f == Head(lane)
           q == [page[x] EXCEPT !.lane = Tail(lane)]
<1>2. /\ page[x] \in Page /\ lane \in Seq(Frames) /\ lane # <<>>
      /\ uplink[x] \in Seq(Frames) /\ Other(x) \in Clients /\ Other(x) # x
  BY <1>1, Typed DEF Pump
<1>3. /\ f \in Frames /\ Tail(lane) \in Seq(Frames)
      /\ NoiseIn(Tail(lane)) \subseteq NoiseIn(lane)
      /\ f.kind = "noise" => f \in NoiseIn(lane)
  BY <1>2, TailNoise
<1>4. /\ Append(uplink[x], f) \in Seq(Frames)
      /\ NoiseIn(Append(uplink[x], f)) \subseteq NoiseIn(uplink[x]) \cup NoiseIn(lane)
  BY <1>2, <1>3, AppendNoise
<1>5. q \in Page /\ q.chan = page[x].chan /\ q.lane = Tail(lane)
  BY <1>2, <1>3 DEF Page
<1>6. /\ page' = [page EXCEPT ![x] = q]
      /\ uplink' = [uplink EXCEPT ![x] = Append(uplink[x], f)]
  BY DEF Pump
<1> HIDE DEF lane, f, q
<1>7. TypeOK'
  <2>1. page' \in [Clients -> Page]
    BY <1>1, <1>5, <1>6 DEF TypeOK
  <2>2. uplink' \in [Clients -> Seq(Frames)]
    BY <1>1, <1>4, <1>6 DEF TypeOK
  <2>3. UNCHANGED <<open, present, downlink, drawn, faults, clean>>
    BY DEF Pump
  <2> QED
    BY <1>1, <2>1, <2>2, <2>3 DEF TypeOK
<1>8. /\ page'[x] = q /\ page'[Other(x)] = page[Other(x)]
      /\ uplink'[x] = Append(uplink[x], f) /\ uplink'[Other(x)] = uplink[Other(x)]
  BY <1>1, <1>2, <1>6 DEF TypeOK
<1>9. Sent(x)' \subseteq Sent(x)
  BY <1>3, <1>4, <1>5, <1>8 DEF Sent, Pump, lane
<1>10. Sent(Other(x))' \subseteq Sent(Other(x))
  BY <1>8 DEF Sent, Pump
<1>11. \A z \in Clients : z = x \/ z = Other(x)
  BY <1>2
<1>12. \A z \in Clients : Forgets(page[z].chan, page'[z].chan)
  BY <1>5, <1>8, <1>11 DEF Forgets
<1> QED
  BY <1>7, <1>9, <1>10, <1>11, <1>12, LosingStep DEF Pump

\* A socket that dies loses frames of its own and frames for it.
LEMMA LosingSocket ==
  ASSUME TypeOK, NEW x \in Clients, LoseSocket(x)
  PROVE  /\ open' \in [Clients -> BOOLEAN]
         /\ uplink' \in [Clients -> Seq(Frames)] /\ downlink' \in [Clients -> Seq(Frames)]
         /\ \A y \in Clients : /\ NoiseIn(uplink'[y]) \subseteq NoiseIn(uplink[y])
                              /\ NoiseIn(downlink'[y]) \subseteq NoiseIn(downlink[y])
<1>1. PICK n \in 0..Len(uplink[x]) : uplink' = [uplink EXCEPT ![x] = SubSeq(uplink[x], 1, n)]
  BY DEF LoseSocket
<1>2. /\ SubSeq(uplink[x], 1, n) \in Seq(Frames)
      /\ NoiseIn(SubSeq(uplink[x], 1, n)) \subseteq NoiseIn(uplink[x])
  <2>1. uplink[x] \in Seq(Frames) /\ 1 \in 1..(Len(uplink[x]) + 1)
    BY Typed
  <2> QED
    BY <2>1, PartNoise
<1>3. /\ uplink' \in [Clients -> Seq(Frames)]
      /\ \A y \in Clients : NoiseIn(uplink'[y]) \subseteq NoiseIn(uplink[y])
  BY <1>1, <1>2 DEF TypeOK
<1>4. /\ <<>> \in Seq(Frames) /\ NoiseIn(<<>>) = {}
      /\ downlink' = [downlink EXCEPT ![x] = <<>>]
  BY EmptySeq, EmptyNoise DEF LoseSocket
<1>5. /\ downlink' \in [Clients -> Seq(Frames)]
      /\ \A y \in Clients : NoiseIn(downlink'[y]) \subseteq NoiseIn(downlink[y])
  BY <1>4 DEF TypeOK
<1>6. open' \in [Clients -> BOOLEAN]
  BY DEF LoseSocket, TypeOK
<1> QED
  BY <1>3, <1>5, <1>6

\* The page of a client whose socket dies is q: it has forgotten part of its
\* lane, or everything.
LEMMA FaultStep ==
  ASSUME IInv, NEW x \in Clients, LoseSocket(x), Fault, UNCHANGED <<present, drawn>>,
         NEW q \in Page, page' = [page EXCEPT ![x] = q], Forgets(page[x].chan, q.chan),
         NoiseIn(q.lane) \subseteq NoiseIn(page[x].lane)
  PROVE  IInv'
<1>1. TypeOK
  BY DEF IInv
<1>2. TypeOK'
  <2>1. page' \in [Clients -> Page]
    BY <1>1 DEF TypeOK
  <2>2. faults' \in Nat /\ clean' \in BOOLEAN
    BY <1>1 DEF Fault, TypeOK, AtRest
  <2> QED
    BY <1>1, <2>1, <2>2, LosingSocket DEF TypeOK
<1>3. /\ page'[x] = q
      /\ \A y \in Clients : y # x => page'[y] = page[y]
  BY <1>1 DEF TypeOK
<1>4. \A y \in Clients : Forgets(page[y].chan, page'[y].chan)
  BY <1>3 DEF Forgets
<1>5. \A y \in Clients : NoiseIn(page'[y].lane) \subseteq NoiseIn(page[y].lane)
  BY <1>3
<1>6. \A y \in Clients : Sent(y)' \subseteq Sent(y)
  BY <1>1, <1>5, LosingSocket, Typed DEF Sent
<1> QED
  BY <1>2, <1>4, <1>6, LosingStep

LEMMA DropStep ==
  ASSUME IInv, NEW x \in Clients, Drop(x)
  PROVE  IInv'
<1>1. /\ page[x] \in Page /\ page[x].lane \in Seq(Frames)
      /\ page \in [Clients -> Page]
  BY Typed DEF IInv, TypeOK
<1>2. PICK n \in 0..Len(page[x].lane) :
        page' = [page EXCEPT ![x].lane = SubSeq(page[x].lane, n + 1, Len(page[x].lane)),
                             ![x].paused = TRUE]
  BY <1>1 DEF Drop
<1> DEFINE part == SubSeq(page[x].lane, n + 1, Len(page[x].lane))
           q == [page[x] EXCEPT !.lane = part, !.paused = TRUE]
<1>3. part \in Seq(Frames) /\ NoiseIn(part) \subseteq NoiseIn(page[x].lane)
  <2>1. n + 1 \in 1..(Len(page[x].lane) + 1) /\ Len(page[x].lane) \in 0..Len(page[x].lane)
    BY <1>1
  <2> QED
    BY <1>1, <2>1, PartNoise
<1>4. page' = [page EXCEPT ![x] = q]
  BY <1>1, <1>2
<1> HIDE DEF part
<1>5. q \in Page /\ q.chan = page[x].chan /\ q.lane = part
  BY <1>1, <1>3 DEF Page
<1> HIDE DEF q
<1>6. Forgets(page[x].chan, q.chan) /\ NoiseIn(q.lane) \subseteq NoiseIn(page[x].lane)
  BY <1>3, <1>5 DEF Forgets
<1> QED
  BY <1>4, <1>5, <1>6, FaultStep DEF Drop

LEMMA ReloadStep ==
  ASSUME IInv, NEW x \in Clients, Reload(x)
  PROVE  IInv'
<1>1. FreshPage \in Page /\ FreshPage.chan = NoChannel /\ FreshPage.lane = <<>>
  BY EmptySeq, NoChannelFields DEF FreshPage, Page
<1>2. /\ Forgets(page[x].chan, FreshPage.chan)
      /\ NoiseIn(FreshPage.lane) \subseteq NoiseIn(page[x].lane)
  BY <1>1, NoChannelFields, EmptyNoise DEF Forgets
<1> QED
  BY <1>1, <1>2, FaultStep DEF Reload

\* The frame that Receive handles was under way.
LEMMA Arriving ==
  ASSUME TypeOK, NEW x \in Clients, downlink[x] # <<>>,
         NEW f, f = Head(downlink[x])
  PROVE  f \in Frames /\ (f.kind = "noise" => f \in Sent(Other(x)))
<1>1. downlink[x] \in Seq(Frames) /\ Other(Other(x)) = x
  BY Typed
<1> QED
  BY <1>1, TailNoise DEF Sent

\* What Receive has in common for both clients: x's page becomes q, and no
\* frames are added but what q has appended to its own lane.
LEMMA Receiving ==
  ASSUME TypeOK, NEW x \in Clients, Receive(x),
         NEW q \in Page, q = onmessage(x, page[x], Head(downlink[x]), drawn + 1)
  PROVE  /\ TypeOK'
         /\ page'[x] = q /\ page'[Other(x)] = page[Other(x)]
         /\ drawn' = IF drawn + 1 \in {q.chan.i, q.chan.r} THEN drawn + 1 ELSE drawn
         /\ Sent(Other(x))' \subseteq Sent(Other(x))
         /\ Sent(x)' = NoiseIn(q.lane) \cup NoiseIn(uplink[x]) \cup NoiseIn(downlink[Other(x)])
<1> DEFINE y == Other(x)
<1>1. /\ downlink[x] \in Seq(Frames) /\ downlink[x] # <<>>
      /\ y \in Clients /\ y # x /\ Other(y) = x
  BY Typed DEF Receive
<1>2. /\ Tail(downlink[x]) \in Seq(Frames)
      /\ NoiseIn(Tail(downlink[x])) \subseteq NoiseIn(downlink[x])
  BY <1>1, TailNoise
<1>3. /\ page' = [page EXCEPT ![x] = q]
      /\ downlink' = [downlink EXCEPT ![x] = Tail(downlink[x])]
      /\ drawn' = IF drawn + 1 \in {q.chan.i, q.chan.r} THEN drawn + 1 ELSE drawn
      /\ UNCHANGED <<open, present, uplink, faults, clean>>
  BY DEF Receive
<1> HIDE DEF y
<1>4. /\ page'[x] = q /\ page'[y] = page[y]
      /\ downlink'[x] = Tail(downlink[x]) /\ downlink'[y] = downlink[y]
  BY <1>1, <1>3 DEF TypeOK
<1>5. TypeOK'
  <2>1. page' \in [Clients -> Page]
    BY <1>3 DEF TypeOK
  <2>2. downlink' \in [Clients -> Seq(Frames)]
    BY <1>2, <1>3 DEF TypeOK
  <2>3. drawn' \in Nat
    BY <1>3 DEF TypeOK
  <2> QED
    BY <1>3, <2>1, <2>2, <2>3 DEF TypeOK
<1>6. Sent(y)' \subseteq Sent(y)
  BY <1>1, <1>2, <1>3, <1>4 DEF Sent
<1>7. Sent(x)' = NoiseIn(q.lane) \cup NoiseIn(uplink[x]) \cup NoiseIn(downlink[y])
  BY <1>3, <1>4 DEF Sent, y
<1> QED
  BY <1>3, <1>4, <1>5, <1>6, <1>7 DEF y

\* The frames under way when a page has appended one to its lane.
LEMMA AppendedSent ==
  ASSUME TypeOK, NEW x \in Clients, NEW q \in Page, NEW m \in Frames,
         q.lane = Append(page[x].lane, m),
         Sent(x)' = NoiseIn(q.lane) \cup NoiseIn(uplink[x]) \cup NoiseIn(downlink[Other(x)])
  PROVE  Sent(x)' \subseteq Sent(x) \cup {m}
<1>1. NoiseIn(q.lane) \subseteq NoiseIn(page[x].lane) \cup {m}
  BY Typed, AppendNoise
<1> QED
  BY <1>1 DEF Sent

LEMMA QuietStep ==
  ASSUME IInv, NEW x \in Clients, NEW q \in Page, Quiet(page[x], q), TypeOK',
         page'[x] = q, page'[Other(x)] = page[Other(x)],
         drawn' = (IF drawn + 1 \in {q.chan.i, q.chan.r} THEN drawn + 1 ELSE drawn),
         Sent(Other(x))' \subseteq Sent(Other(x)),
         Sent(x)' = NoiseIn(q.lane) \cup NoiseIn(uplink[x]) \cup NoiseIn(downlink[Other(x)])
  PROVE  IInv'
<1>1. Sent(x)' = Sent(x) /\ Forgets(page[x].chan, q.chan)
  BY DEF Quiet, Sent
<1>2. /\ page[x].chan.i \in Nat /\ page[x].chan.r \in Nat /\ drawn \in Nat
      /\ page[x].chan.i <= drawn /\ page[x].chan.r <= drawn
  <2>1. page[x].chan.i \in Nat /\ page[x].chan.r \in Nat /\ drawn \in Nat
    BY Typed, PageFields DEF IInv, TypeOK
  <2>2. Shapes(page["I"].chan, page["R"].chan, drawn)
    BY DEF IInv, Sound
  <2> QED
    BY <2>1, <2>2 DEF Shapes
<1>3. drawn' = drawn
  <2>1. q.chan.i # drawn + 1 /\ q.chan.r # drawn + 1
    BY <1>1, <1>2 DEF Forgets
  <2> QED
    BY <2>1
<1>4. \A y \in Clients : y = x \/ y = Other(x)
  BY DEF Other
<1>5. \A y \in Clients : Forgets(page[y].chan, page'[y].chan) /\ Sent(y)' \subseteq Sent(y)
  BY <1>1, <1>4 DEF Forgets
<1> QED
  BY <1>3, <1>5, LosingStep

LEMMA InitiatorReceives ==
  ASSUME IInv, Receive("I")
  PROVE  IInv'
<1> DEFINE p == page["I"]
           f == Head(downlink["I"])
           k == drawn + 1
           a == page["I"].chan
           b == page["R"].chan
           FI == Sent("I")
           FR == Sent("R")
<1>1. TypeOK /\ Sound(a, b, FI, FR, drawn)
  BY DEF IInv
<1>2. /\ p \in Page /\ a \in Channel /\ b \in Channel /\ drawn \in Nat
      /\ Other("I") = "R"
  BY <1>1, Typed DEF TypeOK, Other
<1>3. f \in Frames /\ (f.kind = "noise" => f \in FR)
  BY <1>1, <1>2, Arriving DEF Receive
<1>4. f.kind = "noise" => f.step \in {0, 2}
  BY <1>1, <1>3 DEF Sound, Roles
<1>5. PICK q : q = onmessage("I", p, f, k)
  OBVIOUS
<1>6. /\ q \in Page
      /\ Quiet(p, q) \/ Starts(p, q, k) \/ Confirms2(p, q, f)
  BY <1>2, <1>3, <1>4, <1>5, InitiatorHandles
<1>7. /\ TypeOK' /\ page'["I"] = q /\ page'["R"] = page["R"]
      /\ drawn' = (IF k \in {q.chan.i, q.chan.r} THEN k ELSE drawn)
      /\ Sent("R")' \subseteq FR
      /\ Sent("I")' = NoiseIn(q.lane) \cup NoiseIn(uplink["I"]) \cup NoiseIn(downlink["R"])
  BY <1>1, <1>2, <1>5, <1>6, Receiving
<1>8. CASE Quiet(p, q)
  BY <1>2, <1>6, <1>7, <1>8, QuietStep
<1>9. CASE Starts(p, q, k)
  <2>1. /\ q.chan.phase = "handshaking" /\ q.chan.idx = 1 /\ q.chan.i = k /\ q.chan.r = 0
        /\ q.chan \in Channel
    BY <1>6, <1>9, ChanFields, PageFields DEF Starts
  <2>2. drawn' = k
    BY <1>7, <2>1
  <2>3. Sound(q.chan, b, FI \cup {Noise(1, k, 0)}, FR, k)
    BY <1>1, <1>2, <2>1, Starting
  <2>4. Noise(1, k, 0) \in Frames
    BY <1>2, NoiseIsFrame
  <2>5. Sent("I")' \subseteq FI \cup {Noise(1, k, 0)}
    BY <1>1, <1>2, <1>6, <1>7, <1>9, <2>4, AppendedSent DEF Starts
  <2> QED
    BY <1>7, <2>2, <2>3, <2>5, NextSound
<1>10. CASE Confirms2(p, q, f)
  <2>1. f \in FR /\ f.i \in 1..drawn /\ f.r \in 1..drawn /\ f = Noise(2, f.i, f.r)
    <3>1. f \in FR /\ f.i \in 1..drawn /\ f.r \in 1..drawn
      BY <1>1, <1>3, <1>10 DEF Confirms2, Sound, Roles
    <3>2. f = Noise(2, f.i, f.r)
      BY <1>3, <1>10 DEF Confirms2, Frames, Noise, Frame
    <3> QED
      BY <3>1, <3>2
  <2>2. /\ q.chan.phase = "ready" /\ q.chan.idx = 3 /\ q.chan.i = f.i /\ q.chan.r = f.r
        /\ q.chan \in Channel
    BY <1>6, <1>10, ChanFields, PageFields DEF Confirms2
  <2>3. drawn' = drawn
    BY <1>2, <1>7, <2>1, <2>2
  <2>4. Sound(q.chan, b, FI \cup {Noise(3, f.i, f.r)}, FR, drawn)
    BY <1>1, <1>2, <1>10, <2>1, <2>2, Confirming DEF Confirms2
  <2>5. Noise(3, f.i, f.r) \in Frames
    BY <1>2, <2>1, NoiseIsFrame
  <2>6. Sent("I")' \subseteq FI \cup {Noise(3, f.i, f.r)}
    BY <1>1, <1>2, <1>6, <1>7, <1>10, <2>5, AppendedSent DEF Confirms2
  <2> QED
    BY <1>7, <2>3, <2>4, <2>6, NextSound
<1> QED
  BY <1>6, <1>8, <1>9, <1>10

LEMMA ResponderReceives ==
  ASSUME IInv, Receive("R")
  PROVE  IInv'
<1> DEFINE p == page["R"]
           f == Head(downlink["R"])
           k == drawn + 1
           a == page["I"].chan
           b == page["R"].chan
           FI == Sent("I")
           FR == Sent("R")
<1>1. TypeOK /\ Sound(a, b, FI, FR, drawn)
  BY DEF IInv
<1>2. /\ p \in Page /\ a \in Channel /\ b \in Channel /\ drawn \in Nat
      /\ Other("R") = "I"
  BY <1>1, Typed DEF TypeOK, Other
<1>3. f \in Frames /\ (f.kind = "noise" => f \in FI)
  BY <1>1, <1>2, Arriving DEF Receive
<1>4. f.kind = "noise" => f.step \in {1, 3}
  BY <1>1, <1>3 DEF Sound, Roles
<1>5. PICK q : q = onmessage("R", p, f, k)
  OBVIOUS
<1>6. /\ q \in Page
      /\ Quiet(p, q) \/ Asks(p, q) \/ Answers(p, q, f, k) \/ Completes(p, q, f)
  <2>1. /\ p.chan.idx = 0 => p.chan.i = 0 /\ p.chan.r = 0
        /\ p.chan.phase = "ready" => p.chan.idx = 3
    BY <1>1 DEF Sound, Shapes
  <2> QED
    BY <1>2, <1>3, <1>4, <1>5, <2>1, ResponderHandles
<1>7. /\ TypeOK' /\ page'["R"] = q /\ page'["I"] = page["I"]
      /\ drawn' = (IF k \in {q.chan.i, q.chan.r} THEN k ELSE drawn)
      /\ Sent("I")' \subseteq FI
      /\ Sent("R")' = NoiseIn(q.lane) \cup NoiseIn(uplink["R"]) \cup NoiseIn(downlink["I"])
  BY <1>1, <1>2, <1>5, <1>6, Receiving
<1>8. CASE Quiet(p, q)
  BY <1>2, <1>6, <1>7, <1>8, QuietStep
<1>9. CASE Asks(p, q)
  <2>1. q.chan = newChannel /\ drawn' = drawn
    BY <1>2, <1>7, <1>9, NoChannelFields DEF Asks
  <2>2. Sound(a, newChannel, FI, FR \cup {Noise(0, 0, 0)}, drawn)
    BY <1>1, <1>2, Asking
  <2>3. Noise(0, 0, 0) \in Frames
    BY NoiseIsFrame
  <2>4. Sent("R")' \subseteq FR \cup {Noise(0, 0, 0)}
    BY <1>1, <1>2, <1>6, <1>7, <1>9, <2>3, AppendedSent DEF Asks
  <2> QED
    BY <1>7, <2>1, <2>2, <2>4, NextSound
<1>10. CASE Answers(p, q, f, k)
  <2>1. f \in FI /\ f.i \in Nat
    BY <1>3, <1>10 DEF Answers, Frames
  <2>2. /\ q.chan.phase = "handshaking" /\ q.chan.idx = 2 /\ q.chan.i = f.i /\ q.chan.r = k
        /\ q.chan \in Channel
    BY <1>6, <1>10, ChanFields, PageFields DEF Answers
  <2>3. drawn' = k
    BY <1>7, <2>2
  <2>4. Sound(a, q.chan, FI, FR \cup {Noise(2, f.i, k)}, k)
    BY <1>1, <1>2, <2>1, <2>2, Answering
  <2>5. Noise(2, f.i, k) \in Frames
    BY <1>2, <2>1, NoiseIsFrame
  <2>6. Sent("R")' \subseteq FR \cup {Noise(2, f.i, k)}
    BY <1>1, <1>2, <1>6, <1>7, <1>10, <2>5, AppendedSent DEF Answers
  <2> QED
    BY <1>7, <2>3, <2>4, <2>6, NextSound
<1>11. CASE Completes(p, q, f)
  <2>1. f \in FI /\ f.i \in 1..drawn /\ f.r \in 1..drawn /\ f = Noise(3, f.i, f.r)
    <3>1. f \in FI /\ f.i \in 1..drawn /\ f.r \in 1..drawn
      BY <1>1, <1>3, <1>11 DEF Completes, Sound, Roles
    <3>2. f = Noise(3, f.i, f.r)
      BY <1>3, <1>11 DEF Completes, Frames, Noise, Frame
    <3> QED
      BY <3>1, <3>2
  <2>2. /\ q.chan.phase = "ready" /\ q.chan.idx = 3 /\ q.chan.i = b.i /\ q.chan.r = b.r
        /\ q.chan.i = f.i /\ q.chan.r = f.r /\ q.chan \in Channel
    BY <1>6, <1>11, ChanFields, PageFields DEF Completes
  <2>3. drawn' = drawn
    BY <1>2, <1>7, <2>1, <2>2
  <2>4. Sound(a, q.chan, FI, FR, drawn)
    BY <1>1, <1>2, <1>11, <2>1, <2>2, Completing DEF Completes
  <2>5. Sent("R")' = FR
    BY <1>2, <1>7, <1>11 DEF Completes, Sent
  <2> QED
    BY <1>7, <2>3, <2>4, <2>5, NextSound
<1> QED
  BY <1>6, <1>8, <1>9, <1>10, <1>11

-----------------------------------------------------------------------------
(* Theorems. *)

LEMMA Invariance == IInv /\ [Next]_vars => IInv'
<1> SUFFICES ASSUME IInv, [Next]_vars PROVE IInv'
  OBVIOUS
<1>1. CASE UNCHANGED vars
  BY <1>1 DEF IInv, TypeOK, Sent, vars
<1>2. ASSUME NEW x \in Clients, Join(x) PROVE IInv'
  BY <1>2, JoinStep
<1>3. ASSUME NEW x \in Clients, RelayClose(x) PROVE IInv'
  BY <1>3, RelayCloseStep
<1>4. ASSUME NEW x \in Clients, Relay(x) PROVE IInv'
  BY <1>4, RelayStep
<1>5. ASSUME NEW x \in Clients, Pump(x) PROVE IInv'
  BY <1>5, PumpStep
<1>6. ASSUME NEW x \in Clients, Receive(x) PROVE IInv'
  BY <1>6, InitiatorReceives, ResponderReceives
<1>7. ASSUME NEW x \in Clients, Drop(x) PROVE IInv'
  BY <1>7, DropStep
<1>8. ASSUME NEW x \in Clients, Reload(x) PROVE IInv'
  BY <1>8, ReloadStep
<1>9. ASSUME NEW x \in Clients, Throttle(x) PROVE IInv'
  BY <1>9, ThrottleStep
<1> QED
  BY <1>1, <1>2, <1>3, <1>4, <1>5, <1>6, <1>7, <1>8, <1>9 DEF Next

\* Every variable of the handshake keeps its type, whatever the pages receive
\* and however many faults there are.
THEOREM TypeCorrect == Spec => []TypeOK
<1>1. IInv => TypeOK
  BY DEF IInv
<1> QED
  BY Start, Invariance, <1>1, PTL DEF Spec

\* Two ready channels share their root (peer-channels.ts finalize), for any
\* number of faults and with frames lost or delayed at will.
THEOREM SameRootAlways == Spec => []SameRoot
<1>1. IInv => SameRoot
  <2> SUFFICES ASSUME IInv, Ready("I"), Ready("R")
               PROVE  /\ page["I"].chan.i = page["R"].chan.i
                      /\ page["I"].chan.r = page["R"].chan.r
    BY DEF SameRoot
  <2>1. /\ page["I"].chan \in Channel /\ page["R"].chan \in Channel /\ drawn \in Nat
        /\ Sound(page["I"].chan, page["R"].chan, Sent("I"), Sent("R"), drawn)
    BY Typed DEF IInv, TypeOK
  <2> QED
    BY <2>1, SoundAgrees DEF Ready
<1> QED
  BY Start, Invariance, <1>1, PTL DEF Spec

-----------------------------------------------------------------------------
(* The order of frames. *)

\* In which order x's frames reach the other page: messages of one page by key,
\* and after a message 1 no message 3 that is older or answers it.
Precedes(f, g) == f.step # 0 /\ g.step # 0 => f.i < g.i /\ ~(f.step = 1 /\ g.step = 3)

Before(F, G) == \A f \in F, g \in G : Precedes(f, g)
Sorted(q) == \A m, n \in DOMAIN q :
    m < n /\ q[m].kind = "noise" /\ q[n].kind = "noise" => Precedes(q[m], q[n])

\* Three queues one after the other: D reaches its end first, L is joined last.
Line(D, U, L) ==
  /\ Sorted(D) /\ Sorted(U) /\ Sorted(L)
  /\ Before(NoiseIn(D), NoiseIn(U))
  /\ Before(NoiseIn(D), NoiseIn(L))
  /\ Before(NoiseIn(U), NoiseIn(L))

InOrder(x) == Line(downlink[Other(x)], uplink[x], page[x].lane)

Msg(F, step) == {f \in F : f.step = step}

\* What the order says of the frames of both pages and their channels.
Turns(a, b, FI, FR) ==
  /\ \A f \in Msg(FR, 2) : \A g \in Msg(FI, 1) : f.i < g.i
  /\ \A f \in Msg(FI, 3) : \A g \in Msg(FR, 2) : f.i < g.i
  /\ a.i # 0 => \A f \in Msg(FI, 1) \cup Msg(FR, 2) : f.i <= a.i
  /\ a.phase = "ready" => Msg(FI, 1) = {} /\ Msg(FR, 2) = {}
  /\ b.i # 0 => \A f \in Msg(FI, 3) \cup Msg(FR, 2) : f.i <= b.i
  /\ b.phase = "ready" => Msg(FI, 3) = {} /\ Msg(FR, 2) = {}

OInv == /\ \A x \in Clients : InOrder(x)
        /\ Turns(page["I"].chan, page["R"].chan, Sent("I"), Sent("R"))

-----------------------------------------------------------------------------
(* What the order says, handler by handler. *)

LEMMA TurnsLose ==
  ASSUME NEW a \in Channel, NEW b \in Channel, NEW FI, NEW FR, Turns(a, b, FI, FR),
         NEW a2 \in Channel, NEW b2 \in Channel, Forgets(a, a2), Forgets(b, b2),
         NEW GI \in SUBSET FI, NEW GR \in SUBSET FR
  PROVE  Turns(a2, b2, GI, GR)
<1>1. \A step : Msg(GI, step) \subseteq Msg(FI, step) /\ Msg(GR, step) \subseteq Msg(FR, step)
  BY DEF Msg
<1>2. /\ a2.i # 0 => a2.i = a.i
      /\ a2.phase = "ready" => a.phase = "ready"
  BY DEF Forgets
<1>3. /\ b2.i # 0 => b2.i = b.i
      /\ b2.phase = "ready" => b.phase = "ready"
  BY DEF Forgets
<1> QED
  BY <1>1, <1>2, <1>3 DEF Turns

LEMMA StartingTurns ==
  ASSUME NEW a \in Channel, NEW b \in Channel, NEW FI, NEW FR, NEW d \in Nat,
         Sound(a, b, FI, FR, d), Turns(a, b, FI, FR),
         NEW e \in Channel, e.phase = "handshaking", e.i = d + 1
  PROVE  /\ Turns(e, b, FI \cup {Noise(1, d + 1, 0)}, FR)
         /\ \A g \in FI : Precedes(g, Noise(1, d + 1, 0))
<1> DEFINE m == Noise(1, d + 1, 0)
           GI == FI \cup {m}
<1>1. m.step = 1 /\ m.i = d + 1
  BY NoiseFields
<1>2. /\ \A g \in FI : g.step # 0 /\ g.i \in Nat /\ g.i < d + 1
      /\ \A g \in FR : g.step = 2 => g.i \in Nat /\ g.i < d + 1
  BY DEF Sound, Roles
<1> HIDE DEF m
<1>3. Msg(GI, 3) = Msg(FI, 3) /\ Msg(GI, 1) \subseteq Msg(FI, 1) \cup {m}
  BY <1>1 DEF Msg
<1>4. \A g \in Msg(GI, 1) \cup Msg(FR, 2) : g.i <= e.i
  BY <1>1, <1>2, <1>3 DEF Msg
<1>5. \A f \in Msg(FR, 2) : \A g \in Msg(GI, 1) : f.i < g.i
  BY <1>1, <1>2, <1>3 DEF Msg, Turns
<1>6. \A g \in FI : Precedes(g, m)
  BY <1>1, <1>2 DEF Precedes
<1>7. Turns(e, b, GI, FR)
  BY <1>3, <1>4, <1>5 DEF Turns
<1> QED
  BY <1>6, <1>7 DEF m

LEMMA AskingTurns ==
  ASSUME NEW a \in Channel, NEW b \in Channel, NEW FI, NEW FR, Turns(a, b, FI, FR)
  PROVE  /\ Turns(a, newChannel, FI, FR \cup {Noise(0, 0, 0)})
         /\ \A g \in FR : Precedes(g, Noise(0, 0, 0))
<1>1. Msg(FR \cup {Noise(0, 0, 0)}, 2) = Msg(FR, 2)
  BY NoiseFields DEF Msg
<1>2. newChannel.i = 0 /\ newChannel.phase # "ready"
  BY NoChannelFields
<1>3. \A g \in FR : Precedes(g, Noise(0, 0, 0))
  BY NoiseFields DEF Precedes
<1>4. Turns(a, newChannel, FI, FR \cup {Noise(0, 0, 0)})
  BY <1>1, <1>2 DEF Turns
<1> QED
  BY <1>3, <1>4

LEMMA AnsweringTurns ==
  ASSUME NEW a \in Channel, NEW b \in Channel, NEW FI, NEW FR, NEW d \in Nat,
         Sound(a, b, FI, FR, d), Turns(a, b, FI, FR),
         NEW f \in FI, f.step = 1,
         NEW GI \in SUBSET FI, \A g \in GI : Precedes(f, g),
         NEW e \in Channel, e.phase = "handshaking", e.i = f.i
  PROVE  /\ Turns(a, e, GI, FR \cup {Noise(2, f.i, d + 1)})
         /\ \A g \in FR : Precedes(g, Noise(2, f.i, d + 1))
<1> DEFINE m == Noise(2, f.i, d + 1)
           GR == FR \cup {m}
<1>1. m.step = 2 /\ m.i = f.i /\ f.i \in Nat
  BY NoiseFields DEF Sound, Roles
<1>2. /\ \A g \in FI : g.step # 0 /\ g.i \in Nat
      /\ \A g \in FR : g.step \in {0, 2} /\ (g.step = 2 => g.i \in Nat)
  BY DEF Sound, Roles
<1> HIDE DEF m
<1>3. \A g \in GI : g.step # 3 /\ f.i < g.i
  BY <1>2 DEF Precedes
<1>4. Msg(GI, 3) = {} /\ Msg(GI, 1) \subseteq Msg(FI, 1) /\ Msg(GR, 2) = Msg(FR, 2) \cup {m}
  BY <1>1, <1>3 DEF Msg
<1>5. f \in Msg(FI, 1)
  BY DEF Msg
<1>6. \A g \in Msg(FR, 2) : g.i < f.i
  BY <1>5 DEF Turns
<1>7. \A g \in FR : Precedes(g, m)
  BY <1>1, <1>2, <1>6 DEF Precedes, Msg
<1>8. \A g \in Msg(GR, 2) : g.i <= f.i /\ \A h \in Msg(GI, 1) : g.i < h.i
  <2>1. \A g \in Msg(FR, 2) : g.i \in Nat /\ g.i <= f.i
    BY <1>1, <1>2, <1>6 DEF Msg
  <2>2. \A h \in Msg(GI, 1) : h.i \in Nat /\ f.i < h.i
    BY <1>2, <1>3 DEF Msg
  <2> QED
    BY <1>1, <1>4, <2>1, <2>2
<1>9. a.phase # "ready" /\ (a.i # 0 => f.i <= a.i)
  BY <1>5 DEF Turns
<1>10. a.i # 0 => \A g \in Msg(GI, 1) \cup Msg(GR, 2) : g.i <= a.i
  BY <1>1, <1>4, <1>9 DEF Turns
<1>11. Turns(a, e, GI, GR)
  BY <1>4, <1>8, <1>9, <1>10 DEF Turns
<1> QED
  BY <1>7, <1>11 DEF m

\* The message 2 that opens is the last of its kind, and no message 1 is
\* under way.
LEMMA LastMessage2 ==
  ASSUME NEW a \in Channel, NEW b \in Channel, NEW FI, NEW FR, NEW d \in Nat,
         Sound(a, b, FI, FR, d), Turns(a, b, FI, FR),
         NEW f \in FR, f.step = 2, a.i = f.i,
         NEW GR \in SUBSET FR, \A g \in GR : Precedes(f, g)
  PROVE  Msg(FI, 1) = {} /\ Msg(GR, 2) = {}
<1>1. f.i \in Nat /\ f.i # 0 /\ f \in Msg(FR, 2)
  BY DEF Sound, Roles, Msg
<1>2. /\ \A g \in FI : g.step # 0 /\ g.i \in Nat
      /\ \A g \in FR : g.step = 2 => g.i \in Nat
  BY DEF Sound, Roles
<1>3. \A g \in Msg(FI, 1) : g.i \in Nat /\ f.i < g.i /\ g.i <= a.i
  BY <1>1, <1>2 DEF Turns, Msg
<1>4. \A g \in Msg(GR, 2) : g.i \in Nat /\ f.i < g.i /\ g.i <= a.i
  BY <1>1, <1>2 DEF Turns, Msg, Precedes
<1> QED
  BY <1>1, <1>3, <1>4

LEMMA ConfirmingTurns ==
  ASSUME NEW a \in Channel, NEW b \in Channel, NEW FI, NEW FR, NEW d \in Nat,
         Sound(a, b, FI, FR, d), Turns(a, b, FI, FR),
         NEW f \in FR, f.step = 2, a.i = f.i,
         NEW GR \in SUBSET FR, \A g \in GR : Precedes(f, g),
         NEW e \in Channel, e.i = f.i
  PROVE  /\ Turns(e, b, FI \cup {Noise(3, f.i, f.r)}, GR)
         /\ \A g \in FI : Precedes(g, Noise(3, f.i, f.r))
<1> DEFINE m == Noise(3, f.i, f.r)
           GI == FI \cup {m}
<1>1. m.step = 3 /\ m.i = f.i /\ f.i \in Nat /\ f.i # 0 /\ f \in Msg(FR, 2)
  BY NoiseFields DEF Sound, Roles, Msg
<1>2. \A g \in FI : g.step \in {1, 3} /\ g.i \in Nat
  BY DEF Sound, Roles
<1> HIDE DEF m
<1>3. Msg(FI, 1) = {} /\ Msg(GR, 2) = {}
  BY LastMessage2
<1>4. Msg(GI, 1) = {} /\ Msg(GI, 3) = Msg(FI, 3) \cup {m}
  BY <1>1, <1>3 DEF Msg
<1>5. \A g \in FI : Precedes(g, m)
  BY <1>1, <1>2, <1>3 DEF Precedes, Turns, Msg
<1>6. b.phase # "ready" /\ (b.i # 0 => f.i <= b.i)
  BY <1>1 DEF Turns
<1>7. Turns(e, b, GI, GR)
  BY <1>1, <1>3, <1>4, <1>6 DEF Turns
<1> QED
  BY <1>5, <1>7 DEF m

\* The message 3 that opens is the last of its kind, and no message 2 is
\* under way.
LEMMA LastMessage3 ==
  ASSUME NEW a \in Channel, NEW b \in Channel, NEW FI, NEW FR, NEW d \in Nat,
         Sound(a, b, FI, FR, d), Turns(a, b, FI, FR),
         NEW f \in FI, f.step = 3, b.i = f.i,
         NEW GI \in SUBSET FI, \A g \in GI : Precedes(f, g)
  PROVE  Msg(GI, 3) = {} /\ Msg(FR, 2) = {}
<1>1. f.i \in Nat /\ f.i # 0 /\ f \in Msg(FI, 3)
  BY DEF Sound, Roles, Msg
<1>2. /\ \A g \in FI : g.step # 0 /\ g.i \in Nat
      /\ \A g \in FR : g.step = 2 => g.i \in Nat
  BY DEF Sound, Roles
<1>3. \A g \in Msg(GI, 3) : g.i \in Nat /\ f.i < g.i /\ g.i <= b.i
  BY <1>1, <1>2 DEF Turns, Msg, Precedes
<1>4. \A g \in Msg(FR, 2) : g.i \in Nat /\ f.i < g.i /\ g.i <= b.i
  BY <1>1, <1>2 DEF Turns, Msg
<1> QED
  BY <1>1, <1>3, <1>4

LEMMA CompletingTurns ==
  ASSUME NEW a \in Channel, NEW b \in Channel, NEW FI, NEW FR, NEW d \in Nat,
         Sound(a, b, FI, FR, d), Turns(a, b, FI, FR),
         NEW f \in FI, f.step = 3, b.i = f.i,
         NEW GI \in SUBSET FI, \A g \in GI : Precedes(f, g),
         NEW e \in Channel
  PROVE  Turns(a, e, GI, FR)
<1>1. Msg(GI, 3) = {} /\ Msg(FR, 2) = {}
  BY LastMessage3
<1>2. Msg(GI, 1) \subseteq Msg(FI, 1)
  BY DEF Msg
<1> QED
  BY <1>1, <1>2 DEF Turns

-----------------------------------------------------------------------------
(* Queues in order. *)

\* q2 holds frames of q only, in the same order.
Thinner(q2, q) ==
  /\ q2 \in Seq(Frames)
  /\ NoiseIn(q2) \subseteq NoiseIn(q)
  /\ Sorted(q) => Sorted(q2)

LEMMA Silent ==
  ASSUME NEW q, NEW q2 \in Seq(Frames), \A n \in DOMAIN q2 : q2[n].kind # "noise"
  PROVE  Thinner(q2, q) /\ NoiseIn(q2) = {}
<1>1. NoiseIn(q2) = {}
  BY DEF NoiseIn, NoiseFrames
<1> QED
  BY <1>1 DEF Thinner, Sorted

LEMMA EmptyThinner ==
  ASSUME NEW q
  PROVE  Thinner(<<>>, q)
<1>1. <<>> \in Seq(Frames) /\ \A n \in DOMAIN <<>> : <<>>[n].kind # "noise"
  OBVIOUS
<1> QED
  BY <1>1, Silent

LEMMA SameThinner ==
  ASSUME NEW q \in Seq(Frames)
  PROVE  Thinner(q, q)
BY DEF Thinner

LEMMA TailThinner ==
  ASSUME NEW q \in Seq(Frames), q # <<>>
  PROVE  /\ Thinner(Tail(q), q)
         /\ Sorted(q) /\ Head(q).kind = "noise"
              => \A g \in NoiseIn(Tail(q)) : Precedes(Head(q), g)
<1>1. /\ 1 \in DOMAIN q /\ Head(q) = q[1]
      /\ \A n \in DOMAIN Tail(q) : n \in Nat /\ n # 0 /\ n + 1 \in DOMAIN q
                                   /\ Tail(q)[n] = q[n + 1]
  OBVIOUS
<1>2. ASSUME Sorted(q) PROVE Sorted(Tail(q))
  <2> SUFFICES ASSUME NEW m \in DOMAIN Tail(q), NEW n \in DOMAIN Tail(q), m < n,
                      Tail(q)[m].kind = "noise", Tail(q)[n].kind = "noise"
               PROVE  Precedes(Tail(q)[m], Tail(q)[n])
    BY DEF Sorted
  <2>1. /\ m + 1 \in DOMAIN q /\ n + 1 \in DOMAIN q /\ m + 1 < n + 1
        /\ Tail(q)[m] = q[m + 1] /\ Tail(q)[n] = q[n + 1]
    BY <1>1
  <2> QED
    BY <1>2, <2>1 DEF Sorted
<1>3. ASSUME Sorted(q), Head(q).kind = "noise", NEW g \in NoiseIn(Tail(q))
      PROVE  Precedes(Head(q), g)
  <2>1. PICK n \in DOMAIN Tail(q) : Tail(q)[n] = g
    BY <1>3 DEF NoiseIn
  <2>2. n + 1 \in DOMAIN q /\ 1 < n + 1 /\ q[n + 1] = g
    BY <1>1, <2>1
  <2>3. g.kind = "noise"
    BY <1>3 DEF NoiseIn, NoiseFrames
  <2> QED
    BY <1>1, <1>3, <2>2, <2>3 DEF Sorted
<1> QED
  BY <1>2, <1>3, TailNoise DEF Thinner

LEMMA PartThinner ==
  ASSUME NEW q \in Seq(Frames), NEW m \in 1..(Len(q) + 1), NEW n \in 0..Len(q)
  PROVE  Thinner(SubSeq(q, m, n), q)
<1> DEFINE s == SubSeq(q, m, n)
<1>1. \A k \in DOMAIN s : k \in Nat /\ k + m - 1 \in DOMAIN q /\ s[k] = q[k + m - 1]
  OBVIOUS
<1>2. s \in Seq(Frames) /\ NoiseIn(s) \subseteq NoiseIn(q)
  BY PartNoise
<1> HIDE DEF s
<1>3. ASSUME Sorted(q) PROVE Sorted(s)
  <2> SUFFICES ASSUME NEW j \in DOMAIN s, NEW k \in DOMAIN s, j < k,
                      s[j].kind = "noise", s[k].kind = "noise"
               PROVE  Precedes(s[j], s[k])
    BY DEF Sorted
  <2>1. /\ j + m - 1 \in DOMAIN q /\ k + m - 1 \in DOMAIN q
        /\ s[j] = q[j + m - 1] /\ s[k] = q[k + m - 1]
    BY <1>1
  <2>2. j + m - 1 < k + m - 1
    BY <1>1
  <2> QED
    BY <1>3, <2>1, <2>2 DEF Sorted
<1> QED
  BY <1>2, <1>3 DEF Thinner, s

LEMMA AppendSorted ==
  ASSUME NEW q \in Seq(Frames), NEW f \in Frames, Sorted(q),
         f.kind = "noise" => \A g \in NoiseIn(q) : Precedes(g, f)
  PROVE  Sorted(Append(q, f))
<1> DEFINE s == Append(q, f)
<1>1. /\ DOMAIN s = 1..(Len(q) + 1) /\ Len(q) \in Nat /\ DOMAIN q = 1..Len(q)
      /\ s[Len(q) + 1] = f
      /\ \A n \in 1..Len(q) : s[n] = q[n] /\ q[n] \in Frames
  OBVIOUS
<1> HIDE DEF s
<1> SUFFICES ASSUME NEW m \in DOMAIN s, NEW n \in DOMAIN s, m < n,
                    s[m].kind = "noise", s[n].kind = "noise"
             PROVE  Precedes(s[m], s[n])
  BY DEF Sorted, s
<1>2. m \in 1..Len(q) /\ s[m] = q[m] /\ q[m].kind = "noise"
  BY <1>1
<1>3. CASE n \in 1..Len(q)
  BY <1>1, <1>2, <1>3 DEF Sorted
<1>4. CASE n = Len(q) + 1
  <2>1. q[m] \in NoiseIn(q)
    BY <1>1, <1>2 DEF NoiseIn, NoiseFrames, Frames
  <2> QED
    BY <1>1, <1>2, <1>4, <2>1
<1> QED
  BY <1>1, <1>3, <1>4

LEMMA ControlThinner ==
  ASSUME NEW q \in Seq(Frames), NEW f \in Frames, f.kind # "noise"
  PROVE  Thinner(Append(q, f), q)
BY AppendSorted, AppendNoise DEF Thinner

LEMMA GreetingThinner ==
  ASSUME NEW q, NEW x \in BOOLEAN
  PROVE  Thinner(<<Joined, PeerUpdate(x)>>, q)
<1> DEFINE s == <<Joined, PeerUpdate(x)>>
<1>1. Joined \in Frames /\ PeerUpdate(x) \in Frames
  BY ControlFrames
<1>2. s \in Seq(Frames) /\ \A n \in DOMAIN s : s[n] = Joined \/ s[n] = PeerUpdate(x)
  BY <1>1
<1>3. \A n \in DOMAIN s : s[n].kind # "noise"
  BY <1>2, ControlFrames
<1> QED
  BY <1>2, <1>3, Silent

\* A frame that leaves one queue joins the one before it.
LEMMA Moved ==
  ASSUME NEW q \in Seq(Frames), NEW r \in Seq(Frames), r # <<>>,
         Sorted(q), Sorted(r), Before(NoiseIn(q), NoiseIn(r))
  PROVE  /\ Sorted(Append(q, Head(r))) /\ Sorted(Tail(r))
         /\ Before(NoiseIn(Append(q, Head(r))), NoiseIn(Tail(r)))
         /\ NoiseIn(Append(q, Head(r))) \subseteq NoiseIn(q) \cup NoiseIn(r)
         /\ NoiseIn(Tail(r)) \subseteq NoiseIn(r)
<1> DEFINE f == Head(r)
<1>1. /\ f \in Frames /\ NoiseIn(Tail(r)) \subseteq NoiseIn(r) /\ Sorted(Tail(r))
      /\ f.kind = "noise" => f \in NoiseIn(r)
      /\ f.kind = "noise" => \A g \in NoiseIn(Tail(r)) : Precedes(f, g)
  BY TailNoise, TailThinner DEF Thinner
<1> HIDE DEF f
<1>2. f.kind = "noise" => \A g \in NoiseIn(q) : Precedes(g, f)
  BY <1>1 DEF Before
<1>3. Sorted(Append(q, f))
  BY <1>1, <1>2, AppendSorted
<1>4. /\ NoiseIn(Append(q, f)) \subseteq NoiseIn(q) \cup {f}
      /\ f.kind # "noise" => NoiseIn(Append(q, f)) \subseteq NoiseIn(q)
  BY <1>1, AppendNoise
<1>5. Before(NoiseIn(Append(q, f)), NoiseIn(Tail(r)))
  BY <1>1, <1>4 DEF Before
<1> QED
  BY <1>1, <1>3, <1>4, <1>5 DEF f

LEMMA RelayedLine ==
  ASSUME NEW D \in Seq(Frames), NEW U \in Seq(Frames), NEW L, U # <<>>, Line(D, U, L)
  PROVE  Line(Append(D, Head(U)), Tail(U), L)
BY Moved DEF Line, Before

LEMMA PumpedLine ==
  ASSUME NEW D, NEW U \in Seq(Frames), NEW L \in Seq(Frames), L # <<>>, Line(D, U, L)
  PROVE  Line(D, Append(U, Head(L)), Tail(L))
BY Moved DEF Line, Before

\* A page queues a frame that all those under way precede.
LEMMA QueuedLine ==
  ASSUME NEW D, NEW U, NEW L \in Seq(Frames), NEW f \in Frames, Line(D, U, L),
         \A g \in NoiseIn(L) \cup NoiseIn(U) \cup NoiseIn(D) : Precedes(g, f)
  PROVE  Line(D, U, Append(L, f))
<1>1. Sorted(Append(L, f)) /\ NoiseIn(Append(L, f)) \subseteq NoiseIn(L) \cup {f}
  BY AppendSorted, AppendNoise DEF Line
<1> QED
  BY <1>1 DEF Line, Before

\* The frame that arrives comes before all that are left.
LEMMA ArrivedLine ==
  ASSUME NEW D \in Seq(Frames), NEW U, NEW L, D # <<>>, Line(D, U, L)
  PROVE  /\ Line(Tail(D), U, L)
         /\ Head(D).kind = "noise" =>
              \A g \in NoiseIn(L) \cup NoiseIn(U) \cup NoiseIn(Tail(D)) : Precedes(Head(D), g)
<1>1. /\ Thinner(Tail(D), D)
      /\ Head(D).kind = "noise" => Head(D) \in NoiseIn(D)
      /\ Head(D).kind = "noise" => \A g \in NoiseIn(Tail(D)) : Precedes(Head(D), g)
  BY TailNoise, TailThinner DEF Line
<1> QED
  BY <1>1 DEF Line, Before, Thinner

\* Frames that move on are the same frames.
LEMMA RelaySent ==
  ASSUME TypeOK, NEW x \in Clients, Relay(x), NEW z \in Clients
  PROVE  Sent(z)' \subseteq Sent(z)
<1> DEFINE y == Other(x)
           f == Head(uplink[x])
<1>1. /\ y \in Clients /\ y # x /\ Other(y) = x /\ (z = x \/ z = y)
      /\ uplink[x] \in Seq(Frames) /\ uplink[x] # <<>> /\ downlink[y] \in Seq(Frames)
  BY Typed DEF Relay, Other
<1>2. /\ uplink'[x] = Tail(uplink[x]) /\ uplink'[y] = uplink[y]
      /\ downlink'[x] = downlink[x] /\ page' = page
      /\ downlink'[y] = Append(downlink[y], f) \/ downlink'[y] = downlink[y]
  BY <1>1 DEF Relay, TypeOK
<1>3. /\ f \in Frames /\ NoiseIn(Tail(uplink[x])) \subseteq NoiseIn(uplink[x])
      /\ f.kind = "noise" => f \in NoiseIn(uplink[x])
  BY <1>1, TailNoise
<1>4. NoiseIn(Append(downlink[y], f)) \subseteq NoiseIn(downlink[y]) \cup NoiseIn(uplink[x])
  BY <1>1, <1>3, AppendNoise
<1> HIDE DEF y, f
<1>5. Sent(x)' \subseteq Sent(x)
  BY <1>2, <1>3, <1>4 DEF Sent, y
<1>6. Sent(y)' \subseteq Sent(y)
  BY <1>1, <1>2 DEF Sent
<1> QED
  BY <1>1, <1>5, <1>6

LEMMA PumpSent ==
  ASSUME TypeOK, NEW x \in Clients, Pump(x), NEW z \in Clients
  PROVE  Sent(z)' \subseteq Sent(z)
<1> DEFINE y == Other(x)
           lane == page[x].lane
           f == Head(lane)
<1>1. /\ y \in Clients /\ y # x /\ (z = x \/ z = y) /\ page[x] \in Page
      /\ uplink[x] \in Seq(Frames) /\ lane \in Seq(Frames) /\ lane # <<>>
  BY Typed DEF Pump, Other
<1>2. /\ page'[x].lane = Tail(lane) /\ page'[y] = page[y]
      /\ uplink'[x] = Append(uplink[x], f) /\ uplink'[y] = uplink[y]
      /\ downlink' = downlink
  <2>1. page'[x] = [page[x] EXCEPT !.lane = Tail(lane)] /\ page'[y] = page[y]
    BY <1>1 DEF Pump, TypeOK
  <2>2. [page[x] EXCEPT !.lane = Tail(lane)].lane = Tail(lane)
    BY <1>1 DEF Page
  <2> QED
    BY <1>1, <2>1, <2>2 DEF Pump, TypeOK
<1>3. /\ f \in Frames /\ NoiseIn(Tail(lane)) \subseteq NoiseIn(lane)
      /\ f.kind = "noise" => f \in NoiseIn(lane)
  BY <1>1, TailNoise
<1>4. NoiseIn(Append(uplink[x], f)) \subseteq NoiseIn(uplink[x]) \cup NoiseIn(lane)
  BY <1>1, <1>3, AppendNoise
<1> HIDE DEF y, f, lane
<1>5. Sent(x)' \subseteq Sent(x)
  BY <1>2, <1>3, <1>4 DEF Sent, lane
<1>6. Sent(y)' \subseteq Sent(y)
  BY <1>2 DEF Sent
<1> QED
  BY <1>1, <1>5, <1>6

-----------------------------------------------------------------------------
(* The order is kept by every step. *)

\* The step loses frames and forgets channels and does nothing else to them.
Thins ==
  \A y \in Clients : /\ Thinner(downlink'[y], downlink[y])
                     /\ Thinner(uplink'[y], uplink[y])
                     /\ Thinner(page'[y].lane, page[y].lane)
                     /\ Forgets(page[y].chan, page'[y].chan)

LEMMA TurnsKept ==
  ASSUME TypeOK, TypeOK', OInv,
         Forgets(page["I"].chan, page'["I"].chan), Forgets(page["R"].chan, page'["R"].chan),
         Sent("I")' \subseteq Sent("I"), Sent("R")' \subseteq Sent("R")
  PROVE  Turns(page'["I"].chan, page'["R"].chan, Sent("I")', Sent("R")')
<1>1. page["I"].chan \in Channel /\ page["R"].chan \in Channel
  BY Typed
<1>2. page'["I"].chan \in Channel /\ page'["R"].chan \in Channel
  BY PageFields DEF TypeOK
<1>3. Turns(page["I"].chan, page["R"].chan, Sent("I"), Sent("R"))
  BY DEF OInv
<1> QED
  BY <1>1, <1>2, <1>3, TurnsLose

LEMMA ThinsOrder ==
  ASSUME TypeOK, TypeOK', OInv, Thins
  PROVE  OInv'
<1>1. ASSUME NEW x \in Clients
      PROVE  InOrder(x)' /\ Sent(x)' \subseteq Sent(x)
  <2>1. Other(x) \in Clients
    BY Typed
  <2>2. PICK D, D2 : D = downlink[Other(x)] /\ D2 = downlink'[Other(x)]
    OBVIOUS
  <2>3. PICK U, U2 : U = uplink[x] /\ U2 = uplink'[x]
    OBVIOUS
  <2>4. PICK L, L2 : L = page[x].lane /\ L2 = page'[x].lane
    OBVIOUS
  <2>5. Line(D, U, L)
    BY <2>2, <2>3, <2>4 DEF OInv, InOrder
  <2>6. Thinner(D2, D) /\ Thinner(U2, U) /\ Thinner(L2, L)
    BY <2>1, <2>2, <2>3, <2>4 DEF Thins
  <2>7. /\ Line(D2, U2, L2)
        /\ NoiseIn(L2) \cup NoiseIn(U2) \cup NoiseIn(D2)
             \subseteq NoiseIn(L) \cup NoiseIn(U) \cup NoiseIn(D)
    BY <2>5, <2>6 DEF Line, Before, Thinner
  <2>8. InOrder(x)'
    BY <2>2, <2>3, <2>4, <2>7 DEF InOrder
  <2>9. Sent(x)' \subseteq Sent(x)
    BY <2>2, <2>3, <2>4, <2>7 DEF Sent
  <2> QED
    BY <2>8, <2>9
<1>2. /\ Forgets(page["I"].chan, page'["I"].chan) /\ Forgets(page["R"].chan, page'["R"].chan)
      /\ Sent("I")' \subseteq Sent("I") /\ Sent("R")' \subseteq Sent("R")
  BY <1>1 DEF Thins
<1>3. Turns(page'["I"].chan, page'["R"].chan, Sent("I")', Sent("R")')
  BY <1>2, TurnsKept
<1> QED
  BY <1>1, <1>3 DEF OInv

LEMMA SamePages ==
  ASSUME TypeOK, NEW y \in Clients, page' = page
  PROVE  Thinner(page'[y].lane, page[y].lane) /\ Forgets(page[y].chan, page'[y].chan)
BY Typed, SameThinner DEF Forgets

LEMMA JoinThins ==
  ASSUME TypeOK, NEW x \in Clients, Join(x)
  PROVE  Thins
<1> SUFFICES ASSUME NEW y \in Clients
             PROVE  Thinner(downlink'[y], downlink[y]) /\ Thinner(uplink'[y], uplink[y])
  BY SamePages DEF Thins, Join
<1>1. /\ downlink[y] \in Seq(Frames) /\ uplink[y] \in Seq(Frames)
      /\ present[Other(x)] \in BOOLEAN
  BY Typed
<1>2. PeerUpdate(TRUE) \in Frames /\ PeerUpdate(TRUE).kind # "noise"
  BY ControlFrames
<1>3. \/ downlink'[y] = <<Joined, PeerUpdate(present[Other(x)])>>
      \/ downlink'[y] = Append(downlink[y], PeerUpdate(TRUE))
      \/ downlink'[y] = downlink[y]
  BY DEF Join
<1>4. uplink'[y] = <<>> \/ uplink'[y] = uplink[y]
  BY DEF Join, TypeOK
<1>5. Thinner(<<Joined, PeerUpdate(present[Other(x)])>>, downlink[y])
  BY <1>1, GreetingThinner
<1>6. Thinner(Append(downlink[y], PeerUpdate(TRUE)), downlink[y])
  BY <1>1, <1>2, ControlThinner
<1>7. Thinner(downlink'[y], downlink[y])
  BY <1>1, <1>3, <1>5, <1>6, SameThinner
<1> QED
  BY <1>1, <1>4, <1>7, SameThinner, EmptyThinner

LEMMA RelayCloseThins ==
  ASSUME TypeOK, NEW x \in Clients, RelayClose(x)
  PROVE  Thins
<1> SUFFICES ASSUME NEW y \in Clients
             PROVE  Thinner(downlink'[y], downlink[y]) /\ Thinner(uplink'[y], uplink[y])
  BY SamePages DEF Thins, RelayClose
<1>1. downlink[y] \in Seq(Frames) /\ uplink[y] \in Seq(Frames)
  BY Typed
<1>2. PeerUpdate(FALSE) \in Frames /\ PeerUpdate(FALSE).kind # "noise"
  BY ControlFrames
<1>3. downlink'[y] = Append(downlink[y], PeerUpdate(FALSE)) \/ downlink'[y] = downlink[y]
  BY DEF RelayClose, TypeOK
<1>4. Thinner(Append(downlink[y], PeerUpdate(FALSE)), downlink[y])
  BY <1>1, <1>2, ControlThinner
<1>5. Thinner(downlink'[y], downlink[y])
  BY <1>1, <1>3, <1>4, SameThinner
<1> QED
  BY <1>1, <1>5, SameThinner DEF RelayClose

LEMMA ThrottleThins ==
  ASSUME TypeOK, NEW x \in Clients, Throttle(x)
  PROVE  Thins
<1> SUFFICES ASSUME NEW y \in Clients
             PROVE  Thinner(downlink'[y], downlink[y]) /\ Thinner(uplink'[y], uplink[y])
  BY SamePages DEF Thins, Throttle
<1>1. /\ downlink[y] \in Seq(Frames) /\ uplink[y] \in Seq(Frames)
      /\ uplink[x] \in Seq(Frames) /\ uplink[x] # <<>>
  BY Typed DEF Throttle
<1>2. (y = x /\ uplink'[y] = Tail(uplink[x])) \/ uplink'[y] = uplink[y]
  BY DEF Throttle, TypeOK
<1> QED
  BY <1>1, <1>2, SameThinner, TailThinner DEF Throttle

LEMMA LosingThins ==
  ASSUME TypeOK, NEW x \in Clients, LoseSocket(x), NEW y \in Clients
  PROVE  Thinner(downlink'[y], downlink[y]) /\ Thinner(uplink'[y], uplink[y])
<1>1. /\ downlink[y] \in Seq(Frames) /\ uplink[y] \in Seq(Frames) /\ uplink[x] \in Seq(Frames)
  BY Typed
<1>2. PICK n \in 0..Len(uplink[x]) : uplink' = [uplink EXCEPT ![x] = SubSeq(uplink[x], 1, n)]
  BY DEF LoseSocket
<1>3. 1 \in 1..(Len(uplink[x]) + 1)
  BY <1>1
<1>4. Thinner(SubSeq(uplink[x], 1, n), uplink[x])
  BY <1>1, <1>3, PartThinner
<1>5. (y = x /\ uplink'[y] = SubSeq(uplink[x], 1, n)) \/ uplink'[y] = uplink[y]
  BY <1>2 DEF TypeOK
<1>6. downlink'[y] = <<>> \/ downlink'[y] = downlink[y]
  BY DEF LoseSocket, TypeOK
<1> QED
  BY <1>1, <1>4, <1>5, <1>6, SameThinner, EmptyThinner

LEMMA FaultThins ==
  ASSUME TypeOK, NEW x \in Clients, LoseSocket(x),
         NEW q \in Page, page' = [page EXCEPT ![x] = q], Forgets(page[x].chan, q.chan),
         Thinner(q.lane, page[x].lane)
  PROVE  Thins
<1>1. ASSUME NEW y \in Clients
      PROVE  Thinner(page'[y].lane, page[y].lane) /\ Forgets(page[y].chan, page'[y].chan)
  <2>1. (y = x /\ page'[y] = q) \/ page'[y] = page[y]
    BY DEF TypeOK
  <2> QED
    BY <2>1, Typed, SameThinner DEF Forgets
<1> QED
  BY <1>1, LosingThins DEF Thins

LEMMA DropThins ==
  ASSUME TypeOK, NEW x \in Clients, Drop(x)
  PROVE  Thins
<1>1. /\ page[x] \in Page /\ page[x].lane \in Seq(Frames)
      /\ page \in [Clients -> Page]
  BY Typed DEF TypeOK
<1>2. PICK n \in 0..Len(page[x].lane) :
        page' = [page EXCEPT ![x].lane = SubSeq(page[x].lane, n + 1, Len(page[x].lane)),
                             ![x].paused = TRUE]
  BY <1>1 DEF Drop
<1> DEFINE part == SubSeq(page[x].lane, n + 1, Len(page[x].lane))
           q == [page[x] EXCEPT !.lane = part, !.paused = TRUE]
<1>3. Thinner(part, page[x].lane)
  <2>1. n + 1 \in 1..(Len(page[x].lane) + 1) /\ Len(page[x].lane) \in 0..Len(page[x].lane)
    BY <1>1
  <2> QED
    BY <1>1, <2>1, PartThinner
<1>4. page' = [page EXCEPT ![x] = q]
  BY <1>1, <1>2
<1> HIDE DEF part
<1>5. q \in Page /\ q.chan = page[x].chan /\ q.lane = part
  BY <1>1, <1>3 DEF Page, Thinner
<1> HIDE DEF q
<1>6. Forgets(page[x].chan, q.chan) /\ Thinner(q.lane, page[x].lane)
  BY <1>3, <1>5 DEF Forgets
<1> QED
  BY <1>4, <1>5, <1>6, FaultThins DEF Drop

LEMMA ReloadThins ==
  ASSUME TypeOK, NEW x \in Clients, Reload(x)
  PROVE  Thins
<1>1. FreshPage \in Page /\ FreshPage.chan = NoChannel /\ FreshPage.lane = <<>>
  BY EmptySeq, NoChannelFields DEF FreshPage, Page
<1>2. Forgets(page[x].chan, FreshPage.chan) /\ Thinner(FreshPage.lane, page[x].lane)
  BY <1>1, NoChannelFields, EmptyThinner DEF Forgets
<1> QED
  BY <1>1, <1>2, FaultThins DEF Reload

\* Frames that move on along their line, on x's side only.
LEMMA MovingOrder ==
  ASSUME TypeOK, TypeOK', OInv, NEW x \in Clients, InOrder(x)',
         Sent(x)' \subseteq Sent(x),
         \A y \in Clients : page'[y].chan = page[y].chan,
         LET y == Other(x)
         IN  /\ page'[y].lane = page[y].lane /\ uplink'[y] = uplink[y]
             /\ downlink'[x] = downlink[x]
  PROVE  OInv'
<1> DEFINE y == Other(x)
<1>1. y \in Clients /\ Other(y) = x /\ \A z \in Clients : z = x \/ z = y
  BY Typed DEF Other
<1>2. InOrder(y)' /\ Sent(y)' = Sent(y)
  BY <1>1 DEF OInv, InOrder, Sent
<1>3. \A z \in Clients : InOrder(z)' /\ Sent(z)' \subseteq Sent(z)
  BY <1>1, <1>2
<1>4. Forgets(page["I"].chan, page'["I"].chan) /\ Forgets(page["R"].chan, page'["R"].chan)
  BY DEF Forgets
<1>5. Sent("I")' \subseteq Sent("I") /\ Sent("R")' \subseteq Sent("R")
  BY <1>3
<1>6. Turns(page'["I"].chan, page'["R"].chan, Sent("I")', Sent("R")')
  BY <1>4, <1>5, TurnsKept
<1> QED
  BY <1>3, <1>6 DEF OInv

LEMMA RelayOrder ==
  ASSUME TypeOK, TypeOK', OInv, NEW x \in Clients, Relay(x)
  PROVE  OInv'
<1> DEFINE y == Other(x)
<1>1. /\ y \in Clients /\ y # x /\ uplink[x] # <<>>
      /\ uplink[x] \in Seq(Frames) /\ downlink[y] \in Seq(Frames) /\ downlink[x] \in Seq(Frames)
  BY Typed DEF Relay
<1>2. /\ uplink'[x] = Tail(uplink[x]) /\ uplink'[y] = uplink[y]
      /\ downlink'[x] = downlink[x] /\ page' = page
      /\ downlink'[y] = Append(downlink[y], Head(uplink[x])) \/ downlink'[y] = downlink[y]
  BY <1>1 DEF Relay, TypeOK
<1> HIDE DEF y
<1>3. CASE downlink'[y] = downlink[y]
  <2>1. \A z \in Clients : z = x \/ z = y
    BY Typed DEF Other, y
  <2>2. ASSUME NEW z \in Clients
        PROVE  Thinner(downlink'[z], downlink[z]) /\ Thinner(uplink'[z], uplink[z])
    <3>1. downlink[z] \in Seq(Frames) /\ uplink[z] \in Seq(Frames)
      BY Typed
    <3>2. downlink'[z] = downlink[z]
      BY <1>2, <1>3, <2>1
    <3>3. Thinner(uplink'[z], uplink[z])
      BY <1>1, <1>2, <2>1, <3>1, SameThinner, TailThinner
    <3> QED
      BY <3>1, <3>2, <3>3, SameThinner
  <2>3. Thins
    BY <1>2, <2>2, SamePages DEF Thins
  <2> QED
    BY <2>3, ThinsOrder
<1>4. CASE downlink'[y] = Append(downlink[y], Head(uplink[x]))
  <2>1. Line(downlink[y], uplink[x], page[x].lane)
    BY DEF OInv, InOrder, y
  <2>2. Line(Append(downlink[y], Head(uplink[x])), Tail(uplink[x]), page[x].lane)
    BY <1>1, <2>1, RelayedLine
  <2>3. InOrder(x)'
    BY <1>2, <1>4, <2>2 DEF InOrder, y
  <2>4. Sent(x)' \subseteq Sent(x)
    BY RelaySent
  <2> QED
    BY <1>2, <2>3, <2>4, MovingOrder DEF y
<1> QED
  BY <1>2, <1>3, <1>4

LEMMA PumpOrder ==
  ASSUME TypeOK, TypeOK', OInv, NEW x \in Clients, Pump(x)
  PROVE  OInv'
<1> DEFINE y == Other(x)
           lane == page[x].lane
<1>1. /\ y \in Clients /\ y # x /\ lane # <<>> /\ page[x] \in Page
      /\ uplink[x] \in Seq(Frames) /\ lane \in Seq(Frames)
  BY Typed DEF Pump
<1>2. page' = [page EXCEPT ![x] = [page[x] EXCEPT !.lane = Tail(lane)]]
  BY DEF Pump
<1>3. /\ page'[x].lane = Tail(lane) /\ page'[x].chan = page[x].chan /\ page'[y] = page[y]
      /\ uplink'[x] = Append(uplink[x], Head(lane)) /\ uplink'[y] = uplink[y]
      /\ downlink' = downlink
  <2>1. page'[x] = [page[x] EXCEPT !.lane = Tail(lane)] /\ page'[y] = page[y]
    BY <1>1, <1>2 DEF TypeOK
  <2>2. uplink'[x] = Append(uplink[x], Head(lane)) /\ uplink'[y] = uplink[y]
    BY <1>1 DEF Pump, TypeOK
  <2>3. /\ [page[x] EXCEPT !.lane = Tail(lane)].lane = Tail(lane)
        /\ [page[x] EXCEPT !.lane = Tail(lane)].chan = page[x].chan
    BY <1>1 DEF Page
  <2> QED
    BY <2>1, <2>2, <2>3 DEF Pump
<1> HIDE DEF y, lane
<1>4. Line(downlink[y], uplink[x], lane)
  BY DEF OInv, InOrder, y, lane
<1>5. Line(downlink[y], Append(uplink[x], Head(lane)), Tail(lane))
  BY <1>1, <1>4, PumpedLine
<1>6. InOrder(x)'
  BY <1>3, <1>5 DEF InOrder, y
<1>7. Sent(x)' \subseteq Sent(x)
  BY PumpSent
<1>8. \A z \in Clients : z = x \/ z = y
  BY Typed DEF Other, y
<1>9. \A z \in Clients : page'[z].chan = page[z].chan
  BY <1>3, <1>8
<1> QED
  BY <1>3, <1>6, <1>7, <1>9, MovingOrder DEF y

\* The frame that Receive handles comes before all that its sender still has
\* under way.
LEMMA ReceivedOrder ==
  ASSUME TypeOK, OInv, NEW x \in Clients, Receive(x), NEW y, y = Other(x),
         page'[y] = page[y]
  PROVE  /\ InOrder(y)'
         /\ Head(downlink[x]).kind = "noise"
              => \A g \in Sent(y)' : Precedes(Head(downlink[x]), g)
         /\ downlink'[y] = downlink[y] /\ uplink' = uplink
<1>1. /\ y \in Clients /\ y # x /\ Other(y) = x
      /\ downlink[x] \in Seq(Frames) /\ downlink[x] # <<>>
  BY Typed DEF Receive
<1>2. /\ downlink'[x] = Tail(downlink[x]) /\ downlink'[y] = downlink[y] /\ uplink' = uplink
  BY <1>1 DEF Receive, TypeOK
<1>3. Line(downlink[x], uplink[y], page[y].lane)
  BY <1>1 DEF OInv, InOrder
<1>4. /\ Line(Tail(downlink[x]), uplink[y], page[y].lane)
      /\ Head(downlink[x]).kind = "noise" =>
           \A g \in NoiseIn(page[y].lane) \cup NoiseIn(uplink[y]) \cup NoiseIn(Tail(downlink[x])) :
             Precedes(Head(downlink[x]), g)
  BY <1>1, <1>3, ArrivedLine
<1>5. InOrder(y)'
  BY <1>1, <1>2, <1>4 DEF InOrder
<1>6. Sent(y)' = NoiseIn(page[y].lane) \cup NoiseIn(uplink[y]) \cup NoiseIn(Tail(downlink[x]))
  BY <1>1, <1>2 DEF Sent
<1> QED
  BY <1>2, <1>4, <1>5, <1>6

LEMMA QueuedOrder ==
  ASSUME TypeOK, OInv, NEW x \in Clients, uplink'[x] = uplink[x],
         downlink'[Other(x)] = downlink[Other(x)],
         NEW m \in Frames, page'[x].lane = Append(page[x].lane, m),
         \A g \in Sent(x) : Precedes(g, m)
  PROVE  InOrder(x)'
<1>1. page[x].lane \in Seq(Frames) /\ Line(downlink[Other(x)], uplink[x], page[x].lane)
  BY Typed DEF OInv, InOrder
<1>2. Line(downlink[Other(x)], uplink[x], Append(page[x].lane, m))
  BY <1>1, QueuedLine DEF Sent
<1> QED
  BY <1>2 DEF InOrder

LEMMA NextTurns ==
  ASSUME TypeOK', NEW FI, NEW FR,
         Turns(page'["I"].chan, page'["R"].chan, FI, FR),
         Sent("I")' \subseteq FI, Sent("R")' \subseteq FR
  PROVE  Turns(page'["I"].chan, page'["R"].chan, Sent("I")', Sent("R")')
<1>1. page'["I"].chan \in Channel /\ page'["R"].chan \in Channel
  BY PageFields DEF TypeOK
<1>2. \A c \in Channel : Forgets(c, c)
  BY DEF Forgets
<1> QED
  BY <1>1, <1>2, TurnsLose

\* A page that handles a frame and queues none.
LEMMA QuietOrder ==
  ASSUME TypeOK, TypeOK', OInv, NEW x \in Clients, Receive(x),
         NEW q \in Page, Quiet(page[x], q),
         page'[x] = q, page'[Other(x)] = page[Other(x)],
         Sent(Other(x))' \subseteq Sent(Other(x))
  PROVE  OInv'
<1> DEFINE y == Other(x)
<1>1. y \in Clients /\ \A z \in Clients : z = x \/ z = y
  BY Typed DEF Other
<1>2. InOrder(y)' /\ downlink'[y] = downlink[y] /\ uplink' = uplink
  BY ReceivedOrder
<1>3. InOrder(x)' /\ Sent(x)' = Sent(x)
  BY <1>2 DEF OInv, InOrder, Sent, Quiet
<1>4. \A z \in Clients : InOrder(z)' /\ Sent(z)' \subseteq Sent(z)
  BY <1>1, <1>2, <1>3
<1>5. \A z \in Clients : Forgets(page[z].chan, page'[z].chan)
  BY <1>1 DEF Quiet, Forgets
<1>6. /\ Forgets(page["I"].chan, page'["I"].chan) /\ Forgets(page["R"].chan, page'["R"].chan)
      /\ Sent("I")' \subseteq Sent("I") /\ Sent("R")' \subseteq Sent("R")
  BY <1>4, <1>5
<1>7. Turns(page'["I"].chan, page'["R"].chan, Sent("I")', Sent("R")')
  BY <1>6, TurnsKept
<1> QED
  BY <1>4, <1>7 DEF OInv

LEMMA InitiatorOrder ==
  ASSUME IInv, OInv, Receive("I")
  PROVE  OInv'
<1> DEFINE p == page["I"]
           f == Head(downlink["I"])
           k == drawn + 1
           a == page["I"].chan
           b == page["R"].chan
           FI == Sent("I")
           FR == Sent("R")
<1>1. TypeOK /\ Sound(a, b, FI, FR, drawn) /\ Turns(a, b, FI, FR)
  BY DEF IInv, OInv
<1>2. /\ p \in Page /\ a \in Channel /\ b \in Channel /\ drawn \in Nat
      /\ Other("I") = "R" /\ Other("R") = "I"
  BY <1>1, Typed DEF TypeOK, Other
<1>3. f \in Frames /\ (f.kind = "noise" => f \in FR)
  BY <1>1, <1>2, Arriving DEF Receive
<1>4. f.kind = "noise" => f.step \in {0, 2}
  BY <1>1, <1>3 DEF Sound, Roles
<1>5. PICK q : q = onmessage("I", p, f, k)
  OBVIOUS
<1>6. /\ q \in Page
      /\ Quiet(p, q) \/ Starts(p, q, k) \/ Confirms2(p, q, f)
  BY <1>2, <1>3, <1>4, <1>5, InitiatorHandles
<1>7. /\ TypeOK' /\ page'["I"] = q /\ page'["R"] = page["R"]
      /\ Sent("R")' \subseteq FR
      /\ Sent("I")' = NoiseIn(q.lane) \cup NoiseIn(uplink["I"]) \cup NoiseIn(downlink["R"])
  BY <1>1, <1>2, <1>5, <1>6, Receiving
<1>8. /\ InOrder("R")' /\ downlink'["R"] = downlink["R"] /\ uplink' = uplink
      /\ f.kind = "noise" => \A g \in Sent("R")' : Precedes(f, g)
  BY <1>1, <1>2, <1>7, ReceivedOrder
<1>9. CASE Quiet(p, q)
  BY <1>1, <1>2, <1>6, <1>7, <1>9, QuietOrder
<1>10. CASE Starts(p, q, k)
  <2>1. q.chan.phase = "handshaking" /\ q.chan.i = k /\ q.chan \in Channel
    BY <1>6, <1>10, ChanFields, PageFields DEF Starts
  <2>2. /\ Turns(q.chan, b, FI \cup {Noise(1, k, 0)}, FR)
        /\ \A g \in FI : Precedes(g, Noise(1, k, 0))
    BY <1>1, <1>2, <2>1, StartingTurns
  <2>3. Noise(1, k, 0) \in Frames
    BY <1>2, NoiseIsFrame
  <2>4. Sent("I")' \subseteq FI \cup {Noise(1, k, 0)}
    BY <1>1, <1>2, <1>6, <1>7, <1>10, <2>3, AppendedSent DEF Starts
  <2>5. InOrder("I")'
    BY <1>1, <1>2, <1>7, <1>8, <1>10, <2>2, <2>3, QueuedOrder DEF Starts
  <2>6. Turns(page'["I"].chan, page'["R"].chan, Sent("I")', Sent("R")')
    BY <1>7, <2>2, <2>4, NextTurns
  <2> QED
    BY <1>8, <2>5, <2>6 DEF OInv
<1>11. CASE Confirms2(p, q, f)
  <2>1. f \in FR /\ f.step = 2 /\ a.i = f.i /\ f.i \in Nat /\ f.r \in Nat /\ f.kind = "noise"
    BY <1>1, <1>3, <1>11 DEF Confirms2, Frames
  <2>2. q.chan.i = f.i /\ q.chan \in Channel
    BY <1>6, <1>11, ChanFields, PageFields DEF Confirms2
  <2>3. PICK GR : GR = Sent("R")'
    OBVIOUS
  <2>4. GR \in SUBSET FR /\ \A g \in GR : Precedes(f, g)
    BY <1>7, <1>8, <2>1, <2>3
  <2>5. /\ Turns(q.chan, b, FI \cup {Noise(3, f.i, f.r)}, GR)
        /\ \A g \in FI : Precedes(g, Noise(3, f.i, f.r))
    <3>1. PICK e \in Channel : e = q.chan
      BY <2>2
    <3>2. e.i = f.i
      BY <2>2, <3>1
    <3> HIDE DEF a, b, f, FI, FR, p, k
    <3>3. Sound(a, b, FI, FR, drawn) /\ Turns(a, b, FI, FR)
      BY <1>1
    <3>4. f \in FR /\ f.step = 2 /\ a.i = f.i
      BY <2>1
    <3>5. GR \in SUBSET FR /\ \A g \in GR : Precedes(f, g)
      BY <2>4
    <3>6. /\ Turns(e, b, FI \cup {Noise(3, f.i, f.r)}, GR)
          /\ \A g \in FI : Precedes(g, Noise(3, f.i, f.r))
      BY <1>2, <3>2, <3>3, <3>4, <3>5, ConfirmingTurns
    <3> QED
      BY <3>1, <3>6
  <2>6. /\ Turns(q.chan, b, FI \cup {Noise(3, f.i, f.r)}, Sent("R")')
        /\ \A g \in FI : Precedes(g, Noise(3, f.i, f.r))
    BY <2>3, <2>5
  <2>7. Noise(3, f.i, f.r) \in Frames
    BY <2>1, NoiseIsFrame
  <2>8. Sent("I")' \subseteq FI \cup {Noise(3, f.i, f.r)}
    BY <1>1, <1>2, <1>6, <1>7, <1>11, <2>7, AppendedSent DEF Confirms2
  <2>9. InOrder("I")'
    BY <1>1, <1>2, <1>7, <1>8, <1>11, <2>6, <2>7, QueuedOrder DEF Confirms2
  <2>10. Turns(page'["I"].chan, page'["R"].chan, Sent("I")', Sent("R")')
    BY <1>7, <2>6, <2>8, NextTurns
  <2> QED
    BY <1>8, <2>9, <2>10 DEF OInv
<1> QED
  BY <1>6, <1>9, <1>10, <1>11

LEMMA ResponderOrder ==
  ASSUME IInv, OInv, Receive("R")
  PROVE  OInv'
<1> DEFINE p == page["R"]
           f == Head(downlink["R"])
           k == drawn + 1
           a == page["I"].chan
           b == page["R"].chan
           FI == Sent("I")
           FR == Sent("R")
<1>1. TypeOK /\ Sound(a, b, FI, FR, drawn) /\ Turns(a, b, FI, FR)
  BY DEF IInv, OInv
<1>2. /\ p \in Page /\ a \in Channel /\ b \in Channel /\ drawn \in Nat
      /\ Other("I") = "R" /\ Other("R") = "I"
  BY <1>1, Typed DEF TypeOK, Other
<1>3. f \in Frames /\ (f.kind = "noise" => f \in FI)
  BY <1>1, <1>2, Arriving DEF Receive
<1>4. f.kind = "noise" => f.step \in {1, 3}
  BY <1>1, <1>3 DEF Sound, Roles
<1>5. PICK q : q = onmessage("R", p, f, k)
  OBVIOUS
<1>6. /\ q \in Page
      /\ Quiet(p, q) \/ Asks(p, q) \/ Answers(p, q, f, k) \/ Completes(p, q, f)
  <2>1. /\ p.chan.idx = 0 => p.chan.i = 0 /\ p.chan.r = 0
        /\ p.chan.phase = "ready" => p.chan.idx = 3
    BY <1>1 DEF Sound, Shapes
  <2> QED
    BY <1>2, <1>3, <1>4, <1>5, <2>1, ResponderHandles
<1>7. /\ TypeOK' /\ page'["R"] = q /\ page'["I"] = page["I"]
      /\ Sent("I")' \subseteq FI
      /\ Sent("R")' = NoiseIn(q.lane) \cup NoiseIn(uplink["R"]) \cup NoiseIn(downlink["I"])
  BY <1>1, <1>2, <1>5, <1>6, Receiving
<1>8. /\ InOrder("I")' /\ downlink'["I"] = downlink["I"] /\ uplink' = uplink
      /\ f.kind = "noise" => \A g \in Sent("I")' : Precedes(f, g)
  BY <1>1, <1>2, <1>7, ReceivedOrder
<1>9. CASE Quiet(p, q)
  BY <1>1, <1>2, <1>6, <1>7, <1>9, QuietOrder
<1>10. CASE Asks(p, q)
  <2>1. q.chan = newChannel
    BY <1>10 DEF Asks
  <2>2. /\ Turns(a, newChannel, FI, FR \cup {Noise(0, 0, 0)})
        /\ \A g \in FR : Precedes(g, Noise(0, 0, 0))
    BY <1>1, <1>2, AskingTurns
  <2>3. Noise(0, 0, 0) \in Frames
    BY NoiseIsFrame
  <2>4. Sent("R")' \subseteq FR \cup {Noise(0, 0, 0)}
    BY <1>1, <1>2, <1>6, <1>7, <1>10, <2>3, AppendedSent DEF Asks
  <2>5. InOrder("R")'
    BY <1>1, <1>2, <1>7, <1>8, <1>10, <2>2, <2>3, QueuedOrder DEF Asks
  <2>6. Turns(page'["I"].chan, page'["R"].chan, Sent("I")', Sent("R")')
    BY <1>7, <2>1, <2>2, <2>4, NextTurns
  <2> QED
    BY <1>8, <2>5, <2>6 DEF OInv
<1>11. CASE Answers(p, q, f, k)
  <2>1. f \in FI /\ f.step = 1 /\ f.i \in Nat /\ f.kind = "noise"
    BY <1>3, <1>11 DEF Answers, Frames
  <2>2. q.chan.phase = "handshaking" /\ q.chan.i = f.i /\ q.chan \in Channel
    BY <1>6, <1>11, ChanFields, PageFields DEF Answers
  <2>3. PICK GI : GI = Sent("I")'
    OBVIOUS
  <2>4. GI \in SUBSET FI /\ \A g \in GI : Precedes(f, g)
    BY <1>7, <1>8, <2>1, <2>3
  <2>5. /\ Turns(a, q.chan, GI, FR \cup {Noise(2, f.i, k)})
        /\ \A g \in FR : Precedes(g, Noise(2, f.i, k))
    <3>1. PICK e \in Channel : e = q.chan
      BY <2>2
    <3>2. e.phase = "handshaking" /\ e.i = f.i
      BY <2>2, <3>1
    <3>3. Sound(a, b, FI, FR, drawn) /\ Turns(a, b, FI, FR)
      BY <1>1
    <3>4. /\ Turns(a, e, GI, FR \cup {Noise(2, f.i, drawn + 1)})
          /\ \A g \in FR : Precedes(g, Noise(2, f.i, drawn + 1))
      <4> HIDE DEF a, b, f, FI, FR, p, k
      <4>1. f \in FI /\ f.step = 1
        BY <2>1
      <4>2. GI \in SUBSET FI /\ \A g \in GI : Precedes(f, g)
        BY <2>4
      <4> QED
        BY <1>2, <3>2, <3>3, <4>1, <4>2, AnsweringTurns
    <3> QED
      BY <3>1, <3>4
  <2>6. /\ Turns(a, q.chan, Sent("I")', FR \cup {Noise(2, f.i, k)})
        /\ \A g \in FR : Precedes(g, Noise(2, f.i, k))
    BY <2>3, <2>5
  <2>7. Noise(2, f.i, k) \in Frames
    BY <1>2, <2>1, NoiseIsFrame
  <2>8. Sent("R")' \subseteq FR \cup {Noise(2, f.i, k)}
    BY <1>1, <1>2, <1>6, <1>7, <1>11, <2>7, AppendedSent DEF Answers
  <2>9. InOrder("R")'
    BY <1>1, <1>2, <1>7, <1>8, <1>11, <2>6, <2>7, QueuedOrder DEF Answers
  <2>10. Turns(page'["I"].chan, page'["R"].chan, Sent("I")', Sent("R")')
    BY <1>7, <2>6, <2>8, NextTurns
  <2> QED
    BY <1>8, <2>9, <2>10 DEF OInv
<1>12. CASE Completes(p, q, f)
  <2>1. f \in FI /\ f.step = 3 /\ b.i = f.i /\ f.kind = "noise"
    BY <1>1, <1>3, <1>12 DEF Completes
  <2>2. q.chan.i = f.i /\ q.chan \in Channel
    BY <1>6, <1>12, ChanFields, PageFields DEF Completes
  <2>3. PICK GI : GI = Sent("I")'
    OBVIOUS
  <2>4. GI \in SUBSET FI /\ \A g \in GI : Precedes(f, g)
    BY <1>7, <1>8, <2>1, <2>3
  <2>5. Turns(a, q.chan, Sent("I")', FR)
    BY <1>1, <1>2, <2>1, <2>2, <2>3, <2>4, CompletingTurns
  <2>6. Sent("R")' = FR
    BY <1>2, <1>7, <1>12 DEF Completes, Sent
  <2>7. InOrder("R")'
    BY <1>2, <1>7, <1>8, <1>12 DEF OInv, InOrder, Completes
  <2>8. Turns(page'["I"].chan, page'["R"].chan, Sent("I")', Sent("R")')
    BY <1>7, <2>5, <2>6
  <2> QED
    BY <1>8, <2>7, <2>8 DEF OInv
<1> QED
  BY <1>6, <1>9, <1>10, <1>11, <1>12

LEMMA StartOrder == Init => OInv
<1> SUFFICES ASSUME Init PROVE OInv
  OBVIOUS
<1>1. FreshPage.chan = NoChannel /\ FreshPage.lane = <<>>
  BY DEF FreshPage
<1>2. \A x \in Clients : page[x].lane = <<>> /\ uplink[x] = <<>> /\ downlink[Other(x)] = <<>>
  BY <1>1 DEF Init, Other
<1>3. Line(<<>>, <<>>, <<>>)
  BY EmptyNoise DEF Line, Before, Sorted
<1>4. \A x \in Clients : InOrder(x) /\ Sent(x) = {}
  BY <1>2, <1>3, EmptyNoise DEF InOrder, Sent
<1>5. page["I"].chan = NoChannel /\ page["R"].chan = NoChannel
  BY <1>1 DEF Init
<1>6. Turns(NoChannel, NoChannel, {}, {})
  BY NoChannelFields DEF Turns, Msg
<1> QED
  BY <1>4, <1>5, <1>6 DEF OInv

LEMMA OrderInvariance == IInv /\ OInv /\ [Next]_vars => IInv' /\ OInv'
<1> SUFFICES ASSUME IInv, OInv, [Next]_vars PROVE IInv' /\ OInv'
  OBVIOUS
<1>0. IInv' /\ TypeOK /\ TypeOK'
  BY Invariance DEF IInv
<1>1. CASE UNCHANGED vars
  BY <1>0, <1>1 DEF OInv, InOrder, Sent, vars
<1>2. ASSUME NEW x \in Clients, Join(x) PROVE OInv'
  BY <1>0, <1>2, JoinThins, ThinsOrder
<1>3. ASSUME NEW x \in Clients, RelayClose(x) PROVE OInv'
  BY <1>0, <1>3, RelayCloseThins, ThinsOrder
<1>4. ASSUME NEW x \in Clients, Relay(x) PROVE OInv'
  BY <1>0, <1>4, RelayOrder
<1>5. ASSUME NEW x \in Clients, Pump(x) PROVE OInv'
  BY <1>0, <1>5, PumpOrder
<1>6. ASSUME NEW x \in Clients, Receive(x) PROVE OInv'
  BY <1>6, InitiatorOrder, ResponderOrder
<1>7. ASSUME NEW x \in Clients, Drop(x) PROVE OInv'
  BY <1>0, <1>7, DropThins, ThinsOrder
<1>8. ASSUME NEW x \in Clients, Reload(x) PROVE OInv'
  BY <1>0, <1>8, ReloadThins, ThinsOrder
<1>9. ASSUME NEW x \in Clients, Throttle(x) PROVE OInv'
  BY <1>0, <1>9, ThrottleThins, ThinsOrder
<1> QED
  BY <1>0, <1>1, <1>2, <1>3, <1>4, <1>5, <1>6, <1>7, <1>8, <1>9 DEF Next

\* Only the page that receives a frame changes its channel, unless it reloads.
LEMMA ChannelKept ==
  ASSUME TypeOK, [Next]_vars, NEW x \in Clients, ~Receive(x)
  PROVE  page'[x].chan \in {page[x].chan, NoChannel}
<1>1. CASE UNCHANGED vars
  BY <1>1 DEF vars
<1>2. ASSUME NEW y \in Clients, Join(y) \/ RelayClose(y) \/ Relay(y) \/ Throttle(y)
      PROVE  page' = page
  BY <1>2 DEF Join, RelayClose, Relay, Throttle
<1>3. ASSUME NEW y \in Clients, Pump(y)
      PROVE  page'[x].chan = page[x].chan
  <2>1. page' = [page EXCEPT ![y].lane = Tail(page[y].lane)]
    BY <1>3 DEF Pump
  <2> QED
    BY <2>1 DEF TypeOK, Page
<1>4. ASSUME NEW y \in Clients, Receive(y)
      PROVE  page'[x] = page[x]
  <2>1. y # x
    BY <1>4
  <2> QED
    BY <1>4, <2>1 DEF Receive, TypeOK
<1>5. ASSUME NEW y \in Clients, Drop(y)
      PROVE  page'[x].chan = page[x].chan
  <2>1. PICK part : page' = [page EXCEPT ![y].lane = part, ![y].paused = TRUE]
    BY <1>5 DEF Drop
  <2> QED
    BY <2>1 DEF TypeOK, Page
<1>6. ASSUME NEW y \in Clients, Reload(y)
      PROVE  page'[x] = page[x] \/ page'[x].chan = NoChannel
  <2>1. page' = [page EXCEPT ![y] = FreshPage] /\ FreshPage.chan = NoChannel
    BY <1>6 DEF Reload, FreshPage
  <2> QED
    BY <2>1 DEF TypeOK
<1> QED
  BY <1>1, <1>2, <1>3, <1>4, <1>5, <1>6 DEF Next

\* The frames that a ready page may still be sent leave it ready or make it
\* begin anew.
LEMMA ReadyHandles ==
  ASSUME NEW x \in Clients, NEW p \in Page, NEW f \in Frames, NEW k \in Nat,
         p.chan.phase = "ready",
         f.kind = "noise" => (x = "I" /\ f.step = 0) \/ (x = "R" /\ f.step = 1),
         NEW q, q = onmessage(x, p, f, k)
  PROVE  q.chan.phase # "failed"
<1>1. CASE f.kind = "joined"
  <2>1. q = [p EXCEPT !.paused = FALSE]
    BY <1>1 DEF onmessage
  <2> QED
    BY <2>1 DEF Page
<1>2. CASE f.kind = "here"
  <2>1. [p EXCEPT !.sees = TRUE].chan = p.chan
    BY ControlPages
  <2>2. q = [p EXCEPT !.sees = TRUE]
    BY <1>2, <2>1 DEF onmessage, ensureChannel
  <2> QED
    BY <2>1, <2>2
<1>3. CASE f.kind = "gone"
  <2>1. q = p \/ q = [p EXCEPT !.sees = FALSE, !.chan = NoChannel]
    BY <1>3 DEF onmessage
  <2>2. [p EXCEPT !.sees = FALSE, !.chan = NoChannel].chan = NoChannel
    BY DEF Page
  <2> QED
    BY <2>1, <2>2, NoChannelFields
<1>4. CASE f.kind = "noise" /\ x = "I" /\ f.step = 0
  <2> DEFINE o == [p EXCEPT !.chan = NoChannel]
  <2>1. o \in Page /\ o.chan = NoChannel
    BY ChannelPage, NoChannelFields
  <2>2. q = ensureChannel("I", o, k)
    BY <1>4 DEF onmessage, onSignal, onRestartRequest
  <2> HIDE DEF o
  <2>3. q = o \/ Starts(o, q, k)
    BY <2>1, <2>2, EnsuredPage
  <2> QED
    BY <2>1, <2>3, NoChannelFields, ChanFields DEF Starts
<1>5. CASE f.kind = "noise" /\ x = "R" /\ f.step = 1
  <2>1. q = Sending(p, Chan("handshaking", 2, f.i, k), Noise(2, f.i, k))
    BY <1>5 DEF onmessage, onSignal, ReadMessage1
  <2>2. f.i \in Nat /\ Chan("handshaking", 2, f.i, k) \in Channel /\ Noise(2, f.i, k) \in Frames
    BY NoiseIsFrame, ChanType DEF Frames
  <2>3. q.chan = Chan("handshaking", 2, f.i, k)
    BY <2>1, <2>2, SendingPage
  <2> QED
    BY <2>3, ChanFields
<1> QED
  BY <1>1, <1>2, <1>3, <1>4, <1>5 DEF Frames

LEMMA ReadyStep ==
  ASSUME IInv, OInv, [Next]_vars, NEW x \in Clients, Ready(x)
  PROVE  page'[x].chan.phase # "failed"
<1>1. /\ TypeOK /\ page["I"].chan \in Channel /\ page["R"].chan \in Channel /\ drawn \in Nat
      /\ Sound(page["I"].chan, page["R"].chan, Sent("I"), Sent("R"), drawn)
      /\ Turns(page["I"].chan, page["R"].chan, Sent("I"), Sent("R"))
  BY Typed DEF IInv, OInv, TypeOK
<1>2. CASE ~Receive(x)
  BY <1>1, <1>2, ChannelKept, NoChannelFields DEF Ready
<1>3. CASE Receive(x)
  <2> DEFINE f == Head(downlink[x])
             k == drawn + 1
  <2>1. page[x] \in Page /\ k \in Nat
    BY <1>1, Typed
  <2>2. f \in Frames /\ (f.kind = "noise" => f \in Sent(Other(x)))
    BY <1>1, <1>3, Arriving DEF Receive
  <2>3. f.kind = "noise" => (x = "I" /\ f.step = 0) \/ (x = "R" /\ f.step = 1)
    <3>1. CASE x = "I"
      <4>1. Msg(Sent("R"), 2) = {} /\ \A g \in Sent("R") : g.step \in {0, 2}
        BY <1>1, <3>1 DEF Turns, Ready, Sound, Roles
      <4> QED
        BY <2>2, <3>1, <4>1 DEF Other, Msg
    <3>2. CASE x = "R"
      <4>1. Msg(Sent("I"), 3) = {} /\ \A g \in Sent("I") : g.step \in {1, 3}
        BY <1>1, <3>2 DEF Turns, Ready, Sound, Roles
      <4> QED
        BY <2>2, <3>2, <4>1 DEF Other, Msg
    <3> QED
      BY <3>1, <3>2
  <2>4. PICK q : q = onmessage(x, page[x], f, k)
    OBVIOUS
  <2>5. page'[x] = q
    BY <1>1, <1>3, <2>4 DEF Receive, TypeOK
  <2> HIDE DEF f, k
  <2> QED
    BY <2>1, <2>2, <2>3, <2>4, <2>5, ReadyHandles DEF Ready
<1> QED
  BY <1>2, <1>3

\* No frame, however late, turns a ready channel into a failed one
\* (peer-channels.ts onSignal): those of an older handshake come before the
\* message that made it ready, for any number of faults.
THEOREM ReadyHolds == Spec => ReadyNeverFails
<1>1. IInv /\ OInv /\ [Next]_vars
        => [\A x \in Clients : Ready(x) => page'[x].chan.phase # "failed"]_vars
  BY ReadyStep
<1> QED
  BY Start, StartOrder, OrderInvariance, <1>1, PTL DEF Spec, ReadyNeverFails

-----------------------------------------------------------------------------
(* While every fault finds the pair at rest. *)

\* While nothing has failed: each message finds the channel that it is for.
Tidy(a, b, FI, FR) ==
  /\ a.phase # "failed" /\ b.phase # "failed"
  /\ \A f \in Msg(FI, 1) : a.phase = "handshaking" /\ a.idx = 1 /\ a.i = f.i /\ Msg(FR, 2) = {}
  /\ \A f \in Msg(FR, 2) : a.phase = "handshaking" /\ a.idx = 1 /\ a.i = f.i
  /\ \A f \in Msg(FR, 2) \cup Msg(FI, 3) :
        b.phase = "handshaking" /\ b.idx = 2 /\ b.i = f.i /\ b.r = f.r

Resting(x) == page[x].chan.phase \in {"none", "ready"}
Control == {"joined", "gone"}
ControlOnly(q) == \A n \in DOMAIN q : q[n].kind \in Control
OnlyNoise(q) == \A n \in DOMAIN q : q[n].kind = "noise"

\* While a socket is closed nothing happens ...
Hushed(x) ==
  ~open[x] =>
    /\ \A z \in Clients : Resting(z) /\ page[z].lane = <<>> /\ uplink[z] = <<>>
    /\ downlink[x] = <<>>
    /\ ControlOnly(downlink[Other(x)])
    /\ present[x] => downlink[Other(x)] = <<>>

Tells(q) == \E n \in DOMAIN q : q[n].kind = "gone"
Told(q) == \A n \in DOMAIN q : q[n].kind = "gone" => \A m \in 1..n : q[m].kind \in Control

\* ... and what is told of it reaches a page that has not begun again.
ToldFirst(x) ==
  /\ Told(downlink[x])
  /\ Tells(downlink[x]) => Resting(x) /\ Sent(x) = {}

Calm == /\ Tidy(page["I"].chan, page["R"].chan, Sent("I"), Sent("R"))
        /\ \A x \in Clients : Hushed(x) /\ ToldFirst(x)

CInv ==
  /\ \A x \in Clients : OnlyNoise(page[x].lane) /\ OnlyNoise(uplink[x])
  /\ clean => Calm

(* Single handlers, in terms of Tidy. *)

LEMMA TidyLoses ==
  ASSUME NEW a, NEW b, NEW FI, NEW FR, Tidy(a, b, FI, FR),
         NEW GI \in SUBSET FI, NEW GR \in SUBSET FR
  PROVE  Tidy(a, b, GI, GR)
<1>1. \A step : Msg(GI, step) \subseteq Msg(FI, step) /\ Msg(GR, step) \subseteq Msg(FR, step)
  BY DEF Msg
<1> QED
  BY <1>1 DEF Tidy

\* A page at rest may forget its channel.
LEMMA TidyForgetsI ==
  ASSUME NEW a, NEW b, NEW FI, NEW FR, Tidy(a, b, FI, FR), a.phase # "handshaking"
  PROVE  Tidy(NoChannel, b, FI, FR)
BY NoChannelFields DEF Tidy

LEMMA TidyForgetsR ==
  ASSUME NEW a, NEW b, NEW FI, NEW FR, Tidy(a, b, FI, FR), b.phase # "handshaking"
  PROVE  Tidy(a, NoChannel, FI, FR)
BY NoChannelFields DEF Tidy

LEMMA StartingTidy ==
  ASSUME NEW a, NEW b, NEW FI, NEW FR, Tidy(a, b, FI, FR), a.phase # "handshaking", NEW k,
         NEW e, e.phase = "handshaking", e.idx = 1, e.i = k
  PROVE  Tidy(e, b, FI \cup {Noise(1, k, 0)}, FR)
<1> DEFINE m == Noise(1, k, 0)
           GI == FI \cup {m}
<1>1. m.step = 1 /\ m.i = k
  BY NoiseFields
<1> HIDE DEF m
<1>2. Msg(FI, 1) = {} /\ Msg(FR, 2) = {}
  BY DEF Tidy
<1>3. Msg(GI, 1) = {m} /\ Msg(GI, 3) = Msg(FI, 3)
  BY <1>1, <1>2 DEF Msg
<1>4. Tidy(e, b, GI, FR)
  BY <1>1, <1>2, <1>3 DEF Tidy
<1> QED
  BY <1>4 DEF m

LEMMA AskingTidy ==
  ASSUME NEW a, NEW b, NEW FI, NEW FR, Tidy(a, b, FI, FR), b.phase # "handshaking"
  PROVE  Tidy(a, newChannel, FI, FR \cup {Noise(0, 0, 0)})
<1>1. Msg(FR \cup {Noise(0, 0, 0)}, 2) = Msg(FR, 2)
  BY NoiseFields DEF Msg
<1>2. Msg(FR, 2) = {} /\ Msg(FI, 3) = {}
  BY DEF Tidy
<1> QED
  BY <1>1, <1>2, NoChannelFields DEF Tidy

LEMMA AnsweringTidy ==
  ASSUME NEW a \in Channel, NEW b \in Channel, NEW FI, NEW FR, NEW d \in Nat,
         Sound(a, b, FI, FR, d), Tidy(a, b, FI, FR),
         NEW f \in FI, f.step = 1,
         NEW GI \in SUBSET FI, \A g \in GI : Precedes(f, g), NEW k,
         NEW e, e.phase = "handshaking", e.idx = 2, e.i = f.i, e.r = k
  PROVE  Tidy(a, e, GI, FR \cup {Noise(2, f.i, k)})
<1> DEFINE m == Noise(2, f.i, k)
           GR == FR \cup {m}
<1>1. m.step = 2 /\ m.i = f.i /\ m.r = k
  BY NoiseFields
<1> HIDE DEF m
<1>2. f \in Msg(FI, 1) /\ f.i \in Nat /\ \A g \in FI : g.step # 0 /\ g.i \in Nat
  BY DEF Msg, Sound, Roles
<1>3. Msg(FR, 2) = {} /\ a.phase = "handshaking" /\ a.idx = 1 /\ a.i = f.i
  BY <1>2 DEF Tidy
<1>4. Msg(GI, 3) = {}
  BY <1>2 DEF Precedes, Msg
<1>5. Msg(GI, 1) = {}
  <2>1. \A g \in Msg(GI, 1) : g.i = a.i
    BY DEF Tidy, Msg
  <2>2. \A g \in GI : f.i < g.i
    BY <1>2 DEF Precedes
  <2> QED
    BY <1>2, <1>3, <2>1, <2>2 DEF Msg
<1>6. Msg(GR, 2) = {m}
  BY <1>1, <1>3 DEF Msg
<1>7. a.phase # "failed" /\ e.phase # "failed"
  BY DEF Tidy
<1>8. Tidy(a, e, GI, GR)
  BY <1>1, <1>3, <1>4, <1>5, <1>6, <1>7 DEF Tidy
<1> QED
  BY <1>8 DEF m

LEMMA ConfirmingTidy ==
  ASSUME NEW a, NEW b, NEW FI, NEW FR, Tidy(a, b, FI, FR),
         NEW f \in FR, f.step = 2, NEW GR, Msg(GR, 2) = {},
         NEW e, e.phase = "ready"
  PROVE  Tidy(e, b, FI \cup {Noise(3, f.i, f.r)}, GR)
<1> DEFINE m == Noise(3, f.i, f.r)
           GI == FI \cup {m}
<1>1. m.step = 3 /\ m.i = f.i /\ m.r = f.r
  BY NoiseFields
<1> HIDE DEF m
<1>2. f \in Msg(FR, 2)
  BY DEF Msg
<1>3. Msg(FI, 1) = {} /\ b.phase = "handshaking" /\ b.idx = 2 /\ b.i = f.i /\ b.r = f.r
  BY <1>2 DEF Tidy
<1>4. Msg(GI, 1) = {} /\ Msg(GI, 3) = Msg(FI, 3) \cup {m}
  BY <1>1, <1>3 DEF Msg
<1>5. Tidy(e, b, GI, GR)
  BY <1>1, <1>3, <1>4 DEF Tidy
<1> QED
  BY <1>5 DEF m

LEMMA CompletingTidy ==
  ASSUME NEW a, NEW b, NEW FI, NEW FR, Tidy(a, b, FI, FR),
         NEW GI \in SUBSET FI, Msg(GI, 3) = {}, Msg(FR, 2) = {},
         NEW e, e.phase = "ready"
  PROVE  Tidy(a, e, GI, FR)
<1>1. Msg(GI, 1) \subseteq Msg(FI, 1)
  BY DEF Msg
<1> QED
  BY <1>1 DEF Tidy

\* What a handler does when its message opens.
InitiatorMoves(p, q, f, k) ==
  \/ q.chan = p.chan /\ q.lane = p.lane
  \/ f.kind = "gone" /\ q.chan = NoChannel /\ q.lane = p.lane
  \/ f.kind \in {"here", "noise"} /\ Starts(p, q, k) /\ p.chan.phase # "handshaking"
  \/ Confirms2(p, q, f)

ResponderMoves(p, q, f, k) ==
  \/ q.chan = p.chan /\ q.lane = p.lane
  \/ f.kind = "gone" /\ q.chan = NoChannel /\ q.lane = p.lane
  \/ f.kind = "here" /\ Asks(p, q) /\ p.chan.phase = "none"
  \/ Answers(p, q, f, k)
  \/ Completes(p, q, f)

LEMMA ControlMoves ==
  ASSUME NEW x \in Clients, NEW p \in Page, NEW f \in Frames, NEW k \in Nat,
         f.kind \in {"joined", "gone"}, NEW q, q = onmessage(x, p, f, k)
  PROVE  /\ q.lane = p.lane
         /\ q.chan = p.chan \/ (f.kind = "gone" /\ q.chan = NoChannel)
<1>1. CASE f.kind = "joined"
  <2>1. q = [p EXCEPT !.paused = FALSE]
    BY <1>1 DEF onmessage
  <2> QED
    BY <2>1 DEF Page
<1>2. CASE f.kind = "gone"
  <2>1. q = p \/ q = [p EXCEPT !.sees = FALSE, !.chan = NoChannel]
    BY <1>2 DEF onmessage
  <2>2. LET o == [p EXCEPT !.sees = FALSE, !.chan = NoChannel]
        IN  o.chan = NoChannel /\ o.lane = p.lane
    BY DEF Page
  <2> QED
    BY <1>2, <2>1, <2>2
<1> QED
  BY <1>1, <1>2

LEMMA EnsuringMoves ==
  ASSUME NEW x \in Clients, NEW p \in Page, NEW f \in Frames, NEW k \in Nat,
         f.kind = "here", NEW q, q = onmessage(x, p, f, k)
  PROVE  \/ q.chan = p.chan /\ q.lane = p.lane
         \/ p.chan.phase = "none" /\ x = "I" /\ Starts(p, q, k)
         \/ p.chan.phase = "none" /\ x = "R" /\ Asks(p, q)
<1> DEFINE o == [p EXCEPT !.sees = TRUE]
<1>1. o \in Page /\ o.chan = p.chan /\ o.lane = p.lane
  BY ControlPages
<1>2. q = ensureChannel(x, o, k)
  BY DEF onmessage
<1> HIDE DEF o
<1>3. q = o \/ (x = "I" /\ Starts(o, q, k)) \/ (x = "R" /\ Asks(o, q))
  BY <1>1, <1>2, EnsuredPage
<1>4. o.chan.phase # "none" => q = o
  BY <1>2 DEF ensureChannel
<1> QED
  BY <1>1, <1>3, <1>4 DEF Starts, Asks

LEMMA InitiatorOpens ==
  ASSUME NEW p \in Page, NEW f \in Frames, NEW k \in Nat,
         f.kind = "noise" => f.step \in {0, 2},
         f.kind = "noise" /\ f.step = 2
           => p.chan.phase = "handshaking" /\ p.chan.idx = 1 /\ p.chan.i = f.i,
         NEW q, q = onmessage("I", p, f, k)
  PROVE  InitiatorMoves(p, q, f, k)
<1>1. CASE f.kind \in {"joined", "gone"}
  BY <1>1, ControlMoves DEF InitiatorMoves
<1>2. CASE f.kind = "here"
  BY <1>2, EnsuringMoves DEF InitiatorMoves
<1>3. CASE f.kind = "noise" /\ f.step = 0
  <2>1. q = onRestartRequest("I", p, k)
    BY <1>3 DEF onmessage, onSignal
  <2>2. CASE p.chan.phase = "handshaking"
    BY <2>1, <2>2 DEF onRestartRequest, InitiatorMoves
  <2>3. CASE p.chan.phase # "handshaking"
    <3> DEFINE o == [p EXCEPT !.chan = NoChannel]
    <3>1. q = ensureChannel("I", o, k)
      BY <2>1, <2>3 DEF onRestartRequest
    <3>2. o \in Page /\ o.chan = NoChannel /\ o.lane = p.lane
      BY ChannelPage, NoChannelFields
    <3> HIDE DEF o
    <3>3. q = Sending(o, Chan("handshaking", 1, k, 0), Noise(1, k, 0))
      BY <3>1, <3>2, NoChannelFields DEF ensureChannel
    <3>4. Chan("handshaking", 1, k, 0) \in Channel /\ Noise(1, k, 0) \in Frames
      BY ChanType, NoiseIsFrame
    <3>5. q.chan = Chan("handshaking", 1, k, 0) /\ q.lane = Append(o.lane, Noise(1, k, 0))
      <4>1. PICK e \in Channel : e = Chan("handshaking", 1, k, 0)
        BY <3>4
      <4>2. PICK m \in Frames : m = Noise(1, k, 0)
        BY <3>4
      <4>3. q = Sending(o, e, m)
        BY <3>3, <4>1, <4>2
      <4>4. Sending(o, e, m).chan = e /\ Sending(o, e, m).lane = Append(o.lane, m)
        BY <3>2, SendingPage
      <4>5. q.chan = e /\ q.lane = Append(o.lane, m)
        BY <4>3, <4>4
      <4> QED
        BY <4>1, <4>2, <4>5
    <3> QED
      BY <1>3, <2>3, <3>2, <3>5 DEF Starts, InitiatorMoves
  <2> QED
    BY <2>2, <2>3
<1>4. CASE f.kind = "noise" /\ f.step = 2
  <2>1. ChannelFor(p) = p.chan /\ Opens(p.chan, f)
    BY <1>4 DEF ChannelFor, Opens
  <2>2. q = Sending(p, Chan("ready", 3, f.i, f.r), Noise(3, f.i, f.r))
    BY <1>4, <2>1 DEF onmessage, onSignal, ReadMessage2
  <2>3. Chan("ready", 3, f.i, f.r) \in Channel /\ Noise(3, f.i, f.r) \in Frames
    <3>1. f.i \in Nat /\ f.r \in Nat
      BY DEF Frames
    <3> QED
      BY <3>1, NoiseIsFrame, ChanType
  <2> QED
    BY <1>4, <2>2, <2>3, SendingPage DEF Confirms2, InitiatorMoves
<1> QED
  BY <1>1, <1>2, <1>3, <1>4 DEF Frames

LEMMA ResponderOpens ==
  ASSUME NEW p \in Page, NEW f \in Frames, NEW k \in Nat,
         f.kind = "noise" => f.step \in {1, 3},
         f.kind = "noise" /\ f.step = 3
           => /\ p.chan.phase = "handshaking" /\ p.chan.idx = 2
              /\ p.chan.i = f.i /\ p.chan.r = f.r,
         NEW q, q = onmessage("R", p, f, k)
  PROVE  ResponderMoves(p, q, f, k)
<1>1. CASE f.kind \in {"joined", "gone"}
  BY <1>1, ControlMoves DEF ResponderMoves
<1>2. CASE f.kind = "here"
  BY <1>2, EnsuringMoves DEF ResponderMoves
<1>3. CASE f.kind = "noise" /\ f.step = 1
  <2>1. q = Sending(p, Chan("handshaking", 2, f.i, k), Noise(2, f.i, k))
    BY <1>3 DEF onmessage, onSignal, ReadMessage1
  <2>2. Chan("handshaking", 2, f.i, k) \in Channel /\ Noise(2, f.i, k) \in Frames
    BY NoiseIsFrame, ChanType DEF Frames
  <2> QED
    BY <1>3, <2>1, <2>2, SendingPage DEF Answers, ResponderMoves
<1>4. CASE f.kind = "noise" /\ f.step = 3
  <2>1. ChannelFor(p) = p.chan /\ Opens(p.chan, f)
    BY <1>4 DEF ChannelFor, Opens
  <2>2. q = [p EXCEPT !.chan = Chan("ready", 3, f.i, f.r)]
    BY <1>4, <2>1 DEF onmessage, onSignal, ReadMessage3
  <2>3. Chan("ready", 3, f.i, f.r) \in Channel
    BY ChanType DEF Frames
  <2>4. PICK e \in Channel : e = Chan("ready", 3, f.i, f.r)
    BY <2>3
  <2>5. q = [p EXCEPT !.chan = e]
    BY <2>2, <2>4
  <2>6. [p EXCEPT !.chan = e].chan = e /\ [p EXCEPT !.chan = e].lane = p.lane
    BY ChannelPage
  <2>7. q.chan = Chan("ready", 3, f.i, f.r) /\ q.lane = p.lane
    BY <2>4, <2>5, <2>6
  <2> QED
    BY <1>4, <2>7 DEF Completes, ResponderMoves
<1> QED
  BY <1>1, <1>2, <1>3, <1>4 DEF Frames

-----------------------------------------------------------------------------
(* The network, while every fault finds the pair at rest. *)

LEMMA OnlyNoiseParts ==
  ASSUME NEW q \in Seq(Frames), OnlyNoise(q)
  PROVE  /\ q # <<>> => Head(q).kind = "noise" /\ OnlyNoise(Tail(q))
         /\ \A m \in 1..(Len(q) + 1), n \in 0..Len(q) : OnlyNoise(SubSeq(q, m, n))
         /\ \A f \in Frames : f.kind = "noise" => OnlyNoise(Append(q, f))
<1>1. ASSUME q # <<>> PROVE Head(q).kind = "noise" /\ OnlyNoise(Tail(q))
  <2>1. /\ 1 \in DOMAIN q /\ Head(q) = q[1]
        /\ \A n \in DOMAIN Tail(q) : n + 1 \in DOMAIN q /\ Tail(q)[n] = q[n + 1]
    BY <1>1
  <2> QED
    BY <2>1 DEF OnlyNoise
<1>2. ASSUME NEW m \in 1..(Len(q) + 1), NEW n \in 0..Len(q) PROVE OnlyNoise(SubSeq(q, m, n))
  <2>1. \A k \in DOMAIN SubSeq(q, m, n) :
          k + m - 1 \in DOMAIN q /\ SubSeq(q, m, n)[k] = q[k + m - 1]
    OBVIOUS
  <2> QED
    BY <2>1 DEF OnlyNoise
<1>3. ASSUME NEW f \in Frames, f.kind = "noise" PROVE OnlyNoise(Append(q, f))
  <2>1. \A n \in DOMAIN Append(q, f) :
          (n \in DOMAIN q /\ Append(q, f)[n] = q[n]) \/ Append(q, f)[n] = f
    OBVIOUS
  <2> QED
    BY <1>3, <2>1 DEF OnlyNoise
<1> QED
  BY <1>1, <1>2, <1>3

LEMMA EmptyOnlyNoise == OnlyNoise(<<>>)
BY DEF OnlyNoise

\* The page a frame leaves.
LEMMA ReceivedPage ==
  ASSUME IInv, NEW x \in Clients, Receive(x),
         NEW q, q = onmessage(x, page[x], Head(downlink[x]), drawn + 1)
  PROVE  /\ q \in Page
         /\ q.lane = page[x].lane
              \/ \E m \in Frames : m.kind = "noise" /\ q.lane = Append(page[x].lane, m)
<1> DEFINE f == Head(downlink[x])
           k == drawn + 1
           p == page[x]
<1>1. /\ TypeOK /\ drawn \in Nat
      /\ Sound(page["I"].chan, page["R"].chan, Sent("I"), Sent("R"), drawn)
  BY DEF IInv, TypeOK
<1>2. p \in Page /\ k \in Nat
  BY <1>1, Typed
<1>3. f \in Frames /\ (f.kind = "noise" => f \in Sent(Other(x)))
  BY <1>1, Arriving DEF Receive
<1> HIDE DEF f, k
<1>4. f.i \in Nat /\ f.r \in Nat
  BY <1>3 DEF Frames
<1>5. \A step \in 0..3, i, r \in Nat : Noise(step, i, r) \in Frames
                                       /\ Noise(step, i, r).kind = "noise"
  BY NoiseIsFrame, NoiseFields
<1>6. /\ Noise(0, 0, 0) \in Frames /\ Noise(0, 0, 0).kind = "noise"
      /\ Noise(1, k, 0) \in Frames /\ Noise(1, k, 0).kind = "noise"
      /\ Noise(2, f.i, k) \in Frames /\ Noise(2, f.i, k).kind = "noise"
      /\ Noise(3, f.i, f.r) \in Frames /\ Noise(3, f.i, f.r).kind = "noise"
  <2>1. Noise(0, 0, 0) \in Frames /\ Noise(0, 0, 0).kind = "noise"
    BY <1>5
  <2>2. Noise(1, k, 0) \in Frames /\ Noise(1, k, 0).kind = "noise"
    BY <1>2, <1>5
  <2>3. Noise(2, f.i, k) \in Frames /\ Noise(2, f.i, k).kind = "noise"
    BY <1>2, <1>4, <1>5
  <2>4. Noise(3, f.i, f.r) \in Frames /\ Noise(3, f.i, f.r).kind = "noise"
    BY <1>4, <1>5
  <2> QED
    BY <2>1, <2>2, <2>3, <2>4
<1>7. q = onmessage(x, p, f, k)
  BY DEF f, k
<1>8. CASE x = "I"
  <2>1. f.kind = "noise" => f.step \in {0, 2}
    BY <1>1, <1>3, <1>8 DEF Sound, Roles, Other
  <2>2. q \in Page /\ (Quiet(p, q) \/ Starts(p, q, k) \/ Confirms2(p, q, f))
    BY <1>2, <1>3, <1>7, <1>8, <2>1, InitiatorHandles
  <2> QED
    BY <1>6, <2>2 DEF Quiet, Starts, Confirms2
<1>9. CASE x = "R"
  <2>1. f.kind = "noise" => f.step \in {1, 3}
    BY <1>1, <1>3, <1>9 DEF Sound, Roles, Other
  <2>2. /\ p.chan.idx = 0 => p.chan.i = 0 /\ p.chan.r = 0
        /\ p.chan.phase = "ready" => p.chan.idx = 3
    BY <1>1, <1>9 DEF Sound, Shapes
  <2>3. q \in Page /\ (Quiet(p, q) \/ Asks(p, q) \/ Answers(p, q, f, k) \/ Completes(p, q, f))
    BY <1>2, <1>3, <1>7, <1>9, <2>1, <2>2, ResponderHandles
  <2> QED
    BY <1>6, <2>3 DEF Quiet, Asks, Answers, Completes
<1> QED
  BY <1>8, <1>9

LEMMA SpokenStep ==
  ASSUME IInv, [Next]_vars,
         \A x \in Clients : OnlyNoise(page[x].lane) /\ OnlyNoise(uplink[x]),
         NEW x \in Clients
  PROVE  OnlyNoise(page'[x].lane) /\ OnlyNoise(uplink'[x])
<1>1. /\ TypeOK /\ page[x] \in Page /\ page[x].lane \in Seq(Frames) /\ uplink[x] \in Seq(Frames)
      /\ OnlyNoise(page[x].lane) /\ OnlyNoise(uplink[x])
  BY Typed DEF IInv
<1>2. CASE UNCHANGED vars
  BY <1>1, <1>2 DEF vars
<1>3. ASSUME NEW y \in Clients, Join(y)
      PROVE  page' = page /\ (uplink'[x] = uplink[x] \/ uplink'[x] = <<>>)
  BY <1>1, <1>3 DEF Join, TypeOK
<1>4. ASSUME NEW y \in Clients, RelayClose(y)
      PROVE  page' = page /\ uplink' = uplink
  BY <1>4 DEF RelayClose
<1>5. ASSUME NEW y \in Clients, Relay(y) \/ Throttle(y)
      PROVE  page' = page /\ (uplink'[x] = uplink[x]
                               \/ (uplink[x] # <<>> /\ uplink'[x] = Tail(uplink[x])))
  BY <1>1, <1>5 DEF Relay, Throttle, TypeOK
<1>6. ASSUME NEW y \in Clients, Pump(y)
      PROVE  OnlyNoise(page'[x].lane) /\ OnlyNoise(uplink'[x])
  <2>1. CASE x # y
    BY <1>1, <1>6, <2>1 DEF Pump, TypeOK
  <2>2. CASE x = y
    <3>1. page[x].lane # <<>> /\ page'[x] = [page[x] EXCEPT !.lane = Tail(page[x].lane)]
      BY <1>1, <1>6, <2>2 DEF Pump, TypeOK
    <3>2. page'[x].lane = Tail(page[x].lane)
      BY <1>1, <3>1 DEF Page
    <3>3. uplink'[x] = Append(uplink[x], Head(page[x].lane))
      BY <1>1, <1>6, <2>2 DEF Pump, TypeOK
    <3>4. /\ Head(page[x].lane) \in Frames /\ Head(page[x].lane).kind = "noise"
          /\ OnlyNoise(Tail(page[x].lane))
      BY <1>1, <3>1, OnlyNoiseParts, TailNoise
    <3> QED
      BY <1>1, <3>2, <3>3, <3>4, OnlyNoiseParts
  <2> QED
    BY <2>1, <2>2
<1>7. ASSUME NEW y \in Clients, Receive(y)
      PROVE  OnlyNoise(page'[x].lane) /\ OnlyNoise(uplink'[x])
  <2>1. PICK q : q = onmessage(y, page[y], Head(downlink[y]), drawn + 1)
    OBVIOUS
  <2>2. uplink' = uplink /\ page' = [page EXCEPT ![y] = q]
    BY <1>7, <2>1 DEF Receive
  <2>3. page'[x] = page[x] \/ (x = y /\ page'[x] = q)
    BY <1>1, <2>2 DEF TypeOK
  <2>4. q.lane = page[y].lane
          \/ \E m \in Frames : m.kind = "noise" /\ q.lane = Append(page[y].lane, m)
    BY <1>7, <2>1, ReceivedPage
  <2>5. x = y => OnlyNoise(q.lane)
    BY <1>1, <2>4, OnlyNoiseParts
  <2> QED
    BY <1>1, <2>2, <2>3, <2>5
<1>8. ASSUME NEW y \in Clients, LoseSocket(y)
      PROVE  OnlyNoise(uplink'[x])
  <2>1. PICK n \in 0..Len(uplink[y]) : uplink' = [uplink EXCEPT ![y] = SubSeq(uplink[y], 1, n)]
    BY <1>8 DEF LoseSocket
  <2>2. uplink'[x] = uplink[x] \/ (x = y /\ uplink'[x] = SubSeq(uplink[y], 1, n))
    BY <1>1, <2>1 DEF TypeOK
  <2>3. 1 \in 1..(Len(uplink[x]) + 1)
    BY <1>1
  <2> QED
    BY <1>1, <2>2, <2>3, OnlyNoiseParts
<1>9. ASSUME NEW y \in Clients, Drop(y)
      PROVE  OnlyNoise(page'[x].lane)
  <2>1. PICK n \in 0..Len(page[y].lane) :
          page' = [page EXCEPT ![y].lane = SubSeq(page[y].lane, n + 1, Len(page[y].lane)),
                               ![y].paused = TRUE]
    BY <1>9 DEF Drop
  <2>2. \/ page'[x] = page[x]
        \/ x = y /\ page'[x].lane = SubSeq(page[x].lane, n + 1, Len(page[x].lane))
    BY <1>1, <2>1 DEF TypeOK, Page
  <2>3. x = y => n + 1 \in 1..(Len(page[x].lane) + 1) /\ Len(page[x].lane) \in 0..Len(page[x].lane)
    BY <1>1
  <2> QED
    BY <1>1, <2>2, <2>3, OnlyNoiseParts
<1>10. ASSUME NEW y \in Clients, Reload(y)
       PROVE  OnlyNoise(page'[x].lane)
  <2>1. page' = [page EXCEPT ![y] = FreshPage] /\ FreshPage.lane = <<>>
    BY <1>10 DEF Reload, FreshPage
  <2> QED
    BY <1>1, <2>1, EmptyOnlyNoise DEF TypeOK
<1> QED
  BY <1>1, <1>2, <1>3, <1>4, <1>5, <1>6, <1>7, <1>8, <1>9, <1>10, OnlyNoiseParts, EmptyOnlyNoise
     DEF Next, Drop, Reload

LEMMA ControlQueues ==
  ASSUME NEW q \in Seq(Frames), ControlOnly(q)
  PROVE  /\ Told(q) /\ NoiseIn(q) = {}
         /\ q # <<>> => ControlOnly(Tail(q))
         /\ \A f \in Frames : f.kind \in Control => ControlOnly(Append(q, f))
<1>1. Told(q)
  <2>1. \A n \in DOMAIN q : 1..n \subseteq DOMAIN q
    OBVIOUS
  <2> QED
    BY <2>1 DEF Told, ControlOnly
<1>2. NoiseIn(q) = {}
  BY DEF NoiseIn, NoiseFrames, ControlOnly, Control
<1>3. ASSUME q # <<>> PROVE ControlOnly(Tail(q))
  <2>1. \A n \in DOMAIN Tail(q) : n + 1 \in DOMAIN q /\ Tail(q)[n] = q[n + 1]
    BY <1>3
  <2> QED
    BY <2>1 DEF ControlOnly
<1>4. ASSUME NEW f \in Frames, f.kind \in Control PROVE ControlOnly(Append(q, f))
  <2>1. \A n \in DOMAIN Append(q, f) :
          (n \in DOMAIN q /\ Append(q, f)[n] = q[n]) \/ Append(q, f)[n] = f
    OBVIOUS
  <2> QED
    BY <1>4, <2>1 DEF ControlOnly
<1> QED
  BY <1>1, <1>2, <1>3, <1>4

LEMMA EmptyTold == Told(<<>>) /\ ~Tells(<<>>) /\ ControlOnly(<<>>)
BY DEF Told, Tells, ControlOnly

LEMMA TailTold ==
  ASSUME NEW q \in Seq(Frames), q # <<>>, Told(q)
  PROVE  /\ Told(Tail(q))
         /\ Tells(Tail(q)) => Tells(q) /\ Head(q).kind \in Control
         /\ Head(q).kind = "gone" => Tells(q)
<1>1. /\ 1 \in DOMAIN q /\ Head(q) = q[1]
      /\ \A n \in DOMAIN Tail(q) : n \in Nat /\ n # 0 /\ n + 1 \in DOMAIN q
                                   /\ Tail(q)[n] = q[n + 1]
      /\ \A n \in DOMAIN Tail(q) : 1..n \subseteq DOMAIN Tail(q)
  OBVIOUS
<1>2. Told(Tail(q))
  <2> SUFFICES ASSUME NEW n \in DOMAIN Tail(q), Tail(q)[n].kind = "gone", NEW m \in 1..n
               PROVE  Tail(q)[m].kind \in Control
    BY DEF Told
  <2>1. n + 1 \in DOMAIN q /\ q[n + 1].kind = "gone" /\ m + 1 \in 1..(n + 1)
    BY <1>1
  <2>2. Tail(q)[m] = q[m + 1]
    BY <1>1
  <2> QED
    BY <2>1, <2>2 DEF Told
<1>3. ASSUME Tells(Tail(q)) PROVE Tells(q) /\ Head(q).kind \in Control
  <2>1. PICK n \in DOMAIN Tail(q) : Tail(q)[n].kind = "gone"
    BY <1>3 DEF Tells
  <2>2. n + 1 \in DOMAIN q /\ q[n + 1].kind = "gone" /\ 1 \in 1..(n + 1)
    BY <1>1, <2>1
  <2> QED
    BY <1>1, <2>2 DEF Told, Tells
<1> QED
  BY <1>1, <1>2, <1>3 DEF Tells

LEMMA AppendTold ==
  ASSUME NEW q \in Seq(Frames), NEW f \in Frames, f.kind # "gone", Told(q)
  PROVE  /\ Told(Append(q, f))
         /\ Tells(Append(q, f)) => Tells(q)
<1> DEFINE s == Append(q, f)
<1>1. /\ \A n \in DOMAIN s : n \in DOMAIN q \/ s[n] = f
      /\ \A n \in DOMAIN q : s[n] = q[n] /\ 1..n \subseteq DOMAIN q
  OBVIOUS
<1> HIDE DEF s
<1>2. Told(s) /\ (Tells(s) => Tells(q))
  BY <1>1 DEF Told, Tells
<1> QED
  BY <1>2 DEF s

LEMMA GreetingTold ==
  ASSUME NEW x \in BOOLEAN
  PROVE  Told(<<Joined, PeerUpdate(x)>>) /\ (~x => ControlOnly(<<Joined, PeerUpdate(x)>>))
<1> DEFINE q == <<Joined, PeerUpdate(x)>>
<1>1. Joined.kind = "joined" /\ (PeerUpdate(x).kind = IF x THEN "here" ELSE "gone")
  BY DEF Joined, PeerUpdate, Frame
<1>2. q[1] = Joined /\ q[2] = PeerUpdate(x) /\ DOMAIN q = {1, 2}
  OBVIOUS
<1> HIDE DEF q
<1>3. \A n \in {1, 2} : 1..n \subseteq {1, 2}
  OBVIOUS
<1>4. \A n \in DOMAIN q : q[n].kind \in {"joined", "here", "gone"}
  BY <1>1, <1>2
<1>5. ~x => ControlOnly(q)
  BY <1>1, <1>2 DEF ControlOnly, Control
<1>6. x => Told(q)
  BY <1>1, <1>2 DEF Told
<1>7. ~x => Told(q)
  BY <1>1, <1>2, <1>3 DEF Told, Control
<1> QED
  BY <1>5, <1>6, <1>7 DEF q

\* What is known while x's socket is closed.
LEMMA Hush ==
  ASSUME TypeOK, Calm, NEW x \in Clients, ~open[x], NEW y, y = Other(x)
  PROVE  /\ \A z \in Clients : /\ Resting(z) /\ page[z].lane = <<>> /\ uplink[z] = <<>>
                               /\ Sent(z) = {}
         /\ downlink[x] = <<>> /\ ControlOnly(downlink[y])
         /\ present[x] => downlink[y] = <<>>
<1>1. /\ \A z \in Clients : Resting(z) /\ page[z].lane = <<>> /\ uplink[z] = <<>>
      /\ downlink[x] = <<>> /\ ControlOnly(downlink[y])
      /\ present[x] => downlink[y] = <<>>
  BY DEF Calm, Hushed
<1>2. y \in Clients /\ downlink[y] \in Seq(Frames) /\ \A z \in Clients : z = x \/ z = y
  BY Typed DEF Other
<1>3. \A z \in Clients : NoiseIn(downlink[z]) = {}
  BY <1>1, <1>2, ControlQueues, EmptyNoise
<1>4. \A z \in Clients : Sent(z) = {}
  BY <1>1, <1>3, EmptyNoise, Typed DEF Sent
<1> QED
  BY <1>1, <1>4

LEMMA ThinsSent ==
  ASSUME TypeOK, Thins, NEW x \in Clients
  PROVE  Sent(x)' \subseteq Sent(x)
<1>1. Other(x) \in Clients
  BY Typed
<1> QED
  BY <1>1 DEF Thins, Thinner, Sent

LEMMA TidyKept ==
  ASSUME Calm, \A z \in Clients : page'[z].chan = page[z].chan /\ Sent(z)' \subseteq Sent(z)
  PROVE  Tidy(page'["I"].chan, page'["R"].chan, Sent("I")', Sent("R")')
<1>1. Tidy(page["I"].chan, page["R"].chan, Sent("I"), Sent("R"))
  BY DEF Calm
<1>2. /\ page'["I"].chan = page["I"].chan /\ page'["R"].chan = page["R"].chan
      /\ Sent("I")' \in SUBSET Sent("I") /\ Sent("R")' \in SUBSET Sent("R")
  OBVIOUS
<1>3. Tidy(page["I"].chan, page["R"].chan, Sent("I")', Sent("R")')
  BY <1>1, <1>2, TidyLoses
<1> QED
  BY <1>2, <1>3

LEMMA JoinCalm ==
  ASSUME TypeOK, Calm, NEW x \in Clients, Join(x), present[Other(x)] => open[Other(x)]
  PROVE  Calm'
<1> DEFINE y == Other(x)
           greeting == <<Joined, PeerUpdate(present[y])>>
<1>1. /\ y \in Clients /\ y # x /\ Other(y) = x /\ \A z \in Clients : z = x \/ z = y
      /\ present[y] \in BOOLEAN /\ downlink[y] \in Seq(Frames)
  BY Typed DEF Other
<1>2. /\ \A z \in Clients : /\ Resting(z) /\ page[z].lane = <<>> /\ uplink[z] = <<>>
                            /\ Sent(z) = {}
      /\ downlink[x] = <<>> /\ ControlOnly(downlink[y])
  BY Hush DEF Join
<1>3. /\ page' = page /\ open'[x] = TRUE /\ open'[y] = open[y]
      /\ present'[y] = present[y]
      /\ downlink'[x] = greeting
      /\ downlink'[y] = IF present[y] /\ open[y] THEN Append(downlink[y], PeerUpdate(TRUE))
                        ELSE downlink[y]
      /\ \A z \in Clients : uplink'[z] = <<>>
  BY <1>1, <1>2 DEF Join, TypeOK, Reaches
<1>4. \A z \in Clients : page'[z].chan = page[z].chan /\ Sent(z)' \subseteq Sent(z)
  BY <1>3, JoinThins, ThinsSent
<1>5. \A z \in Clients : Resting(z)' /\ Sent(z)' = {}
  BY <1>2, <1>3, <1>4 DEF Resting
<1>6. Hushed(x)'
  BY <1>3 DEF Hushed
<1>7. Hushed(y)'
  <2> SUFFICES ASSUME ~open[y] PROVE Hushed(y)'
    BY <1>3 DEF Hushed
  <2>1. ~present[y] /\ downlink[y] = <<>>
    BY <1>1, Hush
  <2>2. ControlOnly(greeting)
    <3>1. present[y] = FALSE
      BY <1>1, <2>1
    <3>2. ControlOnly(<<Joined, PeerUpdate(FALSE)>>)
      BY GreetingTold
    <3> QED
      BY <3>1, <3>2
  <2> HIDE DEF greeting, y
  <2>3. downlink'[y] = <<>> /\ ControlOnly(downlink'[x]) /\ ~present'[y]
    BY <1>3, <2>1, <2>2
  <2> QED
    BY <1>1, <1>2, <1>3, <1>5, <2>3 DEF Hushed
<1>8. ToldFirst(x)'
  <2>1. Told(greeting)
    BY <1>1, GreetingTold
  <2> QED
    BY <1>3, <1>5, <2>1 DEF ToldFirst
<1>9. ToldFirst(y)'
  <2>1. Told(downlink[y])
    BY <1>1 DEF Calm, ToldFirst
  <2>2. PeerUpdate(TRUE) \in Frames /\ PeerUpdate(TRUE).kind # "gone"
    BY ControlFrames DEF PeerUpdate, Frame
  <2>3. Told(Append(downlink[y], PeerUpdate(TRUE)))
    BY <1>1, <2>1, <2>2, AppendTold
  <2> QED
    BY <1>1, <1>3, <1>5, <2>1, <2>3 DEF ToldFirst
<1> QED
  BY <1>1, <1>4, <1>6, <1>7, <1>8, <1>9, TidyKept DEF Calm

LEMMA RelayCloseCalm ==
  ASSUME TypeOK, Calm, NEW x \in Clients, RelayClose(x)
  PROVE  Calm'
<1> DEFINE y == Other(x)
<1>1. /\ y \in Clients /\ y # x /\ Other(y) = x /\ \A z \in Clients : z = x \/ z = y
      /\ downlink[y] \in Seq(Frames)
  BY Typed DEF Other
<1>2. /\ \A z \in Clients : /\ Resting(z) /\ page[z].lane = <<>> /\ uplink[z] = <<>>
                            /\ Sent(z) = {}
      /\ downlink[x] = <<>> /\ downlink[y] = <<>>
  BY Hush DEF RelayClose
<1>3. /\ page' = page /\ open' = open /\ uplink' = uplink
      /\ present'[x] = FALSE /\ present'[y] = present[y]
      /\ downlink'[x] = <<>>
      /\ downlink'[y] = IF present[y] /\ open[y] THEN Append(<<>>, PeerUpdate(FALSE)) ELSE <<>>
  BY <1>1, <1>2 DEF RelayClose, TypeOK, Reaches
<1>4. \A z \in Clients : page'[z].chan = page[z].chan /\ Sent(z)' \subseteq Sent(z)
  BY <1>3, RelayCloseThins, ThinsSent
<1>5. \A z \in Clients : Resting(z)' /\ Sent(z)' = {}
  BY <1>2, <1>3, <1>4 DEF Resting
<1>6. ControlOnly(downlink'[y]) /\ downlink'[y] \in Seq(Frames)
  <2>1. PeerUpdate(FALSE) \in Frames /\ PeerUpdate(FALSE).kind \in Control
    BY ControlFrames DEF PeerUpdate, Frame, Control
  <2>2. ControlOnly(Append(<<>>, PeerUpdate(FALSE)))
        /\ Append(<<>>, PeerUpdate(FALSE)) \in Seq(Frames)
    <3>1. <<>> \in Seq(Frames) /\ ControlOnly(<<>>)
      BY EmptyTold, EmptySeq
    <3>2. \A f \in Frames : f.kind \in Control => ControlOnly(Append(<<>>, f))
      BY <3>1, ControlQueues
    <3>3. \A f \in Frames : Append(<<>>, f) \in Seq(Frames)
      BY <3>1, AppendNoise
    <3> QED
      BY <2>1, <3>2, <3>3
  <2> QED
    BY <1>3, <2>2, EmptyTold, EmptySeq
<1>7. Hushed(x)'
  BY <1>1, <1>2, <1>3, <1>5, <1>6 DEF Hushed
<1>8. Hushed(y)'
  BY <1>1, <1>2, <1>3, <1>5, EmptyTold DEF Hushed
<1>9. ToldFirst(x)' /\ ToldFirst(y)'
  BY <1>1, <1>3, <1>5, <1>6, EmptyTold, ControlQueues DEF ToldFirst
<1> QED
  BY <1>1, <1>4, <1>7, <1>8, <1>9, TidyKept DEF Calm

\* Whatever is sent, both sockets are open.
LEMMA BothOpen ==
  ASSUME TypeOK, Calm, NEW x \in Clients, page[x].lane # <<>> \/ uplink[x] # <<>>
  PROVE  \A z \in Clients : open[z]
BY Hush

LEMMA RelayCalm ==
  ASSUME TypeOK, OInv, Calm, NEW x \in Clients, Relay(x), OnlyNoise(uplink[x]),
         \A z \in Clients : Sent(z)' \subseteq Sent(z)
  PROVE  Calm'
<1> DEFINE y == Other(x)
           f == Head(uplink[x])
<1>1. /\ y \in Clients /\ y # x /\ Other(y) = x /\ \A z \in Clients : z = x \/ z = y
      /\ downlink[y] \in Seq(Frames) /\ uplink[x] \in Seq(Frames) /\ uplink[x] # <<>>
  BY Typed DEF Other, Relay
<1>2. \A z \in Clients : open[z]
  BY <1>1, BothOpen
<1>3. /\ page' = page /\ open' = open /\ present' = present
      /\ downlink'[x] = downlink[x]
      /\ downlink'[y] = downlink[y] \/ downlink'[y] = Append(downlink[y], f)
  BY <1>1 DEF Relay, TypeOK
<1>4. f \in Frames /\ f.kind = "noise"
  BY <1>1, TailNoise, OnlyNoiseParts
<1> HIDE DEF y, f
<1>5. \A z \in Clients : Hushed(z)'
  BY <1>2, <1>3 DEF Hushed
<1>6. /\ Told(downlink[y])
      /\ Told(Append(downlink[y], f))
      /\ Tells(Append(downlink[y], f)) => Tells(downlink[y])
  <2>1. Told(downlink[y])
    BY <1>1 DEF Calm, ToldFirst
  <2> QED
    BY <1>1, <1>4, <2>1, AppendTold
<1>7. \A z \in Clients : /\ ToldFirst(z)
                         /\ Sent(z) = {} => Sent(z)' = {}
                         /\ Resting(z) => Resting(z)'
  BY <1>3 DEF Calm, Resting
<1>8. ToldFirst(x)' /\ ToldFirst(y)'
  BY <1>1, <1>3, <1>6, <1>7 DEF ToldFirst
<1>9. \A z \in Clients : page'[z].chan = page[z].chan /\ Sent(z)' \subseteq Sent(z)
  BY <1>3
<1> QED
  BY <1>1, <1>5, <1>8, <1>9, TidyKept DEF Calm

LEMMA PumpCalm ==
  ASSUME TypeOK, Calm, NEW x \in Clients, Pump(x),
         \A z \in Clients : Sent(z)' \subseteq Sent(z)
  PROVE  Calm'
<1>1. page[x].lane # <<>> /\ open' = open /\ downlink' = downlink
  BY DEF Pump
<1>2. \A z \in Clients : open[z]
  BY <1>1, BothOpen
<1>3. \A z \in Clients : page'[z].chan = page[z].chan
  <2>1. page' = [page EXCEPT ![x].lane = Tail(page[x].lane)]
    BY DEF Pump
  <2> QED
    BY <2>1 DEF TypeOK, Page
<1>4. \A z \in Clients : Hushed(z)'
  BY <1>1, <1>2 DEF Hushed
<1>5. \A z \in Clients : /\ ToldFirst(z)
                         /\ Sent(z) = {} => Sent(z)' = {}
                         /\ Resting(z) => Resting(z)'
  BY <1>3 DEF Calm, Resting
<1>6. \A z \in Clients : ToldFirst(z)'
  BY <1>1, <1>5 DEF ToldFirst
<1> QED
  BY <1>3, <1>4, <1>6, TidyKept DEF Calm

\* A fault finds nothing under way and leaves nothing.
LEMMA AtRestCalm ==
  ASSUME TypeOK',
         \A z \in Clients : /\ Resting(z)' /\ page'[z].lane = <<>>
                            /\ uplink'[z] = <<>> /\ downlink'[z] = <<>>
  PROVE  Calm'
<1>1. \A z \in Clients : Sent(z)' = {}
  BY EmptyNoise DEF Sent, Other
<1>2. Tidy(page'["I"].chan, page'["R"].chan, {}, {})
  BY DEF Tidy, Resting, Msg
<1>3. \A z \in Clients : Hushed(z)' /\ ToldFirst(z)'
  BY EmptyTold DEF Hushed, ToldFirst, Other
<1> QED
  BY <1>1, <1>2, <1>3 DEF Calm

LEMMA LosingCalm ==
  ASSUME TypeOK, AtRest, NEW x \in Clients, LoseSocket(x), NEW z \in Clients
  PROVE  uplink'[z] = <<>> /\ downlink'[z] = <<>>
<1>1. uplink[x] = <<>> /\ uplink[z] = <<>> /\ downlink[z] = <<>>
  BY DEF AtRest
<1>2. PICK n \in 0..Len(uplink[x]) : uplink' = [uplink EXCEPT ![x] = SubSeq(uplink[x], 1, n)]
  BY DEF LoseSocket
<1>3. SubSeq(uplink[x], 1, n) = <<>>
  <2>1. n = 0
    BY <1>1
  <2> QED
    BY <1>1, <2>1
<1>4. uplink'[z] = <<>>
  BY <1>1, <1>2, <1>3 DEF TypeOK
<1>5. downlink'[z] = <<>>
  BY <1>1 DEF LoseSocket, TypeOK
<1> QED
  BY <1>4, <1>5

LEMMA FaultCalm ==
  ASSUME TypeOK, TypeOK', AtRest, NEW x \in Clients, Drop(x) \/ Reload(x) \/ Throttle(x)
  PROVE  Calm'
<1>1. \A z \in Clients : /\ Resting(z) /\ page[z].lane = <<>>
                         /\ uplink[z] = <<>> /\ downlink[z] = <<>>
  BY DEF AtRest, Resting
<1>2. CASE Drop(x)
  <2>1. PICK n \in 0..Len(page[x].lane) :
          page' = [page EXCEPT ![x].lane = SubSeq(page[x].lane, n + 1, Len(page[x].lane)),
                               ![x].paused = TRUE]
    BY <1>2 DEF Drop
  <2>2. SubSeq(page[x].lane, n + 1, Len(page[x].lane)) = <<>>
    <3>1. n = 0 /\ page[x].lane = <<>> /\ Len(page[x].lane) = 0
      BY <1>1
    <3> QED
      BY <3>1
  <2>3. \A z \in Clients : page'[z].lane = <<>> /\ page'[z].chan = page[z].chan
    BY <1>1, <2>1, <2>2 DEF TypeOK, Page
  <2>4. \A z \in Clients : Resting(z)'
    BY <1>1, <2>3 DEF Resting
  <2>5. \A z \in Clients : uplink'[z] = <<>> /\ downlink'[z] = <<>>
    BY <1>2, LosingCalm DEF Drop
  <2> QED
    BY <2>3, <2>4, <2>5, AtRestCalm
<1>3. CASE Reload(x)
  <2>1. /\ page' = [page EXCEPT ![x] = FreshPage]
        /\ FreshPage.chan = NoChannel /\ FreshPage.lane = <<>>
    BY <1>3 DEF Reload, FreshPage
  <2>2. \A z \in Clients : page'[z].lane = <<>> /\ (page'[z] = page[z] \/ page'[z].chan = NoChannel)
    BY <1>1, <2>1 DEF TypeOK
  <2>3. \A z \in Clients : Resting(z)'
    BY <1>1, <2>2, NoChannelFields DEF Resting
  <2>4. \A z \in Clients : uplink'[z] = <<>> /\ downlink'[z] = <<>>
    BY <1>3, LosingCalm DEF Reload
  <2> QED
    BY <2>2, <2>3, <2>4, AtRestCalm
<1>4. CASE Throttle(x)
  BY <1>1, <1>4 DEF Throttle
<1> QED
  BY <1>2, <1>3, <1>4

LEMMA ReceiveHush ==
  ASSUME TypeOK, Calm, NEW x \in Clients, Receive(x), NEW y, y = Other(x),
         NEW q \in Page, q = onmessage(x, page[x], Head(downlink[x]), drawn + 1),
         page'[x] = q, page'[y] = page[y], Sent(y)' \subseteq Sent(y),
         Sent(x)' = NoiseIn(q.lane) \cup NoiseIn(uplink[x]) \cup NoiseIn(downlink[y])
  PROVE  \A z \in Clients : Hushed(z)' /\ ToldFirst(z)'
<1> DEFINE f == Head(downlink[x])
<1>1. /\ y \in Clients /\ y # x /\ Other(y) = x /\ \A z \in Clients : z = x \/ z = y
      /\ downlink[x] \in Seq(Frames) /\ downlink[x] # <<>> /\ page[x] \in Page
      /\ drawn \in Nat
  BY Typed DEF Other, Receive, TypeOK
<1>2. /\ open' = open /\ present' = present /\ uplink' = uplink /\ open[x]
      /\ downlink'[x] = Tail(downlink[x]) /\ downlink'[y] = downlink[y]
  BY <1>1 DEF Receive, TypeOK
<1>3. f \in Frames
  BY <1>1, TailNoise
<1>4. f.kind \in Control => /\ q.lane = page[x].lane /\ Sent(x)' = Sent(x)
                            /\ q.chan = page[x].chan \/ q.chan = NoChannel
  <2>1. f.kind \in Control => /\ q.lane = page[x].lane
                              /\ q.chan = page[x].chan \/ q.chan = NoChannel
    BY <1>1, <1>3, ControlMoves DEF Control
  <2> QED
    BY <2>1 DEF Sent
<1> HIDE DEF f
<1>5. f.kind \in Control /\ Resting(x) => Resting(x)'
  BY <1>4, NoChannelFields DEF Resting
<1>6. Resting(y) => Resting(y)'
  BY DEF Resting
<1>7. Hushed(x)'
  BY <1>2 DEF Hushed
<1>8. Hushed(y)'
  <2> SUFFICES ASSUME ~open[y] PROVE Hushed(y)'
    BY <1>2 DEF Hushed
  <2>1. /\ \A z \in Clients : Resting(z) /\ page[z].lane = <<>> /\ uplink[z] = <<>>
        /\ downlink[y] = <<>> /\ ControlOnly(downlink[x])
        /\ present[y] => downlink[x] = <<>>
    BY <1>1, Hush
  <2>2. f.kind \in Control /\ ControlOnly(Tail(downlink[x])) /\ ~present[y]
    <3>1. 1 \in DOMAIN downlink[x] /\ f = downlink[x][1]
      BY <1>1 DEF f
    <3> QED
      BY <1>1, <2>1, <3>1, ControlQueues DEF ControlOnly
  <2>3. \A z \in Clients : Resting(z)' /\ page'[z].lane = <<>> /\ uplink'[z] = <<>>
    BY <1>1, <1>2, <1>4, <1>5, <1>6, <2>1, <2>2
  <2>4. downlink'[y] = <<>> /\ ControlOnly(downlink'[x]) /\ ~present'[y]
    BY <1>2, <2>1, <2>2
  <2> QED
    BY <1>1, <2>3, <2>4 DEF Hushed
<1>9. ToldFirst(x)'
  <2>1. /\ Told(downlink[x])
        /\ Tells(downlink[x]) => Resting(x) /\ Sent(x) = {}
    BY DEF Calm, ToldFirst
  <2>2. /\ Told(Tail(downlink[x]))
        /\ Tells(Tail(downlink[x])) => Tells(downlink[x]) /\ f.kind \in Control
    BY <1>1, <2>1, TailTold DEF f
  <2> QED
    BY <1>2, <1>4, <1>5, <2>1, <2>2 DEF ToldFirst
<1>10. ToldFirst(y)'
  <2>1. /\ Told(downlink[y])
        /\ Tells(downlink[y]) => Resting(y) /\ Sent(y) = {}
    BY <1>1 DEF Calm, ToldFirst
  <2> QED
    BY <1>2, <1>6, <2>1 DEF ToldFirst
<1> QED
  BY <1>1, <1>7, <1>8, <1>9, <1>10

\* A `gone' that arrives finds the page at rest.
LEMMA GoneRests ==
  ASSUME TypeOK, Calm, NEW x \in Clients, downlink[x] # <<>>, Head(downlink[x]).kind = "gone"
  PROVE  page[x].chan.phase # "handshaking"
<1>1. downlink[x] \in Seq(Frames) /\ Told(downlink[x])
  BY Typed DEF Calm, ToldFirst
<1>2. Tells(downlink[x])
  BY <1>1, TailTold
<1> QED
  BY <1>2 DEF Calm, ToldFirst, Resting

LEMMA InitiatorCalm ==
  ASSUME IInv, OInv, Calm, Receive("I")
  PROVE  Calm'
<1> DEFINE p == page["I"]
           f == Head(downlink["I"])
           k == drawn + 1
           a == page["I"].chan
           b == page["R"].chan
           FI == Sent("I")
           FR == Sent("R")
<1>1. /\ TypeOK /\ Sound(a, b, FI, FR, drawn) /\ Turns(a, b, FI, FR)
      /\ Tidy(a, b, FI, FR)
  BY DEF IInv, OInv, Calm
<1>2. /\ p \in Page /\ a \in Channel /\ b \in Channel /\ drawn \in Nat
      /\ Other("I") = "R" /\ Other("R") = "I"
  BY <1>1, Typed DEF TypeOK, Other
<1>3. f \in Frames /\ (f.kind = "noise" => f \in FR) /\ downlink["I"] # <<>>
  BY <1>1, <1>2, Arriving DEF Receive
<1>4. /\ f.kind = "noise" => f.step \in {0, 2}
      /\ f.kind = "noise" /\ f.step = 2
           => p.chan.phase = "handshaking" /\ p.chan.idx = 1 /\ p.chan.i = f.i
  BY <1>1, <1>3 DEF Sound, Roles, Tidy, Msg
<1>5. PICK q : q = onmessage("I", p, f, k)
  OBVIOUS
<1>6. q \in Page /\ InitiatorMoves(p, q, f, k)
  <2>1. q \in Page
    BY <1>5, ReceivedPage
  <2> QED
    BY <1>2, <1>3, <1>4, <1>5, <2>1, InitiatorOpens
<1>7. /\ TypeOK' /\ page'["I"] = q /\ page'["R"] = page["R"]
      /\ Sent("R")' \subseteq FR
      /\ Sent("I")' = NoiseIn(q.lane) \cup NoiseIn(uplink["I"]) \cup NoiseIn(downlink["R"])
  BY <1>1, <1>2, <1>5, <1>6, Receiving
<1>8. f.kind = "noise" => \A g \in Sent("R")' : Precedes(f, g)
  BY <1>1, <1>2, <1>7, ReceivedOrder
<1>9. q.lane = p.lane => Sent("I")' = FI
  BY <1>2, <1>7 DEF Sent
<1>10. PICK GI, GR : GI = Sent("I")' /\ GR = Sent("R")'
  OBVIOUS
<1>11. Tidy(q.chan, b, GI, GR)
  <2>0. GR \in SUBSET FR
    BY <1>7, <1>10
  <2>1. CASE q.chan = p.chan /\ q.lane = p.lane
    BY <1>1, <1>9, <1>10, <2>0, <2>1, TidyLoses
  <2>2. CASE f.kind = "gone" /\ q.chan = NoChannel /\ q.lane = p.lane
    <3>1. a.phase # "handshaking"
      BY <1>1, <1>3, <2>2, GoneRests
    <3>2. Tidy(NoChannel, b, FI, FR)
      BY <1>1, <3>1, TidyForgetsI
    <3> QED
      BY <1>9, <1>10, <2>0, <2>2, <3>2, TidyLoses
  <2>3. CASE Starts(p, q, k) /\ p.chan.phase # "handshaking"
    <3>1. q.chan.phase = "handshaking" /\ q.chan.idx = 1 /\ q.chan.i = k
      BY <2>3, ChanFields DEF Starts
    <3>2. Tidy(q.chan, b, FI \cup {Noise(1, k, 0)}, FR)
      BY <1>1, <2>3, <3>1, StartingTidy
    <3>3. Noise(1, k, 0) \in Frames
      BY <1>2, NoiseIsFrame
    <3>4. GI \in SUBSET (FI \cup {Noise(1, k, 0)})
      BY <1>1, <1>2, <1>6, <1>7, <1>10, <2>3, <3>3, AppendedSent DEF Starts
    <3> QED
      BY <2>0, <3>2, <3>4, TidyLoses
  <2>4. CASE Confirms2(p, q, f)
    <3>1. /\ f \in FR /\ f.step = 2 /\ a.i = f.i /\ f.i \in Nat /\ f.r \in Nat
          /\ \A g \in GR : Precedes(f, g)
      BY <1>3, <1>8, <1>10, <2>4 DEF Confirms2, Frames
    <3>2. PICK e \in Channel : e = q.chan
      BY <1>6, PageFields
    <3>3. e.i = f.i /\ e.phase = "ready"
      BY <2>4, <3>2, ChanFields DEF Confirms2
    <3>4. Msg(GR, 2) = {}
      <4>1. Sound(a, b, FI, FR, drawn) /\ Turns(a, b, FI, FR)
        BY <1>1
      <4> HIDE DEF a, b, f, FI, FR, p, k
      <4>2. f \in FR /\ f.step = 2 /\ a.i = f.i /\ \A g \in GR : Precedes(f, g)
        BY <3>1
      <4> QED
        BY <1>2, <2>0, <4>1, <4>2, LastMessage2
    <3>5. Tidy(q.chan, b, FI \cup {Noise(3, f.i, f.r)}, GR)
      BY <1>1, <3>1, <3>2, <3>3, <3>4, ConfirmingTidy
    <3>6. Noise(3, f.i, f.r) \in Frames
      BY <3>1, NoiseIsFrame
    <3>7. GI \in SUBSET (FI \cup {Noise(3, f.i, f.r)})
      BY <1>1, <1>2, <1>6, <1>7, <1>10, <2>4, <3>6, AppendedSent DEF Confirms2
    <3> QED
      BY <3>5, <3>7, TidyLoses
  <2> QED
    BY <1>6, <2>1, <2>2, <2>3, <2>4 DEF InitiatorMoves
<1>12. \A z \in Clients : Hushed(z)' /\ ToldFirst(z)'
  BY <1>1, <1>2, <1>5, <1>6, <1>7, ReceiveHush
<1> QED
  BY <1>7, <1>10, <1>11, <1>12 DEF Calm

LEMMA ResponderCalm ==
  ASSUME IInv, OInv, Calm, Receive("R")
  PROVE  Calm'
<1> DEFINE p == page["R"]
           f == Head(downlink["R"])
           k == drawn + 1
           a == page["I"].chan
           b == page["R"].chan
           FI == Sent("I")
           FR == Sent("R")
<1>1. /\ TypeOK /\ Sound(a, b, FI, FR, drawn) /\ Turns(a, b, FI, FR)
      /\ Tidy(a, b, FI, FR)
  BY DEF IInv, OInv, Calm
<1>2. /\ p \in Page /\ a \in Channel /\ b \in Channel /\ drawn \in Nat
      /\ Other("I") = "R" /\ Other("R") = "I"
  BY <1>1, Typed DEF TypeOK, Other
<1>3. f \in Frames /\ (f.kind = "noise" => f \in FI) /\ downlink["R"] # <<>>
  BY <1>1, <1>2, Arriving DEF Receive
<1>4. /\ f.kind = "noise" => f.step \in {1, 3}
      /\ f.kind = "noise" /\ f.step = 3
           => p.chan.phase = "handshaking" /\ p.chan.idx = 2 /\ p.chan.i = f.i /\ p.chan.r = f.r
  BY <1>1, <1>3 DEF Sound, Roles, Tidy, Msg
<1>5. PICK q : q = onmessage("R", p, f, k)
  OBVIOUS
<1>6. q \in Page /\ ResponderMoves(p, q, f, k)
  <2>1. q \in Page
    BY <1>5, ReceivedPage
  <2> QED
    BY <1>2, <1>3, <1>4, <1>5, <2>1, ResponderOpens
<1>7. /\ TypeOK' /\ page'["R"] = q /\ page'["I"] = page["I"]
      /\ Sent("I")' \subseteq FI
      /\ Sent("R")' = NoiseIn(q.lane) \cup NoiseIn(uplink["R"]) \cup NoiseIn(downlink["I"])
  BY <1>1, <1>2, <1>5, <1>6, Receiving
<1>8. f.kind = "noise" => \A g \in Sent("I")' : Precedes(f, g)
  BY <1>1, <1>2, <1>7, ReceivedOrder
<1>9. q.lane = p.lane => Sent("R")' = FR
  BY <1>2, <1>7 DEF Sent
<1>10. PICK GI, GR : GI = Sent("I")' /\ GR = Sent("R")'
  OBVIOUS
<1>11. Tidy(a, q.chan, GI, GR)
  <2>0. GI \in SUBSET FI
    BY <1>7, <1>10
  <2>1. CASE q.chan = p.chan /\ q.lane = p.lane
    BY <1>1, <1>9, <1>10, <2>0, <2>1, TidyLoses
  <2>2. CASE f.kind = "gone" /\ q.chan = NoChannel /\ q.lane = p.lane
    <3>1. b.phase # "handshaking"
      BY <1>1, <1>3, <2>2, GoneRests
    <3>2. Tidy(a, NoChannel, FI, FR)
      BY <1>1, <3>1, TidyForgetsR
    <3> QED
      BY <1>9, <1>10, <2>0, <2>2, <3>2, TidyLoses
  <2>3. CASE Asks(p, q) /\ p.chan.phase = "none"
    <3>1. Tidy(a, newChannel, FI, FR \cup {Noise(0, 0, 0)})
      BY <1>1, <2>3, AskingTidy
    <3>2. Noise(0, 0, 0) \in Frames
      BY NoiseIsFrame
    <3>3. GR \in SUBSET (FR \cup {Noise(0, 0, 0)})
      BY <1>1, <1>2, <1>6, <1>7, <1>10, <2>3, <3>2, AppendedSent DEF Asks
    <3> QED
      BY <2>0, <2>3, <3>1, <3>3, TidyLoses DEF Asks
  <2>4. CASE Answers(p, q, f, k)
    <3>1. f \in FI /\ f.step = 1 /\ f.i \in Nat /\ \A g \in GI : Precedes(f, g)
      BY <1>3, <1>8, <1>10, <2>4 DEF Answers, Frames
    <3>2. /\ q.chan.phase = "handshaking" /\ q.chan.idx = 2
          /\ q.chan.i = f.i /\ q.chan.r = k
      BY <2>4, ChanFields DEF Answers
    <3>3. Tidy(a, q.chan, GI, FR \cup {Noise(2, f.i, k)})
      BY <1>1, <1>2, <2>0, <3>1, <3>2, AnsweringTidy
    <3>4. Noise(2, f.i, k) \in Frames
      BY <1>2, <3>1, NoiseIsFrame
    <3>5. GR \in SUBSET (FR \cup {Noise(2, f.i, k)})
      BY <1>1, <1>2, <1>6, <1>7, <1>10, <2>4, <3>4, AppendedSent DEF Answers
    <3> QED
      BY <3>3, <3>5, TidyLoses
  <2>5. CASE Completes(p, q, f)
    <3>1. f \in FI /\ f.step = 3 /\ b.i = f.i /\ \A g \in GI : Precedes(f, g)
      BY <1>3, <1>8, <1>10, <2>5 DEF Completes
    <3>2. PICK e \in Channel : e = q.chan
      BY <1>6, PageFields
    <3>3. e.i = f.i /\ e.phase = "ready"
      BY <2>5, <3>2, ChanFields DEF Completes
    <3>4. Msg(GI, 3) = {} /\ Msg(FR, 2) = {}
      <4>1. Sound(a, b, FI, FR, drawn) /\ Turns(a, b, FI, FR)
        BY <1>1
      <4> HIDE DEF a, b, f, FI, FR, p, k
      <4>2. f \in FI /\ f.step = 3 /\ b.i = f.i /\ \A g \in GI : Precedes(f, g)
        BY <3>1
      <4> QED
        BY <1>2, <2>0, <4>1, <4>2, LastMessage3
    <3>5. Tidy(a, q.chan, GI, FR)
      BY <1>1, <2>0, <3>2, <3>3, <3>4, CompletingTidy
    <3> QED
      BY <1>9, <1>10, <2>5, <3>5 DEF Completes
  <2> QED
    BY <1>6, <2>1, <2>2, <2>3, <2>4, <2>5 DEF ResponderMoves
<1>12. \A z \in Clients : Hushed(z)' /\ ToldFirst(z)'
  BY <1>1, <1>2, <1>5, <1>6, <1>7, ReceiveHush
<1> QED
  BY <1>7, <1>10, <1>11, <1>12 DEF Calm

LEMMA StartCalm == Init => CInv
<1> SUFFICES ASSUME Init PROVE CInv
  OBVIOUS
<1>1. FreshPage.chan = NoChannel /\ FreshPage.lane = <<>>
  BY DEF FreshPage
<1>2. \A z \in Clients : /\ page[z].chan = NoChannel /\ page[z].lane = <<>>
                         /\ uplink[z] = <<>> /\ downlink[z] = <<>>
  BY <1>1 DEF Init
<1>3. \A z \in Clients : Resting(z) /\ Sent(z) = {}
  BY <1>2, NoChannelFields, EmptyNoise DEF Resting, Sent, Other
<1>4. Tidy(NoChannel, NoChannel, {}, {})
  BY NoChannelFields DEF Tidy, Msg
<1>5. \A z \in Clients : Hushed(z) /\ ToldFirst(z)
  BY <1>2, <1>3, EmptyTold DEF Hushed, ToldFirst, Other
<1> QED
  BY <1>2, <1>3, <1>4, <1>5, EmptyOnlyNoise DEF CInv, Calm

LEMMA CalmInvariance == IInv /\ OInv /\ CInv /\ [Next]_vars => CInv'
<1> SUFFICES ASSUME IInv, OInv, CInv, [Next]_vars PROVE CInv'
  OBVIOUS
<1>1. TypeOK /\ TypeOK'
  BY Invariance DEF IInv
<1>2. \A x \in Clients : OnlyNoise(page'[x].lane) /\ OnlyNoise(uplink'[x])
  BY SpokenStep DEF CInv
<1>3. ASSUME clean' PROVE Calm'
  <2>0. clean /\ Calm
    BY <1>3 DEF Next, vars, CInv, Join, RelayClose, Relay, Pump, Receive, Drop, Reload, Throttle,
                Fault
  <2>1. CASE UNCHANGED vars
    BY <2>0, <2>1 DEF Calm, Hushed, ToldFirst, Resting, Sent, vars
  <2>2. ASSUME NEW x \in Clients, Join(x) PROVE Calm'
    <3>1. present[Other(x)] => open[Other(x)]
      BY <1>3, <2>2 DEF Join
    <3> QED
      BY <1>1, <2>0, <2>2, <3>1, JoinCalm
  <2>3. ASSUME NEW x \in Clients, RelayClose(x) PROVE Calm'
    BY <1>1, <2>0, <2>3, RelayCloseCalm
  <2>4. ASSUME NEW x \in Clients, Relay(x) PROVE Calm'
    <3>1. \A z \in Clients : Sent(z)' \subseteq Sent(z)
      BY <1>1, <2>4, RelaySent
    <3> QED
      BY <1>1, <2>0, <2>4, <3>1, RelayCalm DEF CInv
  <2>5. ASSUME NEW x \in Clients, Pump(x) PROVE Calm'
    <3>1. \A z \in Clients : Sent(z)' \subseteq Sent(z)
      BY <1>1, <2>5, PumpSent
    <3> QED
      BY <1>1, <2>0, <2>5, <3>1, PumpCalm
  <2>6. ASSUME NEW x \in Clients, Receive(x) PROVE Calm'
    BY <2>0, <2>6, InitiatorCalm, ResponderCalm
  <2>7. ASSUME NEW x \in Clients, Drop(x) \/ Reload(x) \/ Throttle(x) PROVE Calm'
    <3>1. AtRest
      BY <1>3, <2>7 DEF Drop, Reload, Throttle, Fault
    <3> QED
      BY <1>1, <2>7, <3>1, FaultCalm
  <2> QED
    BY <2>1, <2>2, <2>3, <2>4, <2>5, <2>6, <2>7 DEF Next
<1> QED
  BY <1>2, <1>3 DEF CInv

\* As long as every fault finds the pair at rest, no handshake fails
\* (peer-channels.ts onSignal's catch is not reached), for any number of faults.
THEOREM NoneFails == Spec => []NoFailedHandshake
<1>1. CInv => NoFailedHandshake
  BY DEF CInv, Calm, Tidy, NoFailedHandshake
<1> QED
  BY Start, StartOrder, StartCalm, OrderInvariance, CalmInvariance, <1>1, PTL DEF Spec

=============================================================================
