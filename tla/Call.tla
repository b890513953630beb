-------------------------------- MODULE Call --------------------------------
(* A video call between the two pages of a 1-on-1 session: the invite and  *)
(* accept protocol and the media prompts of useCall, and the negotiation   *)
(* of CallConnection, in which both sides make an offer and one yields.    *)
(* Signals are encrypted frames the relay passes on in order; a signal for *)
(* a page that is away is lost.  Candidates are left out: a candidate that *)
(* cannot be added never fails a call.                                     *)
EXTENDS Integers, Sequences, FiniteSets

CONSTANTS
    Impolite,   \* the page with the smaller id (isOfferer)
    Polite,
    MaxCalls,   \* bound: calls started
    MaxFaults   \* bound: signals lost, departures and connection failures

ASSUME PagesDiffer == Impolite # Polite
ASSUME BoundsAreNaturals == MaxCalls \in Nat /\ MaxFaults \in Nat

VARIABLES
    present,   \* the page is open and joined
    inbox,     \* signals and roster changes on their way to the page
    state,     \* CallState
    remote,    \* remotePeerRef holds the other page
    eligible,  \* the hook's peerId option is the other page, not null
    prompt,    \* the media permission prompt that is open, or "none"
    captures,  \* camera streams whose tracks run
    local,     \* localStreamRef holds one of them
    conn,      \* the CallConnection of connRef, NoConn when null
    conns,     \* connections built so far, to number them
    calls,     \* calls started so far (bounded by MaxCalls)
    faults     \* faults so far (bounded by MaxFaults)

hook == <<state, remote, captures, local, conn>>
vars == <<present, inbox, hook, eligible, prompt, conns, calls, faults>>

Pages == {Impolite, Polite}
Other(p) == IF p = Impolite THEN Polite ELSE Impolite
CallStates == {"idle", "calling", "ringing", "connecting", "active"}
Signals == {"invite", "accept", "decline", "busy", "cancel", "end"}

\* need: a negotiationneeded event is queued; making: setLocalDescription is
\* running; link: the remote connection whose description was applied; timer:
\* the connect timer is armed, until the state leaves 'connecting'.
NoConn == [id |-> 0, sig |-> "stable", need |-> FALSE, making |-> FALSE,
           link |-> 0, timer |-> FALSE]

Plain(s) == [call |-> s, from |-> 0, to |-> 0]

\* What p's handler sends: a sequence of signals to the other page.
Sent(p, box, signals) ==
    IF present[Other(p)] THEN [box EXCEPT ![Other(p)] = @ \o signals] ELSE box
Send(p, s) == inbox' = Sent(p, inbox, <<s>>)
Read(p) == [inbox EXCEPT ![p] = Tail(@)]

Bug_teardown(p) ==
    /\ state' = [state EXCEPT ![p] = "idle"]
    /\ remote' = [remote EXCEPT ![p] = FALSE]
    /\ captures' = captures
    /\ local' = [local EXCEPT ![p] = FALSE]
    /\ conn' = [conn EXCEPT ![p] = NoConn]
\* Closes the connection, stops the tracks and clears every ref.
teardown(p) ==
    /\ state' = [state EXCEPT ![p] = "idle"]
    /\ remote' = [remote EXCEPT ![p] = FALSE]
    /\ captures' = [captures EXCEPT ![p] = IF local[p] THEN @ - 1 ELSE @]
    /\ local' = [local EXCEPT ![p] = FALSE]
    /\ conn' = [conn EXCEPT ![p] = NoConn]

Bug_buildConnection(p) ==
    /\ state' = [state EXCEPT ![p] = "connecting"]
    /\ conns' = conns + 1
    /\ conn' = [conn EXCEPT ![p] = [NoConn EXCEPT !.id = conns + 1, !.need = TRUE]]
\* A new CallConnection: adding the local tracks queues negotiationneeded.
buildConnection(p) ==
    /\ state' = [state EXCEPT ![p] = "connecting"]
    /\ conns' = conns + 1
    /\ conn' = [conn EXCEPT ![p] = [NoConn EXCEPT !.id = conns + 1, !.need = TRUE,
                                                  !.timer = TRUE]]

(* --------------------------- what the user does -------------------------- *)

\* Bound: a page has one permission prompt open at a time.
Ask(p, why) == /\ prompt[p] = "none"
               /\ prompt' = [prompt EXCEPT ![p] = why]

\* The state stays idle until the media promise resolves.
startCall(p) ==
    /\ present[p] /\ eligible[p] /\ state[p] = "idle"
    /\ calls < MaxCalls
    /\ Ask(p, "start")
    /\ calls' = calls + 1
    /\ UNCHANGED <<present, inbox, hook, eligible, conns, faults>>

acceptCall(p) ==
    /\ remote[p] /\ state[p] = "ringing"
    /\ Ask(p, "accept")
    /\ UNCHANGED <<present, inbox, hook, eligible, conns, calls, faults>>

Answered(p, why) == /\ prompt[p] = why
                    /\ prompt' = [prompt EXCEPT ![p] = "none"]

acquireMedia(p) == /\ captures' = [captures EXCEPT ![p] = @ + 1]
                   /\ local' = [local EXCEPT ![p] = TRUE]

\* The promise of startCall resolves, whatever has happened meanwhile.
StartGranted(p) ==
    /\ Answered(p, "start")
    /\ acquireMedia(p)
    /\ remote' = [remote EXCEPT ![p] = TRUE]
    /\ state' = [state EXCEPT ![p] = "calling"]
    /\ Send(p, Plain("invite"))
    /\ UNCHANGED <<present, eligible, conn, conns, calls, faults>>

AcceptGranted(p) ==
    /\ Answered(p, "accept")
    /\ acquireMedia(p)
    /\ Send(p, Plain("accept"))
    /\ buildConnection(p)
    /\ UNCHANGED <<present, remote, eligible, calls, faults>>

Denied(p) ==
    /\ \/ Answered(p, "start") /\ UNCHANGED inbox
       \/ Answered(p, "accept") /\ Send(p, Plain("decline"))
    /\ teardown(p)
    /\ UNCHANGED <<present, eligible, conns, calls, faults>>

declineCall(p) ==
    /\ state[p] = "ringing"
    /\ Send(p, Plain("decline"))
    /\ teardown(p)
    /\ UNCHANGED <<present, eligible, prompt, conns, calls, faults>>

endCall(p) ==
    /\ state[p] \in {"calling", "connecting", "active"}
    /\ IF remote[p] THEN Send(p, Plain(IF state[p] = "calling" THEN "cancel" ELSE "end"))
       ELSE UNCHANGED inbox
    /\ teardown(p)
    /\ UNCHANGED <<present, eligible, prompt, conns, calls, faults>>

(* ------------------------- signals of the ring protocol ------------------ *)

Receives(p, s) == /\ inbox[p] # <<>>
                  /\ Head(inbox[p]).call = s

ReceivesInvite(p) ==
    /\ Receives(p, "invite")
    /\ IF state[p] # "idle"
       THEN /\ inbox' = Sent(p, Read(p), <<Plain("busy")>>)
            /\ UNCHANGED <<state, remote>>
       ELSE /\ inbox' = Read(p)
            /\ remote' = [remote EXCEPT ![p] = TRUE]
            /\ state' = [state EXCEPT ![p] = "ringing"]
    /\ UNCHANGED <<present, eligible, prompt, captures, local, conn, conns, calls, faults>>

ReceivesAccept(p) ==
    /\ Receives(p, "accept")
    /\ inbox' = Read(p)
    /\ IF remote[p] /\ state[p] = "calling" /\ local[p]
       THEN buildConnection(p) ELSE UNCHANGED <<state, conn, conns>>
    /\ UNCHANGED <<present, remote, eligible, prompt, captures, local, calls, faults>>

\* Signals carry no call: one of an earlier call ends the present one.
ReceivesEnd(p) ==
    /\ \E s \in {"decline", "busy", "cancel", "end"} : Receives(p, s)
    /\ inbox' = Read(p)
    /\ IF remote[p] THEN teardown(p) ELSE UNCHANGED hook
    /\ UNCHANGED <<present, eligible, prompt, conns, calls, faults>>

(* ------------------------------ negotiation ------------------------------ *)

\* negotiationneeded fires once the connection is stable.
NegotiationNeeded(p) ==
    /\ conn[p].need /\ conn[p].sig = "stable"
    /\ conn' = [conn EXCEPT ![p].need = FALSE, ![p].making = TRUE]
    /\ UNCHANGED <<present, inbox, state, remote, captures, local, eligible, prompt,
                   conns, calls, faults>>

Sdp(kind, p, c) == [call |-> kind, from |-> c.id, to |-> c.link]

SendsOffer(p) ==
    /\ conn[p].making
    /\ conn' = [conn EXCEPT ![p].making = FALSE, ![p].sig = "offered"]
    /\ Send(p, Sdp("offer", p, conn[p]))
    /\ UNCHANGED <<present, state, remote, captures, local, eligible, prompt,
                   conns, calls, faults>>

Bug_polite(p) == FALSE
polite(p) == p = Polite

\* The connection a description is for: an early one makes the caller build it.
Materializes(p) == conn[p] = NoConn /\ state[p] = "calling" /\ local[p]
Collides(c) == c.making \/ c.sig # "stable"

\* Applying the offer rolls an own offer back; the answer carries the local
\* tracks, so negotiation is no longer needed.
Takes(p, c, n) ==
    /\ conn' = [conn EXCEPT ![p] = [c EXCEPT !.sig = "stable", !.link = n, !.need = FALSE]]
    /\ inbox' = Sent(p, Read(p), <<Sdp("answer", p, [c EXCEPT !.link = n])>>)

ReceivesOffer(p) ==
    /\ Receives(p, "offer")
    /\ LET n == Head(inbox[p]).from
           c == [NoConn EXCEPT !.id = conns + 1, !.need = TRUE, !.timer = TRUE] IN
       IF remote[p] /\ Materializes(p)
       THEN /\ Takes(p, c, n)
            /\ state' = [state EXCEPT ![p] = "connecting"]
            /\ conns' = conns + 1
       ELSE /\ IF ~remote[p] \/ conn[p] = NoConn \/ (~polite(p) /\ Collides(conn[p]))
               THEN inbox' = Read(p) /\ UNCHANGED conn
               ELSE ~conn[p].making /\ Takes(p, conn[p], n)
            /\ UNCHANGED <<state, conns>>
    /\ UNCHANGED <<present, remote, captures, local, eligible, prompt, calls, faults>>

Bug_failed(p) == IF state[p] = "active" THEN UNCHANGED hook ELSE teardown(p)
\* setState('failed') reaches the hook's onState, which tears the call down.
failed(p) == teardown(p)

\* An answer that is not awaited is rejected and fails the call, also on a
\* connection built for it; one to an earlier offer never connects.
ReceivesAnswer(p) ==
    /\ Receives(p, "answer")
    /\ inbox' = Read(p)
    /\ LET f == Head(inbox[p])
           c == conn[p] IN
       IF ~remote[p] \/ (c = NoConn /\ ~Materializes(p)) THEN UNCHANGED hook
       ELSE IF c.sig # "offered" THEN failed(p)
       ELSE /\ conn' = [conn EXCEPT ![p].sig = "stable",
                                    ![p].link = IF f.to = c.id THEN f.from ELSE 0]
            /\ UNCHANGED <<state, remote, captures, local>>
    /\ UNCHANGED <<present, eligible, prompt, conns, calls, faults>>

Linked(p) == LET c == conn[p]  d == conn[Other(p)] IN
    c.id # 0 /\ c.link = d.id /\ d.link = c.id

\* connectionState 'connected': the two descriptions match and ICE found a path.
Connected(p) ==
    /\ Linked(p) /\ state[p] = "connecting"
    /\ state' = [state EXCEPT ![p] = "active"]
    /\ conn' = [conn EXCEPT ![p].timer = FALSE]
    /\ UNCHANGED <<present, inbox, remote, captures, local, eligible, prompt,
                   conns, calls, faults>>

ConnectTimeout(p) ==
    /\ conn[p].timer
    /\ failed(p)
    /\ UNCHANGED <<present, inbox, eligible, prompt, conns, calls, faults>>

Fault == /\ faults < MaxFaults
         /\ faults' = faults + 1

\* connectionState 'failed': the far connection is gone, or the network is.
PathFails(p) ==
    /\ state[p] = "active"
    /\ IF Linked(p) THEN Fault ELSE UNCHANGED faults
    /\ failed(p)
    /\ UNCHANGED <<present, inbox, eligible, prompt, conns, calls>>

(* --------------------- departures and lost signals ----------------------- *)

\* The page is closed or reloaded: the hook unmounts without a signal.
Leaves(p) ==
    /\ Fault
    /\ present[p]
    /\ present' = [present EXCEPT ![p] = FALSE]
    /\ eligible' = [eligible EXCEPT ![p] = FALSE]
    /\ prompt' = [prompt EXCEPT ![p] = "none"]
    /\ teardown(p)
    /\ inbox' = Sent(p, [inbox EXCEPT ![p] = <<>>], <<Plain("left")>>)
    /\ UNCHANGED <<conns, calls>>

Returns(p) ==
    /\ ~present[p]
    /\ present' = [present EXCEPT ![p] = TRUE]
    /\ inbox' = Sent(p, [inbox EXCEPT ![p] = IF present[Other(p)] THEN <<Plain("here")>>
                                             ELSE <<>>], <<Plain("here")>>)
    /\ UNCHANGED <<hook, eligible, prompt, conns, calls, faults>>

\* The roster changes the hook's peerId, and its effect ends the call.
PeerLeft(p) ==
    /\ Receives(p, "left")
    /\ inbox' = Read(p)
    /\ eligible' = [eligible EXCEPT ![p] = FALSE]
    /\ IF remote[p] /\ state[p] # "idle" THEN teardown(p) ELSE UNCHANGED hook
    /\ UNCHANGED <<present, prompt, conns, calls, faults>>

PeerHere(p) ==
    /\ Receives(p, "here")
    /\ inbox' = Read(p)
    /\ eligible' = [eligible EXCEPT ![p] = TRUE]
    /\ UNCHANGED <<present, hook, prompt, conns, calls, faults>>

SignalLost(p) ==
    /\ Fault
    /\ inbox[p] # <<>> /\ Head(inbox[p]).call \notin {"left", "here"}
    /\ inbox' = Read(p)
    /\ UNCHANGED <<present, hook, eligible, prompt, conns, calls>>

(* ------------------------------ specification ---------------------------- *)

Init == /\ present = [p \in Pages |-> TRUE]
        /\ inbox = [p \in Pages |-> <<>>]
        /\ state = [p \in Pages |-> "idle"]
        /\ remote = [p \in Pages |-> FALSE]
        /\ eligible = [p \in Pages |-> TRUE]
        /\ prompt = [p \in Pages |-> "none"]
        /\ captures = [p \in Pages |-> 0]
        /\ local = [p \in Pages |-> FALSE]
        /\ conn = [p \in Pages |-> NoConn]
        /\ conns = 0 /\ calls = 0 /\ faults = 0

User(p) == \/ startCall(p) \/ acceptCall(p) \/ StartGranted(p) \/ AcceptGranted(p)
           \/ Denied(p) \/ declineCall(p) \/ endCall(p)

\* What the page does as soon as it can.
Page(p) == \/ ReceivesInvite(p) \/ ReceivesAccept(p) \/ ReceivesEnd(p)
           \/ ReceivesOffer(p) \/ ReceivesAnswer(p) \/ PeerLeft(p) \/ PeerHere(p)
           \/ NegotiationNeeded(p) \/ SendsOffer(p)

Next == \E p \in Pages : \/ User(p) \/ Page(p)
                         \/ Connected(p) \/ ConnectTimeout(p) \/ PathFails(p)
                         \/ Leaves(p) \/ Returns(p) \/ SignalLost(p)

\* Callbacks that are ready run, an armed timer fires, and a connection whose
\* far end is gone is noticed (ICE consent expires).  The user owes nothing.
Fairness == \A p \in Pages : /\ WF_vars(Page(p))
                             /\ WF_vars(ConnectTimeout(p))
                             /\ WF_vars(PathFails(p) /\ ~Linked(p))

Spec == Init /\ [][Next]_vars /\ Fairness

(* ------------------------------- properties ------------------------------ *)

\* Types of the variables (the refs of useCall and CallConnection).
TypeOK == /\ present \in [Pages -> BOOLEAN]
          /\ inbox \in [Pages -> Seq([call : Signals \cup {"offer", "answer", "left", "here"},
                                      from : Nat, to : Nat])]
          /\ state \in [Pages -> CallStates]
          /\ remote \in [Pages -> BOOLEAN] /\ eligible \in [Pages -> BOOLEAN]
          /\ prompt \in [Pages -> {"none", "start", "accept"}]
          /\ captures \in [Pages -> Nat] /\ local \in [Pages -> BOOLEAN]
          /\ conn \in [Pages -> [id : Nat, sig : {"stable", "offered"}, need : BOOLEAN,
                                 making : BOOLEAN, link : Nat, timer : BOOLEAN]]
          /\ conns \in Nat /\ calls \in 0..MaxCalls /\ faults \in 0..MaxFaults

\* The camera runs only during a call: an idle page captures nothing, however
\* the prompt, the signals and the connection's callbacks were ordered.
CameraOff == \A p \in Pages : state[p] \in {"idle", "ringing"} => captures[p] = 0

\* Both sides add their tracks at once, so both offer; without a lost signal
\* one offer yields, and once everything is read the two connections have
\* applied each other's descriptions (polite, ignoreOffer, signalingState).
Quiet == \A p \in Pages : /\ inbox[p] = <<>> /\ conn[p] # NoConn
                          /\ ~conn[p].need /\ ~conn[p].making
GlareResolves == faults = 0 /\ calls = 1 /\ Quiet => \A p \in Pages : Linked(p)

\* A call that cannot be connected ends: 'connecting' is left whatever was lost.
ConnectingEnds == \A p \in Pages : state[p] = "connecting" ~> state[p] # "connecting"

\* A call that is up on one side only ends there too, though the signal that
\* ended it was lost or its page simply vanished.
OneSidedCallEnds == \A p \in Pages :
    state[p] = "active" /\ ~Linked(p) ~> state[p] # "active"

\* What the comment says, and the code does not do (README, "Disagreements"): the
\* camera may be granted after the peer has left.
\* "End any in-flight call the moment the eligible peer changes or leaves so the
\* UI never shows a call to someone who is gone" (useCall.ts:227-228).
NeverCallsTheGone == \A p \in Pages : state[p] # "idle" => eligible[p]
=============================================================================
