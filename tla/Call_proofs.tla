---------------------------- MODULE Call_proofs ----------------------------
(* Call.tla for any number of calls and faults: no camera runs on a page    *)
(* that is in no call, and the offers of the first call, if nothing fails,  *)
(* end in connections that have each other's descriptions.                  *)
EXTENDS Call, SequenceTheorems, TLAPS

(* -------------------------- the inductive invariant ---------------------- *)

Frames == [call : Signals \cup {"offer", "answer", "left", "here"}, from : Nat, to : Nat]
Conns == [id : Nat, sig : {"stable", "offered"}, need : BOOLEAN,
          making : BOOLEAN, link : Nat, timer : BOOLEAN]

\* A page captures what its hook knows of and nothing else; the permission prompt
\* is up only before a call, and before a call the hook holds no stream.  So a
\* grant that comes late never takes the place of a stream that runs.
CapturesKnown == \A p \in Pages : captures[p] = IF local[p] THEN 1 ELSE 0
PromptBeforeCall == \A p \in Pages : prompt[p] # "none" => state[p] \in {"idle", "ringing"}
NoStreamBeforeCall == \A p \in Pages : state[p] \in {"idle", "ringing"} => ~local[p]

CallInv == TypeOK /\ CapturesKnown /\ PromptBeforeCall /\ NoStreamBeforeCall

(* --------------------------------- types --------------------------------- *)

Prompts == {"none", "start", "accept"}

Boxes == present \in [Pages -> BOOLEAN] /\ inbox \in [Pages -> Seq(Frames)]
Hooks == /\ state \in [Pages -> CallStates]
         /\ remote \in [Pages -> BOOLEAN] /\ eligible \in [Pages -> BOOLEAN]
         /\ prompt \in [Pages -> Prompts]
         /\ captures \in [Pages -> Nat] /\ local \in [Pages -> BOOLEAN]
Wires == conn \in [Pages -> Conns] /\ conns \in Nat

LEMMA TypeParts ==
  TypeOK <=> Boxes /\ Hooks /\ Wires /\ calls \in 0..MaxCalls /\ faults \in 0..MaxFaults
BY DEF TypeOK, Boxes, Hooks, Wires, Frames, Conns, Prompts

Safe == CapturesKnown /\ PromptBeforeCall /\ NoStreamBeforeCall

LEMMA PageFacts == /\ \A p \in Pages : Other(p) \in Pages /\ Other(p) # p
                   /\ Impolite \in Pages /\ Polite \in Pages
BY PagesDiffer DEF Pages, Other

LEMMA PlainType == \A s \in Signals \cup {"left", "here"} : Plain(s) \in Frames
BY DEF Plain, Frames

LEMMA NoConnType == NoConn \in Conns
BY DEF NoConn, Conns

LEMMA SdpType ==
  ASSUME NEW kind \in {"offer", "answer"}, NEW p, NEW c \in Conns
  PROVE  Sdp(kind, p, c) \in Frames
BY DEF Sdp, Frames, Conns

LEMMA SentType ==
  ASSUME NEW p \in Pages, NEW box \in [Pages -> Seq(Frames)], NEW f \in Frames
  PROVE  Sent(p, box, <<f>>) \in [Pages -> Seq(Frames)]
<1>1. Other(p) \in Pages
  BY PageFacts
<1>2. <<f>> \in Seq(Frames)
  OBVIOUS
<1>3. PICK t \in Seq(Frames) : t = <<f>>
  BY <1>2
<1>4. box[Other(p)] \in Seq(Frames)
  BY <1>1
<1>5. box[Other(p)] \o t \in Seq(Frames)
  BY <1>4, ConcatProperties
<1> QED BY <1>3, <1>5 DEF Sent

LEMMA ReadType ==
  ASSUME Boxes, NEW p \in Pages, NEW kind, Receives(p, kind)
  PROVE  Read(p) \in [Pages -> Seq(Frames)] /\ Head(inbox[p]) \in Frames
<1>1. inbox[p] \in Seq(Frames) /\ inbox[p] # <<>>
  BY DEF Boxes, Receives
<1>2. Tail(inbox[p]) \in Seq(Frames) /\ Head(inbox[p]) \in Frames
  BY <1>1, HeadTailProperties
<1> QED BY <1>2 DEF Read, Boxes

(* ------------------------- a change of one page's hook -------------------- *)

LEMMA HookChange ==
  ASSUME Hooks, Safe, NEW p \in Pages,
         NEW s \in CallStates, NEW r \in BOOLEAN, NEW c \in Nat, NEW l \in BOOLEAN,
         NEW a \in Prompts,
         state' = [state EXCEPT ![p] = s], remote' = [remote EXCEPT ![p] = r],
         captures' = [captures EXCEPT ![p] = c], local' = [local EXCEPT ![p] = l],
         prompt' = [prompt EXCEPT ![p] = a], eligible' \in [Pages -> BOOLEAN],
         c = IF l THEN 1 ELSE 0,
         a # "none" => s \in {"idle", "ringing"}, s \in {"idle", "ringing"} => ~l
  PROVE  Hooks' /\ Safe'
<1>1. Hooks'
  BY DEF Hooks
<1>2. /\ state'[p] = s /\ captures'[p] = c /\ local'[p] = l /\ prompt'[p] = a
      /\ \A q \in Pages : q # p => /\ state'[q] = state[q] /\ captures'[q] = captures[q]
                                   /\ local'[q] = local[q] /\ prompt'[q] = prompt[q]
  BY DEF Hooks
<1>3. ASSUME NEW q \in Pages
      PROVE  /\ captures'[q] = IF local'[q] THEN 1 ELSE 0
             /\ prompt'[q] # "none" => state'[q] \in {"idle", "ringing"}
             /\ state'[q] \in {"idle", "ringing"} => ~local'[q]
  <2>1. CASE q = p
    BY <2>1, <1>2
  <2>2. CASE q # p
    BY <2>2, <1>2 DEF Safe, CapturesKnown, PromptBeforeCall, NoStreamBeforeCall
  <2> QED BY <2>1, <2>2
<1>4. CapturesKnown'
  BY <1>3 DEF CapturesKnown
<1>5. PromptBeforeCall' /\ NoStreamBeforeCall'
  BY <1>3 DEF PromptBeforeCall, NoStreamBeforeCall
<1> QED BY <1>1, <1>4, <1>5 DEF Safe

LEMMA HookFacts ==
  ASSUME Hooks, Safe, NEW p \in Pages
  PROVE  /\ state[p] \in CallStates /\ remote[p] \in BOOLEAN /\ captures[p] \in Nat
         /\ local[p] \in BOOLEAN /\ prompt[p] \in Prompts
         /\ captures[p] = IF local[p] THEN 1 ELSE 0
         /\ prompt[p] # "none" => state[p] \in {"idle", "ringing"}
         /\ state[p] \in {"idle", "ringing"} => ~local[p]
         /\ state = [state EXCEPT ![p] = state[p]] /\ remote = [remote EXCEPT ![p] = remote[p]]
         /\ captures = [captures EXCEPT ![p] = captures[p]]
         /\ local = [local EXCEPT ![p] = local[p]] /\ prompt = [prompt EXCEPT ![p] = prompt[p]]
BY DEF Hooks, Safe, CapturesKnown, PromptBeforeCall, NoStreamBeforeCall

LEMMA HookRests ==
  ASSUME Hooks, Safe, UNCHANGED <<state, remote, captures, local, prompt>>,
         eligible' \in [Pages -> BOOLEAN]
  PROVE  Hooks' /\ Safe'
BY DEF Hooks, Safe, CapturesKnown, PromptBeforeCall, NoStreamBeforeCall

\* However a call ends, the page is idle and its camera is off.
LEMMA teardownKeeps ==
  ASSUME Hooks, Safe, Wires, NEW p \in Pages, teardown(p), NEW a \in Prompts,
         prompt' = [prompt EXCEPT ![p] = a], eligible' \in [Pages -> BOOLEAN], conns' = conns
  PROVE  Hooks' /\ Safe' /\ Wires'
<1>1. /\ state' = [state EXCEPT ![p] = "idle"] /\ remote' = [remote EXCEPT ![p] = FALSE]
      /\ captures' = [captures EXCEPT ![p] = IF local[p] THEN captures[p] - 1 ELSE captures[p]]
      /\ local' = [local EXCEPT ![p] = FALSE]
      /\ conn' = [conn EXCEPT ![p] = NoConn]
  BY DEF teardown
<1>2. PICK c \in Nat : c = 0
  OBVIOUS
<1>3. captures' = [captures EXCEPT ![p] = c]
  <2>1. (IF local[p] THEN captures[p] - 1 ELSE captures[p]) = c
    BY <1>2, HookFacts
  <2> QED BY <2>1, <1>1
<1>4. PICK s \in CallStates : s = "idle"
  BY DEF CallStates
<1>5. Hooks' /\ Safe'
  <2>1. state' = [state EXCEPT ![p] = s]
    BY <1>1, <1>4
  <2>2. FALSE \in BOOLEAN /\ c = (IF FALSE THEN 1 ELSE 0)
    BY <1>2
  <2>3. a # "none" => s \in {"idle", "ringing"}
    BY <1>4
  <2> QED BY <1>1, <1>3, <2>1, <2>2, <2>3, HookChange
<1>6. Wires'
  BY <1>1, NoConnType DEF Wires
<1> QED BY <1>5, <1>6

LEMMA teardownAlone ==
  ASSUME Hooks, Safe, Wires, NEW p \in Pages, teardown(p),
         prompt' = prompt, eligible' \in [Pages -> BOOLEAN], conns' = conns
  PROVE  Hooks' /\ Safe' /\ Wires'
BY HookFacts, teardownKeeps

NewConn(n) == [NoConn EXCEPT !.id = n, !.need = TRUE, !.timer = TRUE]

LEMMA NewConnType == \A n \in Nat : NewConn(n) \in Conns
BY DEF NewConn, NoConn, Conns

LEMMA buildType ==
  ASSUME Wires, NEW p \in Pages, buildConnection(p)
  PROVE  Wires'
<1>1. conns + 1 \in Nat /\ conns' = conns + 1
  BY DEF Wires, buildConnection
<1>2. PICK n \in Nat : n = conns + 1
  BY <1>1
<1>3. conn' = [conn EXCEPT ![p] = NewConn(n)]
  BY <1>2 DEF buildConnection, NewConn
<1> QED BY <1>1, <1>3, NewConnType DEF Wires

(* ------------------------------ each step -------------------------------- *)

All == Boxes /\ Hooks /\ Safe /\ Wires

\* A prompt opens; the state stays what it is.
LEMMA AskStep ==
  ASSUME All, NEW p \in Pages, startCall(p) \/ acceptCall(p)
  PROVE  All'
<1>1. PICK a \in Prompts : prompt' = [prompt EXCEPT ![p] = a]
  BY DEF startCall, acceptCall, Ask, Prompts
<1>2. /\ state[p] \in {"idle", "ringing"}
      /\ UNCHANGED <<present, inbox, state, remote, captures, local, conn, eligible, conns>>
  BY DEF startCall, acceptCall, hook
<1>3. Hooks' /\ Safe'
  <2>1. Hooks /\ Safe /\ eligible' \in [Pages -> BOOLEAN]
    BY <1>2 DEF All, Hooks
  <2>2. PICK s, r, c, l : s = state[p] /\ r = remote[p] /\ c = captures[p] /\ l = local[p]
    OBVIOUS
  <2>3. /\ s \in CallStates /\ r \in BOOLEAN /\ c \in Nat /\ l \in BOOLEAN
        /\ c = IF l THEN 1 ELSE 0
        /\ s \in {"idle", "ringing"} => ~l
    BY <2>1, <2>2, HookFacts
  <2>4. /\ state' = [state EXCEPT ![p] = s] /\ remote' = [remote EXCEPT ![p] = r]
        /\ captures' = [captures EXCEPT ![p] = c] /\ local' = [local EXCEPT ![p] = l]
    BY <2>1, <2>2, <1>2, HookFacts
  <2>5. a # "none" => s \in {"idle", "ringing"}
    BY <1>2, <2>2
  <2> QED BY <2>1, <2>3, <2>4, <2>5, <1>1, HookChange
<1> QED BY <1>2, <1>3 DEF All, Boxes, Wires

\* The camera is there: the page had none, and its call begins.
LEMMA GrantStep ==
  ASSUME All, NEW p \in Pages, StartGranted(p) \/ AcceptGranted(p)
  PROVE  All'
<1>1. Boxes /\ Hooks /\ Safe /\ Wires
  BY DEF All
<1>2. /\ prompt[p] # "none" /\ prompt' = [prompt EXCEPT ![p] = "none"]
      /\ captures' = [captures EXCEPT ![p] = captures[p] + 1]
      /\ local' = [local EXCEPT ![p] = TRUE]
      /\ UNCHANGED <<present, eligible>>
  BY DEF StartGranted, AcceptGranted, Answered, acquireMedia
<1>3. ~local[p] /\ captures[p] = 0
  BY <1>1, <1>2, HookFacts
<1>4. PICK c \in Nat : c = 1 /\ c = captures[p] + 1
  BY <1>3
<1>5. PICK s \in {"calling", "connecting"} : state' = [state EXCEPT ![p] = s]
  BY DEF StartGranted, AcceptGranted, buildConnection
<1>6. PICK r \in BOOLEAN : remote' = [remote EXCEPT ![p] = r]
  <2>1. CASE StartGranted(p)
    BY <2>1 DEF StartGranted
  <2>2. CASE AcceptGranted(p)
    <3>1. remote' = remote /\ remote = [remote EXCEPT ![p] = remote[p]] /\ remote[p] \in BOOLEAN
      BY <1>1, <2>2, HookFacts DEF AcceptGranted
    <3> QED BY <3>1
  <2> QED BY <2>1, <2>2
<1>7. Hooks' /\ Safe'
  <2>1. PICK a \in Prompts : a = "none"
    BY DEF Prompts
  <2>2. prompt' = [prompt EXCEPT ![p] = a] /\ captures' = [captures EXCEPT ![p] = c]
    BY <1>2, <1>4, <2>1
  <2>3. eligible' \in [Pages -> BOOLEAN] /\ s \in CallStates
    BY <1>1, <1>2 DEF Hooks, CallStates
  <2>4. /\ a # "none" => s \in {"idle", "ringing"}
        /\ s \in {"idle", "ringing"} => ~TRUE
        /\ c = IF TRUE THEN 1 ELSE 0
        /\ TRUE \in BOOLEAN
    BY <1>4, <2>1
  <2> QED BY <1>1, <1>2, <1>5, <1>6, <2>2, <2>3, <2>4, HookChange
<1>8. Boxes'
  <2>1. PICK f \in Frames : inbox' = Sent(p, inbox, <<f>>)
    BY PlainType DEF StartGranted, AcceptGranted, Send, Signals
  <2> QED BY <1>1, <1>2, <2>1, SentType DEF Boxes
<1>9. Wires'
  <2>1. CASE StartGranted(p)
    BY <1>1, <2>1 DEF StartGranted, Wires
  <2>2. CASE AcceptGranted(p)
    BY <1>1, <2>2, buildType DEF AcceptGranted
  <2> QED BY <2>1, <2>2
<1> QED BY <1>7, <1>8, <1>9 DEF All

\* The steps that end what the page was doing and send at most one signal.
LEMMA EndStep ==
  ASSUME All, NEW p \in Pages, Denied(p) \/ declineCall(p) \/ endCall(p)
  PROVE  All'
<1>1. Boxes /\ Hooks /\ Safe /\ Wires
  BY DEF All
<1>2. teardown(p) /\ UNCHANGED <<present, eligible, conns>>
  BY DEF Denied, declineCall, endCall
<1>3. inbox' = inbox \/ \E f \in Frames : inbox' = Sent(p, inbox, <<f>>)
  <2>1. Plain("decline") \in Frames /\ Plain("cancel") \in Frames /\ Plain("end") \in Frames
    BY PlainType DEF Signals
  <2>2. CASE Denied(p) \/ declineCall(p)
    BY <2>1, <2>2 DEF Denied, declineCall, Send
  <2>3. CASE endCall(p)
    <3>1. \/ inbox' = inbox
          \/ inbox' = Sent(p, inbox, <<Plain("cancel")>>)
          \/ inbox' = Sent(p, inbox, <<Plain("end")>>)
      BY <2>3 DEF endCall, Send
    <3> QED BY <2>1, <3>1
  <2> QED BY <2>2, <2>3
<1>4. Boxes'
  <2>1. inbox \in [Pages -> Seq(Frames)] /\ present' \in [Pages -> BOOLEAN]
    BY <1>1, <1>2 DEF Boxes
  <2>2. inbox' \in [Pages -> Seq(Frames)]
    <3>1. ASSUME NEW f \in Frames, inbox' = Sent(p, inbox, <<f>>)
          PROVE  inbox' \in [Pages -> Seq(Frames)]
      <4>1. Sent(p, inbox, <<f>>) \in [Pages -> Seq(Frames)]
        BY ONLY <2>1, p \in Pages, f \in Frames, SentType
      <4> QED BY <3>1, <4>1
    <3> QED BY <1>3, <2>1, <3>1
  <2> QED BY <2>1, <2>2 DEF Boxes
<1>5. PICK a \in Prompts : prompt' = [prompt EXCEPT ![p] = a]
  <2>1. CASE Denied(p)
    <3>1. prompt' = [prompt EXCEPT ![p] = "none"]
      BY <2>1 DEF Denied, Answered
    <3>2. "none" \in Prompts
      BY DEF Prompts
    <3> QED BY <3>1, <3>2
  <2>2. CASE declineCall(p) \/ endCall(p)
    <3>1. prompt' = prompt /\ prompt = [prompt EXCEPT ![p] = prompt[p]] /\ prompt[p] \in Prompts
      BY <1>1, <2>2, HookFacts DEF declineCall, endCall
    <3> QED BY <3>1
  <2> QED BY <2>1, <2>2
<1>6. eligible' \in [Pages -> BOOLEAN]
  BY <1>1, <1>2 DEF Hooks
<1>7. Hooks' /\ Safe' /\ Wires'
  BY <1>1, <1>2, <1>5, <1>6, teardownKeeps
<1> QED BY <1>4, <1>7 DEF All

\* Steps that change the state of the call only.
LEMMA StateChange ==
  ASSUME Hooks, Safe, NEW p \in Pages, NEW s \in CallStates, NEW r \in BOOLEAN,
         state' = [state EXCEPT ![p] = s], remote' = [remote EXCEPT ![p] = r],
         UNCHANGED <<captures, local, prompt, eligible>>,
         prompt[p] # "none" => s \in {"idle", "ringing"},
         s \in {"idle", "ringing"} => ~local[p]
  PROVE  Hooks' /\ Safe'
<1>1. PICK c, l, a : c = captures[p] /\ l = local[p] /\ a = prompt[p]
  OBVIOUS
<1>2. /\ c \in Nat /\ l \in BOOLEAN /\ a \in Prompts /\ c = IF l THEN 1 ELSE 0
      /\ captures' = [captures EXCEPT ![p] = c] /\ local' = [local EXCEPT ![p] = l]
      /\ prompt' = [prompt EXCEPT ![p] = a]
  BY <1>1, HookFacts
<1>3. eligible' \in [Pages -> BOOLEAN]
  BY DEF Hooks
<1>4. (a # "none" => s \in {"idle", "ringing"}) /\ (s \in {"idle", "ringing"} => ~l)
  BY <1>1
<1> QED
  BY ONLY <1>2, <1>3, <1>4, HookChange, Hooks, Safe, p \in Pages, s \in CallStates, r \in BOOLEAN,
     state' = [state EXCEPT ![p] = s], remote' = [remote EXCEPT ![p] = r]

LEMMA InviteStep ==
  ASSUME All, NEW p \in Pages, ReceivesInvite(p)
  PROVE  All'
<1>1. Boxes /\ Hooks /\ Safe /\ Wires
  BY DEF All
<1>2. /\ Receives(p, "invite")
      /\ UNCHANGED <<present, eligible, prompt, captures, local, conn, conns>>
  BY DEF ReceivesInvite
<1>3. Read(p) \in [Pages -> Seq(Frames)]
  BY <1>1, <1>2, ReadType
<1>4. CASE state[p] # "idle"
  <2>1. PICK f \in Frames : inbox' = Sent(p, Read(p), <<f>>)
    BY <1>4, PlainType DEF ReceivesInvite, Signals
  <2>2. Boxes'
    BY <1>1, <1>2, <1>3, <2>1, SentType DEF Boxes
  <2>3. Hooks' /\ Safe'
    <3>1. UNCHANGED <<state, remote, captures, local, prompt>> /\ eligible' \in [Pages -> BOOLEAN]
      BY <1>1, <1>2, <1>4 DEF ReceivesInvite, Hooks
    <3> QED BY <1>1, <3>1, HookRests
  <2> QED BY <1>1, <1>2, <2>2, <2>3 DEF All, Wires
<1>5. CASE state[p] = "idle"
  <2>1. /\ inbox' = Read(p) /\ remote' = [remote EXCEPT ![p] = TRUE]
        /\ state' = [state EXCEPT ![p] = "ringing"]
    BY <1>5 DEF ReceivesInvite
  <2>2. PICK s \in CallStates : s = "ringing"
    BY DEF CallStates
  <2>3. ~local[p]
    BY <1>1, <1>5, HookFacts
  <2>4. Hooks' /\ Safe'
    <3>1. state' = [state EXCEPT ![p] = s]
      BY <2>1, <2>2
    <3>2. (prompt[p] # "none" => s \in {"idle", "ringing"}) /\ TRUE \in BOOLEAN
      BY <2>2
    <3> QED BY <1>1, <1>2, <2>1, <2>3, <3>1, <3>2, StateChange
  <2> QED BY <1>1, <1>2, <1>3, <2>1, <2>4 DEF All, Boxes, Wires
<1> QED BY <1>4, <1>5

\* The two ways by which a caller comes to its connection: it was calling, with
\* its camera on and no prompt up.
LEMMA Connecting ==
  ASSUME Hooks, Safe, NEW p \in Pages, state[p] \notin {"idle", "ringing"},
         NEW s \in {"connecting", "active"}, state' = [state EXCEPT ![p] = s],
         UNCHANGED <<remote, captures, local, prompt, eligible>>
  PROVE  Hooks' /\ Safe'
<1>1. prompt[p] = "none"
  BY HookFacts
<1>2. PICK r \in BOOLEAN : remote' = [remote EXCEPT ![p] = r]
  <2>1. remote = [remote EXCEPT ![p] = remote[p]] /\ remote[p] \in BOOLEAN
    BY HookFacts
  <2> QED BY <2>1
<1>3. s \in CallStates
  BY DEF CallStates
<1> QED BY <1>1, <1>2, <1>3, StateChange

LEMMA AcceptStep ==
  ASSUME All, NEW p \in Pages, ReceivesAccept(p)
  PROVE  All'
<1>1. Boxes /\ Hooks /\ Safe /\ Wires
  BY DEF All
<1>2. /\ Receives(p, "accept") /\ inbox' = Read(p)
      /\ UNCHANGED <<present, remote, eligible, prompt, captures, local>>
  BY DEF ReceivesAccept
<1>3. Boxes'
  BY <1>1, <1>2, ReadType DEF Boxes
<1>4. CASE remote[p] /\ state[p] = "calling" /\ local[p]
  <2>1. buildConnection(p)
    BY <1>4 DEF ReceivesAccept
  <2>2. PICK s \in {"connecting", "active"} : state' = [state EXCEPT ![p] = s]
    BY <2>1 DEF buildConnection
  <2>3. Hooks' /\ Safe'
    BY <1>1, <1>2, <1>4, <2>2, Connecting
  <2> QED BY <1>1, <1>3, <2>1, <2>3, buildType DEF All
<1>5. CASE ~(remote[p] /\ state[p] = "calling" /\ local[p])
  <2>1. UNCHANGED <<state, conn, conns>>
    BY <1>5 DEF ReceivesAccept
  <2>2. Hooks' /\ Safe'
    <3>1. UNCHANGED <<state, remote, captures, local, prompt>> /\ eligible' \in [Pages -> BOOLEAN]
      BY <1>1, <1>2, <2>1 DEF Hooks
    <3> QED BY <1>1, <3>1, HookRests
  <2> QED BY <1>1, <1>3, <2>1, <2>2 DEF All, Wires
<1> QED BY <1>4, <1>5

\* A step that either tears the call down or leaves the hook alone.
LEMMA TearsOrRests ==
  ASSUME Hooks, Safe, Wires, NEW p \in Pages, teardown(p) \/ UNCHANGED hook,
         prompt' = prompt, eligible' \in [Pages -> BOOLEAN], conns' = conns
  PROVE  Hooks' /\ Safe' /\ Wires'
<1>1. CASE teardown(p)
  BY <1>1, teardownAlone
<1>2. CASE UNCHANGED hook
  <2>1. UNCHANGED <<state, remote, captures, local, prompt>> /\ UNCHANGED <<conn, conns>>
    BY <1>2 DEF hook
  <2> QED BY <2>1, HookRests DEF Wires
<1> QED BY <1>1, <1>2

LEMMA SignalStep ==
  ASSUME All, NEW p \in Pages, ReceivesEnd(p) \/ PeerLeft(p) \/ PeerHere(p) \/ SignalLost(p)
  PROVE  All'
<1>1. Boxes /\ Hooks /\ Safe /\ Wires
  BY DEF All
<1>2. /\ inbox' = Read(p) /\ UNCHANGED <<present, prompt, conns>>
      /\ \E kind : Receives(p, kind)
  BY DEF ReceivesEnd, PeerLeft, PeerHere, SignalLost, Receives
<1>3. Boxes'
  BY <1>1, <1>2, ReadType DEF Boxes
<1>4. teardown(p) \/ UNCHANGED hook
  BY DEF ReceivesEnd, PeerLeft, PeerHere, SignalLost
<1>5. eligible' \in [Pages -> BOOLEAN]
  BY <1>1 DEF ReceivesEnd, PeerLeft, PeerHere, SignalLost, Hooks
<1> QED BY <1>1, <1>2, <1>3, <1>4, <1>5, TearsOrRests DEF All

LEMMA NegotiationStep ==
  ASSUME All, NEW p \in Pages, NegotiationNeeded(p) \/ SendsOffer(p)
  PROVE  All'
<1>1. Boxes /\ Hooks /\ Safe /\ Wires
  BY DEF All
<1>2. UNCHANGED <<present, state, remote, captures, local, eligible, prompt, conns>>
  BY DEF NegotiationNeeded, SendsOffer
<1>3. Hooks' /\ Safe'
  <2>1. eligible' \in [Pages -> BOOLEAN]
    BY <1>1, <1>2 DEF Hooks
  <2> QED BY <1>1, <1>2, <2>1, HookRests
<1>4. PICK c \in Conns : c = conn[p]
  BY <1>1 DEF Wires
<1>5. CASE NegotiationNeeded(p)
  <2>1. conn' = [conn EXCEPT ![p] = [c EXCEPT !.need = FALSE, !.making = TRUE]]
    BY <1>1, <1>4, <1>5 DEF NegotiationNeeded, Wires
  <2>2. [c EXCEPT !.need = FALSE, !.making = TRUE] \in Conns
    BY DEF Conns
  <2>3. inbox' = inbox
    BY <1>5 DEF NegotiationNeeded
  <2> QED BY <1>1, <1>2, <1>3, <2>1, <2>2, <2>3 DEF All, Wires, Boxes
<1>6. CASE SendsOffer(p)
  <2>1. conn' = [conn EXCEPT ![p] = [c EXCEPT !.making = FALSE, !.sig = "offered"]]
    BY <1>1, <1>4, <1>6 DEF SendsOffer, Wires
  <2>2. [c EXCEPT !.making = FALSE, !.sig = "offered"] \in Conns
    BY DEF Conns
  <2>3. PICK f \in Frames : inbox' = Sent(p, inbox, <<f>>)
    BY <1>4, <1>6, SdpType DEF SendsOffer, Send
  <2>4. Boxes'
    BY <1>1, <1>2, <2>3, SentType DEF Boxes
  <2> QED BY <1>1, <1>2, <1>3, <2>1, <2>2, <2>4 DEF All, Wires
<1> QED BY <1>5, <1>6

\* Applying an offer: a stable connection, linked to the one that made it.
LEMMA TakesKeeps ==
  ASSUME Boxes, Wires, NEW p \in Pages, NEW c \in Conns, NEW n \in Nat,
         Read(p) \in [Pages -> Seq(Frames)], Takes(p, c, n), present' = present
  PROVE  Boxes' /\ conn' \in [Pages -> Conns]
<1>1. PICK d : d = [c EXCEPT !.sig = "stable", !.link = n, !.need = FALSE]
  OBVIOUS
<1>2. d \in Conns
  BY <1>1 DEF Conns
<1>3. conn' = [conn EXCEPT ![p] = d]
  BY <1>1 DEF Takes
<1>4. PICK e : e = [c EXCEPT !.link = n]
  OBVIOUS
<1>5. e \in Conns
  BY <1>4 DEF Conns
<1>6. PICK f \in Frames : inbox' = Sent(p, Read(p), <<f>>)
  BY <1>4, <1>5, SdpType DEF Takes
<1> QED BY <1>2, <1>3, <1>6, SentType DEF Boxes, Wires

LEMMA OfferStep ==
  ASSUME All, NEW p \in Pages, ReceivesOffer(p)
  PROVE  All'
<1>1. Boxes /\ Hooks /\ Safe /\ Wires
  BY DEF All
<1>2. /\ Receives(p, "offer")
      /\ UNCHANGED <<present, remote, captures, local, eligible, prompt>>
  BY DEF ReceivesOffer
<1>3. Read(p) \in [Pages -> Seq(Frames)] /\ Head(inbox[p]) \in Frames
  BY <1>1, <1>2, ReadType
<1>4. PICK n \in Nat : n = Head(inbox[p]).from
  BY <1>3 DEF Frames
<1>5. CASE remote[p] /\ Materializes(p)
  <2>1. PICK m \in Nat : m = conns + 1
    BY <1>1 DEF Wires
  <2>2. PICK c \in Conns : c = NewConn(m)
    BY NewConnType
  <2>3. Takes(p, c, n) /\ state' = [state EXCEPT ![p] = "connecting"] /\ conns' = m
    BY <1>4, <1>5, <2>1, <2>2 DEF ReceivesOffer, NewConn
  <2>4. Boxes' /\ Wires'
    BY <1>1, <1>2, <1>3, <2>3, TakesKeeps DEF Wires
  <2>5. Hooks' /\ Safe'
    <3>1. state[p] \notin {"idle", "ringing"}
      BY <1>5 DEF Materializes
    <3>2. PICK s \in {"connecting", "active"} : state' = [state EXCEPT ![p] = s]
      BY <2>3
    <3> QED BY <1>1, <1>2, <3>1, <3>2, Connecting
  <2> QED BY <2>4, <2>5 DEF All
<1>6. CASE ~(remote[p] /\ Materializes(p))
  <2>1. UNCHANGED <<state, conns>>
    BY <1>6 DEF ReceivesOffer
  <2>2. \/ inbox' = Read(p) /\ conn' = conn
        \/ Takes(p, conn[p], n)
    BY <1>4, <1>6 DEF ReceivesOffer
  <2>3. Boxes' /\ Wires'
    <3>1. CASE inbox' = Read(p) /\ conn' = conn
      BY <1>1, <1>2, <1>3, <2>1, <3>1 DEF Boxes, Wires
    <3>2. CASE Takes(p, conn[p], n)
      <4>1. conn[p] \in Conns
        BY <1>1 DEF Wires
      <4>2. Boxes' /\ conn' \in [Pages -> Conns]
        BY <1>1, <1>2, <1>3, <3>2, <4>1, TakesKeeps
      <4> QED BY <1>1, <2>1, <4>2 DEF Wires
    <3> QED BY <2>2, <3>1, <3>2
  <2>4. eligible' \in [Pages -> BOOLEAN]
    BY <1>1, <1>2 DEF Hooks
  <2>5. Hooks' /\ Safe'
    BY <1>1, <1>2, <2>1, <2>4, HookRests
  <2> QED BY <2>3, <2>5 DEF All
<1> QED BY <1>5, <1>6

LEMMA AnswerStep ==
  ASSUME All, NEW p \in Pages, ReceivesAnswer(p)
  PROVE  All'
<1>1. Boxes /\ Hooks /\ Safe /\ Wires
  BY DEF All
<1>2. /\ Receives(p, "answer") /\ inbox' = Read(p)
      /\ UNCHANGED <<present, eligible, prompt, conns>>
  BY DEF ReceivesAnswer
<1>3. Boxes' /\ Head(inbox[p]) \in Frames
  BY <1>1, <1>2, ReadType DEF Boxes
<1>4. eligible' \in [Pages -> BOOLEAN]
  BY <1>1, <1>2 DEF Hooks
<1>5. CASE teardown(p) \/ UNCHANGED hook
  BY <1>1, <1>2, <1>3, <1>4, <1>5, TearsOrRests DEF All
<1>6. CASE ~(teardown(p) \/ UNCHANGED hook)
  <2>1. PICK c \in Conns : c = conn[p]
    BY <1>1 DEF Wires
  <2>2. PICK n : n = IF Head(inbox[p]).to = c.id THEN Head(inbox[p]).from ELSE 0
    OBVIOUS
  <2>3. n \in Nat
    BY <1>3, <2>2 DEF Frames
  <2>4. /\ conn' = [conn EXCEPT ![p].sig = "stable", ![p].link = n]
        /\ UNCHANGED <<state, remote, captures, local>>
    BY <1>6, <2>1, <2>2 DEF ReceivesAnswer, failed
  <2>5. PICK d : d = [c EXCEPT !.sig = "stable", !.link = n]
    OBVIOUS
  <2>6. d \in Conns
    BY <2>3, <2>5 DEF Conns
  <2>7. conn' = [conn EXCEPT ![p] = d]
    BY <1>1, <2>1, <2>4, <2>5 DEF Wires
  <2>8. Hooks' /\ Safe'
    BY <1>1, <1>2, <1>4, <2>4, HookRests
  <2> QED BY <1>1, <1>2, <1>3, <2>6, <2>7, <2>8 DEF All, Wires
<1> QED BY <1>5, <1>6

LEMMA PathStep ==
  ASSUME All, NEW p \in Pages, Connected(p) \/ ConnectTimeout(p) \/ PathFails(p)
  PROVE  All'
<1>1. Boxes /\ Hooks /\ Safe /\ Wires
  BY DEF All
<1>2. UNCHANGED <<present, inbox, eligible, prompt, conns>>
  BY DEF Connected, ConnectTimeout, PathFails
<1>3. eligible' \in [Pages -> BOOLEAN] /\ Boxes'
  BY <1>1, <1>2 DEF Hooks, Boxes
<1>4. CASE Connected(p)
  <2>1. /\ state[p] \notin {"idle", "ringing"} /\ UNCHANGED <<remote, captures, local>>
        /\ conn' = [conn EXCEPT ![p].timer = FALSE]
    BY <1>4 DEF Connected
  <2>2. PICK s \in {"connecting", "active"} : state' = [state EXCEPT ![p] = s]
    BY <1>4 DEF Connected
  <2>3. Hooks' /\ Safe'
    BY <1>1, <1>2, <2>1, <2>2, Connecting
  <2>4. PICK c \in Conns : c = conn[p]
    BY <1>1 DEF Wires
  <2>5. [c EXCEPT !.timer = FALSE] \in Conns
    BY DEF Conns
  <2>6. conn' = [conn EXCEPT ![p] = [c EXCEPT !.timer = FALSE]]
    BY <1>1, <2>1, <2>4 DEF Wires
  <2> QED BY <1>1, <1>2, <1>3, <2>3, <2>5, <2>6 DEF All, Wires
<1>5. CASE ConnectTimeout(p) \/ PathFails(p)
  <2>1. teardown(p) \/ UNCHANGED hook
    BY <1>5 DEF ConnectTimeout, PathFails, failed
  <2> QED BY <1>1, <1>2, <1>3, <2>1, TearsOrRests DEF All
<1> QED BY <1>4, <1>5

LEMMA PresenceStep ==
  ASSUME All, NEW p \in Pages, Leaves(p) \/ Returns(p)
  PROVE  All'
<1>1. Boxes /\ Hooks /\ Safe /\ Wires
  BY DEF All
<1>2. PICK f \in Frames : f = Plain("left")
  BY PlainType
<1>3. PICK g \in Frames : g = Plain("here")
  BY PlainType
<1>4. CASE Leaves(p)
  <2>1. /\ teardown(p) /\ prompt' = [prompt EXCEPT ![p] = "none"]
        /\ eligible' = [eligible EXCEPT ![p] = FALSE] /\ conns' = conns
        /\ present' = [present EXCEPT ![p] = FALSE]
        /\ inbox' = Sent(p, [inbox EXCEPT ![p] = <<>>], <<f>>)
    BY <1>2, <1>4 DEF Leaves
  <2>2. PICK a \in Prompts : a = "none"
    BY DEF Prompts
  <2>3. eligible' \in [Pages -> BOOLEAN] /\ prompt' = [prompt EXCEPT ![p] = a]
    BY <1>1, <2>1, <2>2 DEF Hooks
  <2>4. Hooks' /\ Safe' /\ Wires'
    BY <1>1, <2>1, <2>3, teardownKeeps
  <2>5. [inbox EXCEPT ![p] = <<>>] \in [Pages -> Seq(Frames)]
    BY <1>1 DEF Boxes
  <2> QED BY <1>1, <2>1, <2>4, <2>5, SentType DEF All, Boxes
<1>5. CASE Returns(p)
  <2>0. <<g>> \in Seq(Frames) /\ <<>> \in Seq(Frames)
    OBVIOUS
  <2>1. PICK s \in Seq(Frames) : s = IF present[Other(p)] THEN <<g>> ELSE <<>>
    BY <2>0
  <2>2. /\ inbox' = Sent(p, [inbox EXCEPT ![p] = s], <<g>>)
        /\ present' = [present EXCEPT ![p] = TRUE]
        /\ UNCHANGED <<state, remote, captures, local, conn, eligible, prompt, conns>>
    BY <1>3, <1>5, <2>1 DEF Returns, hook
  <2>3. [inbox EXCEPT ![p] = s] \in [Pages -> Seq(Frames)]
    BY <1>1 DEF Boxes
  <2>4. Boxes'
    BY <1>1, <2>2, <2>3, SentType DEF Boxes
  <2>5. eligible' \in [Pages -> BOOLEAN]
    BY <1>1, <2>2 DEF Hooks
  <2>6. Hooks' /\ Safe'
    BY <1>1, <2>2, <2>5, HookRests
  <2> QED BY <1>1, <2>2, <2>4, <2>6 DEF All, Wires
<1> QED BY <1>4, <1>5

(* ------------------------------- theorems -------------------------------- *)

LEMMA CallStarts == Init => CallInv
<1> SUFFICES ASSUME Init PROVE CallInv
  OBVIOUS
<1>1. Boxes /\ Wires
  BY NoConnType DEF Init, Boxes, Wires
<1>2. Hooks
  BY DEF Init, Hooks, CallStates, Prompts
<1>3. calls \in 0..MaxCalls /\ faults \in 0..MaxFaults
  BY BoundsAreNaturals DEF Init
<1>4. Safe
  BY DEF Init, Safe, CapturesKnown, PromptBeforeCall, NoStreamBeforeCall
<1> QED BY <1>1, <1>2, <1>3, <1>4, TypeParts DEF CallInv, Safe

LEMMA CountersStep ==
  ASSUME calls \in 0..MaxCalls, faults \in 0..MaxFaults, Next
  PROVE  calls' \in 0..MaxCalls /\ faults' \in 0..MaxFaults
<1>1. calls' = calls \/ (calls < MaxCalls /\ calls' = calls + 1)
  BY DEF Next, User, Page, startCall, acceptCall, StartGranted, AcceptGranted, Denied,
     declineCall, endCall, ReceivesInvite, ReceivesAccept, ReceivesEnd, ReceivesOffer,
     ReceivesAnswer, PeerLeft, PeerHere, NegotiationNeeded, SendsOffer, Connected,
     ConnectTimeout, PathFails, Leaves, Returns, SignalLost
<1>2. faults' = faults \/ (faults < MaxFaults /\ faults' = faults + 1)
  BY DEF Next, User, Page, startCall, acceptCall, StartGranted, AcceptGranted, Denied,
     declineCall, endCall, ReceivesInvite, ReceivesAccept, ReceivesEnd, ReceivesOffer,
     ReceivesAnswer, PeerLeft, PeerHere, NegotiationNeeded, SendsOffer, Connected,
     ConnectTimeout, PathFails, Leaves, Returns, SignalLost, Fault
<1> QED BY <1>1, <1>2, BoundsAreNaturals

LEMMA CallStep == CallInv /\ [Next]_vars => CallInv'
<1> SUFFICES ASSUME CallInv, [Next]_vars PROVE CallInv'
  OBVIOUS
<1>1. All /\ calls \in 0..MaxCalls /\ faults \in 0..MaxFaults
  BY TypeParts DEF CallInv, All, Safe
<1>2. CASE UNCHANGED vars
  BY <1>2 DEF vars, hook, CallInv, TypeOK, CapturesKnown, PromptBeforeCall, NoStreamBeforeCall
<1>3. CASE Next
  <2>1. PICK p \in Pages : \/ User(p) \/ Page(p)
                           \/ Connected(p) \/ ConnectTimeout(p) \/ PathFails(p)
                           \/ Leaves(p) \/ Returns(p) \/ SignalLost(p)
    BY <1>3 DEF Next
  <2>3. All'
    <3>1. CASE startCall(p) \/ acceptCall(p)
      BY <1>1, <3>1, AskStep
    <3>2. CASE StartGranted(p) \/ AcceptGranted(p)
      BY <1>1, <3>2, GrantStep
    <3>3. CASE Denied(p) \/ declineCall(p) \/ endCall(p)
      BY <1>1, <3>3, EndStep
    <3>4. CASE ReceivesInvite(p)
      BY <1>1, <3>4, InviteStep
    <3>5. CASE ReceivesAccept(p)
      BY <1>1, <3>5, AcceptStep
    <3>6. CASE ReceivesEnd(p) \/ PeerLeft(p) \/ PeerHere(p) \/ SignalLost(p)
      BY <1>1, <3>6, SignalStep
    <3>7. CASE ReceivesOffer(p)
      BY <1>1, <3>7, OfferStep
    <3>8. CASE ReceivesAnswer(p)
      BY <1>1, <3>8, AnswerStep
    <3>9. CASE NegotiationNeeded(p) \/ SendsOffer(p)
      BY <1>1, <3>9, NegotiationStep
    <3>10. CASE Connected(p) \/ ConnectTimeout(p) \/ PathFails(p)
      BY <1>1, <3>10, PathStep
    <3>11. CASE Leaves(p) \/ Returns(p)
      BY <1>1, <3>11, PresenceStep
    <3> QED
      BY <2>1, <3>1, <3>2, <3>3, <3>4, <3>5, <3>6, <3>7, <3>8, <3>9, <3>10, <3>11 DEF User, Page
  <2>4. calls' \in 0..MaxCalls /\ faults' \in 0..MaxFaults
    BY <1>1, <1>3, CountersStep
  <2>5. TypeOK'
    BY <2>3, <2>4 DEF All, TypeOK, Boxes, Hooks, Wires, Frames, Conns, Prompts
  <2> QED BY <2>3, <2>5 DEF CallInv, All, Safe
<1> QED BY <1>2, <1>3

\* TypeOK: every ref of useCall and field of CallConnection keeps its type.
THEOREM TypeCorrect == Spec => []TypeOK
<1>1. CallInv => TypeOK
  BY DEF CallInv
<1> QED BY <1>1, CallStarts, CallStep, PTL DEF Spec

\* CameraOff: whatever the order of prompts, signals, time-outs and departures, a
\* page that is idle or only rings captures nothing (useCall: teardown, acquireMedia).
THEOREM CameraStaysOff == Spec => []CameraOff
<1>1. CallInv => CameraOff
  BY DEF CallInv, CapturesKnown, NoStreamBeforeCall, CameraOff
<1> QED BY <1>1, CallStarts, CallStep, PTL DEF Spec

(* ------------------------ the first call, step by step -------------------- *)
(* While nothing fails, the first call goes through a few stages, or is over. *)

\* What a step of p does to the hook of the other page: nothing.
Still(q) == /\ state'[q] = state[q] /\ remote'[q] = remote[q] /\ local'[q] = local[q]
            /\ conn'[q] = conn[q]
Rests(q) == Still(q) /\ prompt'[q] = prompt[q]

Says(p, f) == inbox'[p] = inbox[p] /\ inbox'[Other(p)] = Append(inbox[Other(p)], f)
Hears(p) == /\ inbox[p] # <<>> /\ inbox'[p] = Tail(inbox[p])
            /\ inbox'[Other(p)] = inbox[Other(p)]
Replies(p, f) == /\ inbox[p] # <<>> /\ inbox'[p] = Tail(inbox[p])
                 /\ inbox'[Other(p)] = Append(inbox[Other(p)], f)

Hangups == {"decline", "busy", "cancel", "end"}
Torn(p) == state'[p] = "idle" /\ ~remote'[p] /\ conn'[p] = NoConn
Fresh(c) == c.id # 0 /\ c.need /\ ~c.making /\ c.sig = "stable" /\ c.link = 0

Prompting(p) == /\ state[p] = "ringing" /\ prompt'[p] = "accept" /\ inbox' = inbox
                /\ state'[p] = state[p] /\ remote'[p] = remote[p] /\ conn'[p] = conn[p]
Starting(p) == /\ prompt[p] = "start" /\ prompt'[p] = "none" /\ Says(p, Plain("invite"))
               /\ remote'[p] /\ state'[p] = "calling" /\ local'[p] /\ conn'[p] = conn[p]
Joining(p) == /\ prompt[p] = "accept" /\ prompt'[p] = "none" /\ Says(p, Plain("accept"))
              /\ remote'[p] = remote[p] /\ state'[p] = "connecting" /\ Fresh(conn'[p])
Tearing(p) ==
    /\ Torn(p)
    /\ \/ prompt[p] # "none" /\ prompt'[p] = "none"
          /\ \/ prompt[p] = "start" /\ inbox' = inbox
             \/ prompt[p] = "accept" /\ Says(p, Plain("decline"))
       \/ /\ prompt'[p] = prompt[p]
          /\ \/ state[p] = "ringing" /\ Says(p, Plain("decline"))
             \/ /\ state[p] \in {"calling", "connecting", "active"}
                /\ inbox' = inbox \/ \E s \in {"cancel", "end"} : Says(p, Plain(s))
             \/ Hears(p) /\ remote[p] /\ Head(inbox[p]).call \in Hangups \cup {"left"}
             \/ /\ Hears(p) /\ remote[p] /\ Head(inbox[p]).call = "answer"
                /\ conn[p].sig # "offered"
             \/ conn[p].timer /\ inbox' = inbox
Ringing(p) == /\ Hears(p) /\ Head(inbox[p]).call = "invite" /\ state[p] = "idle"
              /\ remote'[p] /\ state'[p] = "ringing" /\ conn'[p] = conn[p]
              /\ prompt'[p] = prompt[p]
Refusing(p) == /\ Rests(p) /\ state[p] # "idle" /\ Head(inbox[p]).call = "invite"
               /\ Replies(p, Plain("busy"))
Building(p) == /\ Hears(p) /\ Head(inbox[p]).call = "accept"
               /\ remote[p] /\ state[p] = "calling" /\ local[p]
               /\ remote'[p] = remote[p] /\ state'[p] = "connecting" /\ Fresh(conn'[p])
               /\ prompt'[p] = prompt[p]
Ignoring(p) ==
    /\ Rests(p) /\ Hears(p)
    /\ LET s == Head(inbox[p]).call IN
       \/ s \in {"left", "here"}
       \/ s \in Hangups /\ ~remote[p]
       \/ s = "accept" /\ ~(remote[p] /\ state[p] = "calling" /\ local[p])
       \/ s = "offer" /\ (~remote[p] \/ conn[p] = NoConn \/ (p = Impolite /\ Collides(conn[p])))
          /\ ~(remote[p] /\ Materializes(p))
       \/ s = "answer" /\ (~remote[p] \/ (conn[p] = NoConn /\ ~Materializes(p)))
Taking(p) ==
    /\ Head(inbox[p]).call = "offer" /\ remote[p]
    /\ \/ Materializes(p) /\ state'[p] = "connecting"
       \/ /\ conn[p] # NoConn /\ ~conn[p].making /\ state'[p] = state[p]
          /\ p = Polite \/ conn[p].sig = "stable"
          /\ conn'[p].id = conn[p].id
    /\ conn'[p].sig = "stable" /\ ~conn'[p].need /\ ~conn'[p].making
    /\ conn'[p].link = Head(inbox[p]).from
    /\ remote'[p] = remote[p] /\ prompt'[p] = prompt[p]
    /\ Replies(p, Sdp("answer", p, conn'[p]))
Concluding(p) ==
    /\ Hears(p) /\ Head(inbox[p]).call = "answer" /\ remote[p] /\ conn[p].sig = "offered"
    /\ conn'[p] = [conn[p] EXCEPT !.sig = "stable",
                     !.link = IF Head(inbox[p]).to = conn[p].id THEN Head(inbox[p]).from ELSE 0]
    /\ state'[p] = state[p] /\ remote'[p] = remote[p] /\ prompt'[p] = prompt[p]
Negotiating(p) ==
    /\ state'[p] = state[p] /\ remote'[p] = remote[p] /\ prompt'[p] = prompt[p]
    /\ conn'[p].id = conn[p].id /\ conn'[p].link = conn[p].link
    /\ \/ /\ conn[p].need /\ conn[p].sig = "stable" /\ inbox' = inbox
          /\ ~conn'[p].need /\ conn'[p].making /\ conn'[p].sig = "stable"
       \/ /\ conn[p].making /\ Says(p, Sdp("offer", p, conn[p]))
          /\ conn'[p].need = conn[p].need /\ ~conn'[p].making /\ conn'[p].sig = "offered"
Arriving(p) ==
    /\ Linked(p) /\ state[p] = "connecting" /\ state'[p] = "active" /\ inbox' = inbox
    /\ remote'[p] = remote[p] /\ prompt'[p] = prompt[p]
    /\ conn'[p] = [conn[p] EXCEPT !.timer = FALSE]

Moves(p) == \/ Prompting(p) \/ Starting(p) \/ Joining(p) \/ Tearing(p) \/ Ringing(p)
            \/ Refusing(p) \/ Building(p) \/ Ignoring(p) \/ Taking(p) \/ Concluding(p)
            \/ Negotiating(p) \/ Arriving(p)

Intact == Boxes /\ Hooks /\ Wires /\ \A p \in Pages : present[p]

LEMMA SentAlone ==
  ASSUME Intact, NEW p \in Pages, NEW f \in Frames, NEW box, DOMAIN box = Pages,
         \A q \in Pages : box[q] \in Seq(Frames)
  PROVE  /\ Sent(p, box, <<f>>)[p] = box[p]
         /\ Sent(p, box, <<f>>)[Other(p)] = Append(box[Other(p)], f)
<1>1. Other(p) \in Pages /\ Other(p) # p /\ present[Other(p)]
  BY PageFacts DEF Intact
<1>2. Sent(p, box, <<f>>) = [box EXCEPT ![Other(p)] = box[Other(p)] \o <<f>>]
  BY <1>1 DEF Sent
<1>3. box[Other(p)] \o <<f>> = Append(box[Other(p)], f)
  BY <1>1, AppendIsConcat
<1> QED BY <1>1, <1>2, <1>3

LEMMA Speaks ==
  ASSUME Intact, NEW p \in Pages, NEW f \in Frames, inbox' = Sent(p, inbox, <<f>>)
  PROVE  Says(p, f)
<1>1. PICK box \in [Pages -> Seq(Frames)] : box = inbox
  BY DEF Intact, Boxes
<1>2. /\ Sent(p, box, <<f>>)[p] = box[p]
      /\ Sent(p, box, <<f>>)[Other(p)] = Append(box[Other(p)], f)
  BY <1>1, SentAlone
<1> QED BY <1>1, <1>2 DEF Says

LEMMA Listens ==
  ASSUME Intact, NEW p \in Pages, NEW s, Receives(p, s)
  PROVE  /\ inbox' = Read(p) => Hears(p)
         /\ \A f \in Frames : inbox' = Sent(p, Read(p), <<f>>) => Replies(p, f)
<1>1. inbox[p] # <<>>
  BY DEF Receives
<1>2. Read(p) \in [Pages -> Seq(Frames)]
  BY ReadType DEF Intact
<1>3. Read(p)[p] = Tail(inbox[p]) /\ Read(p)[Other(p)] = inbox[Other(p)]
  <2>1. Other(p) \in Pages /\ Other(p) # p
    BY PageFacts
  <2>2. DOMAIN inbox = Pages
    BY DEF Intact, Boxes
  <2>3. Read(p) = [inbox EXCEPT ![p] = Tail(inbox[p])]
    BY DEF Read
  <2> QED BY ONLY p \in Pages, <2>1, <2>2, <2>3
<1>4. PICK box \in [Pages -> Seq(Frames)] : box = Read(p)
  BY <1>2
<1>5. ASSUME NEW f \in Frames, inbox' = Sent(p, box, <<f>>) PROVE Replies(p, f)
  <2>1. DOMAIN box = Pages /\ \A q \in Pages : box[q] \in Seq(Frames)
    BY <1>4
  <2>2. inbox'[p] = box[p] /\ inbox'[Other(p)] = Append(box[Other(p)], f)
    BY <1>5, <2>1, SentAlone
  <2> QED BY <1>1, <1>3, <1>4, <2>2 DEF Replies
<1> QED BY <1>1, <1>3, <1>4, <1>5 DEF Hears

LEMMA TornDown ==
  ASSUME Intact, NEW p \in Pages, NEW q \in Pages, q # p, teardown(p)
  PROVE  Torn(p) /\ Still(q)
BY DEF teardown, Torn, Still, Intact, Hooks, Wires

LEMMA UserMoves ==
  ASSUME Intact, NEW p \in Pages, NEW q \in Pages, q # p, User(p), calls' = calls
  PROVE  Moves(p) /\ Rests(q)
<1>0. /\ prompt[p] \in Prompts /\ Plain("invite") \in Frames /\ Plain("accept") \in Frames
      /\ Plain("decline") \in Frames /\ Plain("cancel") \in Frames /\ Plain("end") \in Frames
  BY PlainType DEF Intact, Hooks, Signals
<1>1. CASE startCall(p)
  <2>1. calls' = calls + 1 /\ calls \in Nat
    BY <1>1 DEF startCall
  <2> QED BY <2>1
<1>2. CASE acceptCall(p)
  <2>1. Prompting(p) /\ Rests(q)
    BY <1>2 DEF acceptCall, Ask, hook, Prompting, Rests, Still, Intact, Hooks
  <2> QED BY <2>1 DEF Moves
<1>3. CASE StartGranted(p)
  <2>1. Says(p, Plain("invite"))
    BY <1>0, <1>3, Speaks DEF StartGranted, Send
  <2>2. Starting(p) /\ Rests(q)
    BY <1>3, <2>1 DEF StartGranted, Answered, acquireMedia, Starting, Rests, Still, Intact, Hooks
  <2> QED BY <2>2 DEF Moves
<1>4. CASE AcceptGranted(p)
  <2>1. Says(p, Plain("accept"))
    BY <1>0, <1>4, Speaks DEF AcceptGranted, Send
  <2>2. /\ prompt[p] = "accept" /\ prompt' = [prompt EXCEPT ![p] = "none"]
        /\ local' = [local EXCEPT ![p] = TRUE] /\ remote' = remote
        /\ state' = [state EXCEPT ![p] = "connecting"]
        /\ conn' = [conn EXCEPT ![p] = [NoConn EXCEPT !.id = conns + 1, !.need = TRUE,
                                                      !.timer = TRUE]]
    BY <1>4 DEF AcceptGranted, Answered, acquireMedia, buildConnection
  <2>3. Fresh([NoConn EXCEPT !.id = conns + 1, !.need = TRUE, !.timer = TRUE])
    BY DEF Fresh, NoConn, Intact, Wires
  <2>4. Joining(p)
    BY <2>1, <2>2, <2>3 DEF Joining, Intact, Hooks, Wires
  <2>5. Rests(q)
    BY <2>2 DEF Rests, Still, Intact, Hooks, Wires
  <2> QED BY <2>4, <2>5 DEF Moves
<1>5. CASE Denied(p)
  <2>1. Torn(p) /\ Still(q)
    BY <1>5, TornDown DEF Denied
  <2>2. prompt'[p] = "none" /\ prompt'[q] = prompt[q]
    BY <1>5 DEF Denied, Answered, Intact, Hooks
  <2>3. \/ prompt[p] = "start" /\ inbox' = inbox
        \/ prompt[p] = "accept" /\ Says(p, Plain("decline"))
    BY <1>0, <1>5, Speaks DEF Denied, Answered, Send
  <2>4. Tearing(p) /\ Rests(q)
    BY <2>1, <2>2, <2>3 DEF Tearing, Rests, Still
  <2> QED BY <2>4 DEF Moves
<1>6. CASE declineCall(p)
  <2>1. Torn(p) /\ Still(q)
    BY <1>6, TornDown DEF declineCall
  <2>2. state[p] = "ringing" /\ Says(p, Plain("decline")) /\ prompt' = prompt
    BY <1>0, <1>6, Speaks DEF declineCall, Send
  <2>3. Tearing(p) /\ Rests(q)
    BY <2>1, <2>2 DEF Tearing, Rests, Still
  <2> QED BY <2>3 DEF Moves
<1>7. CASE endCall(p)
  <2>1. Torn(p) /\ Still(q)
    BY <1>7, TornDown DEF endCall
  <2>2. state[p] \in {"calling", "connecting", "active"} /\ prompt' = prompt
        /\ (inbox' = inbox \/ \E s \in {"cancel", "end"} : Says(p, Plain(s)))
    <3>1. CASE ~remote[p]
      BY <1>7, <3>1 DEF endCall
    <3>2. CASE remote[p]
      <4>1. \/ inbox' = Sent(p, inbox, <<Plain("cancel")>>)
            \/ inbox' = Sent(p, inbox, <<Plain("end")>>)
        BY <1>7, <3>2 DEF endCall, Send
      <4>2. Says(p, Plain("cancel")) \/ Says(p, Plain("end"))
        BY <1>0, <4>1, Speaks
      <4> QED BY <1>7, <4>2 DEF endCall
    <3> QED BY <3>1, <3>2
  <2>3. Tearing(p) /\ Rests(q)
    BY <2>1, <2>2 DEF Tearing, Rests, Still
  <2> QED BY <2>3 DEF Moves
<1> QED BY <1>1, <1>2, <1>3, <1>4, <1>5, <1>6, <1>7 DEF User

LEMMA RingMoves ==
  ASSUME Intact, NEW p \in Pages, NEW q \in Pages, q # p,
         ReceivesInvite(p) \/ ReceivesAccept(p) \/ ReceivesEnd(p) \/ PeerLeft(p) \/ PeerHere(p)
  PROVE  Moves(p) /\ Rests(q)
<1>1. CASE ReceivesInvite(p)
  <2>1. /\ Receives(p, "invite") /\ conn' = conn /\ local' = local /\ prompt' = prompt
        /\ \/ /\ state[p] # "idle" /\ inbox' = Sent(p, Read(p), <<Plain("busy")>>)
              /\ state' = state /\ remote' = remote
           \/ /\ state[p] = "idle" /\ inbox' = Read(p)
              /\ remote' = [remote EXCEPT ![p] = TRUE] /\ state' = [state EXCEPT ![p] = "ringing"]
    BY <1>1 DEF ReceivesInvite
  <2>2. Head(inbox[p]).call = "invite"
    BY <2>1 DEF Receives
  <2>3. CASE state[p] # "idle"
    <3>1. Replies(p, Plain("busy"))
      BY <2>1, <2>3, Listens, PlainType DEF Signals
    <3>2. Refusing(p) /\ Rests(q)
      BY <2>1, <2>2, <2>3, <3>1 DEF Refusing, Rests, Still
    <3> QED BY <3>2 DEF Moves
  <2>4. CASE state[p] = "idle"
    <3>1. Hears(p)
      BY <2>1, <2>4, Listens
    <3>2. Ringing(p) /\ Rests(q)
      BY <2>1, <2>2, <2>4, <3>1 DEF Ringing, Rests, Still, Intact, Hooks
    <3> QED BY <3>2 DEF Moves
  <2> QED BY <2>3, <2>4
<1>2. CASE ReceivesAccept(p)
  <2>1. /\ Receives(p, "accept") /\ inbox' = Read(p)
        /\ local' = local /\ prompt' = prompt /\ remote' = remote
    BY <1>2 DEF ReceivesAccept
  <2>2. Head(inbox[p]).call = "accept" /\ Hears(p)
    BY <2>1, Listens DEF Receives
  <2>3. CASE remote[p] /\ state[p] = "calling" /\ local[p]
    <3>1. /\ state' = [state EXCEPT ![p] = "connecting"]
          /\ conn' = [conn EXCEPT ![p] = [NoConn EXCEPT !.id = conns + 1, !.need = TRUE,
                                                        !.timer = TRUE]]
      BY <1>2, <2>3 DEF ReceivesAccept, buildConnection
    <3>2. Fresh([NoConn EXCEPT !.id = conns + 1, !.need = TRUE, !.timer = TRUE])
      BY DEF Fresh, NoConn, Intact, Wires
    <3>3. Building(p) /\ Rests(q)
      BY <2>1, <2>2, <2>3, <3>1, <3>2 DEF Building, Rests, Still, Intact, Hooks, Wires
    <3> QED BY <3>3 DEF Moves
  <2>4. CASE ~(remote[p] /\ state[p] = "calling" /\ local[p])
    <3>1. state' = state /\ conn' = conn
      BY <1>2, <2>4 DEF ReceivesAccept
    <3>2. Ignoring(p) /\ Rests(q)
      BY <2>1, <2>2, <2>4, <3>1 DEF Ignoring, Rests, Still
    <3> QED BY <3>2 DEF Moves
  <2> QED BY <2>3, <2>4
<1>3. CASE ReceivesEnd(p) \/ PeerLeft(p) \/ PeerHere(p)
  <2>1. PICK s \in Hangups \cup {"left", "here"} :
           /\ Receives(p, s) /\ inbox' = Read(p) /\ prompt' = prompt
           /\ \/ teardown(p) /\ remote[p] /\ s # "here"
              \/ UNCHANGED hook /\ (s \in Hangups => ~remote[p])
    BY <1>3 DEF ReceivesEnd, PeerLeft, PeerHere, Hangups
  <2>2. Head(inbox[p]).call = s /\ Hears(p)
    BY <2>1, Listens DEF Receives
  <2>3. CASE teardown(p) /\ remote[p] /\ s # "here"
    <3>1. Torn(p) /\ Still(q)
      BY <2>3, TornDown
    <3>2. Tearing(p) /\ Rests(q)
      BY <2>1, <2>2, <2>3, <3>1 DEF Tearing, Rests, Still
    <3> QED BY <3>2 DEF Moves
  <2>4. CASE UNCHANGED hook /\ (s \in Hangups => ~remote[p])
    <3>1. Ignoring(p) /\ Rests(q)
      BY <2>1, <2>2, <2>4 DEF Ignoring, Rests, Still, hook, Hangups
    <3> QED BY <3>1 DEF Moves
  <2> QED BY <2>1, <2>3, <2>4
<1> QED BY <1>1, <1>2, <1>3

LEMMA OfferMoves ==
  ASSUME Intact, NEW p \in Pages, NEW q \in Pages, q # p, ReceivesOffer(p)
  PROVE  Moves(p) /\ Rests(q)
<1>1. Receives(p, "offer") /\ local' = local /\ prompt' = prompt /\ remote' = remote
  BY DEF ReceivesOffer
<1>2. Head(inbox[p]) \in Frames /\ Head(inbox[p]).call = "offer"
  BY <1>1, ReadType DEF Intact, Receives
<1>3. PICK n \in Nat : n = Head(inbox[p]).from
  BY <1>2 DEF Frames
<1>4. PICK c \in Conns : c = [NoConn EXCEPT !.id = conns + 1, !.need = TRUE, !.timer = TRUE]
  <2>1. conns + 1 \in Nat
    BY DEF Intact, Wires
  <2>2. [NoConn EXCEPT !.id = conns + 1, !.need = TRUE, !.timer = TRUE] \in Conns
    BY <2>1 DEF NoConn, Conns
  <2> QED BY <2>2
<1>5. ASSUME NEW d \in Conns, Takes(p, d, n)
      PROVE  /\ conn'[p].sig = "stable" /\ conn'[p].link = n /\ ~conn'[p].need
             /\ conn'[p].making = d.making /\ conn'[p].id = d.id
             /\ conn'[q] = conn[q]
             /\ Replies(p, Sdp("answer", p, conn'[p]))
  <2>1. conn'[p] = [d EXCEPT !.sig = "stable", !.link = n, !.need = FALSE] /\ conn'[q] = conn[q]
    BY <1>5 DEF Takes, Intact, Wires
  <2>2. PICK e \in Conns : e = [d EXCEPT !.link = n]
    BY DEF Conns
  <2>3. Sdp("answer", p, e) = Sdp("answer", p, conn'[p])
    BY <2>1, <2>2 DEF Sdp, Conns
  <2>4. inbox' = Sent(p, Read(p), <<Sdp("answer", p, e)>>)
    BY <1>5, <2>2 DEF Takes
  <2>5. Replies(p, Sdp("answer", p, e))
    BY <1>1, <2>4, Listens, SdpType
  <2> QED BY <2>1, <2>3, <2>5 DEF Conns
<1>6. CASE remote[p] /\ Materializes(p)
  <2>1. Takes(p, c, n) /\ state' = [state EXCEPT ![p] = "connecting"]
    BY <1>3, <1>4, <1>6 DEF ReceivesOffer
  <2>2. ~c.making
    BY <1>4 DEF NoConn
  <2>3. state'[p] = "connecting" /\ state'[q] = state[q]
    BY <2>1 DEF Intact, Hooks
  <2>4. Taking(p)
    BY <1>1, <1>2, <1>3, <1>5, <1>6, <2>1, <2>2, <2>3 DEF Taking
  <2> QED BY <1>1, <1>5, <2>1, <2>3, <2>4 DEF Moves, Rests, Still
<1>7. CASE /\ ~(remote[p] /\ Materializes(p))
           /\ ~remote[p] \/ conn[p] = NoConn \/ (~polite(p) /\ Collides(conn[p]))
  <2>1. inbox' = Read(p) /\ conn' = conn /\ state' = state
    BY <1>7 DEF ReceivesOffer
  <2>2. Hears(p)
    BY <1>1, <2>1, Listens
  <2>3. ~remote[p] \/ conn[p] = NoConn \/ (p = Impolite /\ Collides(conn[p]))
    BY <1>7 DEF polite, Pages
  <2>4. Ignoring(p) /\ Rests(q)
    BY <1>1, <1>2, <1>7, <2>1, <2>2, <2>3 DEF Ignoring, Rests, Still
  <2> QED BY <2>4 DEF Moves
<1>8. CASE /\ ~(remote[p] /\ Materializes(p))
           /\ remote[p] /\ conn[p] # NoConn /\ ~(~polite(p) /\ Collides(conn[p]))
  <2>1. ~conn[p].making /\ Takes(p, conn[p], n) /\ state' = state
    BY <1>3, <1>8 DEF ReceivesOffer
  <2>2. p = Polite \/ conn[p].sig = "stable"
    BY <1>8 DEF polite, Collides
  <2>3. conn[p] \in Conns
    BY DEF Intact, Wires
  <2>4. Taking(p)
    BY <1>1, <1>2, <1>3, <1>5, <1>8, <2>1, <2>2, <2>3 DEF Taking
  <2> QED BY <1>1, <1>5, <2>1, <2>3, <2>4 DEF Moves, Rests, Still
<1> QED BY <1>6, <1>7, <1>8

LEMMA AnswerMoves ==
  ASSUME Intact, NEW p \in Pages, NEW q \in Pages, q # p, ReceivesAnswer(p)
  PROVE  Moves(p) /\ Rests(q)
<1>1. Receives(p, "answer") /\ inbox' = Read(p) /\ prompt' = prompt
  BY DEF ReceivesAnswer
<1>2. Hears(p) /\ Head(inbox[p]).call = "answer"
  BY <1>1, Listens DEF Receives
<1>3. CASE ~remote[p] \/ (conn[p] = NoConn /\ ~Materializes(p))
  <2>1. UNCHANGED hook
    BY <1>3 DEF ReceivesAnswer
  <2>2. Ignoring(p) /\ Rests(q)
    BY <1>1, <1>2, <1>3, <2>1 DEF Ignoring, Rests, Still, hook
  <2> QED BY <2>2 DEF Moves
<1>4. CASE remote[p] /\ ~(conn[p] = NoConn /\ ~Materializes(p)) /\ conn[p].sig # "offered"
  <2>1. teardown(p)
    BY <1>4 DEF ReceivesAnswer, failed
  <2>2. Torn(p) /\ Still(q)
    BY <2>1, TornDown
  <2>3. Tearing(p) /\ Rests(q)
    BY <1>1, <1>2, <1>4, <2>2 DEF Tearing, Rests, Still
  <2> QED BY <2>3 DEF Moves
<1>5. CASE remote[p] /\ ~(conn[p] = NoConn /\ ~Materializes(p)) /\ conn[p].sig = "offered"
  <2>1. /\ state' = state /\ remote' = remote /\ local' = local
        /\ conn' = [conn EXCEPT ![p].sig = "stable",
                                ![p].link = IF Head(inbox[p]).to = conn[p].id
                                            THEN Head(inbox[p]).from ELSE 0]
    BY <1>5 DEF ReceivesAnswer
  <2>2. /\ conn'[q] = conn[q]
        /\ conn'[p] = [conn[p] EXCEPT !.sig = "stable",
                         !.link = IF Head(inbox[p]).to = conn[p].id THEN Head(inbox[p]).from ELSE 0]
    BY <2>1 DEF Intact, Wires
  <2>3. Concluding(p) /\ Rests(q)
    BY <1>1, <1>2, <1>5, <2>1, <2>2 DEF Concluding, Rests, Still
  <2> QED BY <2>3 DEF Moves
<1> QED BY <1>3, <1>4, <1>5

LEMMA PathMoves ==
  ASSUME Intact, NEW p \in Pages, NEW q \in Pages, q # p, faults \in Nat, faults' = faults,
         NegotiationNeeded(p) \/ SendsOffer(p) \/ Connected(p) \/ ConnectTimeout(p) \/ PathFails(p)
  PROVE  Moves(p) /\ Rests(q)
<1>0. conn[p] \in Conns
  BY DEF Intact, Wires
<1>1. CASE NegotiationNeeded(p)
  <2>1. /\ conn[p].need /\ conn[p].sig = "stable" /\ inbox' = inbox
        /\ state' = state /\ remote' = remote /\ local' = local /\ prompt' = prompt
        /\ conn' = [conn EXCEPT ![p].need = FALSE, ![p].making = TRUE]
    BY <1>1 DEF NegotiationNeeded
  <2>2. conn'[q] = conn[q] /\ conn'[p] = [conn[p] EXCEPT !.need = FALSE, !.making = TRUE]
    BY <2>1 DEF Intact, Wires
  <2>3. /\ conn'[p].id = conn[p].id /\ conn'[p].link = conn[p].link
        /\ conn'[p].sig = conn[p].sig /\ ~conn'[p].need /\ conn'[p].making
    BY <1>0, <2>2 DEF Conns
  <2>4. Negotiating(p) /\ Rests(q)
    BY <2>1, <2>2, <2>3 DEF Negotiating, Rests, Still
  <2> QED BY <2>4 DEF Moves
<1>2. CASE SendsOffer(p)
  <2>1. /\ conn[p].making /\ inbox' = Sent(p, inbox, <<Sdp("offer", p, conn[p])>>)
        /\ state' = state /\ remote' = remote /\ local' = local /\ prompt' = prompt
        /\ conn' = [conn EXCEPT ![p].making = FALSE, ![p].sig = "offered"]
    BY <1>2 DEF SendsOffer, Send
  <2>2. conn'[q] = conn[q] /\ conn'[p] = [conn[p] EXCEPT !.making = FALSE, !.sig = "offered"]
    BY <2>1 DEF Intact, Wires
  <2>3. /\ conn'[p].id = conn[p].id /\ conn'[p].link = conn[p].link
        /\ conn'[p].sig = "offered" /\ conn'[p].need = conn[p].need /\ ~conn'[p].making
    BY <1>0, <2>2 DEF Conns
  <2>4. Says(p, Sdp("offer", p, conn[p]))
    BY <1>0, <2>1, SdpType, Speaks
  <2>5. Negotiating(p) /\ Rests(q)
    BY <2>1, <2>2, <2>3, <2>4 DEF Negotiating, Rests, Still
  <2> QED BY <2>5 DEF Moves
<1>3. CASE Connected(p)
  <2>1. /\ Linked(p) /\ state[p] = "connecting" /\ state' = [state EXCEPT ![p] = "active"]
        /\ inbox' = inbox /\ remote' = remote /\ local' = local /\ prompt' = prompt
        /\ conn' = [conn EXCEPT ![p].timer = FALSE]
    BY <1>3 DEF Connected
  <2>2. /\ conn'[q] = conn[q] /\ conn'[p] = [conn[p] EXCEPT !.timer = FALSE]
        /\ state'[p] = "active" /\ state'[q] = state[q]
    BY <2>1 DEF Intact, Wires, Hooks
  <2>3. Arriving(p) /\ Rests(q)
    BY <2>1, <2>2 DEF Arriving, Rests, Still
  <2> QED BY <2>3 DEF Moves
<1>4. CASE ConnectTimeout(p) \/ PathFails(p)
  <2>1. /\ teardown(p) /\ inbox' = inbox /\ prompt' = prompt
        /\ conn[p].timer \/ state[p] = "active"
    BY <1>4 DEF ConnectTimeout, PathFails, failed
  <2>2. Torn(p) /\ Still(q)
    BY <2>1, TornDown
  <2>3. Tearing(p) /\ Rests(q)
    BY <2>1, <2>2 DEF Tearing, Rests, Still
  <2> QED BY <2>3 DEF Moves
<1> QED BY <1>1, <1>2, <1>3, <1>4

LEMMA NextMoves ==
  ASSUME Intact, Next, calls \in Nat, calls' = calls, faults \in Nat, faults' = faults
  PROVE  \E p \in Pages : Moves(p) /\ Rests(Other(p)) /\ present' = present
<1>1. PICK p \in Pages : \/ User(p) \/ Page(p)
                         \/ Connected(p) \/ ConnectTimeout(p) \/ PathFails(p)
                         \/ Leaves(p) \/ Returns(p) \/ SignalLost(p)
  BY DEF Next
<1>2. ~Leaves(p) /\ ~SignalLost(p)
  BY DEF Leaves, SignalLost, Fault
<1>3. ~Returns(p)
  BY DEF Returns, Intact
<1>4. PICK q \in Pages : q = Other(p) /\ q # p
  BY PageFacts
<1>5. Moves(p) /\ Rests(q)
  BY <1>1, <1>2, <1>3, <1>4, UserMoves, RingMoves, OfferMoves, AnswerMoves, PathMoves DEF Page
<1>6. present' = present
  BY <1>1, <1>2, <1>3 DEF User, Page, startCall, acceptCall, StartGranted, AcceptGranted, Denied,
     declineCall, endCall, ReceivesInvite, ReceivesAccept, ReceivesEnd, ReceivesOffer,
     ReceivesAnswer, PeerLeft, PeerHere, NegotiationNeeded, SendsOffer, Connected,
     ConnectTimeout, PathFails
<1> QED BY <1>4, <1>5, <1>6

(* --------------------------- stages of the first call -------------------- *)

Uninvited(p) == \A i \in 1..Len(inbox[p]) : inbox[p][i].call # "invite"

\* The call is over at p, or will be: what ends it is on its way.
Gone(p) == /\ state[p] = "idle" /\ ~remote[p] /\ conn[p] = NoConn /\ prompt[p] = "none"
           /\ prompt[Other(p)] # "start" /\ Uninvited(p)
Ending(p) == /\ remote[p] /\ state[p] # "ringing" /\ prompt[p] = "none"
             /\ prompt[Other(p)] # "start" /\ Uninvited(p)
             /\ \E i \in 1..Len(inbox[p]) : inbox[p][i].call \in Hangups
Over == \E p \in Pages : Gone(p) \/ Ending(p)

Resting(p) == state[p] = "idle" /\ ~remote[p] /\ conn[p] = NoConn /\ inbox[p] = <<>>
Untouched == \A p \in Pages : Resting(p) /\ prompt[p] = "none"

\* The ring: a asks for the camera, invites the other page, and that page accepts.
Asking(a) == /\ Resting(a) /\ Resting(Other(a))
             /\ prompt[a] = "start" /\ prompt[Other(a)] = "none"
Calling(a) == /\ state[a] = "calling" /\ remote[a] /\ local[a]
              /\ conn[a] = NoConn /\ prompt[a] = "none"
Inviting(a) == LET b == Other(a) IN
    /\ Calling(a) /\ inbox[a] = <<>> /\ inbox[b] = <<Plain("invite")>>
    /\ state[b] = "idle" /\ ~remote[b] /\ conn[b] = NoConn /\ prompt[b] = "none"
Rings(a) == LET b == Other(a) IN
    /\ Calling(a) /\ inbox[a] = <<>> /\ inbox[b] = <<>>
    /\ state[b] = "ringing" /\ remote[b] /\ conn[b] = NoConn /\ prompt[b] # "start"

\* The negotiation: each page has an offer to make, or has made it, until it takes
\* the other's description.
InCall(p) == /\ remote[p] /\ prompt[p] = "none"
                 /\ conn[p].id # 0 /\ state[p] \in {"connecting", "active"}
Offer(p) == [call |-> "offer", from |-> conn[p].id, to |-> 0]
Answer(p) == [call |-> "answer", from |-> conn[p].id, to |-> conn[p].link]
Offered(p) == conn[p].sig = "offered"
Offering(p) == LET c == conn[p] IN
    /\ InCall(p) /\ c.link = 0
    /\ \/ c.need /\ ~c.making /\ c.sig = "stable"
       \/ ~c.need /\ c.making /\ c.sig = "stable"
       \/ ~c.need /\ ~c.making /\ c.sig = "offered"
Agreed(p) == LET c == conn[p] IN
    InCall(p) /\ c.link = conn[Other(p)].id /\ ~c.need /\ ~c.making /\ c.sig = "stable"
Accepted(a) == LET b == Other(a) IN
    /\ Calling(a) /\ Offering(b) /\ inbox[b] = <<>>
    /\ inbox[a] = IF Offered(b) THEN <<Plain("accept"), Offer(b)>> ELSE <<Plain("accept")>>
BothOffer ==
    /\ Offering(Impolite) /\ Offering(Polite)
    /\ inbox[Polite] = IF Offered(Impolite) THEN <<Offer(Impolite)>> ELSE <<>>
    /\ \/ inbox[Impolite] = <<Offer(Polite)>> /\ Offered(Polite)
       \/ inbox[Impolite] = <<>> /\ (Offered(Polite) => Collides(conn[Impolite]))
ImpoliteTook ==
    /\ Agreed(Impolite) /\ Offering(Polite) /\ Offered(Polite)
    /\ inbox[Impolite] = <<>> /\ inbox[Polite] = <<Answer(Impolite)>>
PoliteTook ==
    /\ Agreed(Polite) /\ Offering(Impolite) /\ Offered(Impolite) /\ inbox[Polite] = <<>>
    /\ \/ inbox[Impolite] = <<Answer(Polite)>>
       \/ inbox[Impolite] = <<Offer(Polite), Answer(Polite)>>
Settled == \A p \in Pages : Agreed(p) /\ inbox[p] = <<>>
Stage == \/ BothOffer \/ ImpoliteTook \/ PoliteTook \/ Settled
         \/ \E a \in Pages : Asking(a) \/ Inviting(a) \/ Rings(a) \/ Accepted(a)

\* In every state without a fault whose only call is the first one.
GlareInv == faults = 0 /\ calls <= 1 =>
    /\ \A p \in Pages : present[p]
    /\ calls = 0 => Untouched
    /\ calls = 1 => Over \/ Stage

LEMMA AppendOne ==
  ASSUME NEW S, NEW f \in S, NEW g \in S
  PROVE  Append(<<f>>, g) = <<f, g>>
<1>1. PICK r : r = <<f>>
  OBVIOUS
<1>2. r \in Seq(S) /\ Len(r) = 1 /\ r[1] = f
  BY <1>1
<1>3. PICK s : s = <<f, g>>
  OBVIOUS
<1>4. s \in Seq(S) /\ Len(s) = 2 /\ s[1] = f /\ s[2] = g
  BY <1>3
<1>5. PICK q : q = Append(r, g)
  OBVIOUS
<1>6. q \in Seq(S) /\ Len(q) = 2
  BY <1>2, <1>5
<1>7. q[2] = g
  BY <1>2, <1>5
<1>8. q[1] = f
  BY <1>2, <1>5
<1>9. \A i \in 1..2 : q[i] = s[i]
  BY <1>4, <1>7, <1>8
<1>10. q = s
  BY <1>4, <1>6, <1>9, SeqEqual
<1> QED BY <1>1, <1>3, <1>5, <1>10

LEMMA PairFacts ==
  ASSUME NEW S, NEW f \in S, NEW g \in S
  PROVE  /\ Head(<<f, g>>) = f /\ Tail(<<f, g>>) = <<g>>
         /\ Append(<<f>>, g) = <<f, g>> /\ <<f, g>> # <<>>
<1>1. Head(<<f, g>>) = f
  OBVIOUS
<1>2. Tail(<<f, g>>) = <<g>>
  OBVIOUS
<1>3. Append(<<f>>, g) = <<f, g>>
  BY AppendOne
<1>4. <<f, g>> # <<>>
  OBVIOUS
<1> QED BY <1>1, <1>2, <1>3, <1>4

LEMMA BoxFacts ==
  /\ \A f \in Frames : /\ Head(<<f>>) = f /\ Tail(<<f>>) = <<>> /\ Append(<<>>, f) = <<f>>
                       /\ <<f>> # <<>>
  /\ \A f, g \in Frames : /\ Head(<<f, g>>) = f /\ Tail(<<f, g>>) = <<g>>
                          /\ Append(<<f>>, g) = <<f, g>> /\ <<f, g>> # <<>>
<1>1. ASSUME NEW f \in Frames
      PROVE  Head(<<f>>) = f /\ Tail(<<f>>) = <<>> /\ Append(<<>>, f) = <<f>> /\ <<f>> # <<>>
  OBVIOUS
<1>2. ASSUME NEW f \in Frames, NEW g \in Frames
      PROVE  /\ Head(<<f, g>>) = f /\ Tail(<<f, g>>) = <<g>>
             /\ Append(<<f>>, g) = <<f, g>> /\ <<f, g>> # <<>>
  BY PairFacts
<1> QED BY <1>1, <1>2

LEMMA UninvitedKept ==
  ASSUME Boxes, NEW p \in Pages, Uninvited(p)
  PROVE  /\ inbox'[p] = inbox[p] => Uninvited(p)'
         /\ inbox[p] # <<>> /\ inbox'[p] = Tail(inbox[p]) => Uninvited(p)'
         /\ \A f \in Frames : f.call # "invite" /\ inbox'[p] = Append(inbox[p], f) => Uninvited(p)'
         /\ inbox[p] # <<>> => Head(inbox[p]).call # "invite"
<1>1. PICK box \in Seq(Frames) : box = inbox[p]
  BY DEF Boxes
<1>2. \A i \in 1..Len(box) : box[i].call # "invite"
  BY <1>1 DEF Uninvited
<1>3. ASSUME inbox'[p] = box PROVE Uninvited(p)'
  BY <1>2, <1>3 DEF Uninvited
<1>4. ASSUME box # <<>>, inbox'[p] = Tail(box) PROVE Uninvited(p)'
  <2>1. /\ Len(Tail(box)) = Len(box) - 1
        /\ \A i \in 1..Len(Tail(box)) : Tail(box)[i] = box[i + 1]
    BY <1>4
  <2>2. \A i \in 1..Len(Tail(box)) : i + 1 \in 1..Len(box)
    BY <2>1
  <2> QED BY <1>2, <1>4, <2>1, <2>2 DEF Uninvited
<1>5. ASSUME NEW f \in Frames, f.call # "invite", inbox'[p] = Append(box, f) PROVE Uninvited(p)'
  <2>1. /\ Len(Append(box, f)) = Len(box) + 1 /\ Append(box, f)[Len(box) + 1] = f
        /\ \A i \in 1..Len(box) : Append(box, f)[i] = box[i]
    OBVIOUS
  <2>2. ASSUME NEW i \in 1..Len(Append(box, f)) PROVE Append(box, f)[i].call # "invite"
    <3>1. i \in 1..Len(box) \/ i = Len(box) + 1
      BY <2>1
    <3> QED BY <1>2, <1>5, <2>1, <3>1
  <2> QED BY <1>5, <2>2 DEF Uninvited
<1>6. box # <<>> => Head(box).call # "invite"
  BY <1>2
<1> QED BY <1>1, <1>3, <1>4, <1>5, <1>6

LEMMA HangupKept ==
  ASSUME Boxes, NEW p \in Pages, NEW i \in 1..Len(inbox[p]), inbox[p][i].call \in Hangups
  PROVE  /\ inbox'[p] = inbox[p] => \E j \in 1..Len(inbox'[p]) : inbox'[p][j].call \in Hangups
         /\ inbox'[p] = Tail(inbox[p]) /\ Head(inbox[p]).call \notin Hangups
              => \E j \in 1..Len(inbox'[p]) : inbox'[p][j].call \in Hangups
         /\ \A f \in Frames : inbox'[p] = Append(inbox[p], f)
              => \E j \in 1..Len(inbox'[p]) : inbox'[p][j].call \in Hangups
<1>1. PICK box \in Seq(Frames) : box = inbox[p]
  BY DEF Boxes
<1>2. i \in 1..Len(box) /\ box[i].call \in Hangups
  BY <1>1
<1>3. ASSUME Head(box).call \notin Hangups
      PROVE  \E j \in 1..Len(Tail(box)) : Tail(box)[j].call \in Hangups
  <2>1. i # 1 /\ box # <<>>
    BY <1>2, <1>3
  <2>2. i - 1 \in 1..Len(Tail(box)) /\ Tail(box)[i - 1] = box[i]
    BY <1>2, <2>1
  <2> QED BY <1>2, <2>2
<1>4. ASSUME NEW f \in Frames
      PROVE  \E j \in 1..Len(Append(box, f)) : Append(box, f)[j].call \in Hangups
  <2>1. i \in 1..Len(Append(box, f)) /\ Append(box, f)[i] = box[i]
    BY <1>2
  <2> QED BY <1>2, <2>1
<1> QED BY <1>1, <1>2, <1>3, <1>4

\* What a step of the other page does to p's inbox.
LEMMA HeardFromOther ==
  ASSUME Intact, NEW p \in Pages, NEW u \in Pages, p = Other(u), Moves(u), Rests(p),
         prompt[u] # "start", conn'[u] \in Conns
  PROVE  /\ \/ inbox'[p] = inbox[p]
            \/ \E f \in Frames : f.call # "invite" /\ inbox'[p] = Append(inbox[p], f)
         /\ prompt'[u] # "start"
<1>0. /\ \A s \in Signals : Plain(s) \in Frames /\ Plain(s).call = s
      /\ conn[u] \in Conns
  BY PlainType DEF Plain, Intact, Wires
<1>1. CASE Prompting(u) \/ Starting(u)
  BY <1>1 DEF Prompting, Starting
<1>2. CASE Joining(u)
  BY <1>0, <1>2 DEF Joining, Says, Signals
<1>3. CASE Tearing(u)
  BY <1>0, <1>3 DEF Tearing, Says, Hears, Signals
<1>4. CASE Ringing(u) \/ Building(u) \/ Ignoring(u) \/ Concluding(u) \/ Arriving(u)
  BY <1>4 DEF Ringing, Building, Ignoring, Concluding, Arriving, Hears, Rests, Still
<1>5. CASE Refusing(u)
  BY <1>0, <1>5 DEF Refusing, Replies, Rests, Still, Signals
<1>6. CASE Taking(u)
  <2>1. Sdp("answer", u, conn'[u]) \in Frames /\ Sdp("answer", u, conn'[u]).call # "invite"
    BY <1>6, SdpType DEF Sdp
  <2> QED BY <1>6, <2>1 DEF Taking, Replies
<1>7. CASE Negotiating(u)
  <2>1. Sdp("offer", u, conn[u]) \in Frames /\ Sdp("offer", u, conn[u]).call # "invite"
    BY <1>0, SdpType DEF Sdp
  <2> QED BY <1>7, <2>1 DEF Negotiating, Says
<1> QED BY <1>1, <1>2, <1>3, <1>4, <1>5, <1>6, <1>7 DEF Moves

LEMMA OverStays ==
  ASSUME Intact, Wires', NEW p \in Pages, NEW u \in Pages, Moves(u), Rests(Other(u)),
         Gone(p) \/ Ending(p)
  PROVE  Gone(p)' \/ Ending(p)'
<1>0. /\ Other(p) \in Pages /\ Other(p) # p /\ (u # p => p = Other(u) /\ u = Other(p))
      /\ Boxes /\ conn[p] \in Conns /\ conn'[u] \in Conns
  BY PageFacts DEF Intact, Wires, Pages, Other
<1>1. /\ NoConn.id = 0 /\ ~NoConn.need /\ ~NoConn.making /\ ~NoConn.timer
  BY DEF NoConn
<1>2. CASE u # p
  <2>1. prompt[u] # "start" /\ Uninvited(p)
    BY <1>0, <1>2 DEF Gone, Ending
  <2>2. /\ \/ inbox'[p] = inbox[p]
           \/ \E f \in Frames : f.call # "invite" /\ inbox'[p] = Append(inbox[p], f)
        /\ prompt'[u] # "start" /\ Rests(p)
    BY <1>0, <1>2, <2>1, HeardFromOther
  <2>3. Uninvited(p)'
    BY <1>0, <2>1, <2>2, UninvitedKept
  <2>4. ASSUME Ending(p)
        PROVE  \E j \in 1..Len(inbox'[p]) : inbox'[p][j].call \in Hangups
    <3>1. PICK i \in 1..Len(inbox[p]) : inbox[p][i].call \in Hangups
      BY <2>4 DEF Ending
    <3> QED BY <1>0, <2>2, <3>1, HangupKept
  <2> QED BY <1>0, <1>2, <2>2, <2>3, <2>4 DEF Gone, Ending, Rests, Still
<1>3. CASE u = p /\ Gone(p)
  <2>1. /\ state[p] = "idle" /\ ~remote[p] /\ conn[p] = NoConn /\ prompt[p] = "none"
        /\ inbox[p] # <<>> => Head(inbox[p]).call # "invite"
    BY <1>0, <1>3, UninvitedKept DEF Gone
  <2>2. ~Prompting(p) /\ ~Starting(p) /\ ~Joining(p) /\ ~Ringing(p) /\ ~Refusing(p) /\ ~Building(p)
        /\ ~Taking(p) /\ ~Concluding(p) /\ ~Negotiating(p)
    BY <1>1, <2>1 DEF Prompting, Starting, Joining, Ringing, Refusing, Building, Taking,
       Concluding, Negotiating, Hears
  <2>3. ~Tearing(p) /\ ~Arriving(p)
    BY <1>1, <2>1 DEF Tearing, Arriving, Linked
  <2>4. Ignoring(p)
    BY <1>3, <2>2, <2>3 DEF Moves
  <2>5. Uninvited(p)'
    BY <1>0, <1>3, <2>4, UninvitedKept DEF Gone, Ignoring, Hears
  <2> QED BY <1>3, <2>4, <2>5 DEF Gone, Ignoring, Rests, Still
<1>4. CASE u = p /\ Ending(p)
  <2>1. /\ remote[p] /\ state[p] # "ringing" /\ prompt[p] = "none" /\ Uninvited(p)
        /\ inbox[p] # <<>> => Head(inbox[p]).call # "invite"
        /\ prompt'[Other(p)] # "start"
    BY <1>0, <1>4, UninvitedKept DEF Ending, Rests, Still
  <2>2. ~Prompting(p) /\ ~Starting(p) /\ ~Joining(p) /\ ~Ringing(p) /\ ~Refusing(p)
    BY <2>1 DEF Prompting, Starting, Joining, Ringing, Refusing, Replies, Hears
  <2>3. CASE Tearing(p)
    <3>1. Torn(p) /\ prompt'[p] = "none"
      BY <2>1, <2>3 DEF Tearing
    <3>2. inbox'[p] = inbox[p] \/ (inbox[p] # <<>> /\ inbox'[p] = Tail(inbox[p]))
      BY <1>0, <2>1, <2>3 DEF Tearing, Says, Hears
    <3>3. Uninvited(p)'
      BY <1>0, <2>1, <3>2, UninvitedKept
    <3> QED BY <2>1, <3>1, <3>3 DEF Gone, Torn
  <2>4. CASE ~Tearing(p)
    <3>1. Building(p) \/ Ignoring(p) \/ Taking(p) \/ Concluding(p) \/ Negotiating(p) \/ Arriving(p)
      BY <1>4, <2>2, <2>4 DEF Moves
    <3>2. remote'[p] /\ state'[p] # "ringing" /\ prompt'[p] = "none"
      BY <2>1, <3>1 DEF Building, Ignoring, Taking, Concluding, Negotiating, Arriving, Rests, Still
    <3>3. \/ inbox'[p] = inbox[p]
          \/ /\ inbox[p] # <<>> /\ inbox'[p] = Tail(inbox[p])
             /\ Head(inbox[p]).call \notin Hangups
      BY <2>1, <3>1 DEF Building, Ignoring, Taking, Concluding, Negotiating, Arriving, Rests, Still,
         Hears, Replies, Says, Hangups
    <3>4. Uninvited(p)'
      BY <1>0, <2>1, <3>3, UninvitedKept
    <3>5. PICK i \in 1..Len(inbox[p]) : inbox[p][i].call \in Hangups
      BY <1>4 DEF Ending
    <3>6. \E j \in 1..Len(inbox'[p]) : inbox'[p][j].call \in Hangups
      BY <1>0, <3>3, <3>5, HangupKept
    <3> QED BY <2>1, <3>2, <3>4, <3>6 DEF Ending
  <2> QED BY <2>3, <2>4
<1> QED BY <1>2, <1>3, <1>4

LEMMA TornIsGone ==
  ASSUME Intact, NEW p \in Pages, Tearing(p), Rests(Other(p)),
         prompt[p] = "none", prompt[Other(p)] # "start", Uninvited(p)
  PROVE  Gone(p)'
<1>1. Torn(p) /\ prompt'[p] = "none" /\ prompt'[Other(p)] # "start"
  BY DEF Tearing, Rests, Still
<1>2. inbox'[p] = inbox[p] \/ (inbox[p] # <<>> /\ inbox'[p] = Tail(inbox[p]))
  BY DEF Tearing, Says, Hears
<1>3. Uninvited(p)'
  BY <1>2, UninvitedKept DEF Intact
<1> QED BY <1>1, <1>3 DEF Gone, Torn

LEMMA DeafMoves ==
  ASSUME NEW p \in Pages, Moves(p), inbox[p] = <<>>
  PROVE  \/ Prompting(p) \/ Starting(p) \/ Joining(p) \/ Tearing(p)
         \/ Negotiating(p) \/ Arriving(p)
BY DEF Moves, Ringing, Refusing, Building, Ignoring, Taking, Concluding, Hears, Replies

\* A page that is in a call, or on its way into one, does not turn to its prompt.
LEMMA InCallMoves ==
  ASSUME NEW p \in Pages, Moves(p), prompt[p] = "none", state[p] \notin {"idle", "ringing"}
  PROVE  /\ ~Prompting(p) /\ ~Starting(p) /\ ~Joining(p) /\ ~Ringing(p)
         /\ \/ Tearing(p) \/ Refusing(p) \/ Building(p) \/ Ignoring(p) \/ Taking(p)
            \/ Concluding(p) \/ Negotiating(p) \/ Arriving(p)
BY DEF Moves, Prompting, Starting, Joining, Ringing

LEMMA NoConnFacts ==
  /\ NoConn.id = 0 /\ NoConn.sig = "stable" /\ NoConn.link = 0
  /\ ~NoConn.need /\ ~NoConn.making /\ ~NoConn.timer
BY DEF NoConn

\* What is said to a page that has read everything is all it has to read.
LEMMA SaidFirst ==
  ASSUME NEW p, NEW q, q = Other(p), NEW f \in Frames, Says(p, f), inbox[q] = <<>>
  PROVE  inbox'[q] = <<f>> /\ inbox'[p] = inbox[p]
<1>1. Append(<<>>, f) = <<f>>
  BY BoxFacts
<1> QED BY <1>1 DEF Says

LEMMA PlainFacts ==
  /\ Plain("invite") \in Frames /\ Plain("invite").call = "invite"
  /\ Plain("accept") \in Frames /\ Plain("accept").call = "accept"
  /\ Plain("decline") \in Frames /\ Plain("decline").call = "decline"
BY DEF Plain, Frames, Signals

LEMMA FrameFacts ==
  ASSUME Intact, NEW p \in Pages
  PROVE  /\ Offer(p) \in Frames /\ Offer(p).call = "offer" /\ Offer(p).from = conn[p].id
         /\ Answer(p) \in Frames /\ Answer(p).call = "answer" /\ Answer(p).from = conn[p].id
         /\ Answer(p).to = conn[p].link
         /\ conn[p] \in Conns
<1>1. conn[p] \in Conns
  BY DEF Intact, Wires
<1>2. conn[p].id \in Nat /\ conn[p].link \in Nat
  BY <1>1 DEF Conns
<1>3. Offer(p) \in Frames /\ Answer(p) \in Frames
  BY <1>2 DEF Offer, Answer, Frames
<1> QED BY <1>1, <1>3 DEF Offer, Answer

LEMMA UninvitedBox ==
  ASSUME NEW p,
         \/ inbox[p] = <<>>
         \/ \E f \in Frames : f.call # "invite" /\ inbox[p] = <<f>>
         \/ \E f, g \in Frames : f.call # "invite" /\ g.call # "invite" /\ inbox[p] = <<f, g>>
  PROVE  Uninvited(p)
<1>1. CASE inbox[p] = <<>>
  BY <1>1 DEF Uninvited
<1>2. CASE \E f \in Frames : f.call # "invite" /\ inbox[p] = <<f>>
  BY <1>2 DEF Uninvited
<1>3. CASE \E f, g \in Frames : f.call # "invite" /\ g.call # "invite" /\ inbox[p] = <<f, g>>
  <2>1. PICK f, g \in Frames : f.call # "invite" /\ g.call # "invite" /\ inbox[p] = <<f, g>>
    BY <1>3
  <2>2. Len(<<f, g>>) = 2 /\ <<f, g>>[1] = f /\ <<f, g>>[2] = g
    OBVIOUS
  <2>3. ASSUME NEW i \in 1..Len(inbox[p]) PROVE inbox[p][i].call # "invite"
    <3>1. i = 1 \/ i = 2
      BY <2>1, <2>2
    <3> QED BY <2>1, <2>2, <3>1
  <2> QED BY <2>3 DEF Uninvited
<1> QED BY <1>1, <1>2, <1>3

LEMMA AskingMoves ==
  ASSUME Intact, NEW a \in Pages, NEW b \in Pages, b = Other(a), a = Other(b), a # b,
         Asking(a), NEW u \in {a, b}, Moves(u), Rests(Other(u))
  PROVE  Gone(a)' \/ Inviting(a)'
<1>1. /\ state[a] = "idle" /\ ~remote[a] /\ conn[a] = NoConn /\ inbox[a] = <<>>
      /\ state[b] = "idle" /\ ~remote[b] /\ conn[b] = NoConn /\ inbox[b] = <<>>
      /\ prompt[a] = "start" /\ prompt[b] = "none"
  BY DEF Asking, Resting
<1>2. CASE u = b
  BY <1>1, <1>2, DeafMoves, NoConnFacts
     DEF Prompting, Starting, Joining, Tearing, Hears, Negotiating, Arriving, Linked
<1>3. CASE u = a
  <2>1. Starting(a) \/ Tearing(a)
    BY <1>1, <1>3, DeafMoves, NoConnFacts DEF Prompting, Joining, Negotiating, Arriving, Linked
  <2>2. Rests(b)
    BY <1>3
  <2>3. CASE Starting(a)
    <3>1. inbox'[a] = <<>> /\ inbox'[b] = <<Plain("invite")>>
      BY <1>1, <2>3, PlainFacts, SaidFirst DEF Starting
    <3>2. Calling(a)'
      BY <1>1, <2>3 DEF Starting, Calling
    <3> QED BY <1>1, <2>2, <3>1, <3>2 DEF Inviting, Rests, Still
  <2>4. CASE Tearing(a)
    <3>1. Torn(a) /\ prompt'[a] = "none" /\ inbox'[a] = inbox[a]
      BY <1>1, <2>4, NoConnFacts DEF Tearing, Hears
    <3>2. Uninvited(a)'
      BY <1>1, <3>1 DEF Uninvited
    <3> QED BY <1>1, <2>2, <3>1, <3>2 DEF Gone, Torn, Rests, Still
  <2> QED BY <2>1, <2>3, <2>4
<1> QED BY <1>2, <1>3

LEMMA InvitingMoves ==
  ASSUME Intact, NEW a \in Pages, NEW b \in Pages, b = Other(a), a = Other(b), a # b,
         Inviting(a), NEW u \in {a, b}, Moves(u), Rests(Other(u))
  PROVE  Gone(a)' \/ Rings(a)'
<1>1. /\ Calling(a) /\ inbox[a] = <<>> /\ inbox[b] = <<Plain("invite")>>
      /\ state[b] = "idle" /\ ~remote[b] /\ conn[b] = NoConn /\ prompt[b] = "none"
  BY DEF Inviting
<1>2. CASE u = a
  <2>1. Tearing(a)
    BY <1>1, <1>2, DeafMoves, NoConnFacts
       DEF Calling, Prompting, Starting, Joining, Negotiating, Arriving, Linked
  <2>2. Uninvited(a)
    BY <1>1, UninvitedBox
  <2> QED BY <1>1, <1>2, <2>1, <2>2, TornIsGone DEF Calling
<1>3. CASE u = b
  <2>1. Head(inbox[b]).call = "invite" /\ Tail(inbox[b]) = <<>>
    BY <1>1, PlainFacts, BoxFacts
  <2>2. ~Tearing(b) /\ ~Arriving(b) /\ ~Negotiating(b)
    BY <1>1, NoConnFacts DEF Tearing, Arriving, Linked, Negotiating
  <2>3. Ringing(b)
    BY <1>1, <1>3, <2>1, <2>2, NoConnFacts DEF Moves, Prompting, Starting, Joining, Refusing,
       Building, Ignoring, Taking, Concluding, Hangups
  <2>4. inbox'[a] = <<>> /\ inbox'[b] = <<>>
    BY <1>1, <2>1, <2>3 DEF Ringing, Hears
  <2>5. Calling(a)'
    BY <1>1, <1>3 DEF Calling, Rests, Still
  <2> QED BY <1>1, <2>3, <2>4, <2>5 DEF Rings, Ringing
<1> QED BY <1>2, <1>3

LEMMA RingsMoves ==
  ASSUME Intact, NEW a \in Pages, NEW b \in Pages, b = Other(a), a = Other(b), a # b,
         Rings(a), NEW u \in {a, b}, Moves(u), Rests(Other(u))
  PROVE  Gone(a)' \/ Ending(a)' \/ Rings(a)' \/ Accepted(a)'
<1>1. /\ Calling(a) /\ inbox[a] = <<>> /\ inbox[b] = <<>>
      /\ state[b] = "ringing" /\ remote[b] /\ conn[b] = NoConn /\ prompt[b] # "start"
  BY DEF Rings
<1>2. CASE u = a
  <2>1. Tearing(a)
    BY <1>1, <1>2, DeafMoves, NoConnFacts
       DEF Calling, Prompting, Starting, Joining, Negotiating, Arriving, Linked
  <2>2. Uninvited(a)
    BY <1>1, UninvitedBox
  <2> QED BY <1>1, <1>2, <2>1, <2>2, TornIsGone DEF Calling
<1>3. CASE u = b
  <2>1. Prompting(b) \/ Joining(b) \/ Tearing(b)
    BY <1>1, <1>3, DeafMoves, NoConnFacts DEF Starting, Negotiating, Arriving, Linked
  <2>2. Calling(a)'
    BY <1>1, <1>3 DEF Calling, Rests, Still
  <2>3. CASE Prompting(b)
    BY <1>1, <2>2, <2>3 DEF Prompting, Rings
  <2>4. CASE Joining(b)
    <3>1. inbox'[b] = <<>> /\ inbox'[a] = <<Plain("accept")>>
      BY <1>1, <2>4, PlainFacts, SaidFirst DEF Joining
    <3>2. Offering(b)' /\ ~Offered(b)'
      BY <1>1, <2>4 DEF Joining, Fresh, Offering, InCall, Offered
    <3> QED BY <2>2, <3>1, <3>2 DEF Accepted
  <2>5. CASE Tearing(b)
    <3>1. Says(b, Plain("decline")) /\ prompt'[b] # "start"
      BY <1>1, <2>5, NoConnFacts DEF Tearing, Hears
    <3>2. inbox'[a] = <<Plain("decline")>>
      BY <1>1, <3>1, PlainFacts, SaidFirst
    <3>3. Plain("decline") \in Frames /\ Plain("decline").call = "decline"
      BY PlainFacts
    <3>4. Uninvited(a)'
      BY <3>2, <3>3 DEF Uninvited
    <3>5. \E i \in 1..Len(inbox'[a]) : inbox'[a][i].call \in Hangups
      BY <3>2, <3>3 DEF Hangups
    <3> QED BY <2>2, <3>1, <3>4, <3>5 DEF Ending, Calling
  <2> QED BY <2>1, <2>3, <2>4, <2>5
<1> QED BY <1>2, <1>3

\* A page whose hook rests keeps its part of a stage.
LEMMA RestKeeps ==
  ASSUME NEW p, Rests(p)
  PROVE  /\ Calling(p) => Calling(p)'
         /\ Offering(p) => Offering(p)'
         /\ Offered(p)' = Offered(p) /\ Offer(p)' = Offer(p) /\ Answer(p)' = Answer(p)
         /\ InCall(p) => InCall(p)'
BY DEF Rests, Still, Calling, Offering, Offered, Offer, Answer, InCall

\* A page with an offer to make makes it, in two steps.
LEMMA OfferingNegotiates ==
  ASSUME Intact, NEW p \in Pages, Offering(p), Negotiating(p)
  PROVE  /\ Offering(p)' /\ ~Offered(p)
         /\ \/ inbox' = inbox /\ ~Offered(p)' /\ conn'[p].making
            \/ Says(p, Offer(p)) /\ Offered(p)' /\ Offer(p)' = Offer(p)
<1>1. conn[p] \in Conns /\ conn[p].link = 0 /\ InCall(p)
  BY DEF Intact, Wires, Offering
<1>2. InCall(p)'
  BY <1>1 DEF Negotiating, InCall
<1>3. conn'[p].link = 0 /\ conn'[p].id = conn[p].id
  BY <1>1 DEF Negotiating
<1>4. CASE /\ conn[p].need /\ conn[p].sig = "stable" /\ inbox' = inbox
           /\ ~conn'[p].need /\ conn'[p].making /\ conn'[p].sig = "stable"
  BY <1>2, <1>3, <1>4 DEF Offering, Offered
<1>5. CASE /\ conn[p].making /\ Says(p, Sdp("offer", p, conn[p]))
           /\ conn'[p].need = conn[p].need /\ ~conn'[p].making /\ conn'[p].sig = "offered"
  <2>1. ~conn[p].need /\ conn[p].sig = "stable"
    BY <1>5 DEF Offering
  <2>2. Sdp("offer", p, conn[p]) = Offer(p)
    BY <1>1 DEF Sdp, Offer
  <2>3. Offer(p)' = Offer(p)
    BY <1>3 DEF Offer
  <2> QED BY <1>2, <1>3, <1>5, <2>1, <2>2, <2>3 DEF Offering, Offered
<1> QED BY <1>4, <1>5 DEF Negotiating

LEMMA AcceptedMoves ==
  ASSUME Intact, NEW a \in Pages, NEW b \in Pages, b = Other(a), a = Other(b), a # b,
         Accepted(a), NEW u \in {a, b}, Moves(u), Rests(Other(u))
  PROVE  \/ Gone(a)' \/ Gone(b)' \/ Accepted(a)'
         \/ /\ Offering(a)' /\ ~Offered(a)' /\ Offering(b)' /\ inbox'[b] = <<>>
            /\ inbox'[a] = IF Offered(b)' THEN <<Offer(b)'>> ELSE <<>>
<1>1. /\ Calling(a) /\ Offering(b) /\ inbox[b] = <<>> /\ InCall(b) /\ conn[b].link = 0
      /\ inbox[a] = IF Offered(b) THEN <<Plain("accept"), Offer(b)>> ELSE <<Plain("accept")>>
  BY DEF Accepted, Offering
<1>2. /\ Offer(b) \in Frames /\ Offer(b).call = "offer"
      /\ Plain("accept") \in Frames /\ Plain("accept").call = "accept"
  BY FrameFacts, PlainFacts
<1>3. inbox[a] # <<>> /\ Head(inbox[a]).call = "accept"
      /\ Tail(inbox[a]) = IF Offered(b) THEN <<Offer(b)>> ELSE <<>>
  <2>1. CASE Offered(b)
    <3>1. inbox[a] = <<Plain("accept"), Offer(b)>>
      BY <1>1, <2>1
    <3>2. inbox[a] # <<>> /\ Head(inbox[a]) = Plain("accept") /\ Tail(inbox[a]) = <<Offer(b)>>
      BY ONLY <1>2, <3>1, BoxFacts
    <3> QED BY <1>2, <2>1, <3>2
  <2>2. CASE ~Offered(b)
    <3>1. inbox[a] = <<Plain("accept")>>
      BY <1>1, <2>2
    <3>2. inbox[a] # <<>> /\ Head(inbox[a]) = Plain("accept") /\ Tail(inbox[a]) = <<>>
      BY ONLY <1>2, <3>1, BoxFacts
    <3> QED BY <1>2, <2>2, <3>2
  <2> QED BY <2>1, <2>2
<1>4. Uninvited(a) /\ Uninvited(b)
  <2>1. Uninvited(a)
    BY <1>1, <1>2, UninvitedBox
  <2> QED BY <1>1, <2>1, UninvitedBox
<1>5. CASE u = a
  <2>1. Tearing(a) \/ Building(a)
    <3>1. ~Negotiating(a) /\ ~Arriving(a)
      BY <1>1, NoConnFacts DEF Calling, Negotiating, Arriving, Linked
    <3>2. ~Refusing(a) /\ ~Taking(a) /\ ~Concluding(a)
      BY <1>3 DEF Refusing, Taking, Concluding
    <3>3. ~Ignoring(a)
      BY <1>1, <1>3 DEF Ignoring, Hangups, Calling
    <3> QED BY <1>1, <1>5, <3>1, <3>2, <3>3, InCallMoves DEF Calling
  <2>2. CASE Tearing(a)
    BY <1>1, <1>4, <1>5, <2>2, TornIsGone DEF Calling, InCall
  <2>3. CASE Building(a)
    <3>1. Rests(b) /\ Offering(b)' /\ Offered(b)' = Offered(b) /\ Offer(b)' = Offer(b)
      BY <1>1, <1>5, RestKeeps
    <3>2. Offering(a)' /\ ~Offered(a)'
      BY <1>1, <2>3 DEF Building, Fresh, Calling, Offering, InCall, Offered
    <3>3. inbox'[a] = Tail(inbox[a]) /\ inbox'[b] = <<>>
      BY <1>1, <2>3 DEF Building, Hears
    <3> QED BY <1>3, <3>1, <3>2, <3>3
  <2> QED BY <2>1, <2>2, <2>3
<1>6. CASE u = b
  <2>1. Tearing(b) \/ Negotiating(b)
    <3>1. ~Arriving(b)
      BY <1>1, NoConnFacts DEF Calling, Arriving, Linked, InCall
    <3> QED BY <1>1, <1>6, <3>1, DeafMoves DEF InCall, Prompting, Starting, Joining
  <2>2. CASE Tearing(b)
    BY <1>1, <1>4, <1>6, <2>2, TornIsGone DEF Calling, InCall
  <2>3. CASE Negotiating(b)
    <3>1. Calling(a)'
      BY <1>1, <1>6, RestKeeps
    <3>2. /\ Offering(b)' /\ ~Offered(b)
          /\ \/ inbox' = inbox /\ ~Offered(b)'
             \/ Says(b, Offer(b)) /\ Offered(b)' /\ Offer(b)' = Offer(b)
      BY <1>1, <2>3, OfferingNegotiates
    <3>3. inbox[a] = <<Plain("accept")>>
      BY <1>1, <3>2
    <3>4. CASE inbox' = inbox /\ ~Offered(b)'
      BY <1>1, <3>1, <3>2, <3>3, <3>4 DEF Accepted
    <3>5. CASE Says(b, Offer(b)) /\ Offered(b)' /\ Offer(b)' = Offer(b)
      <4>1. inbox'[b] = <<>> /\ inbox'[a] = Append(<<Plain("accept")>>, Offer(b))
        BY <1>1, <3>3, <3>5 DEF Says
      <4>2. inbox'[a] = <<Plain("accept"), Offer(b)'>>
        BY <1>2, <3>5, <4>1, BoxFacts
      <4> QED BY <3>1, <3>2, <3>5, <4>1, <4>2 DEF Accepted
    <3> QED BY <3>2, <3>4, <3>5
  <2> QED BY <2>1, <2>2, <2>3
<1> QED BY <1>5, <1>6

LEMMA BothOfferMoves ==
  ASSUME Intact, NEW u \in Pages, Moves(u), Rests(Other(u)), BothOffer
  PROVE  Gone(u)' \/ BothOffer' \/ ImpoliteTook' \/ PoliteTook'
<1>0. /\ Impolite \in Pages /\ Polite \in Pages /\ Impolite # Polite
      /\ Other(Impolite) = Polite /\ Other(Polite) = Impolite
  BY PagesDiffer DEF Pages, Other
<1>1. PICK a \in Pages, b \in Pages : a = Impolite /\ b = Polite
  BY <1>0
<1>2. /\ Offering(a) /\ Offering(b) /\ InCall(a) /\ InCall(b)
      /\ conn[a].link = 0 /\ conn[b].link = 0
      /\ inbox[b] = IF Offered(a) THEN <<Offer(a)>> ELSE <<>>
      /\ \/ inbox[a] = <<Offer(b)>> /\ Offered(b)
         \/ inbox[a] = <<>> /\ (Offered(b) => Collides(conn[a]))
  BY <1>1 DEF BothOffer, Offering
<1>3. /\ Offer(a) \in Frames /\ Offer(a).call = "offer" /\ Offer(a).from = conn[a].id
      /\ Offer(b) \in Frames /\ Offer(b).call = "offer" /\ Offer(b).from = conn[b].id
  BY FrameFacts
<1>4. Uninvited(a) /\ Uninvited(b)
  <2>1. Uninvited(a)
    BY <1>2, <1>3, UninvitedBox
  <2>2. Uninvited(b)
    BY <1>2, <1>3, UninvitedBox
  <2> QED BY <2>1, <2>2
<1>5. /\ inbox[a] # <<>> => /\ Offered(b) /\ inbox[a] = <<Offer(b)>>
                            /\ Head(inbox[a]) = Offer(b) /\ Tail(inbox[a]) = <<>>
      /\ inbox[b] # <<>> => /\ Offered(a) /\ inbox[b] = <<Offer(a)>>
                            /\ Head(inbox[b]) = Offer(a) /\ Tail(inbox[b]) = <<>>
  BY <1>2, <1>3, BoxFacts
<1>6. /\ conn[a] # NoConn /\ conn[b] # NoConn /\ ~Arriving(a) /\ ~Arriving(b)
  BY <1>0, <1>1, <1>2, NoConnFacts DEF InCall, Arriving, Linked
<1>7. ASSUME NEW p \in {a, b}, p = u
      PROVE  Tearing(p) \/ Ignoring(p) \/ Taking(p) \/ Negotiating(p)
  <2>1. inbox[p] # <<>> => Head(inbox[p]).call = "offer"
    BY <1>3, <1>5
  <2>2. ~Refusing(p) /\ ~Building(p) /\ ~Concluding(p)
    BY <2>1 DEF Refusing, Building, Concluding, Replies, Hears
  <2> QED BY <1>2, <1>6, <1>7, <2>2, InCallMoves DEF InCall
<1>8. CASE Tearing(u)
  BY <1>0, <1>1, <1>2, <1>4, <1>8, TornIsGone DEF InCall, Pages
<1>9. CASE u = a /\ ~Tearing(u)
  <2>1. Rests(b) /\ Offering(b)' /\ Offered(b)' = Offered(b) /\ Offer(b)' = Offer(b)
    BY <1>0, <1>1, <1>2, <1>9, RestKeeps
  <2>2. CASE Ignoring(a)
    <3>1. Offering(a)' /\ Offered(a)' = Offered(a) /\ Offer(a)' = Offer(a) /\ conn'[a] = conn[a]
      BY <1>2, <2>2, RestKeeps DEF Ignoring, Rests, Still
    <3>2. inbox[a] # <<>> /\ inbox'[a] = <<>> /\ inbox'[b] = inbox[b]
      BY <1>0, <1>1, <1>5, <2>2 DEF Ignoring, Hears
    <3>3. Collides(conn[a])
      BY <1>2, <1>3, <1>5, <1>6, <2>2, <3>2 DEF Ignoring, InCall, Hangups
    <3> QED BY <1>1, <1>2, <2>1, <3>1, <3>2, <3>3 DEF BothOffer
  <2>3. CASE Taking(a)
    <3>1. /\ conn[a].sig = "stable" /\ conn'[a].id = conn[a].id /\ state'[a] = state[a]
          /\ conn'[a].sig = "stable" /\ ~conn'[a].need /\ ~conn'[a].making
          /\ conn'[a].link = Head(inbox[a]).from
          /\ remote'[a] = remote[a] /\ prompt'[a] = prompt[a]
          /\ Replies(a, Sdp("answer", a, conn'[a]))
      BY <1>0, <1>1, <1>6, <2>3 DEF Taking, Materializes
    <3>2. /\ inbox[a] # <<>> /\ inbox[b] = <<>> /\ Offered(b)
          /\ inbox'[a] = <<>> /\ inbox'[b] = Append(<<>>, Sdp("answer", a, conn'[a]))
      BY <1>0, <1>1, <1>2, <1>5, <3>1 DEF Replies, Offered
    <3>3. conn'[a].link = conn'[b].id
      BY <1>3, <1>5, <2>1, <3>1, <3>2 DEF Rests, Still
    <3>4. Agreed(a)'
      BY <1>0, <1>1, <1>2, <3>1, <3>3 DEF Agreed, InCall
    <3>5. inbox'[b] = <<Answer(a)'>>
      BY <3>2 DEF Sdp, Answer
    <3> QED BY <1>1, <2>1, <3>2, <3>4, <3>5 DEF ImpoliteTook
  <2>4. CASE Negotiating(a)
    <3>1. /\ Offering(a)' /\ ~Offered(a)
          /\ \/ inbox' = inbox /\ ~Offered(a)' /\ conn'[a].making
             \/ Says(a, Offer(a)) /\ Offered(a)' /\ Offer(a)' = Offer(a)
      BY <1>2, <2>4, OfferingNegotiates
    <3>2. inbox[b] = <<>>
      BY <1>2, <3>1
    <3>3. Collides(conn'[a])
      BY <3>1 DEF Collides, Offered
    <3>4. inbox'[a] = inbox[a] /\ inbox'[b] = IF Offered(a)' THEN <<Offer(a)'>> ELSE <<>>
      BY <1>0, <1>1, <1>3, <3>1, <3>2, SaidFirst
    <3> QED BY <1>1, <1>2, <2>1, <3>1, <3>3, <3>4 DEF BothOffer
  <2> QED BY <1>7, <1>9, <2>2, <2>3, <2>4
<1>10. CASE u = b /\ ~Tearing(u)
  <2>1. /\ Rests(a) /\ Offering(a)' /\ Offered(a)' = Offered(a) /\ Offer(a)' = Offer(a)
        /\ conn'[a] = conn[a]
    BY <1>0, <1>1, <1>2, <1>10, RestKeeps DEF Rests, Still
  <2>2. ~Ignoring(b)
    BY <1>0, <1>1, <1>2, <1>3, <1>5, <1>6 DEF Ignoring, InCall, Hears, Hangups
  <2>3. CASE Taking(b)
    <3>1. /\ conn'[b].id = conn[b].id /\ state'[b] = state[b]
          /\ conn'[b].sig = "stable" /\ ~conn'[b].need /\ ~conn'[b].making
          /\ conn'[b].link = Head(inbox[b]).from
          /\ remote'[b] = remote[b] /\ prompt'[b] = prompt[b]
          /\ Replies(b, Sdp("answer", b, conn'[b]))
      BY <1>6, <2>3 DEF Taking, Materializes
    <3>2. /\ inbox[b] # <<>> /\ Offered(a)
          /\ inbox'[b] = <<>> /\ inbox'[a] = Append(inbox[a], Sdp("answer", b, conn'[b]))
      BY <1>0, <1>1, <1>5, <3>1 DEF Replies
    <3>3. conn'[b].link = conn'[a].id
      BY <1>3, <1>5, <2>1, <3>1, <3>2
    <3>4. Agreed(b)'
      BY <1>0, <1>1, <1>2, <3>1, <3>3 DEF Agreed, InCall
    <3>5. Sdp("answer", b, conn'[b]) = Answer(b)'
      BY DEF Sdp, Answer
    <3>6. Answer(b)' \in Frames
      <4>1. conn'[b].id \in Nat /\ conn'[b].link \in Nat
        BY <2>1, <3>1, <3>3 DEF Intact, Wires, Conns
      <4> QED BY <4>1 DEF Answer, Frames
    <3>7. Offer(b)' = Offer(b)
      BY <3>1 DEF Offer
    <3>8. inbox'[a] = <<Answer(b)'>> \/ inbox'[a] = <<Offer(b)', Answer(b)'>>
      BY <1>2, <1>3, <3>2, <3>5, <3>6, <3>7, BoxFacts
    <3> QED BY <1>1, <2>1, <3>2, <3>4, <3>8 DEF PoliteTook
  <2>4. CASE Negotiating(b)
    <3>1. /\ Offering(b)' /\ ~Offered(b)
          /\ \/ inbox' = inbox /\ ~Offered(b)'
             \/ Says(b, Offer(b)) /\ Offered(b)' /\ Offer(b)' = Offer(b)
      BY <1>2, <2>4, OfferingNegotiates
    <3>2. inbox[a] = <<>>
      BY <1>2, <3>1
    <3>3. inbox'[b] = inbox[b] /\ inbox'[a] = IF Offered(b)' THEN <<Offer(b)'>> ELSE <<>>
      BY <1>0, <1>1, <1>3, <3>1, <3>2, SaidFirst
    <3> QED BY <1>1, <1>2, <2>1, <3>1, <3>3 DEF BothOffer
  <2> QED BY <1>7, <1>10, <2>2, <2>3, <2>4
<1> QED BY <1>1, <1>8, <1>9, <1>10 DEF Pages

\* The answer to the offer of p, whose hook awaits it, completes the negotiation.
LEMMA Concludes ==
  ASSUME Intact, NEW p \in Pages, NEW q \in Pages, q = Other(p), p = Other(q), p # q,
         Agreed(q), Rests(q), Offering(p), Concluding(p), Head(inbox[p]) = Answer(q),
         Tail(inbox[p]) = <<>>, inbox[q] = <<>>
  PROVE  Settled'
<1>1. /\ conn[p] \in Conns /\ conn[p].sig = "offered" /\ conn[q].link = conn[p].id
      /\ Answer(q).to = conn[q].link /\ Answer(q).from = conn[q].id
  BY FrameFacts DEF Agreed, Concluding
<1>2. conn'[p] = [conn[p] EXCEPT !.sig = "stable", !.link = conn[q].id]
  <2>1. Head(inbox[p]).to = conn[p].id /\ Head(inbox[p]).from = conn[q].id
    BY <1>1
  <2>2. conn'[p] = [conn[p] EXCEPT !.sig = "stable",
                      !.link = IF Head(inbox[p]).to = conn[p].id THEN Head(inbox[p]).from ELSE 0]
    BY DEF Concluding
  <2> QED BY ONLY <2>1, <2>2
<1>3. /\ conn'[p].id = conn[p].id /\ conn'[p].link = conn[q].id /\ conn'[p].sig = "stable"
      /\ conn'[p].need = conn[p].need /\ conn'[p].making = conn[p].making
  BY <1>1, <1>2 DEF Conns
<1>4. ~conn[p].need /\ ~conn[p].making
  BY <1>1 DEF Offering
<1>5. Agreed(p)'
  BY <1>3, <1>4 DEF Agreed, InCall, Offering, Concluding, Rests, Still
<1>6. Agreed(q)'
  BY <1>3 DEF Agreed, InCall, Rests, Still
<1>7. inbox'[p] = <<>> /\ inbox'[q] = <<>>
  BY DEF Concluding, Hears
<1> QED BY <1>5, <1>6, <1>7 DEF Settled, Pages

LEMMA ImpoliteTookMoves ==
  ASSUME Intact, NEW u \in Pages, Moves(u), Rests(Other(u)), ImpoliteTook
  PROVE  Gone(u)' \/ Settled'
<1>0. /\ Impolite \in Pages /\ Polite \in Pages /\ Impolite # Polite
      /\ Other(Impolite) = Polite /\ Other(Polite) = Impolite
  BY PagesDiffer DEF Pages, Other
<1>1. PICK a \in Pages, b \in Pages : a = Impolite /\ b = Polite
  BY <1>0
<1>2. /\ Agreed(a) /\ Offering(b) /\ Offered(b) /\ inbox[a] = <<>> /\ inbox[b] = <<Answer(a)>>
      /\ InCall(a) /\ InCall(b) /\ conn[b].link = 0
  BY <1>1 DEF ImpoliteTook, Agreed, Offering
<1>3. /\ Answer(a) \in Frames /\ Answer(a).call = "answer"
      /\ Head(inbox[b]) = Answer(a) /\ Tail(inbox[b]) = <<>>
  BY <1>2, FrameFacts, BoxFacts
<1>4. Uninvited(a) /\ Uninvited(b)
  <2>1. Uninvited(a)
    BY <1>2, UninvitedBox
  <2>2. Uninvited(b)
    BY <1>2, <1>3, UninvitedBox
  <2> QED BY <2>1, <2>2
<1>5. ~Negotiating(a) /\ ~Negotiating(b) /\ ~Arriving(a) /\ ~Arriving(b)
  BY <1>0, <1>1, <1>2 DEF Agreed, Offering, Offered, Negotiating, Arriving, Linked, InCall
<1>6. CASE Tearing(u)
  BY <1>0, <1>1, <1>2, <1>4, <1>6, TornIsGone DEF InCall, Pages
<1>7. u = a => Tearing(u)
  BY <1>2, <1>5, DeafMoves DEF InCall, Prompting, Starting, Joining
<1>8. CASE u = b /\ ~Tearing(u)
  <2>1. conn[b] # NoConn /\ remote[b]
    BY <1>2, NoConnFacts DEF InCall
  <2>2. ~Refusing(b) /\ ~Building(b) /\ ~Taking(b) /\ ~Ignoring(b)
    BY <1>3, <2>1 DEF Refusing, Building, Taking, Ignoring, Hangups
  <2>3. Concluding(b)
    BY <1>2, <1>5, <1>8, <2>2, InCallMoves DEF InCall
  <2>4. Settled'
    BY <1>0, <1>1, <1>2, <1>3, <1>8, <2>3, Concludes
  <2> QED BY <2>4
<1> QED BY <1>1, <1>6, <1>7, <1>8 DEF Pages

LEMMA PoliteTookMoves ==
  ASSUME Intact, NEW u \in Pages, Moves(u), Rests(Other(u)), PoliteTook
  PROVE  Gone(u)' \/ PoliteTook' \/ Settled'
<1>0. /\ Impolite \in Pages /\ Polite \in Pages /\ Impolite # Polite
      /\ Other(Impolite) = Polite /\ Other(Polite) = Impolite
  BY PagesDiffer DEF Pages, Other
<1>1. PICK a \in Pages, b \in Pages : a = Impolite /\ b = Polite
  BY <1>0
<1>2. /\ Agreed(b) /\ Offering(a) /\ Offered(a) /\ inbox[b] = <<>>
      /\ inbox[a] = <<Answer(b)>> \/ inbox[a] = <<Offer(b), Answer(b)>>
      /\ InCall(a) /\ InCall(b) /\ conn[a].link = 0
  BY <1>1 DEF PoliteTook, Agreed, Offering
<1>3. /\ Answer(b) \in Frames /\ Answer(b).call = "answer"
      /\ Offer(b) \in Frames /\ Offer(b).call = "offer"
  BY FrameFacts
<1>4. /\ inbox[a] = <<Answer(b)>> => Head(inbox[a]) = Answer(b) /\ Tail(inbox[a]) = <<>>
      /\ inbox[a] = <<Offer(b), Answer(b)>>
           => Head(inbox[a]) = Offer(b) /\ Tail(inbox[a]) = <<Answer(b)>>
  BY <1>3, BoxFacts
<1>5. Uninvited(a) /\ Uninvited(b)
  <2>1. Uninvited(a)
    BY <1>2, <1>3, UninvitedBox
  <2>2. Uninvited(b)
    BY <1>2, UninvitedBox
  <2> QED BY <2>1, <2>2
<1>6. ~Negotiating(a) /\ ~Negotiating(b) /\ ~Arriving(a) /\ ~Arriving(b)
  <2>1. conn[a].sig = "offered" /\ ~conn[a].making /\ ~conn[b].need /\ ~conn[b].making
    BY <1>2 DEF Agreed, Offering, Offered
  <2>2. ~Negotiating(a) /\ ~Negotiating(b)
    BY <2>1 DEF Negotiating
  <2>3. conn[b].id # 0 /\ conn[a].link # conn[b].id
    BY <1>2 DEF Agreed, InCall
  <2>4. ~Linked(a) /\ ~Linked(b)
    BY <1>0, <1>1, <2>3 DEF Linked
  <2> QED BY <2>2, <2>4 DEF Arriving
<1>7. CASE Tearing(u)
  BY <1>0, <1>1, <1>2, <1>5, <1>7, TornIsGone DEF InCall, Pages
<1>8. u = b => Tearing(u)
  BY <1>2, <1>6, DeafMoves DEF InCall, Prompting, Starting, Joining
<1>9. CASE u = a /\ ~Tearing(u)
  <2>1. /\ Rests(b) /\ conn[a] # NoConn /\ remote[a] /\ conn[a].sig = "offered"
        /\ Head(inbox[a]).call \in {"offer", "answer"}
    BY <1>0, <1>1, <1>2, <1>3, <1>4, <1>9, NoConnFacts DEF InCall, Offered
  <2>2. ~Refusing(a) /\ ~Building(a)
    BY <2>1 DEF Refusing, Building
  <2>3. ~Taking(a)
    BY <1>0, <1>1, <2>1 DEF Taking, Materializes
  <2>4. CASE Concluding(a)
    <3>1. Head(inbox[a]) = Answer(b) /\ Tail(inbox[a]) = <<>>
      BY <1>2, <1>3, <1>4, <2>4 DEF Concluding
    <3> QED BY <1>0, <1>1, <1>2, <2>1, <2>4, <3>1, Concludes
  <2>5. CASE Ignoring(a)
    <3>1. inbox[a] = <<Offer(b), Answer(b)>>
      BY <1>2, <1>3, <1>4, <2>1, <2>5 DEF Ignoring, Hangups
    <3>2. inbox'[a] = <<Answer(b)>> /\ inbox'[b] = <<>>
      BY <1>0, <1>1, <1>2, <1>4, <2>5, <3>1 DEF Ignoring, Hears
    <3>3. Offering(a)' /\ Offered(a)' = Offered(a) /\ Answer(b)' = Answer(b)
      BY <1>2, <2>1, <2>5, RestKeeps DEF Ignoring
    <3>4. Agreed(b)'
      BY <1>0, <1>1, <1>2, <2>1, <2>5 DEF Agreed, InCall, Rests, Still, Ignoring
    <3> QED BY <1>1, <1>2, <3>2, <3>3, <3>4 DEF PoliteTook
  <2> QED BY <1>2, <1>6, <1>9, <2>2, <2>3, <2>4, <2>5, InCallMoves DEF InCall
<1> QED BY <1>1, <1>7, <1>8, <1>9 DEF Pages

LEMMA SettledMoves ==
  ASSUME Intact, NEW u \in Pages, Moves(u), Rests(Other(u)), Settled
  PROVE  Gone(u)' \/ Settled'
<1>1. PICK v \in Pages : v = Other(u) /\ u = Other(v) /\ u # v /\ \A p \in Pages : p = u \/ p = v
  BY PagesDiffer DEF Pages, Other
<1>2. /\ Agreed(u) /\ Agreed(v) /\ InCall(u) /\ InCall(v) /\ inbox[u] = <<>> /\ inbox[v] = <<>>
      /\ conn[u] \in Conns
  BY DEF Settled, Agreed, Intact, Wires
<1>3. Tearing(u) \/ Arriving(u)
  BY <1>2, DeafMoves DEF Agreed, InCall, Prompting, Starting, Joining, Negotiating
<1>4. CASE Tearing(u)
  <2>1. Uninvited(u)
    BY <1>2, UninvitedBox
  <2> QED BY <1>1, <1>2, <1>4, <2>1, TornIsGone DEF InCall
<1>5. CASE Arriving(u)
  <2>1. conn'[u] = [conn[u] EXCEPT !.timer = FALSE]
    BY <1>5 DEF Arriving
  <2>2. /\ conn'[u].id = conn[u].id /\ conn'[u].link = conn[u].link /\ conn'[u].sig = conn[u].sig
        /\ conn'[u].need = conn[u].need /\ conn'[u].making = conn[u].making
    BY <1>2, <2>1 DEF Conns
  <2>3. Agreed(u)'
    BY <1>1, <1>2, <1>5, <2>2 DEF Agreed, InCall, Arriving, Rests, Still
  <2>4. Agreed(v)'
    BY <1>1, <1>2, <2>2 DEF Agreed, InCall, Rests, Still
  <2>5. inbox'[u] = <<>> /\ inbox'[v] = <<>>
    BY <1>2, <1>5 DEF Arriving
  <2> QED BY <1>1, <2>3, <2>4, <2>5 DEF Settled
<1> QED BY <1>3, <1>4, <1>5

\* A call that is over stays over, and each stage leads to itself, the next or that.
LEMMA StageStep ==
  ASSUME Intact, Wires', NEW u \in Pages, Moves(u), Rests(Other(u)), Over \/ Stage
  PROVE  Over' \/ Stage'
<1>1. \A p \in Pages : /\ Other(p) \in Pages /\ Other(p) # p /\ Other(Other(p)) = p
                       /\ u \in {p, Other(p)}
  BY PagesDiffer DEF Pages, Other
<1>2. CASE Over
  <2>1. PICK p \in Pages : Gone(p) \/ Ending(p)
    BY <1>2 DEF Over
  <2> QED BY <2>1, OverStays DEF Over
<1>3. CASE BothOffer
  BY <1>3, BothOfferMoves DEF Over, Stage
<1>4. CASE ImpoliteTook \/ PoliteTook \/ Settled
  BY <1>4, ImpoliteTookMoves, PoliteTookMoves, SettledMoves DEF Over, Stage
<1>5. ASSUME NEW a \in Pages, Asking(a) \/ Inviting(a) \/ Rings(a) \/ Accepted(a)
      PROVE  Over' \/ Stage'
  <2>1. PICK b \in Pages : b = Other(a) /\ a = Other(b) /\ a # b /\ u \in {a, b}
    BY <1>1
  <2>2. CASE Asking(a)
    BY <2>1, <2>2, AskingMoves DEF Over, Stage
  <2>3. CASE Inviting(a)
    BY <2>1, <2>3, InvitingMoves DEF Over, Stage
  <2>4. CASE Rings(a)
    BY <2>1, <2>4, RingsMoves DEF Over, Stage
  <2>5. CASE Accepted(a)
    <3>1. ASSUME /\ Offering(a)' /\ ~Offered(a)' /\ Offering(b)' /\ inbox'[b] = <<>>
                 /\ inbox'[a] = IF Offered(b)' THEN <<Offer(b)'>> ELSE <<>>
          PROVE  BothOffer'
      <4>1. (a = Impolite /\ b = Polite) \/ (a = Polite /\ b = Impolite)
        BY <2>1 DEF Pages
      <4> QED BY <3>1, <4>1 DEF BothOffer
    <3>2. Gone(a)' \/ Gone(b)' \/ Accepted(a)' \/ BothOffer'
      BY <2>1, <2>5, <3>1, AcceptedMoves
    <3> QED BY <2>1, <3>2 DEF Over, Stage
  <2> QED BY <1>5, <2>2, <2>3, <2>4, <2>5
<1> QED BY <1>2, <1>3, <1>4, <1>5 DEF Stage

LEMMA GlareStarts == Init => GlareInv
BY DEF Init, GlareInv, Untouched, Resting

\* Nothing moves before the first call is asked for.
LEMMA UntouchedRests ==
  ASSUME Untouched, NEW u \in Pages, Moves(u)
  PROVE  FALSE
<1>1. /\ state[u] = "idle" /\ ~remote[u] /\ conn[u] = NoConn /\ inbox[u] = <<>>
      /\ prompt[u] = "none"
  BY DEF Untouched, Resting
<1> QED BY <1>1, DeafMoves, NoConnFacts
        DEF Prompting, Starting, Joining, Tearing, Hears, Negotiating, Arriving, Linked

LEMMA CallsCount ==
  ASSUME calls \in Nat, faults \in Nat, Next
  PROVE  /\ \/ calls' = calls
            \/ calls' = calls + 1 /\ faults' = faults /\ \E p \in Pages : startCall(p)
         /\ faults' = faults \/ faults' = faults + 1
<1>1. PICK p \in Pages : \/ User(p) \/ Page(p)
                         \/ Connected(p) \/ ConnectTimeout(p) \/ PathFails(p)
                         \/ Leaves(p) \/ Returns(p) \/ SignalLost(p)
  BY DEF Next
<1>2. CASE startCall(p)
  BY <1>2 DEF startCall
<1>3. CASE acceptCall(p) \/ StartGranted(p) \/ AcceptGranted(p) \/ Denied(p) \/ declineCall(p)
           \/ endCall(p)
  BY <1>3 DEF acceptCall, StartGranted, AcceptGranted, Denied, declineCall, endCall
<1>4. CASE ReceivesInvite(p) \/ ReceivesAccept(p) \/ ReceivesEnd(p) \/ PeerLeft(p) \/ PeerHere(p)
  BY <1>4 DEF ReceivesInvite, ReceivesAccept, ReceivesEnd, PeerLeft, PeerHere
<1>5. CASE ReceivesOffer(p)
  BY <1>5 DEF ReceivesOffer
<1>6. CASE ReceivesAnswer(p)
  BY <1>6 DEF ReceivesAnswer
<1>7. CASE NegotiationNeeded(p) \/ SendsOffer(p) \/ Connected(p)
  BY <1>7 DEF NegotiationNeeded, SendsOffer, Connected
<1>8. CASE ConnectTimeout(p)
  BY <1>8 DEF ConnectTimeout
<1>9. CASE PathFails(p)
  BY <1>9 DEF PathFails, Fault
<1>10. CASE Leaves(p) \/ Returns(p) \/ SignalLost(p)
  BY <1>10 DEF Leaves, Returns, SignalLost, Fault
<1> QED BY <1>1, <1>2, <1>3, <1>4, <1>5, <1>6, <1>7, <1>8, <1>9, <1>10 DEF User, Page

LEMMA GlareStep == CallInv /\ CallInv' /\ GlareInv /\ [Next]_vars => GlareInv'
<1> SUFFICES ASSUME CallInv, CallInv', GlareInv, [Next]_vars, faults' = 0, calls' <= 1
             PROVE  /\ \A p \in Pages : present'[p]
                    /\ calls' = 0 => Untouched'
                    /\ calls' = 1 => Over' \/ Stage'
  BY DEF GlareInv
<1>1. /\ calls \in Nat /\ faults \in Nat /\ calls' \in Nat /\ Boxes /\ Hooks /\ Wires /\ Wires'
  <2>1. TypeOK /\ TypeOK'
    BY DEF CallInv
  <2>2. Boxes /\ Hooks /\ Wires /\ calls \in Nat /\ faults \in Nat
    BY <2>1, TypeParts, BoundsAreNaturals
  <2>3. calls' \in Nat
    BY <2>1, BoundsAreNaturals DEF TypeOK
  <2>4. Wires'
    BY <2>1 DEF TypeOK, Wires, Conns
  <2> QED BY <2>2, <2>3, <2>4
<1>2. CASE UNCHANGED vars
  <2>1. /\ present' = present /\ inbox' = inbox /\ prompt' = prompt /\ calls' = calls
        /\ faults' = faults /\ state' = state /\ remote' = remote /\ local' = local /\ conn' = conn
    BY <1>2 DEF vars, hook
  <2>2. Untouched' = Untouched
    BY <2>1 DEF Untouched, Resting
  <2>3. Over' = Over
    BY <2>1 DEF Over, Gone, Ending, Uninvited
  <2>4. /\ BothOffer' = BothOffer /\ ImpoliteTook' = ImpoliteTook /\ PoliteTook' = PoliteTook
        /\ Settled' = Settled
    BY <2>1 DEF BothOffer, ImpoliteTook, PoliteTook, Settled, Offering, Agreed, InCall, Offered,
       Offer, Answer
  <2>5. ASSUME NEW a \in Pages
        PROVE  (Asking(a) \/ Inviting(a) \/ Rings(a) \/ Accepted(a))'
                  = (Asking(a) \/ Inviting(a) \/ Rings(a) \/ Accepted(a))
    BY <2>1 DEF Asking, Resting, Inviting, Rings, Accepted, Calling, Offering, InCall,
       Offered, Offer
  <2>6. Stage => Stage'
    BY <2>4, <2>5 DEF Stage
  <2> QED BY <2>1, <2>2, <2>3, <2>6 DEF GlareInv
<1>3. CASE Next
  <2>1. /\ calls' = calls \/ (calls' = calls + 1 /\ \E p \in Pages : startCall(p))
        /\ faults = 0 /\ calls <= 1
    BY <1>1, <1>3, CallsCount
  <2>2. /\ Intact
        /\ calls = 0 => Untouched
        /\ calls = 1 => Over \/ Stage
    BY <1>1, <2>1 DEF GlareInv, Intact
  <2>3. CASE calls' = calls
    <3>1. PICK u \in Pages : Moves(u) /\ Rests(Other(u)) /\ present' = present
      BY <1>1, <1>3, <2>1, <2>2, <2>3, NextMoves
    <3>2. calls = 0 => FALSE
      BY <2>2, <3>1, UntouchedRests
    <3>3. Over' \/ Stage'
      BY <1>1, <2>1, <2>2, <3>1, <3>2, StageStep
    <3> QED BY <1>1, <2>1, <2>2, <2>3, <3>1, <3>2, <3>3 DEF Intact
  <2>4. CASE calls' = calls + 1 /\ \E p \in Pages : startCall(p)
    <3>1. PICK p \in Pages : startCall(p)
      BY <2>4
    <3>2. calls = 0 /\ Untouched
      BY <1>1, <2>2, <2>4
    <3>3. Other(p) \in Pages /\ Other(p) # p
      BY PageFacts
    <3>4. /\ UNCHANGED <<present, inbox, hook>> /\ prompt' = [prompt EXCEPT ![p] = "start"]
      BY <3>1 DEF startCall, Ask
    <3>5. Asking(p)'
      BY <1>1, <3>2, <3>3, <3>4 DEF Asking, Untouched, Resting, hook, Hooks
    <3> QED BY <1>1, <2>2, <2>4, <3>2, <3>4, <3>5 DEF Stage, Intact
  <2> QED BY <2>1, <2>3, <2>4
<1> QED BY <1>2, <1>3

\* GlareResolves: in a call without a fault, whichever of the two offers yields, the
\* connections end up with each other's descriptions (CallConnection.ts: polite,
\* ignoreOffer, the offer collision of the perfect negotiation).
THEOREM GlareIsResolved == Spec => []GlareResolves
<1>1. Init => CallInv /\ GlareInv
  BY CallStarts, GlareStarts
<1>2. CallInv /\ GlareInv /\ [Next]_vars => CallInv' /\ GlareInv'
  BY CallStep, GlareStep
<1>3. CallInv /\ GlareInv => GlareResolves
  <2> SUFFICES ASSUME CallInv, GlareInv, faults = 0, calls = 1, Quiet
               PROVE  \A p \in Pages : Linked(p)
    BY DEF GlareResolves
  <2>1. Over \/ Stage
    BY DEF GlareInv
  <2>2. \A p \in Pages : /\ inbox[p] = <<>> /\ conn[p] # NoConn
                         /\ ~conn[p].need /\ ~conn[p].making /\ Other(p) \in Pages
    BY PageFacts DEF Quiet
  <2>3. ~Over
    BY <2>2 DEF Over, Gone, Ending
  <2>4. \A p \in Pages : ~Asking(p) /\ ~Inviting(p) /\ ~Rings(p) /\ ~Accepted(p)
    BY <2>2 DEF Asking, Resting, Inviting, Rings, Accepted, Calling
  <2>5. ~BothOffer /\ ~ImpoliteTook /\ ~PoliteTook
    <3>1. /\ inbox[Impolite] = <<>> /\ inbox[Polite] = <<>>
          /\ ~conn[Impolite].need /\ ~conn[Impolite].making
          /\ ~conn[Polite].need /\ ~conn[Polite].making
      BY <2>2 DEF Pages
    <3>2. \A f, g : <<f>> # <<>> /\ <<f, g>> # <<>>
      OBVIOUS
    <3>3. ~ImpoliteTook
      BY <3>1, <3>2 DEF ImpoliteTook
    <3>4. ~PoliteTook
      BY <3>1, <3>2 DEF PoliteTook
    <3>5. ASSUME BothOffer PROVE FALSE
      <4>1. Offered(Impolite)
        BY <3>1, <3>5 DEF BothOffer, Offering, Offered
      <4>2. inbox[Polite] = <<Offer(Impolite)>>
        BY <3>5, <4>1 DEF BothOffer
      <4> QED BY <3>1, <3>2, <4>2
    <3> QED BY <3>3, <3>4, <3>5
  <2>6. Settled
    BY <2>1, <2>3, <2>4, <2>5 DEF Stage
  <2>7. \A p \in Pages : Other(Other(p)) = p
    BY DEF Other, Pages
  <2> QED BY <2>2, <2>6, <2>7 DEF Settled, Agreed, InCall, Linked
<1> QED BY <1>1, <1>2, <1>3, PTL DEF Spec
=============================================================================
