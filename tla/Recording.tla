----------------------------- MODULE Recording -----------------------------
(* Voice messages (ChatRoom) and the permission prompts they and calls raise *)
(* (media-prompt): the button can be released, and the room left, before the *)
(* microphone that it asked for is there.                                    *)
EXTENDS Integers, FiniteSets

CONSTANTS
    MaxPresses,     \* bound: times the button is pressed
    MaxPrompts      \* bound: microphones asked for that have not been answered

ASSUME RecordingBounds == MaxPresses \in Nat /\ MaxPrompts \in Nat \ {0}

VARIABLES
    mounted,    \* the chat room is on screen
    refs,       \* recordingIntentRef, audioStreamRef and mediaRecorderRef
    asked,      \* microphones asked for; stale: by a room that has been left
    mics,       \* microphone streams that are on
    stopping,   \* recorders told to stop, whose stop event is still to come
    presses,
    camera,     \* a call waits for its camera
    prompt      \* media-prompt: how many prompts are up, and the grace timer

recording == <<mounted, refs, asked, mics, stopping, presses, camera, prompt>>

NoRefs == [intent |-> FALSE, stream |-> 0, recorder |-> 0]

(* ------------------------------ media-prompt ----------------------------- *)

beginMediaPrompt == prompt' = [active |-> prompt.active + 1, timer |-> FALSE]
endMediaPrompt ==
    LET left == IF prompt.active = 0 THEN 0 ELSE prompt.active - 1 IN
    prompt' = [active |-> left, timer |-> IF left = 0 THEN TRUE ELSE prompt.timer]
\* While this holds the blackout of an unfocused chat is held back.
isMediaPromptActive == prompt.active > 0 \/ prompt.timer

GraceEnds == /\ prompt.timer /\ prompt' = [prompt EXCEPT !.timer = FALSE]
             /\ UNCHANGED <<mounted, refs, asked, mics, stopping, presses, camera>>

\* acquireMedia of a call: granted or denied, the prompt goes.
CallAsks == /\ mounted /\ ~camera /\ camera' = TRUE /\ beginMediaPrompt
            /\ UNCHANGED <<mounted, refs, asked, mics, stopping, presses>>
CallAnswered == /\ camera /\ camera' = FALSE /\ endMediaPrompt
                /\ UNCHANGED <<mounted, refs, asked, mics, stopping, presses>>

(* ------------------------------- recording ------------------------------- *)

startRecording ==
    /\ mounted /\ ~refs.intent /\ presses < MaxPresses
    /\ Cardinality(asked) < MaxPrompts
    /\ presses' = presses + 1
    /\ refs' = [refs EXCEPT !.intent = TRUE]
    /\ asked' = asked \cup {[id |-> presses + 1, stale |-> FALSE]}
    /\ beginMediaPrompt
    /\ UNCHANGED <<mounted, mics, stopping, camera>>

\* The microphone is there: on if the button is still held, or at once off.  (It
\* takes longer to open than a recorder does to stop.)
Bug_Granted(a) ==
    /\ stopping = {}
    /\ mics' = mics \cup {a.id}
    /\ refs' = [refs EXCEPT !.stream = a.id, !.recorder = a.id]
Granted(a) ==
    /\ stopping = {}
    /\ IF refs.intent /\ ~a.stale
       THEN /\ mics' = mics \cup {a.id}
            /\ refs' = [refs EXCEPT !.stream = a.id, !.recorder = a.id]
       ELSE UNCHANGED <<mics, refs>>

Denied(a) ==
    IF a.stale THEN UNCHANGED <<mics, refs>>
    ELSE /\ refs' = [refs EXCEPT !.intent = FALSE, !.stream = 0]
         /\ mics' = mics \ {refs.stream}

Answered(a) ==
    /\ Granted(a) \/ Denied(a)
    /\ asked' = asked \ {a} /\ endMediaPrompt
    /\ UNCHANGED <<mounted, stopping, presses, camera>>

stopRecording ==
    /\ mounted /\ refs.intent
    /\ refs' = [refs EXCEPT !.intent = FALSE, !.recorder = 0]
    /\ stopping' = stopping \cup ({refs.recorder} \ {0})
    /\ UNCHANGED <<mounted, asked, mics, presses, camera, prompt>>

\* recorder.onstop: the stream is switched off and what was said is sent.
onstop(r) ==
    /\ r \in stopping /\ stopping' = stopping \ {r}
    /\ mics' = mics \ {refs.stream} /\ refs' = [refs EXCEPT !.stream = 0]
    /\ UNCHANGED <<mounted, asked, presses, camera, prompt>>

\* The room is left; its refs go with it, and what it waits for finds them dead.
Unmount ==
    /\ mounted /\ mounted' = FALSE
    /\ mics' = mics \ {refs.stream} /\ refs' = NoRefs /\ stopping' = {}
    /\ asked' = {[a EXCEPT !.stale = TRUE] : a \in asked}
    /\ UNCHANGED <<presses, camera, prompt>>

Mount == /\ ~mounted /\ mounted' = TRUE
         /\ UNCHANGED <<refs, asked, mics, stopping, presses, camera, prompt>>

RecordingInit ==
    /\ mounted = TRUE /\ refs = NoRefs /\ asked = {} /\ mics = {} /\ stopping = {}
    /\ presses = 0 /\ camera = FALSE /\ prompt = [active |-> 0, timer |-> FALSE]

RecordingNext ==
    \/ startRecording \/ stopRecording \/ Unmount \/ Mount
    \/ GraceEnds \/ CallAsks \/ CallAnswered
    \/ \E a \in asked : Answered(a)
    \/ \E r \in stopping : onstop(r)

RecordingSpec == RecordingInit /\ [][RecordingNext]_recording

(* ------------------------------- properties ------------------------------ *)

\* What the comment at the release says: once no button is held and no recorder
\* is stopping, no microphone is on, although the release may come before the
\* answer to the prompt.
ReleaseNotLost == ~refs.intent /\ stopping = {} => mics = {}

\* Nothing is left on behind the user's back.  A microphone is on only while the
\* button of the room on screen is held or its recorder is just stopping, however
\* presses, releases, answers and departures cross; and the blackout is held back
\* only while a prompt is really up, or for the grace after the last of them.
NothingLeftOn ==
    /\ ReleaseNotLost
    /\ mics # {} => mounted
    /\ prompt.active = Cardinality(asked) + (IF camera THEN 1 ELSE 0)
    /\ prompt.active > 0 => ~prompt.timer
==============================================================================
