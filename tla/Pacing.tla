------------------------------- MODULE Pacing -------------------------------
(* The paced queue of a page (src/transport/send-queue.ts) against the        *)
(* counters of the relay (ws.transport.ts), which drops what exceeds them.    *)
(* Signalling is written at the pace of a token bucket; chat, receipts and    *)
(* pings go straight to the socket.                                           *)
(*                                                                            *)
(* A tick is the time in which one token accrues, 1000 / RATE ms: a window of *)
(* the relay is RATE ticks long and still counts a frame RATE ticks after its *)
(* first.  Frames of a lane are alike and are only counted; they reach the    *)
(* relay as they are written.                                                 *)
EXTENDS Integers

CONSTANTS
    RATE,          \* SIGNAL_SENDS_PER_SECOND
    LIMIT,         \* MSG_PER_SECOND_LIMIT, of a peer
    SOCKET_LIMIT,  \* SOCKET_MSG_PER_SECOND_LIMIT, of a socket
    MaxQueued,     \* bound: frames queued at a time
    MaxChats       \* bound: direct frames counted in one window

ASSUME PacingConstants ==
    /\ {RATE, LIMIT, SOCKET_LIMIT} \subseteq Nat \ {0}
    /\ MaxQueued \in Nat /\ MaxChats \in Nat

VARIABLES
    lanes,      \* frames waiting, by priority
    tokens,
    idle,       \* ticks since lastRefill
    timer,      \* the timeout that pumps again is armed
    paused,
    joined,     \* the relay has admitted the socket of the page
    replaced,   \* the close event of a socket that was left is still to come
    window,     \* counter of the peer: its age, signalling and direct frames
    socket      \* counter of the socket: its age and frames

pacer == <<lanes, tokens, idle, timer, paused>>
counters == <<window, socket>>
pacing == <<pacer, joined, replaced, counters>>

Least(a, b) == IF a < b THEN a ELSE b
Beyond(a, b) == IF a > b THEN a - b ELSE 0

-----------------------------------------------------------------------------
(* The queue                                                                  *)

Lanes == {"noise", "chat", "mesh", "call"}
Empty == [l \in Lanes |-> 0]
QueueSize(l) == l["noise"] + l["chat"] + l["mesh"] + l["call"]

\* Frames that n dequeues find in the lanes before this one.
Ahead(l, lane) == CASE lane = "noise" -> 0
                    [] lane = "chat" -> l["noise"]
                    [] lane = "mesh" -> l["noise"] + l["chat"]
                    [] lane = "call" -> l["noise"] + l["chat"] + l["mesh"]

\* The lanes after n dequeues.
dequeued(l, n) == [lane \in Lanes |-> Beyond(l[lane], Beyond(n, Ahead(l, lane)))]

Kinds == {"noise", "verb", "media", "rtc", "typing"}
classifySignalPriority(kind) == CASE kind = "noise" -> "noise"
                                  [] kind = "verb" -> "chat"
                                  [] kind = "media" -> "call"
                                  [] OTHER -> "mesh"

-----------------------------------------------------------------------------
(* The counters of the relay                                                  *)

\* A first frame after the window has passed starts a new one.
Expired(w) == w.age > RATE
FreshWindow == [age |-> 0, signals |-> 0, chats |-> 0]
NoWindow == [FreshWindow EXCEPT !.age = RATE + 1]
FreshSocket == [age |-> 0, count |-> 0]
JoinedSocket == [age |-> 0, count |-> 1]   \* its join frame counts

\* Of n frames written at once to a socket with this counter, those its own
\* limit lets through.
Passed(s, n) == Least(n, Beyond(SOCKET_LIMIT, IF Expired(s) THEN 0 ELSE s.count))
Counted(s, n) == [IF Expired(s) THEN FreshSocket ELSE s EXCEPT !.count = Least(@ + n, SOCKET_LIMIT)]

Current == IF Expired(window) THEN FreshWindow ELSE window

\* Frames are written to a socket; one that is closed or not yet admitted (~on)
\* loses them.
checkMessageLimit(on, s, signals, chats) ==
    LET n == signals + chats IN
    IF ~on \/ n = 0 THEN socket' = s /\ UNCHANGED window
    ELSE /\ socket' = Counted(s, n)
         /\ window' = IF Passed(s, n) = 0 THEN window
                      ELSE [Current EXCEPT !.signals = @ + Least(signals, Passed(s, n)),
                                           !.chats = @ + Least(chats, Passed(s, n))]

-----------------------------------------------------------------------------
(* The pacer                                                                  *)

Bug_refilled == tokens + idle

refilled == Least(RATE, tokens + idle)

\* The loop of pump: as many frames of the lanes l as there are tokens.
writes(l, budget, on, s) ==
    LET n == Least(budget, QueueSize(l)) IN
    /\ lanes' = dequeued(l, n)
    /\ tokens' = budget - n
    /\ idle' = 0
    /\ checkMessageLimit(on, s, n, 0)

\* armed: a timeout is already set.
pump(l, armed) == /\ writes(l, refilled, joined, socket)
                  /\ timer' = (armed \/ QueueSize(l) > refilled)

enqueue(kind) ==
    LET l == [lanes EXCEPT ![classifySignalPriority(kind)] = @ + 1] IN
    /\ QueueSize(lanes) < MaxQueued
    /\ IF paused THEN lanes' = l /\ UNCHANGED <<tokens, idle, timer, paused, counters>>
       ELSE pump(l, timer) /\ UNCHANGED paused
    /\ UNCHANGED <<joined, replaced>>

\* The timeout is set for the time at which the next token is whole; it may be
\* late.
TimerFires ==
    /\ timer /\ refilled >= 1
    /\ pump(lanes, FALSE)
    /\ UNCHANGED <<paused, joined, replaced>>

Elapses ==
    /\ idle' = Least(idle + 1, RATE)
    /\ window' = [window EXCEPT !.age = Least(@ + 1, RATE + 1)]
    /\ socket' = [socket EXCEPT !.age = Least(@ + 1, RATE + 1)]
    /\ UNCHANGED <<lanes, tokens, timer, paused, joined, replaced>>

\* onclose: clearTransient, whose pump writes into a socket that no longer
\* takes anything, then pause.
onclose(still) ==
    LET kept == [Empty EXCEPT !["noise"] = lanes["noise"]] IN
    /\ joined' = still
    /\ paused' = TRUE
    /\ timer' = FALSE
    /\ IF paused THEN lanes' = kept /\ UNCHANGED <<tokens, idle, counters>>
       ELSE writes(kept, refilled, still, socket)

SocketCloses == joined /\ onclose(FALSE) /\ UNCHANGED replaced

\* The socket of a room that was left closes while that of the next may be
\* joined: it pauses the pacer of both.
ReplacedCloses == replaced /\ replaced' = FALSE /\ onclose(joined)

\* `joined` of a new socket, whose counter is fresh; the counter of the peer
\* has gone on.
Admitted ==
    /\ ~joined /\ joined' = TRUE
    /\ paused' = FALSE
    /\ UNCHANGED replaced
    /\ IF paused
       THEN /\ writes(lanes, Least(tokens, RATE), TRUE, JoinedSocket)
            /\ timer' = (QueueSize(lanes) > Least(tokens, RATE))
       ELSE socket' = JoinedSocket /\ UNCHANGED <<lanes, tokens, idle, timer, window>>

\* The effect of useRelay is cleaned up and runs again, for the same room or for
\* another, where the relay has not counted the peer yet.
LeavesRoom ==
    /\ ~replaced
    /\ \E closing \in BOOLEAN : (joined => closing) /\ replaced' = closing
    /\ joined' = FALSE
    /\ lanes' = Empty /\ timer' = FALSE
    /\ window' \in {window, NoWindow}
    /\ UNCHANGED <<tokens, idle, paused, socket>>

\* Chat, receipts and pings.
SendsDirect ==
    /\ joined /\ Current.chats < MaxChats
    /\ checkMessageLimit(TRUE, socket, 0, 1)
    /\ UNCHANGED <<pacer, joined, replaced>>

PacingInit ==
    /\ lanes = Empty /\ tokens = RATE /\ idle = 0 /\ timer = FALSE /\ paused = FALSE
    /\ joined = TRUE /\ replaced = FALSE
    /\ window = NoWindow /\ socket = JoinedSocket

PacingNext ==
    \/ \E kind \in Kinds : enqueue(kind)
    \/ TimerFires \/ Elapses
    \/ SocketCloses \/ ReplacedCloses \/ Admitted \/ LeavesRoom
    \/ SendsDirect

PacingSpec == PacingInit /\ [][PacingNext]_pacing

-----------------------------------------------------------------------------
\* The counter of the peer never holds more signalling than one full bucket and
\* what has accrued since the window began, whatever pauses, reconnects, lost
\* frames and late timeouts lie between.
BurstBounded == window.signals <= RATE + Least(window.age, RATE)

\* Frames that wait while the pacer is not paused wait for an armed timeout.
NeverStalls == ~paused /\ QueueSize(lanes) > 0 => timer

\* docs/events.md:182-184, send-queue.ts:19-20: signalling alone stays below the
\* limit, so that the relay drops none of it.
PacedBelowLimit == window.chats = 0 => window.signals <= LIMIT

=============================================================================
