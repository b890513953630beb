-------------------------------- MODULE Dial --------------------------------
(* The life of a client's connection: the page of a guest, which dials again *)
(* after every loss until the relay's answer is final (useRelay), and the    *)
(* terminal of the host, which quits instead (packages/cli), with as much of *)
(* the relay as answers them.  Other guests only take seats.                 *)
EXTENDS Integers, Sequences, FiniteSets

CONSTANTS
    Guest,       \* the page
    Host,        \* the terminal, which holds the recovery token
    Others,      \* other guests of the vault
    Slots,       \* bound: sockets of the page that exist at a time
    MAX_PEERS,   \* seats of the vault, the host's included
    MaxFaults    \* bound: connections and relays that fail, effects that run again

ASSUME ClientsDiffer == Guest # Host /\ {Guest, Host} \cap Others = {}
ASSUME Bounds == /\ MAX_PEERS \in Nat \ {0} /\ MaxFaults \in Nat
                 /\ Slots \in Nat \ {0}

VARIABLES
    vault,      \* the relay holds the session
    peers,      \* admitted guests; the host once it has joined
    pending,    \* the guest waits in pendingPeers
    group,      \* session.isGroup
    conn,       \* connections: the socket registered for a client, 0 for none
    sock,       \* the sockets of each client
    page,       \* refs and state of the page's useRelay
    cli,        \* fields of the terminal's ChatClient
    faults,     \* failures so far, and
    remounts    \* remounts so far (bounded by MaxFaults together)

session == <<vault, peers, pending, group>>
bounds == <<faults, remounts>>
vars == <<session, conn, sock, page, cli, bounds>>

Clients == {Guest, Host}
Sockets(c) == IF c = Guest THEN 1..Slots ELSE {1}

\* client: what readyState says; server: what the relay knows of the socket;
\* join: the join frame is on its way; down: frames on their way to the client.
NoSocket == [client |-> "none", server |-> "none", join |-> FALSE, down |-> <<>>]

(* ------------------------------- the relay ------------------------------- *)

Push(k, c, s, f) == [k EXCEPT ![c][s].down = Append(@, f)]
\* The relay ends a connection: what it has sent before still arrives.
Hangup(k, c, s) == IF k[c][s].client = "none" THEN [k EXCEPT ![c][s] = NoSocket]
                   ELSE [k EXCEPT ![c][s].server = "closed", ![c][s].join = FALSE]

\* admittedPeers: those whose socket is there; other guests always are.
Roster(p, n) == {x \in p : x \in Others \/ n[x] # 0}

\* admitPeer: the group flag rises with the third participant and stays.
admitPeer(c, s, k, n) ==
    LET p == peers \cup {c} IN
    /\ peers' = p /\ pending' = (pending /\ c # Guest)
    /\ conn' = n
    /\ group' = (group \/ Cardinality(Roster(p, n)) > 2)
    /\ sock' = Push(k, c, s, "joined")

\* The terminal comes back with a fresh peer id, which has no seat yet.
Full(c) == Cardinality(peers) >= MAX_PEERS /\ (c = Host \/ c \notin peers)

\* The answer to a join frame.  A new connection takes some round trips to open,
\* so the join of the one it replaces is there before its own.
HandlesJoin(c, s) ==
    LET heard == [sock EXCEPT ![c][s].join = FALSE]
        known == [heard EXCEPT ![c][s].server = "known"]
        n == [conn EXCEPT ![c] = s]
        Answers(type) == /\ sock' = Push(heard, c, s, type)
                         /\ UNCHANGED <<session, conn>>
    IN
    /\ sock[c][s].join /\ sock[c][s].server = "new"
    /\ \A t \in Sockets(c) : sock[c][t].client = "closing" /\ sock[c][t].join => t = s
    /\ \/ ~vault /\ Answers("not found")
       \/ vault /\ Full(c) /\ Answers("full")
       \/ vault /\ ~Full(c) /\ c = Host /\ admitPeer(c, s, known, n) /\ UNCHANGED vault
       \/ /\ vault /\ c = Guest /\ Guest \in peers
          /\ IF page.token \/ conn[c] = 0
             THEN admitPeer(c, s, known, n) /\ UNCHANGED vault
             ELSE /\ sock' = Hangup(Push(heard, c, s, "bad token"), c, s)
                  /\ UNCHANGED <<session, conn>>
       \/ vault /\ ~Full(c) /\ c = Guest /\ Guest \notin peers
          /\ \/ conn[Host] = 0 /\ Answers("host offline")
             \/ /\ conn[Host] # 0
                /\ pending' = TRUE /\ conn' = n
                /\ LET told == IF pending THEN known
                               ELSE Push(known, Host, conn[Host], "request")
                   IN sock' = Push(told, c, s, "pending")
                /\ UNCHANGED <<vault, peers, group>>
    /\ UNCHANGED <<page, cli, bounds>>

\* A socket whose join has not led in within JOIN_TIMEOUT_MS is closed.  (A join
\* that takes longer than that to arrive is a connection that Breaks.)
Bug_JoinTimeout(c, s) ==
    /\ sock[c][s].server = "new" /\ sock[c][s].join
    /\ sock' = Hangup(sock, c, s)
    /\ UNCHANGED <<session, conn, page, cli, bounds>>
JoinTimeout(c, s) ==
    /\ sock[c][s].server = "new" /\ ~sock[c][s].join
    /\ sock' = Hangup(sock, c, s)
    /\ UNCHANGED <<session, conn, page, cli, bounds>>

\* handleClose, once the relay notices that the client's end is gone.
RelayNotices(c, s) ==
    /\ sock[c][s].client = "none" /\ sock[c][s].server \in {"new", "known"}
    /\ IF conn[c] = s
       THEN /\ conn' = [conn EXCEPT ![c] = 0]
            /\ pending' = (pending /\ c # Guest)
       ELSE UNCHANGED <<conn, pending>>
    /\ sock' = [sock EXCEPT ![c][s] = NoSocket]
    /\ UNCHANGED <<vault, peers, group, page, cli, bounds>>

\* The host's terminal decides, with hostAction.
accept_join ==
    /\ pending
    /\ IF Cardinality(peers) >= MAX_PEERS
       THEN sock' = Push(sock, Host, conn[Host], "limit") /\ UNCHANGED <<session, conn>>
       ELSE admitPeer(Guest, conn[Guest], sock, conn) /\ UNCHANGED vault

Dismissed(type, n) == Hangup(Push(sock, Guest, n[Guest], type), Guest, n[Guest])

reject_join ==
    /\ pending /\ pending' = FALSE
    /\ sock' = Dismissed("rejected", conn)
    /\ conn' = [conn EXCEPT ![Guest] = 0]
    /\ UNCHANGED <<vault, peers, group>>

kick_peer ==
    /\ group /\ Guest \in peers
    /\ peers' = peers \ {Guest}
    /\ conn' = [conn EXCEPT ![Guest] = 0]
    /\ sock' = IF conn[Guest] = 0 THEN sock ELSE Dismissed("kicked", conn)
    /\ page' = [page EXCEPT !.token = FALSE]   \* its token opens nothing any more
    /\ UNCHANGED <<vault, pending, group>>

\* Another guest takes a seat, or gives it up.
OtherJoins == \E o \in Others \ peers :
    /\ vault /\ conn[Host] # 0 /\ Cardinality(peers) < MAX_PEERS
    /\ peers' = peers \cup {o}
    /\ group' = (group \/ Cardinality(Roster(peers', conn)) > 2)
    /\ UNCHANGED <<vault, pending, conn, sock, page, cli, bounds>>

\* Everyone is told and hung up on, and the vault is gone.
destroySession ==
    /\ vault /\ vault' = FALSE
    /\ peers' = {} /\ pending' = FALSE /\ group' = FALSE
    /\ conn' = [c \in Clients |-> 0]
    /\ sock' = [c \in Clients |-> [s \in Sockets(c) |->
          IF s = conn[c] /\ sock[c][s].server = "known"
          THEN Hangup(Push(sock, c, s, "destroyed"), c, s)[c][s] ELSE sock[c][s]]]
    /\ UNCHANGED <<page, cli, bounds>>

(* --------------------------- the guest's page ---------------------------- *)

NoPage == [cur |-> 0, should |-> FALSE, timer |-> FALSE, connected |-> FALSE,
           waiting |-> FALSE, paused |-> FALSE, token |-> FALSE, refused |-> FALSE]

Free == {s \in Sockets(Guest) : sock[Guest][s] = NoSocket}

\* connect(): a new socket takes the place of the last in socketRef.
connect(k, p, s) == /\ sock' = [k EXCEPT ![Guest][s].client = "dialing"]
                    /\ page' = [p EXCEPT !.cur = s]

Mounts == /\ page = NoPage /\ vault
          /\ \E s \in Free : connect(sock, [page EXCEPT !.should = TRUE], s)
          /\ UNCHANGED <<session, conn, cli, bounds>>

\* close(): the close event comes later.
closing(k, c, s) == IF s = 0 \/ k[c][s].client \notin {"dialing", "open"} THEN k
                    ELSE [k EXCEPT ![c][s].client = "closing", ![c][s].down = <<>>]

\* The effect's cleanup and the effect again (StrictMode, a second join): the
\* refs survive, and the old socket's close event is still to come.
Remounts == /\ faults + remounts < MaxFaults /\ page.should
            /\ remounts' = remounts + 1
            /\ \E s \in Free :
                 connect(closing(sock, Guest, page.cur),
                         [page EXCEPT !.timer = FALSE, !.refused = FALSE, !.should = TRUE], s)
            /\ UNCHANGED <<session, conn, cli, faults>>

\* scheduleReconnect: one timer, and only while dialling makes sense.
scheduleReconnect(p) == IF p.should THEN [p EXCEPT !.timer = TRUE] ELSE p

TimerFires == /\ page.timer
              /\ \E s \in Free : connect(sock, [page EXCEPT !.timer = FALSE], s)
              /\ UNCHANGED <<session, conn, cli, bounds>>

TERMINAL == {"destroyed", "rejected", "kicked", "not found", "full", "bad token"}

Bug_onmessage(p, type) ==
    IF type = "joined" THEN [p EXCEPT !.connected = TRUE, !.waiting = FALSE,
                                      !.paused = FALSE, !.token = TRUE]
    ELSE IF type = "pending" THEN [p EXCEPT !.waiting = TRUE]
    ELSE IF type \in TERMINAL \ {"bad token"}
         THEN [p EXCEPT !.should = FALSE, !.refused = TRUE]
    ELSE IF type \in TERMINAL THEN [p EXCEPT !.refused = TRUE]
    ELSE p
\* The state after a frame of the relay; after a final one the page hangs up.
onmessage(p, type) ==
    IF type = "joined" THEN [p EXCEPT !.connected = TRUE, !.waiting = FALSE,
                                      !.paused = FALSE, !.token = TRUE]
    ELSE IF type = "pending" THEN [p EXCEPT !.waiting = TRUE]
    ELSE IF type \in TERMINAL THEN [p EXCEPT !.should = FALSE, !.refused = TRUE]
    ELSE p

Delivers(s) ==
    LET f == sock[Guest][s].down[1]
        heard == [sock EXCEPT ![Guest][s].down = Tail(@)] IN
    /\ sock[Guest][s].client = "open" /\ sock[Guest][s].down # <<>>
    /\ page' = onmessage(page, f)
    /\ sock' = IF f \in TERMINAL THEN closing(heard, Guest, s) ELSE heard
    /\ UNCHANGED <<session, conn, cli, bounds>>

Bug_afterClose(p) == scheduleReconnect([p EXCEPT !.paused = TRUE])
\* onclose, of whichever socket: the page is offline until it has joined again.
afterClose(p) == scheduleReconnect([p EXCEPT !.connected = FALSE, !.paused = TRUE])

\* The socket is closed for its client; the relay may not have noticed yet.
Closed(c, s) == [sock EXCEPT ![c][s] =
                    IF @.server \in {"none", "closed"} THEN NoSocket
                    ELSE [@ EXCEPT !.client = "none", !.join = FALSE, !.down = <<>>]]
Ends(c, s) == LET k == sock[c][s] IN
    k.client = "closing" \/ (k.client = "open" /\ k.server = "closed" /\ k.down = <<>>)

onclose(s) == /\ Ends(Guest, s)
              /\ page' = afterClose(page)
              /\ sock' = Closed(Guest, s)
              /\ UNCHANGED <<session, conn, cli, bounds>>

(* --------------------------- the host's terminal ------------------------- *)

NoClient == [on |-> FALSE, isHost |-> FALSE, requests |-> {}]

start == /\ ~cli.on /\ sock[Host][1] = NoSocket /\ vault
         /\ cli' = [NoClient EXCEPT !.on = TRUE]
         /\ sock' = [sock EXCEPT ![Host][1].client = "dialing"]
         /\ UNCHANGED <<session, conn, page, bounds>>

onJoinRequest(t) == [t EXCEPT !.requests = @ \cup {Guest}]

\* The terminal gives up on three errors only; the other ones it prints.
QUITS == {"destroyed", "rejected", "kicked"}

onMessage(t, f) ==
    IF f = "joined" THEN [t EXCEPT !.isHost = TRUE]
    ELSE IF f = "request" THEN onJoinRequest(t)
    ELSE t

Reads ==
    LET f == sock[Host][1].down[1]
        heard == [sock EXCEPT ![Host][1].down = Tail(@)] IN
    /\ cli.on /\ sock[Host][1].client = "open" /\ sock[Host][1].down # <<>>
    /\ IF f \in QUITS THEN cli' = NoClient /\ sock' = closing(heard, Host, 1)
       ELSE cli' = onMessage(cli, f) /\ sock' = heard
    /\ UNCHANGED <<session, conn, page, bounds>>

\* hostAction: /accept, /reject and /kick, by a terminal that is host.
hostAction == /\ cli.on /\ cli.isHost /\ conn[Host] # 0 /\ sock[Host][1].client = "open"
              /\ \/ Guest \in cli.requests /\ (accept_join \/ reject_join) /\ UNCHANGED page
                 \/ Guest \in cli.requests /\ ~pending /\ UNCHANGED <<session, conn, sock, page>>
                 \/ kick_peer
              /\ cli' = [cli EXCEPT !.requests = @ \ {Guest}]
              /\ UNCHANGED bounds

quit == /\ cli.on
        /\ cli' = NoClient
        /\ sock' = closing(sock, Host, 1)
        /\ UNCHANGED <<session, conn, page, bounds>>

\* A closed connection ends the terminal: it never dials again.
HostClosed == /\ Ends(Host, 1)
              /\ cli' = NoClient
              /\ sock' = Closed(Host, 1)
              /\ UNCHANGED <<session, conn, page, bounds>>

(* ------------------------------- connections ----------------------------- *)

\* onopen: the client sends its join frame.
Opens(c, s) ==
    /\ sock[c][s].client = "dialing"
    /\ sock' = [sock EXCEPT ![c][s].client = "open", ![c][s].server = "new", ![c][s].join = TRUE]
    /\ UNCHANGED <<session, conn, page, cli, bounds>>

Fault == faults + remounts < MaxFaults /\ faults' = faults + 1

\* checkIpLimit: too many connections from one address in a minute.
Limited(c, s) ==
    /\ Fault /\ sock[c][s].client = "dialing"
    /\ sock' = [sock EXCEPT ![c][s] = [client |-> "open", server |-> "closed", join |-> FALSE,
                                       down |-> <<"limited">>]]
    /\ UNCHANGED <<session, conn, page, cli, remounts>>

\* The connection fails before it is open, or breaks; the relay may notice late.
Breaks(c, s) ==
    /\ Fault /\ sock[c][s].client \in {"dialing", "open"}
    /\ sock' = [closing(sock, c, s) EXCEPT ![c][s].join = FALSE]
    /\ UNCHANGED <<session, conn, page, cli, remounts>>

\* shutdown, or the instance sleeps: every vault is lost with the process.
RelayRestarts ==
    /\ Fault /\ vault' = FALSE
    /\ peers' = {} /\ pending' = FALSE /\ group' = FALSE
    /\ conn' = [c \in Clients |-> 0]
    /\ sock' = [c \in Clients |-> [s \in Sockets(c) |->
          IF sock[c][s].client = "none" THEN NoSocket
          ELSE IF sock[c][s].server = "none" THEN sock[c][s]
          ELSE [sock[c][s] EXCEPT !.server = "closed", !.join = FALSE]]]
    /\ UNCHANGED <<page, cli, remounts>>

(* ------------------------------ specification ---------------------------- *)

Init == /\ vault = TRUE /\ peers = {} /\ pending = FALSE /\ group = FALSE
        /\ conn = [c \in Clients |-> 0]
        /\ sock = [c \in Clients |-> [s \in Sockets(c) |-> NoSocket]]
        /\ page = NoPage /\ cli = NoClient
        /\ faults = 0 /\ remounts = 0

Relay(c) == \E s \in Sockets(c) : HandlesJoin(c, s) \/ JoinTimeout(c, s) \/ RelayNotices(c, s)
Page == \E s \in Sockets(Guest) : Delivers(s) \/ onclose(s)
Connects(c) == \E s \in Sockets(c) : Opens(c, s)

Next == \/ \E c \in Clients : Relay(c) \/ Connects(c)
        \/ \E c \in Clients : \E s \in Sockets(c) : Limited(c, s) \/ Breaks(c, s)
        \/ Page \/ Mounts \/ TimerFires \/ Remounts
        \/ start \/ Reads \/ hostAction \/ quit \/ HostClosed
        \/ OtherJoins \/ destroySession \/ RelayRestarts

\* The event loops of the page, the terminal and the relay come to every socket
\* event and timer; what people do is left to them.
Fairness == /\ \A c \in Clients, s \in 1..Slots : s \in Sockets(c) =>
                   /\ WF_vars(HandlesJoin(c, s)) /\ WF_vars(JoinTimeout(c, s))
                   /\ WF_vars(RelayNotices(c, s)) /\ WF_vars(Opens(c, s))
            /\ \A s \in Sockets(Guest) : WF_vars(Delivers(s)) /\ WF_vars(onclose(s))
            /\ WF_vars(TimerFires) /\ WF_vars(Reads) /\ WF_vars(HostClosed)

Spec == Init /\ [][Next]_vars /\ Fairness

(* ------------------------------- properties ------------------------------ *)

Dialling == \E s \in Sockets(Guest) : sock[Guest][s].client = "dialing"

\* Once the relay's answer was final the page does not dial the vault again
\* (TERMINAL_MESSAGES, TERMINAL_CODES), nor does it hold a timer to do so.
NeverRedials == remounts = 0 /\ page.refused => ~page.timer /\ ~Dialling

\* A page that shows itself connected is admitted, or the news that it no longer
\* is are on their way; and it sends its handshakes.
ShownConnected == remounts = 0 /\ page.connected =>
    /\ ~page.paused
    /\ \/ Guest \in peers /\ conn[Guest] # 0
       \/ \E s \in Sockets(Guest) : Ends(Guest, s)
       \/ \E s \in Sockets(Guest) : sock[Guest][s].server = "closed"

Settled == \/ page.connected \/ page.refused
           \/ pending              \* and the host has yet to decide
           \/ vault /\ conn[Host] = 0   \* nobody could admit the guest

\* While somebody can admit it, a page gets in, or is refused for good: no error,
\* timeout or lost connection on the way leaves it waiting for ever.
Settles == page.should ~> Settled
=============================================================================
