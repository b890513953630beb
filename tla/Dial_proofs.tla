---------------------------- MODULE Dial_proofs ----------------------------
(* Dial.tla for any number of sockets, seats and faults: a page that was     *)
(* refused does not dial again, and one that shows itself connected is       *)
(* admitted or about to learn that it no longer is.                          *)
EXTENDS Dial, SequenceTheorems, TLAPS

(* -------------------------- the inductive invariant ---------------------- *)

Slot == 1..Slots
Messages == {"joined", "pending", "request", "not found", "full", "bad token", "host offline",
             "limit", "rejected", "kicked", "destroyed", "limited"}
Socket == [client : {"none", "dialing", "open", "closing"},
           server : {"none", "new", "known", "closed"},
           join : BOOLEAN, down : Seq(Messages)]
PageType == [cur : 0..Slots, should : BOOLEAN, timer : BOOLEAN, connected : BOOLEAN,
             waiting : BOOLEAN, paused : BOOLEAN, token : BOOLEAN, refused : BOOLEAN]

\* The sockets of the page.
mine == sock[Guest]

\* A table of sockets: what it holds for the page has its type.
Table(k) == DOMAIN k = Clients /\ k[Guest] \in [Slot -> Socket]

Shape == /\ Table(sock)
         /\ DOMAIN conn = Clients /\ conn[Guest] \in 0..Slots
         /\ page \in PageType
         /\ remounts \in Nat

\* A page that is mounted once has one socket at a time; when it waits for its
\* timer, and before it is mounted, it has none.
OneSocket ==
    /\ \A s, t \in Slot : mine[s].client # "none" /\ mine[t].client # "none" => s = t
    /\ page.timer \/ page.cur = 0 => \A s \in Slot : mine[s].client = "none"

\* It dials only while it should, and not once it was refused.
DialsOnPurpose ==
    /\ page.refused => ~page.should
    /\ ~page.should => ~page.timer /\ \A s \in Slot : mine[s].client # "dialing"

\* What the relay knows of the sockets.
RelayKnows ==
    /\ \A s \in Slot : mine[s].client = "dialing" =>
           mine[s].server = "none" /\ ~mine[s].join /\ mine[s].down = <<>>
    /\ \A s \in Slot : mine[s].join => mine[s].client # "none"
    /\ conn[Guest] # 0 => mine[conn[Guest]].server = "known"

\* A socket that was let in still is, or the relay has hung up on it.
LetIn(s) == \/ mine[s].server = "closed"
            \/ mine[s].server = "known" /\ conn[Guest] = s /\ Guest \in peers

\* The news that it was let in is on its way.
Joins(x) == \E i \in 1..Len(x.down) : x.down[i] = "joined"

JoinedIsTrue ==
    /\ \A s \in Slot : mine[s].client = "open" /\ Joins(mine[s]) => LetIn(s)
    /\ page.connected =>
           /\ ~page.paused
           /\ \E s \in Slot : \/ mine[s].client = "closing"
                              \/ mine[s].client = "open" /\ LetIn(s)

Sound == OneSocket /\ DialsOnPurpose /\ RelayKnows /\ JoinedIsTrue
DialInv == Shape /\ (remounts = 0 => Sound)

(* ------------------------ what is done to a table ------------------------- *)

LEMMA ClientFacts == Guest \in Clients /\ Host \in Clients /\ Guest # Host /\ Guest \notin Others
BY ClientsDiffer DEF Clients

LEMMA NoSocketType == NoSocket \in Socket /\ NoSocket.client = "none" /\ ~NoSocket.join
                      /\ NoSocket.server = "none" /\ NoSocket.down = <<>>
BY DEF NoSocket, Socket

\* One socket of a client is replaced.
Replaced(k, c, s, x) == [k EXCEPT ![c] = [k[c] EXCEPT ![s] = x]]

LEMMA ReplaceOne ==
  ASSUME NEW k, Table(k), NEW c \in Clients, NEW s, NEW x,
         c = Guest /\ s \in Slot => x \in Socket
  PROVE  /\ Table(Replaced(k, c, s, x))
         /\ \A t \in Slot : Replaced(k, c, s, x)[Guest][t] =
                IF c = Guest /\ t = s THEN x ELSE k[Guest][t]
<1>0. PICK h : h = Replaced(k, c, s, x)
  OBVIOUS
<1>a. h = [k EXCEPT ![c] = [k[c] EXCEPT ![s] = x]]
  BY <1>0 DEF Replaced
<1>1. DOMAIN h = Clients
  BY <1>a DEF Table
<1>2. CASE c = Guest
  <2>1. h[Guest] = [k[Guest] EXCEPT ![s] = x]
    BY <1>2, <1>a DEF Table
  <2>2. k[Guest] \in [Slot -> Socket] /\ (s \in Slot => x \in Socket)
    BY <1>2 DEF Table
  <2>3. PICK g \in [Slot -> Socket] : g = k[Guest]
    BY <2>2
  <2>4. [g EXCEPT ![s] = x] \in [Slot -> Socket]
    <3>1. CASE s \in Slot
      BY <3>1, <2>2
    <3>2. CASE s \notin Slot
      BY <3>2
    <3> QED BY <3>1, <3>2
  <2>5. \A t \in Slot : [g EXCEPT ![s] = x][t] = IF t = s THEN x ELSE g[t]
    OBVIOUS
  <2> QED BY <1>0, <1>1, <1>2, <2>1, <2>3, <2>4, <2>5 DEF Table
<1>3. CASE c # Guest
  <2>1. h[Guest] = k[Guest]
    BY <1>3, <1>a, ClientFacts DEF Table
  <2> QED BY <1>0, <1>1, <1>3, <2>1 DEF Table
<1> QED BY <1>2, <1>3

Pushed(x, f) == [x EXCEPT !.down = Append(x.down, f)]
HungUp(x) == IF x.client = "none" THEN NoSocket ELSE [x EXCEPT !.server = "closed", !.join = FALSE]
Dropped(x) == IF x.client \notin {"dialing", "open"} THEN x
              ELSE [x EXCEPT !.client = "closing", !.down = <<>>]

LEMMA PushedType ==
  ASSUME NEW x \in Socket, NEW f \in Messages
  PROVE  /\ Pushed(x, f) \in Socket
         /\ Pushed(x, f).client = x.client /\ Pushed(x, f).server = x.server
         /\ Pushed(x, f).join = x.join /\ Pushed(x, f).down = Append(x.down, f)
<1>1. Append(x.down, f) \in Seq(Messages)
  BY DEF Socket
<1> QED BY <1>1 DEF Pushed, Socket

LEMMA HungUpType ==
  ASSUME NEW x \in Socket
  PROVE  /\ HungUp(x) \in Socket
         /\ HungUp(x).client = x.client /\ ~HungUp(x).join
         /\ x.client # "none" => HungUp(x).server = "closed" /\ HungUp(x).down = x.down
BY NoSocketType DEF HungUp, Socket

LEMMA DroppedType ==
  ASSUME NEW x \in Socket
  PROVE  /\ Dropped(x) \in Socket
         /\ Dropped(x).client = IF x.client \in {"dialing", "open"} THEN "closing" ELSE x.client
         /\ Dropped(x).server = x.server /\ Dropped(x).join = x.join
<1>1. <<>> \in Seq(Messages)
  OBVIOUS
<1>2. CASE x.client \notin {"dialing", "open"}
  BY <1>2 DEF Dropped
<1>3. CASE x.client \in {"dialing", "open"}
  BY <1>1, <1>3 DEF Dropped, Socket
<1> QED BY <1>2, <1>3

LEMMA PushKeeps ==
  ASSUME NEW k, Table(k), NEW c \in Clients, NEW s, NEW f \in Messages
  PROVE  /\ Table(Push(k, c, s, f))
         /\ \A t \in Slot : Push(k, c, s, f)[Guest][t] =
                IF c = Guest /\ t = s THEN Pushed(k[Guest][t], f) ELSE k[Guest][t]
<1>0. c \in DOMAIN k
  BY DEF Table
<1>1. Push(k, c, s, f) = Replaced(k, c, s, Pushed(k[c][s], f))
  BY <1>0 DEF Push, Pushed, Replaced
<1>2. PICK x : x = Pushed(k[c][s], f)
  OBVIOUS
<1>3. c = Guest /\ s \in Slot => x \in Socket
  BY <1>2, PushedType DEF Table
<1>4. /\ Table(Replaced(k, c, s, x))
      /\ \A t \in Slot : Replaced(k, c, s, x)[Guest][t] = IF c = Guest /\ t = s THEN x ELSE k[Guest][t]
  BY <1>3, ReplaceOne
<1> QED BY <1>1, <1>2, <1>4

LEMMA HangupKeeps ==
  ASSUME NEW k, Table(k), NEW c \in Clients, NEW s
  PROVE  /\ Table(Hangup(k, c, s))
         /\ \A t \in Slot : Hangup(k, c, s)[Guest][t] =
                IF c = Guest /\ t = s THEN HungUp(k[Guest][t]) ELSE k[Guest][t]
<1>0. c \in DOMAIN k
  BY DEF Table
<1>1. Hangup(k, c, s) = Replaced(k, c, s, HungUp(k[c][s]))
  <2>1. CASE k[c][s].client = "none"
    <3>1. HungUp(k[c][s]) = NoSocket
      BY <2>1 DEF HungUp
    <3> QED BY <2>1, <3>1, <1>0 DEF Hangup, Replaced
  <2>2. CASE k[c][s].client # "none"
    <3>1. HungUp(k[c][s]) = [k[c][s] EXCEPT !.server = "closed", !.join = FALSE]
      BY <2>2 DEF HungUp
    <3>2. Hangup(k, c, s) = [k EXCEPT ![c][s].server = "closed", ![c][s].join = FALSE]
      BY <2>2 DEF Hangup
    <3>3. [k EXCEPT ![c][s].server = "closed", ![c][s].join = FALSE]
             = [k EXCEPT ![c] = [k[c] EXCEPT ![s] = [k[c][s] EXCEPT !.server = "closed", !.join = FALSE]]]
      BY <1>0
    <3> QED BY <3>1, <3>2, <3>3 DEF Replaced
  <2> QED BY <2>1, <2>2
<1>2. PICK x : x = HungUp(k[c][s])
  OBVIOUS
<1>3. c = Guest /\ s \in Slot => x \in Socket
  BY <1>2, HungUpType DEF Table
<1>4. /\ Table(Replaced(k, c, s, x))
      /\ \A t \in Slot : Replaced(k, c, s, x)[Guest][t] = IF c = Guest /\ t = s THEN x ELSE k[Guest][t]
  BY <1>3, ReplaceOne
<1> QED BY <1>1, <1>2, <1>4

LEMMA closingKeeps ==
  ASSUME NEW k, Table(k), NEW c \in Clients, NEW s
  PROVE  /\ Table(closing(k, c, s))
         /\ \A t \in Slot : closing(k, c, s)[Guest][t] =
                IF c = Guest /\ t = s THEN Dropped(k[Guest][t]) ELSE k[Guest][t]
<1>1. CASE s = 0 \/ k[c][s].client \notin {"dialing", "open"}
  <2>1. closing(k, c, s) = k
    BY <1>1 DEF closing
  <2>2. \A t \in Slot : c = Guest /\ t = s => Dropped(k[Guest][t]) = k[Guest][t]
    BY <1>1 DEF Dropped, Slot
  <2> QED BY <2>1, <2>2
<1>2. CASE ~(s = 0 \/ k[c][s].client \notin {"dialing", "open"})
  <2>1. closing(k, c, s) = Replaced(k, c, s, Dropped(k[c][s]))
    <3>1. c \in DOMAIN k
      BY DEF Table
    <3> QED BY <1>2, <3>1 DEF closing, Dropped, Replaced
  <2>2. PICK x : x = Dropped(k[c][s])
    OBVIOUS
  <2>3. c = Guest /\ s \in Slot => x \in Socket
    BY <2>2, DroppedType DEF Table
  <2>4. /\ Table(Replaced(k, c, s, x))
        /\ \A t \in Slot : Replaced(k, c, s, x)[Guest][t] = IF c = Guest /\ t = s THEN x ELSE k[Guest][t]
    BY <2>3, ReplaceOne
  <2> QED BY <2>1, <2>2, <2>4
<1> QED BY <1>1, <1>2

(* -------------------------- steps of the relay ---------------------------- *)

LEMMA JoinsPushed ==
  ASSUME NEW x \in Socket, NEW f \in Messages, Joins(Pushed(x, f))
  PROVE  f = "joined" \/ Joins(x)
<1>1. Pushed(x, f).down = Append(x.down, f)
  BY PushedType
<1>2. PICK d \in Seq(Messages) : d = x.down
  BY DEF Socket
<1>3. PICK i \in 1..Len(Append(d, f)) : Append(d, f)[i] = "joined"
  BY <1>1, <1>2 DEF Joins
<1>4. Append(d, f)[i] = f \/ (i \in 1..Len(d) /\ Append(d, f)[i] = d[i])
  OBVIOUS
<1> QED BY <1>2, <1>3, <1>4 DEF Joins

SamePage == /\ page'.cur = page.cur /\ page'.timer = page.timer /\ page'.should = page.should
            /\ page'.refused = page.refused /\ page'.connected = page.connected
            /\ page'.paused = page.paused

\* A step of the relay neither opens nor closes a socket of the page.
LEMMA RelayActs ==
  ASSUME Shape, Sound, Table(sock'), SamePage,
         \A t \in Slot : mine'[t].client = mine[t].client /\ (mine'[t].join => mine[t].join),
         \A t \in Slot : mine[t].client = "dialing" => mine'[t] = mine[t],
         conn'[Guest] # 0 => mine'[conn'[Guest]].server = "known",
         \A t \in Slot : mine[t].client # "none" /\ LetIn(t) => LetIn(t)',
         \A t \in Slot : mine[t].client = "open" /\ Joins(mine'[t]) => Joins(mine[t]) \/ LetIn(t)'
  PROVE  Sound'
<1>1. OneSocket'
  BY DEF Sound, OneSocket, SamePage
<1>2. DialsOnPurpose'
  BY DEF Sound, DialsOnPurpose, SamePage
<1>3. RelayKnows'
  BY DEF Sound, RelayKnows
<1>4. JoinedIsTrue'
  <2>1. ASSUME NEW t \in Slot, mine'[t].client = "open", Joins(mine'[t]) PROVE LetIn(t)'
    BY <2>1 DEF Sound, JoinedIsTrue
  <2>2. ASSUME page'.connected
        PROVE  /\ ~page'.paused
               /\ \E t \in Slot : mine'[t].client = "closing" \/ (mine'[t].client = "open" /\ LetIn(t)')
    <3>1. PICK t \in Slot : mine[t].client = "closing" \/ (mine[t].client = "open" /\ LetIn(t))
      BY <2>2 DEF Sound, JoinedIsTrue, SamePage
    <3>2. ~page'.paused
      BY <2>2 DEF Sound, JoinedIsTrue, SamePage
    <3>3. mine'[t].client = "closing" \/ (mine'[t].client = "open" /\ LetIn(t)')
      BY <3>1
    <3> QED BY <3>2, <3>3
  <2> QED BY <2>1, <2>2 DEF JoinedIsTrue
<1> QED BY <1>1, <1>2, <1>3, <1>4 DEF Sound

\* A step that does not concern the sockets of the page.
LEMMA Elsewhere ==
  ASSUME Shape, Sound, Table(sock'), SamePage, \A t \in Slot : mine'[t] = mine[t],
         conn'[Guest] = conn[Guest], Guest \in peers => Guest \in peers'
  PROVE  Sound'
<1>1. conn'[Guest] # 0 => mine'[conn'[Guest]].server = "known"
  <2>1. conn[Guest] # 0 => conn[Guest] \in Slot
    BY Bounds DEF Shape, Slot
  <2> QED BY <2>1 DEF Sound, RelayKnows
<1>2. \A t \in Slot : LetIn(t) => LetIn(t)'
  BY DEF LetIn
<1> QED BY <1>1, <1>2, RelayActs

ShapeRest == /\ DOMAIN conn' = Clients /\ conn'[Guest] \in 0..Slots
             /\ page' \in PageType /\ remounts' \in Nat

LEMMA ShapeNext == Table(sock') /\ ShapeRest => Shape'
BY DEF Shape, ShapeRest

LEMMA SameRest ==
  ASSUME Shape, page' = page, conn' = conn, remounts' = remounts
  PROVE  ShapeRest /\ SamePage
BY DEF Shape, ShapeRest, SamePage

Heard(x) == [x EXCEPT !.join = FALSE]
Known(x) == [x EXCEPT !.server = "known"]

LEMMA HeardType ==
  ASSUME NEW x \in Socket
  PROVE  /\ Heard(x) \in Socket /\ Known(Heard(x)) \in Socket
         /\ Heard(x).client = x.client /\ Heard(x).server = x.server /\ ~Heard(x).join
         /\ Heard(x).down = x.down
         /\ Known(Heard(x)).client = x.client /\ Known(Heard(x)).server = "known"
         /\ ~Known(Heard(x)).join /\ Known(Heard(x)).down = x.down
BY DEF Heard, Known, Socket

\* The socket whose join frame is handled.
HeardAt(k, c, s) == [k EXCEPT ![c][s].join = FALSE]
KnownAt(k, c, s) == [k EXCEPT ![c][s].server = "known"]

LEMMA HeardKeeps ==
  ASSUME NEW k, Table(k), NEW c \in Clients, NEW s
  PROVE  /\ Table(HeardAt(k, c, s))
         /\ \A t \in Slot : HeardAt(k, c, s)[Guest][t] =
                IF c = Guest /\ t = s THEN Heard(k[Guest][t]) ELSE k[Guest][t]
<1>0. c \in DOMAIN k
  BY DEF Table
<1>1. HeardAt(k, c, s) = Replaced(k, c, s, Heard(k[c][s]))
  BY <1>0 DEF Heard, Replaced, HeardAt
<1>2. PICK x : x = Heard(k[c][s])
  OBVIOUS
<1>3. c = Guest /\ s \in Slot => x \in Socket
  BY <1>2, HeardType DEF Table
<1>4. /\ Table(Replaced(k, c, s, x))
      /\ \A t \in Slot : Replaced(k, c, s, x)[Guest][t] = IF c = Guest /\ t = s THEN x ELSE k[Guest][t]
  BY <1>3, ReplaceOne
<1> QED BY <1>1, <1>2, <1>4

LEMMA KnownKeeps ==
  ASSUME NEW k, Table(k), NEW c \in Clients, NEW s
  PROVE  /\ Table(KnownAt(k, c, s))
         /\ \A t \in Slot : KnownAt(k, c, s)[Guest][t] =
                IF c = Guest /\ t = s THEN Known(k[Guest][t]) ELSE k[Guest][t]
<1>0. c \in DOMAIN k
  BY DEF Table
<1>1. KnownAt(k, c, s) = Replaced(k, c, s, Known(k[c][s]))
  BY <1>0 DEF Known, Replaced, KnownAt
<1>2. PICK x : x = Known(k[c][s])
  OBVIOUS
<1>3. c = Guest /\ s \in Slot => x \in Socket
  BY <1>2 DEF Table, Known, Socket
<1>4. /\ Table(Replaced(k, c, s, x))
      /\ \A t \in Slot : Replaced(k, c, s, x)[Guest][t] = IF c = Guest /\ t = s THEN x ELSE k[Guest][t]
  BY <1>3, ReplaceOne
<1> QED BY <1>1, <1>2, <1>4

\* What the relay makes of a join frame of the page.
LEMMA JoinShape ==
  ASSUME Shape, NEW s \in Slot, HandlesJoin(Guest, s)
  PROVE  Shape'
<1> DEFINE heard == HeardAt(sock, Guest, s)
           known == KnownAt(heard, Guest, s)
           n == [conn EXCEPT ![Guest] = s]
<1>0. Guest \in Clients /\ Host \in Clients /\ s \in 0..Slots
  BY ClientFacts DEF Slot
<1>1. PICK h : h = heard
  OBVIOUS
<1>2. PICK k : k = known
  OBVIOUS
<1>3. Table(h) /\ Table(k)
  <2>1. Table(h)
    BY <1>0, <1>1, HeardKeeps DEF Shape
  <2> QED BY <1>0, <1>1, <1>2, <2>1, KnownKeeps
<1>4. page' = page /\ remounts' = remounts
  BY DEF HandlesJoin, bounds
<1>5. ASSUME NEW q, Table(q), NEW c \in Clients, NEW t, NEW f \in Messages PROVE Table(Push(q, c, t, f))
  BY <1>5, PushKeeps
<1>6. {"not found", "full", "host offline", "bad token", "joined", "pending", "request"} \subseteq Messages
  BY DEF Messages
<1>7. \/ \E f \in Messages : sock' = Push(h, Guest, s, f) /\ conn' = conn
      \/ sock' = Hangup(Push(h, Guest, s, "bad token"), Guest, s) /\ conn' = conn
      \/ sock' = Push(k, Guest, s, "joined") /\ conn' = n
      \/ sock' = Push(IF pending THEN k ELSE Push(k, Host, conn[Host], "request"), Guest, s, "pending")
         /\ conn' = n
  BY <1>0, <1>1, <1>2, <1>6 DEF HandlesJoin, HeardAt, KnownAt, admitPeer, session
<1>8. Table(sock')
  <2>1. Table(Push(h, Guest, s, "bad token"))
    BY <1>0, <1>3, <1>5, <1>6
  <2>2. Table(Hangup(Push(h, Guest, s, "bad token"), Guest, s))
    BY <1>0, <2>1, HangupKeeps
  <2>3. Table(Push(k, Host, conn[Host], "request"))
    BY <1>0, <1>3, <1>5, <1>6
  <2>4. PICK q : Table(q) /\ q = IF pending THEN k ELSE Push(k, Host, conn[Host], "request")
    BY <1>3, <2>3
  <2> QED BY <1>0, <1>3, <1>5, <1>6, <1>7, <2>2, <2>4
<1>9. DOMAIN conn' = Clients /\ conn'[Guest] \in 0..Slots
  BY <1>0, <1>7 DEF Shape
<1> QED BY <1>4, <1>8, <1>9, ShapeNext DEF Shape, ShapeRest

LEMMA GuestJoins ==
  ASSUME Shape, Sound, NEW s \in Slot, HandlesJoin(Guest, s)
  PROVE  Sound'
<1> DEFINE heard == HeardAt(sock, Guest, s)
           known == KnownAt(heard, Guest, s)
           n == [conn EXCEPT ![Guest] = s]
<1>0. Guest \in Clients /\ Host \in Clients /\ Guest # Host
  BY ClientFacts
<1>1. PICK x \in Socket : x = mine[s]
  BY DEF Shape, Table, mine
<1>2. /\ x.join /\ x.server = "new" /\ x.client # "none" /\ x.client # "dialing"
      /\ conn[Guest] # s /\ UNCHANGED <<page, remounts>>
  <2>1. sock[Guest][s].join /\ sock[Guest][s].server = "new" /\ UNCHANGED <<page, bounds>>
    BY DEF HandlesJoin
  <2>2. x = sock[Guest][s]
    BY <1>1 DEF mine
  <2>3. RelayKnows
    BY DEF Sound
  <2>5. x.client # "none" /\ (x.client = "dialing" => ~x.join)
    BY ONLY <1>1, <2>1, <2>2, <2>3, s \in Slot DEF RelayKnows
  <2>6. conn[Guest] = s => x.server = "known"
    <3>1. s # 0
      BY DEF Slot
    <3> QED BY ONLY <1>1, <2>3, <3>1 DEF RelayKnows
  <2>4. page' = page /\ remounts' = remounts
    BY <2>1 DEF bounds
  <2> QED BY <2>1, <2>2, <2>4, <2>5, <2>6
<1>3. PICK h : h = heard
  OBVIOUS
<1>4. Table(h) /\ \A t \in Slot : h[Guest][t] = IF t = s THEN Heard(mine[t]) ELSE mine[t]
  BY <1>0, <1>3, HeardKeeps DEF Shape, mine
<1>5. PICK k : k = known
  OBVIOUS
<1>6. Table(k) /\ \A t \in Slot : k[Guest][t] = IF t = s THEN Known(Heard(mine[t])) ELSE mine[t]
  BY <1>0, <1>3, <1>4, <1>5, KnownKeeps
<1>7. SamePage /\ page' \in PageType /\ remounts' \in Nat
  BY <1>2 DEF SamePage, Shape
<1>8. \A t \in Slot : t # s => mine[t].client = "none"
  BY <1>1, <1>2 DEF Sound, OneSocket
<1>9. DOMAIN n = Clients /\ n[Guest] = s /\ s \in 0..Slots /\ s # 0
  BY <1>0 DEF Shape, Slot
\* It is turned down for now, or for good.
<1>10. ASSUME NEW f \in Messages, f # "joined", UNCHANGED <<peers, conn>>,
              sock' = Push(h, Guest, s, f) \/ sock' = Hangup(Push(h, Guest, s, f), Guest, s)
       PROVE  Sound'
  <2>1. PICK y \in Socket : y = Pushed(Heard(x), f)
    BY HeardType, PushedType
  <2>2. y.client = x.client /\ y.server = "new" /\ ~y.join /\ (Joins(y) => Joins(x))
    <3>1. Joins(y) => Joins(Heard(x))
      BY <2>1, <1>10, HeardType, JoinsPushed
    <3> QED BY <3>1, <2>1, <1>2, HeardType, PushedType DEF Joins
  <2>3. PICK z \in Socket : /\ z = y \/ z = HungUp(y)
                            /\ Table(sock') /\ \A t \in Slot : mine'[t] = IF t = s THEN z ELSE mine[t]
    <3>1. PICK p : p = Push(h, Guest, s, f)
      OBVIOUS
    <3>2. Table(p) /\ \A t \in Slot : p[Guest][t] = IF t = s THEN y ELSE mine[t]
      BY <1>0, <1>1, <1>4, <2>1, <3>1, PushKeeps DEF mine
    <3>3. CASE sock' = p
      BY <3>2, <3>3 DEF mine
    <3>4. CASE sock' = Hangup(p, Guest, s)
      <4>1. Table(sock') /\ \A t \in Slot : mine'[t] = IF t = s THEN HungUp(y) ELSE mine[t]
        BY <1>0, <3>2, <3>4, HangupKeeps DEF mine
      <4> QED BY <4>1, HungUpType
    <3> QED BY <1>10, <3>1, <3>3, <3>4
  <2>4. z.client = x.client /\ ~z.join /\ (Joins(z) => Joins(x))
    BY <1>2, <2>2, <2>3, HungUpType DEF Joins
  <2>5. \A t \in Slot : mine'[t].client = mine[t].client /\ (mine'[t].join => mine[t].join)
    BY <1>1, <2>3, <2>4
  <2>6. \A t \in Slot : mine[t].client = "dialing" => mine'[t] = mine[t]
    BY <1>1, <1>2, <2>3
  <2>7. conn'[Guest] # 0 => mine'[conn'[Guest]].server = "known"
    <3>1. conn[Guest] # 0 => conn[Guest] \in Slot
      BY Bounds DEF Shape, Slot
    <3> QED BY <1>2, <1>10, <2>3, <3>1 DEF Sound, RelayKnows
  <2>8. \A t \in Slot : mine[t].client # "none" /\ LetIn(t) => LetIn(t)'
    BY <1>1, <1>2, <1>8 DEF LetIn
  <2>9. \A t \in Slot : mine[t].client = "open" /\ Joins(mine'[t]) => Joins(mine[t]) \/ LetIn(t)'
    BY <1>1, <2>3, <2>4
  <2> QED BY <1>7, <2>3, <2>5, <2>6, <2>7, <2>8, <2>9, RelayActs
\* It is let in, or waits for the host.
<1>11. ASSUME NEW q, q[Guest] = k[Guest], Table(q), NEW f \in Messages, conn' = n,
              sock' = Push(q, Guest, s, f), f = "joined" => Guest \in peers'
       PROVE  Sound'
  <2>1. PICK y \in Socket : y = Pushed(Known(Heard(x)), f)
    BY HeardType, PushedType
  <2>2. y.client = x.client /\ y.server = "known" /\ ~y.join /\ (Joins(y) => f = "joined" \/ Joins(x))
    <3>1. PICK z \in Socket : /\ z = Known(Heard(x)) /\ z.client = x.client
                              /\ z.server = "known" /\ ~z.join /\ z.down = x.down
      BY HeardType
    <3>2. Joins(y) => f = "joined" \/ Joins(z)
      BY <2>1, <3>1, JoinsPushed
    <3>3. y.client = z.client /\ y.server = z.server /\ y.join = z.join
      BY <2>1, <3>1, PushedType
    <3>4. Joins(z) => Joins(x)
      BY <3>1 DEF Joins
    <3> QED BY <3>1, <3>2, <3>3, <3>4
  <2>3. Table(sock') /\ \A t \in Slot : mine'[t] = IF t = s THEN y ELSE mine[t]
    BY <1>0, <1>1, <1>6, <1>11, <2>1, PushKeeps DEF mine
  <2>4. conn'[Guest] = s
    BY <1>9, <1>11
  <2>5. \A t \in Slot : mine'[t].client = mine[t].client /\ (mine'[t].join => mine[t].join)
    BY <1>1, <2>2, <2>3
  <2>6. \A t \in Slot : mine[t].client = "dialing" => mine'[t] = mine[t]
    BY <1>1, <1>2, <2>3
  <2>7. conn'[Guest] # 0 => mine'[conn'[Guest]].server = "known"
    BY <2>2, <2>3, <2>4
  <2>8. \A t \in Slot : mine[t].client # "none" /\ LetIn(t) => LetIn(t)'
    BY <1>1, <1>2, <1>8 DEF LetIn
  <2>9. \A t \in Slot : mine[t].client = "open" /\ Joins(mine'[t]) => Joins(mine[t]) \/ LetIn(t)'
    BY <1>1, <1>8, <1>11, <2>2, <2>3, <2>4 DEF LetIn
  <2> QED BY <1>7, <2>3, <2>5, <2>6, <2>7, <2>8, <2>9, RelayActs
<1>12. CASE \E f \in {"not found", "full", "host offline"} :
              sock' = Push(h, Guest, s, f) /\ UNCHANGED <<session, conn>>
  <2>1. PICK f \in {"not found", "full", "host offline"} :
              sock' = Push(h, Guest, s, f) /\ UNCHANGED <<session, conn>>
    BY <1>12
  <2>2. f \in Messages /\ f # "joined" /\ UNCHANGED <<peers, conn>>
    BY <2>1 DEF Messages, session
  <2> QED BY <2>1, <2>2, <1>10
<1>13. CASE sock' = Hangup(Push(h, Guest, s, "bad token"), Guest, s) /\ UNCHANGED <<session, conn>>
  <2>1. "bad token" \in Messages /\ "bad token" # "joined" /\ UNCHANGED <<peers, conn>>
    BY <1>13 DEF Messages, session
  <2> QED BY <2>1, <1>13, <1>10
<1>14. CASE admitPeer(Guest, s, k, n)
  <2>1. "joined" \in Messages /\ Guest \in peers' /\ conn' = n /\ sock' = Push(k, Guest, s, "joined")
    BY <1>14 DEF Messages, admitPeer
  <2> QED BY <2>1, <1>6, <1>11
<1>15. CASE /\ conn' = n
            /\ sock' = Push(IF pending THEN k ELSE Push(k, Host, conn[Host], "request"), Guest, s, "pending")
  <2>1. PICK q : q = IF pending THEN k ELSE Push(k, Host, conn[Host], "request")
    OBVIOUS
  <2>2. Table(q) /\ q[Guest] = k[Guest]
    <3>1. CASE pending
      BY <1>6, <2>1, <3>1
    <3>2. CASE ~pending
      <4>1. "request" \in Messages
        BY DEF Messages
      <4>2. Table(q) /\ \A t \in Slot : q[Guest][t] = k[Guest][t]
        BY <1>0, <1>6, <2>1, <3>2, <4>1, PushKeeps
      <4> QED BY <4>2, <1>6 DEF Table
    <3> QED BY <3>1, <3>2
  <2>3. "pending" \in Messages /\ "pending" # "joined"
    BY DEF Messages
  <2> QED BY <1>15, <2>1, <2>2, <2>3, <1>11
<1> QED
  BY <1>0, <1>3, <1>5, <1>12, <1>13, <1>14, <1>15 DEF HandlesJoin, HeardAt, KnownAt

\* A step that leaves the page, its sockets and its connection as they are.
Aside == /\ Table(sock') /\ \A t \in Slot : mine'[t] = mine[t]
         /\ DOMAIN conn' = Clients /\ conn'[Guest] = conn[Guest]
         /\ Guest \in peers => Guest \in peers'
         /\ page' = page /\ remounts' = remounts

LEMMA AsideKeeps == DialInv /\ Aside => DialInv'
<1> SUFFICES ASSUME DialInv, Aside PROVE DialInv'
  OBVIOUS
<1>1. Shape /\ Table(sock') /\ remounts' = remounts
  BY DEF DialInv, Aside
<1>2. ShapeRest /\ SamePage
  BY DEF DialInv, Aside, Shape, ShapeRest, SamePage
<1>3. Shape'
  BY <1>1, <1>2, ShapeNext
<1>4. remounts = 0 => Sound'
  <2> SUFFICES ASSUME remounts = 0 PROVE Sound'
    OBVIOUS
  <2>1. Shape /\ Sound
    BY DEF DialInv
  <2>2. /\ \A t \in Slot : mine'[t] = mine[t]
        /\ conn'[Guest] = conn[Guest] /\ (Guest \in peers => Guest \in peers')
    BY DEF Aside
  <2> QED BY <1>1, <1>2, <2>1, <2>2, Elsewhere
<1> QED BY <1>1, <1>3, <1>4 DEF DialInv

LEMMA ConnFacts == Shape => (conn[Guest] = 0 \/ conn[Guest] \in Slot) /\ 0 \notin Slot
BY Bounds DEF Shape, Slot

\* A step that does something to one socket of the terminal.
LEMMA HostOnly ==
  ASSUME Table(sock), NEW s, NEW x, sock' = Replaced(sock, Host, s, x)
  PROVE  Table(sock') /\ \A t \in Slot : mine'[t] = mine[t]
BY ReplaceOne, ClientFacts DEF mine

LEMMA HostJoins ==
  ASSUME Shape, NEW s, HandlesJoin(Host, s)
  PROVE  Aside
<1> DEFINE heard == HeardAt(sock, Host, s)
           known == KnownAt(heard, Host, s)
           n == [conn EXCEPT ![Host] = s]
<1>0. Guest \in Clients /\ Host \in Clients /\ Guest # Host
  BY ClientFacts
<1>1. page' = page /\ remounts' = remounts
  BY DEF HandlesJoin, bounds
<1>2. PICK h : h = heard
  OBVIOUS
<1>3. Table(h) /\ \A t \in Slot : h[Guest][t] = mine[t]
  BY <1>0, <1>2, HeardKeeps DEF Shape, mine
<1>4. PICK k : k = known
  OBVIOUS
<1>5. Table(k) /\ \A t \in Slot : k[Guest][t] = mine[t]
  BY <1>0, <1>2, <1>3, <1>4, KnownKeeps
<1>6. ASSUME NEW q, Table(q), \A t \in Slot : q[Guest][t] = mine[t], NEW f \in Messages,
             sock' = Push(q, Host, s, f)
      PROVE  Table(sock') /\ \A t \in Slot : mine'[t] = mine[t]
  BY <1>0, <1>6, PushKeeps DEF mine
<1>7. ASSUME NEW f \in Messages, sock' = Push(h, Host, s, f), UNCHANGED <<session, conn>>
      PROVE  Aside
  <2>1. Table(sock') /\ \A t \in Slot : mine'[t] = mine[t]
    BY <1>3, <1>6, <1>7
  <2> QED BY <1>1, <1>7, <2>1 DEF Aside, Shape, session
<1>8. CASE admitPeer(Host, s, k, n)
  <2>1. "joined" \in Messages /\ sock' = Push(k, Host, s, "joined") /\ conn' = n
        /\ (Guest \in peers => Guest \in peers')
    BY <1>8 DEF Messages, admitPeer
  <2>2. Table(sock') /\ \A t \in Slot : mine'[t] = mine[t]
    BY <1>5, <1>6, <2>1
  <2>3. DOMAIN conn' = Clients /\ conn'[Guest] = conn[Guest]
    BY <1>0, <2>1 DEF Shape
  <2> QED BY <1>1, <2>1, <2>2, <2>3 DEF Aside
<1>9. "not found" \in Messages /\ "full" \in Messages
  BY DEF Messages
<1>10. \/ sock' = Push(h, Host, s, "not found") /\ UNCHANGED <<session, conn>>
       \/ sock' = Push(h, Host, s, "full") /\ UNCHANGED <<session, conn>>
       \/ admitPeer(Host, s, k, n)
  BY <1>0, <1>2, <1>4 DEF HandlesJoin, HeardAt, KnownAt
<1> QED BY <1>7, <1>8, <1>9, <1>10

\* The guest's connection is ended with a message, or its socket was gone.
LEMMA Dismisses ==
  ASSUME Shape, Sound, NEW f \in Messages, f # "joined", Table(sock'), SamePage,
         \A t \in Slot : mine'[t] = IF t = conn[Guest] THEN HungUp(Pushed(mine[t], f)) ELSE mine[t],
         conn'[Guest] = 0
  PROVE  Sound'
<1>1. ASSUME NEW t \in Slot
      PROVE  /\ mine'[t].client = mine[t].client /\ (mine'[t].join => mine[t].join)
             /\ mine[t].client = "dialing" => mine'[t] = mine[t]
             /\ mine[t].client # "none" /\ LetIn(t) => LetIn(t)'
             /\ mine[t].client = "open" /\ Joins(mine'[t]) => Joins(mine[t])
  <2>1. CASE t # conn[Guest]
    BY <1>1, <2>1 DEF LetIn
  <2>2. CASE t = conn[Guest]
    <3>1. PICK x \in Socket : x = mine[t]
      BY <1>1 DEF Shape, Table, mine
    <3>2. x.client # "dialing"
      <4>1. RelayKnows /\ conn[Guest] # 0
        BY <1>1, <2>2, ConnFacts DEF Sound
      <4> QED BY ONLY <1>1, <2>2, <3>1, <4>1 DEF RelayKnows
    <3>3. PICK y \in Socket : y = Pushed(x, f)
      BY PushedType
    <3>4. y.client = x.client /\ (Joins(y) => Joins(x))
      BY <3>3, PushedType, JoinsPushed
    <3>5. PICK z \in Socket : z = HungUp(y)
      BY HungUpType
    <3>6. z.client = x.client /\ ~z.join /\ (x.client # "none" => z.server = "closed" /\ z.down = y.down)
      BY <3>4, <3>5, HungUpType
    <3>7. mine'[t] = z
      BY <1>1, <2>2, <3>1, <3>3, <3>5
    <3>8. x.client = "open" /\ Joins(z) => Joins(x)
      BY <3>4, <3>6 DEF Joins
    <3> QED BY <3>1, <3>2, <3>6, <3>7, <3>8 DEF LetIn
  <2> QED BY <2>1, <2>2
<1> QED BY <1>1, RelayActs

\* One socket of the page is replaced by a step of the relay.
LEMMA GuestOnly ==
  ASSUME Table(sock), NEW s \in Slot, NEW x \in Socket, sock' = Replaced(sock, Guest, s, x)
  PROVE  Table(sock') /\ \A t \in Slot : mine'[t] = IF t = s THEN x ELSE mine[t]
BY ReplaceOne, ClientFacts DEF mine

LEMMA HangsUp ==
  ASSUME DialInv, NEW s \in Slot, JoinTimeout(Guest, s)
  PROVE  DialInv'
<1>0. Shape /\ Guest \in Clients
  BY ClientFacts DEF DialInv
<1>1. sock' = Hangup(sock, Guest, s) /\ sock[Guest][s].server = "new"
      /\ peers' = peers /\ conn' = conn /\ page' = page /\ remounts' = remounts
  BY DEF JoinTimeout, session, bounds
<1>2. Table(sock') /\ \A t \in Slot : mine'[t] = IF t = s THEN HungUp(mine[t]) ELSE mine[t]
  BY <1>0, <1>1, HangupKeeps DEF Shape, mine
<1>3. ShapeRest /\ SamePage /\ Shape'
  BY <1>0, <1>1, <1>2, SameRest, ShapeNext
<1>4. ASSUME Sound PROVE Sound'
  <2>1. PICK x \in Socket : x = mine[s]
    BY <1>0 DEF Shape, Table, mine
  <2>2. x.server = "new" /\ x.client # "dialing" /\ conn[Guest] # s
    <3>1. x.server = "new" /\ RelayKnows
      BY <1>1, <1>4, <2>1 DEF mine, Sound
    <3>2. x.client # "dialing"
      BY ONLY <2>1, <3>1, s \in Slot DEF RelayKnows
    <3>3. conn[Guest] # s
      <4>1. s # 0
        BY DEF Slot
      <4> QED BY ONLY <2>1, <3>1, <4>1 DEF RelayKnows
    <3> QED BY <3>1, <3>2, <3>3
  <2>3. PICK z \in Socket : z = HungUp(x)
    BY HungUpType
  <2>4. z.client = x.client /\ ~z.join /\ (x.client # "none" => z.server = "closed" /\ z.down = x.down)
    BY <2>3, HungUpType
  <2>5. ASSUME NEW t \in Slot
        PROVE  /\ mine'[t].client = mine[t].client /\ (mine'[t].join => mine[t].join)
               /\ mine[t].client = "dialing" => mine'[t] = mine[t]
               /\ mine[t].client # "none" /\ LetIn(t) => LetIn(t)'
               /\ mine[t].client = "open" /\ Joins(mine'[t]) => Joins(mine[t])
    <3>1. CASE t = s
      <4>1. mine'[t] = z /\ mine[t] = x
        BY <1>2, <2>1, <2>3, <3>1
      <4>2. x.client = "open" /\ Joins(z) => Joins(x)
        BY <2>4 DEF Joins
      <4> QED BY <2>2, <2>4, <4>1, <4>2 DEF LetIn
    <3>2. CASE t # s
      BY <1>1, <1>2, <2>5, <3>2 DEF LetIn
    <3> QED BY <3>1, <3>2
  <2>6. conn'[Guest] # 0 => mine'[conn'[Guest]].server = "known"
    <3>1. conn[Guest] = 0 \/ conn[Guest] \in Slot
      BY <1>0, ConnFacts
    <3> QED BY <1>1, <1>2, <1>4, <2>2, <3>1 DEF Sound, RelayKnows
  <2> QED BY <1>0, <1>2, <1>3, <1>4, <2>5, <2>6, RelayActs
<1> QED BY <1>1, <1>3, <1>4 DEF DialInv

LEMMA Notices ==
  ASSUME DialInv, NEW s \in Slot, RelayNotices(Guest, s)
  PROVE  DialInv'
<1>0. Shape /\ Guest \in Clients /\ s # 0
  BY ClientFacts DEF DialInv, Slot
<1>1. /\ mine[s].client = "none" /\ peers' = peers /\ page' = page /\ remounts' = remounts
      /\ sock' = Replaced(sock, Guest, s, NoSocket)
  <2>1. sock[Guest][s].client = "none" /\ sock' = [sock EXCEPT ![Guest][s] = NoSocket]
        /\ peers' = peers /\ page' = page /\ remounts' = remounts
    BY DEF RelayNotices, bounds
  <2> QED BY <2>1, <1>0 DEF Replaced, Shape, Table, mine
<1>2. Table(sock') /\ \A t \in Slot : mine'[t] = IF t = s THEN NoSocket ELSE mine[t]
  BY <1>0, <1>1, GuestOnly, NoSocketType DEF Shape
<1>3. DOMAIN conn' = Clients /\ conn'[Guest] = IF conn[Guest] = s THEN 0 ELSE conn[Guest]
  BY <1>0 DEF RelayNotices, Shape
<1>4. ShapeRest /\ SamePage /\ Shape'
  <2>1. conn[Guest] \in 0..Slots /\ 0 \in 0..Slots
    BY <1>0, Bounds DEF Shape
  <2>2. ShapeRest /\ SamePage
    BY <1>0, <1>1, <1>3, <2>1 DEF ShapeRest, SamePage, Shape
  <2> QED BY <1>2, <2>2, ShapeNext
<1>5. ASSUME Sound PROVE Sound'
  <2>1. NoSocket.client = "none" /\ ~NoSocket.join
    BY NoSocketType
  <2>2. ASSUME NEW t \in Slot
        PROVE  /\ mine'[t].client = mine[t].client /\ (mine'[t].join => mine[t].join)
               /\ mine[t].client = "dialing" => mine'[t] = mine[t]
               /\ mine[t].client # "none" /\ LetIn(t) => LetIn(t)'
               /\ mine[t].client = "open" /\ Joins(mine'[t]) => Joins(mine[t])
    <3>1. CASE t = s
      BY <1>1, <1>2, <2>1, <2>2, <3>1
    <3>2. CASE t # s
      <4>1. LetIn(t) => LetIn(t)'
        BY <1>1, <1>2, <1>3, <2>2, <3>2 DEF LetIn
      <4> QED BY <1>2, <2>2, <3>2, <4>1
    <3> QED BY <3>1, <3>2
  <2>3. conn'[Guest] # 0 => mine'[conn'[Guest]].server = "known"
    <3>1. conn[Guest] = 0 \/ conn[Guest] \in Slot
      BY <1>0, ConnFacts
    <3> QED BY <1>2, <1>3, <1>5, <3>1 DEF Sound, RelayKnows
  <2> QED BY <1>0, <1>2, <1>4, <1>5, <2>2, <2>3, RelayActs
<1> QED BY <1>1, <1>4, <1>5 DEF DialInv

\* The host admits the guest that waits.
LEMMA Admits ==
  ASSUME DialInv, admitPeer(Guest, conn[Guest], sock, conn), page' = page, remounts' = remounts
  PROVE  DialInv'
<1>0. Shape /\ Guest \in Clients
  BY ClientFacts DEF DialInv
<1>1. Guest \in peers' /\ conn' = conn /\ sock' = Push(sock, Guest, conn[Guest], "joined") /\ "joined" \in Messages
  BY DEF admitPeer, Messages
<1>2. Table(sock') /\ \A t \in Slot : mine'[t] = IF t = conn[Guest] THEN Pushed(mine[t], "joined") ELSE mine[t]
  BY <1>0, <1>1, PushKeeps DEF Shape, mine
<1>3. ShapeRest /\ SamePage /\ Shape'
  BY <1>0, <1>1, <1>2, SameRest, ShapeNext
<1>4. ASSUME Sound PROVE Sound'
  <2>1. ASSUME NEW t \in Slot
        PROVE  /\ mine'[t].client = mine[t].client /\ (mine'[t].join => mine[t].join)
               /\ mine'[t].server = mine[t].server
               /\ mine[t].client = "dialing" => mine'[t] = mine[t]
               /\ mine[t].client # "none" /\ LetIn(t) => LetIn(t)'
               /\ mine[t].client = "open" /\ Joins(mine'[t]) => Joins(mine[t]) \/ LetIn(t)'
    <3>1. CASE t = conn[Guest]
      <4>1. PICK x \in Socket : x = mine[t]
        BY <1>0, <2>1 DEF Shape, Table, mine
      <4>2. PICK y \in Socket : y = Pushed(x, "joined")
        BY <1>1, PushedType
      <4>3. y.client = x.client /\ y.server = x.server /\ y.join = x.join
        BY <1>1, <4>2, PushedType
      <4>4. x.server = "known" /\ x.client # "dialing"
        <5>1. RelayKnows /\ conn[Guest] # 0
          BY <1>0, <1>4, <2>1, <3>1, ConnFacts DEF Sound
        <5> QED BY ONLY <2>1, <3>1, <4>1, <5>1 DEF RelayKnows
      <4>5. mine'[t] = y
        BY <1>2, <2>1, <3>1, <4>1, <4>2
      <4>6. LetIn(t)'
        BY <1>1, <3>1, <4>3, <4>4, <4>5 DEF LetIn
      <4> QED BY <4>1, <4>3, <4>4, <4>5, <4>6
    <3>2. CASE t # conn[Guest]
      <4>1. mine'[t] = mine[t]
        BY <1>2, <2>1, <3>2
      <4>2. LetIn(t) => LetIn(t)'
        BY <1>1, <3>2, <4>1 DEF LetIn
      <4> QED BY <4>1, <4>2
    <3> QED BY <3>1, <3>2
  <2>2. conn'[Guest] # 0 => mine'[conn'[Guest]].server = "known"
    <3>1. conn[Guest] = 0 \/ conn[Guest] \in Slot
      BY <1>0, ConnFacts
    <3> QED BY <1>1, <1>4, <2>1, <3>1 DEF Sound, RelayKnows
  <2> QED BY <1>0, <1>2, <1>3, <1>4, <2>1, <2>2, RelayActs
<1> QED BY <1>3, <1>4 DEF DialInv

\* The host turns the guest down, or puts it out.
LEMMA PutsOut ==
  ASSUME DialInv, NEW f \in Messages, f # "joined",
         sock' = Dismissed(f, conn) \/ (sock' = sock /\ conn[Guest] = 0),
         conn' = [conn EXCEPT ![Guest] = 0], SamePage, page' \in PageType, remounts' = remounts
  PROVE  DialInv'
<1>0. Shape /\ Guest \in Clients
  BY ClientFacts DEF DialInv
<1>1. Table(sock') /\ \A t \in Slot : mine'[t] = IF t = conn[Guest] THEN HungUp(Pushed(mine[t], f)) ELSE mine[t]
  <2>1. CASE sock' = Dismissed(f, conn)
    <3>1. PICK k : k = Push(sock, Guest, conn[Guest], f)
      OBVIOUS
    <3>2. Table(k) /\ \A t \in Slot : k[Guest][t] = IF t = conn[Guest] THEN Pushed(mine[t], f) ELSE mine[t]
      BY <1>0, <3>1, PushKeeps DEF Shape, mine
    <3>3. sock' = Hangup(k, Guest, conn[Guest])
      BY <2>1, <3>1 DEF Dismissed
    <3> QED BY <1>0, <3>2, <3>3, HangupKeeps DEF mine
  <2>2. CASE sock' = sock /\ conn[Guest] = 0
    BY <1>0, <2>2, ConnFacts DEF Shape, mine
  <2> QED BY <2>1, <2>2
<1>2. DOMAIN conn' = Clients /\ conn'[Guest] = 0 /\ 0 \in 0..Slots
  BY <1>0, Bounds DEF Shape
<1>3. ShapeRest
  BY <1>0, <1>2 DEF ShapeRest, Shape
<1>4. Shape'
  BY <1>1, <1>3, ShapeNext
<1>5. Sound => Sound'
  BY <1>0, <1>1, <1>2, Dismisses
<1> QED BY <1>4, <1>5 DEF DialInv

LEMMA HostActs ==
  ASSUME DialInv, hostAction
  PROVE  DialInv'
<1>0. Shape /\ Guest \in Clients /\ Host \in Clients /\ Guest # Host
  BY ClientFacts DEF DialInv
<1>1. remounts' = remounts
  BY DEF hostAction, bounds
<1>2. CASE accept_join /\ page' = page
  <2>1. CASE sock' = Push(sock, Host, conn[Host], "limit") /\ UNCHANGED <<session, conn>>
    <3>1. "limit" \in Messages /\ Table(sock)
      BY <1>0 DEF Messages, Shape
    <3>2. Table(sock') /\ \A t \in Slot : mine'[t] = mine[t]
      BY <1>0, <2>1, <3>1, PushKeeps DEF mine
    <3>3. Aside
      BY <1>0, <1>1, <1>2, <2>1, <3>2 DEF Aside, Shape, session
    <3> QED BY <3>3, AsideKeeps
  <2>2. CASE admitPeer(Guest, conn[Guest], sock, conn)
    BY <1>1, <1>2, <2>2, Admits
  <2> QED BY <1>2, <2>1, <2>2 DEF accept_join
<1>3. CASE reject_join /\ page' = page
  <2>1. "rejected" \in Messages /\ "rejected" # "joined" /\ SamePage /\ page' \in PageType
    BY <1>0, <1>3 DEF Messages, SamePage, Shape
  <2> QED BY <1>1, <1>3, <2>1, PutsOut DEF reject_join
<1>4. CASE UNCHANGED <<session, conn, sock, page>>
  <2>1. Aside
    BY <1>0, <1>1, <1>4 DEF Aside, Shape, session, mine
  <2> QED BY <2>1, AsideKeeps
<1>5. CASE kick_peer
  <2>1. PICK p \in PageType : p = page
    BY <1>0 DEF Shape
  <2>2. page' = [p EXCEPT !.token = FALSE]
    BY <1>5, <2>1 DEF kick_peer
  <2>3. page' \in PageType /\ SamePage
    BY <2>1, <2>2 DEF SamePage, PageType
  <2>4. "kicked" \in Messages /\ "kicked" # "joined"
    BY DEF Messages
  <2>5. conn' = [conn EXCEPT ![Guest] = 0]
        /\ (sock' = Dismissed("kicked", conn) \/ (sock' = sock /\ conn[Guest] = 0))
    BY <1>5 DEF kick_peer
  <2> QED BY <1>1, <2>3, <2>4, <2>5, PutsOut
<1> QED BY <1>2, <1>3, <1>4, <1>5 DEF hostAction

LEMMA Destroys ==
  ASSUME DialInv, destroySession
  PROVE  DialInv'
<1>0. Shape /\ Guest \in Clients /\ Sockets(Guest) = Slot
  BY ClientFacts DEF DialInv, Sockets, Slot
<1>1. page' = page /\ remounts' = remounts /\ conn' = [c \in Clients |-> 0]
  BY DEF destroySession, bounds
<1>2. DOMAIN sock' = Clients
      /\ mine' = [s \in Slot |-> IF s = conn[Guest] /\ mine[s].server = "known"
                                 THEN Hangup(Push(sock, Guest, s, "destroyed"), Guest, s)[Guest][s]
                                 ELSE mine[s]]
  BY <1>0 DEF destroySession, mine
<1>3. "destroyed" \in Messages /\ "destroyed" # "joined"
  BY DEF Messages
<1>4. ASSUME NEW s \in Slot
      PROVE  Hangup(Push(sock, Guest, s, "destroyed"), Guest, s)[Guest][s] = HungUp(Pushed(mine[s], "destroyed"))
  <2>1. PICK k : k = Push(sock, Guest, s, "destroyed")
    OBVIOUS
  <2>2. Table(k) /\ k[Guest][s] = Pushed(mine[s], "destroyed")
    BY <1>0, <1>3, <1>4, <2>1, PushKeeps DEF Shape, mine
  <2>3. Hangup(k, Guest, s)[Guest][s] = HungUp(k[Guest][s])
    BY <1>0, <1>4, <2>2, HangupKeeps
  <2> QED BY <2>1, <2>2, <2>3
<1>5. \A s \in Slot : mine'[s] = IF s = conn[Guest] /\ mine[s].server = "known"
                                 THEN HungUp(Pushed(mine[s], "destroyed")) ELSE mine[s]
  BY <1>2, <1>4
<1>6. Table(sock')
  <2>1. ASSUME NEW s \in Slot PROVE mine[s] \in Socket /\ HungUp(Pushed(mine[s], "destroyed")) \in Socket
    <3>1. PICK x \in Socket : x = mine[s]
      BY <1>0, <2>1 DEF Shape, Table, mine
    <3>2. PICK y \in Socket : y = Pushed(x, "destroyed")
      BY <1>3, PushedType
    <3> QED BY <3>1, <3>2, HungUpType
  <2>2. \A s \in Slot : mine'[s] \in Socket
    BY <1>5, <2>1
  <2>3. DOMAIN mine' = Slot
    BY <1>2
  <2>4. PICK g : g = mine'
    OBVIOUS
  <2>5. g = [s \in Slot |-> g[s]]
    BY <1>2, <2>4
  <2>6. g \in [Slot -> Socket]
    BY <2>2, <2>4, <2>5
  <2> QED BY <1>2, <2>4, <2>6 DEF Table, mine
<1>7. DOMAIN conn' = Clients /\ conn'[Guest] = 0 /\ 0 \in 0..Slots
  BY <1>0, <1>1, Bounds
<1>8. ShapeRest /\ SamePage /\ Shape'
  <2>1. ShapeRest /\ SamePage
    BY <1>0, <1>1, <1>7 DEF ShapeRest, SamePage, Shape
  <2> QED BY <1>6, <2>1, ShapeNext
<1>9. ASSUME Sound PROVE Sound'
  <2>1. \A s \in Slot : s = conn[Guest] => mine[s].server = "known"
    BY <1>0, <1>9, ConnFacts DEF Sound, RelayKnows
  <2>2. \A s \in Slot : mine'[s] = IF s = conn[Guest] THEN HungUp(Pushed(mine[s], "destroyed")) ELSE mine[s]
    BY <1>5, <2>1
  <2> QED BY <1>0, <1>3, <1>6, <1>7, <1>8, <1>9, <2>2, Dismisses
<1> QED BY <1>1, <1>8, <1>9 DEF DialInv

\* What becomes of a socket when the relay restarts.
Lost(x) == IF x.client = "none" THEN NoSocket
           ELSE IF x.server = "none" THEN x ELSE [x EXCEPT !.server = "closed", !.join = FALSE]

LEMMA LostType ==
  ASSUME NEW x \in Socket
  PROVE  /\ Lost(x) \in Socket /\ Lost(x).client = x.client /\ (Lost(x).join => x.join)
         /\ x.client # "none" => Lost(x).down = x.down
         /\ x.server = "none" /\ x.client # "none" => Lost(x) = x
         /\ x.server # "none" /\ x.client # "none" => Lost(x).server = "closed"
BY NoSocketType DEF Lost, Socket

LEMMA Restarts ==
  ASSUME DialInv, RelayRestarts
  PROVE  DialInv'
<1>0. Shape /\ Guest \in Clients /\ Sockets(Guest) = Slot
  BY ClientFacts DEF DialInv, Sockets, Slot
<1>1. page' = page /\ remounts' = remounts /\ conn' = [c \in Clients |-> 0]
  BY DEF RelayRestarts
<1>2. DOMAIN sock' = Clients /\ mine' = [s \in Slot |-> Lost(mine[s])]
  BY <1>0 DEF RelayRestarts, mine, Lost
<1>3. Table(sock')
  <2>1. \A s \in Slot : Lost(mine[s]) \in Socket
    BY <1>0, LostType DEF Shape, Table, mine
  <2>2. [s \in Slot |-> Lost(mine[s])] \in [Slot -> Socket]
    BY <2>1
  <2> QED BY <1>2, <2>2 DEF Table, mine
<1>4. DOMAIN conn' = Clients /\ conn'[Guest] = 0 /\ 0 \in 0..Slots
  BY <1>0, <1>1, Bounds
<1>5. ShapeRest /\ SamePage /\ Shape'
  <2>1. ShapeRest /\ SamePage
    BY <1>0, <1>1, <1>4 DEF ShapeRest, SamePage, Shape
  <2> QED BY <1>3, <2>1, ShapeNext
<1>6. ASSUME Sound PROVE Sound'
  <2>1. ASSUME NEW t \in Slot
        PROVE  /\ mine'[t].client = mine[t].client /\ (mine'[t].join => mine[t].join)
               /\ mine[t].client = "dialing" => mine'[t] = mine[t]
               /\ mine[t].client # "none" /\ LetIn(t) => LetIn(t)'
               /\ mine[t].client = "open" /\ Joins(mine'[t]) => Joins(mine[t])
    <3>1. PICK x \in Socket : x = mine[t]
      BY <1>0, <2>1 DEF Shape, Table, mine
    <3>2. x.client = "dialing" => x.server = "none"
      BY <1>6, <2>1, <3>1 DEF Sound, RelayKnows
    <3>3. PICK z \in Socket : z = Lost(x)
      BY LostType
    <3>4. /\ z.client = x.client /\ (z.join => x.join) /\ (x.client # "none" => z.down = x.down)
          /\ (x.server = "none" /\ x.client # "none" => z = x)
          /\ (x.server # "none" /\ x.client # "none" => z.server = "closed")
      BY <3>3, LostType
    <3>5. mine'[t] = z
      BY <1>2, <2>1, <3>1, <3>3
    <3>6. x.client = "open" /\ Joins(z) => Joins(x)
      BY <3>4 DEF Joins
    <3> QED BY <3>1, <3>2, <3>4, <3>5, <3>6 DEF LetIn
  <2> QED BY <1>0, <1>3, <1>4, <1>5, <1>6, <2>1, RelayActs
<1> QED BY <1>1, <1>5, <1>6 DEF DialInv

(* ------------------------ steps of the terminal --------------------------- *)

\* Whatever is done to the terminal's sockets is none of the page's business.
LEMMA HostSteps ==
  ASSUME DialInv, Table(sock'), \A t \in Slot : mine'[t] = mine[t],
         UNCHANGED <<session, conn, page>>, remounts' = remounts
  PROVE  DialInv'
BY AsideKeeps DEF Aside, DialInv, Shape, session

LEMMA ReplacesHost ==
  ASSUME DialInv, NEW s, NEW x, sock' = Replaced(sock, Host, s, x),
         UNCHANGED <<session, conn, page>>, remounts' = remounts
  PROVE  DialInv'
BY HostSteps, HostOnly DEF DialInv, Shape

LEMMA ClosesHost ==
  ASSUME DialInv, NEW s, NEW k, Table(k), \A t \in Slot : k[Guest][t] = mine[t],
         sock' = closing(k, Host, s), UNCHANGED <<session, conn, page>>, remounts' = remounts
  PROVE  DialInv'
<1>1. Table(sock') /\ \A t \in Slot : mine'[t] = mine[t]
  BY closingKeeps, ClientFacts DEF mine
<1> QED BY <1>1, HostSteps

LEMMA TerminalSteps ==
  ASSUME DialInv, start \/ Reads \/ quit \/ HostClosed
  PROVE  DialInv'
<1>0. Table(sock) /\ Host \in Clients /\ Guest \in Clients /\ Guest # Host /\ Host \in DOMAIN sock
  BY ClientFacts DEF DialInv, Shape, Table
<1>1. CASE start
  <2>1. sock' = [sock EXCEPT ![Host][1].client = "dialing"]
        /\ UNCHANGED <<session, conn, page>> /\ remounts' = remounts
    BY <1>1 DEF start, bounds
  <2>2. sock' = Replaced(sock, Host, 1, [sock[Host][1] EXCEPT !.client = "dialing"])
    BY <1>0, <2>1 DEF Replaced
  <2> QED BY <2>1, <2>2, ReplacesHost
<1>2. CASE Reads
  <2> DEFINE heard == [sock EXCEPT ![Host][1].down = Tail(@)]
  <2>1. (sock' = closing(heard, Host, 1) \/ sock' = heard)
        /\ UNCHANGED <<session, conn, page>> /\ remounts' = remounts
    BY <1>2 DEF Reads, bounds
  <2>2. PICK x : x = [sock[Host][1] EXCEPT !.down = Tail(@)]
    OBVIOUS
  <2>3. PICK k : k = heard
    OBVIOUS
  <2>4. k = Replaced(sock, Host, 1, x)
    BY <1>0, <2>2, <2>3 DEF Replaced
  <2>5. Table(k) /\ \A t \in Slot : k[Guest][t] = mine[t]
    BY <1>0, <2>4, ReplaceOne DEF mine
  <2> QED BY <2>1, <2>3, <2>4, <2>5, ReplacesHost, ClosesHost
<1>3. CASE quit
  <2>1. sock' = closing(sock, Host, 1) /\ UNCHANGED <<session, conn, page>> /\ remounts' = remounts
    BY <1>3 DEF quit, bounds
  <2> QED BY <1>0, <2>1, ClosesHost DEF mine
<1>4. CASE HostClosed
  <2>1. sock' = Closed(Host, 1) /\ UNCHANGED <<session, conn, page>> /\ remounts' = remounts
    BY <1>4 DEF HostClosed, bounds
  <2>2. PICK x : x = IF sock[Host][1].server \in {"none", "closed"} THEN NoSocket
                     ELSE [sock[Host][1] EXCEPT !.client = "none", !.join = FALSE, !.down = <<>>]
    OBVIOUS
  <2>3. sock' = Replaced(sock, Host, 1, x)
    BY <1>0, <2>1, <2>2 DEF Closed, Replaced
  <2> QED BY <2>1, <2>3, ReplacesHost
<1> QED BY <1>1, <1>2, <1>3, <1>4

LEMMA HostConnection ==
  ASSUME DialInv, NEW s, JoinTimeout(Host, s) \/ Opens(Host, s) \/ Limited(Host, s) \/ Breaks(Host, s)
  PROVE  DialInv'
<1>0. Table(sock) /\ Host \in Clients /\ Guest \in Clients /\ Guest # Host /\ Host \in DOMAIN sock
  BY ClientFacts DEF DialInv, Shape, Table
<1>1. CASE JoinTimeout(Host, s)
  <2>1. sock' = Hangup(sock, Host, s) /\ UNCHANGED <<session, conn, page>> /\ remounts' = remounts
    BY <1>1 DEF JoinTimeout, bounds
  <2>2. Table(sock') /\ \A t \in Slot : mine'[t] = mine[t]
    BY <1>0, <2>1, HangupKeeps DEF mine
  <2> QED BY <2>1, <2>2, HostSteps
<1>2. CASE Opens(Host, s)
  <2>1. sock' = [sock EXCEPT ![Host][s].client = "open", ![Host][s].server = "new", ![Host][s].join = TRUE]
        /\ UNCHANGED <<session, conn, page>> /\ remounts' = remounts
    BY <1>2 DEF Opens, bounds
  <2>2. sock' = Replaced(sock, Host, s,
                         [sock[Host][s] EXCEPT !.client = "open", !.server = "new", !.join = TRUE])
    BY <1>0, <2>1 DEF Replaced
  <2> QED BY <2>1, <2>2, ReplacesHost
<1>3. CASE Limited(Host, s)
  <2> DEFINE x == [client |-> "open", server |-> "closed", join |-> FALSE, down |-> <<"limited">>]
  <2>1. sock' = Replaced(sock, Host, s, x) /\ UNCHANGED <<session, conn, page>> /\ remounts' = remounts
    BY <1>0, <1>3 DEF Limited, Replaced
  <2> QED BY <2>1, ReplacesHost
<1>4. CASE Breaks(Host, s)
  <2>1. sock' = [closing(sock, Host, s) EXCEPT ![Host][s].join = FALSE]
        /\ UNCHANGED <<session, conn, page>> /\ remounts' = remounts
    BY <1>4 DEF Breaks
  <2>2. PICK k : k = closing(sock, Host, s)
    OBVIOUS
  <2>3. Table(k) /\ \A t \in Slot : k[Guest][t] = mine[t]
    BY <1>0, <2>2, closingKeeps DEF mine
  <2>4. sock' = HeardAt(k, Host, s)
    BY <2>1, <2>2 DEF HeardAt
  <2>5. Table(sock') /\ \A t \in Slot : mine'[t] = mine[t]
    BY <1>0, <2>3, <2>4, HeardKeeps DEF mine
  <2> QED BY <2>1, <2>5, HostSteps
<1> QED BY <1>1, <1>2, <1>3, <1>4

LEMMA NoticesHost ==
  ASSUME DialInv, NEW s, RelayNotices(Host, s)
  PROVE  DialInv'
<1>0. Shape /\ Host \in Clients /\ Guest \in Clients /\ Guest # Host /\ Host \in DOMAIN sock
  BY ClientFacts DEF DialInv, Shape, Table
<1>1. sock' = [sock EXCEPT ![Host][s] = NoSocket] /\ peers' = peers /\ page' = page /\ remounts' = remounts
      /\ (conn' = [conn EXCEPT ![Host] = 0] \/ conn' = conn)
  BY DEF RelayNotices, bounds
<1>2. sock' = Replaced(sock, Host, s, NoSocket)
  BY <1>0, <1>1 DEF Replaced
<1>3. Table(sock') /\ \A t \in Slot : mine'[t] = mine[t]
  BY <1>0, <1>2, HostOnly DEF Shape
<1>4. DOMAIN conn' = Clients /\ conn'[Guest] = conn[Guest]
  BY <1>0, <1>1 DEF Shape
<1> QED BY <1>1, <1>3, <1>4, AsideKeeps DEF Aside

LEMMA OthersTakeSeats ==
  ASSUME DialInv, OtherJoins
  PROVE  DialInv'
<1>1. /\ sock' = sock /\ conn' = conn /\ page' = page /\ remounts' = remounts
      /\ Guest \in peers => Guest \in peers'
  BY DEF OtherJoins, bounds
<1> QED BY <1>1, AsideKeeps DEF Aside, DialInv, Shape, mine

(* ---------------------------- steps of the page --------------------------- *)

\* An event on the only socket of the page, which stays.
LEMMA Moves ==
  ASSUME Sound, NEW s \in Slot, NEW z \in Socket,
         \A t \in Slot : mine'[t] = IF t = s THEN z ELSE mine[t],
         mine[s].client # "none", z.client \in {"open", "closing"},
         page'.cur = page.cur, page'.timer = page.timer, page'.refused => ~page'.should,
         page'.connected => ~page'.paused /\ (z.client = "closing" \/ LetIn(s)'),
         conn'[Guest] = conn[Guest], conn[Guest] = 0 \/ conn[Guest] \in Slot,
         conn[Guest] = s => z.server = "known",
         z.client = "open" /\ Joins(z) => LetIn(s)'
  PROVE  Sound'
<1>1. \A t \in Slot : t # s => mine[t].client = "none"
  BY DEF Sound, OneSocket
<1>2. ~page.timer /\ page.cur # 0
  BY DEF Sound, OneSocket
<1>3. OneSocket'
  BY <1>1, <1>2 DEF OneSocket
<1>4. DialsOnPurpose'
  BY <1>1, <1>2 DEF DialsOnPurpose
<1>5. RelayKnows'
  <2>1. RelayKnows
    BY DEF Sound
  <2>2. \A t \in Slot : mine'[t].client # "dialing"
    BY <1>1
  <2>3. \A t \in Slot : mine'[t].join => mine'[t].client # "none"
    BY <2>1 DEF RelayKnows
  <2>4. conn'[Guest] # 0 => mine'[conn'[Guest]].server = "known"
    BY <2>1 DEF RelayKnows
  <2> QED BY <2>2, <2>3, <2>4 DEF RelayKnows
<1>6. JoinedIsTrue'
  <2>1. mine'[s] = z
    OBVIOUS
  <2>2. \A t \in Slot : mine'[t].client = "open" /\ Joins(mine'[t]) => LetIn(t)'
    BY <1>1, <2>1
  <2>3. page'.connected =>
           /\ ~page'.paused
           /\ \E t \in Slot : mine'[t].client = "closing" \/ (mine'[t].client = "open" /\ LetIn(t)')
    BY <2>1
  <2> QED BY <2>2, <2>3 DEF JoinedIsTrue
<1> QED BY <1>3, <1>4, <1>5, <1>6 DEF Sound

\* A page that shows itself connected has its one socket open or closing.
LEMMA ConnectedSocket ==
  ASSUME Sound, NEW s \in Slot, mine[s].client # "none", page.connected
  PROVE  ~page.paused /\ (mine[s].client = "closing" \/ (mine[s].client = "open" /\ LetIn(s)))
<1>1. ~page.paused /\ \E t \in Slot : mine[t].client = "closing" \/ (mine[t].client = "open" /\ LetIn(t))
  BY DEF Sound, JoinedIsTrue
<1>2. PICK t \in Slot : mine[t].client = "closing" \/ (mine[t].client = "open" /\ LetIn(t))
  BY <1>1
<1>3. t = s
  BY <1>2 DEF Sound, OneSocket
<1> QED BY <1>1, <1>2, <1>3

LEMMA SocketFacts ==
  ASSUME Sound, NEW s \in Slot
  PROVE  /\ conn[Guest] = s => mine[s].server = "known"
         /\ mine[s].client = "dialing" => mine[s].server = "none" /\ mine[s].down = <<>> /\ conn[Guest] # s
<1>1. RelayKnows /\ s # 0
  BY DEF Sound, Slot
<1>2. conn[Guest] = s => mine[s].server = "known"
  BY ONLY <1>1 DEF RelayKnows
<1>3. mine[s].client = "dialing" => mine[s].server = "none" /\ mine[s].down = <<>>
  BY ONLY <1>1, s \in Slot DEF RelayKnows
<1> QED BY <1>2, <1>3

\* The connection opens, or the relay turns it away, or it fails.
LEMMA Connection ==
  ASSUME DialInv, NEW s \in Slot, Opens(Guest, s) \/ Limited(Guest, s) \/ Breaks(Guest, s)
  PROVE  DialInv'
<1>0. Shape /\ Guest \in Clients /\ Table(sock) /\ Guest \in DOMAIN sock /\ s \in DOMAIN sock[Guest]
  BY ClientFacts DEF DialInv, Shape, Table
<1>1. UNCHANGED <<peers, conn, page>> /\ remounts' = remounts
  BY DEF Opens, Limited, Breaks, session, bounds
<1>2. PICK x \in Socket : x = sock[Guest][s]
  BY <1>0 DEF Table
<1>3. PICK z \in Socket :
         /\ Table(sock') /\ \A t \in Slot : mine'[t] = IF t = s THEN z ELSE mine[t]
         /\ \/ x.client = "dialing" /\ z.client = "open" /\ (x.down = <<>> => ~Joins(z))
            \/ x.client \in {"dialing", "open"} /\ z.client = "closing" /\ z.server = x.server
  <2>1. CASE Opens(Guest, s)
    <3>1. PICK z : z = [x EXCEPT !.client = "open", !.server = "new", !.join = TRUE]
      OBVIOUS
    <3>2. z \in Socket /\ z.client = "open" /\ z.down = x.down
      BY <3>1 DEF Socket
    <3>3. sock' = Replaced(sock, Guest, s, z) /\ x.client = "dialing"
      <4>1. sock' = [sock EXCEPT ![Guest][s].client = "open", ![Guest][s].server = "new", ![Guest][s].join = TRUE]
            /\ x.client = "dialing"
        BY <2>1, <1>2 DEF Opens
      <4> QED BY <1>0, <1>2, <3>1, <4>1 DEF Replaced
    <3>4. x.down = <<>> => ~Joins(z)
      BY <3>2 DEF Joins
    <3>5. Table(sock') /\ \A t \in Slot : mine'[t] = IF t = s THEN z ELSE mine[t]
      BY <1>0, <3>2, <3>3, GuestOnly
    <3> QED BY <3>2, <3>3, <3>4, <3>5
  <2>2. CASE Limited(Guest, s)
    <3>1. PICK z : z = [client |-> "open", server |-> "closed", join |-> FALSE, down |-> <<"limited">>]
      OBVIOUS
    <3>2. z \in Socket /\ z.client = "open" /\ z.down = <<"limited">>
      <4>1. <<"limited">> \in Seq(Messages)
        BY DEF Messages
      <4> QED BY <3>1, <4>1 DEF Socket
    <3>3. sock' = Replaced(sock, Guest, s, z) /\ x.client = "dialing"
      BY <1>0, <1>2, <2>2, <3>1 DEF Limited, Replaced
    <3>4. ~Joins(z)
      BY <3>2 DEF Joins
    <3>5. Table(sock') /\ \A t \in Slot : mine'[t] = IF t = s THEN z ELSE mine[t]
      BY <1>0, <3>2, <3>3, GuestOnly
    <3> QED BY <3>2, <3>3, <3>4, <3>5
  <2>3. CASE Breaks(Guest, s)
    <3>1. sock' = [closing(sock, Guest, s) EXCEPT ![Guest][s].join = FALSE]
          /\ x.client \in {"dialing", "open"}
      BY <2>3, <1>2 DEF Breaks
    <3>2. PICK k : k = closing(sock, Guest, s)
      OBVIOUS
    <3>3. Table(k) /\ \A t \in Slot : k[Guest][t] = IF t = s THEN Dropped(mine[t]) ELSE mine[t]
      BY <1>0, <3>2, closingKeeps DEF mine
    <3>4. sock' = HeardAt(k, Guest, s)
      BY <3>1, <3>2 DEF HeardAt
    <3>5. PICK y \in Socket : y = Dropped(x)
      BY DroppedType
    <3>6. y.client = "closing" /\ y.server = x.server
      BY <3>1, <3>5, DroppedType
    <3>7. PICK z \in Socket : z = Heard(y)
      BY HeardType
    <3>8. z.client = "closing" /\ z.server = x.server
      BY <3>6, <3>7, HeardType
    <3>9. Table(sock') /\ \A t \in Slot : mine'[t] = IF t = s THEN Heard(k[Guest][t]) ELSE k[Guest][t]
      BY <1>0, <3>3, <3>4, HeardKeeps DEF mine
    <3>10. \A t \in Slot : mine'[t] = IF t = s THEN z ELSE mine[t]
      BY <1>2, <3>3, <3>5, <3>7, <3>9 DEF mine
    <3> QED BY <3>1, <3>8, <3>9, <3>10
  <2> QED BY <2>1, <2>2, <2>3
<1>4. Shape'
  BY <1>0, <1>1, <1>3, SameRest, ShapeNext
<1>5. ASSUME Sound PROVE Sound'
  <2>1. mine[s] = x /\ x.client # "none"
    BY <1>2, <1>3 DEF mine
  <2>2. /\ conn[Guest] = s => x.server = "known"
        /\ x.client = "dialing" => x.server = "none" /\ x.down = <<>> /\ conn[Guest] # s
    BY <1>5, <2>1, SocketFacts
  <2>3. page'.connected => ~page'.paused /\ (z.client = "closing" \/ LetIn(s)')
    BY <1>1, <1>3, <1>5, <2>1, ConnectedSocket
  <2>4. page'.refused => ~page'.should
    BY <1>1, <1>5 DEF Sound, DialsOnPurpose
  <2>5. conn[Guest] = s => z.server = "known"
    BY <1>3, <2>2
  <2>6. z.client = "open" /\ Joins(z) => LetIn(s)'
    BY <1>3, <2>2
  <2>7. z.client \in {"open", "closing"} /\ page'.cur = page.cur /\ page'.timer = page.timer
        /\ conn'[Guest] = conn[Guest] /\ (conn[Guest] = 0 \/ conn[Guest] \in Slot)
    BY <1>0, <1>1, <1>3, ConnFacts
  <2> QED BY <1>3, <1>5, <2>1, <2>3, <2>4, <2>5, <2>6, <2>7, Moves
<1> QED BY <1>1, <1>4, <1>5 DEF DialInv

LEMMA FirstFrame ==
  ASSUME NEW x \in Socket, x.down # <<>>
  PROVE  /\ x.down[1] \in Messages /\ Tail(x.down) \in Seq(Messages)
         /\ x.down[1] = "joined" => Joins(x)
         /\ \A z \in Socket : z.down = Tail(x.down) /\ Joins(z) => Joins(x)
<1>1. PICK d \in Seq(Messages) : d = x.down /\ d # <<>>
  BY DEF Socket
<1>2. Len(d) \in Nat /\ Len(d) # 0 /\ Tail(d) \in Seq(Messages) /\ Len(Tail(d)) = Len(d) - 1
  BY <1>1, EmptySeq, HeadTailProperties
<1>3. 1 \in 1..Len(d) /\ d[1] \in Messages
  BY <1>1, <1>2
<1>4. d[1] = "joined" => Joins(x)
  BY <1>1, <1>3 DEF Joins
<1>5. ASSUME NEW z \in Socket, z.down = Tail(d), Joins(z) PROVE Joins(x)
  <2>1. PICK i \in 1..Len(Tail(d)) : Tail(d)[i] = "joined"
    BY <1>5 DEF Joins
  <2>2. i + 1 \in 1..Len(d) /\ Tail(d)[i] = d[i + 1]
    BY <1>1, <1>2, <2>1
  <2> QED BY <1>1, <2>1, <2>2 DEF Joins
<1> QED BY <1>1, <1>2, <1>3, <1>4, <1>5

\* What the page makes of a frame.
LEMMA onmessageFacts ==
  ASSUME NEW p \in PageType, NEW f \in Messages
  PROVE  /\ onmessage(p, f) \in PageType
         /\ onmessage(p, f).cur = p.cur /\ onmessage(p, f).timer = p.timer
         /\ f \in TERMINAL => onmessage(p, f).refused /\ ~onmessage(p, f).should
         /\ f \notin TERMINAL => /\ onmessage(p, f).refused = p.refused
                                 /\ onmessage(p, f).should = p.should
         /\ f = "joined" => ~onmessage(p, f).paused
         /\ f # "joined" => /\ onmessage(p, f).connected = p.connected
                            /\ onmessage(p, f).paused = p.paused
<1>1. CASE f = "joined"
  <2>1. onmessage(p, f) = [p EXCEPT !.connected = TRUE, !.waiting = FALSE, !.paused = FALSE, !.token = TRUE]
        /\ f \notin TERMINAL
    BY <1>1 DEF onmessage, TERMINAL
  <2> QED BY <1>1, <2>1 DEF PageType
<1>2. CASE f = "pending"
  <2>1. onmessage(p, f) = [p EXCEPT !.waiting = TRUE] /\ f \notin TERMINAL
    BY <1>2 DEF onmessage, TERMINAL
  <2> QED BY <1>2, <2>1 DEF PageType
<1>3. CASE f \in TERMINAL
  <2>1. onmessage(p, f) = [p EXCEPT !.should = FALSE, !.refused = TRUE] /\ f # "joined"
    BY <1>3 DEF onmessage, TERMINAL
  <2> QED BY <1>3, <2>1 DEF PageType
<1>4. CASE f # "joined" /\ f # "pending" /\ f \notin TERMINAL
  <2>1. onmessage(p, f) = p
    BY <1>4 DEF onmessage
  <2> QED BY <1>4, <2>1
<1> QED BY <1>1, <1>2, <1>3, <1>4

\* The page reads a frame of the relay.
LEMMA Reading ==
  ASSUME DialInv, NEW s \in Slot, Delivers(s)
  PROVE  DialInv'
<1>0. Shape /\ Guest \in Clients /\ Table(sock) /\ Guest \in DOMAIN sock /\ s \in DOMAIN sock[Guest]
  BY ClientFacts DEF DialInv, Shape, Table
<1>1. PICK x \in Socket : x = sock[Guest][s]
  BY <1>0 DEF Table
<1>2. PICK f : f = x.down[1]
  OBVIOUS
<1>3. /\ x.client = "open" /\ x.down # <<>> /\ page' = onmessage(page, f)
      /\ UNCHANGED <<peers, conn>> /\ remounts' = remounts
      /\ sock' = IF f \in TERMINAL
                 THEN closing([sock EXCEPT ![Guest][s].down = Tail(@)], Guest, s)
                 ELSE [sock EXCEPT ![Guest][s].down = Tail(@)]
  BY <1>1, <1>2 DEF Delivers, session, bounds
<1>4. f \in Messages /\ (f = "joined" => Joins(x)) /\ Tail(x.down) \in Seq(Messages)
  BY <1>2, <1>3, FirstFrame
<1>5. PICK y : y = [x EXCEPT !.down = Tail(x.down)]
  OBVIOUS
<1>6. /\ y \in Socket /\ y.client = "open" /\ y.server = x.server /\ y.down = Tail(x.down)
  BY <1>3, <1>4, <1>5 DEF Socket
<1>7. Joins(y) => Joins(x)
  BY <1>3, <1>6, FirstFrame
<1>8. PICK k : k = [sock EXCEPT ![Guest][s].down = Tail(@)]
  OBVIOUS
<1>9. k = Replaced(sock, Guest, s, y)
  BY <1>0, <1>1, <1>5, <1>8 DEF Replaced
<1>10. Table(k) /\ \A t \in Slot : k[Guest][t] = IF t = s THEN y ELSE mine[t]
  BY <1>0, <1>6, <1>9, ReplaceOne DEF mine
<1>11. PICK z \in Socket :
          /\ Table(sock') /\ \A t \in Slot : mine'[t] = IF t = s THEN z ELSE mine[t]
          /\ z.server = x.server
          /\ f \in TERMINAL => z.client = "closing"
          /\ f \notin TERMINAL => z = y
  <2>1. CASE f \in TERMINAL
    <3>1. PICK z \in Socket : z = Dropped(y)
      BY <1>6, DroppedType
    <3>2. z.client = "closing" /\ z.server = x.server
      BY <1>6, <3>1, DroppedType
    <3>3. Table(sock') /\ \A t \in Slot : mine'[t] = IF t = s THEN Dropped(k[Guest][t]) ELSE k[Guest][t]
      <4>1. sock' = closing(k, Guest, s)
        BY <1>3, <1>8, <2>1
      <4>2. Table(closing(k, Guest, s)) /\ \A t \in Slot :
              closing(k, Guest, s)[Guest][t] = IF t = s THEN Dropped(k[Guest][t]) ELSE k[Guest][t]
        BY <1>0, <1>10, closingKeeps
      <4> QED BY <4>1, <4>2 DEF mine
    <3>4. \A t \in Slot : mine'[t] = IF t = s THEN z ELSE mine[t]
      BY <1>10, <3>1, <3>3
    <3> QED BY <2>1, <3>2, <3>3, <3>4
  <2>2. CASE f \notin TERMINAL
    BY <1>3, <1>6, <1>8, <1>10, <2>2 DEF mine
  <2> QED BY <2>1, <2>2
<1>12. PICK p \in PageType : p = page
  BY <1>0 DEF Shape
<1>13. /\ page' \in PageType /\ page'.cur = p.cur /\ page'.timer = p.timer
       /\ f \in TERMINAL => page'.refused /\ ~page'.should
       /\ f \notin TERMINAL => page'.refused = p.refused /\ page'.should = p.should
       /\ f = "joined" => ~page'.paused
       /\ f # "joined" => page'.connected = p.connected /\ page'.paused = p.paused
  BY <1>3, <1>4, <1>12, onmessageFacts
<1>14. Shape'
  BY <1>0, <1>3, <1>11, <1>13, ShapeNext DEF Shape, ShapeRest
<1>15. ASSUME Sound PROVE Sound'
  <2>1. mine[s] = x /\ mine[s].client = "open"
    BY <1>1, <1>3 DEF mine
  <2>2. conn[Guest] = s => x.server = "known"
    BY <1>15, <2>1, SocketFacts
  <2>3. Joins(x) => LetIn(s)
    BY <1>15, <2>1 DEF Sound, JoinedIsTrue
  <2>4. LetIn(s) => LetIn(s)'
    BY <1>3, <1>11, <2>1 DEF LetIn
  <2>5. page'.connected => ~page'.paused /\ (z.client = "closing" \/ LetIn(s)')
    <3>1. CASE f = "joined"
      BY <1>4, <1>13, <2>3, <2>4, <3>1
    <3>2. CASE f # "joined"
      <4>1. page'.connected => ~page.paused /\ LetIn(s)
        BY <1>12, <1>13, <1>15, <2>1, <3>2, ConnectedSocket
      <4> QED BY <1>12, <1>13, <2>4, <3>2, <4>1
    <3> QED BY <3>1, <3>2
  <2>6. page'.refused => ~page'.should
    BY <1>12, <1>13, <1>15 DEF Sound, DialsOnPurpose
  <2>7. z.client = "open" /\ Joins(z) => LetIn(s)'
    BY <1>7, <1>11, <2>3, <2>4
  <2>8. z.client \in {"open", "closing"} /\ page'.cur = page.cur /\ page'.timer = page.timer
        /\ conn'[Guest] = conn[Guest] /\ (conn[Guest] = 0 \/ conn[Guest] \in Slot)
        /\ (conn[Guest] = s => z.server = "known") /\ mine[s].client # "none"
    BY <1>0, <1>3, <1>6, <1>11, <1>12, <1>13, <2>1, <2>2, ConnFacts
  <2> QED BY <1>11, <1>15, <2>5, <2>6, <2>7, <2>8, Moves
<1> QED BY <1>3, <1>14, <1>15 DEF DialInv

LEMMA afterCloseFacts ==
  ASSUME NEW p \in PageType
  PROVE  /\ afterClose(p) \in PageType
         /\ ~afterClose(p).connected /\ afterClose(p).refused = p.refused
         /\ afterClose(p).should = p.should
         /\ ~p.should => afterClose(p).timer = p.timer
<1>1. PICK q : q = [p EXCEPT !.connected = FALSE, !.paused = TRUE]
  OBVIOUS
<1>2. q \in PageType /\ ~q.connected /\ q.refused = p.refused /\ q.should = p.should /\ q.timer = p.timer
  BY <1>1 DEF PageType
<1>3. afterClose(p) = IF q.should THEN [q EXCEPT !.timer = TRUE] ELSE q
  BY <1>1 DEF afterClose, scheduleReconnect
<1>4. CASE q.should
  <2>1. afterClose(p) = [q EXCEPT !.timer = TRUE]
    BY <1>3, <1>4
  <2> QED BY <1>2, <1>4, <2>1 DEF PageType
<1>5. CASE ~q.should
  BY <1>2, <1>3, <1>5
<1> QED BY <1>4, <1>5

\* The page has no socket left.
LEMMA NoneLeft ==
  ASSUME \A t \in Slot : mine'[t].client = "none" /\ ~mine'[t].join,
         page'.refused => ~page'.should, ~page'.should => ~page'.timer, ~page'.connected,
         conn'[Guest] # 0 => mine'[conn'[Guest]].server = "known"
  PROVE  Sound'
<1>1. OneSocket'
  BY DEF OneSocket
<1>2. DialsOnPurpose'
  BY DEF DialsOnPurpose
<1>3. RelayKnows'
  BY DEF RelayKnows
<1>4. JoinedIsTrue'
  BY DEF JoinedIsTrue
<1> QED BY <1>1, <1>2, <1>3, <1>4 DEF Sound

LEMMA Closing ==
  ASSUME DialInv, NEW s \in Slot, onclose(s)
  PROVE  DialInv'
<1>0. Shape /\ Guest \in Clients /\ Table(sock) /\ Guest \in DOMAIN sock
  BY ClientFacts DEF DialInv, Shape, Table
<1>1. PICK x \in Socket : x = sock[Guest][s]
  BY <1>0 DEF Table
<1>2. x.client # "none" /\ page' = afterClose(page) /\ sock' = Closed(Guest, s)
      /\ UNCHANGED <<peers, conn>> /\ remounts' = remounts
  BY <1>1 DEF onclose, Ends, session, bounds
<1>3. PICK z : z = IF x.server \in {"none", "closed"} THEN NoSocket
                   ELSE [x EXCEPT !.client = "none", !.join = FALSE, !.down = <<>>]
  OBVIOUS
<1>4. z \in Socket /\ z.client = "none" /\ ~z.join /\ (x.server = "known" => z.server = "known")
  <2>1. CASE x.server \in {"none", "closed"}
    BY <1>3, <2>1, NoSocketType
  <2>2. CASE x.server \notin {"none", "closed"}
    <3>1. z = [x EXCEPT !.client = "none", !.join = FALSE, !.down = <<>>] /\ <<>> \in Seq(Messages)
      BY <1>3, <2>2
    <3> QED BY <3>1 DEF Socket
  <2> QED BY <2>1, <2>2
<1>5. sock' = Replaced(sock, Guest, s, z)
  BY <1>0, <1>1, <1>2, <1>3 DEF Closed, Replaced
<1>6. Table(sock') /\ \A t \in Slot : mine'[t] = IF t = s THEN z ELSE mine[t]
  BY <1>0, <1>4, <1>5, GuestOnly
<1>7. PICK p \in PageType : p = page
  BY <1>0 DEF Shape
<1>8. /\ page' \in PageType /\ ~page'.connected /\ page'.refused = p.refused /\ page'.should = p.should
      /\ ~p.should => page'.timer = p.timer
  BY <1>2, <1>7, afterCloseFacts
<1>9. Shape'
  BY <1>0, <1>2, <1>6, <1>8, ShapeNext DEF Shape, ShapeRest
<1>10. ASSUME Sound PROVE Sound'
  <2>1. mine[s] = x
    BY <1>1 DEF mine
  <2>2. \A t \in Slot : mine'[t].client = "none" /\ ~mine'[t].join
    <3>1. \A t \in Slot : t # s => mine[t].client = "none" /\ ~mine[t].join
      BY <1>2, <1>10, <2>1 DEF Sound, OneSocket, RelayKnows
    <3> QED BY <1>4, <1>6, <3>1
  <2>3. (page'.refused => ~page'.should) /\ (~page'.should => ~page'.timer) /\ ~page'.connected
    BY <1>7, <1>8, <1>10 DEF Sound, DialsOnPurpose
  <2>4. conn'[Guest] # 0 => mine'[conn'[Guest]].server = "known"
    <3>1. conn[Guest] = 0 \/ conn[Guest] \in Slot
      BY <1>0, ConnFacts
    <3>2. conn[Guest] = s => z.server = "known"
      BY <1>4, <1>10, <2>1, SocketFacts
    <3>3. conn[Guest] # 0 => mine[conn[Guest]].server = "known"
      BY <1>10 DEF Sound, RelayKnows
    <3> QED BY <1>2, <1>6, <3>1, <3>2, <3>3
  <2> QED BY <2>2, <2>3, <2>4, NoneLeft
<1> QED BY <1>2, <1>9, <1>10 DEF DialInv

\* The page dials: it has no socket, and should be connected.
LEMMA Dials ==
  ASSUME Shape, Sound, NEW s \in Slot, \A t \in Slot : mine[t].client = "none", mine[s] = NoSocket,
         NEW z \in Socket, z.client = "dialing", z.server = "none", ~z.join, z.down = <<>>,
         \A t \in Slot : mine'[t] = IF t = s THEN z ELSE mine[t], conn' = conn,
         page'.cur = s, ~page'.timer, page'.should, ~page'.refused, ~page'.connected
  PROVE  Sound'
<1>1. s # 0
  BY DEF Slot
<1>2. OneSocket'
  BY <1>1 DEF OneSocket
<1>3. DialsOnPurpose'
  BY DEF DialsOnPurpose
<1>4. RelayKnows'
  <2>1. \A t \in Slot : mine'[t].client = "dialing" =>
           mine'[t].server = "none" /\ ~mine'[t].join /\ mine'[t].down = <<>>
    OBVIOUS
  <2>2. \A t \in Slot : mine'[t].join => mine'[t].client # "none"
    BY DEF Sound, RelayKnows
  <2>3. conn'[Guest] # 0 => mine'[conn'[Guest]].server = "known"
    <3>1. conn[Guest] = 0 \/ conn[Guest] \in Slot
      BY ConnFacts
    <3>2. conn[Guest] # s
      BY SocketFacts, NoSocketType
    <3> QED BY <3>1, <3>2 DEF Sound, RelayKnows
  <2> QED BY <2>1, <2>2, <2>3 DEF RelayKnows
<1>5. JoinedIsTrue'
  BY DEF JoinedIsTrue
<1> QED BY <1>2, <1>3, <1>4, <1>5 DEF Sound

LEMMA NewSocket ==
  ASSUME DialInv, NEW s \in Slot, mine[s] = NoSocket, NEW p \in PageType, connect(sock, p, s)
  PROVE  /\ Table(sock') /\ page' \in PageType
         /\ \E z \in Socket : /\ z.client = "dialing" /\ z.server = "none" /\ ~z.join /\ z.down = <<>>
                              /\ \A t \in Slot : mine'[t] = IF t = s THEN z ELSE mine[t]
         /\ page'.cur = s /\ page'.timer = p.timer /\ page'.should = p.should
         /\ page'.refused = p.refused /\ page'.connected = p.connected
<1>0. Shape /\ Guest \in Clients /\ Table(sock) /\ Guest \in DOMAIN sock /\ s \in 0..Slots
  BY ClientFacts DEF DialInv, Shape, Table, Slot
<1>1. PICK z : z = [NoSocket EXCEPT !.client = "dialing"]
  OBVIOUS
<1>2. z \in Socket /\ z.client = "dialing" /\ z.server = "none" /\ ~z.join /\ z.down = <<>>
  <2>1. z = [client |-> "dialing", server |-> "none", join |-> FALSE, down |-> <<>>]
    BY <1>1 DEF NoSocket
  <2>2. <<>> \in Seq(Messages)
    OBVIOUS
  <2> QED BY <2>1, <2>2 DEF Socket
<1>3. sock' = Replaced(sock, Guest, s, z)
  <2>1. sock' = [sock EXCEPT ![Guest][s].client = "dialing"]
    BY DEF connect
  <2>2. sock[Guest][s] = NoSocket
    BY DEF mine
  <2>3. z = [sock[Guest][s] EXCEPT !.client = "dialing"]
    BY <1>1, <2>2
  <2> QED BY <1>0, <2>1, <2>3 DEF Replaced
<1>4. Table(sock') /\ \A t \in Slot : mine'[t] = IF t = s THEN z ELSE mine[t]
  BY <1>0, <1>2, <1>3, GuestOnly
<1>5. page' = [p EXCEPT !.cur = s]
  BY DEF connect
<1>6. /\ page' \in PageType /\ page'.cur = s /\ page'.timer = p.timer /\ page'.should = p.should
      /\ page'.refused = p.refused /\ page'.connected = p.connected
  BY <1>0, <1>5 DEF PageType
<1> QED BY <1>2, <1>4, <1>6

LEMMA PageDials ==
  ASSUME DialInv, Mounts \/ TimerFires
  PROVE  DialInv'
<1>0. Shape /\ Guest \in Clients /\ Sockets(Guest) = Slot
  BY ClientFacts DEF DialInv, Sockets, Slot
<1>1. PICK q \in PageType : q = page
  BY <1>0 DEF Shape
<1>2. PICK p \in PageType :
         /\ \E s \in Free : connect(sock, p, s)
         /\ ~p.timer /\ p.refused = q.refused /\ p.connected = q.connected
         /\ \/ q = NoPage /\ p.should
            \/ q.timer /\ p.should = q.should
  <2>1. CASE Mounts
    <3>1. PICK p : p = [q EXCEPT !.should = TRUE]
      OBVIOUS
    <3>2. q = NoPage /\ \E s \in Free : connect(sock, p, s)
      BY <1>1, <2>1, <3>1 DEF Mounts
    <3>3. p \in PageType /\ p.should /\ p.timer = q.timer /\ p.refused = q.refused /\ p.connected = q.connected
      BY <3>1 DEF PageType
    <3>4. ~q.timer
      BY <3>2 DEF NoPage
    <3> QED BY <3>2, <3>3, <3>4
  <2>2. CASE TimerFires
    <3>1. PICK p : p = [q EXCEPT !.timer = FALSE]
      OBVIOUS
    <3>2. q.timer /\ \E s \in Free : connect(sock, p, s)
      BY <1>1, <2>2, <3>1 DEF TimerFires
    <3>3. p \in PageType /\ ~p.timer /\ p.should = q.should /\ p.refused = q.refused /\ p.connected = q.connected
      BY <3>1 DEF PageType
    <3> QED BY <3>2, <3>3
  <2> QED BY <2>1, <2>2
<1>3. conn' = conn /\ remounts' = remounts
  BY DEF Mounts, TimerFires, bounds
<1>4. PICK s \in Free : connect(sock, p, s)
  BY <1>2
<1>5. s \in Slot /\ mine[s] = NoSocket
  BY <1>0, <1>4 DEF Free, mine
<1>6. /\ Table(sock') /\ page' \in PageType
      /\ page'.cur = s /\ page'.timer = p.timer /\ page'.should = p.should
      /\ page'.refused = p.refused /\ page'.connected = p.connected
  BY <1>4, <1>5, NewSocket
<1>7. PICK z \in Socket : /\ z.client = "dialing" /\ z.server = "none" /\ ~z.join /\ z.down = <<>>
                          /\ \A t \in Slot : mine'[t] = IF t = s THEN z ELSE mine[t]
  BY <1>4, <1>5, NewSocket
<1>8. Shape'
  BY <1>0, <1>3, <1>6, ShapeNext DEF Shape, ShapeRest
<1>9. ASSUME Sound PROVE Sound'
  <2>1. \A t \in Slot : mine[t].client = "none"
    <3>1. q.timer \/ q.cur = 0
      BY <1>2 DEF NoPage
    <3> QED BY <1>1, <1>9, <3>1 DEF Sound, OneSocket
  <2>2. p.should /\ ~p.refused
    <3>1. q.timer => q.should
      BY <1>1, <1>9 DEF Sound, DialsOnPurpose
    <3>2. q = NoPage => ~q.refused
      BY DEF NoPage
    <3>3. q.refused => ~q.should
      BY <1>1, <1>9 DEF Sound, DialsOnPurpose
    <3> QED BY <1>2, <3>1, <3>2, <3>3
  <2>3. ~p.connected
    <3>1. ~page.connected
      BY <1>9, <2>1 DEF Sound, JoinedIsTrue
    <3> QED BY <1>1, <1>2, <3>1
  <2> QED BY <1>0, <1>2, <1>3, <1>5, <1>6, <1>7, <1>9, <2>1, <2>2, <2>3, Dials
<1> QED BY <1>3, <1>8, <1>9 DEF DialInv

\* A page whose effect runs again may have two sockets: nothing is said of it.
LEMMA MountsAgain ==
  ASSUME DialInv, Remounts
  PROVE  DialInv'
<1>0. Shape /\ Guest \in Clients /\ Sockets(Guest) = Slot /\ remounts \in Nat
  BY ClientFacts DEF DialInv, Shape, Sockets, Slot
<1>1. PICK q \in PageType : q = page
  BY <1>0 DEF Shape
<1>2. PICK p : p = [q EXCEPT !.timer = FALSE, !.refused = FALSE, !.should = TRUE]
  OBVIOUS
<1>3. PICK k : k = closing(sock, Guest, page.cur)
  OBVIOUS
<1>4. conn' = conn /\ remounts' = remounts + 1 /\ \E s \in Free : connect(k, p, s)
  BY <1>1, <1>2, <1>3 DEF Remounts
<1>5. PICK s \in Free : connect(k, p, s)
  BY <1>4
<1>6. s \in Slot /\ s \in 0..Slots
  BY <1>0, <1>5 DEF Free, Slot
<1>7. Table(k)
  BY <1>0, <1>3, closingKeeps DEF Shape
<1>8. PICK x \in Socket : x = k[Guest][s]
  BY <1>6, <1>7 DEF Table
<1>9. PICK z : z = [x EXCEPT !.client = "dialing"]
  OBVIOUS
<1>10. z \in Socket
  BY <1>9 DEF Socket
<1>11. sock' = Replaced(k, Guest, s, z)
  BY <1>0, <1>5, <1>7, <1>8, <1>9 DEF connect, Replaced, Table
<1>12. Table(sock')
  BY <1>0, <1>7, <1>10, <1>11, ReplaceOne
<1>13. page' \in PageType
  <2>1. p \in PageType
    BY <1>2 DEF PageType
  <2>2. page' = [p EXCEPT !.cur = s]
    BY <1>5 DEF connect
  <2> QED BY <1>6, <2>1, <2>2 DEF PageType
<1>14. Shape'
  BY <1>0, <1>4, <1>12, <1>13, ShapeNext DEF Shape, ShapeRest
<1>15. remounts' # 0
  BY <1>0, <1>4
<1> QED BY <1>14, <1>15 DEF DialInv

(* ------------------------------- theorems -------------------------------- *)

LEMMA DialStarts == Init => DialInv
<1> SUFFICES ASSUME Init PROVE DialInv
  OBVIOUS
<1>0. Guest \in Clients /\ Sockets(Guest) = Slot /\ 0 \in 0..Slots
  BY ClientFacts, Bounds DEF Sockets, Slot
<1>1. sock = [c \in Clients |-> [s \in Sockets(c) |-> NoSocket]] /\ conn = [c \in Clients |-> 0]
      /\ page = NoPage /\ remounts = 0
  BY DEF Init
<1>2. mine = [s \in Slot |-> NoSocket] /\ DOMAIN sock = Clients
  BY <1>0, <1>1 DEF mine
<1>3. Table(sock)
  BY <1>2, NoSocketType DEF Table, mine
<1>4. page \in PageType /\ page.cur = 0 /\ ~page.timer /\ ~page.refused /\ ~page.connected
  BY <1>0, <1>1 DEF NoPage, PageType
<1>5. \A t \in Slot : mine[t].client = "none" /\ ~mine[t].join
  BY <1>2, NoSocketType
<1>6. conn[Guest] = 0 /\ DOMAIN conn = Clients
  BY <1>0, <1>1
<1>7. Shape
  BY <1>0, <1>1, <1>3, <1>4, <1>6 DEF Shape
<1>8. OneSocket /\ DialsOnPurpose
  BY <1>4, <1>5 DEF OneSocket, DialsOnPurpose
<1>9. RelayKnows /\ JoinedIsTrue
  BY <1>4, <1>5, <1>6 DEF RelayKnows, JoinedIsTrue
<1> QED BY <1>7, <1>8, <1>9 DEF DialInv, Sound

LEMMA DialStep == DialInv /\ [Next]_vars => DialInv'
<1> SUFFICES ASSUME DialInv, [Next]_vars PROVE DialInv'
  OBVIOUS
<1>0. Sockets(Guest) = Slot /\ Clients = {Guest, Host}
  BY DEF Sockets, Slot, Clients
<1>1. CASE \E c \in Clients : Relay(c) \/ Connects(c)
  <2>0. PICK c \in Clients : \E s \in Sockets(c) :
           HandlesJoin(c, s) \/ JoinTimeout(c, s) \/ RelayNotices(c, s) \/ Opens(c, s)
    BY <1>1 DEF Relay, Connects
  <2>1. PICK s \in Sockets(c) :
           HandlesJoin(c, s) \/ JoinTimeout(c, s) \/ RelayNotices(c, s) \/ Opens(c, s)
    BY <2>0
  <2>2. CASE c = Guest
    <3>1. s \in Slot
      BY <1>0, <2>1, <2>2
    <3>2. ASSUME HandlesJoin(Guest, s) PROVE DialInv'
      <4>1. Shape /\ remounts' = remounts
        BY <3>2 DEF DialInv, HandlesJoin, bounds
      <4>2. Shape'
        BY <3>1, <3>2, <4>1, JoinShape
      <4>3. Sound => Sound'
        BY <3>1, <3>2, <4>1, GuestJoins
      <4> QED BY <4>1, <4>2, <4>3 DEF DialInv
    <3> QED BY <2>1, <2>2, <3>1, <3>2, HangsUp, Notices, Connection
  <2>3. CASE c = Host
    BY <2>1, <2>3, HostJoins, AsideKeeps, HostConnection, NoticesHost DEF DialInv
  <2> QED BY <1>0, <2>1, <2>2, <2>3
<1>2. CASE \E c \in Clients : \E s \in Sockets(c) : Limited(c, s) \/ Breaks(c, s)
  BY <1>0, <1>2, Connection, HostConnection
<1>3. CASE Page
  BY <1>0, <1>3, Reading, Closing DEF Page
<1>4. CASE Mounts \/ TimerFires
  BY <1>4, PageDials
<1>5. CASE Remounts
  BY <1>5, MountsAgain
<1>6. CASE start \/ Reads \/ quit \/ HostClosed
  BY <1>6, TerminalSteps
<1>7. CASE hostAction
  BY <1>7, HostActs
<1>8. CASE OtherJoins
  BY <1>8, OthersTakeSeats
<1>9. CASE destroySession
  BY <1>9, Destroys
<1>10. CASE RelayRestarts
  BY <1>10, Restarts
<1>11. CASE UNCHANGED vars
  <2>1. UNCHANGED <<session, conn, sock, page>> /\ remounts' = remounts
    BY <1>11 DEF vars, bounds
  <2> QED BY <2>1, HostSteps DEF DialInv, Shape, mine
<1> QED BY <1>1, <1>2, <1>3, <1>4, <1>5, <1>6, <1>7, <1>8, <1>9, <1>10, <1>11 DEF Next

\* NeverRedials: once the relay's answer was final, a page that was mounted once
\* neither dials nor waits to (useRelay: TERMINAL_MESSAGES, scheduleReconnect), for
\* any number of faults, sockets and seats.
THEOREM RefusedForGood == Spec => []NeverRedials
<1>1. DialInv => NeverRedials
  <2>1. Sockets(Guest) = Slot
    BY DEF Sockets, Slot
  <2> QED BY <2>1 DEF DialInv, Sound, DialsOnPurpose, NeverRedials, Dialling, mine
<1> QED BY <1>1, DialStarts, DialStep, PTL DEF Spec

\* ShownConnected: a page that shows itself connected sends its handshakes and is
\* admitted, or its connection has ended and the page is about to hear of it (useRelay:
\* onmessage, onclose; ws.transport: admitPeer, handleClose).
THEOREM ConnectedIsAdmitted == Spec => []ShownConnected
<1>1. DialInv => ShownConnected
  <2> SUFFICES ASSUME DialInv, remounts = 0, page.connected
               PROVE  /\ ~page.paused
                      /\ \/ Guest \in peers /\ conn[Guest] # 0
                         \/ \E s \in Sockets(Guest) : Ends(Guest, s)
                         \/ \E s \in Sockets(Guest) : sock[Guest][s].server = "closed"
    BY DEF ShownConnected
  <2>1. ~page.paused /\ \E t \in Slot : \/ mine[t].client = "closing"
                                        \/ mine[t].client = "open" /\ LetIn(t)
    BY DEF DialInv, Sound, JoinedIsTrue
  <2>2. PICK t \in Slot : mine[t].client = "closing" \/ LetIn(t)
    BY <2>1
  <2>3. t \in Sockets(Guest) /\ t # 0
    BY DEF Sockets, Slot
  <2>4. mine[t].client = "closing" => Ends(Guest, t)
    BY DEF Ends, mine
  <2>5. LetIn(t) => sock[Guest][t].server = "closed" \/ (Guest \in peers /\ conn[Guest] # 0)
    BY <2>3 DEF LetIn, mine
  <2> QED BY <2>1, <2>2, <2>3, <2>4, <2>5
<1> QED BY <1>1, DialStarts, DialStep, PTL DEF Spec
=============================================================================
