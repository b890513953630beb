------------------------------ MODULE Whitelist ------------------------------
(* The in-chat whitelist: pages of one vault ask each other to pin their     *)
(* membership keys, and every page derives from what the others announce who *)
(* is mutual and who is in its group (useRelay, ChatRoom).  The contact book *)
(* is the device's and other tabs write it too (contacts-store, useContacts).*)
(* The relay is one queue per page, which it fills in one order for all.     *)
EXTENDS Integers, Sequences, FiniteSets

CONSTANTS
    Members,      \* the pages, one device each
    Met,        \* those that have pinned each other before
    MaxMoves,   \* bound: requests and changes of a contact book, together
    MaxDrops    \* bound: times a page leaves and comes back, when only Met is there

ASSUME MetArePages == Met \subseteq Members
ASSUME FewPages == IsFiniteSet(Members)
ASSUME WhitelistBounds == {MaxMoves, MaxDrops} \subseteq Nat

VARIABLES
    vault,      \* the pages of this vault: Met, or all
    here,       \* pages the relay has admitted
    inbox,      \* frames on their way to each page
    book,       \* contacts of each device: the pages whose keys it has pinned
    view,       \* what each page's useRelay holds
    wanted,     \* ghost: pages whose pinning this user asked for or agreed to
    moves,      \* requests and book changes so far
    drops,      \* departures so far
    elsewhere   \* ghost: another tab has touched a contact book

whitelist == <<vault, here, inbox, book, view, wanted, moves, drops, elsewhere>>

\* activePeers, peerMemberKeys, peerPinned, myPinned, whitelistRequests; whether
\* contacts or peers changed since the pins were computed; and the dependencies
\* with which the two announcing effects last ran.
NewView == [peers |-> {}, keys |-> {}, theirs |-> [q \in Members |-> {}], mine |-> {},
            requests |-> {}, dirty |-> TRUE, idRan |-> <<FALSE, 0>>,
            stateRan |-> <<FALSE, 0, {}>>]

(* ------------------------------ the frames ------------------------------- *)

WlFrame(p, kind) == [from |-> p, kind |-> kind, to |-> p, pinned |-> {}]
wlId(p) == WlFrame(p, "wl-id")
wlState(p, pinned) == [WlFrame(p, "wl-state") EXCEPT !.pinned = pinned]
Action(p, q, action) == [WlFrame(p, action) EXCEPT !.to = q]
peer_update(p, roster) == [WlFrame(p, "peers") EXCEPT !.pinned = roster]

\* A handshake frame is sent to everyone; only the page it names acts on it.
Bug_ForMe(p, f) == f.kind \in {"request", "accept", "decline"}
ForMe(p, f) == f.kind \in {"request", "accept", "decline"} /\ f.to = p

\* What p will know q to have pinned when it has read its frames: what the last
\* of them says.
WillKnow(p, q) ==
    LET Tells(i) == inbox[p][i].kind = "wl-state" /\ inbox[p][i].from = q
        last == {i \in DOMAIN inbox[p] : /\ Tells(i)
                                         /\ \A j \in DOMAIN inbox[p] : Tells(j) => j <= i}
    IN IF last = {} THEN view[p].theirs[q] ELSE inbox[p][CHOOSE i \in last : TRUE].pinned

\* Frames that will change nothing where they arrive are left out of the queues.
Matters(p, f) == \/ f.kind = "wl-id" /\ f.from \notin view[p].keys
                 \/ f.kind = "wl-state" /\ f.pinned # WillKnow(p, f.from)
                 \/ ForMe(p, f)

PassedOn(q, frames) == IF frames # <<>> /\ Matters(q, frames[1]) THEN frames ELSE <<>>

\* sendSignal: the relay hands a frame to everyone else who is there; a page
\* sends one, or the two of its effects (each at most one frame long).
Broadcast(p, frames, more) ==
    [q \in Members |-> IF q \in here \ {p}
                     THEN inbox[q] \o PassedOn(q, frames) \o PassedOn(q, more) ELSE inbox[q]]

(* -------------------------- what the room shows -------------------------- *)

isMutual(p, q) == q \in view[p].mine /\ p \in view[p].theirs[q]
myMutual(p) == {q \in view[p].peers \ {p} : isMutual(p, q)}
pairMutual(p, a, b) == b \in view[p].theirs[a] /\ a \in view[p].theirs[b]
inWhitelistGroup(p, q) == isMutual(p, q) /\ \A m \in myMutual(p) : m = q \/ pairMutual(p, m, q)

(* ------------------------------- the effects ----------------------------- *)

Bug_IdDeps(p, v) == <<p \in here, 0>>
IdDeps(p, v) == <<p \in here, Cardinality(v.peers)>>
StateDeps(p, v) == <<p \in here, Cardinality(v.peers), v.mine>>
Rendered(p) == /\ ~view[p].dirty /\ view[p].idRan = IdDeps(p, view[p])
               /\ view[p].stateRan = StateDeps(p, view[p])

\* myPinned: the present peers whose key is known and in the contact book.
Pinned(p, v) == {q \in v.peers \ {p} : q \in v.keys /\ q \in book[p]}

\* The effects whose dependencies changed run together after a render, in their
\* order; the pins they compute are announced by the render that follows.
Render(p) ==
    LET v == view[p]
        alone == p \notin here \/ Cardinality(v.peers) <= 1
        id == IF alone \/ v.idRan = IdDeps(p, v) THEN <<>> ELSE <<wlId(p)>>
        state == IF alone \/ v.stateRan = StateDeps(p, v) THEN <<>> ELSE <<wlState(p, v.mine)>>
    IN
    /\ ~Rendered(p)
    /\ inbox' = Broadcast(p, id, state)
    /\ view' = [view EXCEPT ![p] = [v EXCEPT !.mine = IF v.dirty THEN Pinned(p, v) ELSE v.mine,
                 !.dirty = FALSE, !.idRan = IdDeps(p, v), !.stateRan = StateDeps(p, v)]]
    /\ UNCHANGED <<vault, here, book, wanted, moves, drops, elsewhere>>

(* ----------------------- frames, as the page reads them ------------------ *)

\* upsertContact: idempotent by key.
upsertContact(p, q) == book' = [book EXCEPT ![p] = @ \cup {q}]

\* An acceptance is mirrored: the pages then have pinned each other.
whitelistFrame(p, f) ==
    LET q == f.from
        v == view[p] IN
    \/ /\ f.kind = "request"
       /\ view' = [view EXCEPT ![p] = [v EXCEPT !.requests = @ \cup {q}]]
       /\ UNCHANGED book
    \/ /\ f.kind = "accept"
       /\ view' = [view EXCEPT ![p] = [v EXCEPT !.dirty = TRUE]]
       /\ upsertContact(p, q)
    \/ /\ f.kind = "decline"
       /\ view' = [view EXCEPT ![p] = [v EXCEPT !.requests = @ \ {q}]]
       /\ UNCHANGED book

\* A frame finds the effects of the one before it run.
onFrame(p) ==
    /\ inbox[p] # <<>> /\ Rendered(p)
    /\ inbox' = [inbox EXCEPT ![p] = Tail(@)]
    /\ LET f == Head(inbox[p])
           q == f.from
           v == view[p]
           Sees(w) == view' = [view EXCEPT ![p] = w] /\ UNCHANGED book
       IN
       \/ f.kind = "peers" /\ Sees([v EXCEPT !.peers = f.pinned, !.dirty = TRUE])
       \/ f.kind = "wl-id" /\ Sees([v EXCEPT !.keys = @ \cup {q}, !.dirty = @ \/ q \notin v.keys])
       \/ f.kind = "wl-state" /\ Sees([v EXCEPT !.theirs[q] = f.pinned])
       \/ whitelistFrame(p, f)
    /\ UNCHANGED <<vault, here, wanted, moves, drops, elsewhere>>

(* -------------------------------- the users ------------------------------ *)

Wants(p, q) == wanted' = [wanted EXCEPT ![p] = @ \cup {q}]

\* The button stands beside every peer that is not mutual.
requestWhitelist(p, q) ==
    /\ moves < MaxMoves /\ p \in here /\ Rendered(p)
    /\ q \in view[p].peers \ {p} /\ ~isMutual(p, q)
    /\ inbox' = Broadcast(p, <<Action(p, q, "request")>>, <<>>)
    /\ Wants(p, q) /\ moves' = moves + 1
    /\ UNCHANGED <<vault, here, book, view, drops, elsewhere>>

acceptWhitelist(p, q) ==
    /\ p \in here /\ Rendered(p) /\ q \in view[p].requests
    /\ upsertContact(p, q)
    /\ view' = [view EXCEPT ![p].requests = @ \ {q}, ![p].dirty = TRUE]
    /\ inbox' = Broadcast(p, <<Action(p, q, "accept")>>, <<>>)
    /\ Wants(p, q) /\ UNCHANGED <<vault, here, moves, drops, elsewhere>>

declineWhitelist(p, q) ==
    /\ p \in here /\ Rendered(p) /\ q \in view[p].requests
    /\ view' = [view EXCEPT ![p].requests = @ \ {q}]
    /\ inbox' = Broadcast(p, <<Action(p, q, "decline")>>, <<>>)
    /\ UNCHANGED <<vault, here, book, wanted, moves, drops, elsewhere>>

\* The contact book in another tab: a trust link pinned, a contact revoked.  The
\* storage is shared; this room is not told.
pinFromTrustLink(p, q) ==
    /\ moves < MaxMoves /\ upsertContact(p, q) /\ Wants(p, q)
    /\ moves' = moves + 1 /\ elsewhere' = TRUE
    /\ UNCHANGED <<vault, here, inbox, view, drops>>

revokeContact(p, q) ==
    /\ moves < MaxMoves /\ book' = [book EXCEPT ![p] = @ \ {q}]
    /\ moves' = moves + 1 /\ elsewhere' = TRUE
    /\ UNCHANGED <<vault, here, inbox, view, wanted, drops>>

(* --------------------------- coming and going ---------------------------- *)

Told(box, present) == [q \in Members |-> IF q \in present
                          THEN Append(box[q], peer_update(q, present)) ELSE box[q]]

\* A page loses its socket, which both ends notice, or is reloaded as well.
Leave(p) ==
    /\ p \in here /\ drops < MaxDrops /\ vault = Met
    /\ here' = here \ {p}
    /\ inbox' = Told([inbox EXCEPT ![p] = <<>>], here')
    /\ view' \in {view, [view EXCEPT ![p] = NewView]}
    /\ drops' = drops + 1
    /\ UNCHANGED <<vault, book, wanted, moves, elsewhere>>

\* It dials again after a second or more: its effects have run in between.
Rejoin(p) ==
    /\ p \in vault \ here /\ Rendered(p)
    /\ here' = here \cup {p} /\ inbox' = Told(inbox, here')
    /\ UNCHANGED <<vault, book, view, wanted, moves, drops, elsewhere>>

(* ---------------------------- the specification -------------------------- *)

\* Everyone is there and has heard everyone; some have met before.
Introduced(p) ==
    LET Of(q) == IF q \in Met THEN Met \ {q} ELSE {} IN
    [NewView EXCEPT !.peers = vault, !.keys = vault \ {p}, !.mine = Of(p), !.dirty = FALSE,
        !.theirs = [q \in Members |-> IF q = p THEN {} ELSE Of(q)],
        !.idRan = <<TRUE, Cardinality(vault)>>,
        !.stateRan = <<TRUE, Cardinality(vault), Of(p)>>]

WhitelistInit ==
    /\ vault \in {Met, Members} /\ here = vault
    /\ inbox = [p \in Members |-> <<>>]
    /\ book = [p \in Members |-> IF p \in Met THEN Met \ {p} ELSE {}]
    /\ view = [p \in Members |-> Introduced(p)]
    /\ wanted = book
    /\ moves = 0 /\ drops = 0 /\ elsewhere = FALSE

WhitelistNext ==
    \/ \E p \in vault : Render(p) \/ onFrame(p) \/ Leave(p) \/ Rejoin(p)
    \/ \E p \in vault : \E q \in vault \ {p} :
          \/ requestWhitelist(p, q) \/ acceptWhitelist(p, q) \/ declineWhitelist(p, q)
          \/ pinFromTrustLink(p, q) \/ revokeContact(p, q)

WhitelistSpec == WhitelistInit /\ [][WhitelistNext]_whitelist

(* ------------------------------- properties ------------------------------ *)

\* A page pins a key only if its own user asked for that peer, agreed to its
\* request or followed its link: although the handshake of two pages is sent to
\* the whole vault, and requests, reloads and answers cross.
PinsAreWanted == \A p \in Members : book[p] \subseteq wanted[p]

Settled == here = vault /\ \A p \in vault : inbox[p] = <<>> /\ Rendered(p)

\* Once everyone is there and nothing is on its way, two pages agree on whether
\* they are mutual, and on their whitelist group when they are in each other's.
\* If no other tab has touched the contact books, mutual is what the books say,
\* whoever has left, been reloaded and come back.
MutualIsShared ==
    Settled => \A p \in vault : \A q \in vault \ {p} :
        /\ isMutual(p, q) = isMutual(q, p)
        /\ ~elsewhere => (isMutual(p, q) <=> q \in book[p] /\ p \in book[q])
        /\ inWhitelistGroup(p, q) /\ inWhitelistGroup(q, p)
              => myMutual(p) \cup {p} = myMutual(q) \cup {q}
==============================================================================
