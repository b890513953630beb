# Verification of Quantum Bunker

TLA+ models of Quantum Bunker, the TLC runs that check them on small instances
and TLAPS proofs about them. Paths are relative to the repository's root.

Quantum Bunker is a blind relay for short-lived encrypted chat rooms
("vaults") and a browser client. A host creates a vault over HTTP, everybody
connects over WebSocket, the host admits or rejects the guests, and from then
on the relay forwards opaque envelopes between the admitted peers. The clients
run a Noise handshake and a double ratchet pairwise, open WebRTC data channels
when they can, queue messages for absent peers on their own disk, and keep the
vault alive by refreshing it.

## 1. Inventory

| Part | Code | State | Operations | What makes it correct |
| --- | --- | --- | --- | --- |
| Relay transport | `src/backend/adapters/transport/ws.transport.ts`, `core/policies/presence.policy.ts` | `connections`, `sessionPeers`, the session object's `peers`, `pending`, `participantCount`, `emptySince`, the socket's bound identity | connect, join (recovery, rejoin, membership, request), accept, reject, kick, close, broadcast, disconnect | capacity is never exceeded; presence equals the live sockets; a late close never evicts a reconnect; everyone present has the current roster; the pending queue is bounded and self-cleaning |
| Session store | `src/backend/adapters/store/in-memory-session.store.ts` | `sessions`, `deleted` | save, get, delete, touch, cleanup | a removed vault never returns |
| Session life cycle | `server.ts`, `create-session`, `cleanup-sessions`, `src/useSession.ts` | `createdAt`, `expiresAt`, `lastActivityAt`, `emptySince`, page countdowns | create, refresh, touch, delete, sweep, the page's timer | nobody in a vault is cut off before the hard cap; no vault outlives the cap; abandoned ones are reaped |
| Relay message path | `relay-message.use-case.ts`, `relay.policy.ts` | `seenNonces` | execute, isReplay, pruneNonces | a replay is refused, an original is not |
| Rate limits | `ws.transport.ts`, `rate-limit.middleware.ts` | sliding counters per IP, socket and peer | check, prune | limits hold per window, the maps stay bounded |
| Membership | `src/shared/membership.ts`, `usedProofNonces` | used proof nonces | issue, prove, verify, consume | a proof admits once, within its window |
| Client connection | `src/useRelay.ts` | socket, `activePeersRef`, message list, timers, refs that outlive renders | connect, reconnect, dispatch, receive, send, edit, delete, receipts, whitelist | no duplicate on screen, honest receipts, terminal errors stop the dialling |
| Offline outbox | `src/outbox-store.ts` | IndexedDB records, the running drain | enqueue, pending, drain, markDelivered, open | nothing queued is given up before it was read |
| Peer mailbox | `src/peer-mailbox.ts` | envelopes held for absent members | hold, release, prune | bounded; released once |
| Signalling queue | `src/transport/send-queue.ts` | four lanes, tokens, a timer, `paused` | enqueue, pump, pause, resume, clear, clearTransient | rate kept, handshake frames first and never lost |
| Peer channels | `src/crypto/peer-channels.ts`, `noise-xx.ts`, `hybrid-kem.ts` | a channel per peer: phase, handshake state, ratchet | ensureChannel, restart request, messages 1 to 3, finalize, removePeer | both sides end up ready with the same root after any loss of a socket or page |
| Double ratchet | `src/crypto/double-ratchet.ts` | root, chains, counters, skipped keys | encrypt, decrypt, DH step, skip | out-of-order frames open once; a bad frame changes nothing |
| WebRTC mesh | `src/transport/webrtc-mesh.ts`, `p2p-policy.ts`, `src/useP2P.ts` | a connection per peer, candidate queue, timers, UI status | ensure, offer, answer, candidates, fail, drop, remove | the status shown is the connection's; terminal entries do nothing |
| Calls | `src/useCall.ts`, `call-connection.ts` | call phase, media, connection | start, accept, decline, end, signal | no media stays on after the call; both ends agree that it is over |
| File transfer | `src/crypto/file-stream.ts`, `file-transfer.ts`, `useRelay.ts` | chunks received, next index | init, chunk, final, abort | a file is complete and in order, or refused |
| Identity, contacts, verification | `src/crypto/identity-store.ts`, `src/contacts-store.ts`, ... | local records | load, save, pin | a changed key is noticed |
| Command line client | `packages/cli/src` | socket, channels | create, join, send | as the browser client's |
| Interface | `src/components`, `src/App.tsx`, `src/media-prompt.ts` | the voice button's refs, the prompt counter, the rest of no consequence | press, release, leave, identity panel | no microphone stays on |
| Logging, wiring | `adapters/events`, `adapters/logging`, `entrypoints` | none | | |

How the parts interact: the HTTP handlers and the transport share the session
OBJECT that the in-memory store returns (not a copy), so a handler suspended
at an `await` keeps changing an object that may have left the store. The
transport calls `RelayMessage`, which calls back into the transport
(`sendToMany`). The client's connection feeds peer lists to the channels and to
the mesh; both send their signalling through the paced queue into the socket,
while chat frames go to the socket or the data channel directly and so may
overtake it. The sweep, the page's countdown, the jitter of receipts, the
flush and the re-dial are timers that race everything else.

Behaviours that are hard to test, and listed as hazards at their lines in
`PROJECT.json`: handlers interleaved at awaits; the close event of a replaced
socket; a teardown or sweep under a running handler; lost sockets, reloads and
re-sent messages; a receipt racing the drain it belongs to; refresh answers
that are lost; limits that are reached (capacity, pending queue, hard cap).

## 2. Plan

In the order of importance; everything listed is done.

1. `VaultAdmission`: the relay's core. Proofs: types, capacity, no
   resurrection, latest socket kept; presence, rosters and the pending queue of
   a relay at rest.
2. `SessionLifecycle`: the clock of a vault. Proofs: types, hard cap,
   abandoned vaults, participants not cut off.
3. `AbstractDelivery`, `Outbox`: the message path end to end.
   Proofs: types, no duplicates, kept until shown, implementation.
4. `PeerChannels`: handshake frames, restart requests, failures and reloads
   between two clients over lossy sockets. Proofs: all its invariants and
   the action property.
5. `Mesh`, `Call`, `Dial`: the state machines of a direct link, a call and a
   client's connection, each for a pair, with liveness. Proofs: all their
   invariants.
6. `Ratchet` and `Talk`: what is said over an open channel. Proofs: types, all
   its invariants and the action property.
7. `Whitelist`, `Verification`, `Identity`, `Recording`, `Membership`: what a
   page keeps for its user. Proofs: an invariant of each.
8. `Pacing`: the paced queue against the relay's limits. Proofs: the bound of
   a burst, no stall, the rate that would be safe.

`MCPage` composes 6 to 8. Left for later: several readers in `Outbox`, the
pruning of the relay's replay cache by age.

## 3. Modules

### VaultAdmission

One vault id of the relay. Variables and code: `conn` is `connections`,
`connected` is the vault's entry in `sessionPeers`, `vault` the session objects
that have carried the id, `store` the one in `sessions`, `deleted` the store's
set of removed ids, `sock` the WebSocket objects with the identity bound to
them. `tasks` are handlers suspended at an await, `owner` is history.

Each handler is split where it awaits. A task `got` has been handed the
session by `store.get`; the next action runs its body up to `store.save`; a
task `saved` (or `asked`) still has its replies to send. Whatever the
handler does between two awaits (reclaiming slots, syncing presence,
registering the connection) is one action. `AwaitYields` says what may run at an await:
`FALSE` is the build as it is, where the store's promises are resolved already
and only microtasks come in between; `TRUE` is what the `ISessionStore` port
promises, with every await a scheduling point. What is true only of the build
is checked with `FALSE`; what should hold for any store with `TRUE`.

Data left out: tokens (a join carries the set of credentials that match), time
(the event `GraceElapses` moves a disconnected slot past the reconnect
window), the contents of frames except `joined` and the last roster.

### SessionLifecycle

One vault by the clock. `now` advances by `Tick`; a page's countdown runs each
second, so a tick waits until every page inside its refresh window has had a
request served, though the answer may be lost. The sweep runs when its
interval is over. `status` and `slots` stand for admission, which
`VaultAdmission` treats. `ApiCallers` adds programs that call refresh when they
like, with any `expiresInSeconds` of `Ttls`.

### AbstractDelivery and Outbox

`AbstractDelivery` promises: a message is shown at most once and only if
written, and reported delivered only if shown. `Outbox` is the code that has
to keep the promise: `sendMessage`, the sealed queue, the flush effect and
drain, `dispatch` over data channel or relay, the relay's replay cache, the
reader's dedup by nonce and the jittered receipt, with lost sockets, reloads
of either page, throttled frames and closing data channels as faults. `typed`,
`shown` and `acked` are mapped to `submitted`, `shown` and `settled`.

A frame is its nonce and whether the reader's present channel opens it. The
handshake is reduced to: both sides renew (`Rekey`), the initiator is ready,
the responder is ready (`Finalize`, twice); its own losses belong to
`PeerChannels`. Both peers are admitted already; identity changes and
groups are left out.

### PeerChannels

The handshake of one pair, `"I"` with the smaller peer id. Each client's `page`
has its channel, the NOISE lane of its paced queue, whether the queue is
paused, and whether the other peer is in its list. `open` is the WebSocket as
the page sees it, `present` the relay's entry in `connections`; a socket that
has died and is still present is half-open. `uplink` and `downlink` are what is
on its way to and from the relay, in order. `onmessage` is the page's handler;
the operators it calls have the names of the methods of `PeerChannels`, and
`Sending` is `sendSignal`.

A key pair is the number of its draw; a transcript is the two ephemeral
keys, and `Opens` says when `readMessage` accepts a message over one. `Failed`
keeps what the handshake state of a message that throws has already mixed:
such a channel stays in the map, so a later `ensureChannel` does nothing.
Two details of the code matter and are kept: a message 3 read by a fresh
handshake state passes for a message 1 and leaves the channel handshaking, and
`clearTransient` pumps frames into the closed socket before `pause` (`Drop`).
Left out: tokens, the other lanes, the key agreement, time.

### Mesh

One pair, `Offerer` with the smaller peer id. Each page's `entry` is the
`MeshPeer` for the other (state, signalling state, the one ICE restart, its
timer, candidates waiting to be flushed), `ui` the value of `peerStates` that
`p2pReducer` computes, `roster` whether its peer list names the other page.
`inbox` is the ordered stream from the relay, rosters and signalling frames
interleaved as sent; `held` is what the paced queue keeps while the socket is
down. An offer or answer is the number of the offer it belongs to. A
continuation of `createOffer` or `createAnswer` is a step of its own, which a
closed connection never runs. Candidates come in one batch per side.

### Call

`useCall` and `CallConnection` of both pages. `prompt` is the open permission
prompt, `captures` the camera streams that run, `local` whether the hook still
holds one: the two differ when a prompt is answered late. Negotiation keeps
`need` (a negotiationneeded event is queued), `making` and `sig`, so that both
sides may offer at once and the polite one yields. Signals are encrypted frames
in order; those to a page that is away are lost. Muting and encoding hints
are left out.

### Dial

The guest's page: its sockets (`sock`, what the page and the relay each know of
one), the refs that outlive a render and the re-dial timer (`page`). The host
is a terminal (`packages/cli`), which never dials again (`cli`). The relay is
reduced to what answers these two: seats, the waiting guest, the registered
socket, and its final answers. Back-off delays are the order of events.

### Ratchet and Talk

`Ratchet` has the operators of `double-ratchet.ts`, with keys as terms: a chain
key is named by the Diffie-Hellman results it came from. `Talk` uses them for
texts, edits and the opening of streams between two pages, over two paths that
overtake each other (`relay`, `direct`). Receipts are a set, because
each waits a random time before it is dispatched. A streamed file is the index
of its next chunk. `terminals` may hold the responder, which is then the
terminal client: no direct link, only texts, and edits and files that it drops
without opening, so that its ratchet skips over them.

### Whitelist, Verification, Identity, Recording, Membership

`Whitelist`: pages of one vault, each with its device's contact book and what
its `useRelay` has been told (`view`). The two announcing effects run with the
dependencies they have in the code (`idRan`, `stateRan`); `Rendered` says that a
page handles its next frame after its effects have run. `wanted` is history:
whom this user asked for.

`Verification`: the pins of all tabs of a browser, each tab with its own copy
which it saves whole. `compared` is history.

`Identity`: the sealed long-term key in the shared storage, each tab's
`useIdentity`, and what it awaits. `retired` is history.

`Recording`: the voice button's three refs, the microphones asked for, on, and
stopping, and the counter of `media-prompt` that calls share.

`Membership`: tokens in the wallet of several tabs, proofs signed by a clock
that is off by up to `MaxSkew`, copies of a join frame that arrive at any time,
and the relay's nonce map with its pruning and eviction. A Map keeps the
order of insertion, so the stale nonces are a prefix.

### Pacing

The token bucket, its timer, pause, resume and the two clears against the
relay's counters of peer and socket. A tick is the time of one token, so a
window of the relay is `RATE` ticks. Frames are counted, by lane. The timer may
fire late; the frames reach the relay as they are written.

### MCPage

The parts above from `Talk` to `Pacing` (that is, all but `Mesh`, `Call` and
`Dial`) share no variable. `MCPage` starts all of them and lets a behaviour
exercise one (`part`), the others at rest: what is reachable in each is
reached, and nothing is lost by not interleaving steps that cannot affect each
other.

### Proof modules

`VaultAdmission_proofs`, `SessionLifecycle_proofs`, `PeerChannels_proofs`,
`Mesh_proofs`, `Call_proofs` and `Dial_proofs` extend the module of that name;
`UseRelay_proofs` has a part for `Outbox` and one for `Whitelist`, the two
protocols between pages in the hook `useRelay`; `Page_proofs` extends `MCPage` and has a part for
`Talk`, `Verification`, `Identity`, `Recording`, `Membership` and `Pacing`
each. They hold nothing but lemmas, the operators these are stated with, and
theorems.

## 4. Runs

| Run | Module | Bounds | Shows |
| --- | --- | --- | --- |
| group | MCVaultAdmission | 2 host ids, 1 member guest, 1 guest that must be accepted, 3 sockets, room for 2 | `PresenceExact`: at rest, `participantCount` is the number of admitted peers with a socket; `Capacity` when a member and a queued guest compete for the last slot; `RosterAgreement`: whoever is present has been sent the roster in force; `PendingHasSocket` |
| yield | MCVaultAdmission | 1 host, 1 guest, 2 sockets, 2 objects, every await yields | `NoResurrection`, `LatestSocketKept` |
| recovery | MCVaultAdmission | 2 host ids, 1 guest | violation: a returning host with a fresh id finds its own vault full |
| app | MCSessionLifecycle | 2 pages, 16 ticks, TTL 4, cap 12 | `NoCutOff`, `LifetimeBounded`, `AbandonedReaped` |
| delivery | MCOutbox | 2 messages, 1 fault, fairness | `ImplementsDelivery`, `StoredUntilShown`, `ShownOnce`; `FlushDelivers`: a flush over a settled channel brings what it finds to the reader |
| channels | MCPeerChannels | 2 faults, fairness | `SameRoot`, `ReadyNeverFails`; for faults that hit a pair at rest `NoFailedHandshake` and `Recovers`: both sides end up ready for good |
| stuck | MCPeerChannels | 1 fault | violation: a restart request is turned down although no handshake frame is on its way |
| mesh | Mesh | 1 fault, fairness | `ShownIsConnected`, `NoGhostEntry`; `AttemptEnds` and `HalfOpenEnds`: no attempt and no one-sided link lasts |
| call | Call | 2 calls, 1 fault, fairness | `CameraOff`, `GlareResolves`; `ConnectingEnds` and `OneSidedCallEnds` |
| dial | Dial | 2 sockets, 3 seats, 1 fault or remount, fairness | `NeverRedials`, `ShownConnected`; `Settles`: a page that dials gets in, is refused, or waits for a host that could still decide |
| page | MCPage | see below | `NoneStranded`, `ReadOnce`, `ReceiptsTrue`, `Converges`, `DeletedStays` (Talk); `PinsAreWanted`, `MutualIsShared`; `VerifiedWasCompared`; `ActiveIsDurable`; `NothingLeftOn`; `ProofAdmitsOnce`; `BurstBounded` |
| pace | Pacing | the source's rate 6, limits 10 and 20 | violation: signalling alone exceeds the relay's limit within one window |

Why the bounds are enough for the interesting cases. Three sockets for two or
three peers let one peer be replaced, and replaced again, while another is
connected; two session objects are needed for a handler to outlive its vault.
In the vault runs a socket is reused after its close event, so the number of
connections is not bounded. In `SessionLifecycle` the numbers keep the order
`Window < TTL < inactivity < cap` of the constants and `EmptyTtl` is two
sweeps; the clock runs past the cap. Two messages make an order in the
drain and a second flush. One fault (a lost socket, a reload, a throttled frame,
a closed channel, at any moment) keeps the liveness run within minutes; its
safety properties are proved for any number.
Two faults in `channels` let both clients lose their sockets, or one its socket
and then its page, at any two moments; sockets, reconnects and key
pairs have no bound of their own (a third fault has been tried, without a
difference in the results).

One fault in `mesh` and `call` (a socket that drops, a reload, a network that
fails; a signal lost, a departure, a path that breaks) may come at any
moment of an attempt and is followed by everything the code does to recover:
the ICE restart, its time-out, a new entry. Two calls let one end in the middle
of the next. In `dial` two sockets let the page replace one whose close event
is still to come; faults and remounts share their bound. A join that is on its
way is handled before the relay's time-out of the same socket, and of a
replaced socket before that of its successor.

In `page`: three sealed frames (`MaxSealed`) are one more than `MAX_SKIP` and
`MAX_SKIPPED_KEYS`, so that both limits are reached and never passed; one page writes and the other
shares files and looks at what arrives, which makes ratchet steps in both
directions; faults and reads share one bound (`MaxFaults`, `MaxRead`), a page
streams one file of two chunks. Two pages that know each other leave and come
back once, or a third is met, with three requests or book changes. Two vaults
and two keys for a contact; two tabs, two passphrases and three keys; four
presses of the button; two proofs, a clock off by two minutes and a nonce
cache of one entry. The pacer runs there with a rate of 2 and a limit of 3
beside direct frames; in `pace` with the source's numbers and no direct frame.

What the bounds exclude, knowingly: in `Recording` one prompt at a time
(section 7), and a recorder that stops takes less time than a microphone that
opens; in `Whitelist` a page's effects run before its next frame and before it
dials again, and both ends notice a departure before the return; in
`Membership` what happens after an eviction; in `Talk` a terminal that
initiates the handshake; in `Pacing` more than one replaced socket at a time
and clock readings between two ticks.

`CHECK_DEADLOCK FALSE` appears where a bound ends the behaviours: the last
tick, the last message, the last fault.

## 5. Fairness

Safety runs assume none. `Outbox!Fairness` is weak fairness of what the event
loop, IndexedDB and TCP complete on their own: opening the outbox, the put of
a sealed record, the flush effect, the drain's steps, relaying, receiving,
receipts, joining (the client re-dials for ever), peer lists and handshakes.
No fault, no data channel and no message of a user is assumed to occur. The
property asks for no more faults after the bound, and for a flush that was
requested with the outbox open, since the code forgets other requests.

`PeerChannels!Fairness` is weak fairness of joining (the page re-dials), of the
relay's forwarding, of the pacer (tokens come back) and of the page's handler.
That the relay ever sees a close event is not assumed, nor any fault. `Recovers`
is promised for behaviours in which `clean` stays true: each fault found the
pair at rest, and the relay never put a dead socket on a roster. What happens
otherwise is in section 7.

`Mesh!Fairness`: a page's callbacks and frames are handled (`Page`), an armed
timer fires, and a data channel whose transport is up opens, or closes when
the far end is gone. That a transport comes up is not assumed: `AttemptEnds`
rests on the time-out. `Call!Fairness`: callbacks run, the connect timer fires,
and a connection whose far end is gone fails, since the browser's ICE consent
expires. No user is assumed to answer a prompt or a call. `Dial!Fairness`: the
event loops of page, terminal and relay handle every socket event and timer,
and a connection attempt ends. Nobody is assumed to accept a guest, which is
why `Settles` admits a page that waits.

## 6. What is proved

For every value of the constants that satisfies the module's assumption:

* `VaultAdmission_proofs`: `TypeCorrect`; `RosterBounded` (`Capacity`);
  `NeverResurrected` (`NoResurrection`); `LatestSocketKeeps`
  (`LatestSocketKept`). Capacity is not inductive alone: what a suspended
  handler will do next depends on the check it has passed, so the invariant
  carries the types and that the roster of each object is a finite set within
  bounds at every await. `NoResurrection` needs that every object number a
  handler holds and that is not in the store is known as deleted.
  `LatestSocketKept` needs that a key of `conn`, when set, belongs to the
  socket that registered last, and that a handler which clears a key has just
  compared it.
  `PresenceIsExact` (`PresenceExact`), `RosterAgrees` (`RosterAgreement`) and
  `PendingHoldsSocket` (`PendingHasSocket`) are about moments at which no
  handler is under way, and assume the build (`AwaitYields = FALSE`), as the
  run does. Their invariant `Settling` says which handlers can be under way
  together, and that they hold the stored object (`Serial`); what each relies on
  from the checks it has passed (`Relied`); that keys of `conn` lead to sockets
  bound to the peer (`Bound`); and, of the vault at any moment, that each
  property holds unless a handler under way has still to restore it: a close
  that has not saved (`Counted`), a reply or roster to send (`Roster`), a guest
  to register or to free (`Queue`).
* `SessionLifecycle_proofs`: `TypeCorrect`; `LifetimesBounded`
  (`LifetimeBounded`); `AbandonedAreReaped` (`AbandonedReaped`);
  `ParticipantsNotCutOff` (`NoCutOff`, for the app's own callers, with the
  named assumption on the constants). The invariant ties each page's countdown
  to the vault's `expiresAt` and the sweep's countdown to the clock.
* `UseRelay_proofs`, Outbox: `TypeCorrect`; `NoDuplicates` (`ShownOnce`);
  `KeptUntilShown` (`StoredUntilShown`); `DeliveryImplemented`
  (`ImplementsDelivery`). The invariant says where copies come from
  (`Provenance`: each frame, record and snapshot entry is a written message)
  and where receipts come from (`Receipted`: each, wherever it is, is for a
  message shown).
* `UseRelay_proofs`, Whitelist: `OnlyWantedPinned` (`PinsAreWanted`). An answer is
  read long after the request. `WhitelistInv` says that each frame on its way is
  due: a request comes from a page whose user wants its reader, an answer goes to
  one whose user wants the page that answers; and so with the requests on
  screen.
  `MutualShared` (`MutualIsShared`) is about moments at which nothing is on its
  way, with finitely many pages (`FewPages`). No page acknowledges an
  announcement, and none is repeated but when an effect's dependencies change,
  so `MutualInv` says of any moment that what a page announced last is known to
  each other page, or is the last it has on its way there, or will be announced
  again (`Again`: the page is absent, or the number of pages it shows or will
  show is not the one its effect ran with); that the last roster on its way to a
  page, else the one it shows, is who is there; and that pins computed since the
  last change are those of the contact book. A page that comes back is told
  everything because the roster with it has one page more than the one before:
  one of the two differs in number from what the effect ran with.
* `PeerChannels_proofs`: `TypeCorrect`; `SameRootAlways` (`SameRoot`);
  `ReadyHolds` (`ReadyNeverFails`); `NoneFails` (`NoFailedHandshake`), without a
  bound on faults. Nothing in the argument for `SameRoot` depends on the order
  of frames. Keys come from a counter; the invariant `Sound` says of a pair of keys that a
  message 3 has confirmed (`Confirmed`) that the initiator holds it, if it
  still holds that key of its own, and that every pair offered since
  (`Offered`) for a later initiator key has a later responder key in it. Two
  ready channels with different pairs would then be ordered one way by the
  initiator's keys and the other way by the responder's.
  `ReadyNeverFails` depends on the order. A page's lane, its uplink and the other
  page's downlink are one line of frames, which losses thin out and nothing
  reorders (`Line`, `Thinner`): of two handshake frames of one page the
  one in front carries the older initiator key, and a message 1 is never in
  front of a message 3 (`Precedes`). `Turns` draws the
  conclusion for the frames under way: a message 2 is older than every message 1
  and than none of the messages 3; no frame is newer than the channel that would
  read it; and for a channel that is ready there is no message 2 or 3 left to
  read, which are the only ones that can fail.
  `NoFailedHandshake` is about runs in which every fault finds the pair at rest,
  so `Calm` says what such a pair may look like: each message 1, 2 or 3 under way
  finds the channel it is for (`Tidy`), so that each opens; while a socket is
  closed nothing is under way but what the relay tells of it (`Hushed`); and a
  `gone` is read before anything else has begun (`ToldFirst`), so that the
  channel it drops is not one of a new handshake. TLC checked the invariants on
  the instance of the run, with 2 and 3 faults, before they were proved.
* `Mesh_proofs`: `TypeCorrect`; `ShownLinksAreOpen` (`ShownIsConnected`);
  `NoGhosts` (`NoGhostEntry`), without a bound on faults. That a late frame
  brings back no entry depends on the order of the relay's stream. `Streams`
  says that a frame of the peer comes only when the page has last been told
  that the peer is there (`Grounded`), and that while both are online a page
  that has read everything will believe it (`Believes`), so that what the peer
  sends next is grounded too. Then an entry, its shown state and the roster
  agree page by page (`Links`).
* `Call_proofs`: `TypeCorrect`; `CameraStaysOff` (`CameraOff`), without a bound
  on calls and faults. The camera is asked for at one time and granted at
  another. The invariant says that a page captures what its hook knows of and
  nothing else (`CapturesKnown`), that the prompt is up only before a call
  (`PromptBeforeCall`) and that before a call the hook holds no stream
  (`NoStreamBeforeCall`); so a late grant never takes the place of a stream
  that runs. `GlareIsResolved` (`GlareResolves`): the property says nothing of
  the states on the way, so `GlareInv` lists them: while nothing fails the first
  call is at one of eight stages, from the caller's prompt over the ring to the
  two offers and the answer to one of them (`Stage`), or it is over, or what
  ends it is on its way (`Over`). A stage fixes both inboxes and both
  connections but for what the callbacks may do in either order. For the proof
  each action is first put as what it does to one page and its frames
  (`Moves`); then each stage is shown to lead to itself, the next or the end. In
  `Settled`, the only stage in which nothing is left to read or send, both
  connections are linked.
* `Dial_proofs`: `RefusedForGood` (`NeverRedials`); `ConnectedIsAdmitted`
  (`ShownConnected`), for any number of sockets, seats and faults. The
  properties speak of a page that is mounted once, and so does the invariant
  (section 7 has what a remount breaks). Such a page has one socket at a time,
  and none while its timer runs (`OneSocket`); it dials only while it should,
  and never after a refusal (`DialsOnPurpose`); the relay's entry for it is a
  socket it knows (`RelayKnows`); and a `joined` that is on its way or
  has been read is still true, or the relay has hung up since (`JoinedIsTrue`).
* `Page_proofs`, Talk: `DeletedForGood` (`DeletedStays`), `DeliveredIsShown`
  (`ReceiptsTrue`), for any number of messages and faults, with a terminal or
  without. Receipts wait, are sealed, and cross frames on another path. The
  invariant `TalkInv` follows one from the reader's list to the author's mark: a
  receipt under way is for a message its reader wrote, and unless it is a mark
  of reading the other page shows that message whole (`Vouched`); the two copies
  of a message agree on who wrote it and what it is (`Kept`); and no frame is on
  the two paths twice (`Ways`), so that a frame which opens a message finds none there (`Carried`) and never
  starts one again that was deleted or marked.
  `ForwardSecrecy` (`ReadOnce`) is local to each page. A message key is a chain
  and a place in it, and a chain has the length of the root key it was derived
  with; so no induction over the key terms is needed. `Secrecy` says that every
  key a page has used or keeps is one it has derived: of a chain no longer than
  its root key, and in the chain it reads now before the next place (`Past`);
  that the kept keys differ from one another (`KeyStore`); and that what was
  opened is not among them (`KeySpent`). A ratchet step starts a chain longer
  than any before it, and a gap keeps only keys at or after the next place, so
  that neither derives a used key again (`DecryptKeeps`).
  `NoFrameStranded` (`NoneStranded`) needs both ends of a channel, and its
  invariant `InStep` says how they stand to each other. One end is a step ahead
  of the other (`Tied`: `Fresh` before the responder's first step, `Leads` ever
  after). A frame under way `Reaches` its reader: its key is kept, or it is
  further on in the chain being read, or it is of the chain that comes next
  (`Linked`). `Roomy` bounds the kept keys and what the reader has not come to,
  together, by the frames sealed so far; that is why the bounds of the theorem
  are `MAX_SKIP + 1` and `MAX_SKIPPED_KEYS + 1`, on all that is sealed and not
  on a gap. `Lines` adds that no two frames share a slot.
  `NoFrameDropped` has no such bound. It speaks of one path without faults, where
  frames stand in the order sealed (`OneLine`) and nothing is lost, so that no
  key is kept and whatever the reader has not come to is under way (`Expected`);
  the frame in front is then the one the reader comes to next.
  `PagesConverge` (`Converges`) speaks of moments at which all is read; of the
  moments before, `InTouch` says that a page will show what the author shows
  once it has read the frames about a message (`Catches`): the frame that opens
  it is under way if it is not shown, the edits under way lead from the text
  shown to the author's, and a deletion is under way if only the author has it.
  `TalkTypes` rests on `RatchetsCounted`: a frame's number in its chain is below
  the number of frames sealed, so that reading never counts past it.
* `Page_proofs`, Recording: `PromptsAreCounted`, for any number of prompts;
  `NothingStaysOn` (`NothingLeftOn`) with `MaxPrompts = 1`. This is a
  restriction the code does not enforce: with two prompts the property is false
  (section 7).
* `Page_proofs`, Pacing: `PacingInvariant`; `BurstAlwaysBounded` (`BurstBounded`);
  `NeverAlwaysStalls` (frames that wait in a queue that is not paused have an
  armed timer); `TwiceIsEnough`: with a limit of at least twice the rate the
  relay would drop no signalling (the source has 10 and 6). The bound is not
  inductive alone, since what a window will count depends on the tokens left.
  `Budget` adds these: what is counted and what could be written at once
  are together at most `RATE` plus the window's age. A write moves tokens
  from one side of the sum to the other, a tick adds one to both sides.
* `Page_proofs`, Membership: `ProofsAdmitOnce` (`ProofAdmitsOnce`), if
  `TOLERANCE <= CONN_WINDOW`; both are a minute in the source. The invariant
  says that a proof that has admitted is in the cache with a time within the
  tolerance of its timestamp, or is too old to be accepted (`Spent`), and that a
  new proof's nonce has admitted nothing (`Numbered`). Pruning takes an entry
  only two windows after it was made, by then its proof is too old.
* `Page_proofs`, Identity: `ActiveKeysDurable` (`ActiveIsDurable`). An unlock works on
  what it has read while other tabs replace it, so the invariant asks the same
  of the key being unlocked as of the key in use (`Held`).
* `Page_proofs`, Verification: `NeverVerifiedUncompared` (`VerifiedWasCompared`). Tabs
  save and read back whole copies, so each copy must be sound on its own
  (`Confirmed`): every pin in it was confirmed for the vault and peer it is
  kept under.
* `Page_proofs`, the page: `EachPartRuns`: a behaviour of `MCPage` is one of
  each of its parts, so what is proved of the parts holds of the composition.

Every invariant and action property that a passing run checks is stated by a
theorem. Only model-checked: all liveness (`Recovers`, `FlushDelivers`,
`AttemptEnds`, `HalfOpenEnds`, `ConnectingEnds`, `OneSidedCallEnds`,
`Settles`), which is out of the prover's reach, and the violations.

## 7. Disagreements

Three are runs of kind "violation" and entries of `findings`, with the line of
the comment or document: the recovery of a full vault (`recovery`), restart
requests turned down with nothing on its way (`stuck`), and bursts of
signalling above the relay's limit (`pace`).

Others were met while modelling. TLC finds these definitions violated when they
are given to a run; no run of the project checks them.

* `SessionLifecycle!RefreshExtends`: a refresh can shorten a vault's life
  (`docs/backend.md`: it "Extends the session TTL").
* `SessionLifecycle!QuietVaultsReaped`: refreshes keep a vault without messages
  past its inactivity limit (`docs/security.md`).
* `Outbox!RetriesReachTheReader`: the relay notes a nonce before it knows
  whether the frame can be delivered, and refuses the retry of a message that
  nobody has received (`outbox-store.ts` promises retries).
* `Outbox!NothingLeftBehind`: an entry sealed after the flush's snapshot stays
  unsent until something else asks for a flush.
* `Call!NeverCallsTheGone`: a camera granted after the peer has left starts a
  call to nobody (`useCall.ts:227-228`).
* `Mesh!EnsureRevives`: an entry that failed stays as it is when the peer comes
  back, while the interface shows it as connecting (`p2p-policy.ts:75-77`).
* `Recording!ReleaseNotLost` with `MaxPrompts = 2`: press, release and press
  again before the first prompt is answered, and both answers find the button
  held; the second recorder replaces the first in the refs, whose microphone
  stays on. The comment at `ChatRoom.tsx:231-232` promises that a release is
  not lost. `NothingLeftOn` is checked with one prompt at a time.
* `Dial`: `NeverRedials` and `ShownConnected` are stated for a page that is
  mounted once. The close event of a socket that a remount has replaced marks
  the new connection as lost, pauses its queue and dials again.

Why `Recovers` is restricted to `clean` behaviours: the pair is left without a
secured channel when a handshake frame is lost with its socket or throttled, or
when a roster names a peer whose socket is dead and the message 1 sent to it is
lost (the initiator stays `handshaking` and ignores restart requests until it
reloads or sees the other leave its peer list), and when a message 2 written
for an older message 1 reaches a newer attempt (the initiator's channel is
`failed`, and only a responder that loses its own channel asks for another).

An observation that is no disagreement: a drain works on the snapshot it took,
so it may re-send, or put back into the queue, a message whose receipt arrived
meanwhile. `StoredUntilShown`, `ShownOnce` and `ImplementsDelivery` hold in
spite of it, because the reader knows the nonce.

## 8. Not modelled

* Cryptographic algorithms: a frame opens or does not, a signature is its
  key's. Padding, sealing of chunks, passphrase-locked files.
* The peer mailbox: a copy that is carried for somebody else is sent under its
  author's id, and the relay refuses it (`SENDER_MISMATCH`).
* Validation and formatting of single frames, bunker ids, the ICE
  configuration, the reason a failed link is given.
* In `useRelay`: aliases, typing frames and their throttle, latency,
  disappearing messages. In `useCall`: muting and changing the camera.
* `useMembership.forgetToken` and `useIdentity.useBurner`, which have no caller,
  and the change of the at-rest key when an identity is unlocked.
* At the relay: the connection limit per IP, back-pressure, pruning of
  `seenNonces` by age, the eviction of `deleted`, GET and health, shutdown
  other than as a loss of all vaults (`Dial`).
* Groups of more than one reader in `Outbox`.
* In the terminal client: `create`, aliases, colours.
* The interface apart from voice recording and the identity panel; logging and
  wiring.
