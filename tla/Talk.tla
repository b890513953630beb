-------------------------------- MODULE Talk --------------------------------
(* A conversation over an open channel: texts, edits, deletions, receipts   *)
(* and streamed files between two pages (useRelay, peer-channels,           *)
(* file-stream).  Texts, edits and the opening of a file are sealed by the  *)
(* double ratchet.  Every frame takes the direct link when it is up and the *)
(* relay otherwise, so that frames of the two paths overtake each other.    *)
(* The responder may be the terminal client (packages/cli, join.ts), which   *)
(* has no direct link and knows nothing but texts.                          *)
EXTENDS Ratchet

CONSTANTS
    Alice,      \* initiator of the handshake
    Bob,
    Chunks,     \* chunks of a streamed file
    Writers,    \* bound: pages whose users write, edit, delete and stream files
    Sharers,    \* bound: pages whose users send small files
    Readers,    \* bound: pages whose users look at what arrives
    MaxRead,    \* bound: messages looked at and faults, together
    MaxSealed,  \* bound: frames sealed by the ratchet, of both pages
    MaxFaults   \* bound: changes of the direct link, frames lost and messages looked at

ASSUME PagesDiffer == Alice # Bob
ASSUME Actors == Writers \cup Sharers \cup Readers \subseteq {Alice, Bob}
ASSUME Bounds == Chunks \in Nat \ {0} /\ MaxSealed \in Nat /\ MaxRead \in Nat /\ MaxFaults \in Nat

VARIABLES
    rat,      \* the ratchet of each page
    link,     \* the direct channel is open, seen alike by both pages
    relay,    \* frames on their way to a page through the relay
    direct,   \* frames on their way to a page through the data channel
    messages, \* what the page shows, by nonce
    receipts, \* receipts delayed or on their way to a page, in any order
    readSent, \* readSentRef: nonces the page has sent a READ for
    sending,  \* the stream the page is sending
    receiver, \* streamRecvRef: the stream the page is receiving
    opened,   \* history: slots the page has decrypted
    sealed,   \* frames sealed so far, which number the nonces
    faults,   \* faults so far (bounded by MaxFaults)
    terminals \* pages that are a terminal

queues == <<relay, direct, receipts>>
files == <<sending, receiver>>
vars == <<rat, link, queues, messages, readSent, files, opened, sealed, faults, terminals>>

Pages == {Alice, Bob}
Other(p) == IF p = Alice THEN Bob ELSE Alice
Nonces == 1..MaxSealed

\* text: 0 as sent, else the number of the edit shown.  whole: all of it is there.
Absent == [kind |-> "none", own |-> FALSE, text |-> 0, deleted |-> FALSE,
           status |-> "none", whole |-> FALSE, fileError |-> FALSE]
Shown(kind, own, whole) ==
    [Absent EXCEPT !.kind = kind, !.own = own, !.whole = whole,
                   !.status = IF own THEN "sent" ELSE "delivered"]

NoSlot == [dh |-> <<>>, n |-> 0, pn |-> 0, mk |-> <<>>]
NoStream == [nonce |-> 0, next |-> 0]
Closed == -1   \* no receiver for a transfer; an open one counts its chunks

Frame(type, nonce, arg, slot) == [type |-> type, nonce |-> nonce, arg |-> arg, slot |-> slot]
Plain(type, nonce) == Frame(type, nonce, 0, NoSlot)

\* dispatch: one path per frame, for the pages the direct link if it is open.
dispatch(p, f) ==
    IF link THEN /\ direct' = [direct EXCEPT ![Other(p)] = Append(@, f)]
                 /\ UNCHANGED relay
    ELSE /\ relay' = [relay EXCEPT ![Other(p)] = Append(@, f)]
         /\ UNCHANGED direct

Seal(p) == /\ sealed < MaxSealed
           /\ sealed' = sealed + 1
           /\ rat' = [rat EXCEPT ![p] = Advanced(@)]

(* ------------------------------ what users do ---------------------------- *)

Sends(p, kind) ==
    /\ Seal(p)
    /\ dispatch(p, Frame(kind, sealed', 0, Slot(rat[p])))
    /\ messages' = [messages EXCEPT ![p][sealed'] = Shown(kind, TRUE, TRUE)]
    /\ UNCHANGED <<link, receipts, readSent, files, opened, faults>>

sendMessage(p) == p \in Writers /\ Sends(p, "text")

\* A file small enough for the relay travels whole, as a text does.
sendFile(p) == p \in Sharers /\ Sends(p, "file")

editMessage(p, n) ==
    /\ p \in Writers /\ messages[p][n].own /\ messages[p][n].kind = "text"
    /\ Seal(p)
    /\ dispatch(p, Frame("edit", n, sealed', Slot(rat[p])))
    /\ messages' = [messages EXCEPT ![p][n].text =
                       IF messages[p][n].deleted THEN @ ELSE sealed']
    /\ UNCHANGED <<link, receipts, readSent, files, opened, faults>>

deleteMessage(p, n) ==
    /\ p \in Writers /\ messages[p][n].own /\ ~messages[p][n].deleted
    /\ dispatch(p, Plain("delete", n))
    /\ messages' = [messages EXCEPT ![p][n].deleted = TRUE, ![p][n].text = 0]
    /\ UNCHANGED <<rat, link, receipts, readSent, files, opened, sealed, faults>>

\* A receipt leaves after a random delay, by the path of that moment: it may
\* overtake anything, and one that never arrives is one that is lost.
dispatchJittered(p, f) == receipts' = [receipts EXCEPT ![Other(p)] = @ \cup {f}]

Looks == Cardinality(readSent[Alice]) + Cardinality(readSent[Bob])

markAsRead(p, n) ==
    /\ p \in Readers /\ Looks + faults < MaxRead
    /\ messages[p][n].kind # "none" /\ ~messages[p][n].own
    /\ n \notin readSent[p]
    /\ readSent' = [readSent EXCEPT ![p] = @ \cup {n}]
    /\ dispatchJittered(p, Plain("read", n))
    /\ UNCHANGED <<rat, link, relay, direct, messages, files, opened, sealed, faults>>

(* --------------------------- frames that arrive -------------------------- *)

\* The next frame of one of the two paths; in its order.
Arrives(p, f) ==
    \/ /\ relay[p] # <<>> /\ f = Head(relay[p])
       /\ relay' = [relay EXCEPT ![p] = Tail(@)] /\ UNCHANGED direct
    \/ /\ direct[p] # <<>> /\ f = Head(direct[p])
       /\ direct' = [direct EXCEPT ![p] = Tail(@)] /\ UNCHANGED relay

Heads(p) == {s[1] : s \in {relay[p], direct[p]} \ {<<>>}}

\* decryptFrom: a frame that cannot be read is dropped without a trace.
decryptFrom(p, f) ==
    LET d == decrypt(rat[p], f.slot) IN
    /\ rat' = [rat EXCEPT ![p] = d.s]
    /\ opened' = [opened EXCEPT ![p] = IF d.ok THEN @ \cup {f.slot} ELSE @]

Readable(p, f) == decrypt(rat[p], f.slot).ok

ReceivesText(p) == \E f \in Heads(p) :
    /\ f.type \in {"text", "file"} /\ Arrives(p, f) /\ decryptFrom(p, f)
    /\ IF Readable(p, f)
       THEN /\ messages' = [messages EXCEPT ![p][f.nonce] =
                                IF @.kind = "none" THEN Shown(f.type, FALSE, TRUE) ELSE @]
            /\ dispatchJittered(p, Plain("ack", f.nonce))
       ELSE UNCHANGED <<messages, receipts>>
    /\ UNCHANGED <<link, readSent, files, sealed, faults>>

Bug_edited(m, f) == IF m.kind = "text" /\ ~m.own THEN [m EXCEPT !.text = f.arg, !.deleted = FALSE]
                    ELSE m
\* Only the author's own message, and none that is deleted.
edited(m, f) == IF m.kind = "text" /\ ~m.own /\ ~m.deleted THEN [m EXCEPT !.text = f.arg] ELSE m

ReceivesEdit(p) == \E f \in Heads(p) :
    /\ f.type = "edit" /\ Arrives(p, f) /\ decryptFrom(p, f)
    /\ messages' = IF Readable(p, f)
                   THEN [messages EXCEPT ![p][f.nonce] = edited(@, f)] ELSE messages
    /\ UNCHANGED <<link, receipts, readSent, files, sealed, faults>>

Bug_deletes(m) == IF m.kind # "none" /\ ~m.own /\ m.text = 0 THEN [m EXCEPT !.deleted = TRUE] ELSE m
deletes(m) == IF m.kind # "none" /\ ~m.own THEN [m EXCEPT !.deleted = TRUE, !.text = 0] ELSE m

ReceivesDelete(p) == \E f \in Heads(p) :
    /\ f.type = "delete" /\ Arrives(p, f)
    /\ messages' = [messages EXCEPT ![p][f.nonce] = deletes(@)]
    /\ UNCHANGED <<rat, link, receipts, readSent, files, opened, sealed, faults>>

ReceivesReceipt(p) == \E f \in receipts[p] :
    /\ receipts' = [receipts EXCEPT ![p] = @ \ {f}]
    /\ messages' = [messages EXCEPT ![p][f.nonce].status =
                       IF f.type = "read" \/ @ = "seen" THEN "seen" ELSE "delivered"]
    /\ UNCHANGED <<rat, link, relay, direct, readSent, files, opened, sealed, faults>>

(* ----------------------------- streamed files ---------------------------- *)

\* allConnected: over the direct link or not at all.
allConnected == link
dispatchDirect(p, f) == /\ allConnected
                        /\ direct' = [direct EXCEPT ![Other(p)] = Append(@, f)]
                        /\ UNCHANGED relay

\* A transfer is known by its file id, here the nonce of its opening frame.
createFileStream(id) == [nonce |-> id, next |-> 0]
frames(t) == Frame("chunk", t.nonce, t.next, NoSlot)

\* (Bound: a page streams one file.)
sendFileStream(p) ==
    /\ p \in Writers /\ \A n \in Nonces : messages[p][n].kind # "file"
    /\ Seal(p)
    /\ dispatchDirect(p, Frame("init", sealed', 0, Slot(rat[p])))
    /\ messages' = [messages EXCEPT ![p][sealed'] = Shown("file", TRUE, TRUE)]
    /\ sending' = [sending EXCEPT ![p] = createFileStream(sealed')]
    /\ UNCHANGED <<link, receipts, readSent, receiver, opened, faults>>

\* The next chunk, or the end of the stream.
SendsChunk(p) ==
    /\ sending[p] # NoStream
    /\ LET t == sending[p] IN
       /\ dispatchDirect(p, frames(t))
       /\ sending' = [sending EXCEPT ![p] = IF t.next + 1 = Chunks THEN NoStream
                                            ELSE [t EXCEPT !.next = @ + 1]]
    /\ UNCHANGED <<rat, link, receipts, messages, readSent, receiver, opened, sealed, faults>>

\* PEER_LEFT, SEND_FAILED: the link is down when the next chunk is due.
StreamInterrupted(p) ==
    /\ sending[p] # NoStream /\ ~allConnected
    /\ messages' = [messages EXCEPT ![p][sending[p].nonce].fileError = TRUE]
    /\ sending' = [sending EXCEPT ![p] = NoStream]
    /\ UNCHANGED <<rat, link, queues, readSent, receiver, opened, sealed, faults>>

\* The opening of a stream or a whole small file: both arrive as a file.
decodeFileStreamInit(f) == f.type = "init"

\* A receiver that has no chunk yet; one that fails is given up (fail).
FileStreamReceiver == 0
fail == Closed

Bug_ReceivesInit(p) == \E f \in Heads(p) :
    /\ decodeFileStreamInit(f) /\ Arrives(p, f) /\ decryptFrom(p, f)
    /\ receiver' = [receiver EXCEPT ![p][f.nonce] = 0]
    /\ messages' = [messages EXCEPT ![p][f.nonce] = Shown("file", FALSE, FALSE)]
    /\ dispatchJittered(p, Plain("ack", f.nonce))
    /\ UNCHANGED <<link, readSent, sending, sealed, faults>>
ReceivesInit(p) == \E f \in Heads(p) :
    /\ decodeFileStreamInit(f) /\ Arrives(p, f) /\ decryptFrom(p, f)
    /\ IF Readable(p, f) /\ receiver[p][f.nonce] = Closed
       THEN /\ receiver' = [receiver EXCEPT ![p][f.nonce] = FileStreamReceiver]
            /\ messages' = [messages EXCEPT ![p][f.nonce] =
                                IF @.kind = "none" THEN Shown("file", FALSE, FALSE) ELSE @]
       ELSE UNCHANGED <<receiver, messages>>
    /\ UNCHANGED <<link, receipts, readSent, sending, sealed, faults>>

\* The next chunk in order, or the whole transfer fails.
acceptFrame(next, f) == IF f.arg = next THEN next + 1 ELSE fail

isDone(next) == next = Chunks

\* parseFrame: the transfer that a binary frame belongs to.
frameFileId(f) == IF f.type = "chunk" THEN f.nonce ELSE 0

\* streamRecvRef forgets a transfer that is done.
settled(next) == IF isDone(next) THEN Closed ELSE next

ReceivesChunk(p) == \E f \in Heads(p) : LET id == frameFileId(f) IN
    /\ id # 0 /\ Arrives(p, f)
    /\ LET next == acceptFrame(receiver[p][id], f) IN
       IF receiver[p][id] = Closed THEN UNCHANGED <<receiver, messages, receipts>>
       ELSE /\ receiver' = [receiver EXCEPT ![p][id] = settled(next)]
            /\ messages' = [messages EXCEPT
                  ![p][id].fileError = @ \/ next = Closed,
                  ![p][id].whole = isDone(next),
                  ![p][id].status = IF isDone(next) THEN "delivered" ELSE @]
            /\ IF isDone(next) THEN dispatchJittered(p, Plain("ack", id))
               ELSE UNCHANGED receipts
    /\ UNCHANGED <<rat, link, readSent, sending, opened, sealed, faults>>

\* No frame for STREAM_RECEIVER_TTL_MS: the receiver is dropped.
StreamStalls(p) == \E n \in Nonces :
    /\ receiver[p][n] # Closed
    /\ receiver' = [receiver EXCEPT ![p][n] = Closed]
    /\ messages' = [messages EXCEPT ![p][n].fileError = TRUE]
    /\ UNCHANGED <<rat, link, queues, readSent, sending, opened, sealed, faults>>

(* ------------------------------ the terminal ----------------------------- *)

\* It seals and prints a text at once; nothing marks it as delivered later.
sendChat(p) == Sends(p, "text")

\* onEnvelope.  An edit or a file is dropped sealed as it is, and leaves a gap
\* in the chain; a deletion and receipts change nothing.
TerminalReads(p) == \E f \in Heads(p) :
    /\ Arrives(p, f)
    /\ IF f.type = "text"
       THEN /\ decryptFrom(p, f)
            /\ IF Readable(p, f)
               THEN /\ messages' = [messages EXCEPT ![p][f.nonce] = Shown("text", FALSE, TRUE)]
                    /\ dispatchJittered(p, Plain("ack", f.nonce))
               ELSE UNCHANGED <<messages, receipts>>
       ELSE UNCHANGED <<rat, opened, messages, receipts>>
    /\ UNCHANGED <<link, readSent, files, sealed, faults>>

TerminalSkipsReceipt(p) == \E f \in receipts[p] :
    /\ receipts' = [receipts EXCEPT ![p] = @ \ {f}]
    /\ UNCHANGED <<rat, link, relay, direct, messages, readSent, files, opened, sealed, faults>>

(* -------------------------------- faults --------------------------------- *)

Fault == /\ Looks + faults < MaxFaults
         /\ faults' = faults + 1

LinkOpens == /\ Fault /\ ~link /\ terminals = {}
             /\ link' = TRUE
             /\ UNCHANGED <<rat, queues, messages, readSent, files, opened, sealed>>

\* What the data channel still carried is lost.
LinkDies == /\ Fault /\ link
            /\ link' = FALSE
            /\ direct' = [p \in Pages |-> <<>>]
            /\ UNCHANGED <<rat, relay, receipts, messages, readSent, files, opened, sealed>>

RelayLoses(p) == /\ Fault /\ relay[p] # <<>>
                 /\ relay' = [relay EXCEPT ![p] = Tail(@)]
                 /\ UNCHANGED <<rat, link, direct, receipts, messages, readSent, files,
                                opened, sealed>>

(* ------------------------------ specification ---------------------------- *)

Init == /\ rat = [p \in Pages |-> IF p = Alice THEN initAlice(Alice, Bob)
                                  ELSE initBob(Bob, Alice)]
        /\ terminals \in SUBSET {Bob}
        /\ link \in BOOLEAN /\ (link => terminals = {})
        /\ relay = [p \in Pages |-> <<>>] /\ direct = [p \in Pages |-> <<>>]
        /\ messages = [p \in Pages |-> [n \in Nonces |-> Absent]]
        /\ receipts = [p \in Pages |-> {}] /\ readSent = [p \in Pages |-> {}]
        /\ sending = [p \in Pages |-> NoStream]
        /\ receiver = [p \in Pages |-> [n \in Nonces |-> Closed]]
        /\ opened = [p \in Pages |-> {}]
        /\ sealed = 0 /\ faults = 0

User(p) == \/ sendMessage(p) \/ sendFile(p) \/ sendFileStream(p)
           \/ \E n \in Nonces : editMessage(p, n) \/ deleteMessage(p, n) \/ markAsRead(p, n)

Page(p) == \/ ReceivesText(p) \/ ReceivesEdit(p) \/ ReceivesDelete(p) \/ ReceivesReceipt(p)
           \/ ReceivesInit(p) \/ ReceivesChunk(p)
           \/ SendsChunk(p) \/ StreamInterrupted(p)

Terminal(p) == sendChat(p) \/ TerminalReads(p) \/ TerminalSkipsReceipt(p)

Next == /\ UNCHANGED terminals
        /\ \/ \E p \in Pages \ terminals : User(p) \/ Page(p) \/ StreamStalls(p)
           \/ \E p \in Pages : RelayLoses(p)
           \/ \E p \in terminals : Terminal(p)
           \/ LinkOpens \/ LinkDies

Spec == Init /\ [][Next]_vars

(* ------------------------------- properties ------------------------------ *)

\* Types of the variables.
TypeOK == /\ link \in BOOLEAN /\ terminals \subseteq Pages /\ sealed \in 0..MaxSealed /\ faults \in 0..MaxFaults
          /\ \A p \in Pages : /\ receipts[p] \subseteq {Plain(t, n) : t \in {"ack", "read"}, n \in Nonces}
                              /\ readSent[p] \subseteq Nonces
                              /\ rat[p].Ns \in 0..MaxSealed /\ rat[p].Nr \in 0..MaxSealed
                              /\ receiver[p] \in [Nonces -> Closed..(Chunks - 1)]
                              /\ \A n \in Nonces : messages[p][n].text \in 0..MaxSealed

OnTheWay(p) == {f \in UNION {{s[i] : i \in DOMAIN s} : s \in {relay[p], direct[p]}} :
                   f.slot # NoSlot}

\* However the two paths reorder and lose frames, a sealed frame that arrives
\* can be opened, while no more than MAX_SKIP are missing (skipMessageKeys,
\* and the ratchet step of a responder that speaks first).
NoneStranded == MaxSealed <= MAX_SKIP + 1 /\ MaxSealed <= MAX_SKIPPED_KEYS + 1 =>
    \A p \in Pages : \A f \in OnTheWay(p) : Readable(p, f)

\* Forward secrecy, as far as the code keeps keys: what was opened once cannot
\* be opened again, so its key is gone and a replayed frame changes nothing.
ReadOnce == \A p \in Pages : \A s \in opened[p] : ~decrypt(rat[p], s).ok

\* The author's marks are true: a message marked delivered is shown on the other
\* page, and a file so marked arrived complete, each chunk in its place.
ReceiptsTrue == \A p \in Pages : \A n \in Nonces :
    LET m == messages[p][n]  o == messages[Other(p)][n] IN
    m.own /\ m.status = "delivered" => o.kind = m.kind /\ o.whole /\ ~o.fileError

Delivered == \A p \in Pages : relay[p] = <<>> /\ direct[p] = <<>>

\* On one path, once everything is read, both pages show the same: the same
\* messages, the latest edit, the same deletions.  (A terminal never does.)
Converges == faults = 0 /\ terminals = {} /\ Delivered =>
    \A n \in Nonces : LET a == messages[Alice][n]  b == messages[Bob][n] IN
        a.kind = b.kind /\ a.text = b.text /\ a.deleted = b.deleted

\* What was deleted stays deleted, and a message marked seen stays so, whatever
\* frames overtake each other.
DeletedStays == [][\A p \in Pages : \A n \in Nonces :
    /\ messages[p][n].deleted => messages'[p][n].deleted
    /\ messages[p][n].status = "seen" => messages'[p][n].status = "seen"]_vars
=============================================================================
